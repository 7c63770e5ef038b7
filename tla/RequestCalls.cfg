CONSTANTS
  t1 = t1
  t2 = t2
  m1 = m1
  m2 = m2
  Threads = {t1, t2}
  CallsOf <- CallsOfThread
  Ports = {9100, 9101}
  SdkPort = 9200
  NoPort = NoPort
  PtrSize = 4
  PortTexts <- Texts
  Numbers = {m1, m2}
  MaxCalls = 2
  Faults = {"socket", "setsockopt", "bind", "file", "loss"}
SPECIFICATION Spec
INVARIANTS TypeOK SocketsAccounted RequestNamesItsSocket OwnAnswer VerdictHonest RetrySafe MotionFileComplete
PROPERTIES CallsReturn ImplementsRemoteCall
