CONSTANTS
  r1 = r1
  r2 = r2
  Robots = {r1}
  Local = Local
  NoAddr = NoAddr
  Junk = Junk
  Nobody = Nobody
  Beats = {h1, h2}
  Fds = {3, 4, 5}
  Calls <- LifeCalls
  Faults = {"loss", "socket", "setsockopt", "send", "thread"}
  RxBuf = 2
  MaxUnderWay = 2
SPECIFICATION Spec
PROPERTIES SocketsAccounted ImplementsLink
