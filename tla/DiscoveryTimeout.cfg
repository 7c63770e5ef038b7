CONSTANTS
  r1 = r1
  r2 = r2
  Robots = {r1, r2}
  Local = Local
  NoAddr = NoAddr
  Junk = Junk
  Nobody = Nobody
  Beats = {h1}
  Fds = {3, 4, 5}
  Calls <- SearchCalls
  Faults = {"loss"}
  RxBuf = 2
  MaxUnderWay = 2
SPECIFICATION Spec
PROPERTIES DiscoveryTimeoutSucceeds
