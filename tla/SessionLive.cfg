CONSTANTS
  r1 = r1
  r2 = r2
  Robots = {r1}
  Local = Local
  NoAddr = NoAddr
  Junk = Junk
  Nobody = Nobody
  Beats = {h1, h2}
  Fds = {3, 4}
  Calls <- RemoteCalls
  Faults = {"loss", "late", "refuse"}
  RxBuf = 1
  MaxUnderWay = 2
SPECIFICATION FairSpec
PROPERTIES HeartbeatsDrain HeartbeatsFlow CallsReturn
