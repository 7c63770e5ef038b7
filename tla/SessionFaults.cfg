CONSTANTS
  r1 = r1
  r2 = r2
  Robots = {r1, r2}
  Local = Local
  NoAddr = NoAddr
  Junk = Junk
  Nobody = Nobody
  Beats = {h1, h2}
  Fds = {3, 4}
  Calls <- RemoteCalls
  Faults = {"loss", "late"}
  RxBuf = 2
  MaxUnderWay = 2
SPECIFICATION Spec
SYMMETRY Alike
INVARIANTS TypeOK HeartbeatAlive HeartbeatToSession SuccessMeansAgreement
