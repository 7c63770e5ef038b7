CONSTANTS
  r1 = r1
  r2 = r2
  Robots = {r1}
  Local = Local
  NoAddr = NoAddr
  Junk = Junk
  Nobody = Nobody
  Beats = {h1}
  Fds = {3, 4}
  Calls <- LifeCalls
  Faults = {}
  RxBuf = 2
  MaxUnderWay = 2
SPECIFICATION Spec
INVARIANTS BeatNotToLocal
