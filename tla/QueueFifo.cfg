CONSTANTS
  s1 = s1
  s2 = s2
  c1 = c1
  c2 = c2
  m1 = m1
  m2 = m2
  Threads = {s1, s2, c1}
  Nobody = Nobody
  MaxSize = 2
  MsgSize = 2
  Msgs = {m1, m2}
  Blank = Blank
  Duties <- Exchange
SPECIFICATION Spec
INVARIANTS TypeOK TokensAccounted NoOverrun
PROPERTIES ImplementsFifo
