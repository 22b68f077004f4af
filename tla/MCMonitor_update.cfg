SPECIFICATION FairSpec
CONSTANTS
  m1 = m1 m2 = m2 m3 = m3 m4 = m4
  r1 = r1 r2 = r2
  A = A B = B None = None
  Conns = {m1, m2, m3, m4}
  MonNames = {A, B}
  Namings <- ThirdReturns
  Readers = {r1, r2}
  Home <- FirstReads
  Batches = 2
  Mortal = {m2}
  Started = {{m1}, {m2, m3}, {m2, m4}}
INVARIANTS ReadersOK StaticWhileMapped
PROPERTIES EveryBatchSeen PassesEnd WaitReturns
CHECK_DEADLOCK FALSE
