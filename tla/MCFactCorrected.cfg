SPECIFICATION Spec
CONSTANTS
  m1 = m1
  m2 = m2
  m3 = m3
  Memory = {m1, m2, m3}
  Derived <- MCDerived
  Ids <- MCIds
  Object = {austin, boston}
  Blank = blank
  NoMem = NoMem
  MaxTime = 1
  MaxClock = 0
  MaxRow = 4
  MaxBatch = 1
  MayCorrect = TRUE
INVARIANT
  OneCurrent
