SPECIFICATION Spec
CONSTANTS
  m1 = m1
  m2 = m2
  m3 = m3
  Memory = {m1, m2, m3}
  Derived <- MCDerived
  Ids <- MCIds
  Object = {austin, boston}
  Blank = blank
  NoMem = NoMem
  MaxTime = 2
  MaxClock = 1
  MaxRow = 4
  MaxBatch = 2
  MayCorrect = FALSE
SYMMETRY Values
INVARIANTS
  TypeOK
  OneCurrent
  ChainLinked
  OneValueAtEveryTime
  
  ReadsAgree
PROPERTIES
  PastIsStable
  SupersessionDemotesCard
