SPECIFICATION MCSpec
CONSTANTS
  i1 = i1  i2 = i2  i3 = i3  i4 = i4
  x = x  y = y
  Zero = zero
  NoCode = none
  Id = {i1, i2, i3, i4}
  Code = {x, y, zero}
  Memory = {m1}
  Words = {w1, w2}
  None = None
  r1 = r1  r2 = r2  r3 = r3
  Sender = {r1, r2, r3}
  Tick = tick
  MaxRowid = 3
  MaxFail = 1  MaxCrash = 1  MayHangUp = FALSE
  v1 = v1  v2 = v2
  p1 = p1  p2 = p2  p3 = p3
  Vector = {v1, v2}
  Worker = {p1, p2, p3}
  MaxVersion = 2  FlatThreshold = 1  MaxStore = 2  MaxSlot = 3  MaxOps = 5
  Turn = {0, 1, 2, 3}
  Said = {a, b}
  Window = 1
  Client = {c}
  MaxDelete = 1
  ta = ta  tb = tb  tc = tc
  Query = {q}
  Call = {c1, c2}
  Session = {s1}
  Absent = absent
  OldMemory = {i1, i2}
  From = {0, 3, 4, 6, 7, 8}
  MaxCut = 2  MaxOpen = 3
  pa = pa  pb = pb  pc = pc
  Predicates <- ThreePredicates
  Similarity <- CloseInTheMiddle
  Tau = 86  MaxFacts = 5  MaxSwitch = 1
  Model = {d1, d2}
  Filer = {b1, b2}
  Permuted = FALSE
  Parts = {"life", "segment", "cache", "windows", "models", "file", "predicates", "links"}
SYMMETRY Symmetry
INVARIANTS
  Types
  RowsAligned
  IndexesMirrorTables
  CacheCoherent
  PreparedFitsStored
  ModelsAnswerRight
PROPERTIES
  ImplementsMap
CHECK_DEADLOCK FALSE
