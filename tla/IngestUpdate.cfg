SPECIFICATION Spec
CONSTANTS
  None = None
  Tick = tick
  Memory = {m1}
  Text = {v1, v2}
  Unembedded = {}
  Request = {r1, r2}
  MaxVid = 2
  MaxFail = 0
  MaxCrash = 0
  MayUpdate = TRUE
  MayDelete = FALSE
  MayHangUp = FALSE
  RequestsOverlap = FALSE
  TickOverlaps = TRUE
INVARIANTS
  NewestContentComplete
CHECK_DEADLOCK FALSE
