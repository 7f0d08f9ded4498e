SPECIFICATION FairSpec
CONSTANTS
  m1 = m1
  m2 = m2
  r1 = r1
  r2 = r2
  None = None
  Tick = tick
  Memory = {m1, m2}
  Text = {v1, v2}
  Unembedded = {v2}
  Request = {r1, r2}
  MaxVid = 2
  MaxFail = 1
  MaxCrash = 1
  MayUpdate = FALSE
  MayDelete = TRUE
  MayHangUp = TRUE
  RequestsOverlap = TRUE
  TickOverlaps = TRUE
INVARIANTS
  OneContentIsSearchable
PROPERTIES
  AckedIsSearchable
  Recovered
CHECK_DEADLOCK FALSE
