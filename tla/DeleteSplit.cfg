SPECIFICATION MCSpec
CONSTANTS
  Memory = {1, 2, 3}
  Derived <- MCDerived
  Source <- MCSource
  Says <- MCSays
  Part = {"walk", "shoes"}
  Focus = {"none", "trip", "home"}
  NoFocus = "none"
  Day = {0, 30, 730}
  Limit = 1
  MaxStore = 2
  MaxFail = 1
  RepairsOverlap = FALSE
  RestoresOverlap = FALSE
  Entry = {m1, m2, m3}
  Places = 2
  Worker = {w1}
  Tick = tick
  Blank = blank
  Said = {v1}
  MaxTime = 1
  MaxIngest = 3
  MaxError = 1
  MaxCrash = 1
  DeletesOverlap = FALSE
  Messages = {0, 1, 2}
  InSession = {0, 1}
  MayDeleteSplit = TRUE
  Parts = {"batch"}
INVARIANTS
  DeletedIsGone
CHECK_DEADLOCK FALSE
