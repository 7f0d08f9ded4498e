SPECIFICATION Spec
CONSTANTS
  Turn = {0, 1, 2}
  Text = {a, b}
  Window = 1
  Request = {r}
  MayOverlap = FALSE
  MayResend = TRUE
  MaxDelete = 0
INVARIANTS
  WindowsComplete
CHECK_DEADLOCK FALSE
