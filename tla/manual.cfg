SPECIFICATION Spec
CONSTANTS
  MaxSecrets = 2
  MaxTime = 1
  LastRequest = 0
  Validity = 2
  Grace = 1
  Admissions = {a1}
  AllowOverlap = FALSE
  AllowManualDelete = TRUE
INVARIANTS RevokedBeforeRemoval
CHECK_DEADLOCK FALSE
