SPECIFICATION FairSpec
CONSTANTS
  MaxSecrets = 2
  MaxTime = 1
  LastRequest = 0
  Validity = 2
  Grace = 0
  Admissions = {a1}
  AllowOverlap = FALSE
  AllowManualDelete = FALSE
PROPERTIES Rotated CleanedUp
CHECK_DEADLOCK FALSE
