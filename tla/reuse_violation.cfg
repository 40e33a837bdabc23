SPECIFICATION Spec
CONSTANTS
  MaxSecrets = 2
  MaxTime = 1
  LastRequest = 1
  Validity = 4
  Grace = 0
  Admissions = {a1}
  AllowOverlap = TRUE
  AllowManualDelete = FALSE
PROPERTIES InUseCredentialSurvives
CHECK_DEADLOCK FALSE
