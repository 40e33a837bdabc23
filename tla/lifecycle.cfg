SPECIFICATION Spec
CONSTANTS
  MaxSecrets = 2
  MaxTime = 2
  LastRequest = 0
  Validity = 2
  Grace = 0
  Admissions = {a1}
  AllowOverlap = FALSE
  AllowManualDelete = FALSE
INVARIANTS LeaseInv RemovedIsCleanedUp
PROPERTIES UserOutlivesShoot InUseCredentialSurvives SuccessorBeforeRemoval ImplementsLease
CHECK_DEADLOCK FALSE
