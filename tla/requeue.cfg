SPECIFICATION Spec
CONSTANTS
  MaxSecrets = 10
  MaxTime = 23
  Validity = 10
  Grace = 1
  Resync = 2
  Day = 2
  MaxTwins = 1
  MaxFailures = 1
  MaxRestarts = 1
INVARIANTS RenewedInTime ReferencedIsUsable UselessGoes
CHECK_DEADLOCK FALSE
