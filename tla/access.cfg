SPECIFICATION Spec
CONSTANTS
  r1 = r1
  r2 = r2
  k1 = k1
  k2 = k2
  Region = {r1, r2}
  Configured = {r1, r2}
  Keystone = {k1, k2}
  KeystoneOf <- OwnKeystones
  MaxLength = 2
  MaxName = 3
  MaxSecrets = 3
INVARIANTS KubeconfigLeadsHome RegionsAgree WorkersAmongNodes LabelsAccepted LabelsAgree PlainNamesKept
CHECK_DEADLOCK FALSE
