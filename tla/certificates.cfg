SPECIFICATION FairSpec
CONSTANTS
  Replicas = {r1, r2}
  MaxGeneration = 3
  MaxLost = 1
  MaxDeletions = 1
INVARIANTS PoolHasServingCA OlderClientAccepted RotationsChain
PROPERTIES Converged
CHECK_DEADLOCK FALSE
