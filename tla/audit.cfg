SPECIFICATION FairSpec
CONSTANTS
  Batches = {b1}
  Samples <- Events
  BatchSize = 3
  Regions <- ConfiguredRegions
  Audited <- EnabledRegions
  Foreign = "x"
  None <- Nobody
  MaxAttempts = 2
  MaxFaults = 1
INVARIANTS DeliveredIsRecorded NoHoles RecordedWhereCreated
PROPERTIES GoodBatchDelivered
CHECK_DEADLOCK FALSE
