SPECIFICATION FairSpec
CONSTANTS
  MaxSecrets = 2
INVARIANTS QueueInv NoLostWakeup
PROPERTIES Adopted AdoptedAtOnce Released
CHECK_DEADLOCK FALSE
