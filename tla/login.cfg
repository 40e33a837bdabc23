SPECIFICATION FairSpec
CONSTANTS
  Callers = {p1, p2, p3}
  Roles = 2
  MaxDeletes = 1
INVARIANTS PasswordImpliesRoles
PROPERTIES ImplementsClusterUser SomebodyGetsIn
CHECK_DEADLOCK FALSE
