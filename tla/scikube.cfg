SPECIFICATION PluginSpec
CONSTANTS
  Runs = {p1, p2, p3}
  Lifetime = 1
  MaxTime = 3
SYMMETRY Symmetry
INVARIANTS PrintedIsLive EmptyOnlyWhileWritten
CHECK_DEADLOCK FALSE
