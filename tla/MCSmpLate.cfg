SPECIFICATION SmpSpec
CONSTANTS
  Described = 3
  MAX_CPUS = 3
  Late = TRUE
INVARIANT StacksApart
CHECK_DEADLOCK FALSE
