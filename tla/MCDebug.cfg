SPECIFICATION DebugSpec
CONSTANTS
  Sizes = {0, 1, 3}
  Arguments <- MCArguments
  GrowSize = 4
  CodeLimit = 6
INVARIANTS
  VariablesDescribed
CHECK_DEADLOCK FALSE
