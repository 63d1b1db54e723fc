SPECIFICATION ArgsSpec
CONSTANTS
  s1 = s1  s2 = s2
  Stacks = {s1, s2}
  Setups <- MCSetups
  GoType <- MCGoType
  MaxNesting = 2
  GenericInfo = "info"
  MaxCalls = 2
  MaxDepth = 3
INVARIANT ReleasedArgumentsAreCleared
CHECK_DEADLOCK FALSE
