\* Arguments on a stack that may be in two places; three goroutines share a
\* sequence of results.
SPECIFICATION MCSpec
CONSTANTS
  s1 = s1  s2 = s2
  Stacks = {s1, s2}
  Setups <- MCSetups
  GoType <- MCGoType
  MaxNesting = 2
  GenericInfo = "info"
  MaxCalls = 2
  MaxDepth = 3
  Callers = {c1, c2, c3}
  Nobody = Nobody
  MaxValues = 3
  MaxRepeat = 2
  MaxServed = 6
INVARIANTS ArgumentsAreCurrent HookSeesTheCall OriginGetsTheCall ServedInOrder
PROPERTY ValuesComeRound
CHECK_DEADLOCK FALSE
