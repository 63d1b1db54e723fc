SPECIFICATION Spec
CONSTANTS
  w1 = w1
  w2 = w2
  Writers = {w1, w2}
  Goroutines = {g1, g2}
  None = None
  PageSize = 4
  Last = 11
  Target <- MCTarget
  Length <- MCLength
  SysmonPages = {4}
  RuntimePages = {8}
  Coherent = FALSE
  Flushes = TRUE
  Debug = FALSE
  Printers = {g1}
  MaxWrites = 6
INVARIANTS NobodyFaults EntriesAreWhole
PROPERTIES WorldGoesOn
CHECK_DEADLOCK FALSE
