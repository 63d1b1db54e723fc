\* Two goroutines, or one after the other, call a mock whose sequence is empty.
CONSTANTS
  Callers = {c1, c2}
  Nobody = Nobody
  MaxValues = 1
  MaxRepeat = 2
  MaxServed = 2
SPECIFICATION FairSpec
PROPERTY
  EmptySequencePanics
CHECK_DEADLOCK FALSE
