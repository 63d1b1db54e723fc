\* Short branches, with and without a stop of the world, and legacy branches,
\* under tests that wait for their goroutines and tests that do not.
CONSTANTS
  c1 = c1
  Callers = {c1, c2}
  Modes <- AllModes
  MaxPatches = 2
  MaxCalls = 1
  MaxFrames = 2
  MaxTimes = 1
SPECIFICATION MCSpec
INVARIANTS
  TypeOK
  NoUnmappedCode
  CallsAreAnswered
  MockedAtMostCalled
  ReleaseResetsCounters
PROPERTIES
  CallsReturn
  WritesFinish
CHECK_DEADLOCK FALSE
