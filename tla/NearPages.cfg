SPECIFICATION Spec
CONSTANTS
  Targets <- MCTargets
  Bases <- MCBases
  PageBytes = 8
  TrampolineSize = 4
  Reach = 48
  MaxSlots = 3
  Space = 128
  SearchStep = 16
  HintOffsets <- MCHintOffsets
  Occupied <- MCOccupied
  MaxNoise = 1
  MaxSearches = 3
INVARIANTS PagesAreAccountedFor GivenPagesAreNear GivesUpLast SlotsAreSafe
PROPERTIES SearchEnds ImplementsPool
CHECK_DEADLOCK FALSE
