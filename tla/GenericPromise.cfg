SPECIFICATION MCSpec
CONSTANTS
  Parts = {"generic"}
  MaxStructs = 1
  Instances = {"a", "b", "c"}
  Archs = {"amd64", "arm64"}
  Shape <- MCShape
  DuffFunctions <- MCDuffFunctions
  RaceFunctions <- MCRaceFunctions
  DispRange = 4096
  PageBytes = 64
  Wrappers <- MCWrappers
  Dictionaries <- MCDictionaries
  FirstWord <- MCFirstWord
  Readable <- MCReadable
  MaxBuilds = 4
  MaxCalls = 3
  MaxEmbedded = 2
  Hows = {"value", "pointer", "nil"}
  Owns = {"none", "value", "pointer", "field"}
  Exported = {TRUE, FALSE}
INVARIANT NewestOfItsInstance
CHECK_DEADLOCK FALSE
