SPECIFICATION Spec
CONSTANTS
  Inputs <- AllInputs
  Characters <- AllCharacters
  Coordinates = {"c1", "c2"}
  MaxRows = 2
  MaxRestarts = 1
  Interval = 2
  Timeout = 2
  MaxTime = 5
  MaxSets = 1
  Names = {"c", "FIRST_KEY", "unique_index_AFTER"}
  Hides <- AllHides
  Databases = {"db"}
  Tables = {"t", "u"}
  Lists <- AllLists
  MaxParses = 2
  Value <- Numerals
  Wide = 64
  PortWidth = 16
CHECK_DEADLOCK FALSE
INVARIANTS
  ResumesFromARow
  WildcardMatches
  ReadsBack
  CoordinatesOrdered
  AlterIsUnderstood
  SharedColumnsExist
  ReplayFollowsTheTable
  CommandLineIsFollowed
PROPERTIES
  TimersKeepTime
