CONSTANTS
  Configs <- SmallConfigs
  MaxStations = 12
  NoTopology = NoTopology
  Limit = 48
  LineSize = 2
  HashShift = 2
  HashSeed = 5
  Width = 6
SPECIFICATION Spec
INVARIANT RingsAreFilled
INVARIANT WaysAreShortest
INVARIANT LinesHaveOneHome
CHECK_DEADLOCK FALSE
