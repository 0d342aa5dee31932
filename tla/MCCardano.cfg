SPECIFICATION Spec
CONSTANTS
  Blocks <- McBlocks
  Parent <- McParent
  Number <- McNumber
  Start = "gp"
  Genesis = "g"
  DefaultFrom = "g"
  Slot <- McSlot
  ByronEpoch <- McByronEpoch
  Era <- McEra
  Garbled = {"b3"}
  PointSets <- McPointSets
  Cap = 2
  MaxMoves = 2
PROPERTIES IsABlockStream PullReturns StopReturns
CHECK_DEADLOCK FALSE
