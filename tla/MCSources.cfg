SPECIFICATION ProcessSpec
CONSTANTS
  Blocks <- McBlocks
  Parent <- McParent
  Number <- McNumber
  KeyOrder <- McKeyOrder
  StoreFrom = 0
  Start = "a0"
  NoBlock = "none"
  Depth = 2
  MaxMoves = 4
  MaxBreaks = 2
INVARIANTS SourceNeverPanics StableChain Continues ForkEvents
CHECK_DEADLOCK FALSE
PROPERTIES StableLive ForkLive
