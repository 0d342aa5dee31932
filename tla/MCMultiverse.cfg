SPECIFICATION Spec
CONSTANTS
  Blocks <- McBlocks
  Parent <- McParent
  Number <- McNumber
  KeyOrder <- McKeyOrder
  StoreFrom = 2
  Depths = {1, 2}
  Gaps = {0, 1}
INVARIANTS NeverPanics TablesAgree CollectionKeepsSelection TipsReachTheTop ReloadRebuilds
CHECK_DEADLOCK FALSE
