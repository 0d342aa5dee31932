SPECIFICATION ProtectSpec
CONSTANTS
  MaxMaps = 1
  Persistent = TRUE
  Cap = 7
  Min = 3
  Exts <- McExts
  Tags = {x, y}
  Zero = Zero
INVARIANTS IndexDescribesMaps
