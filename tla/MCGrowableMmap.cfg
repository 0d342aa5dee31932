SPECIFICATION Spec
CONSTANTS
  MaxMaps = 1
  Persistent = TRUE
  Cap = 8
  Min = 3
  Exts <- McExts
  Tags = {x, y}
  Zero = Zero
INVARIANTS ReadsWhatWasStored MapsAreFew IndexDescribesMaps
PROPERTIES ImplementsStore
