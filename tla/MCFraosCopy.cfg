SPECIFICATION CopySpec
CONSTANTS
  a = a
  b = b
  empty = empty
  MaxMaps = 1
  Persistent = TRUE
  Records <- McRecords
  RecLen <- McRecLen
  Batches <- McBatches
  Writers = {w1}
  Readers = {}
  NoWriter = NoWriter
  NoByte = NoByte
  DataCap = 5
  IndexCap = 3
  DataMin = 3
  IndexMin = 2
INVARIANTS CopyIsUsable
