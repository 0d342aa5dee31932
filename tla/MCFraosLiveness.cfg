SPECIFICATION FairSpec
CONSTANTS
  a = a
  b = b
  empty = empty
  MaxMaps = 1
  Persistent = TRUE
  Records <- McRecords
  RecLen <- McRecLen
  Batches <- McSingles
  Writers = {w1, w2}
  Readers = {}
  NoWriter = NoWriter
  NoByte = NoByte
  DataCap = 9
  IndexCap = 9
  DataMin = 3
  IndexMin = 8
PROPERTIES AppendReturns OpeningEnds
