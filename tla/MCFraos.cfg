SPECIFICATION Spec
CONSTANTS
  a = a
  b = b
  empty = empty
  MaxMaps = 1
  Persistent = TRUE
  Records <- McRecords
  RecLen <- McRecLen
  Batches <- McBatches
  Writers = {w1, w2}
  Readers = {r1}
  NoWriter = NoWriter
  NoByte = NoByte
  DataCap = 6
  IndexCap = 4
  DataMin = 3
  IndexMin = 2
INVARIANTS TypeOK AckedIsStored AckedIsServed NeverDamaged RecoversExactly ReadsAreRight LenIsReadable IInv
PROPERTIES ImplementsAppendLog
SYMMETRY WriterSymmetry
