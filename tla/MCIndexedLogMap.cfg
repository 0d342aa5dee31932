SPECIFICATION Spec
CONSTANTS
  Keys = {k1, k2}
  Values = {v1, v2}
  Writers = {w1, w2}
  NoJob = NoJob
  MaxLog = 3
INVARIANTS KeyNamesItsOwnValue LastAppendIsServed
PROPERTIES NextIsTheFollowingRecord
CHECK_DEADLOCK FALSE
SYMMETRY Interchangeable
