------------------------- MODULE MCIndexedLogMap -------------------------
(* A small instance of IndexedLogMap for TLC.  *)
EXTENDS IndexedLogMap, TLC

Interchangeable ==
  Permutations(Keys) \cup Permutations(Values) \cup Permutations(Writers)
=============================================================================
