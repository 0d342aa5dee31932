---------------------------- MODULE MCFraosCopy ----------------------------
(* Small instances of FraosCopy for TLC.  *)
EXTENDS FraosCopy, TLC

CONSTANTS a, b, empty

McRecords == {a, b, empty}

McRecLen == [r \in McRecords |-> CASE r = a -> 1 [] r = b -> 2 [] OTHER -> 0]

McBatches == {<<a>>, <<b, a>>}
=============================================================================
