--------------------------- MODULE MCFraosFaults ---------------------------
(* Small instances of FraosFaults for TLC.  *)
EXTENDS FraosFaults, TLC

CONSTANTS a, b, empty

McRecords == {a, b, empty}

McRecLen == [r \in McRecords |-> CASE r = a -> 1 [] r = b -> 2 [] OTHER -> 0]

McBatches == {<<a>>, <<b, a>>, <<a, empty>>}
=============================================================================
