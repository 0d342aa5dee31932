------------------------------ MODULE MCFraos ------------------------------
(***************************************************************************)
(* Small instances of Fraos for TLC: a record of one byte, one of two      *)
(* bytes and the empty one, which append rejects.                          *)
(***************************************************************************)
EXTENDS FraosInv, TLC

CONSTANTS a, b, empty

McRecords == {a, b, empty}

McRecLen == [r \in McRecords |-> CASE r = a -> 1 [] r = b -> 2 [] OTHER -> 0]

McBatches == {<<a>>, <<b, a>>, <<a, empty>>}

McSingles == {<<a>>}

WriterSymmetry == Permutations(Writers)
=============================================================================
