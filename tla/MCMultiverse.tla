--------------------------- MODULE MCMultiverse ---------------------------
(***************************************************************************)
(* A small instance of Multiverse for TLC: a block a1 that is too old to   *)
(* be stored, b2 on it, and two chains on b2 of one block each, of which   *)
(* one starts with e2, a block that bears the number of its parent, as the *)
(* epoch boundary blocks of Cardano do, and has the smaller key.           *)
(***************************************************************************)
EXTENDS Multiverse

McBlocks == {"a1", "b2", "e2", "b3", "c3"}

McParent ==
  [a1 |-> "a0", b2 |-> "a1", e2 |-> "b2", b3 |-> "e2", c3 |-> "b2"]

McNumber == [a1 |-> 1, b2 |-> 2, e2 |-> 2, b3 |-> 3, c3 |-> 3]

McKeyOrder == <<"a1", "e2", "b2", "b3", "c3">>
=============================================================================
