----------------------------- MODULE MCSources -----------------------------
(***************************************************************************)
(* A small instance of both sources for TLC: a chain a1 to a6, long enough *)
(* for blocks of both branches to be collected, a fork b2, b3, b4 of it    *)
(* after a1, and c1, a fork at the start.                                  *)
(***************************************************************************)
EXTENDS SourceProcess

McBlocks == {"a1", "a2", "a3", "a4", "a5", "a6", "b2", "b3", "b4",
             "c1"}

McParent ==
  [a1 |-> "a0", a2 |-> "a1", a3 |-> "a2", a4 |-> "a3", a5 |-> "a4",
   a6 |-> "a5", b2 |-> "a1", b3 |-> "b2", b4 |-> "b3", c1 |-> "a0"]

McNumber ==
  [a0 |-> 0, a1 |-> 1, a2 |-> 2, a3 |-> 3, a4 |-> 4, a5 |-> 5, a6 |-> 6,
   b2 |-> 2, b3 |-> 3, b4 |-> 4, c1 |-> 1]

McKeyOrder ==
  <<"a1", "c1", "a2", "b2", "a3", "b3", "a4", "b4", "a5", "a6">>
=============================================================================
