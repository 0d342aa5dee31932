----------------------------- MODULE MCCardano -----------------------------
(***************************************************************************)
(* A small instance of CardanoSource for TLC: a chain of three blocks above *)
(* the genesis block, one of which cannot be converted, with a fork whose  *)
(* block cannot even be deserialized.                                      *)
(***************************************************************************)
EXTENDS CardanoSource

McBlocks == {"g", "a2", "a3", "a4", "b3"}

McParent ==
  [g |-> "gp", a2 |-> "g", a3 |-> "a2", a4 |-> "a3", b3 |-> "a2"]

McNumber ==
  [gp |-> 0, g |-> 1, a2 |-> 2, a3 |-> 3, a4 |-> 4, b3 |-> 3]

McSlot == [g |-> 0, a2 |-> 13, a3 |-> 19, a4 |-> 40, b3 |-> 20]

McByronEpoch == [g |-> 0, a2 |-> 1]

\* a3 is of Shelley but before the era as it is configured
McEra == [first_slot |-> 20, start_epoch |-> 2, epoch_length_seconds |-> 10]

McPointSets == {{}, {"gp"}, {"a2", "b3"}}
=============================================================================
