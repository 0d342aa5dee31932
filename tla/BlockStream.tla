---------------------------- MODULE BlockStream ----------------------------
(***************************************************************************)
(* What CardanoSource promises to the code that pulls from it.  A request  *)
(* is answered with the blocks above the highest of its points that is on  *)
(* the node's chain; they are given one by one, in order, none left out    *)
(* and none twice, and no other request is made before they are used up.   *)
(* The node may move in the meantime, and the rest of the blocks may be    *)
(* lost at any time, but never from the middle.                            *)
(***************************************************************************)
EXTENDS Chains, Sequences, SequencesExt

CONSTANTS
  Epochs,      \* the epoch of every block, if it has one
  PointSets    \* what may be asked

VARIABLES
  node,      \* the tip of the node's chain
  asked,     \* the points of the request that has no range yet, if any
  promised,  \* the blocks still to come
  answer     \* what pull returned last

vars == <<node, asked, promised, answer>>

(* a block without an epoch cannot be made an event *)
BlockAnswer(b) ==
  [kind  |-> IF Epochs[b] = {} THEN "error" ELSE "block",
   block |-> b,
   epoch |-> Epochs[b]]
OtherAnswer(k) == [kind |-> k, block |-> Start, epoch |-> {}]

Init ==
  /\ node = Start
  /\ asked = {}
  /\ promised = << >>
  /\ answer = OtherAnswer("nothing")

NodeMoves ==
  /\ node' \in Blocks
  /\ UNCHANGED <<asked, promised, answer>>

Ask ==
  /\ promised = << >>
  /\ asked' \in PointSets
  /\ UNCHANGED <<node, promised, answer>>

Promise ==
  /\ \E t \in Chain(node) : \E p \in BestKnown(asked, t) :
       promised' = RangeOf(p, t)
  /\ asked' = {}
  /\ UNCHANGED <<node, answer>>

Give ==
  /\ promised # << >>
  /\ promised' = Tail(promised)
  /\ answer' = BlockAnswer(Head(promised))
  /\ UNCHANGED <<node, asked>>

(* the tip comes before the blocks of a range *)
GiveTip ==
  /\ answer' = OtherAnswer("tip")
  /\ UNCHANGED <<node, asked, promised>>

(* there is nothing above the points, or the connection is lost *)
GiveNothing ==
  /\ promised = << >>
  /\ \E k \in {"none", "error"} : answer' = OtherAnswer(k)
  /\ UNCHANGED <<node, asked, promised>>

(* what was not received is lost, with the request or what remains of it *)
Lose ==
  /\ \E n \in 0..Len(promised) : promised' = SubSeq(promised, 1, n)
  /\ asked' \in {asked, {}}
  /\ UNCHANGED <<node, answer>>

Next ==
  NodeMoves \/ Ask \/ Promise \/ Give \/ GiveTip \/ GiveNothing \/ Lose

Spec == Init /\ [][Next]_vars
=============================================================================
