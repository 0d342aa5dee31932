-------------------------- MODULE MultiverseSource --------------------------
(***************************************************************************)
(* MultiverseSource: blocks wait in the multiverse until Depth blocks are  *)
(* above them, and only then are given to the consumer.                    *)
(***************************************************************************)
EXTENDS Sources

(* the parent of the confirmed block, as far as the multiverse knows it *)
KnownParent ==
  IF Has(mem, Parent[confirmed]) THEN Parent[confirmed] ELSE NoBlock

(* the block that was confirmed is given again to a consumer that has not  *)
(* dealt with it                                                           *)
GiveAgain ==
  confirmed # NoBlock /\ Has(mem, confirmed) /\ from = KnownParent

(* "non continuous pull not supported yet" *)
NonContinuous ==
  /\ confirmed # NoBlock /\ Has(mem, confirmed)
  /\ ~GiveAgain
  /\ from # NoBlock /\ from # confirmed

PullConfirmed ==
  /\ event = NoEvent
  /\ GiveAgain
  /\ event' = InnerEvent(confirmed)
  /\ UNCHANGED <<nodeVars, sourceVars, from, breaks>>

(* mutant: the consumer's place is not among the points *)
TipsAlone == TipPoints

StablePoints == TipPoints \cup Optional(from)

(* a block comes in; the consumer gets the block that became stable by it *)
PullInner ==
  /\ event = NoEvent
  /\ ~GiveAgain /\ ~NonContinuous
  /\ \E s \in Streams(StablePoints) :
       /\ stream' = Tail(s)
       /\ IF Has(mem, Head(s))
          THEN UNCHANGED <<mem, db, confirmed, event>>
          ELSE \E o \in InsertAndGc(Head(s)) :
                 /\ mem' = o.mem
                 /\ db' = o.db
                 /\ confirmed' = Confirm(o)
                 /\ event' = IF confirmed' = confirmed THEN NoEvent
                             ELSE InnerEvent(confirmed')
  /\ UNCHANGED <<nodeVars, last, events, from, breaks>>

StablePull == PullConfirmed \/ PullInner

StableOther ==
  (\E t \in Blocks : NodeMoves(t)) \/ Consume \/ StreamEnds \/ Restart

(* the consumer's pull has something to give or to take in *)
StableCanPull ==
  /\ event = NoEvent
  /\ GiveAgain \/ (~NonContinuous /\ Streams(StablePoints) # {})

-----------------------------------------------------------------------------
(* The consumer gets every block of one chain, in order, and none twice    *)
(* unless the process ended before it dealt with it.                       *)
StableChainIsUnbroken ==
  event # NoEvent =>
    \/ Parent[event.block] = from
    \/ from = NoBlock /\ Parent[event.block] = Start

(* A consumer can go on after the process ended at any point; only the     *)
(* very first block can be lost: its parent is not in the multiverse, so   *)
(* a consumer that still stands there is refused for ever.                 *)
ConsumerCanContinue == NonContinuous => from = Start

(* When the node settles, its last block gets into the multiverse, through *)
(* forks, lost connections and restarts.  It need not before the consumer  *)
(* has a place: a consumer that pulls from nowhere asks for the tips of    *)
(* the multiverse only, and when the node leaves them it is stuck, as the  *)
(* one that was refused is.                                                *)
StableCatchesUp ==
  <>[](node = Start \/ Has(mem, node) \/ from = NoBlock \/ NonContinuous)
=============================================================================
