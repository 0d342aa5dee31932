------------------------- MODULE ForkHandlingSource -------------------------
(***************************************************************************)
(* ForkHandlingSource: every block goes to the consumer at once, and when  *)
(* the node changes to another branch the consumer is told how far to roll *)
(* back before it gets the blocks of that branch.                          *)
(***************************************************************************)
EXTENDS Sources

(* the chain below b as far as the multiverse has it, b first *)
BranchLen(m, b) ==
  Cardinality({n \in DOMAIN Below(b) :
                 \A k \in 0..n : Has(m, Below(b)[k])})

Branch(m, b) == [i \in 1..BranchLen(m, b) |-> Below(b)[i - 1]]

(* mutant: the events are pushed in the order they are to be given *)
SwitchInOrder(m, previous, b) ==
  LET old == ToSet(Branch(m, previous))
      new == Branch(m, b)
      common == {i \in DOMAIN new : new[i] \in old}
      n == IF common = {} THEN Len(new) ELSE Min(common) - 1
  IN (IF common = {} THEN << >> ELSE <<Rollback(new[n + 1])>>)
       \o Reverse([i \in 1..n |-> InnerEvent(new[i])])

(* the stack of events that leads from the branch of one block to another: *)
(* blocks down to the first common one, and a rollback to it, if any       *)
Switch(m, previous, b) ==
  LET old == ToSet(Branch(m, previous))
      new == Branch(m, b)
      common == {i \in DOMAIN new : new[i] \in old}
      n == IF common = {} THEN Len(new) ELSE Min(common) - 1
  IN [i \in 1..n |-> InnerEvent(new[i])]
       \o (IF common = {} THEN << >> ELSE <<Rollback(new[n + 1])>>)

(* the events a new block gives rise to *)
EventsFor(m, b) ==
  IF last = Parent[b] THEN <<InnerEvent(b)>>
  ELSE IF last = NoBlock THEN <<InnerEvent(b), Rollback(from)>>
       ELSE Switch(m, last, b)

PullPending ==
  /\ event = NoEvent
  /\ events # << >>
  /\ event' = Last(events)
  /\ events' = Front(events)
  /\ UNCHANGED <<nodeVars, stream, mem, db, confirmed, last, from, breaks>>

(* mutant: the confirmed block is not among the points *)
PointsUnconfirmed == TipPoints \cup Optional(from)

ForkPoints == TipPoints \cup Optional(confirmed) \cup Optional(from)

PullBlock ==
  /\ event = NoEvent
  /\ events = << >>
  /\ \E s \in Streams(ForkPoints) :
       /\ stream' = Tail(s)
       /\ IF Has(mem, Head(s))
          THEN UNCHANGED <<mem, db, confirmed, last, events, event>>
          ELSE \E o \in InsertAndGc(Head(s)) :
                 LET stack == EventsFor(o.mem, Head(s))
                 IN /\ mem' = o.mem
                    /\ db' = o.db
                    /\ confirmed' = Confirm(o)
                    /\ last' = Head(s)
                    /\ event' = Last(stack)
                    /\ events' = Front(stack)
  /\ UNCHANGED <<nodeVars, from, breaks>>

(* The process may end when the consumer has had every event and no other  *)
(* block is as high as the last one.  (Otherwise the new process takes as  *)
(* last block what the consumer has not got, and the events in between are *)
(* never produced again.)                                                  *)
CleanStop ==
  event = NoEvent /\ events = << >>
    /\ last # NoBlock /\ Names(BestTips(mem)) = {last}

ForkPull == PullPending \/ PullBlock

ForkOther ==
  \/ \E t \in Blocks : NodeMoves(t)
  \/ Consume \/ StreamEnds
  \/ CleanStop /\ Restart

ForkCanPull ==
  event = NoEvent /\ (events # << >> \/ Streams(ForkPoints) # {})

-----------------------------------------------------------------------------
(* The consumer's chain stays a chain: a block it gets is on top of the    *)
(* block it is at, and a rollback goes to a block it has.  That includes   *)
(* "this will always be a rollback event" of pull: when a branch changes,  *)
(* the first event is the rollback to the common ancestor.                 *)
EventsAreAChain ==
  /\ event.kind = "inner" => Parent[event.block] = from
  /\ event.kind = "rollback" => event.block \in Chain(from)

(* When the node settles, its last block gets into the multiverse, once    *)
(* there was a confirmed block: before that a fork may leave no point the  *)
(* source asks for on the node's chain.                                    *)
ForkCatchesUp ==
  <>[](node = Start \/ Has(mem, node) \/ confirmed = NoBlock)
=============================================================================
