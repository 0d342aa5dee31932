------------------------------ MODULE Sources ------------------------------
(***************************************************************************)
(* What MultiverseSource and ForkHandlingSource have in common: the node   *)
(* whose chain they follow, the inner source they pull blocks from, the    *)
(* multiverse they put them in, the consumer they hand events to, and the  *)
(* end and restart of the process.                                         *)
(*                                                                         *)
(* The inner source is CardanoSource as its caller sees it: it answers     *)
(* from the range of blocks it requested before, whatever became of the    *)
(* node's chain since, and asks for a new range when that one is used up   *)
(* (BlockStream, which CardanoSource is shown to implement).               *)
(* Events that report the tip of the chain are passed on as they are and   *)
(* left out here.                                                          *)
(***************************************************************************)
EXTENDS BlockForest

CONSTANTS
  Start,     \* the block clients start from; it is never pulled
  NoBlock,   \* Option::None
  Depth,     \* confirmation_depth
  MaxMoves,  \* bound: how often the node changes its tip
  MaxBreaks  \* bound: how often a connection or the process ends

INSTANCE Chains

(* Every block counts: two blocks of one number on one chain, as the epoch *)
(* boundary blocks of Byron are, make the selection of the best block      *)
(* depend on the order of a HashSet, and a source may then skip a block.   *)
(* And every block is stored: one that is not is lost in a restart.        *)
ASSUME SourcesAssumption ==
  /\ Start \notin Blocks /\ NoBlock \notin Blocks \cup {Start}
  /\ Start \in DOMAIN Number /\ Number[Start] \in Nat
  /\ \A b \in Blocks : /\ Parent[b] \in Blocks \cup {Start}
                       /\ Number[b] = Number[Parent[b]] + 1
  /\ \A b \in Blocks : Stored(b)
  /\ Depth \in Nat \ {0} /\ MaxMoves \in Nat /\ MaxBreaks \in Nat

VARIABLES
  node,       \* the tip of the node's chain
  top,        \* the largest number the node's tip ever had
  moves,      \* how often it moved
  stream,     \* the blocks of the requested range that were not pulled yet
  mem, db,    \* the multiverse and its database
  confirmed,  \* the last block that was deep enough
  last,       \* ForkHandlingSource: the last block it received
  events,     \* ForkHandlingSource: its stack, the next event at the end
  event,      \* what pull returned and the consumer has not dealt with
  from,       \* the consumer's place, from which it pulls
  breaks      \* how often a connection or the process ended

nodeVars == <<node, top, moves>>
sourceVars == <<stream, mem, db, confirmed, last, events>>
vars == <<nodeVars, sourceVars, event, from, breaks>>

-----------------------------------------------------------------------------
(* The node moves to a longer chain or falls back, but never below the     *)
(* last Depth blocks of the longest chain it had.                          *)
NodeMoves(t) ==
  /\ moves < MaxMoves
  /\ t # node
  /\ \E b \in Chain(node) \cap Chain(t) : Number[b] + Depth >= top
  /\ node' = t
  /\ top' = IF Number[t] > top THEN Number[t] ELSE top
  /\ moves' = moves + 1
  /\ UNCHANGED <<sourceVars, event, from, breaks>>

(* the ranges a request with these points gives: from the best of them     *)
(* that is on the node's chain, or from the start if there are none        *)
Ranges(points) ==
  {RangeOf(p, node) :
     p \in BestKnown(IF points = {} THEN {Start} ELSE points, node)}

(* the streams of which pull takes the first block *)
Streams(points) ==
  IF stream # << >> THEN {stream} ELSE Ranges(points) \ {<< >>}

-----------------------------------------------------------------------------
NoEvent == [kind |-> "none", block |-> NoBlock]
InnerEvent(b) == [kind |-> "inner", block |-> b]
Rollback(b) == [kind |-> "rollback", block |-> b]

(* multiverse_insert_and_gc: the block is inserted and what the selection  *)
(* discards removed, in the order of a HashSet.  The selected reference    *)
(* and those not yet removed are held meanwhile.                           *)
NoAgeGap == 0  \* mutant

AgeGap == 1

CollectOne(selected, acc, b) ==
  [mem |-> RemoveFrom(acc.mem, selected \cup acc.refs, b),
   refs |-> Without(acc.refs, b)]

CollectAll(selected, start, order) ==
  FoldLeft(LAMBDA acc, b : CollectOne(selected, acc, b), start, order)

Collected(m, selected, refs) ==
  {CollectAll(selected, [mem |-> m, refs |-> refs], order).mem :
     order \in SetToSeqs(Names(refs))}

(* how it may end: what is in memory, in the database, and selected *)
Outcomes(m, b, best) ==
  {[mem |-> c, stable |-> Names(best.selected),
    db |-> DbInsert(db, b) \ Names(best.discarded)] :
     c \in Collected(m, best.selected, best.discarded)}

InsertAndGc(b) ==
  LET m == InsertInto(mem, {}, db, b)
  IN UNION {Outcomes(m, b, SelectBest(m, {}, tip, Depth, AgeGap)) :
              tip \in BestTips(m)}

(* the selected block as an option *)
Chosen(names, none) == IF names = {} THEN none ELSE CHOOSE b \in names : TRUE

(* mutant: the first confirmed block stays the confirmed block *)
ConfirmOnce(outcome) ==
  IF confirmed = NoBlock THEN Chosen(outcome.stable, NoBlock) ELSE confirmed

(* the confirmed block after an insertion with this outcome *)
Confirm(outcome) == Chosen(outcome.stable, confirmed)

TipPoints == Tips(mem)
Optional(b) == {b} \ {NoBlock}

-----------------------------------------------------------------------------
(* the consumer takes the event, and its place with it, for good *)
Consume ==
  /\ event # NoEvent
  /\ from' = event.block
  /\ event' = NoEvent
  /\ UNCHANGED <<nodeVars, sourceVars, breaks>>

(* CardanoSource loses its connection or is told to clear its buffers *)
StreamEnds ==
  /\ stream # << >> /\ breaks < MaxBreaks
  /\ breaks' = breaks + 1
  /\ stream' = << >>
  /\ UNCHANGED <<nodeVars, mem, db, confirmed, last, events, event, from>>

(* A new process loads the multiverse and selects the confirmed and the    *)
(* last block.  The events that were not consumed are forgotten.           *)
Restart ==
  /\ breaks < MaxBreaks
  /\ breaks' = breaks + 1
  /\ stream' = << >>
  /\ mem' = Load(db)
  /\ confirmed' \in
       IF db = {} THEN {NoBlock}
       ELSE {Chosen(Names(Ancestor(mem', {}, tip, Depth)), NoBlock) :
               tip \in BestTips(mem')}
  /\ last' \in IF db = {} THEN {NoBlock} ELSE LastOfIter(mem')
  /\ events' = << >>
  /\ event' = NoEvent
  /\ UNCHANGED <<nodeVars, db, from>>

Init ==
  /\ node = Start /\ top = Number[Start] /\ moves = 0
  /\ stream = << >>
  /\ mem = EmptyForest /\ db = {}
  /\ confirmed = NoBlock /\ last = NoBlock
  /\ events = << >>
  /\ event = NoEvent
  /\ from \in {NoBlock, Start}
  /\ breaks = 0

-----------------------------------------------------------------------------
TypeOK ==
  /\ node \in Blocks \cup {Start} /\ top \in Nat
  /\ moves \in 0..MaxMoves /\ breaks \in 0..MaxBreaks
  /\ ToSet(stream) \subseteq Blocks
  /\ DOMAIN mem.all \subseteq Blocks /\ db \subseteq Blocks
  /\ confirmed \in Blocks \cup {NoBlock} /\ last \in Blocks \cup {NoBlock}
  /\ \A i \in DOMAIN events :
       /\ events[i].kind \in {"inner", "rollback"}
       /\ events[i].block \in Blocks \cup {Start}
  /\ event \in {NoEvent} \cup {InnerEvent(b) : b \in Blocks}
                 \cup {Rollback(b) : b \in Blocks \cup {Start}}
  /\ from \in Blocks \cup {Start, NoBlock}

(* The unwraps and assertions of both sources hold: the confirmed block is *)
(* still in the multiverse when its point is needed, whatever forks were   *)
(* inserted and collected since it was selected.                           *)
SourceNeverPanics ==
  /\ TypeOK
  /\ ~mem.panic
  /\ confirmed # NoBlock => Has(mem, confirmed)
=============================================================================
