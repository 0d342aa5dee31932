--------------------------- MODULE CardanoSource ---------------------------
(***************************************************************************)
(* CardanoSource: the caller of pull, the task that handles its requests   *)
(* (request_handler), the two channels between them and the node they get  *)
(* blocks from.                                                            *)
(*                                                                         *)
(* A pull is taken apart where it awaits, since it may be dropped there    *)
(* (tokio::select!, timeouts) and the task goes on meanwhile.  A response  *)
(* channel lives as long as one of its ends: current is the receiver, the  *)
(* sender is in the queue of requests and then with the handler.           *)
(***************************************************************************)
EXTENDS Chains, Sequences, SequencesExt, FiniteSets

CONSTANTS
  Genesis,      \* the first block; its parent, Start, is genesis_parent
  DefaultFrom,  \* the point of the configuration
  Slot,         \* of every block
  ByronEpoch,   \* the epoch in the header, of the blocks of Byron
  Era,          \* [first_slot, start_epoch, epoch_length_seconds] of Shelley
  Garbled,      \* blocks that cannot be deserialized: the handler panics
  PointSets,    \* what a caller asks for
  Cap,          \* TX_PROCESSING_CHANNEL_BOUND
  MaxMoves      \* bound: how often the node changes its tip

ASSUME CardanoAssumption ==
  /\ Start \notin Blocks
  /\ \A b \in Blocks \cup {Start} : Number[b] \in Nat
  /\ \A b \in Blocks : /\ Parent[b] \in Blocks \cup {Start}
                       /\ Number[b] = Number[Parent[b]] + 1
  /\ Genesis \in Blocks /\ Parent[Genesis] = Start
  /\ DefaultFrom \in Blocks \cup {Start}
  /\ \A p \in PointSets : p \subseteq Blocks \cup {Start}
  /\ Slot \in [Blocks -> Nat]
  /\ DOMAIN ByronEpoch \subseteq Blocks
  /\ Era \in [first_slot : Nat, start_epoch : Nat,
               epoch_length_seconds : Nat \ {0}]
  /\ Cap \in Nat \ {0} /\ MaxMoves \in Nat

VARIABLES
  node, moves,   \* the tip of the node's chain; how often it moved
  caller,        \* where the caller is
  points,        \* what it pulls from, while it pulls
  answer,        \* what pull returned last
  current,       \* the channel pull receives from, if any
  requests,      \* the channel of requests, which holds one
  buffer,        \* what is in the response channels
  handler,       \* where the request handler is
  job,           \* the request it handles
  range,         \* the point and the tip of the intersection
  rest,          \* the blocks that the node has still to send
  connected      \* there is a handle

callerVars == <<caller, points, answer, current>>
handlerVars == <<handler, job, range, rest, connected>>
vars == <<node, moves, callerVars, requests, buffer, handlerVars>>

(* There are never more than three channels at a time: the caller's, that  *)
(* of a request in the queue, and that of the handler.                     *)
Channels == 1..3
NoChannel == 0
NoJob == [from |-> {}, channel |-> NoChannel]
NoRange == [from |-> Start, tip |-> Start]

(* absolute_slot_to_epoch; none for a slot before the era.  The length of  *)
(* an epoch is in seconds and divides slots, which last one second.        *)
AbsoluteSlotToEpoch(slot) ==
  IF slot < Era.first_slot THEN {}
  ELSE {Era.start_epoch
          + (slot - Era.first_slot) \div Era.epoch_length_seconds}

EpochOf(b) ==
  IF b \in DOMAIN ByronEpoch THEN {ByronEpoch[b]}
  ELSE AbsoluteSlotToEpoch(Slot[b])

(* from_serialized_block: a block without epoch is an error *)
BlockAnswer(b) ==
  [kind  |-> IF EpochOf(b) = {} THEN "error" ELSE "block",
   block |-> b,
   epoch |-> EpochOf(b)]
OtherAnswer(k) == [kind |-> k, block |-> Start, epoch |-> {}]

Init ==
  /\ node = Start /\ moves = 0
  /\ caller = "idle" /\ points = {} /\ answer = OtherAnswer("nothing")
  /\ current = NoChannel
  /\ requests = << >>
  /\ buffer = [c \in Channels |-> << >>]
  /\ handler = "recv" /\ job = NoJob /\ range = NoRange /\ rest = << >>
  /\ connected = TRUE

NodeMoves ==
  /\ moves < MaxMoves
  /\ moves' = moves + 1
  /\ node' \in Blocks \ {node}
  /\ UNCHANGED <<callerVars, requests, buffer, handlerVars>>

-----------------------------------------------------------------------------
(* The caller *)

(* somebody has the sending end of the channel *)
Open(c) == c = job.channel \/ \E i \in DOMAIN requests : requests[i].channel = c

(* the receiver of the current channel is dropped, and what is in it *)
DropCurrent ==
  /\ current' = NoChannel
  /\ buffer' = [c \in Channels |-> IF c = current THEN << >> ELSE buffer[c]]

Pull ==
  /\ caller = "idle"
  /\ points' \in PointSets
  /\ caller' = IF current = NoChannel THEN "send" ELSE "first"
  /\ UNCHANGED <<node, moves, answer, current, requests, buffer, handlerVars>>

(* pull returns what is next in the current channel *)
Receive ==
  /\ caller \in {"first", "wait"}
  /\ buffer[current] # << >>
  /\ answer' = Head(buffer[current])
  /\ buffer' = [buffer EXCEPT ![current] = Tail(@)]
  /\ caller' = "idle" /\ points' = {}
  /\ UNCHANGED <<node, moves, current, requests, handlerVars>>

(* the request before this one has ended *)
FirstIsOver ==
  /\ caller = "first"
  /\ buffer[current] = << >> /\ ~Open(current)
  /\ caller' = "send"
  /\ UNCHANGED <<node, moves, points, answer, current, requests, buffer,
                 handlerVars>>

(* ... and so has this one: pull returns None *)
WaitIsOver ==
  /\ caller = "wait"
  /\ buffer[current] = << >> /\ ~Open(current)
  /\ answer' = OtherAnswer("none")
  /\ caller' = "idle" /\ points' = {}
  /\ UNCHANGED <<node, moves, current, requests, buffer, handlerVars>>

(* the new channel replaces the current one, which is dropped *)
Send ==
  /\ caller = "send"
  /\ handler # "dead"
  /\ requests = << >>
  /\ LET new == CHOOSE c \in Channels : c # current /\ ~Open(c)
         from == IF points = {} THEN {DefaultFrom} ELSE points
     IN /\ requests' = <<[from |-> from, channel |-> new]>>
        /\ current' = new
  /\ buffer' = [c \in Channels |-> IF c = current THEN << >> ELSE buffer[c]]
  /\ caller' = "wait"
  /\ UNCHANGED <<node, moves, points, answer, handlerVars>>

(* "request handler stoped" *)
SendFails ==
  /\ caller = "send"
  /\ handler = "dead"
  /\ answer' = OtherAnswer("error")
  /\ caller' = "idle" /\ points' = {}
  /\ UNCHANGED <<node, moves, current, requests, buffer, handlerVars>>

(* the future of pull is dropped while it waits *)
Cancel ==
  /\ caller \in {"first", "send", "wait"}
  /\ caller' = "idle" /\ points' = {}
  /\ UNCHANGED <<node, moves, answer, current, requests, buffer,
                 handlerVars>>

ClearBuffers ==
  /\ caller = "idle" /\ current # NoChannel
  /\ DropCurrent
  /\ UNCHANGED <<node, moves, caller, points, answer, requests, handlerVars>>

(* mutant: the receiver is not dropped *)
StopKeepsCurrent ==
  /\ caller = "idle"
  /\ caller' = "stopping"
  /\ UNCHANGED <<node, moves, points, answer, current, requests, buffer,
                 handlerVars>>

Stop ==
  /\ caller = "idle"
  /\ caller' = "stopping"
  /\ DropCurrent
  /\ UNCHANGED <<node, moves, points, answer, requests, handlerVars>>

(* the exit signal arrives, or its sender is dropped *)
Stopped ==
  /\ caller = "stopping"
  /\ handler \in {"done", "dead"}
  /\ caller' = "stopped"
  /\ UNCHANGED <<node, moves, points, answer, current, requests, buffer,
                 handlerVars>>

CallerStep ==
  Receive \/ FirstIsOver \/ WaitIsOver \/ Send \/ SendFails \/ Stopped

-----------------------------------------------------------------------------
(* The request handler *)

(* the response channel has its receiver *)
Listened == job.channel = current

TakeRequest ==
  /\ handler = "recv" /\ requests # << >>
  /\ job' = Head(requests)
  /\ requests' = << >>
  /\ handler' = IF connected THEN "intersect" ELSE "connect"
  /\ UNCHANGED <<node, moves, callerVars, buffer, range, rest, connected>>

(* stop dropped the other end of the channel *)
LastRequestWasHandled ==
  /\ handler = "recv" /\ requests = << >>
  /\ caller = "stopping"
  /\ handler' = "done"
  /\ UNCHANGED <<node, moves, callerVars, requests, buffer, job, range, rest,
                 connected>>

(* mutant: the sender of the response outlives its request *)
ReleasedLate == job

(* the sender of the response is dropped with the request *)
Released == NoJob

(* the request is over, the connection kept or dropped *)
Over(keep) ==
  /\ handler' = "recv"
  /\ job' = Released
  /\ range' = NoRange /\ rest' = << >>
  /\ connected' = keep
  /\ UNCHANGED <<node, moves, callerVars, requests, buffer>>

(* the connection is not reestablished: the request is dropped *)
ConnectFails == handler = "connect" /\ Over(FALSE)

Connect ==
  /\ handler = "connect"
  /\ handler' = "intersect"
  /\ connected' = TRUE
  /\ UNCHANGED <<node, moves, callerVars, requests, buffer, job, range, rest>>

(* mutant: the first block is ignored whatever was asked for *)
AlwaysIgnoresFirst(from) == TRUE

(* ignore_first_block *)
IgnoresFirst(from) == from # {Start}

(* the points the node is asked for; it has no block genesis_parent *)
Points(from) == IF from = {Start} THEN {Genesis} ELSE from \ {Start}

Found == BestKnown(Points(job.from), node)

(* no intersection, or nothing above it *)
NothingToPull ==
  /\ handler = "intersect"
  /\ Found = {} \/ Found = {node}
  /\ Over(TRUE)

Intersect ==
  /\ handler = "intersect"
  /\ node \notin Found
  /\ \E p \in Found : range' = [from |-> p, tip |-> node]
  /\ handler' = "tip"
  /\ UNCHANGED <<node, moves, callerVars, requests, buffer, job, rest,
                 connected>>

(* The tip is sent when tip_update_pace has gone by since the last time,   *)
(* which is left open; whether it was received does not matter.            *)
SendTip ==
  /\ handler = "tip"
  /\ \E due \in BOOLEAN :
       buffer' = IF due /\ Listened
                 THEN [buffer EXCEPT ![current] =
                         Append(@, OtherAnswer("tip"))]
                 ELSE buffer
  /\ handler' = "range"
  /\ UNCHANGED <<node, moves, callerVars, requests, job, range, rest,
                 connected>>

InRange == {range.from, range.tip} \subseteq Chain(node)

(* the node has left the range *)
NoBlocksInRange == handler = "range" /\ ~InRange /\ Over(TRUE)

(* the range starts with the point it was asked from *)
RequestRange ==
  /\ handler = "range"
  /\ InRange
  /\ rest' = <<range.from>> \o RangeOf(range.from, range.tip)
  /\ range' = NoRange
  /\ handler' = IF IgnoresFirst(job.from) THEN "skip" ELSE "fetch"
  /\ UNCHANGED <<node, moves, callerVars, requests, buffer, job, connected>>

SkipFirst ==
  /\ handler = "skip"
  /\ rest' = Tail(rest)
  /\ handler' = "fetch"
  /\ UNCHANGED <<node, moves, callerVars, requests, buffer, job, range,
                 connected>>

Fetch ==
  /\ handler = "fetch" /\ rest # << >>
  /\ Head(rest) \notin Garbled
  /\ handler' = "send"
  /\ UNCHANGED <<node, moves, callerVars, requests, buffer, job, range, rest,
                 connected>>

(* a block waits for room in the channel, and nothing else is attended to  *)
(* meanwhile; one that cannot be converted is sent as an error             *)
SendBlock ==
  /\ handler = "send"
  /\ Listened /\ Len(buffer[current]) < Cap
  /\ buffer' = [buffer EXCEPT ![current] = Append(@, BlockAnswer(Head(rest)))]
  /\ rest' = Tail(rest)
  /\ handler' = "fetch"
  /\ UNCHANGED <<node, moves, callerVars, requests, job, range, connected>>

(* from_serialized_block panics: the task is gone, and all it holds *)
FetchPanics ==
  /\ handler = "fetch" /\ rest # << >>
  /\ Head(rest) \in Garbled
  /\ handler' = "dead"
  /\ job' = NoJob /\ range' = NoRange /\ rest' = << >>
  /\ connected' = FALSE
  /\ requests' = << >>
  /\ UNCHANGED <<node, moves, callerVars, buffer>>

(* "request response channel was closed" *)
NotListened == handler = "send" /\ ~Listened /\ Over(FALSE)

RangeIsOver == handler = "fetch" /\ rest = << >> /\ Over(TRUE)

(* the connection fails in any of the exchanges with the node *)
ConnectionFails ==
  /\ handler \in {"intersect", "range", "skip", "fetch"}
  /\ Over(FALSE)

HandlerStep ==
  \/ TakeRequest \/ LastRequestWasHandled
  \/ ConnectFails \/ Connect
  \/ NothingToPull \/ Intersect \/ SendTip
  \/ NoBlocksInRange \/ RequestRange \/ SkipFirst
  \/ Fetch \/ FetchPanics \/ SendBlock \/ NotListened \/ RangeIsOver
  \/ ConnectionFails

-----------------------------------------------------------------------------
Next ==
  \/ NodeMoves
  \/ Pull \/ Cancel \/ ClearBuffers \/ Stop
  \/ CallerStep
  \/ HandlerStep

(* Both tasks run while they can: the node answers or the connection       *)
(* fails, and a future that is not dropped is polled again.                *)
Spec ==
  Init /\ [][Next]_vars /\ WF_vars(CallerStep) /\ WF_vars(HandlerStep)

-----------------------------------------------------------------------------
(* The source as a stream of blocks *)

(* the points of the current request while it has no range *)
Asked ==
  IF current = NoChannel THEN {}
  ELSE IF job.channel = current
         /\ handler \in {"connect", "intersect", "tip", "range"}
       THEN job.from
       ELSE IF requests # << >> /\ Head(requests).channel = current
            THEN Head(requests).from
            ELSE {}

(* the blocks among the answers of a channel, before which the tip may come *)
WithoutTip(s) == IF s # << >> /\ Head(s).kind = "tip" THEN Tail(s) ELSE s
Sent(s) == [i \in DOMAIN WithoutTip(s) |-> WithoutTip(s)[i].block]

(* the blocks in the current channel, and those that will be sent to it *)
ToBeSent ==
  IF job.channel # current THEN << >>
  ELSE IF handler = "skip" THEN Tail(rest) ELSE rest

Promised ==
  IF current = NoChannel THEN << >> ELSE Sent(buffer[current]) \o ToBeSent

(* the epochs of the era one after the other, and which of them a slot is in *)
EpochStart(e) ==
  Era.first_slot + (e - Era.start_epoch) * Era.epoch_length_seconds

EpochsAt(slot) ==
  {e \in Era.start_epoch..Era.start_epoch + slot :
     EpochStart(e) <= slot /\ slot < EpochStart(e + 1)}

Stream == INSTANCE BlockStream WITH
  asked <- Asked, promised <- Promised,
  Epochs <- [b \in Blocks |-> IF b \in DOMAIN ByronEpoch
                              THEN {ByronEpoch[b]} ELSE EpochsAt(Slot[b])],
  PointSets <- {IF p = {} THEN {DefaultFrom} ELSE p : p \in PointSets}

(* What pull returns is one unbroken range after the other, each from the  *)
(* highest point that was asked for: through reconnections, requests that  *)
(* were dropped or cleared, a full channel, and blocks the caller cannot   *)
(* have, which come as errors in their place.  Every block comes with the  *)
(* epoch its slot is in.                                                   *)
IsABlockStream == Stream!Spec

(* A pull that is not dropped returns, whatever state an earlier one left  *)
(* the two tasks in.                                                       *)
PullReturns == caller \in {"first", "send", "wait"} ~> caller = "idle"

(* stop returns, also when the handler waits for room in the channel that  *)
(* nobody will read any more.                                              *)
StopReturns == caller = "stopping" ~> caller = "stopped"

=============================================================================
