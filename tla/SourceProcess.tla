--------------------------- MODULE SourceProcess ---------------------------
(***************************************************************************)
(* A process that runs one of the two sources over the blocks of a node.   *)
(***************************************************************************)
EXTENDS MultiverseSource, ForkHandlingSource

VARIABLES
  kind,  \* which source the process runs
  turn   \* changes with every pull, so that its fairness is cheap to evaluate

processVars == <<vars, kind, turn>>

ProcessInit ==
  /\ Init
  /\ kind \in {"multiverse", "fork"}
  /\ kind = "fork" => from = Start
  /\ turn = FALSE

Pull ==
  \/ kind = "multiverse" /\ StablePull
  \/ kind = "fork" /\ ForkPull

Other ==
  \/ kind = "multiverse" /\ StableOther
  \/ kind = "fork" /\ ForkOther

ProcessNext ==
  /\ UNCHANGED kind
  /\ \/ Pull /\ turn' = ~turn
     \/ Other /\ UNCHANGED turn

CanPull ==
  \/ kind = "multiverse" /\ StableCanPull
  \/ kind = "fork" /\ ForkCanPull

(* The consumer pulls again and again, and deals with what it gets. *)
ProcessSpec ==
  /\ ProcessInit
  /\ [][ProcessNext]_processVars
  /\ WF_turn(CanPull /\ turn' = ~turn)
  /\ WF_event(Consume)

-----------------------------------------------------------------------------
(* What the consumer of a MultiverseSource gets is one chain.              *)
StableChain == kind = "multiverse" => StableChainIsUnbroken

(* The consumer of a MultiverseSource is not refused after a restart.      *)
Continues == kind = "multiverse" => ConsumerCanContinue

(* The events of a ForkHandlingSource lead from one block to the next.     *)
ForkEvents == kind = "fork" => EventsAreAChain

(* Both sources get to the block where the node settles.                   *)
StableLive == kind = "multiverse" => StableCatchesUp
ForkLive == kind = "fork" => ForkCatchesUp
=============================================================================
