----------------------------- MODULE Selection -----------------------------
(***************************************************************************)
(* What the input selection algorithms share: the setup a call is given,   *)
(* the result it returns, and the state of the objects.  A call works on   *)
(* its own copies and is a sequence of steps, one per turn of its loops.   *)
(***************************************************************************)
EXTENDS UtxoStore, FeeEstimator, SequencesExt

VARIABLES
  available,   \* the UTxOStore held by LargestFirst, Thermostat or a balancer
  random,      \* RandomImprove: [inputs, indices]
  estimator,   \* the TransactionFeeEstimator of the call
  call,        \* the locals of the call of select_inputs, or NoCall
  result       \* what the last call returned, and nobody used yet

NoCall   == [algo |-> "none"]
NoResult == [is |-> "none"]
Failed   == [is |-> "failed"]
Panicked == [is |-> "panicked"]

\* the elements of S, in an order that nothing depends on
Listed(S) == FoldSet(LAMBDA x, s : Append(s, x), <<>>, S)

\* the fields of the record r, and those of s that r does not have
Merged(r, s) ==
  [x \in DOMAIN r \cup DOMAIN s |-> IF x \in DOMAIN r THEN r[x] ELSE s[x]]

MainOf(us)   == FoldSeq(LAMBDA u, n : u.value + n, 0, us)
AssetsOf(us) == FoldSeq(LAMBDA u, a : Together(a, u.assets), NoAssets, us)

----------------------------------------------------------------------------
(* InputOutputSetup and InputSelectionResult.                              *)

FromFixedInputsAndOutputs(ins, outs, change) ==
  [fixedIn  |-> ins,
   fixedOut |-> outs,
   inMain   |-> MainOf(ins),
   inAssets |-> AssetsOf(ins),
   outMain   |-> MainOf(outs),
   outAssets |-> AssetsOf(outs),
   change    |-> change]

MainBalance(in, out, fee) == Minus(Minus(Plus(Balanced, in), fee), out)

AssetBalance(in, out) ==
  [t \in DOMAIN in \cup DOMAIN out |->
     Minus(Plus(Balanced, Of(in, t)), Of(out, t))]

AreBalanced(balances) == \A t \in DOMAIN balances : InBalance(balances[t])

IsBalanced(r) ==
  /\ InBalance(MainBalance(r.inMain, r.outMain, r.fee))
  /\ AreBalanced(AssetBalance(r.inAssets, r.outAssets))

\* two fields of a result are history, which no guard reads: "again" are the inputs
\* the books of the call count once more, "lost" the outputs they miss
InputsOf(r)  == r.fixedIn \o r.chosen
OutputsOf(r) == r.fixedOut \o r.changes

\* the inputs are worth the outputs and the fee, in every token
ListsBalance(ins, outs, fee) ==
  /\ InBalance(MainBalance(MainOf(ins), MainOf(outs), fee))
  /\ AreBalanced(AssetBalance(AssetsOf(ins), AssetsOf(outs)))

AreUtxosBalanced(r) == IsBalanced(r) /\ ListsBalance(InputsOf(r), OutputsOf(r), r.fee)

----------------------------------------------------------------------------
(* How a call ends.                                                        *)

Return(by, r) ==
  call' = NoCall /\ result' = Merged([is |-> "selected", by |-> by], r)
Fail          == call' = NoCall /\ result' = Failed
Panic         == call' = NoCall /\ result' = Panicked
=============================================================================
