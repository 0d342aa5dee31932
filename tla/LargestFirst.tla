---------------------------- MODULE LargestFirst ----------------------------
(***************************************************************************)
(* LargestFirst: for each token the outputs want, in the order of a        *)
(* HashMap, the largest outputs of that token until it is covered, then    *)
(* the largest ones until the main token covers outputs and fee.           *)
(***************************************************************************)
EXTENDS Selection

LfBegin(setup, utxos, e) ==
  [algo     |-> "largest",
   setup    |-> setup,
   given    |-> utxos.utxos.set,
   utxos    |-> utxos,
   chosen   |-> <<>>,
   inMain   |-> setup.inMain,
   inAssets |-> setup.inAssets,
   fee      |-> MinRequiredFee(e),
   todo     |-> DOMAIN setup.outAssets,
   token    |-> Main]

Lacks(c) == c.token # Main /\ c.inAssets[c.token] < c.setup.outAssets[c.token]

\* the token the next input is selected for
LfWanted ==
  IF Lacks(call) THEN {call.token}
  ELSE IF /\ call.todo = {}
          /\ InDebt(MainBalance(call.inMain, call.setup.outMain, call.fee))
       THEN {Main} ELSE {}

LfNextToken ==
  /\ call.algo = "largest" /\ ~Lacks(call)
  /\ \E t \in call.todo :
       call' = [call EXCEPT !.token = t, !.todo = @ \ {t},
                            !.inAssets = Together(@, Single(t, 0))]
  /\ UNCHANGED <<available, random, estimator, result>>

\* what selecting the input u changes in the locals of the call
Selected(c, u) ==
  [c EXCEPT !.utxos    = RemoveUtxo(@, u),
            !.chosen   = Append(@, u),
            !.inMain   = @ + u.value,
            !.inAssets = Together(@, u.assets),
            !.fee      = @ + FeeForInput(estimator)]

LfSelect ==
  /\ call.algo = "largest"
  /\ \E t \in LfWanted : \E u \in Largest(call.utxos, t, call.utxos.utxos.set) :
       call' = Selected(call, u)
  /\ estimator' = AddInputs(estimator, 1)
  /\ UNCHANGED <<available, random, result>>

LfNoMoreInput ==
  /\ call.algo = "largest"
  /\ \E t \in LfWanted : ~HasBalanceOf(call.utxos, t)
  /\ Fail
  /\ UNCHANGED <<available, random, estimator>>

LfReturn ==
  /\ call.algo = "largest" /\ call.todo = {} /\ LfWanted = {}
  /\ available' = call.utxos
  /\ Return("largest", [fixedIn |-> call.setup.fixedIn, fixedOut |-> call.setup.fixedOut,
             chosen |-> call.chosen, changes |-> <<>>, fee |-> call.fee,
             inMain |-> call.inMain, inAssets |-> call.inAssets,
             outMain |-> call.setup.outMain, outAssets |-> call.setup.outAssets,
             again |-> <<>>, lost |-> <<>>])
  /\ UNCHANGED <<random, estimator>>

LfStep == LfNextToken \/ LfSelect \/ LfNoMoreInput \/ LfReturn
=============================================================================
