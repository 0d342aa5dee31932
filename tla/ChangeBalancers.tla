-------------------------- MODULE ChangeBalancers --------------------------
(***************************************************************************)
(* FeeChangeBalancer and SingleOutputChangeBalancer: they select nothing,  *)
(* they only give the excess of a setup to the fee or to one more output.  *)
(* Neither has a loop worth its own steps: a call is one step.             *)
(***************************************************************************)
EXTENDS Selection

Unchosen(setup) ==
  [fixedIn |-> setup.fixedIn, fixedOut |-> setup.fixedOut, chosen |-> <<>>,
   inMain |-> setup.inMain, inAssets |-> setup.inAssets,
   outMain |-> setup.outMain, outAssets |-> setup.outAssets,
   again |-> setup.again, lost |-> <<>>]

\* the main token without what the transaction costs so far
Spare(setup) ==
  MainBalance(setup.inMain, setup.outMain, MinRequiredFee(estimator))

FeeChange(setup) ==
  LET spare == Spare(setup) IN
  /\ IF ~AreBalanced(AssetBalance(setup.inAssets, setup.outAssets)) \/ InDebt(spare)
     THEN Fail
     ELSE Return("balancer",
                 Merged([changes |-> <<>>, fee |-> MinRequiredFee(estimator) + spare.amount],
                        Unchosen(setup)))
  /\ UNCHANGED <<available, random, estimator>>

SingleOutput(setup) ==
  LET balances == AssetBalance(setup.inAssets, setup.outAssets)
      spare    == Spare(setup)
      over     == {t \in DOMAIN balances : InExcess(balances[t])}
      \* what is spare may be less than what the change costs
      change   == [value  |-> spare.amount - FeeForOutput(estimator),
                   assets |-> [t \in over |-> balances[t].amount]]
  IN
  IF \/ ~setup.change
     \/ \E t \in DOMAIN balances : InDebt(balances[t])
     \/ InDebt(spare)
     \/ ~Accepts(estimator, change)
  THEN Fail /\ UNCHANGED <<available, random, estimator>>
  ELSE /\ estimator' = AddOutputs(estimator, 1)
       /\ Return("balancer",
                 Merged([changes |-> <<change>>,
                         fee     |-> MinRequiredFee(estimator) + FeeForOutput(estimator)],
                        [Unchosen(setup) EXCEPT !.outMain   = @ + change.value,
                                                !.outAssets = Together(@, change.assets)]))
       /\ UNCHANGED <<available, random>>
=============================================================================
