----------------------------- MODULE Thermostat -----------------------------
(***************************************************************************)
(* Thermostat: for each asset of the transaction, select inputs until it   *)
(* is covered and put its excess in a change of that asset, whose value is *)
(* held between two bounds; cover the main token; add inputs to regroup    *)
(* small outputs while there is room; put what they bring in the changes;  *)
(* and cut a change in two when it is too large a part of what is left.    *)
(*                                                                         *)
(* Everything the object keeps between two calls but the available outputs *)
(* is reset when a call begins, so it is among the locals of the call.     *)
(***************************************************************************)
EXTENDS Selection

CONSTANTS
  NumAccumulators, NumAccumulatorsAssets,   \* ThermostatAlgoConfig
  ThermostatMin, ThermostatMax

ASSUME ConfigIsUsable ==
  /\ {NumAccumulators, NumAccumulatorsAssets} \subseteq Nat \ {0}
  /\ {ThermostatMin, ThermostatMax} \subseteq Nat
  /\ ThermostatMin <= ThermostatMax

\* the order is that of the keys of a HashMap
ThBegin(setup, utxos, order) ==
  LET balances == AssetBalance(setup.inAssets, setup.outAssets) IN
  [algo         |-> "thermostat",
   stage        |-> "assets",
   setup        |-> setup,
   given        |-> utxos.utxos.set,
   utxos        |-> utxos,
   chosen       |-> <<>>,
   balance      |-> Minus(Plus(Balanced, setup.inMain), setup.outMain),
   assetBalance |-> balances,
   changes      |-> <<>>,
   extra        |-> <<>>,
   lost         |-> <<>>,
   order        |-> order,
   at           |-> 1,
   empty        |-> <<>>]

At(stage) == call.algo = "thermostat" /\ call.stage = stage

Asset               == call.order[call.at]
CurrentBalanceOf(t) == call.assetBalance[t]
CurrentBalance      == Minus(call.balance, MinRequiredFee(estimator))

----------------------------------------------------------------------------
(* Selecting inputs.                                                       *)

\* an input is the largest that holds nothing but the token it is selected for
Candidates(t) ==
  Largest(call.utxos, t, {u \in call.utxos.utxos.set : DOMAIN u.assets \subseteq {t}})

WithInput(c, u) ==
  [c EXCEPT !.utxos        = RemoveUtxo(@, u),
            !.chosen       = Append(@, u),
            !.balance      = Plus(@, u.value),
            !.assetBalance = [t \in DOMAIN @ \cup DOMAIN u.assets |->
                                IF t \in DOMAIN u.assets
                                THEN Plus(IF t \in DOMAIN @ THEN @[t] ELSE Balanced,
                                          u.assets[t])
                                ELSE @[t]]]

SelectInputFor(t) ==
  IF Candidates(t) = {}
  THEN Fail /\ UNCHANGED estimator
  ELSE /\ \E u \in Candidates(t) : call' = WithInput(call, u)
       /\ estimator' = AddInputs(estimator, 1)
       /\ UNCHANGED result

\* select_input_for_asset_until_balanced and .._for_main_until_balanced
ThCoverAsset ==
  /\ At("assets") /\ call.at \in DOMAIN call.order
  /\ InDebt(CurrentBalanceOf(Asset))
  /\ SelectInputFor(Asset)
  /\ UNCHANGED <<available, random>>

ThCoverMain ==
  /\ At("main") /\ InDebt(CurrentBalance)
  /\ SelectInputFor(Main)
  /\ UNCHANGED <<available, random>>

----------------------------------------------------------------------------
(* balance_excess_of_asset.                                                *)

MainExcess == IF InExcess(CurrentBalance) THEN CurrentBalance.amount ELSE 0

IsNew(t) == t \notin DOMAIN call.changes

\* the value of a new change: at least the least value of an output, and
\* without its own cost when that leaves it as much
NewValue ==
  LET value == Max({MainExcess, MinValueForOutput(estimator)}) IN
  IF value < MinValueForOutput(estimator) + FeeForOutput(estimator) THEN value ELSE value - FeeForOutput(estimator)

Held(value) ==
  IF value < ThermostatMin \/ value > ThermostatMax THEN ThermostatMax ELSE value

\* mutant: the value that is held back does not come back to the balance
AccumulatedUnheld(c, t) ==
  LET excess == c.assetBalance[t].amount
      gained == IF IsNew(t) THEN NewValue ELSE MainExcess
      old    == IF IsNew(t) THEN [value |-> 0, assets |-> NoAssets] ELSE c.changes[t]
  IN
  [c EXCEPT !.balance         = Minus(@, gained),
            !.assetBalance[t] = Minus(@, excess),
            !.changes         =
               Put(@, t, [value  |-> Held(old.value + gained),
                          assets |-> Together(old.assets, Single(t, excess))])]

\* the excess of the asset t goes to its change, with the excess of the main
\* token; the balance pays for what the bounds add and gets what they cut
Accumulated(c, t) ==
  LET excess == c.assetBalance[t].amount
      gained == IF IsNew(t) THEN NewValue ELSE MainExcess
      old    == IF IsNew(t) THEN [value |-> 0, assets |-> NoAssets] ELSE c.changes[t]
      value  == old.value + gained
      paid   == Minus(c.balance, gained)
  IN
  [c EXCEPT !.balance         = IF Held(value) < value
                                THEN Plus(paid, value - Held(value))
                                ELSE Minus(paid, Held(value) - value),
            !.assetBalance[t] = Minus(@, excess),
            !.changes         =
               Put(@, t, [value  |-> Held(value),
                          assets |-> Together(old.assets, Single(t, excess))])]

\* the next asset of the order, with its excess accumulated
BalanceExcessOfAsset(t) ==
  IF ~InExcess(CurrentBalanceOf(t))
  THEN call' = [call EXCEPT !.at = @ + 1] /\ UNCHANGED <<estimator, result>>
  ELSE IF ~call.setup.change
  THEN Fail /\ UNCHANGED estimator
  ELSE /\ estimator' = IF IsNew(t) THEN AddOutputs(estimator, 1) ELSE estimator
       /\ IF IsNew(t) /\ ~KnowsIdsOf(call.utxos, t)
          THEN Panic
          ELSE call' = [Accumulated(call, t) EXCEPT !.at = @ + 1] /\ UNCHANGED result

ThBalanceAsset ==
  /\ At("assets") /\ call.at \in DOMAIN call.order
  /\ ~InDebt(CurrentBalanceOf(Asset))
  /\ BalanceExcessOfAsset(Asset)
  /\ UNCHANGED <<available, random>>

ThAssetsAreCovered ==
  /\ At("assets") /\ call.at \notin DOMAIN call.order
  /\ call' = [call EXCEPT !.stage = "main"]
  /\ UNCHANGED <<available, random, estimator, result>>

----------------------------------------------------------------------------
(* Regrouping: one more input per asset in turn, while there is room.      *)

ThMainIsCovered ==
  /\ At("main") /\ ~InDebt(CurrentBalance)
  /\ LET order == IF call.order = <<>> THEN <<Main>> ELSE call.order IN
     call' = [call EXCEPT !.stage = "regroup", !.at = 1, !.order = order,
                          !.empty = [k \in DOMAIN order |-> FALSE]]
  /\ UNCHANGED <<available, random, estimator, result>>

\* the size that is left, of which what one output costs is kept twice per asset
Room ==
  LET used == estimator.size + 2 * FeeForOutput(estimator) * Cardinality(DOMAIN call.assetBalance)
  IN IF used < estimator.max THEN estimator.max - used ELSE 0

\* remaining_number_inputs_allowed can be told when there is one input and one
\* output; it divides by what one input costs
CannotTell == call.setup.fixedOut = <<>> \/ call.chosen = <<>>
RemainingInputsAllowed == Room \div FeeForInput(estimator)

\* mutant: the index stops at the last asset
NextUntilLast(k) == IF k < Len(call.order) THEN k + 1 ELSE k

\* the next asset of the order, in turn
NextInTurn(k) == (k % Len(call.order)) + 1

ThRegroup ==
  /\ At("regroup") /\ ~CannotTell /\ FeeForInput(estimator) # 0
  /\ RemainingInputsAllowed > 0
  /\ ~\A k \in DOMAIN call.empty : call.empty[k]
  /\ LET dry == \/ NumberOfUtxos(call.utxos, Asset) <= NumAccumulators
                \/ Candidates(Asset) = {}
     IN
     IF call.empty[call.at] \/ dry
     THEN /\ call' = [call EXCEPT !.empty[call.at] = TRUE, !.at = NextInTurn(@)]
          /\ UNCHANGED estimator
     ELSE /\ \E u \in Candidates(Asset) :
               call' = [WithInput(call, u) EXCEPT !.at = NextInTurn(@)]
          /\ estimator' = AddInputs(estimator, 1)
  /\ UNCHANGED <<available, random, result>>

ThCannotRegroup ==
  /\ At("regroup")
  /\ \/ CannotTell /\ Fail
     \/ ~CannotTell /\ FeeForInput(estimator) = 0 /\ Panic
  /\ UNCHANGED <<available, random, estimator>>

ThRegrouped ==
  /\ At("regroup") /\ ~CannotTell /\ FeeForInput(estimator) # 0
  /\ \/ RemainingInputsAllowed = 0
     \/ \A k \in DOMAIN call.empty : call.empty[k]
  /\ call' = [call EXCEPT !.stage = "excess", !.at = 1,
                          !.order = IF @ = <<Main>> THEN <<>> ELSE @]
  /\ UNCHANGED <<available, random, estimator, result>>

ThBalanceAssetAgain ==
  /\ At("excess") /\ call.at \in DOMAIN call.order
  /\ BalanceExcessOfAsset(Asset)
  /\ UNCHANGED <<available, random>>

----------------------------------------------------------------------------
(* balance_excess and split_accumulators.                                  *)

TooSmallForChange == MainExcess < MinValueForOutput(estimator) + FeeForOutput(estimator)

ThBalanceMain ==
  /\ At("excess") /\ call.at \notin DOMAIN call.order
  /\ IF InExcess(CurrentBalance) /\ ~call.setup.change
     THEN Fail /\ UNCHANGED estimator
     ELSE LET split == [call EXCEPT !.stage = "split", !.order = Listed(DOMAIN call.changes)]
          IN
          /\ UNCHANGED result
          /\ IF ~InExcess(CurrentBalance) \/ TooSmallForChange
             THEN call' = split /\ UNCHANGED estimator
             ELSE LET value == MainExcess - FeeForOutput(estimator) IN
                  /\ call' = [split EXCEPT
                                !.balance = Minus(@, value),
                                !.order   = Listed(DOMAIN call.changes \cup {Main}),
                                !.changes = Put(@, Main, [value |-> value, assets |-> NoAssets])]
                  /\ estimator' = AddOutputs(estimator, 1)
  /\ UNCHANGED <<available, random>>

\* whether the change of t is a larger part than one of the accumulators
IsLarge(t) ==
  LET change == call.changes[t] IN
  /\ HasBalanceOf(call.utxos, t)
  /\ IF t = Main
     THEN (change.value - FeeForOutput(estimator)) * NumAccumulators
            > BalanceOf(call.utxos, t) + change.value
     ELSE change.assets[t] * NumAccumulatorsAssets
            > BalanceOf(call.utxos, t) + change.assets[t]

\* the change of t in two: what is kept, and what is a new output.  The new one
\* costs an output, which goes back to the balance; when half of the value does
\* not cover that, the new one is not made, yet half of the asset is gone
Split(c, t) ==
  LET old      == c.changes[t]
      half     == Half(old.value)
      moved    == [a \in DOMAIN old.assets |-> Half(old.assets[a])]
      left     == [a \in DOMAIN old.assets |-> old.assets[a] - moved[a]]
      newValue == half - Half(FeeForOutput(estimator))
  IN
  IF half <= FeeForOutput(estimator)
  THEN [c EXCEPT !.changes[t] = [value |-> old.value, assets |-> left],
                 !.lost       = IF t = Main THEN @ ELSE Append(@, [value |-> 0, assets |-> moved])]
  ELSE [c EXCEPT
          !.changes[t] = [value  |-> old.value - newValue - FeeForOutput(estimator),
                          assets |-> left],
          !.balance    = Plus(@, FeeForOutput(estimator)),
          !.extra      = Append(@, [value |-> newValue, assets |-> moved])]

ThSplit ==
  /\ At("split") /\ call.order # <<>>
  /\ LET t == Head(call.order)
         c == [call EXCEPT !.order = Tail(@)] IN
     IF ~IsLarge(t)
     THEN call' = c /\ UNCHANGED <<estimator, result>>
     ELSE LET split == Split(c, t)
              made  == Len(split.extra) - Len(c.extra)
          IN
          IF made = 1 /\ ~Accepts(estimator, Last(split.extra))
          THEN Fail /\ UNCHANGED estimator
          ELSE /\ call' = split
               /\ estimator' = AddOutputs(estimator, made)
               /\ UNCHANGED result
  /\ UNCHANGED <<available, random>>

----------------------------------------------------------------------------
(* The end of the call: what is available changes before the last error.   *)

ThReturn ==
  /\ At("split") /\ call.order = <<>>
  /\ available' = call.utxos
  /\ LET kept    == Listed(DOMAIN call.changes)
         changes == [k \in DOMAIN kept |-> call.changes[kept[k]]] \o call.extra
         ins     == call.chosen \o call.setup.fixedIn
         outs    == changes \o call.setup.fixedOut
     IN
     IF InDebt(call.balance)
     THEN Fail
     ELSE Return("thermostat", [fixedIn |-> call.setup.fixedIn, fixedOut |-> call.setup.fixedOut,
                  chosen |-> call.chosen, changes |-> changes,
                  fee |-> call.balance.amount,
                  inMain |-> MainOf(ins), inAssets |-> AssetsOf(ins),
                  outMain |-> MainOf(outs), outAssets |-> AssetsOf(outs),
                  again |-> <<>>, lost |-> call.lost])
  /\ UNCHANGED <<random, estimator>>

ThStep ==
  \/ ThCoverAsset \/ ThBalanceAsset \/ ThAssetsAreCovered \/ ThCoverMain
  \/ ThMainIsCovered \/ ThRegroup \/ ThCannotRegroup \/ ThRegrouped
  \/ ThBalanceAssetAgain \/ ThBalanceMain \/ ThSplit \/ ThReturn
=============================================================================
