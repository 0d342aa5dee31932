------------------------------- MODULE Wallet -------------------------------
(***************************************************************************)
(* The store, the estimators and the algorithms put together by a caller   *)
(* that pays again and again, the way the tests combine them: it hands its *)
(* unspent outputs to an algorithm, tells the estimator of the inputs and  *)
(* outputs it fixed, has the change balanced when the algorithm made none, *)
(* converts the outputs, and then takes the inputs out of its store and    *)
(* puts the changes in.                                                    *)
(***************************************************************************)
EXTENDS LargestFirst, RandomImprove, ChangeBalancers, Thermostat

CONSTANTS
  InitialUtxos,  \* what the wallet owns at first
  Incoming,      \* outputs it may receive
  Requests,      \* [outs, algo, est, change, fix]: what it may be asked
  MaxPayments    \* bound: how many times it is asked

\* the amounts of an output are no less than zero, and the main token is not
\* among its assets
IsAssets(a) ==
  /\ IsFiniteSet(DOMAIN a) /\ Main \notin DOMAIN a
  /\ \A t \in DOMAIN a : a[t] \in Nat
IsOutput(o)   == o.value \in Nat /\ IsAssets(o.assets)
AreOutputs(s) == s \in Seq(Range(s)) /\ \A o \in Range(s) : IsOutput(o)

ASSUME WalletAssumption ==
  /\ IsFiniteSet(InitialUtxos) /\ PointersDiffer(InitialUtxos)
  /\ \A u \in InitialUtxos : IsOutput(u) /\ u.pointer \in 1..Cardinality(InitialUtxos)
  /\ \A o \in Incoming : IsOutput(o)
  /\ \A r \in Requests : /\ AreOutputs(r.outs)
                        /\ r.algo \in {"largest", "random", "thermostat"}
                        /\ r.est \in {"dummy", "thermostat", "magic", "cml"}

VARIABLES
  store,      \* the UTxOStore of the caller
  payments,   \* how many times it was asked
  fresh       \* the next pointer

selectionVars == <<available, random, estimator, call, result>>
vars == <<selectionVars, store, payments, fresh>>

Idle == call = NoCall /\ result = NoResult

Init ==
  /\ store = FromUtxos(InitialUtxos)
  /\ available = EmptyStore
  /\ random = NewRandom(Listed(InitialUtxos))
  /\ estimator = DummyEstimator
  /\ call = NoCall /\ result = NoResult
  /\ payments = 0
  /\ fresh = Cardinality(InitialUtxos) + 1

----------------------------------------------------------------------------
(* Asking an algorithm for inputs.                                         *)

EstimatorFor(r) ==
  CASE r.est = "dummy"      -> DummyEstimator
    [] r.est = "thermostat" -> ThermostatEstimator
    [] r.est = "magic"      -> AddProtocolMagic(ThermostatEstimator)
    [] r.est = "cml"        -> CmlEstimator

\* the inputs the caller fixes: at most one, which is then not available
FixedInputs(r) == IF r.fix THEN {<<u>> : u \in store.utxos.set} ELSE {<<>>}

AskLargest(setup, utxos, e) ==
  /\ available' = utxos
  /\ call' = LfBegin(setup, utxos, e)
  /\ UNCHANGED random

AskThermostat(setup, utxos, e) ==
  /\ available' = utxos
  /\ \E order \in SetToSeqs(DOMAIN AssetBalance(setup.inAssets, setup.outAssets)) :
       call' = ThBegin(setup, utxos, order)
  /\ UNCHANGED random

\* a new object, or the one of the last time with other inputs
AskRandom(setup, utxos, e) ==
  LET inputs == Listed(utxos.utxos.set) IN
  /\ random' \in {NewRandom(inputs), SetAvailableInputs(random, inputs)}
  /\ call' = RiBegin(setup, random', e)
  /\ UNCHANGED available

Ask ==
  /\ Idle /\ payments < MaxPayments
  /\ payments' = payments + 1
  /\ \E r \in Requests : \E fixed \in FixedInputs(r) :
       LET setup == FromFixedInputsAndOutputs(fixed, r.outs, r.change)
           left  == RemoveAll(store, Range(fixed))
           e     == AddInputs(AddOutputs(EstimatorFor(r), Len(r.outs)), Len(fixed))
           \* set_available_utxos takes the store, set_available_inputs a list
       IN
       /\ estimator' = e
       /\ \E utxos \in {left, FromUtxos(left.utxos.set)} :
            CASE r.algo = "largest"    -> AskLargest(setup, utxos, e)
              [] r.algo = "random"     -> AskRandom(setup, utxos, e)
              [] r.algo = "thermostat" -> AskThermostat(setup, utxos, e)
  /\ UNCHANGED <<result, store, fresh>>

Select == (LfStep \/ RiStep \/ ThStep) /\ UNCHANGED <<store, payments, fresh>>

----------------------------------------------------------------------------
(* Using what the algorithm returned.                                      *)

HasResult == call = NoCall /\ result.is = "selected"

\* the result of one algorithm is the setup of the next
AsSetup(change) ==
  [fixedIn |-> InputsOf(result), fixedOut |-> result.fixedOut,
   inMain |-> result.inMain, inAssets |-> result.inAssets,
   outMain |-> result.outMain, outAssets |-> result.outAssets, change |-> change,
   again |-> result.again]

BalanceChange ==
  /\ HasResult /\ result.by \in {"largest", "random"}
  /\ \E change \in BOOLEAN : FeeChange(AsSetup(change)) \/ SingleOutput(AsSetup(change))
  /\ UNCHANGED <<store, payments, fresh>>

\* utxo_details_to_cml_input and utxo_builder_to_cml_output of each of them
InputsConvert(r)  == \A u \in Range(InputsOf(r)) : HasCoins(u)
OutputsConvert(r) == \A o \in Range(OutputsOf(r)) : HasCoins(o)

\* utxo_details_from_io: what the ledger has is an output of the wallet
FromIo(pointer, o) ==
  [pointer |-> pointer, value |-> o.value, assets |-> o.assets]

\* the changes come back to the wallet under new pointers
Change(r, k) == FromIo(fresh + k - 1, r.changes[k])

Submit ==
  /\ HasResult /\ result.by \in {"thermostat", "balancer"} 
  /\ InputsConvert(result) /\ OutputsConvert(result)
  /\ store' = InsertAll(RemoveAll(store, Range(InputsOf(result))),
                        {Change(result, k) : k \in DOMAIN result.changes})
  /\ fresh' = fresh + Len(result.changes)
  /\ result' = NoResult
  /\ UNCHANGED <<available, random, estimator, call, payments>>

\* it failed, panicked, or is not wanted any more
GiveUp ==
  /\ call = NoCall /\ result # NoResult
  /\ result' = NoResult
  /\ UNCHANGED <<available, random, estimator, call, store, payments, fresh>>

\* somebody pays the wallet
Receive ==
  /\ Idle /\ payments < MaxPayments
  /\ \E o \in Incoming : store' = InsertUtxo(store, FromIo(fresh, o))
  /\ payments' = payments + 1 /\ fresh' = fresh + 1
  /\ UNCHANGED selectionVars

Next == Ask \/ Select \/ BalanceChange \/ Submit \/ GiveUp \/ Receive

Spec == Init /\ [][Next]_vars /\ WF_vars(Select)

----------------------------------------------------------------------------
(* Properties.                                                             *)

\* Every store, also the copies the algorithms work on, keeps its indexes with
\* its outputs through any sequence of insertions and removals: the balance of a
\* token is the sum of its outputs, and each is found once in the right bucket
\* (UTxOStoreMut::insert and remove).
StoresAgree ==
  /\ IndexesAgree(store) /\ IndexesAgree(available)
  /\ call.algo \in {"largest", "thermostat"} => IndexesAgree(call.utxos)

\* A call that selected chose inputs that were available, none of them twice,
\* and what is available afterwards is exactly the rest (select_inputs and
\* available_inputs of LargestFirst, Thermostat and RandomImprove).
NowAvailable ==
  IF call.algo = "random" THEN AvailableOf(random') ELSE available'.utxos.set

ChoiceIsAPartition ==
  [][call # NoCall /\ result'.is = "selected"
       => LET chosen == Range(result'.chosen) IN
          /\ IsInjective(result'.chosen)
          /\ chosen \subseteq call.given
          /\ NowAvailable = call.given \ chosen]_vars

\* A transaction the wallet submits spends outputs it owns, each once, and pays the
\* outputs asked for, and in every token its inputs are worth its outputs and the
\* fee, but for two things of which nothing else is out of balance: the inputs that
\* RandomImprove counted once more, because equal outputs share one list, and the
\* halves of assets that the thermostat took from a change too small to be cut in
\* two (select_inputs of Thermostat, and of FeeChangeBalancer and
\* SingleOutputChangeBalancer after LargestFirst or RandomImprove).  So it balances
\* when the outputs differ, or when half of the least change pays for an output.  A
\* balancer pays at least the fee the estimator requires for its inputs and outputs;
\* the thermostat may pay less: regrouping can add a change after the fee was
\* covered.
SubmittedIsValid ==
  [][Submit => /\ IsInjective(InputsOf(result))
               /\ Range(InputsOf(result)) \subseteq store.utxos.set
               /\ ListsBalance(InputsOf(result) \o result.again,
                               OutputsOf(result) \o result.lost, result.fee)
               /\ result.lost = <<>> => IsBalanced(result)
               /\ result.again # <<>> => ~IsInjective(result.fixedOut)
               /\ result.lost # <<>> => ThermostatMin <= 2 * AssumedCostOneOutput + 1
               /\ result.by = "balancer" => result.fee >= MinRequiredFee(estimator)]_vars

\* Every call comes back: no loop of an algorithm turns for ever, whatever the
\* costs, the order of the tokens and the random choices.
CallReturns == (call # NoCall) ~> (call = NoCall)
=============================================================================
