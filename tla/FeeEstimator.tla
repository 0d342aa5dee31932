---------------------------- MODULE FeeEstimator ----------------------------
(***************************************************************************)
(* The estimators of utxo-selection: the one written for the thermostat,   *)
(* whose costs are those NetworkInfo assumes, the dummy one, and the one   *)
(* that asks a transaction builder of cardano-multiplatform-lib.  An       *)
(* estimator keeps what one more input or output costs and how many it was *)
(* told of.  The transactions of the builder have one signature: its       *)
(* inputs are spent with one payment key.                                  *)
(***************************************************************************)
EXTENDS Coins

CONSTANTS
  Coefficient, Constant,        \* the linear fee of the network
  SizeEmpty, Overhead,          \* ASSUMED_SIZE_EMPTY_TX, ASSUMED_OVERHEAD
  SizeInput, SizeOutput,        \* ASSUMED_SIZE_OF_ONE_INPUT, _OUTPUT
  SizeScript,                   \* the native script of the multisig plan
  SizeWitness, Quorum,          \* one signature, and how many are needed
  SizeMagic,                    \* the metadata with the protocol magic
  MaxTxSize,                    \* max_tx_size of the network
  MinAda,                       \* the least value of an output
  MaxUsize                      \* usize::MAX, u64::MAX

ASSUME CostsAreNatural ==
  {Coefficient, Constant, SizeEmpty, Overhead, SizeInput, SizeOutput, SizeScript,
   SizeWitness, Quorum, SizeMagic, MaxTxSize, MinAda, MaxUsize} \subseteq Nat

----------------------------------------------------------------------------
(* NetworkInfo.                                                            *)

LinearFee == [coefficient |-> Coefficient, constant |-> Constant]

AssumedEmptyTransaction ==
  LinearFee.coefficient * SizeEmpty + LinearFee.constant
AssumedCostOneInput       == LinearFee.coefficient * SizeInput
AssumedCostOneOutput      == LinearFee.coefficient * SizeOutput
AssumedCostOneWitness     == LinearFee.coefficient * SizeWitness
AssumedCostNativeScript   == LinearFee.coefficient * SizeScript
AssumedCostMetadata       == LinearFee.coefficient * SizeMagic
EstimateSizeOverhead      == Overhead + SizeScript + Quorum * SizeWitness

\* what transaction_builder sets up a builder of cardano-multiplatform-lib with;
\* the price per byte decides the least value of an output
TransactionBuilder == [fee |-> LinearFee, minAda |-> MinAda]

----------------------------------------------------------------------------
(* ThermostatFeeEstimator and DummyFeeEstimate.                            *)

ThermostatEstimator ==
  [empty    |-> AssumedEmptyTransaction + AssumedCostNativeScript
                  + AssumedCostOneWitness * Quorum,
   metadata |-> 0,
   input    |-> AssumedCostOneInput,
   output   |-> AssumedCostOneOutput,
   witness  |-> 0,
   sizeIn   |-> SizeInput,
   sizeOut  |-> SizeOutput,
   sizeWit  |-> 0,
   minAda   |-> MinAda,
   converts |-> FALSE,
   max      |-> MaxTxSize,
   size     |-> SizeEmpty + EstimateSizeOverhead,
   inputs   |-> 0,
   outputs  |-> 0]

DummyEstimator ==
  [empty |-> 0, metadata |-> 0, input |-> 0, output |-> 0, witness |-> 0,
   sizeIn |-> 0, sizeOut |-> 0, sizeWit |-> 0, minAda |-> 0, converts |-> FALSE,
   max |-> MaxUsize, size |-> 0, inputs |-> 0, outputs |-> 0]

\* the builder knows the inputs and outputs it has: the first input brings the
\* signature, and an output has to be one of the ledger
CmlEstimator ==
  LET builder == TransactionBuilder
      Cost(size) == builder.fee.coefficient * size
  IN
  [empty    |-> Cost(SizeEmpty) + builder.fee.constant,
   metadata |-> 0,
   input    |-> Cost(SizeInput),
   output   |-> Cost(SizeOutput),
   witness  |-> Cost(SizeWitness),
   sizeIn   |-> SizeInput,
   sizeOut  |-> SizeOutput,
   sizeWit  |-> SizeWitness,
   minAda   |-> builder.minAda,
   converts |-> TRUE,
   max      |-> MaxTxSize,
   size     |-> SizeEmpty,
   inputs   |-> 0,
   outputs  |-> 0]

\* add_protocol_magic: the size estimated so far is replaced
AddProtocolMagic(e) ==
  [e EXCEPT !.size = SizeMagic, !.metadata = AssumedCostMetadata]

Signatures(e) == IF e.inputs = 0 THEN 0 ELSE 1

MinRequiredFee(e) ==
  e.empty + e.metadata + e.output * e.outputs + e.input * e.inputs
    + e.witness * Signatures(e)

AddInputs(e, n) ==
  LET more == [e EXCEPT !.inputs = @ + n] IN
  [more EXCEPT !.size = @ + n * e.sizeIn
                          + (Signatures(more) - Signatures(e)) * e.sizeWit]

AddOutputs(e, n) == [e EXCEPT !.size = @ + n * e.sizeOut, !.outputs = @ + n]

\* what the next inputs and the next output add to the fee
FeeForInputs(e, n)   == MinRequiredFee(AddInputs(e, n)) - MinRequiredFee(e)
FeeForInput(e)       == FeeForInputs(e, 1)
FeeForOutput(e)      == MinRequiredFee(AddOutputs(e, 1)) - MinRequiredFee(e)
MinValueForOutput(e) == e.minAda

----------------------------------------------------------------------------
(* cardano-utils: an output as an output of the ledger.                    *)

\* value_to_csl_coin: an amount that is no u64 cannot be converted
IsCoin(v) == v \in 0..MaxUsize

\* tokens_to_csl_value
HasCoins(o) == IsCoin(o.value) /\ \A t \in DOMAIN o.assets : IsCoin(o.assets[t])

\* add_output of the builder: it has no output below the least value
Accepts(e, o) == e.converts => HasCoins(o) /\ o.value >= MinValueForOutput(e)
=============================================================================
