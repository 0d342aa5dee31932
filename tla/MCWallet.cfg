SPECIFICATION Spec
CONSTANTS
  Main = "ada"
  Coefficient = 1
  Constant = 1
  SizeEmpty = 0
  Overhead = 0
  SizeInput = 1
  SizeOutput = 1
  SizeScript = 0
  SizeWitness = 1
  Quorum = 0
  SizeMagic = 1
  MaxTxSize = 11
  MinAda = 2
  MaxUsize = 1000
  Named = {"a", "c"}
  NumAccumulators = 1
  NumAccumulatorsAssets = 2
  ThermostatMin = 3
  ThermostatMax = 14
  InitialUtxos <- McUtxos
  Incoming <- McIncoming
  Requests <- McRequests
  MaxPayments = 2
INVARIANT StoresAgree
PROPERTIES ChoiceIsAPartition SubmittedIsValid CallReturns
CHECK_DEADLOCK FALSE
