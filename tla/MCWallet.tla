------------------------------ MODULE MCWallet ------------------------------
(***************************************************************************)
(* A small wallet for TLC: two outputs of the main token alone, two of the *)
(* asset a, and one that mixes a with b.                                   *)
(***************************************************************************)
EXTENDS Wallet

None == NoAssets
A(n) == "a" :> n
B(n) == "b" :> n
C(n) == "c" :> n

Utxo(p, v, as) == [pointer |-> p, value |-> v, assets |-> as]
Output(v, as)  == [value |-> v, assets |-> as]

McUtxos ==
  {Utxo(1, 40, None), Utxo(2, 9, None), Utxo(3, 4, A(3)), Utxo(4, 5, A(4)),
   Utxo(5, 4, Together(A(1), B(2)))}

McIncoming == {Output(7, B(3))}

Request(algo, outs, est, change, fix) ==
  [algo |-> algo, outs |-> outs, est |-> est, change |-> change, fix |-> fix]

McRequests ==
  { Request("largest", <<Output(4, A(4))>>, "thermostat", TRUE, FALSE),
    Request("largest", <<Output(9, Together(A(1), B(1)))>>, "dummy", TRUE, TRUE),
    Request("largest", <<Output(70, None)>>, "thermostat", TRUE, FALSE),
    Request("random", <<Output(3, None), Output(5, A(2))>>, "thermostat", TRUE, FALSE),
    Request("random", <<Output(2, B(1))>>, "thermostat", TRUE, FALSE),
    Request("random", <<Output(3, A(0))>>, "thermostat", TRUE, FALSE),
    Request("random", <<Output(3, C(0))>>, "thermostat", TRUE, FALSE),
    Request("random", <<Output(12, None), Output(8, None)>>, "thermostat", TRUE, TRUE),
    Request("random", <<Output(4, A(1)), Output(4, A(1))>>, "thermostat", TRUE, FALSE),
    Request("thermostat", <<Output(3, Together(A(1), B(1)))>>, "thermostat", TRUE, FALSE),
    Request("thermostat", <<Output(41, A(4))>>, "thermostat", TRUE, FALSE),
    Request("thermostat", <<Output(41, A(4))>>, "thermostat", FALSE, FALSE),
    Request("thermostat", <<Output(3, A(2))>>, "thermostat", FALSE, FALSE),
    Request("thermostat", <<Output(3, A(2))>>, "magic", TRUE, FALSE),
    Request("thermostat", <<Output(3, A(1))>>, "thermostat", TRUE, TRUE),
    Request("thermostat", <<Output(40, A(5))>>, "thermostat", TRUE, TRUE),
    Request("thermostat", <<Output(3, None)>>, "thermostat", FALSE, FALSE),
    Request("thermostat", <<Output(3, None)>>, "dummy", TRUE, FALSE),
    Request("largest", <<Output(9, Together(A(1), B(1)))>>, "cml", TRUE, FALSE),
    Request("random", <<Output(8, None)>>, "cml", TRUE, FALSE),
    Request("thermostat", <<Output(3, A(2))>>, "cml", TRUE, FALSE) }
=============================================================================
