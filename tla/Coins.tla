------------------------------- MODULE Coins -------------------------------
(***************************************************************************)
(* Value and Balance of dcspark_core.  A Value<Regulated> is an amount in  *)
(* the smallest unit, here an integer: the amounts a store is given are    *)
(* whole, and the algorithms cut every division but the one of a pivot,    *)
(* which is only compared.  An amount of several tokens is a function from *)
(* tokens to quantities, and a token it does not name has quantity zero.   *)
(***************************************************************************)
EXTENDS Integers, Sequences

----------------------------------------------------------------------------
(* A Balance says on which side of zero it is.                             *)

Debt(v)   == [side |-> "debt", amount |-> v]
Balanced  == [side |-> "balanced", amount |-> 0]
Excess(v) == [side |-> "excess", amount |-> v]

InDebt(b)     == b.side = "debt"
InBalance(b) == b.side = "balanced"
InExcess(b)   == b.side = "excess"

Toward(v) == IF v = 0 THEN Balanced ELSE Excess(v)

\* balance + value
Plus(b, v) ==
  CASE InDebt(b)     -> IF b.amount > v THEN Debt(b.amount - v)
                                        ELSE Toward(v - b.amount)
    [] InBalance(b) -> Toward(v)
    [] InExcess(b)   -> Excess(b.amount + v)

\* balance - value
Minus(b, v) ==
  CASE InDebt(b)     -> Debt(b.amount + v)
    [] InBalance(b) -> IF v = 0 THEN Balanced ELSE Debt(v)
    [] InExcess(b)   -> IF b.amount < v THEN Debt(v - b.amount)
                                        ELSE Toward(b.amount - v)

\* (value / 2).truncate(): below one there is nothing left
Half(v) == IF v < 2 THEN 0 ELSE v \div 2

\* the quantity of a token in an amount of several
Of(amounts, t) == IF t \in DOMAIN amounts THEN amounts[t] ELSE 0

NoAssets     == <<>>
Single(t, n) == [a \in {t} |-> n]
Together(a, b) == [t \in DOMAIN a \cup DOMAIN b |-> Of(a, t) + Of(b, t)]
=============================================================================
