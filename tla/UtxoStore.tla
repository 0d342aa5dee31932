----------------------------- MODULE UtxoStore -----------------------------
(***************************************************************************)
(* UTxOStore and UTxOStoreMut of dcspark_core: the set of unspent outputs, *)
(* one set of them per token, and in each set the balance and the outputs  *)
(* ordered by the quantity of that token.                                  *)
(*                                                                         *)
(* An output is [pointer, value, assets]: assets is a function, for the    *)
(* outputs of a ledger name a token once.  thaw, freeze and the clone of a *)
(* store are the identity on its value, and imbl shares its memory.        *)
(***************************************************************************)
EXTENDS Coins, FiniteSetsExt, Functions, TLC

CONSTANT Main                 \* TokenId::MAIN

TokensOf(u)    == DOMAIN u.assets \cup {Main}
Quantity(u, t) == IF t = Main THEN u.value ELSE u.assets[t]

\* the function f with the value y at x, whether it had one there or not
Put(f, x, y) == [z \in DOMAIN f \cup {x} |-> IF z = x THEN y ELSE f[z]]

----------------------------------------------------------------------------
(* UTxOSet.                                                                *)

EmptySet == [balance |-> 0, set |-> {}, ordered |-> <<>>]

Bucket(s, v) == IF v \in DOMAIN s.ordered THEN s.ordered[v] ELSE {}

AddValue(s, v, u) ==
  [balance |-> s.balance + v,
   set     |-> s.set \cup {u},
   ordered |-> Put(s.ordered, v, Bucket(s, v) \cup {u})]

FinishRemove(s, v, u) ==
  LET left == Bucket(s, v) \ {u} IN
  [balance |-> s.balance - v,
   set     |-> s.set \ {u},
   ordered |-> IF left = {} THEN Restrict(s.ordered, DOMAIN s.ordered \ {v})
                            ELSE [s.ordered EXCEPT ![v] = left]]

\* remove_from_main and remove_from_asset: nothing happens when it is not there
RemoveFromSet(s, v, u) == IF u \in s.set THEN FinishRemove(s, v, u) ELSE s

----------------------------------------------------------------------------
(* UTxOStore.                                                              *)

EmptyStore == [utxos |-> EmptySet, byToken |-> <<>>, dictionary |-> {}]

SetOf(s, t) == IF t \in DOMAIN s.byToken THEN s.byToken[t] ELSE EmptySet

ContainsKey(s, pointer) == \E w \in s.set : w.pointer = pointer

\* insert; with a pointer the store contains it fails and changes nothing
InsertUtxo(s, u) ==
  IF ContainsKey(s.utxos, u.pointer)
  THEN s
  ELSE [utxos      |-> AddValue(s.utxos, u.value, u),
        byToken    |-> [t \in DOMAIN s.byToken \cup TokensOf(u) |->
                          IF t \in TokensOf(u)
                          THEN AddValue(SetOf(s, t), Quantity(u, t), u)
                          ELSE s.byToken[t]],
        dictionary |-> s.dictionary \cup DOMAIN u.assets]

\* mutant: the output stays in the sets of its assets
RemoveFromMainOnly(s, u) ==
  [s EXCEPT !.utxos        = RemoveFromSet(@, u.value, u),
            !.byToken[Main] = RemoveFromSet(@, u.value, u)]

\* remove, of an output the store contains; the dictionary keeps its tokens
RemoveUtxo(s, u) ==
  LET left == [t \in DOMAIN s.byToken |->
                 IF t \in TokensOf(u)
                 THEN RemoveFromSet(s.byToken[t], Quantity(u, t), u)
                 ELSE s.byToken[t]] IN
  [utxos      |-> RemoveFromSet(s.utxos, u.value, u),
   byToken    |-> Restrict(left, {t \in DOMAIN left : left[t].set # {}}),
   dictionary |-> s.dictionary]

InsertAll(s, S) == FoldSet(LAMBDA u, t : InsertUtxo(t, u), s, S)
RemoveAll(s, S) == FoldSet(LAMBDA u, t : RemoveUtxo(t, u), s, S)
FromUtxos(S)    == InsertAll(EmptyStore, S)

NumberOfUtxos(s, t) == Cardinality(SetOf(s, t).set)
HasBalanceOf(s, t)  == t \in DOMAIN s.byToken
BalanceOf(s, t)     == s.byToken[t].balance
KnowsIdsOf(s, t)    == t \in s.dictionary

\* what ordered_utxo_iterator_rev gives first of the outputs in W: the outputs
\* of one quantity come in any order
FirstOrderedRev(ordered, W) ==
  LET has == {v \in DOMAIN ordered : ordered[v] \cap W # {}} IN
  IF has = {} THEN {} ELSE ordered[Max(has)] \cap W

\* the same of iter_token_ordered_by_value_rev(t)
Largest(s, t, W) == FirstOrderedRev(SetOf(s, t).ordered, W)

----------------------------------------------------------------------------
(* What the indexes of a store are for.                                    *)

SetIsOf(s, U, t) ==
  /\ s.set = U
  /\ s.balance = MapThenSumSet(LAMBDA u : Quantity(u, t), U)
  /\ DOMAIN s.ordered = {Quantity(u, t) : u \in U}
  /\ \A v \in DOMAIN s.ordered : s.ordered[v] = {u \in U : Quantity(u, t) = v}

PointersDiffer(U) == \A u, w \in U : u.pointer = w.pointer => u = w

IndexesAgree(s) ==
  LET U == s.utxos.set IN
  /\ PointersDiffer(U)
  /\ SetIsOf(s.utxos, U, Main)
  /\ DOMAIN s.byToken = UNION {TokensOf(u) : u \in U}
  /\ \A t \in DOMAIN s.byToken :
       SetIsOf(s.byToken[t], {u \in U : t \in TokensOf(u)}, t)
  /\ DOMAIN s.byToken \ {Main} \subseteq s.dictionary
=============================================================================
