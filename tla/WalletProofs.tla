---------------------------- MODULE WalletProofs ----------------------------
(***************************************************************************)
(* Balance is integer arithmetic in another shape, and a store keeps its   *)
(* indexes with its outputs, one output or many at a time.  So the stores  *)
(* of a wallet keep theirs, what an algorithm chooses and what it leaves   *)
(* are a partition of what it was given, and what is submitted is a valid  *)
(* transaction: it spends outputs of the wallet, each once, and balances   *)
(* in every token.                                                         *)
(***************************************************************************)
EXTENDS Wallet, FiniteSetTheorems, TLAPS

-----------------------------------------------------------------------------
(* A Balance says how far an integer is from zero, and on which side, with *)
(* one way to write each integer.                                          *)

Positive == Nat \ {0}

(* in_debt, balanced and in_excess exclude each other, and only what is    *)
(* balanced is zero                                                        *)
IsBalance(b) ==
  \/ b = Balanced
  \/ \E n \in Positive : b = Debt(n) \/ b = Excess(n)

Worth(b) == IF InDebt(b) THEN -b.amount ELSE b.amount

LEMMA Sides ==
  /\ ~InDebt(Balanced) /\ InBalance(Balanced) /\ ~InExcess(Balanced)
  /\ Balanced.amount = 0
  /\ \A n : /\ InDebt(Debt(n)) /\ ~InBalance(Debt(n)) /\ ~InExcess(Debt(n))
            /\ Debt(n).amount = n
            /\ ~InDebt(Excess(n)) /\ ~InBalance(Excess(n)) /\ InExcess(Excess(n))
            /\ Excess(n).amount = n
BY DEF InDebt, InBalance, InExcess, Debt, Balanced, Excess

LEMMA TowardFacts ==
  ASSUME NEW v \in Nat
  PROVE  IsBalance(Toward(v)) /\ Worth(Toward(v)) = v
BY Sides DEF Toward, IsBalance, Positive, Worth

(* Balance + Value adds: the side is that of the sum, and zero is Balanced *)
(* (impl Add, AddAssign).                                                  *)
THEOREM PlusAdds ==
  ASSUME NEW b, IsBalance(b), NEW v \in Nat
  PROVE  IsBalance(Plus(b, v)) /\ Worth(Plus(b, v)) = Worth(b) + v
<1>1. CASE b = Balanced
  <2>1. Plus(b, v) = Toward(v) /\ Worth(b) = 0
    BY <1>1, Sides DEF Plus, Worth
  <2> QED BY <2>1, TowardFacts
<1>2. ASSUME NEW n \in Positive, b = Excess(n)
      PROVE  IsBalance(Plus(b, v)) /\ Worth(Plus(b, v)) = Worth(b) + v
  <2>1. Plus(b, v) = Excess(n + v) /\ Worth(b) = n
    BY <1>2, Sides DEF Plus, Worth
  <2>2. n + v \in Positive
    BY DEF Positive
  <2> QED BY <2>1, <2>2, Sides DEF IsBalance, Worth
<1>3. ASSUME NEW n \in Positive, b = Debt(n)
      PROVE  IsBalance(Plus(b, v)) /\ Worth(Plus(b, v)) = Worth(b) + v
  <2>1. Plus(b, v) = (IF n > v THEN Debt(n - v) ELSE Toward(v - n)) /\ Worth(b) = -n
    BY <1>3, Sides DEF Plus, Worth
  <2>2. CASE n > v
    <3>1. n - v \in Positive
      BY <2>2 DEF Positive
    <3> QED BY <2>1, <2>2, <3>1, Sides DEF IsBalance, Worth, Positive
  <2>3. CASE ~(n > v)
    <3>1. v - n \in Nat
      BY <2>3 DEF Positive
    <3> QED BY <2>1, <2>3, <3>1, TowardFacts DEF Positive
  <2> QED BY <2>2, <2>3
<1> QED BY <1>1, <1>2, <1>3 DEF IsBalance

(* Balance - Value subtracts (impl Sub, SubAssign).                        *)
THEOREM MinusSubtracts ==
  ASSUME NEW b, IsBalance(b), NEW v \in Nat
  PROVE  IsBalance(Minus(b, v)) /\ Worth(Minus(b, v)) = Worth(b) - v
<1>1. CASE b = Balanced
  <2>1. Minus(b, v) = (IF v = 0 THEN Balanced ELSE Debt(v)) /\ Worth(b) = 0
    BY <1>1, Sides DEF Minus, Worth
  <2> QED BY <2>1, Sides DEF IsBalance, Positive, Worth
<1>2. ASSUME NEW n \in Positive, b = Debt(n)
      PROVE  IsBalance(Minus(b, v)) /\ Worth(Minus(b, v)) = Worth(b) - v
  <2>1. Minus(b, v) = Debt(n + v) /\ Worth(b) = -n
    BY <1>2, Sides DEF Minus, Worth
  <2>2. n + v \in Positive
    BY DEF Positive
  <2> QED BY <2>1, <2>2, Sides DEF IsBalance, Worth, Positive
<1>3. ASSUME NEW n \in Positive, b = Excess(n)
      PROVE  IsBalance(Minus(b, v)) /\ Worth(Minus(b, v)) = Worth(b) - v
  <2>1. Minus(b, v) = (IF n < v THEN Debt(v - n) ELSE Toward(n - v)) /\ Worth(b) = n
    BY <1>3, Sides DEF Minus, Worth
  <2>2. CASE n < v
    <3>1. v - n \in Positive
      BY <2>2 DEF Positive
    <3> QED BY <2>1, <2>2, <3>1, Sides DEF IsBalance, Worth, Positive
  <2>3. CASE ~(n < v)
    <3>1. n - v \in Nat
      BY <2>3 DEF Positive
    <3> QED BY <2>1, <2>3, <3>1, TowardFacts DEF Positive
  <2> QED BY <2>2, <2>3
<1> QED BY <1>1, <1>2, <1>3 DEF IsBalance

-----------------------------------------------------------------------------
(* Finite sets, from smaller to larger ones.                               *)

(* What holds of the empty set, and of a set when it holds of what is left *)
(* without any one of its elements, holds of every finite set.             *)
LEMMA FiniteInduct ==
  ASSUME NEW S, IsFiniteSet(S), NEW Good, {} \in Good,
         \A T \in SUBSET S :
           T # {} /\ (\A x \in T : T \ {x} \in Good) => T \in Good
  PROVE  S \in Good
<1> DEFINE R == StrictSubsetOrdering(S)
           F == {T \in SUBSET S : T \notin Good}
<1>1. SUFFICES ASSUME F # {} PROVE FALSE
  OBVIOUS
<1>2. IsWellFoundedOn(R, SUBSET S)
  BY FS_FiniteSubsetsOfFinite, FS_StrictSubsetOrderingWellFounded, Zenon
<1> HIDE DEF R
<1>3. F \subseteq SUBSET S
  OBVIOUS
<1>4. PICK T \in F : \A U \in F : ~(<<U, T>> \in R)
  BY <1>1, <1>2, <1>3, WFMin
<1>5. ASSUME NEW x \in T
      PROVE  T \ {x} \in Good
  <2>1. <<T \ {x}, T>> \in R
    BY DEF R, StrictSubsetOrdering
  <2>2. QED
    BY <1>4, <2>1
<1>6. T # {}
  BY <1>4
<1>7. QED
  BY <1>4, <1>5, <1>6

(* Hence a finite set of numbers has a least one.                          *)
LEMMA LeastOf ==
  ASSUME NEW S, IsFiniteSet(S), S \subseteq Int, S # {}
  PROVE  \E m \in S : \A n \in S : m <= n
<1> DEFINE Good == {T \in SUBSET S : T # {} => \E m \in T : \A n \in T : m <= n}
<1>1. {} \in Good
  OBVIOUS
<1>2. ASSUME NEW T \in SUBSET S, T # {}, \A x \in T : T \ {x} \in Good
      PROVE  T \in Good
  <2>1. PICK x \in T : TRUE
    BY <1>2
  <2>2. CASE T \ {x} = {}
    <3>1. \A n \in T : x <= n
      BY <2>1, <2>2
    <3>2. QED
      BY <2>1, <3>1
  <2>3. CASE T \ {x} # {}
    <3>1. PICK m \in T \ {x} : \A n \in T \ {x} : m <= n
      BY <1>2, <2>1, <2>3
    <3>2. CASE m <= x
      BY <3>1, <3>2
    <3>3. CASE ~(m <= x)
      <4>1. \A n \in T : x <= n
        BY <3>1, <3>3
      <4>2. QED
        BY <2>1, <4>1
    <3>4. QED
      BY <3>2, <3>3
  <2>4. QED
    BY <2>2, <2>3
<1> HIDE DEF Good
<1>3. S \in Good
  BY <1>1, <1>2, FiniteInduct
<1>4. QED
  BY <1>3 DEF Good

-----------------------------------------------------------------------------
(* The folds of the model go through a set and take one element after the  *)
(* other out of it.  Those of the stores, of the sums and of the lists are *)
(* one recursion with different steps.                                     *)

FoldStep(k, x, acc) ==
  CASE k.op = "sum"      -> k.f[x] + acc
    [] k.op = "insert"   -> InsertUtxo(acc, x)
    [] k.op = "remove"   -> RemoveUtxo(acc, x)
    [] k.op = "append"   -> Append(acc, k.f[x])
    [] k.op = "join"     -> acc \o k.f[x]
    [] k.op = "together" -> Together(acc, k.f[x])

Chosen(s) == CHOOSE x \in s : TRUE

Folded(k, base, s, g) ==
  IF s = {} THEN base ELSE FoldStep(k, Chosen(s), g[s \ {Chosen(s)}])

IsFold(k, base, S, g) == g = [s \in SUBSET S |-> Folded(k, base, s, g)]

Fold(k, base, S) == (CHOOSE g : IsFold(k, base, S, g))[S]

LEMMA ChosenIn ==
  ASSUME NEW s, s # {}
  PROVE  Chosen(s) \in s
BY DEF Chosen

(* The recursion has a solution.                                           *)
LEMMA FoldExists ==
  ASSUME NEW k, NEW base, NEW S, IsFiniteSet(S)
  PROVE  \E g : IsFold(k, base, S, g)
<1> DEFINE N == Cardinality(S)
           Solves(g, n) ==
             /\ g = [s \in SUBSET S |-> g[s]]
             /\ \A s \in SUBSET S : Cardinality(s) <= n => g[s] = Folded(k, base, s, g)
           Q == {n \in 0..N : \E g : Solves(g, n)}
<1>1. N \in Nat /\ \A s \in SUBSET S : IsFiniteSet(s) /\ Cardinality(s) \in 0..N
  BY FS_Subset, FS_CardinalityType
<1>2. 0 \in Q
  <2>1. ASSUME NEW s \in SUBSET S, Cardinality(s) <= 0
        PROVE  s = {}
    <3>1. Cardinality(s) = 0 /\ IsFiniteSet(s)
      BY <1>1, <2>1
    <3>2. QED
      BY <3>1, FS_EmptySet
  <2> DEFINE g == [s \in SUBSET S |-> base]
  <2>2. \A s \in SUBSET S : Cardinality(s) <= 0 => g[s] = Folded(k, base, s, g)
    BY <2>1 DEF Folded
  <2>3. g = [s \in SUBSET S |-> g[s]]
    OBVIOUS
  <2> HIDE DEF g
  <2>4. Solves(g, 0)
    BY <2>2, <2>3
  <2>5. 0 \in 0..N
    BY <1>1
  <2> HIDE DEF Solves
  <2>6. QED
    BY <2>4, <2>5, Zenon
<1>3. ASSUME NEW n \in 0..N - 1, n \in Q
      PROVE  n + 1 \in Q
  <2>1. PICK g : Solves(g, n)
    BY <1>3
  <2> DEFINE h == [s \in SUBSET S |-> Folded(k, base, s, g)]
  <2>2. ASSUME NEW s \in SUBSET S, Cardinality(s) <= n + 1
        PROVE  h[s] = Folded(k, base, s, h)
    <3>1. h[s] = Folded(k, base, s, g)
      OBVIOUS
    <3>2. CASE s = {}
      BY <3>1, <3>2 DEF Folded
    <3>3. CASE s # {}
      <4> DEFINE r == s \ {Chosen(s)}
      <4>1. r \in SUBSET S /\ Cardinality(r) <= n
        <5>1. Cardinality(r) = Cardinality(s) - 1
          BY <1>1, <3>3, ChosenIn, FS_RemoveElement
        <5>2. QED
          BY <1>1, <2>2, <5>1
      <4>2. h[r] = g[r]
        BY <2>1, <4>1
      <4> HIDE DEF h, Solves
      <4>3. QED
        BY <3>1, <3>3, <4>2 DEF Folded
    <3>4. QED
      BY <3>2, <3>3
  <2>3. h = [s \in SUBSET S |-> h[s]]
    OBVIOUS
  <2> HIDE DEF h
  <2>4. Solves(h, n + 1)
    BY <2>2, <2>3
  <2>5. n + 1 \in 0..N
    BY <1>1
  <2>6. QED
    BY <2>4, <2>5
<1>4. N \in Q
  <2> HIDE DEF Q, N
  <2>1. SUFFICES ASSUME N \notin Q PROVE FALSE
    OBVIOUS
  <2> DEFINE Good == {T \in SUBSET (1..N) : Cardinality(T) \in Q}
  <2>2. IsFiniteSet(1..N) /\ Cardinality(1..N) = N
    BY <1>1, FS_Interval
  <2>3. {} \in Good
    BY <1>2, FS_EmptySet
  <2>4. ASSUME NEW T \in SUBSET (1..N), T # {}, \A x \in T : T \ {x} \in Good
        PROVE  T \in Good
    <3>1. PICK x \in T : TRUE
      BY <2>4
    <3>0. IsFiniteSet(T) /\ Cardinality(T) <= N
      BY <2>2, FS_Subset
    <3>2. Cardinality(T \ {x}) = Cardinality(T) - 1 /\ Cardinality(T) \in Nat
      BY <3>0, <3>1, FS_CardinalityType, FS_RemoveElement
    <3>3. Cardinality(T \ {x}) \in Q
      BY <2>4
    <3>4. Cardinality(T) - 1 \in 0..N - 1 /\ Cardinality(T) - 1 \in Q
      <4>1. Q \subseteq 0..N
        BY DEF Q
      <4>2. QED
        BY <1>1, <3>0, <3>2, <3>3, <4>1
    <3>5. (Cardinality(T) - 1) + 1 \in Q
      BY <1>3, <3>4
    <3>6. QED
      BY <3>0, <3>2, <3>5
  <2> HIDE DEF Good
  <2>5. 1..N \in Good
    BY <2>2, <2>3, <2>4, FiniteInduct
  <2>6. QED
    BY <2>1, <2>2, <2>5 DEF Good
<1>5. PICK g : Solves(g, N)
  BY <1>4
<1>6. \A s \in SUBSET S : g[s] = Folded(k, base, s, g)
  <2> SUFFICES ASSUME NEW s \in SUBSET S PROVE g[s] = Folded(k, base, s, g)
    OBVIOUS
  <2>1. Cardinality(s) <= N
    <3> HIDE DEF N
    <3>1. QED
      BY <1>1
  <2>2. QED
    BY <1>5, <2>1
<1>7. QED
  BY <1>5, <1>6 DEF IsFold

(* Every solution gives the same result, on every subset.                  *)
LEMMA FoldUnique ==
  ASSUME NEW k, NEW base, NEW S, IsFiniteSet(S), NEW g, IsFold(k, base, S, g),
         NEW T \in SUBSET S
  PROVE  g[T] = Fold(k, base, T)
<1> DEFINE h == CHOOSE f : IsFold(k, base, T, f)
           Good == {s \in SUBSET T : g[s] = h[s]}
<1>1. IsFiniteSet(T)
  BY FS_Subset
<1>2. IsFold(k, base, T, h)
  BY <1>1, FoldExists, Zenon
<1>3. Fold(k, base, T) = h[T]
  BY DEF Fold
<1> HIDE DEF h
<1>4. \A s \in SUBSET T : h[s] = Folded(k, base, s, h)
  BY <1>2, Zenon DEF IsFold
<1>5. \A s \in SUBSET S : g[s] = Folded(k, base, s, g)
  BY Zenon DEF IsFold
<1>6. {} \in Good
  BY <1>4, <1>5 DEF Folded
<1>7. ASSUME NEW s \in SUBSET T, s # {}, \A x \in s : s \ {x} \in Good
      PROVE  s \in Good
  <2>1. g[s \ {Chosen(s)}] = h[s \ {Chosen(s)}]
    BY <1>7, ChosenIn
  <2>2. Folded(k, base, s, g) = Folded(k, base, s, h)
    BY <2>1 DEF Folded
  <2>3. QED
    BY <1>4, <1>5, <2>2
<1> HIDE DEF Good
<1>8. T \in Good
  BY <1>1, <1>6, <1>7, FiniteInduct
<1>9. QED
  BY <1>3, <1>8 DEF Good

LEMMA FoldEmpty ==
  ASSUME NEW k, NEW base
  PROVE  Fold(k, base, {}) = base
<1>1. PICK g : IsFold(k, base, {}, g)
  BY FoldExists, FS_EmptySet
<1>2. g[{}] = Folded(k, base, {}, g)
  BY <1>1, Zenon DEF IsFold
<1>3. g[{}] = Fold(k, base, {})
  BY <1>1, FoldUnique, FS_EmptySet
<1>4. QED
  BY <1>2, <1>3 DEF Folded

LEMMA FoldNonempty ==
  ASSUME NEW k, NEW base, NEW S, IsFiniteSet(S), S # {}
  PROVE  Fold(k, base, S) = FoldStep(k, Chosen(S), Fold(k, base, S \ {Chosen(S)}))
<1>1. PICK g : IsFold(k, base, S, g)
  BY FoldExists
<1>2. g[S] = Folded(k, base, S, g)
  BY <1>1, Zenon DEF IsFold
<1>3. g[S] = Fold(k, base, S) /\ g[S \ {Chosen(S)}] = Fold(k, base, S \ {Chosen(S)})
  BY <1>1, FoldUnique
<1>4. QED
  BY <1>2, <1>3 DEF Folded

-----------------------------------------------------------------------------
(* Sums: of f over a finite set, in any order.                             *)

SumKind(f)     == [op |-> "sum", f |-> f]
SumOver(f, S)  == Fold(SumKind(f), 0, S)

LEMMA SumStep ==
  ASSUME NEW f, NEW x, NEW acc
  PROVE  FoldStep(SumKind(f), x, acc) = f[x] + acc
<1>1. SumKind(f).op = "sum" /\ SumKind(f).f = f
  BY DEF SumKind
<1>2. QED
  BY <1>1 DEF FoldStep

LEMMA SumEmpty == ASSUME NEW f PROVE SumOver(f, {}) = 0
BY FoldEmpty DEF SumOver

LEMMA SumNonempty ==
  ASSUME NEW f, NEW S, IsFiniteSet(S), S # {}
  PROVE  \E x \in S : SumOver(f, S) = f[x] + SumOver(f, S \ {x})
<1>1. Chosen(S) \in S
  BY ChosenIn
<1>2. SumOver(f, S) = f[Chosen(S)] + SumOver(f, S \ {Chosen(S)})
  BY FoldNonempty, SumStep DEF SumOver
<1>3. QED
  BY <1>1, <1>2

LEMMA SumType ==
  ASSUME NEW f, NEW S, IsFiniteSet(S), \A x \in S : f[x] \in Int
  PROVE  SumOver(f, S) \in Int
<1> DEFINE Good == {T \in SUBSET S : SumOver(f, T) \in Int}
<1>1. {} \in Good
  BY SumEmpty
<1>2. ASSUME NEW T \in SUBSET S, T # {}, \A x \in T : T \ {x} \in Good
      PROVE  T \in Good
  <2>1. PICK x \in T : SumOver(f, T) = f[x] + SumOver(f, T \ {x})
    BY <1>2, SumNonempty, FS_Subset
  <2>2. SumOver(f, T \ {x}) \in Int /\ f[x] \in Int
    BY <1>2
  <2>3. SumOver(f, T) \in Int
    BY <2>1, <2>2
  <2>4. QED
    BY <2>3
<1> HIDE DEF Good
<1>3. S \in Good
  BY <1>1, <1>2, FiniteInduct
<1>4. QED
  BY <1>3 DEF Good

LEMMA SumNat ==
  ASSUME NEW f, NEW S, IsFiniteSet(S), \A x \in S : f[x] \in Nat
  PROVE  SumOver(f, S) \in Nat
<1> DEFINE Good == {T \in SUBSET S : SumOver(f, T) \in Nat}
<1>1. {} \in Good
  BY SumEmpty
<1>2. ASSUME NEW T \in SUBSET S, T # {}, \A x \in T : T \ {x} \in Good
      PROVE  T \in Good
  <2>1. PICK x \in T : SumOver(f, T) = f[x] + SumOver(f, T \ {x})
    BY <1>2, SumNonempty, FS_Subset
  <2>2. SumOver(f, T \ {x}) \in Nat /\ f[x] \in Nat
    BY <1>2
  <2>3. SumOver(f, T) \in Nat
    BY <2>1, <2>2
  <2>4. QED
    BY <2>3
<1> HIDE DEF Good
<1>3. S \in Good
  BY <1>1, <1>2, FiniteInduct
<1>4. QED
  BY <1>3 DEF Good

(* It does not matter which element is taken out first.                    *)
LEMMA SumRemove ==
  ASSUME NEW f, NEW S, IsFiniteSet(S), \A x \in S : f[x] \in Int, NEW z \in S
  PROVE  SumOver(f, S) = f[z] + SumOver(f, S \ {z})
<1> DEFINE Good == {T \in SUBSET S :
                      \A x \in T : SumOver(f, T) = f[x] + SumOver(f, T \ {x})}
<1>1. {} \in Good
  OBVIOUS
<1>2. ASSUME NEW T \in SUBSET S, T # {}, \A x \in T : T \ {x} \in Good
      PROVE  T \in Good
  <2>1. PICK x \in T : SumOver(f, T) = f[x] + SumOver(f, T \ {x})
    BY <1>2, SumNonempty, FS_Subset
  <2>2. ASSUME NEW y \in T
        PROVE  SumOver(f, T) = f[y] + SumOver(f, T \ {y})
    <3>1. CASE y = x
      BY <2>1, <3>1
    <3>2. CASE y # x
      <4> DEFINE R == T \ {x, y}
      <4>1. (T \ {x}) \ {y} = R /\ (T \ {y}) \ {x} = R
        OBVIOUS
      <4>2. SumOver(f, T \ {x}) = f[y] + SumOver(f, R)
        <5>1. y \in T \ {x} /\ T \ {x} \in Good
          BY <1>2, <3>2
        <5>2. QED
          BY <4>1, <5>1
      <4>3. SumOver(f, T \ {y}) = f[x] + SumOver(f, R)
        <5>1. x \in T \ {y} /\ T \ {y} \in Good
          BY <1>2, <3>2
        <5>2. QED
          BY <4>1, <5>1
      <4>4. SumOver(f, R) \in Int /\ f[x] \in Int /\ f[y] \in Int
        BY SumType, FS_Subset
      <4> HIDE DEF R, Good
      <4>5. QED
        BY <2>1, <4>2, <4>3, <4>4
    <3>3. QED
      BY <3>1, <3>2
  <2>3. QED
    BY <2>2
<1> HIDE DEF Good
<1>3. S \in Good
  BY <1>1, <1>2, FiniteInduct
<1>4. QED
  BY <1>3 DEF Good

LEMMA SumAdd ==
  ASSUME NEW f, NEW S, IsFiniteSet(S), \A x \in S : f[x] \in Int,
         NEW z, z \notin S, f[z] \in Int
  PROVE  SumOver(f, S \cup {z}) = f[z] + SumOver(f, S)
<1>1. IsFiniteSet(S \cup {z}) /\ (S \cup {z}) \ {z} = S
  BY FS_AddElement
<1>2. \A x \in S \cup {z} : f[x] \in Int
  OBVIOUS
<1>3. SumOver(f, S \cup {z}) = f[z] + SumOver(f, (S \cup {z}) \ {z})
  BY <1>1, <1>2, SumRemove
<1>4. QED
  BY <1>1, <1>3

(* Only the values on the set count.                                       *)
LEMMA SumSame ==
  ASSUME NEW f, NEW g, NEW S, IsFiniteSet(S), \A x \in S : f[x] = g[x]
  PROVE  SumOver(f, S) = SumOver(g, S)
<1> DEFINE Good == {T \in SUBSET S : SumOver(f, T) = SumOver(g, T)}
<1>1. {} \in Good
  BY SumEmpty
<1>2. ASSUME NEW T \in SUBSET S, T # {}, \A x \in T : T \ {x} \in Good
      PROVE  T \in Good
  <2>1. Chosen(T) \in T /\ IsFiniteSet(T)
    BY <1>2, ChosenIn, FS_Subset
  <2>2. SumOver(f, T) = f[Chosen(T)] + SumOver(f, T \ {Chosen(T)})
    BY <1>2, <2>1, FoldNonempty, SumStep DEF SumOver
  <2>3. SumOver(g, T) = g[Chosen(T)] + SumOver(g, T \ {Chosen(T)})
    BY <1>2, <2>1, FoldNonempty, SumStep DEF SumOver
  <2>4. SumOver(f, T \ {Chosen(T)}) = SumOver(g, T \ {Chosen(T)})
    BY <1>2, <2>1
  <2>5. f[Chosen(T)] = g[Chosen(T)]
    BY <2>1
  <2>6. QED
    BY <2>2, <2>3, <2>4, <2>5
<1> HIDE DEF Good
<1>3. S \in Good
  BY <1>1, <1>2, FiniteInduct
<1>4. QED
  BY <1>3 DEF Good

(* Renaming the elements changes nothing.                                  *)
LEMMA SumRenamed ==
  ASSUME NEW f, NEW S, IsFiniteSet(S), NEW g, NEW h,
         \A x \in S : f[x] = g[h[x]] /\ f[x] \in Int,
         \A x, y \in S : h[x] = h[y] => x = y
  PROVE  SumOver(g, {h[x] : x \in S}) = SumOver(f, S)
<1> DEFINE Image(T) == {h[x] : x \in T}
           Good == {T \in SUBSET S : SumOver(g, Image(T)) = SumOver(f, T)}
<1>0. \A T \in SUBSET S : IsFiniteSet(Image(T))
  <2> SUFFICES ASSUME NEW T \in SUBSET S PROVE IsFiniteSet(Image(T))
    OBVIOUS
  <2>1. IsFiniteSet(T)
    BY FS_Subset
  <2>2. [x \in T |-> h[x]] \in Surjection(T, Image(T))
    BY DEF Surjection
  <2>3. QED
    BY <2>1, <2>2, FS_Surjection
<1>1. {} \in Good
  <2>1. Image({}) = {}
    OBVIOUS
  <2>2. QED
    BY <2>1, SumEmpty
<1>2. ASSUME NEW T \in SUBSET S, T # {}, \A x \in T : T \ {x} \in Good
      PROVE  T \in Good
  <2>1. PICK x \in T : TRUE
    BY <1>2
  <2>2. SumOver(f, T) = f[x] + SumOver(f, T \ {x})
    BY SumRemove, FS_Subset
  <2>3. Image(T) \ {h[x]} = Image(T \ {x}) /\ h[x] \in Image(T)
    OBVIOUS
  <2>4. SumOver(g, Image(T)) = g[h[x]] + SumOver(g, Image(T) \ {h[x]})
    <3>1. \A y \in Image(T) : g[y] \in Int
      OBVIOUS
    <3>2. IsFiniteSet(Image(T))
      BY <1>0
    <3> HIDE DEF Image
    <3>3. QED
      BY <2>3, <3>1, <3>2, SumRemove
  <2>5. SumOver(g, Image(T \ {x})) = SumOver(f, T \ {x})
    BY <1>2
  <2> HIDE DEF Image
  <2>6. QED
    BY <2>2, <2>3, <2>4, <2>5
<1> HIDE DEF Good
<1>3. S \in Good
  BY <1>1, <1>2, FiniteInduct
<1>4. QED
  BY <1>3 DEF Good

LEMMA SumUnion ==
  ASSUME NEW f, NEW S, IsFiniteSet(S), NEW R, IsFiniteSet(R), S \cap R = {},
         \A x \in S \cup R : f[x] \in Int
  PROVE  SumOver(f, S \cup R) = SumOver(f, S) + SumOver(f, R)
<1> DEFINE Good == {T \in SUBSET R : SumOver(f, S \cup T) = SumOver(f, S) + SumOver(f, T)}
<1>0. SumOver(f, S) \in Int /\ \A T \in SUBSET R : SumOver(f, T) \in Int /\ IsFiniteSet(T)
  BY SumType, FS_Subset
<1>1. {} \in Good
  BY <1>0, SumEmpty
<1>2. ASSUME NEW T \in SUBSET R, T # {}, \A x \in T : T \ {x} \in Good
      PROVE  T \in Good
  <2>1. PICK x \in T : TRUE
    BY <1>2
  <2>2. SumOver(f, T) = f[x] + SumOver(f, T \ {x})
    BY <1>0, SumRemove
  <2>3. (S \cup T) \ {x} = S \cup (T \ {x})
    OBVIOUS
  <2>4. SumOver(f, S \cup T) = f[x] + SumOver(f, S \cup (T \ {x}))
    <3>1. IsFiniteSet(S \cup T)
      BY <1>0, FS_Union
    <3>2. \A y \in S \cup T : f[y] \in Int
      OBVIOUS
    <3>3. QED
      BY <2>3, <3>1, <3>2, SumRemove
  <2>5. SumOver(f, S \cup (T \ {x})) = SumOver(f, S) + SumOver(f, T \ {x})
    BY <1>2
  <2>6. SumOver(f, S) \in Int /\ SumOver(f, T \ {x}) \in Int /\ f[x] \in Int
    BY <1>0
  <2>7. SumOver(f, S \cup T) = SumOver(f, S) + SumOver(f, T)
    BY <2>2, <2>4, <2>5, <2>6
  <2>8. QED
    BY <2>7
<1> HIDE DEF Good
<1>3. R \in Good
  BY <1>1, <1>2, FiniteInduct
<1>4. QED
  BY <1>3 DEF Good

(* The sum a store is compared with is one of these.                       *)
QuantityOf(t, U) == [u \in U |-> Quantity(u, t)]

LEMMA MapThenSumIs ==
  ASSUME NEW t, NEW U, IsFiniteSet(U)
  PROVE  MapThenSumSet(LAMBDA u : Quantity(u, t), U) = SumOver(QuantityOf(t, U), U)
<1> DEFINE Summed(s, g) == IF s = {} THEN 0
                           ELSE Quantity(Chosen(s), t) + g[s \ {Chosen(s)}]
           g0 == CHOOSE g : g = [s \in SUBSET U |-> Summed(s, g)]
           k == SumKind(QuantityOf(t, U))
<1>1. \A g : \A s \in SUBSET U : Summed(s, g) = Folded(k, 0, s, g)
  BY SumStep, ChosenIn DEF Folded, QuantityOf
<1>2. PICK h : IsFold(k, 0, U, h)
  BY FoldExists
<1>3. h = [s \in SUBSET U |-> Summed(s, h)]
  BY <1>1, <1>2 DEF IsFold
<1>4. g0 = [s \in SUBSET U |-> Summed(s, g0)]
  <2> HIDE DEF Summed
  <2>1. QED
    BY <1>3, Zenon
<1>5. MapThenSumSet(LAMBDA u : Quantity(u, t), U) = g0[U]
  BY Zenon DEF MapThenSumSet, MapThenFoldSet, Chosen
<1> HIDE DEF g0, k
<1>6. IsFold(k, 0, U, g0)
  <2> HIDE DEF Summed
  <2>1. QED
    BY <1>1, <1>4 DEF IsFold
<1>7. g0[U] = Fold(k, 0, U)
  BY <1>6, FoldUnique
<1>8. QED
  BY <1>5, <1>7 DEF SumOver, k

-----------------------------------------------------------------------------
(* One set of outputs.                                                     *)

HasQuantities(u) == \A t \in TokensOf(u) : Quantity(u, t) \in Int

(* what the outputs in U hold of the token t                               *)
Total(t, U) == SumOver(QuantityOf(t, U), U)

LEMMA TotalEmpty == ASSUME NEW t PROVE Total(t, {}) = 0
BY SumEmpty DEF Total

LEMMA TotalAdd ==
  ASSUME NEW t, NEW U, IsFiniteSet(U), \A w \in U : Quantity(w, t) \in Int,
         NEW u, u \notin U, Quantity(u, t) \in Int
  PROVE  Total(t, U \cup {u}) = Total(t, U) + Quantity(u, t) /\ Total(t, U) \in Int
<1> DEFINE f == QuantityOf(t, U \cup {u})
<1>1. \A w \in U \cup {u} : f[w] = Quantity(w, t)
  BY DEF QuantityOf
<1>2. SumOver(f, U \cup {u}) = f[u] + SumOver(f, U)
  <2> HIDE DEF f
  <2>1. QED
    BY <1>1, SumAdd
<1>3. SumOver(f, U) = Total(t, U)
  BY <1>1, SumSame DEF Total, QuantityOf
<1>4. Total(t, U) \in Int
  <2> DEFINE g == QuantityOf(t, U)
  <2>1. \A w \in U : g[w] \in Int
    BY DEF QuantityOf
  <2> HIDE DEF g
  <2>2. SumOver(g, U) \in Int
    BY <2>1, SumType
  <2>3. QED
    BY <2>2 DEF g, Total
<1>5. Total(t, U \cup {u}) = f[u] + Total(t, U) /\ f[u] = Quantity(u, t)
  BY <1>1, <1>2, <1>3 DEF Total
<1> HIDE DEF f
<1>6. QED
  BY <1>4, <1>5

LEMMA TotalRemove ==
  ASSUME NEW t, NEW U, IsFiniteSet(U), \A w \in U : Quantity(w, t) \in Int,
         NEW u \in U
  PROVE  Total(t, U \ {u}) = Total(t, U) - Quantity(u, t)
<1> DEFINE R == U \ {u}
<1>1. IsFiniteSet(R) /\ u \notin R /\ R \cup {u} = U /\ \A w \in R : w \in U
  BY FS_RemoveElement
<1> HIDE DEF R
<1>2. Total(t, R \cup {u}) = Total(t, R) + Quantity(u, t) /\ Total(t, R) \in Int
  BY <1>1, TotalAdd
<1>3. Quantity(u, t) \in Int
  OBVIOUS
<1>4. Total(t, R) = Total(t, U) - Quantity(u, t)
  <2>1. Total(t, R \cup {u}) = Total(t, U)
    BY <1>1
  <2> DEFINE x == Total(t, R)
             y == Total(t, U)
             z == Quantity(u, t)
  <2>2. y = x + z /\ x \in Int /\ z \in Int
    BY <1>2, <1>3, <2>1
  <2> HIDE DEF x, y, z
  <2>3. x = y - z
    BY <2>2
  <2>4. QED
    BY <2>3 DEF x, y, z
<1>5. QED
  BY <1>4 DEF R

Indexed(s, U, t) ==
  /\ s.set = U
  /\ s.balance = Total(t, U)
  /\ DOMAIN s.ordered = {Quantity(u, t) : u \in U}
  /\ \A v \in DOMAIN s.ordered : s.ordered[v] = {u \in U : Quantity(u, t) = v}

LEMMA SetIs ==
  ASSUME NEW s, NEW U, IsFiniteSet(U), NEW t
  PROVE  SetIsOf(s, U, t) <=> Indexed(s, U, t)
<1>1. MapThenSumSet(LAMBDA u : Quantity(u, t), U) = Total(t, U)
  BY MapThenSumIs DEF Total
<1>2. QED
  BY <1>1, Zenon DEF SetIsOf, Indexed

LEMMA EmptySetIs == ASSUME NEW t PROVE SetIsOf(EmptySet, {}, t)
<1>1. /\ EmptySet.set = {} /\ EmptySet.balance = 0
      /\ DOMAIN EmptySet.ordered = {}
  BY DEF EmptySet
<1>2. QED
  BY <1>1, SetIs, TotalEmpty, FS_EmptySet DEF Indexed

LEMMA AddValueKeeps ==
  ASSUME NEW t, NEW U, IsFiniteSet(U), \A w \in U : Quantity(w, t) \in Int,
         NEW u, u \notin U, Quantity(u, t) \in Int,
         NEW s, SetIsOf(s, U, t)
  PROVE  SetIsOf(AddValue(s, Quantity(u, t), u), U \cup {u}, t)
<1> DEFINE v == Quantity(u, t)
           W == U \cup {u}
           a == AddValue(s, v, u)
           new == Put(s.ordered, v, Bucket(s, v) \cup {u})
<1>1. /\ s.set = U
      /\ s.balance = Total(t, U)
      /\ DOMAIN s.ordered = {Quantity(w, t) : w \in U}
      /\ \A x \in DOMAIN s.ordered : s.ordered[x] = {w \in U : Quantity(w, t) = x}
  <2>1. Indexed(s, U, t)
    BY SetIs
  <2>2. QED
    BY <2>1 DEF Indexed
<1>2. a.set = s.set \cup {u} /\ a.balance = s.balance + v /\ a.ordered = new
  BY DEF AddValue
<1>3. Total(t, W) = Total(t, U) + v
  BY TotalAdd
<1>4. DOMAIN new = {v} \cup DOMAIN s.ordered
  BY DEF Put
<1>5. /\ new[v] = Bucket(s, v) \cup {u}
      /\ \A x \in DOMAIN s.ordered : x # v => new[x] = s.ordered[x]
  BY DEF Put
<1>6. Bucket(s, v) = {w \in U : Quantity(w, t) = v}
  BY <1>1 DEF Bucket
<1> HIDE DEF new, a
<1>7. DOMAIN new = {Quantity(w, t) : w \in W}
  BY <1>1, <1>4
<1>8. ASSUME NEW x \in DOMAIN new
      PROVE  new[x] = {w \in W : Quantity(w, t) = x}
  <2>1. CASE x = v
    BY <1>5, <1>6, <2>1
  <2>2. CASE x # v
    BY <1>1, <1>4, <1>5, <2>2
  <2>3. QED
    BY <2>1, <2>2
<1>9. IsFiniteSet(W)
  BY FS_AddElement
<1>10. /\ a.set = W
       /\ a.balance = Total(t, W)
       /\ DOMAIN a.ordered = {Quantity(w, t) : w \in W}
       /\ \A x \in DOMAIN a.ordered : a.ordered[x] = {w \in W : Quantity(w, t) = x}
  <2> HIDE DEF v
  <2>1. QED
    BY <1>1, <1>2, <1>3, <1>7, <1>8
<1> HIDE DEF W
<1>11. SetIsOf(a, W, t)
  <2>1. Indexed(a, W, t)
    BY <1>10 DEF Indexed
  <2>2. QED
    BY <1>9, <2>1, SetIs
<1>12. QED
  BY <1>11 DEF a, W

LEMMA RemoveFromSetKeeps ==
  ASSUME NEW t, NEW U, IsFiniteSet(U), \A w \in U : Quantity(w, t) \in Int,
         NEW u, u \in U, NEW s, SetIsOf(s, U, t)
  PROVE  SetIsOf(RemoveFromSet(s, Quantity(u, t), u), U \ {u}, t)
<1>1. /\ s.set = U
      /\ s.balance = Total(t, U)
      /\ DOMAIN s.ordered = {Quantity(w, t) : w \in U}
      /\ \A x \in DOMAIN s.ordered : s.ordered[x] = {w \in U : Quantity(w, t) = x}
  <2>1. Indexed(s, U, t)
    BY SetIs
  <2>2. QED
    BY <2>1 DEF Indexed
<1> DEFINE v == Quantity(u, t)
           W == U \ {u}
           a == RemoveFromSet(s, v, u)
           left == Bucket(s, v) \ {u}
           new == IF left = {} THEN Restrict(s.ordered, DOMAIN s.ordered \ {v})
                               ELSE [s.ordered EXCEPT ![v] = left]
<1>2. a.set = s.set \ {u} /\ a.balance = s.balance - v /\ a.ordered = new
  BY <1>1 DEF RemoveFromSet, FinishRemove
<1>3. Total(t, W) = Total(t, U) - v
  BY TotalRemove
<1>6. left = {w \in W : Quantity(w, t) = v} /\ v \in DOMAIN s.ordered
  BY <1>1 DEF Bucket
<1> HIDE DEF left, a, v
<1>9. /\ DOMAIN new = {Quantity(w, t) : w \in W}
      /\ \A x \in DOMAIN new : new[x] = {w \in W : Quantity(w, t) = x}
  <2>7. CASE left = {}
    <3>1. new = [x \in DOMAIN s.ordered \ {v} |-> s.ordered[x]]
      BY <2>7 DEF Restrict
    <3>2. DOMAIN new = DOMAIN s.ordered \ {v}
          /\ \A x \in DOMAIN new : new[x] = s.ordered[x] /\ x # v
      BY <3>1
    <3> HIDE DEF new
    <3>3. DOMAIN new = {Quantity(w, t) : w \in W}
      BY <1>1, <1>6, <2>7, <3>2 DEF v
    <3>4. ASSUME NEW x \in DOMAIN new
          PROVE  new[x] = {w \in W : Quantity(w, t) = x}
      BY <1>1, <3>2 DEF v
    <3>5. QED
      BY <3>3, <3>4
  <2>8. CASE left # {}
    <3>1. new = [s.ordered EXCEPT ![v] = left]
      BY <2>8
    <3>2. DOMAIN new = DOMAIN s.ordered
          /\ \A x \in DOMAIN new : new[x] = IF x = v THEN left ELSE s.ordered[x]
      BY <3>1
    <3> HIDE DEF new
    <3>3. DOMAIN new = {Quantity(w, t) : w \in W}
      <4>1. ASSUME NEW w \in U
            PROVE  Quantity(w, t) \in {Quantity(y, t) : y \in W}
        <5>1. CASE w = u
          BY <1>6, <2>8, <5>1 DEF v
        <5>2. CASE w # u
          BY <5>2
        <5>3. QED
          BY <5>1, <5>2
      <4>2. QED
        BY <1>1, <3>2, <4>1
    <3>4. ASSUME NEW x \in DOMAIN new
          PROVE  new[x] = {w \in W : Quantity(w, t) = x}
      BY <1>1, <1>6, <3>2 DEF v
    <3>5. QED
      BY <3>3, <3>4
  <2>9. QED
    BY <2>7, <2>8
<1> HIDE DEF new
<1>10. IsFiniteSet(W)
  BY FS_RemoveElement
<1>11. /\ a.set = W
       /\ a.balance = Total(t, W)
       /\ DOMAIN a.ordered = {Quantity(w, t) : w \in W}
       /\ \A x \in DOMAIN a.ordered : a.ordered[x] = {w \in W : Quantity(w, t) = x}
  BY <1>1, <1>2, <1>3, <1>9
<1> HIDE DEF W
<1>12. SetIsOf(a, W, t)
  <2>1. Indexed(a, W, t)
    BY <1>11 DEF Indexed
  <2>2. QED
    BY <1>10, <2>1, SetIs
<1>13. QED
  BY <1>12 DEF a, W, v

-----------------------------------------------------------------------------
(* A store.                                                                *)

With(t, U) == {u \in U : t \in TokensOf(u)}

GoodStore(s) ==
  /\ IsFiniteSet(s.utxos.set)
  /\ \A u \in s.utxos.set : HasQuantities(u)
  /\ IndexesAgree(s)

LEMMA EmptyStoreIsGood == GoodStore(EmptyStore) /\ EmptyStore.utxos.set = {}
<1>1. /\ EmptyStore.utxos = EmptySet /\ EmptySet.set = {}
      /\ DOMAIN EmptyStore.byToken = {}
  BY DEF EmptyStore, EmptySet
<1>2. SetIsOf(EmptyStore.utxos, {}, Main)
  BY <1>1, EmptySetIs
<1>3. QED
  BY <1>1, <1>2, FS_EmptySet DEF GoodStore, IndexesAgree, PointersDiffer

LEMMA IndexesOf ==
  ASSUME NEW s, GoodStore(s)
  PROVE  /\ IsFiniteSet(s.utxos.set) /\ PointersDiffer(s.utxos.set)
         /\ \A u \in s.utxos.set : \A t \in TokensOf(u) : Quantity(u, t) \in Int
         /\ SetIsOf(s.utxos, s.utxos.set, Main)
         /\ DOMAIN s.byToken = UNION {TokensOf(u) : u \in s.utxos.set}
         /\ \A t \in DOMAIN s.byToken :
              SetIsOf(s.byToken[t], With(t, s.utxos.set), t)
         /\ DOMAIN s.byToken \ {Main} \subseteq s.dictionary
BY DEF GoodStore, IndexesAgree, HasQuantities, With

LEMMA WithFacts ==
  ASSUME NEW U, IsFiniteSet(U), \A u \in U : HasQuantities(u), NEW t
  PROVE  /\ IsFiniteSet(With(t, U))
         /\ \A u \in With(t, U) : Quantity(u, t) \in Int
<1>1. With(t, U) \in SUBSET U
  BY DEF With
<1>2. QED
  BY <1>1, FS_Subset DEF With, HasQuantities

LEMMA MainIsToken == ASSUME NEW u PROVE Main \in TokensOf(u) /\ Quantity(u, Main) = u.value
BY DEF TokensOf, Quantity

(* An output with a new pointer joins every index and balance.             *)
LEMMA NewOutputIsIndexed ==
  ASSUME NEW s, GoodStore(s), NEW u, ~ContainsKey(s.utxos, u.pointer), HasQuantities(u)
  PROVE  /\ GoodStore(InsertUtxo(s, u))
         /\ InsertUtxo(s, u).utxos.set = s.utxos.set \cup {u}
<1> DEFINE U == s.utxos.set
           W == U \cup {u}
           n == InsertUtxo(s, u)
           T == TokensOf(u)
<1>1. /\ IsFiniteSet(U) /\ PointersDiffer(U)
      /\ \A w \in U : \A t \in TokensOf(w) : Quantity(w, t) \in Int
      /\ SetIsOf(s.utxos, U, Main)
      /\ DOMAIN s.byToken = UNION {TokensOf(w) : w \in U}
      /\ \A t \in DOMAIN s.byToken : SetIsOf(s.byToken[t], With(t, U), t)
      /\ DOMAIN s.byToken \ {Main} \subseteq s.dictionary
  BY IndexesOf
<1>0. u \notin U /\ \A w \in U : w.pointer # u.pointer
  BY DEF ContainsKey
<1>2. /\ n.utxos = AddValue(s.utxos, u.value, u)
      /\ n.dictionary = s.dictionary \cup DOMAIN u.assets
      /\ n.byToken = [t \in DOMAIN s.byToken \cup T |->
                        IF t \in T THEN AddValue(SetOf(s, t), Quantity(u, t), u)
                                   ELSE s.byToken[t]]
  BY DEF InsertUtxo
<1>3. \A t \in T : Quantity(u, t) \in Int
  BY DEF HasQuantities
<1>4. IsFiniteSet(W) /\ \A w \in W : HasQuantities(w)
  <2>1. IsFiniteSet(W)
    BY <1>1, FS_AddElement
  <2>2. QED
    BY <2>1 DEF GoodStore
<1>5. SetIsOf(n.utxos, W, Main)
  <2>1. \A w \in U : Quantity(w, Main) \in Int
    BY <1>1, MainIsToken
  <2>2. Quantity(u, Main) \in Int /\ u.value = Quantity(u, Main)
    BY <1>3, MainIsToken
  <2>3. SetIsOf(AddValue(s.utxos, Quantity(u, Main), u), W, Main)
    BY <1>0, <1>1, <2>1, <2>2, AddValueKeeps
  <2>4. QED
    BY <1>2, <2>2, <2>3
<1>6. n.utxos.set = W
  BY <1>2 DEF AddValue
<1> HIDE DEF n
<1>7. DOMAIN n.byToken = UNION {TokensOf(w) : w \in W}
  BY <1>1, <1>2
<1>8. ASSUME NEW t \in DOMAIN n.byToken
      PROVE  SetIsOf(n.byToken[t], With(t, W), t)
  <2>1. CASE t \in T
    <3>1. n.byToken[t] = AddValue(SetOf(s, t), Quantity(u, t), u)
      BY <1>2, <2>1
    <3>2. SetIsOf(SetOf(s, t), With(t, U), t)
      <4>1. CASE t \in DOMAIN s.byToken
        BY <1>1, <4>1 DEF SetOf
      <4>2. CASE t \notin DOMAIN s.byToken
        <5>1. With(t, U) = {}
          BY <1>1, <4>2 DEF With
        <5>2. SetOf(s, t) = EmptySet
          BY <4>2 DEF SetOf
        <5>3. QED
          BY <5>1, <5>2, EmptySetIs
      <4>3. QED
        BY <4>1, <4>2
    <3>3. /\ IsFiniteSet(With(t, U)) /\ u \notin With(t, U)
          /\ \A w \in With(t, U) : Quantity(w, t) \in Int
      <4>1. \A w \in U : HasQuantities(w)
        BY <1>4
      <4>2. QED
        BY <1>0, <1>1, <4>1, WithFacts DEF With
    <3>4. SetIsOf(AddValue(SetOf(s, t), Quantity(u, t), u), With(t, U) \cup {u}, t)
      BY <1>3, <2>1, <3>2, <3>3, AddValueKeeps
    <3>5. With(t, U) \cup {u} = With(t, W)
      BY <2>1 DEF With
    <3>6. QED
      BY <3>1, <3>4, <3>5
  <2>2. CASE t \notin T
    <3>1. n.byToken[t] = s.byToken[t] /\ t \in DOMAIN s.byToken
      BY <1>2, <1>8, <2>2
    <3>2. With(t, W) = With(t, U)
      BY <2>2 DEF With
    <3>3. QED
      BY <1>1, <3>1, <3>2
  <2>3. QED
    BY <2>1, <2>2
<1>9. DOMAIN n.byToken \ {Main} \subseteq n.dictionary
  BY <1>1, <1>2 DEF TokensOf
<1>10. PointersDiffer(W)
  BY <1>0, <1>1 DEF PointersDiffer
<1> HIDE DEF W
<1>11. IndexesAgree(n)
  BY <1>5, <1>6, <1>7, <1>8, <1>9, <1>10 DEF IndexesAgree, With
<1>12. GoodStore(n) /\ n.utxos.set = W
  BY <1>4, <1>6, <1>11 DEF GoodStore
<1>13. QED
  BY <1>12 DEF n, W

(* Inserting an output keeps every index and balance with the outputs: it  *)
(* is added if its pointer is new, and changes nothing, when insert fails, *)
(* if the store contains the pointer, under this output or another one     *)
(* (UTxOStoreMut::insert).                                                 *)
THEOREM InsertKeepsIndexes ==
  ASSUME NEW s, GoodStore(s), NEW u, HasQuantities(u)
  PROVE  /\ GoodStore(InsertUtxo(s, u))
         /\ IF ContainsKey(s.utxos, u.pointer)
            THEN InsertUtxo(s, u) = s
            ELSE InsertUtxo(s, u).utxos.set = s.utxos.set \cup {u}
<1>1. CASE ContainsKey(s.utxos, u.pointer)
  BY <1>1 DEF InsertUtxo
<1>2. CASE ~ContainsKey(s.utxos, u.pointer)
  BY <1>2, NewOutputIsIndexed
<1>3. QED
  BY <1>1, <1>2

(* Removing an output keeps every index and balance with the outputs, also *)
(* when it is not there (UTxOStoreMut::remove).                            *)
THEOREM RemoveKeepsIndexes ==
  ASSUME NEW s, GoodStore(s), NEW u
  PROVE  /\ GoodStore(RemoveUtxo(s, u))
         /\ RemoveUtxo(s, u).utxos.set = s.utxos.set \ {u}
<1> DEFINE U == s.utxos.set
           W == U \ {u}
           n == RemoveUtxo(s, u)
           T == TokensOf(u)
           left == [t \in DOMAIN s.byToken |->
                      IF t \in T THEN RemoveFromSet(s.byToken[t], Quantity(u, t), u)
                                 ELSE s.byToken[t]]
           kept == {t \in DOMAIN left : left[t].set # {}}
<1>1. /\ IsFiniteSet(U) /\ PointersDiffer(U)
      /\ \A w \in U : \A t \in TokensOf(w) : Quantity(w, t) \in Int
      /\ SetIsOf(s.utxos, U, Main)
      /\ DOMAIN s.byToken = UNION {TokensOf(w) : w \in U}
      /\ \A t \in DOMAIN s.byToken : SetIsOf(s.byToken[t], With(t, U), t)
      /\ DOMAIN s.byToken \ {Main} \subseteq s.dictionary
  BY IndexesOf
<1>2. /\ n.utxos = RemoveFromSet(s.utxos, u.value, u)
      /\ n.dictionary = s.dictionary
      /\ n.byToken = [t \in kept |-> left[t]]
  BY DEF RemoveUtxo, Restrict
<1>4. IsFiniteSet(W) /\ \A w \in W : HasQuantities(w)
  <2>1. IsFiniteSet(W)
    BY <1>1, FS_RemoveElement
  <2>2. QED
    BY <2>1 DEF GoodStore
<1> HIDE DEF n
<1>5. SetIsOf(n.utxos, W, Main)
  <2>1. CASE u \in U
    <3>1. \A w \in U : Quantity(w, Main) \in Int
      BY <1>1, MainIsToken
    <3>2. SetIsOf(RemoveFromSet(s.utxos, Quantity(u, Main), u), W, Main)
      BY <1>1, <2>1, <3>1, RemoveFromSetKeeps
    <3>3. QED
      BY <1>2, <3>2, MainIsToken
  <2>2. CASE u \notin U
    <3>1. n.utxos = s.utxos /\ W = U
      BY <1>2, <2>2 DEF RemoveFromSet
    <3>2. QED
      BY <1>1, <3>1
  <2>3. QED
    BY <2>1, <2>2
<1>6. n.utxos.set = W
  BY <1>5, Zenon DEF SetIsOf
<1>7. ASSUME NEW t \in DOMAIN s.byToken
      PROVE  SetIsOf(left[t], With(t, W), t)
  <2>1. CASE t \in T /\ u \in U
    <3>1. left[t] = RemoveFromSet(s.byToken[t], Quantity(u, t), u)
      BY <2>1
    <3>2. /\ IsFiniteSet(With(t, U)) /\ u \in With(t, U)
          /\ \A w \in With(t, U) : Quantity(w, t) \in Int
      <4>1. \A w \in U : HasQuantities(w)
        BY DEF GoodStore
      <4>2. QED
        BY <1>1, <2>1, <4>1, WithFacts DEF With
    <3>3. SetIsOf(RemoveFromSet(s.byToken[t], Quantity(u, t), u), With(t, U) \ {u}, t)
      BY <1>1, <3>2, RemoveFromSetKeeps
    <3>4. With(t, U) \ {u} = With(t, W)
      BY DEF With
    <3>5. QED
      BY <3>1, <3>3, <3>4
  <2>2. CASE ~(t \in T /\ u \in U)
    <3>1. With(t, W) = With(t, U)
      BY <2>2 DEF With
    <3>2. left[t] = s.byToken[t]
      <4>1. CASE t \notin T
        BY <4>1
      <4>2. CASE t \in T
        <5>1. s.byToken[t].set = With(t, U)
          <6>1. IsFiniteSet(With(t, U))
            BY <1>1, FS_Subset DEF With
          <6>2. QED
            BY <1>1, <6>1, SetIs DEF Indexed
        <5>2. u \notin s.byToken[t].set
          BY <2>2, <4>2, <5>1 DEF With
        <5>3. QED
          BY <5>2 DEF RemoveFromSet
      <4>3. QED
        BY <4>1, <4>2
    <3>3. QED
      BY <1>1, <3>1, <3>2
  <2>3. QED
    BY <2>1, <2>2
<1>8. \A t \in DOMAIN s.byToken : left[t].set = With(t, W)
  <2> SUFFICES ASSUME NEW t \in DOMAIN s.byToken PROVE left[t].set = With(t, W)
    OBVIOUS
  <2>1. IsFiniteSet(With(t, W))
    BY <1>4, FS_Subset DEF With
  <2> HIDE DEF left
  <2>2. QED
    BY <1>7, <2>1, SetIs DEF Indexed
<1>9. DOMAIN left = DOMAIN s.byToken
  OBVIOUS
<1> HIDE DEF left
<1>10. DOMAIN n.byToken = UNION {TokensOf(w) : w \in W}
  BY <1>1, <1>2, <1>8, <1>9 DEF With
<1>11. \A t \in DOMAIN n.byToken : SetIsOf(n.byToken[t], With(t, W), t)
  BY <1>2, <1>7, <1>9
<1>12. DOMAIN n.byToken \ {Main} \subseteq n.dictionary
  BY <1>1, <1>2, <1>9
<1>13. PointersDiffer(W)
  BY <1>1 DEF PointersDiffer
<1> HIDE DEF W
<1>14. IndexesAgree(n)
  BY <1>5, <1>6, <1>10, <1>11, <1>12, <1>13 DEF IndexesAgree, With
<1>15. GoodStore(n) /\ n.utxos.set = W
  BY <1>4, <1>6, <1>14 DEF GoodStore
<1>16. QED
  BY <1>15 DEF n, W

-----------------------------------------------------------------------------
(* Many outputs.                                                           *)

InsertKind == [op |-> "insert"]
RemoveKind == [op |-> "remove"]

LEMMA StoreSteps ==
  ASSUME NEW x, NEW acc
  PROVE  /\ FoldStep(InsertKind, x, acc) = InsertUtxo(acc, x)
         /\ FoldStep(RemoveKind, x, acc) = RemoveUtxo(acc, x)
<1>1. InsertKind.op = "insert" /\ RemoveKind.op = "remove"
  BY DEF InsertKind, RemoveKind
<1>2. QED
  BY <1>1 DEF FoldStep

LEMMA InsertAllIs ==
  ASSUME NEW s, NEW S, IsFiniteSet(S)
  PROVE  InsertAll(s, S) = Fold(InsertKind, s, S)
<1> DEFINE Inserted(r, g) == IF r = {} THEN s
                             ELSE InsertUtxo(g[r \ {Chosen(r)}], Chosen(r))
           g0 == CHOOSE g : g = [r \in SUBSET S |-> Inserted(r, g)]
<1>1. \A g : \A r \in SUBSET S : Inserted(r, g) = Folded(InsertKind, s, r, g)
  BY StoreSteps DEF Folded
<1>2. PICK h : IsFold(InsertKind, s, S, h)
  BY FoldExists
<1>3. h = [r \in SUBSET S |-> Inserted(r, h)]
  BY <1>1, <1>2 DEF IsFold
<1>4. g0 = [r \in SUBSET S |-> Inserted(r, g0)]
  <2> HIDE DEF Inserted
  <2>1. QED
    BY <1>3, Zenon
<1>5. InsertAll(s, S) = g0[S]
  BY Zenon DEF InsertAll, FoldSet, MapThenFoldSet, Chosen
<1> HIDE DEF g0
<1>6. IsFold(InsertKind, s, S, g0)
  <2> HIDE DEF Inserted
  <2>1. QED
    BY <1>1, <1>4 DEF IsFold
<1>7. QED
  BY <1>5, <1>6, FoldUnique

LEMMA RemoveAllIs ==
  ASSUME NEW s, NEW S, IsFiniteSet(S)
  PROVE  RemoveAll(s, S) = Fold(RemoveKind, s, S)
<1> DEFINE Removed(r, g) == IF r = {} THEN s
                            ELSE RemoveUtxo(g[r \ {Chosen(r)}], Chosen(r))
           g0 == CHOOSE g : g = [r \in SUBSET S |-> Removed(r, g)]
<1>1. \A g : \A r \in SUBSET S : Removed(r, g) = Folded(RemoveKind, s, r, g)
  BY StoreSteps DEF Folded
<1>2. PICK h : IsFold(RemoveKind, s, S, h)
  BY FoldExists
<1>3. h = [r \in SUBSET S |-> Removed(r, h)]
  BY <1>1, <1>2 DEF IsFold
<1>4. g0 = [r \in SUBSET S |-> Removed(r, g0)]
  <2> HIDE DEF Removed
  <2>1. QED
    BY <1>3, Zenon
<1>5. RemoveAll(s, S) = g0[S]
  BY Zenon DEF RemoveAll, FoldSet, MapThenFoldSet, Chosen
<1> HIDE DEF g0
<1>6. IsFold(RemoveKind, s, S, g0)
  <2> HIDE DEF Removed
  <2>1. QED
    BY <1>1, <1>4 DEF IsFold
<1>7. QED
  BY <1>5, <1>6, FoldUnique

(* Outputs whose pointers are new and differ can be inserted in any order  *)
(* (the loops over UTxOStoreMut::insert).                                  *)
THEOREM InsertAllKeepsIndexes ==
  ASSUME NEW s, GoodStore(s), NEW S, IsFiniteSet(S), PointersDiffer(S),
         \A u \in S : HasQuantities(u) /\ ~ContainsKey(s.utxos, u.pointer)
  PROVE  /\ GoodStore(InsertAll(s, S))
         /\ InsertAll(s, S).utxos.set = s.utxos.set \cup S
<1> DEFINE F(T) == Fold(InsertKind, s, T)
           Good == {T \in SUBSET S : GoodStore(F(T)) /\ F(T).utxos.set = s.utxos.set \cup T}
<1>1. {} \in Good
  BY FoldEmpty
<1>2. ASSUME NEW T \in SUBSET S, T # {}, \A x \in T : T \ {x} \in Good
      PROVE  T \in Good
  <2> DEFINE x == Chosen(T)
             R == T \ {x}
  <2>1. x \in T /\ IsFiniteSet(T)
    BY <1>2, ChosenIn, FS_Subset
  <2>2. GoodStore(F(R)) /\ F(R).utxos.set = s.utxos.set \cup R
    BY <1>2, <2>1
  <2>3. F(T) = InsertUtxo(F(R), x)
    BY <1>2, <2>1, FoldNonempty, StoreSteps
  <2>4. ~ContainsKey(F(R).utxos, x.pointer) /\ HasQuantities(x)
    <3>1. HasQuantities(x) /\ ~ContainsKey(s.utxos, x.pointer)
      BY <2>1
    <3>2. \A w \in R : w.pointer # x.pointer
      BY <2>1 DEF PointersDiffer
    <3> HIDE DEF F, x, R
    <3>3. QED
      BY <2>2, <3>1, <3>2 DEF ContainsKey
  <2>5. (s.utxos.set \cup R) \cup {x} = s.utxos.set \cup T
    BY <2>1
  <2> HIDE DEF F, x, R
  <2>6. GoodStore(F(T)) /\ F(T).utxos.set = (s.utxos.set \cup R) \cup {x}
    BY <2>2, <2>3, <2>4, NewOutputIsIndexed
  <2>7. QED
    BY <2>5, <2>6
<1> HIDE DEF Good
<1>3. S \in Good
  BY <1>1, <1>2, FiniteInduct
<1>4. QED
  BY <1>3, InsertAllIs DEF Good

THEOREM RemoveAllKeepsIndexes ==
  ASSUME NEW s, GoodStore(s), NEW S, IsFiniteSet(S)
  PROVE  /\ GoodStore(RemoveAll(s, S))
         /\ RemoveAll(s, S).utxos.set = s.utxos.set \ S
<1> DEFINE F(T) == Fold(RemoveKind, s, T)
           Good == {T \in SUBSET S : GoodStore(F(T)) /\ F(T).utxos.set = s.utxos.set \ T}
<1>1. {} \in Good
  BY FoldEmpty
<1>2. ASSUME NEW T \in SUBSET S, T # {}, \A x \in T : T \ {x} \in Good
      PROVE  T \in Good
  <2> DEFINE x == Chosen(T)
             R == T \ {x}
  <2>1. x \in T /\ IsFiniteSet(T)
    BY <1>2, ChosenIn, FS_Subset
  <2>2. GoodStore(F(R)) /\ F(R).utxos.set = s.utxos.set \ R
    BY <1>2, <2>1
  <2>3. F(T) = RemoveUtxo(F(R), x)
    BY <1>2, <2>1, FoldNonempty, StoreSteps
  <2>5. (s.utxos.set \ R) \ {x} = s.utxos.set \ T
    BY <2>1
  <2> HIDE DEF F, x, R
  <2>6. GoodStore(F(T)) /\ F(T).utxos.set = (s.utxos.set \ R) \ {x}
    BY <2>2, <2>3, RemoveKeepsIndexes
  <2>7. QED
    BY <2>5, <2>6
<1> HIDE DEF Good
<1>3. S \in Good
  BY <1>1, <1>2, FiniteInduct
<1>4. QED
  BY <1>3, RemoveAllIs DEF Good

LEMMA FromUtxosIsGood ==
  ASSUME NEW S, IsFiniteSet(S), PointersDiffer(S), \A u \in S : HasQuantities(u)
  PROVE  GoodStore(FromUtxos(S)) /\ FromUtxos(S).utxos.set = S
<1>1. /\ GoodStore(EmptyStore) /\ EmptyStore.utxos.set = {}
      /\ \A u \in S : ~ContainsKey(EmptyStore.utxos, u.pointer)
  BY EmptyStoreIsGood DEF ContainsKey
<1>2. /\ GoodStore(InsertAll(EmptyStore, S))
      /\ InsertAll(EmptyStore, S).utxos.set = {} \cup S
  BY <1>1, InsertAllKeepsIndexes
<1>3. QED
  BY <1>2 DEF FromUtxos

-----------------------------------------------------------------------------
(* Amounts of several tokens.                                              *)

(* what an output, a list of outputs, and amounts that were added up have  *)
(* of the token t                                                          *)
In(o, t)             == IF t = Main THEN o.value ELSE Of(o.assets, t)
Have(main, assets, t) == IF t = Main THEN main ELSE Of(assets, t)
Values(s, t)         == [i \in DOMAIN s |-> In(s[i], t)]
Holds(s, t)          == SumOver(Values(s, t), DOMAIN s)

LEMMA NoAssetsFacts == IsAssets(NoAssets) /\ \A t : Of(NoAssets, t) = 0
<1>1. DOMAIN NoAssets = {}
  BY DEF NoAssets
<1>2. QED
  BY <1>1, FS_EmptySet DEF IsAssets, Of

LEMMA OfNat ==
  ASSUME NEW a, IsAssets(a), NEW t
  PROVE  Of(a, t) \in Nat
BY DEF IsAssets, Of

LEMMA SingleFacts ==
  ASSUME NEW t, t # Main, NEW n \in Nat
  PROVE  /\ IsAssets(Single(t, n)) /\ Of(Single(t, n), t) = n
         /\ \A s : s # t => Of(Single(t, n), s) = 0
BY FS_Singleton DEF IsAssets, Single, Of

LEMMA TogetherFacts ==
  ASSUME NEW a, IsAssets(a), NEW b, IsAssets(b)
  PROVE  /\ IsAssets(Together(a, b))
         /\ \A t : Of(Together(a, b), t) = Of(a, t) + Of(b, t)
<1> DEFINE c == Together(a, b)
<1>1. DOMAIN c = DOMAIN a \cup DOMAIN b /\ \A t \in DOMAIN c : c[t] = Of(a, t) + Of(b, t)
  BY DEF Together
<1>2. \A t : Of(a, t) \in Nat /\ Of(b, t) \in Nat
  BY OfNat
<1>3. IsFiniteSet(DOMAIN c)
  BY <1>1, FS_Union DEF IsAssets
<1> HIDE DEF c
<1>4. IsAssets(c)
  BY <1>1, <1>2, <1>3 DEF IsAssets
<1>5. ASSUME NEW t
      PROVE  Of(c, t) = Of(a, t) + Of(b, t)
  <2>1. CASE t \in DOMAIN c
    BY <1>1, <2>1 DEF Of
  <2>2. CASE t \notin DOMAIN c
    BY <1>1, <2>2 DEF Of
  <2>3. QED
    BY <2>1, <2>2
<1>6. QED
  BY <1>4, <1>5 DEF c

LEMMA InNat ==
  ASSUME NEW o, IsOutput(o), NEW t
  PROVE  In(o, t) \in Nat
BY OfNat DEF IsOutput, In

LEMMA IsOutputHasQuantities ==
  ASSUME NEW o, IsOutput(o)
  PROVE  HasQuantities(o)
BY DEF IsOutput, IsAssets, HasQuantities, TokensOf, Quantity

-----------------------------------------------------------------------------
(* Lists of outputs.                                                       *)

LEMMA OutputsFacts ==
  ASSUME NEW s, AreOutputs(s)
  PROVE  /\ s \in Seq(Range(s)) /\ Len(s) \in Nat /\ DOMAIN s = 1..Len(s)
         /\ IsFiniteSet(DOMAIN s)
         /\ \A i \in DOMAIN s : IsOutput(s[i])
         /\ \A t : \A i \in DOMAIN s : Values(s, t)[i] = In(s[i], t) /\ In(s[i], t) \in Nat
         /\ \A t : Holds(s, t) \in Nat
<1>1. s \in Seq(Range(s)) /\ Len(s) \in Nat /\ DOMAIN s = 1..Len(s)
  BY DEF AreOutputs
<1>2. IsFiniteSet(DOMAIN s)
  BY <1>1, FS_Interval
<1>3. \A i \in DOMAIN s : IsOutput(s[i])
  BY DEF AreOutputs, Range
<1>4. \A t : \A i \in DOMAIN s : Values(s, t)[i] = In(s[i], t) /\ In(s[i], t) \in Nat
  BY <1>3, InNat DEF Values
<1>5. ASSUME NEW t
      PROVE  Holds(s, t) \in Nat
  <2> DEFINE f == Values(s, t)
  <2>1. \A i \in DOMAIN s : f[i] \in Nat
    BY <1>4
  <2> HIDE DEF f
  <2>2. SumOver(f, DOMAIN s) \in Nat
    BY <1>2, <2>1, SumNat
  <2>3. QED
    BY <2>2 DEF f, Holds
<1>6. QED
  BY <1>1, <1>2, <1>3, <1>4, <1>5

LEMMA OutputsIn ==
  ASSUME NEW X, \A x \in X : IsOutput(x), NEW s \in Seq(X)
  PROVE  AreOutputs(s)
<1>1. DOMAIN s = 1..Len(s) /\ Len(s) \in Nat /\ \A i \in DOMAIN s : s[i] \in X
  OBVIOUS
<1>2. s = [i \in 1..Len(s) |-> s[i]]
  OBVIOUS
<1>3. s \in [1..Len(s) -> Range(s)]
  BY <1>1, <1>2 DEF Range
<1>4. s \in Seq(Range(s))
  BY <1>1, <1>3
<1>5. QED
  BY <1>1, <1>4 DEF AreOutputs, Range

LEMMA NoOutputs == AreOutputs(<<>>) /\ \A t : Holds(<<>>, t) = 0
<1>1. DOMAIN <<>> = {} /\ <<>> \in Seq(Range(<<>>)) /\ Range(<<>>) = {}
  BY DEF Range
<1>2. \A t : Holds(<<>>, t) = 0
  BY <1>1, SumEmpty DEF Holds
<1>3. QED
  BY <1>1, <1>2 DEF AreOutputs

LEMMA ConcatFacts ==
  ASSUME NEW s, AreOutputs(s), NEW r, AreOutputs(r)
  PROVE  /\ AreOutputs(s \o r)
         /\ \A t : Holds(s \o r, t) = Holds(s, t) + Holds(r, t)
<1> DEFINE m == Len(s)
           n == Len(r)
           q == s \o r
           X == Range(s) \cup Range(r)
<1>1. m \in Nat /\ n \in Nat /\ DOMAIN s = 1..m /\ DOMAIN r = 1..n
  BY OutputsFacts
<1>2. s \in Seq(X) /\ r \in Seq(X)
  BY DEF AreOutputs
<1>3. /\ q \in Seq(X) /\ Len(q) = m + n /\ DOMAIN q = 1..m + n
      /\ \A i \in 1..m : q[i] = s[i]
      /\ \A i \in 1..n : q[m + i] = r[i]
  BY <1>1, <1>2
<1>4. \A x \in X : IsOutput(x)
  BY DEF AreOutputs
<1>5. AreOutputs(q)
  <2> HIDE DEF q, X
  <2>1. QED
    BY <1>3, <1>4, OutputsIn
<1>6. ASSUME NEW t
      PROVE  Holds(q, t) = Holds(s, t) + Holds(r, t)
  <2> DEFINE f == Values(q, t)
             g == Values(r, t)
             B == {m + i : i \in 1..n}
             h == [i \in 1..n |-> m + i]
  <2>1. DOMAIN q = (1..m) \cup B /\ (1..m) \cap B = {}
    <3>1. ASSUME NEW i \in 1..m + n, i \notin 1..m
          PROVE  i \in B
      <4>1. i - m \in 1..n /\ i = m + (i - m)
        BY <1>1, <3>1
      <4>2. QED
        BY <4>1
    <3>2. QED
      BY <1>1, <1>3, <3>1
  <2>2. \A i \in DOMAIN q : f[i] = In(q[i], t) /\ f[i] \in Int
    <3> HIDE DEF q
    <3>1. \A i \in DOMAIN q : Values(q, t)[i] = In(q[i], t) /\ In(q[i], t) \in Nat
      BY <1>5, OutputsFacts
    <3>2. QED
      BY <3>1
  <2>3. \A i \in 1..n : g[i] = In(r[i], t) /\ g[i] \in Int
    BY <1>1, OutputsFacts
  <2>4. \A i \in 1..m : f[i] = Values(s, t)[i]
    BY <1>1, <1>3, <2>1, <2>2, OutputsFacts
  <2>5. \A i \in 1..n : g[i] = f[h[i]]
    BY <1>3, <2>1, <2>2, <2>3
  <2>6. IsFiniteSet(1..m) /\ IsFiniteSet(1..n)
    BY <1>1, FS_Interval
  <2>7. B = {h[i] : i \in 1..n} /\ \A i, j \in 1..n : h[i] = h[j] => i = j
    BY <1>1
  <2>8. IsFiniteSet(B)
    <3>1. h \in Surjection(1..n, B)
      BY DEF Surjection
    <3> HIDE DEF h, B
    <3>2. QED
      BY <2>6, <3>1, FS_Surjection
  <2>9. SumOver(f, B) = SumOver(g, 1..n)
    <3> HIDE DEF f, g, h, B
    <3>1. \A i \in 1..n : g[i] = f[h[i]] /\ g[i] \in Int
      BY <2>3, <2>5
    <3>2. IsFiniteSet(1..n) /\ \A i, j \in 1..n : h[i] = h[j] => i = j
      BY <2>6, <2>7
    <3>3. SumOver(f, {h[i] : i \in 1..n}) = SumOver(g, 1..n)
      BY <3>1, <3>2, SumRenamed, SMTT(30)
    <3>4. QED
      BY <2>7, <3>3
  <2>10. SumOver(f, 1..m) = SumOver(Values(s, t), 1..m)
    <3> HIDE DEF f
    <3>1. QED
      BY <2>4, <2>6, SumSame
  <2>11. SumOver(f, (1..m) \cup B) = SumOver(f, 1..m) + SumOver(f, B)
    <3> HIDE DEF f, B
    <3>1. QED
      BY <2>1, <2>2, <2>6, <2>8, SumUnion
  <2>12. QED
    BY <1>1, <2>1, <2>9, <2>10, <2>11 DEF Holds
<1>7. QED
  BY <1>5, <1>6

LEMMA HoldsOne ==
  ASSUME NEW u, IsOutput(u)
  PROVE  AreOutputs(<<u>>) /\ \A t : Holds(<<u>>, t) = In(u, t)
<1>1. <<u>> \in Seq({u}) /\ DOMAIN <<u>> = {1} /\ <<u>>[1] = u
  OBVIOUS
<1>2. AreOutputs(<<u>>)
  BY <1>1, OutputsIn
<1>3. ASSUME NEW t
      PROVE  Holds(<<u>>, t) = In(u, t)
  <2> DEFINE f == Values(<<u>>, t)
  <2>1. f[1] = In(u, t) /\ f[1] \in Int
    BY <1>1, <1>2, OutputsFacts
  <2>2. {} \cup {1} = {1} /\ 1 \notin {}
    OBVIOUS
  <2> HIDE DEF f
  <2>3. SumOver(f, {} \cup {1}) = f[1] + SumOver(f, {})
    BY <2>1, <2>2, FS_EmptySet, SumAdd
  <2>4. SumOver(f, {1}) = f[1]
    BY <2>1, <2>2, <2>3, SumEmpty
  <2>5. QED
    BY <1>1, <2>1, <2>4 DEF Holds, f
<1>4. QED
  BY <1>2, <1>3

LEMMA AppendFacts ==
  ASSUME NEW s, AreOutputs(s), NEW u, IsOutput(u)
  PROVE  /\ AreOutputs(Append(s, u))
         /\ \A t : Holds(Append(s, u), t) = Holds(s, t) + In(u, t)
<1>1. Append(s, u) = s \o <<u>>
  BY DEF AreOutputs
<1>2. QED
  BY <1>1, HoldsOne, ConcatFacts


-----------------------------------------------------------------------------
(* The folds of the algorithms are the fold over a set above.              *)

AppendKind(f)   == [op |-> "append", f |-> f]
JoinKind(f)     == [op |-> "join", f |-> f]
TogetherKind(f) == [op |-> "together", f |-> f]

LEMMA FoldSteps ==
  ASSUME NEW f, NEW x, NEW acc
  PROVE  /\ FoldStep(SumKind(f), x, acc) = f[x] + acc
         /\ FoldStep(AppendKind(f), x, acc) = Append(acc, f[x])
         /\ FoldStep(JoinKind(f), x, acc) = acc \o f[x]
         /\ FoldStep(TogetherKind(f), x, acc) = Together(acc, f[x])
<1>1. /\ AppendKind(f).op = "append" /\ AppendKind(f).f = f
      /\ JoinKind(f).op = "join" /\ JoinKind(f).f = f
      /\ TogetherKind(f).op = "together" /\ TogetherKind(f).f = f
  BY DEF AppendKind, JoinKind, TogetherKind
<1>2. QED
  BY <1>1, SumStep DEF FoldStep

(* what is folded                                                          *)
Mains(us)    == [i \in DOMAIN us |-> us[i].value]
AssetsIn(us) == [i \in DOMAIN us |-> us[i].assets]
Same(S)      == [x \in S |-> x]
ThereIn(I)       == [i \in I |-> random.inputs[i]]
ListsOf(P)   == [p \in P |-> Associated(p)]

LEMMA MainOfIs ==
  ASSUME NEW us, IsFiniteSet(DOMAIN us)
  PROVE  MainOf(us) = Fold(SumKind(Mains(us)), 0, DOMAIN us)
<1> DEFINE Added(r, g) == IF r = {} THEN 0
                           ELSE us[Chosen(r)].value + g[r \ {Chosen(r)}]
           g0 == CHOOSE g : g = [r \in SUBSET DOMAIN us |-> Added(r, g)]
<1>1. \A g : \A r \in SUBSET DOMAIN us : Added(r, g) = Folded(SumKind(Mains(us)), 0, r, g)
  BY FoldSteps, ChosenIn DEF Folded, Mains
<1>2. PICK h : IsFold(SumKind(Mains(us)), 0, DOMAIN us, h)
  BY FoldExists
<1>3. h = [r \in SUBSET DOMAIN us |-> Added(r, h)]
  BY <1>1, <1>2 DEF IsFold
<1>4. g0 = [r \in SUBSET DOMAIN us |-> Added(r, g0)]
  <2> HIDE DEF Added
  <2>1. QED
    BY <1>3, Zenon
<1>5. MainOf(us) = g0[DOMAIN us]
  BY Zenon DEF MainOf, FoldSeq, FoldFunction, FoldFunctionOnSet, MapThenFoldSet, Chosen
<1> HIDE DEF g0
<1>6. IsFold(SumKind(Mains(us)), 0, DOMAIN us, g0)
  <2> HIDE DEF Added
  <2>1. QED
    BY <1>1, <1>4 DEF IsFold
<1>7. QED
  BY <1>5, <1>6, FoldUnique

LEMMA AssetsOfIs ==
  ASSUME NEW us, IsFiniteSet(DOMAIN us)
  PROVE  AssetsOf(us) = Fold(TogetherKind(AssetsIn(us)), NoAssets, DOMAIN us)
<1> DEFINE Added(r, g) == IF r = {} THEN NoAssets
                           ELSE Together(g[r \ {Chosen(r)}], us[Chosen(r)].assets)
           g0 == CHOOSE g : g = [r \in SUBSET DOMAIN us |-> Added(r, g)]
<1>1. \A g : \A r \in SUBSET DOMAIN us : Added(r, g) = Folded(TogetherKind(AssetsIn(us)), NoAssets, r, g)
  BY FoldSteps, ChosenIn DEF Folded, AssetsIn
<1>2. PICK h : IsFold(TogetherKind(AssetsIn(us)), NoAssets, DOMAIN us, h)
  BY FoldExists
<1>3. h = [r \in SUBSET DOMAIN us |-> Added(r, h)]
  BY <1>1, <1>2 DEF IsFold
<1>4. g0 = [r \in SUBSET DOMAIN us |-> Added(r, g0)]
  <2> HIDE DEF Added
  <2>1. QED
    BY <1>3, Zenon
<1>5. AssetsOf(us) = g0[DOMAIN us]
  BY Zenon DEF AssetsOf, FoldSeq, FoldFunction, FoldFunctionOnSet, MapThenFoldSet, Chosen
<1> HIDE DEF g0
<1>6. IsFold(TogetherKind(AssetsIn(us)), NoAssets, DOMAIN us, g0)
  <2> HIDE DEF Added
  <2>1. QED
    BY <1>1, <1>4 DEF IsFold
<1>7. QED
  BY <1>5, <1>6, FoldUnique

LEMMA ListedIs ==
  ASSUME NEW S, IsFiniteSet(S)
  PROVE  Listed(S) = Fold(AppendKind(Same(S)), <<>>, S)
<1> DEFINE Added(r, g) == IF r = {} THEN <<>>
                           ELSE Append(g[r \ {Chosen(r)}], Chosen(r))
           g0 == CHOOSE g : g = [r \in SUBSET S |-> Added(r, g)]
<1>1. \A g : \A r \in SUBSET S : Added(r, g) = Folded(AppendKind(Same(S)), <<>>, r, g)
  <2>1. \A x \in S : Same(S)[x] = x
    BY DEF Same
  <2>2. \A x \in S : \A acc : FoldStep(AppendKind(Same(S)), x, acc) = Append(acc, x)
    BY <2>1, FoldSteps
  <2>3. QED
    BY <2>2, ChosenIn DEF Folded
<1>2. PICK h : IsFold(AppendKind(Same(S)), <<>>, S, h)
  BY FoldExists
<1>3. h = [r \in SUBSET S |-> Added(r, h)]
  BY <1>1, <1>2 DEF IsFold
<1>4. g0 = [r \in SUBSET S |-> Added(r, g0)]
  <2> HIDE DEF Added
  <2>1. QED
    BY <1>3, Zenon
<1>5. Listed(S) = g0[S]
  BY Zenon DEF Listed, FoldSet, MapThenFoldSet, Chosen
<1> HIDE DEF g0
<1>6. IsFold(AppendKind(Same(S)), <<>>, S, g0)
  <2> HIDE DEF Added
  <2>1. QED
    BY <1>1, <1>4 DEF IsFold
<1>7. QED
  BY <1>5, <1>6, FoldUnique

LEMMA InputsAtIs ==
  ASSUME NEW I, IsFiniteSet(I)
  PROVE  InputsAt(I) = Fold(AppendKind(ThereIn(I)), <<>>, I)
<1> DEFINE Added(r, g) == IF r = {} THEN <<>>
                           ELSE Append(g[r \ {Chosen(r)}], random.inputs[Chosen(r)])
           g0 == CHOOSE g : g = [r \in SUBSET I |-> Added(r, g)]
<1>1. \A g : \A r \in SUBSET I : Added(r, g) = Folded(AppendKind(ThereIn(I)), <<>>, r, g)
  <2>1. \A x \in I : ThereIn(I)[x] = random.inputs[x]
    BY DEF ThereIn
  <2>2. \A x \in I : \A acc : FoldStep(AppendKind(ThereIn(I)), x, acc) = Append(acc, random.inputs[x])
    BY <2>1, FoldSteps
  <2>3. QED
    BY <2>2, ChosenIn DEF Folded
<1>2. PICK h : IsFold(AppendKind(ThereIn(I)), <<>>, I, h)
  BY FoldExists
<1>3. h = [r \in SUBSET I |-> Added(r, h)]
  BY <1>1, <1>2 DEF IsFold
<1>4. g0 = [r \in SUBSET I |-> Added(r, g0)]
  <2> HIDE DEF Added
  <2>1. QED
    BY <1>3, Zenon
<1>5. InputsAt(I) = g0[I]
  BY Zenon DEF InputsAt, FoldSet, MapThenFoldSet, Chosen
<1> HIDE DEF g0
<1>6. IsFold(AppendKind(ThereIn(I)), <<>>, I, g0)
  <2> HIDE DEF Added
  <2>1. QED
    BY <1>1, <1>4 DEF IsFold
<1>7. QED
  BY <1>5, <1>6, FoldUnique

LEMMA GatheredForIs ==
  ASSUME NEW P, IsFiniteSet(P)
  PROVE  GatheredFor(P) = Fold(JoinKind(ListsOf(P)), <<>>, P)
<1> DEFINE Added(r, g) == IF r = {} THEN <<>>
                           ELSE g[r \ {Chosen(r)}] \o Associated(Chosen(r))
           g0 == CHOOSE g : g = [r \in SUBSET P |-> Added(r, g)]
<1>1. \A g : \A r \in SUBSET P : Added(r, g) = Folded(JoinKind(ListsOf(P)), <<>>, r, g)
  <2>1. \A x \in P : ListsOf(P)[x] = Associated(x)
    BY DEF ListsOf
  <2>2. \A x \in P : \A acc : FoldStep(JoinKind(ListsOf(P)), x, acc) = acc \o Associated(x)
    BY <2>1, FoldSteps
  <2>3. QED
    BY <2>2, ChosenIn DEF Folded
<1>2. PICK h : IsFold(JoinKind(ListsOf(P)), <<>>, P, h)
  BY FoldExists
<1>3. h = [r \in SUBSET P |-> Added(r, h)]
  BY <1>1, <1>2 DEF IsFold
<1>4. g0 = [r \in SUBSET P |-> Added(r, g0)]
  <2> HIDE DEF Added
  <2>1. QED
    BY <1>3, Zenon
<1>5. GatheredFor(P) = g0[P]
  BY Zenon DEF GatheredFor, FoldSet, MapThenFoldSet, Chosen
<1> HIDE DEF g0
<1>6. IsFold(JoinKind(ListsOf(P)), <<>>, P, g0)
  <2> HIDE DEF Added
  <2>1. QED
    BY <1>1, <1>4 DEF IsFold
<1>7. QED
  BY <1>5, <1>6, FoldUnique

-----------------------------------------------------------------------------
(* What a list has in all, as the setups and the results say it.           *)

LEMMA MainOfHolds ==
  ASSUME NEW s, AreOutputs(s)
  PROVE  MainOf(s) = Holds(s, Main)
<1>1. IsFiniteSet(DOMAIN s)
  BY OutputsFacts
<1>2. \A i \in DOMAIN s : Mains(s)[i] = Values(s, Main)[i]
  BY DEF Mains, Values, In
<1>3. SumOver(Mains(s), DOMAIN s) = SumOver(Values(s, Main), DOMAIN s)
  BY <1>1, <1>2, SumSame
<1>4. QED
  BY <1>1, <1>3, MainOfIs DEF Holds, SumOver

LEMMA AssetsOfHold ==
  ASSUME NEW s, AreOutputs(s)
  PROVE  /\ IsAssets(AssetsOf(s))
         /\ \A t : t # Main => Of(AssetsOf(s), t) = Holds(s, t)
<1> DEFINE f == AssetsIn(s)
           F(T) == Fold(TogetherKind(f), NoAssets, T)
           Good == {T \in SUBSET DOMAIN s :
                      /\ IsAssets(F(T))
                      /\ \A t : t # Main => Of(F(T), t) = SumOver(Values(s, t), T)}
<1>1. IsFiniteSet(DOMAIN s)
  BY OutputsFacts
<1>2. \A i \in DOMAIN s : f[i] = s[i].assets /\ IsAssets(f[i])
  BY OutputsFacts DEF AssetsIn, IsOutput
<1>3. ASSUME NEW t, t # Main, NEW i \in DOMAIN s
      PROVE  Values(s, t)[i] = Of(f[i], t) /\ Of(f[i], t) \in Nat
  BY <1>2, <1>3, OfNat DEF Values, In
<1> HIDE DEF f
<1>4. {} \in Good
  <2>1. F({}) = NoAssets
    BY FoldEmpty
  <2>2. QED
    BY <2>1, NoAssetsFacts, SumEmpty
<1>5. ASSUME NEW T \in SUBSET DOMAIN s, T # {}, \A x \in T : T \ {x} \in Good
      PROVE  T \in Good
  <2> DEFINE x == Chosen(T)
             R == T \ {x}
  <2>1. x \in T /\ IsFiniteSet(T) /\ R \in Good
    BY <1>1, <1>5, ChosenIn, FS_Subset
  <2>2. F(T) = Together(F(R), f[x])
    <3>1. F(T) = FoldStep(TogetherKind(f), x, F(R))
      BY <1>5, <2>1, FoldNonempty
    <3>2. QED
      BY <3>1, FoldSteps
  <2>3. IsAssets(F(R)) /\ IsAssets(f[x])
    BY <1>2, <2>1
  <2> HIDE DEF F
  <2>4. IsAssets(F(T)) /\ \A t : Of(F(T), t) = Of(F(R), t) + Of(f[x], t)
    BY <2>2, <2>3, TogetherFacts
  <2>5. ASSUME NEW t, t # Main
        PROVE  Of(F(T), t) = SumOver(Values(s, t), T)
    <3> DEFINE g == Values(s, t)
    <3>1. \A i \in T : g[i] = Of(f[i], t) /\ g[i] \in Int
      BY <1>3, <2>5
    <3>2. Of(F(R), t) = SumOver(g, R)
      BY <2>1, <2>5
    <3> HIDE DEF g
    <3>3. SumOver(g, T) = g[x] + SumOver(g, R)
      BY <2>1, <3>1, SumRemove
    <3>4. SumOver(g, R) \in Int
      <4>1. IsFiniteSet(R) /\ R \subseteq T
        BY <2>1, FS_Subset
      <4>2. QED
        BY <3>1, <4>1, SumType
    <3> HIDE DEF x, R
    <3>5. Of(F(T), t) = SumOver(g, T)
      BY <2>1, <2>4, <3>1, <3>2, <3>3, <3>4
    <3>6. QED
      BY <3>5 DEF g
  <2>6. QED
    BY <2>4, <2>5
<1> HIDE DEF Good
<1>6. DOMAIN s \in Good
  BY <1>1, <1>4, <1>5, FiniteInduct
<1>7. QED
  BY <1>1, <1>6, AssetsOfIs DEF Good, Holds, f

LEMMA OutputsHave ==
  ASSUME NEW s, AreOutputs(s)
  PROVE  /\ IsAssets(AssetsOf(s)) /\ MainOf(s) \in Nat
         /\ \A t : Have(MainOf(s), AssetsOf(s), t) = Holds(s, t)
BY OutputsFacts, MainOfHolds, AssetsOfHold DEF Have

-----------------------------------------------------------------------------
(* Functions of outputs.                                                   *)

AreOutputsAt(g, S) == IsFiniteSet(S) /\ \A x \in S : IsOutput(g[x])
HoldsAt(g, S, t)   == SumOver([x \in S |-> In(g[x], t)], S)

LEMMA HoldsAtNat ==
  ASSUME NEW g, NEW S, AreOutputsAt(g, S), NEW t
  PROVE  HoldsAt(g, S, t) \in Nat
<1> DEFINE f == [x \in S |-> In(g[x], t)]
<1>1. \A x \in S : f[x] \in Nat
  BY InNat DEF AreOutputsAt
<1> HIDE DEF f
<1>2. SumOver(f, S) \in Nat
  BY <1>1, SumNat DEF AreOutputsAt
<1>3. QED
  BY <1>2 DEF f, HoldsAt

LEMMA HoldsIsAt == ASSUME NEW g, NEW t PROVE Holds(g, t) = HoldsAt(g, DOMAIN g, t)
BY DEF Holds, HoldsAt, Values

LEMMA HoldsAtUnion ==
  ASSUME NEW g, NEW S, AreOutputsAt(g, S), NEW R, AreOutputsAt(g, R), S \cap R = {}, NEW t
  PROVE  HoldsAt(g, S \cup R, t) = HoldsAt(g, S, t) + HoldsAt(g, R, t)
<1> DEFINE f == [x \in S \cup R |-> In(g[x], t)]
           fs == [x \in S |-> In(g[x], t)]
           fr == [x \in R |-> In(g[x], t)]
<1>1. \A x \in S \cup R : f[x] \in Int
  BY InNat DEF AreOutputsAt
<1>2. (\A x \in S : f[x] = fs[x]) /\ \A x \in R : f[x] = fr[x]
  OBVIOUS
<1>3. IsFiniteSet(S) /\ IsFiniteSet(R)
  BY DEF AreOutputsAt
<1> HIDE DEF f, fs, fr
<1>4. SumOver(f, S \cup R) = SumOver(f, S) + SumOver(f, R)
  BY <1>1, <1>3, SumUnion
<1>5. SumOver(f, S) = SumOver(fs, S) /\ SumOver(f, R) = SumOver(fr, R)
  BY <1>2, <1>3, SumSame
<1>6. QED
  BY <1>4, <1>5 DEF HoldsAt, f, fs, fr

LEMMA HoldsAtSame ==
  ASSUME NEW g, NEW h, NEW S, IsFiniteSet(S), \A x \in S : g[x] = h[x], NEW t
  PROVE  HoldsAt(g, S, t) = HoldsAt(h, S, t)
<1> DEFINE f == [x \in S |-> In(g[x], t)]
           e == [x \in S |-> In(h[x], t)]
<1>1. \A x \in S : f[x] = e[x]
  OBVIOUS
<1> HIDE DEF f, e
<1>2. SumOver(f, S) = SumOver(e, S)
  BY <1>1, SumSame
<1>3. QED
  BY <1>2 DEF HoldsAt, f, e

LEMMA HoldsAtOne ==
  ASSUME NEW g, NEW x, IsOutput(g[x]), NEW t
  PROVE  AreOutputsAt(g, {x}) /\ HoldsAt(g, {x}, t) = In(g[x], t)
<1> DEFINE f == [z \in {x} |-> In(g[z], t)]
<1>1. IsFiniteSet({x}) /\ {x} \ {x} = {} /\ x \in {x}
  BY FS_Singleton
<1>2. f[x] = In(g[x], t) /\ \A z \in {x} : f[z] \in Int
  BY InNat
<1>3. In(g[x], t) \in Nat
  BY InNat
<1> HIDE DEF f
<1>4. SumOver(f, {x}) = f[x] + SumOver(f, {x} \ {x})
  BY <1>1, <1>2, SumRemove
<1>5. SumOver(f, {x}) = In(g[x], t)
  BY <1>1, <1>2, <1>3, <1>4, SumEmpty
<1>6. QED
  BY <1>1, <1>5 DEF HoldsAt, AreOutputsAt, f

(* y is put at x, or takes the place of what was there                     *)
IsPut(g, x, y, h) ==
  /\ AreOutputsAt(h, DOMAIN h) /\ DOMAIN h = DOMAIN g \cup {x}
  /\ h[x] = y /\ \A z \in DOMAIN g : z # x => h[z] = g[z]
  /\ \A t : Holds(h, t)
               = Holds(g, t) - (IF x \in DOMAIN g THEN In(g[x], t) ELSE 0) + In(y, t)

LEMMA PutHolds ==
  ASSUME NEW g, AreOutputsAt(g, DOMAIN g), NEW x, NEW y, IsOutput(y),
         NEW h, h = Put(g, x, y)
  PROVE  IsPut(g, x, y, h)
<1> DEFINE D == DOMAIN g \ {x}
<1>1. /\ DOMAIN h = DOMAIN g \cup {x} /\ DOMAIN h = D \cup {x} /\ D \cap {x} = {}
      /\ h[x] = y /\ \A z \in DOMAIN g : z # x => h[z] = g[z]
  BY DEF Put
<1>2. AreOutputsAt(g, D) /\ AreOutputsAt(h, D) /\ AreOutputsAt(h, {x})
  BY <1>1, FS_Subset, FS_Singleton DEF AreOutputsAt
<1>3. AreOutputsAt(h, DOMAIN h)
  <2>1. IsFiniteSet(D) /\ IsFiniteSet({x})
    BY <1>2 DEF AreOutputsAt
  <2>2. IsFiniteSet(D \cup {x})
    <3> HIDE DEF D
    <3>1. QED
      BY <2>1, FS_Union
  <2>3. QED
    BY <1>1, <1>2, <2>2 DEF AreOutputsAt
<1>4. ASSUME NEW t
      PROVE  Holds(h, t) = Holds(g, t) - (IF x \in DOMAIN g THEN In(g[x], t) ELSE 0) + In(y, t)
  <2>4. HoldsAt(h, DOMAIN h, t) = HoldsAt(h, D, t) + HoldsAt(h, {x}, t)
    <3> HIDE DEF D
    <3>1. QED
      BY <1>1, <1>2, HoldsAtUnion
  <2>5. HoldsAt(h, {x}, t) = In(y, t)
    BY <1>1, HoldsAtOne
  <2>6. HoldsAt(h, D, t) = HoldsAt(g, D, t)
    BY <1>1, <1>2, HoldsAtSame DEF AreOutputsAt
  <2>7. HoldsAt(g, D, t) = HoldsAt(g, DOMAIN g, t) - (IF x \in DOMAIN g THEN In(g[x], t) ELSE 0)
    <3>1. CASE x \notin DOMAIN g
      <4>1. D = DOMAIN g /\ HoldsAt(g, DOMAIN g, t) \in Nat
        BY <3>1, HoldsAtNat
      <4>2. QED
        BY <3>1, <4>1
    <3>2. CASE x \in DOMAIN g
      <4>1. AreOutputsAt(g, {x}) /\ HoldsAt(g, {x}, t) = In(g[x], t)
        BY <3>2, HoldsAtOne DEF AreOutputsAt
      <4>2. DOMAIN g = D \cup {x}
        BY <3>2
      <4>3. HoldsAt(g, DOMAIN g, t) = HoldsAt(g, D, t) + HoldsAt(g, {x}, t)
        <5> HIDE DEF D
        <5>1. QED
          BY <1>1, <1>2, <4>1, <4>2, HoldsAtUnion
      <4>4. HoldsAt(g, D, t) \in Nat /\ HoldsAt(g, {x}, t) \in Nat
        BY <1>2, <4>1, HoldsAtNat
      <4>5. QED
        BY <3>2, <4>1, <4>3, <4>4
    <3>3. QED
      BY <3>1, <3>2
  <2>8. QED
    BY <2>4, <2>5, <2>6, <2>7, HoldsIsAt
<1>5. QED
  BY <1>1, <1>3, <1>4 DEF IsPut

-----------------------------------------------------------------------------
(* Lists that name the elements of a set once each.                        *)

Enumerates(e, S) == e \in Seq(S) /\ IsInjective(e) /\ {e[k] : k \in DOMAIN e} = S

LEMMA AppendNew ==
  ASSUME NEW S, NEW e, Enumerates(e, S), NEW x, x \notin S
  PROVE  /\ Enumerates(Append(e, x), S \cup {x})
         /\ DOMAIN Append(e, x) = 1..Len(e) + 1 /\ DOMAIN e = 1..Len(e) /\ Len(e) \in Nat
         /\ \A k \in DOMAIN e : Append(e, x)[k] = e[k]
         /\ Append(e, x)[Len(e) + 1] = x
<1> DEFINE a == Append(e, x)
           n == Len(e)
<1>1. e \in Seq(S) /\ n \in Nat /\ DOMAIN e = 1..n /\ \A k \in 1..n : e[k] \in S
  BY DEF Enumerates
<1>2. e \in Seq(S \cup {x})
  BY <1>1
<1>3. /\ a \in Seq(S \cup {x}) /\ DOMAIN a = 1..n + 1
      /\ (\A k \in 1..n : a[k] = e[k]) /\ a[n + 1] = x
  BY <1>1, <1>2
<1> HIDE DEF a, n
<1>4. \A j, k \in DOMAIN e : e[j] = e[k] => j = k
  BY DEF Enumerates, IsInjective
<1>5. ASSUME NEW j \in DOMAIN a, NEW k \in DOMAIN a, a[j] = a[k]
      PROVE  j = k
  <2>1. (j \in 1..n \/ j = n + 1) /\ (k \in 1..n \/ k = n + 1)
    BY <1>1, <1>3, <1>5
  <2>2. QED
    BY <1>1, <1>3, <1>4, <1>5, <2>1
<1>6. ASSUME NEW y \in S
      PROVE  \E k \in DOMAIN a : a[k] = y
  <2>1. PICK k \in DOMAIN e : e[k] = y
    BY DEF Enumerates
  <2>2. k \in DOMAIN a /\ a[k] = y
    BY <1>1, <1>3, <2>1
  <2>3. QED
    BY <2>2
<1>7. n + 1 \in DOMAIN a /\ \A k \in DOMAIN a : a[k] \in S \cup {x}
  BY <1>1, <1>3
<1>8. {a[k] : k \in DOMAIN a} = S \cup {x}
  BY <1>3, <1>6, <1>7
<1>9. QED
  BY <1>1, <1>3, <1>5, <1>8 DEF Enumerates, IsInjective, a, n

LEMMA AppendAll ==
  ASSUME NEW f, NEW S, IsFiniteSet(S)
  PROVE  \E e : /\ Enumerates(e, S)
                /\ Fold(AppendKind(f), <<>>, S) = [k \in 1..Len(e) |-> f[e[k]]]
<1> DEFINE F(T) == Fold(AppendKind(f), <<>>, T)
           Lists(e, T) == Enumerates(e, T) /\ F(T) = [k \in 1..Len(e) |-> f[e[k]]]
           Good == {T \in SUBSET S : \E e : Lists(e, T)}
<1>1. {} \in Good
  <2>1. F({}) = <<>>
    BY FoldEmpty
  <2>2. Enumerates(<<>>, {})
    BY DEF Enumerates, IsInjective
  <2>3. <<>> = [k \in 1..Len(<<>>) |-> f[<<>>[k]]]
    OBVIOUS
  <2>4. Lists(<<>>, {})
    BY <2>1, <2>2, <2>3
  <2> HIDE DEF Lists
  <2>5. QED
    BY <2>4
<1>2. ASSUME NEW T \in SUBSET S, T # {}, \A x \in T : T \ {x} \in Good
      PROVE  T \in Good
  <2> DEFINE x == Chosen(T)
             R == T \ {x}
  <2>1. x \in T /\ R \in Good /\ R \cup {x} = T /\ x \notin R
    BY <1>2, ChosenIn
  <2>2. PICK e : Lists(e, R)
    BY <2>1
  <2>3. F(T) = Append(F(R), f[x])
    <3>1. F(T) = FoldStep(AppendKind(f), x, F(R))
      BY <1>2, FS_Subset, FoldNonempty
    <3>2. QED
      BY <3>1, FoldSteps
  <2> HIDE DEF F, x, R
  <2> DEFINE a == Append(e, x)
             n == Len(e)
             l == [k \in 1..n |-> f[e[k]]]
  <2>4. /\ Enumerates(a, T) /\ DOMAIN a = 1..n + 1 /\ n \in Nat
        /\ (\A k \in 1..n : a[k] = e[k]) /\ a[n + 1] = x
    BY <2>1, <2>2, AppendNew
  <2>5. Len(a) = n + 1
    <3>1. a \in Seq(T)
      BY <2>4 DEF Enumerates
    <3> HIDE DEF a, n
    <3>2. QED
      BY <2>4, <3>1
  <2>6. Append(l, f[x]) = [k \in 1..n + 1 |-> f[a[k]]]
    <3> DEFINE X == {f[e[k]] : k \in 1..n} \cup {f[x]}
               b == Append(l, f[x])
    <3>1. l \in Seq(X) /\ Len(l) = n
      BY <2>4
    <3>2. f[x] \in X
      OBVIOUS
    <3>3. \A k \in 1..n : l[k] = f[a[k]]
      BY <2>4
    <3>4. f[x] = f[a[n + 1]]
      BY <2>4
    <3> HIDE DEF l, X, n, a
    <3>5. /\ b \in Seq(X) /\ Len(b) = n + 1 /\ b[n + 1] = f[x]
          /\ \A k \in 1..n : b[k] = l[k]
      BY <2>4, <3>1, <3>2
    <3> HIDE DEF b
    <3>6. \A k \in 1..n + 1 : b[k] = f[a[k]]
      BY <2>4, <3>3, <3>4, <3>5
    <3>7. b = [k \in 1..n + 1 |-> b[k]]
      BY <2>4, <3>5
    <3>8. QED
      BY <3>6, <3>7 DEF b
  <2>7. Lists(a, T)
    <3>1. F(R) = l
      BY <2>2
    <3> HIDE DEF a, n, l
    <3>2. QED
      BY <2>3, <2>4, <2>5, <2>6, <3>1
  <2> HIDE DEF Lists
  <2>8. QED
    BY <2>7
<1> HIDE DEF Good
<1>3. S \in Good
  BY <1>1, <1>2, FiniteInduct
<1>4. QED
  BY <1>3 DEF Good

LEMMA ListedFacts ==
  ASSUME NEW S, IsFiniteSet(S)
  PROVE  Enumerates(Listed(S), S)
<1>1. PICK e : /\ Enumerates(e, S)
               /\ Fold(AppendKind(Same(S)), <<>>, S) = [k \in 1..Len(e) |-> Same(S)[e[k]]]
  BY AppendAll
<1>2. e \in Seq(S)
  BY <1>1 DEF Enumerates
<1>3. \A k \in 1..Len(e) : Same(S)[e[k]] = e[k]
  BY <1>2 DEF Same
<1>4. e = [k \in 1..Len(e) |-> e[k]]
  BY <1>2
<1>5. QED
  BY <1>1, <1>3, <1>4, ListedIs

LEMMA InputsAtFacts ==
  ASSUME NEW I, IsFiniteSet(I)
  PROVE  \E e : Enumerates(e, I) /\ InputsAt(I) = [k \in DOMAIN e |-> random.inputs[e[k]]]
<1>1. PICK e : /\ Enumerates(e, I)
               /\ Fold(AppendKind(ThereIn(I)), <<>>, I) = [k \in 1..Len(e) |-> ThereIn(I)[e[k]]]
  BY AppendAll
<1>2. DOMAIN e = 1..Len(e) /\ \A k \in 1..Len(e) : e[k] \in I
  BY <1>1 DEF Enumerates
<1>3. \A k \in 1..Len(e) : ThereIn(I)[e[k]] = random.inputs[e[k]]
  BY <1>2 DEF ThereIn
<1>4. QED
  BY <1>1, <1>2, <1>3, InputsAtIs

(* q lists what g holds at the members of S, each once                     *)
IsListOf(q, g, S) ==
  /\ AreOutputs(q) /\ q \in Seq({g[x] : x \in S})
  /\ Range(q) = {g[x] : x \in S}
  /\ (\A x, y \in S : g[x] = g[y] => x = y) => IsInjective(q)
  /\ \A t : Holds(q, t) = HoldsAt(g, S, t)

(* The list of what is at the indices that e enumerates.                   *)
LEMMA ListOfIs ==
  ASSUME NEW S, NEW e, Enumerates(e, S), NEW g, AreOutputsAt(g, S),
         NEW q, q = [k \in DOMAIN e |-> g[e[k]]]
  PROVE  IsListOf(q, g, S)
<1> DEFINE X == {g[x] : x \in S}
<1>0. q = [k \in DOMAIN e |-> g[e[k]]]
  OBVIOUS
<1>1. /\ DOMAIN e = 1..Len(e) /\ Len(e) \in Nat
      /\ \A k \in DOMAIN e : e[k] \in S
      /\ \A j, k \in DOMAIN e : e[j] = e[k] => j = k
      /\ \A x \in S : \E k \in DOMAIN e : e[k] = x
  BY DEF Enumerates, IsInjective
<1>2. q \in Seq(X)
  BY <1>0, <1>1
<1>3. AreOutputs(q)
  <2>1. \A x \in X : IsOutput(x)
    BY DEF AreOutputsAt
  <2> HIDE DEF X
  <2>2. QED
    BY <1>2, <2>1, OutputsIn
<1>4. Range(q) = X
  BY <1>0, <1>1 DEF Range
<1>5. ASSUME \A x, y \in S : g[x] = g[y] => x = y
      PROVE  IsInjective(q)
  BY <1>0, <1>1, <1>5 DEF IsInjective
<1>6. ASSUME NEW t
      PROVE  Holds(q, t) = HoldsAt(g, S, t)
  <2> DEFINE f == Values(q, t)
             h == [x \in S |-> In(g[x], t)]
             D == DOMAIN e
  <2>1. \A k \in D : f[k] = h[e[k]]
    BY <1>0, <1>1 DEF Values
  <2>2. \A k \in D : h[e[k]] \in Int
    BY <1>1, InNat DEF AreOutputsAt
  <2>3. IsFiniteSet(D)
    BY <1>1, FS_Interval
  <2>4. {e[k] : k \in D} = S /\ \A j, k \in D : e[j] = e[k] => j = k
    BY <1>1 DEF Enumerates
  <2>5. DOMAIN q = D
    BY <1>0
  <2> HIDE DEF f, h, D
  <2>6. \A k \in D : f[k] = h[e[k]] /\ f[k] \in Int
    BY <2>1, <2>2
  <2>7. SumOver(h, {e[k] : k \in D}) = SumOver(f, D)
    BY <2>3, <2>4, <2>6, SumRenamed
  <2>8. SumOver(h, S) = SumOver(f, DOMAIN q)
    BY <2>4, <2>5, <2>7
  <2>9. QED
    BY <2>8 DEF Holds, HoldsAt, f, h
<1>7. QED
  BY <1>2, <1>3, <1>4, <1>5, <1>6 DEF IsListOf

(* The indices of several outputs, where no index is of two.               *)
AreDisjoint(f, P) ==
  /\ \A p \in P : f[p] \in Seq(Nat)
  /\ \A p, q \in P : \A k \in DOMAIN f[p] : \A l \in DOMAIN f[q] :
       f[p][k] = f[q][l] => p = q /\ k = l

LEMMA JoinTwo ==
  ASSUME NEW S, NEW e, Enumerates(e, S), NEW R, NEW d, Enumerates(d, R), S \cap R = {}
  PROVE  Enumerates(e \o d, S \cup R)
<1> DEFINE q == e \o d
           m == Len(e)
           n == Len(d)
<1>1. /\ m \in Nat /\ n \in Nat /\ DOMAIN e = 1..m /\ DOMAIN d = 1..n
      /\ (\A k \in 1..m : e[k] \in S) /\ (\A k \in 1..n : d[k] \in R)
  BY DEF Enumerates
<1>2. e \in Seq(S \cup R) /\ d \in Seq(S \cup R)
  BY DEF Enumerates
<1>3. /\ q \in Seq(S \cup R) /\ DOMAIN q = 1..m + n
      /\ (\A k \in 1..m : q[k] = e[k]) /\ (\A k \in 1..n : q[m + k] = d[k])
  BY <1>1, <1>2
<1> HIDE DEF q, m, n
<1>4. \A k \in 1..m + n : k \in 1..m \/ (k - m \in 1..n /\ k = m + (k - m))
  BY <1>1
<1>5. /\ \A j, k \in 1..m : e[j] = e[k] => j = k
      /\ \A j, k \in 1..n : d[j] = d[k] => j = k
  BY <1>1 DEF Enumerates, IsInjective
<1>6. ASSUME NEW j \in 1..m + n, NEW k \in 1..m + n, q[j] = q[k]
      PROVE  j = k
  <2>1. CASE j \in 1..m /\ k \in 1..m
    BY <1>3, <1>5, <1>6, <2>1
  <2>2. CASE j \in 1..m /\ k \notin 1..m
    <3>1. k - m \in 1..n /\ q[k] = d[k - m] /\ q[j] = e[j]
      BY <1>3, <1>4, <2>2
    <3>2. d[k - m] \in R /\ e[j] \in S
      BY <1>1, <2>2, <3>1
    <3>3. QED
      BY <1>6, <3>1, <3>2
  <2>3. CASE j \notin 1..m /\ k \in 1..m
    <3>1. j - m \in 1..n /\ q[j] = d[j - m] /\ q[k] = e[k]
      BY <1>3, <1>4, <2>3
    <3>2. d[j - m] \in R /\ e[k] \in S
      BY <1>1, <2>3, <3>1
    <3>3. QED
      BY <1>6, <3>1, <3>2
  <2>4. CASE j \notin 1..m /\ k \notin 1..m
    <3>1. j - m \in 1..n /\ k - m \in 1..n /\ q[j] = d[j - m] /\ q[k] = d[k - m]
      BY <1>3, <1>4, <2>4
    <3>2. j - m = k - m
      BY <1>5, <1>6, <3>1
    <3>3. QED
      BY <1>1, <3>2
  <2>5. QED
    BY <2>1, <2>2, <2>3, <2>4
<1>7. ASSUME NEW x \in S \cup R
      PROVE  \E k \in DOMAIN q : q[k] = x
  <2>1. CASE x \in S
    <3>1. PICK k \in 1..m : e[k] = x
      BY <1>1, <2>1 DEF Enumerates
    <3>2. k \in DOMAIN q /\ q[k] = x
      BY <1>1, <1>3, <3>1
    <3>3. QED
      BY <3>2
  <2>2. CASE x \in R
    <3>1. PICK k \in 1..n : d[k] = x
      BY <1>1, <2>2 DEF Enumerates
    <3>2. m + k \in DOMAIN q /\ q[m + k] = x
      BY <1>1, <1>3, <3>1
    <3>3. QED
      BY <3>2
  <2>3. QED
    BY <2>1, <2>2
<1>8. \A k \in DOMAIN q : q[k] \in S \cup R
  BY <1>1, <1>3, <1>4
<1>9. {q[k] : k \in DOMAIN q} = S \cup R
  BY <1>7, <1>8
<1>10. QED
  BY <1>3, <1>6, <1>9 DEF Enumerates, IsInjective, q

LEMMA JoinAll ==
  ASSUME NEW f, NEW P, IsFiniteSet(P), AreDisjoint(f, P)
  PROVE  Enumerates(Fold(JoinKind(f), <<>>, P), UNION {Range(f[p]) : p \in P})
<1> DEFINE F(T) == Fold(JoinKind(f), <<>>, T)
           U(T) == UNION {Range(f[p]) : p \in T}
           Good == {T \in SUBSET P : Enumerates(F(T), U(T))}
<1>1. {} \in Good
  <2>1. F({}) = <<>> /\ U({}) = {}
    BY FoldEmpty
  <2>2. Enumerates(<<>>, {})
    BY DEF Enumerates, IsInjective
  <2>3. QED
    BY <2>1, <2>2
<1>2. ASSUME NEW T \in SUBSET P, T # {}, \A x \in T : T \ {x} \in Good
      PROVE  T \in Good
  <2> DEFINE x == Chosen(T)
             R == T \ {x}
  <2>1. x \in T /\ R \in Good /\ R \cup {x} = T /\ x \notin R
    BY <1>2, ChosenIn
  <2>2. F(T) = F(R) \o f[x]
    <3>1. F(T) = FoldStep(JoinKind(f), x, F(R))
      BY <1>2, FS_Subset, FoldNonempty
    <3>2. QED
      BY <3>1, FoldSteps
  <2>3. Enumerates(F(R), U(R))
    BY <2>1
  <2>4. U(T) = U(R) \cup Range(f[x])
    BY <2>1
  <2>5. Enumerates(f[x], Range(f[x]))
    <3>1. f[x] \in Seq(Nat) /\ IsInjective(f[x])
      BY <2>1 DEF AreDisjoint, IsInjective
    <3>2. f[x] = [k \in 1..Len(f[x]) |-> f[x][k]] /\ DOMAIN f[x] = 1..Len(f[x]) /\ Len(f[x]) \in Nat
      BY <3>1
    <3>3. f[x] \in Seq(Range(f[x]))
      BY <3>2 DEF Range
    <3>4. QED
      BY <3>1, <3>3 DEF Enumerates, Range
  <2>6. U(R) \cap Range(f[x]) = {}
    BY <2>1 DEF AreDisjoint, Range
  <2> HIDE DEF F, U, x, R
  <2>7. Enumerates(F(T), U(T))
    BY <2>2, <2>3, <2>4, <2>5, <2>6, JoinTwo
  <2>8. QED
    BY <2>7
<1> HIDE DEF Good
<1>3. P \in Good
  BY <1>1, <1>2, FiniteInduct
<1>4. QED
  BY <1>3 DEF Good

(* What g holds at the indices of the list q, one after the other.         *)
Picked(q, g) == [k \in DOMAIN q |-> g[q[k]]]

LEMMA ConcatIs ==
  ASSUME NEW X, NEW a \in Seq(X), NEW b \in Seq(X)
  PROVE  a \o b = [k \in 1..Len(a) + Len(b) |-> IF k <= Len(a) THEN a[k] ELSE b[k - Len(a)]]
<1> DEFINE ab == a \o b
<1>1. Len(a) \in Nat /\ Len(b) \in Nat
  OBVIOUS
<1>2. /\ ab \in Seq(X) /\ DOMAIN ab = 1..Len(a) + Len(b)
      /\ \A k \in 1..Len(a) : ab[k] = a[k]
      /\ \A k \in 1..Len(b) : ab[Len(a) + k] = b[k]
  OBVIOUS
<1> HIDE DEF ab
<1>3. ab = [k \in 1..Len(a) + Len(b) |-> ab[k]]
  BY <1>2
<1>4. ASSUME NEW k \in 1..Len(a) + Len(b)
      PROVE  ab[k] = IF k <= Len(a) THEN a[k] ELSE b[k - Len(a)]
  <2>1. CASE k <= Len(a)
    BY <1>1, <1>2, <2>1
  <2>2. CASE ~(k <= Len(a))
    <3>1. k - Len(a) \in 1..Len(b) /\ Len(a) + (k - Len(a)) = k
      BY <1>1, <2>2
    <3>2. QED
      BY <1>2, <2>2, <3>1
  <2>3. QED
    BY <2>1, <2>2
<1>5. QED
  BY <1>3, <1>4 DEF ab

LEMMA PickedFacts ==
  ASSUME NEW S, NEW g, \A x \in S : IsOutput(g[x]), NEW q \in Seq(S), NEW r \in Seq(S)
  PROVE  /\ AreOutputs(Picked(q, g)) /\ q \o r \in Seq(S)
         /\ Picked(q \o r, g) = Picked(q, g) \o Picked(r, g)
         /\ Range(q \o r) = Range(q) \cup Range(r)
<1> DEFINE m == Len(q)
           n == Len(r)
           j == q \o r
           X == {g[x] : x \in S}
<1>1. /\ m \in Nat /\ n \in Nat /\ DOMAIN q = 1..m /\ DOMAIN r = 1..n
      /\ (\A k \in 1..m : q[k] \in S) /\ (\A k \in 1..n : r[k] \in S)
  OBVIOUS
<1>2. /\ j \in Seq(S) /\ DOMAIN j = 1..m + n
      /\ (\A k \in 1..m : j[k] = q[k]) /\ (\A k \in 1..n : j[m + k] = r[k])
  BY <1>1
<1>3. /\ Picked(q, g) = [k \in 1..m |-> g[q[k]]] /\ Picked(r, g) = [k \in 1..n |-> g[r[k]]]
      /\ Picked(j, g) = [k \in 1..m + n |-> g[j[k]]]
  BY <1>1, <1>2 DEF Picked
<1>4. Picked(q, g) \in Seq(X) /\ Picked(r, g) \in Seq(X) /\ Picked(j, g) \in Seq(X)
  <2> HIDE DEF j
  <2>1. \A k \in 1..m + n : j[k] \in S
    BY <1>2
  <2>2. QED
    BY <1>1, <1>3, <2>1
<1>5. AreOutputs(Picked(q, g))
  <2>1. \A x \in X : IsOutput(x)
    OBVIOUS
  <2> HIDE DEF X
  <2>2. QED
    BY <1>4, <2>1, OutputsIn
<1>6. Picked(j, g) = Picked(q, g) \o Picked(r, g)
  <2> DEFINE a == Picked(q, g)
             b == Picked(r, g)
  <2>1. Len(a) = m /\ Len(b) = n /\ a \in Seq(X) /\ b \in Seq(X)
    BY <1>1, <1>3, <1>4
  <2>2. a \o b = [k \in 1..m + n |-> IF k <= m THEN a[k] ELSE b[k - m]]
    <3> HIDE DEF a, b, X, m, n
    <3>1. a \o b = [k \in 1..Len(a) + Len(b) |-> IF k <= Len(a) THEN a[k] ELSE b[k - Len(a)]]
      BY <2>1, ConcatIs
    <3>2. QED
      BY <2>1, <3>1
  <2>3. ASSUME NEW k \in 1..m + n
        PROVE  g[j[k]] = IF k <= m THEN a[k] ELSE b[k - m]
    <3> HIDE DEF j, m, n
    <3>1. CASE k <= m
      BY <1>1, <1>2, <1>3, <3>1
    <3>2. CASE ~(k <= m)
      <4>1. k - m \in 1..n /\ m + (k - m) = k
        BY <1>1, <3>2
      <4>2. j[k] = r[k - m]
        BY <1>2, <4>1
      <4>3. QED
        BY <1>3, <3>2, <4>1, <4>2
    <3>3. QED
      BY <3>1, <3>2
  <2> HIDE DEF a, b, j, m, n
  <2>4. QED
    BY <1>3, <2>2, <2>3 DEF a, b
<1>7. Range(j) = Range(q) \cup Range(r)
  <2>1. ASSUME NEW k \in 1..m + n
        PROVE  j[k] \in Range(q) \cup Range(r)
    <3>1. CASE k <= m
      BY <1>1, <1>2, <3>1 DEF Range
    <3>2. CASE ~(k <= m)
      <4>1. k - m \in 1..n /\ m + (k - m) = k
        BY <1>1, <3>2
      <4>2. QED
        BY <1>1, <1>2, <4>1 DEF Range
    <3>3. QED
      BY <3>1, <3>2
  <2>2. (\A k \in 1..m : q[k] \in Range(j)) /\ \A k \in 1..n : r[k] \in Range(j)
    <3>1. (\A k \in 1..m : k \in 1..m + n) /\ \A k \in 1..n : m + k \in 1..m + n
      BY <1>1
    <3> HIDE DEF j, m, n
    <3>2. QED
      BY <1>2, <3>1 DEF Range
  <2> HIDE DEF j, m, n
  <2>3. QED
    BY <1>1, <1>2, <2>1, <2>2 DEF Range
<1>8. QED
  BY <1>2, <1>5, <1>6, <1>7

(* The lists of several outputs together hold what each of them holds,     *)
(* also when they have indices in common.                                  *)
LEMMA PickAll ==
  ASSUME NEW f, NEW P, IsFiniteSet(P), NEW S, NEW g, \A x \in S : IsOutput(g[x]),
         \A p \in P : f[p] \in Seq(S), NEW e, e = Fold(JoinKind(f), <<>>, P)
  PROVE  /\ e \in Seq(S) /\ AreOutputs(Picked(e, g))
         /\ Range(e) = UNION {Range(f[p]) : p \in P}
         /\ \A t : Holds(Picked(e, g), t) = SumOver([p \in P |-> Holds(Picked(f[p], g), t)], P)
<1> DEFINE F(T) == Fold(JoinKind(f), <<>>, T)
           h(t) == [p \in P |-> Holds(Picked(f[p], g), t)]
           Good == {T \in SUBSET P : /\ F(T) \in Seq(S)
                                     /\ Range(F(T)) = UNION {Range(f[p]) : p \in T}
                                     /\ \A t : Holds(Picked(F(T), g), t) = SumOver(h(t), T)}
<1>1. {} \in Good
  <2>1. F({}) = <<>>
    BY FoldEmpty
  <2>2. Picked(<<>>, g) = <<>> /\ Range(<<>>) = {} /\ <<>> \in Seq(S)
    BY DEF Picked, Range
  <2>3. \A t : SumOver(h(t), {}) = 0
    <3> HIDE DEF h
    <3>1. QED
      BY SumEmpty
  <2> HIDE DEF F, h
  <2>4. QED
    BY <2>1, <2>2, <2>3, NoOutputs
<1>2. \A t : \A p \in P : h(t)[p] = Holds(Picked(f[p], g), t) /\ h(t)[p] \in Nat
  <2>1. \A p \in P : AreOutputs(Picked(f[p], g))
    BY PickedFacts
  <2>2. \A p \in P : \A t : Holds(Picked(f[p], g), t) \in Nat
    BY <2>1, OutputsFacts
  <2>3. QED
    BY <2>2
<1>3. ASSUME NEW T \in SUBSET P, T # {}, \A x \in T : T \ {x} \in Good
      PROVE  T \in Good
  <2> DEFINE x == Chosen(T)
             R == T \ {x}
  <2>1. x \in T /\ R \in Good /\ R \cup {x} = T /\ x \notin R /\ x \in P
    BY <1>3, ChosenIn
  <2>2. F(T) = F(R) \o f[x]
    <3>1. F(T) = FoldStep(JoinKind(f), x, F(R))
      BY <1>3, FS_Subset, FoldNonempty
    <3>2. QED
      BY <3>1, FoldSteps
  <2>3. /\ F(R) \in Seq(S) /\ Range(F(R)) = UNION {Range(f[p]) : p \in R}
        /\ \A t : Holds(Picked(F(R), g), t) = SumOver(h(t), R)
    BY <2>1
  <2> HIDE DEF F, h, x, R
  <2>4. f[x] \in Seq(S)
    BY <2>1
  <2>5. /\ F(T) \in Seq(S) /\ Picked(F(T), g) = Picked(F(R), g) \o Picked(f[x], g)
        /\ Range(F(T)) = Range(F(R)) \cup Range(f[x])
        /\ AreOutputs(Picked(F(R), g)) /\ AreOutputs(Picked(f[x], g))
    <3>1. AreOutputs(Picked(f[x], g))
      BY <2>4, PickedFacts
    <3>2. AreOutputs(Picked(F(R), g)) /\ F(R) \o f[x] \in Seq(S)
      BY <2>3, <2>4, PickedFacts
    <3>3. /\ Picked(F(R) \o f[x], g) = Picked(F(R), g) \o Picked(f[x], g)
          /\ Range(F(R) \o f[x]) = Range(F(R)) \cup Range(f[x])
      BY <2>3, <2>4, PickedFacts
    <3>4. QED
      BY <2>2, <3>1, <3>2, <3>3
  <2>6. Range(F(T)) = UNION {Range(f[p]) : p \in T}
    BY <2>1, <2>3, <2>5
  <2>7. ASSUME NEW t
        PROVE  Holds(Picked(F(T), g), t) = SumOver(h(t), T)
    <3>1. Holds(Picked(F(T), g), t) = Holds(Picked(F(R), g), t) + Holds(Picked(f[x], g), t)
      BY <2>5, ConcatFacts
    <3>2. SumOver(h(t), T) = h(t)[x] + SumOver(h(t), R)
      <4>1. IsFiniteSet(T) /\ \A p \in T : h(t)[p] \in Int
        BY <1>2, FS_Subset
      <4>2. R = T \ {x}
        BY DEF R
      <4>3. QED
        BY <2>1, <4>1, <4>2, SumRemove
    <3>3. h(t)[x] = Holds(Picked(f[x], g), t) /\ h(t)[x] \in Nat
      BY <1>2, <2>1
    <3>4. Holds(Picked(F(R), g), t) \in Nat
      BY <2>5, OutputsFacts
    <3>5. QED
      BY <2>3, <3>1, <3>2, <3>3, <3>4
  <2>8. QED
    BY <2>5, <2>6, <2>7
<1> HIDE DEF Good
<1>4. P \in Good
  BY <1>1, <1>3, FiniteInduct
<1>5. /\ e \in Seq(S) /\ Range(e) = UNION {Range(f[p]) : p \in P}
      /\ \A t : Holds(Picked(e, g), t) = SumOver(h(t), P)
  BY <1>4 DEF Good
<1>6. AreOutputs(Picked(e, g))
  BY <1>5, PickedFacts
<1>7. QED
  BY <1>5, <1>6

-----------------------------------------------------------------------------
(* The inductive invariant.                                                *)

EstimatorOk(e) ==
  /\ {"inputs", "outputs", "size"} \subseteq DOMAIN e
  /\ {e.empty, e.metadata, e.input, e.output, e.witness, e.minAda,
      e.inputs, e.outputs} \subseteq Nat
  /\ e.output <= AssumedCostOneOutput

Owned == store.utxos.set

OwnedOk(own, next) ==
  \A u \in own : IsOutput(u) /\ u.pointer \in Nat /\ u.pointer < next

StoreOk ==
  GoodStore(store) /\ GoodStore(available) /\ fresh \in Nat /\ OwnedOk(Owned, fresh)

(* what the object of RandomImprove is between two calls                   *)
RandomOk(r) ==
  /\ {"inputs", "indices"} \subseteq DOMAIN r
  /\ r.inputs \in Seq(Range(r.inputs)) /\ IsInjective(r.inputs)
  /\ r.indices \subseteq Nat /\ IsFiniteSet(r.indices)

(* the inputs the caller fixed are its own, each named once                *)
SetupOk(setup, own) ==
  /\ setup.fixedIn \in Seq(own) /\ IsInjective(setup.fixedIn)
  /\ AreOutputs(setup.fixedOut)
  /\ setup.inMain = MainOf(setup.fixedIn) /\ setup.inAssets = AssetsOf(setup.fixedIn)
  /\ setup.outMain = MainOf(setup.fixedOut) /\ setup.outAssets = AssetsOf(setup.fixedOut)

(* what LargestFirst and the thermostat took out of their store            *)
TakenOk(c, own) ==
  /\ SetupOk(c.setup, own)
  /\ GoodStore(c.utxos)
  /\ c.given \subseteq own \ Range(c.setup.fixedIn)
  /\ c.chosen \in Seq(c.given) /\ IsInjective(c.chosen)
  /\ c.utxos.utxos.set = c.given \ Range(c.chosen)

LfFields == {"algo", "setup", "given", "utxos", "chosen", "inMain", "inAssets",
             "fee", "todo", "token"}

(* inMain and inAssets are what the inputs have                            *)
LargestOk(c, own) ==
  /\ c.algo = "largest" /\ LfFields \subseteq DOMAIN c
  /\ TakenOk(c, own)
  /\ c.todo \subseteq DOMAIN c.setup.outAssets
  /\ IsAssets(c.inAssets)
  /\ \A t : Have(c.inMain, c.inAssets, t) = Holds(c.setup.fixedIn, t) + Holds(c.chosen, t)

(* RandomImprove: the indices associated with the outputs of the phase     *)
AllOf(a)    == UNION {Range(a[o]) : o \in DOMAIN a}
Assigned(c) == IF c.stage = "phase" THEN {} ELSE AllOf(c.associated)

RiFields    == {"algo", "stage", "setup", "given", "chosen", "inMain", "inAssets",
                "fee", "again", "todo"}
PhaseFields == {"relevant", "queue", "outputs", "token", "at", "added", "associated"}

PhaseOk(c, r) ==
  /\ PhaseFields \subseteq DOMAIN c
  /\ r.indices \subseteq DOMAIN r.inputs
  /\ c.outputs \subseteq DOMAIN c.setup.fixedOut
  /\ c.queue \subseteq c.outputs /\ c.at \in c.outputs \cup {0}
  /\ c.stage = "improve" => c.added \in Nat
  /\ c.relevant \subseteq r.indices
  /\ DOMAIN c.associated \subseteq {c.setup.fixedOut[p] : p \in c.outputs}
  /\ AreDisjoint(c.associated, DOMAIN c.associated)

(* the available indices, the associated ones and the chosen ones are      *)
(* disjoint, and together they are what was given                          *)
IndicesOk(c, r) ==
  /\ c.given = {r.inputs[i] : i \in (r.indices \cup Assigned(c) \cup c.chosen)
                                     \cap DOMAIN r.inputs}
  /\ Assigned(c) \cup c.chosen \subseteq DOMAIN r.inputs
  /\ r.indices \cap Assigned(c) = {} /\ r.indices \cap c.chosen = {}
  /\ Assigned(c) \cap c.chosen = {}

(* only equal outputs make that an input is counted again                  *)
AgainOk(again, outs) == AreOutputs(again) /\ (again # <<>> => ~IsInjective(outs))

RandomCallOk(c, own, r) ==
  /\ c.algo = "random" /\ RiFields \subseteq DOMAIN c
  /\ c.stage \in {"phase", "cover", "improve", "collect"}
  /\ SetupOk(c.setup, own)
  /\ Range(r.inputs) \subseteq own \ Range(c.setup.fixedIn)
  /\ IndicesOk(c, r)
  /\ c.stage # "phase" => PhaseOk(c, r)
  /\ c.stage = "phase" /\ c.todo = {} => r.indices \subseteq DOMAIN r.inputs
  /\ IsAssets(c.inAssets)
  /\ \A t : Have(c.inMain, c.inAssets, t)
              = Holds(c.setup.fixedIn, t) + HoldsAt(r.inputs, c.chosen, t)
                  + Holds(c.again, t)
  /\ AgainOk(c.again, c.setup.fixedOut)

(* the thermostat: what is due of the token t is what the inputs have and  *)
(* neither the outputs nor the changes                                     *)
Due(c, t) == IF t = Main THEN c.balance
             ELSE IF t \in DOMAIN c.assetBalance THEN c.assetBalance[t] ELSE Balanced

ThFields == {"algo", "stage", "setup", "given", "utxos", "chosen", "balance",
             "assetBalance", "changes", "extra", "lost", "order", "at", "empty"}

DueOk(c) ==
  \A t : /\ IsBalance(Due(c, t))
         /\ Worth(Due(c, t)) = Holds(c.setup.fixedIn, t) + Holds(c.chosen, t)
                                 - Holds(c.setup.fixedOut, t)
                                 - Holds(c.changes, t) - Holds(c.extra, t) - Holds(c.lost, t)

(* half of the least change does not pay for an output                     *)
HalvesAreSmall == ThermostatMin <= 2 * AssumedCostOneOutput + 1

ChangesOk(c) ==
  /\ Main \notin DOMAIN c.assetBalance
  /\ AreOutputsAt(c.changes, DOMAIN c.changes)
  /\ c.stage # "split" => /\ Main \notin DOMAIN c.changes
                          /\ \A k \in DOMAIN c.changes : c.changes[k].value >= ThermostatMin
  /\ AreOutputs(c.extra)
  /\ AreOutputs(c.lost) /\ (c.lost # <<>> => HalvesAreSmall)

IsOrder(c)   == c.order \in Seq(Range(c.order)) /\ Range(c.order) = DOMAIN c.assetBalance
IsCovered(c) == \A t \in DOMAIN c.assetBalance : ~InDebt(c.assetBalance[t])

AssetsStage(c) ==
  /\ c.stage = "assets" /\ c.at \in Nat \ {0} /\ IsOrder(c)
  /\ \A k \in DOMAIN c.order : k < c.at => ~InDebt(c.assetBalance[c.order[k]])

MainStage(c) == c.stage = "main" /\ IsOrder(c) /\ IsCovered(c)

RegroupStage(c) ==
  /\ c.stage = "regroup" /\ c.at \in DOMAIN c.order /\ IsCovered(c)
  /\ \/ c.order = <<Main>> /\ DOMAIN c.assetBalance = {}
     \/ IsOrder(c)

ExcessStage(c) ==
  /\ c.stage = "excess" /\ c.at \in Nat \ {0} /\ IsOrder(c) /\ IsCovered(c)
  /\ \A k \in DOMAIN c.order : k < c.at => InBalance(c.assetBalance[c.order[k]])

SplitStage(c) ==
  /\ c.stage = "split"
  /\ c.order \in Seq(DOMAIN c.changes) /\ IsInjective(c.order)
  /\ \A t \in DOMAIN c.assetBalance : InBalance(c.assetBalance[t])
  /\ \A k \in DOMAIN c.order :
       IF c.order[k] = Main
       THEN c.changes[Main] = [value |-> c.changes[Main].value, assets |-> NoAssets]
       ELSE c.changes[c.order[k]].value >= ThermostatMin

StageOk(c) ==
  AssetsStage(c) \/ MainStage(c) \/ RegroupStage(c) \/ ExcessStage(c) \/ SplitStage(c)

ThermostatOk(c, own) ==
  /\ c.algo = "thermostat" /\ ThFields \subseteq DOMAIN c
  /\ TakenOk(c, own) /\ ChangesOk(c) /\ DueOk(c) /\ StageOk(c)

CallOk(c, own, r) ==
  c = NoCall \/ LargestOk(c, own) \/ RandomCallOk(c, own, r) \/ ThermostatOk(c, own)

(* what is left to be balanced, and what the balancers and the thermostat  *)
(* balanced, if the changes are outputs                                    *)
Unbalanced(r) ==
  /\ r.by \in {"largest", "random"}
  /\ IsAssets(r.inAssets)
  /\ \A t : Have(r.inMain, r.inAssets, t) = Holds(InputsOf(r), t) + Holds(r.again, t)
  /\ r.outMain = MainOf(r.fixedOut) /\ r.outAssets = AssetsOf(r.fixedOut)
  /\ r.lost = <<>>

Balances(r) ==
  /\ ListsBalance(InputsOf(r) \o r.again, OutputsOf(r) \o r.lost, r.fee)
  /\ r.lost = <<>> => IsBalanced(r)

Submittable(r, e) ==
  /\ r.by \in {"thermostat", "balancer"}
  /\ r.changes \in Seq(Range(r.changes))
  /\ \A o \in Range(r.changes) : IsFiniteSet(DOMAIN o.assets) /\ Main \notin DOMAIN o.assets
  /\ AreOutputs(r.lost) /\ (r.lost # <<>> => HalvesAreSmall)
  /\ AreOutputs(r.changes) => Balances(r)
  /\ r.by = "balancer" => r.fee >= MinRequiredFee(e)

ResultOk(r, own, e) ==
  /\ r.is = "selected"
  /\ InputsOf(r) \in Seq(own) /\ IsInjective(InputsOf(r))
  /\ AreOutputs(r.fixedOut) /\ AgainOk(r.again, r.fixedOut)
  /\ Unbalanced(r) \/ Submittable(r, e)

IInv ==
  /\ StoreOk /\ RandomOk(random) /\ EstimatorOk(estimator)
  /\ CallOk(call, Owned, random) /\ (call # NoCall => result = NoResult)
  /\ result \in {NoResult, Failed, Panicked} \/ ResultOk(result, Owned, estimator)

-----------------------------------------------------------------------------
(* The estimators.                                                         *)

LEMMA AddOutputsFacts ==
  ASSUME NEW e, EstimatorOk(e), NEW n \in Nat
  PROVE  /\ EstimatorOk(AddOutputs(e, n))
         /\ MinRequiredFee(AddOutputs(e, n)) = MinRequiredFee(e) + e.output * n
         /\ MinRequiredFee(e) \in Nat
<1> DEFINE d == AddOutputs(e, n)
<1>1. /\ d.outputs = e.outputs + n /\ DOMAIN d = DOMAIN e
      /\ d.empty = e.empty /\ d.metadata = e.metadata /\ d.input = e.input
      /\ d.output = e.output /\ d.witness = e.witness /\ d.minAda = e.minAda
      /\ d.inputs = e.inputs
  BY DEF EstimatorOk, AddOutputs
<1>2. /\ e.empty \in Nat /\ e.metadata \in Nat /\ e.output \in Nat /\ e.outputs \in Nat
      /\ e.input \in Nat /\ e.inputs \in Nat /\ e.witness \in Nat
  BY DEF EstimatorOk
<1> HIDE DEF d
<1>3. EstimatorOk(d)
  BY <1>1, <1>2 DEF EstimatorOk
<1>4. Signatures(d) = Signatures(e) /\ Signatures(e) \in {0, 1}
  BY <1>1 DEF Signatures
<1>5. \A a, b \in Nat : a * b \in Nat /\ a * (b + n) = a * b + a * n
  OBVIOUS
<1>6. /\ e.output * e.outputs \in Nat /\ e.input * e.inputs \in Nat
      /\ e.witness * Signatures(e) \in Nat /\ e.output * n \in Nat
      /\ d.output * d.outputs = e.output * e.outputs + e.output * n
  BY <1>1, <1>2, <1>4, <1>5
<1>7. MinRequiredFee(e) \in Nat
  BY <1>2, <1>6 DEF MinRequiredFee
<1>8. MinRequiredFee(d) = MinRequiredFee(e) + e.output * n
  <2> DEFINE a == e.output * e.outputs
             b == e.input * e.inputs
             c == e.witness * Signatures(e)
             z == e.output * n
  <2>1. a \in Nat /\ b \in Nat /\ c \in Nat /\ z \in Nat /\ d.output * d.outputs = a + z
    BY <1>6
  <2>2. d.input * d.inputs = b /\ d.witness * Signatures(d) = c
    BY <1>1, <1>4
  <2>3. MinRequiredFee(e) = e.empty + e.metadata + a + b + c
    BY DEF MinRequiredFee
  <2> HIDE DEF a, b, c, z
  <2>4. MinRequiredFee(d) = e.empty + e.metadata + (a + z) + b + c
    BY <1>1, <2>1, <2>2 DEF MinRequiredFee
  <2>5. MinRequiredFee(d) = MinRequiredFee(e) + z
    BY <1>2, <2>1, <2>3, <2>4
  <2>6. QED
    BY <2>5 DEF z
<1>9. QED
  BY <1>3, <1>7, <1>8 DEF d

LEMMA FeeForOutputIs ==
  ASSUME NEW e, EstimatorOk(e)
  PROVE  /\ FeeForOutput(e) = e.output /\ e.output \in Nat
         /\ FeeForOutput(e) <= AssumedCostOneOutput /\ MinValueForOutput(e) \in Nat
         /\ MinRequiredFee(AddOutputs(e, 1)) = MinRequiredFee(e) + FeeForOutput(e)
<1>1. e.output \in Nat /\ e.minAda \in Nat /\ e.output <= AssumedCostOneOutput
  BY DEF EstimatorOk
<1>2. MinRequiredFee(AddOutputs(e, 1)) = MinRequiredFee(e) + e.output * 1 /\ MinRequiredFee(e) \in Nat
  BY AddOutputsFacts
<1>3. QED
  BY <1>1, <1>2 DEF FeeForOutput, MinValueForOutput

LEMMA AddInputsFacts ==
  ASSUME NEW e, EstimatorOk(e), NEW n \in Nat
  PROVE  EstimatorOk(AddInputs(e, n))
<1> DEFINE d == AddInputs(e, n)
<1>1. /\ d.inputs = e.inputs + n /\ DOMAIN d = DOMAIN e
      /\ d.empty = e.empty /\ d.metadata = e.metadata /\ d.input = e.input
      /\ d.output = e.output /\ d.witness = e.witness /\ d.minAda = e.minAda
      /\ d.outputs = e.outputs
  BY DEF EstimatorOk, AddInputs
<1> HIDE DEF d
<1>2. EstimatorOk(d)
  BY <1>1 DEF EstimatorOk
<1>3. QED
  BY <1>2 DEF d

LEMMA EstimatorsAreOk ==
  /\ EstimatorOk(DummyEstimator) /\ EstimatorOk(ThermostatEstimator)
  /\ EstimatorOk(AddProtocolMagic(ThermostatEstimator)) /\ EstimatorOk(CmlEstimator)
<1>1. \A a, b \in Nat : a * b \in Nat /\ a + b \in Nat
  OBVIOUS
<1>2. /\ AssumedCostOneInput \in Nat /\ AssumedCostOneOutput \in Nat
      /\ AssumedCostOneWitness \in Nat /\ AssumedCostNativeScript \in Nat
      /\ AssumedCostMetadata \in Nat /\ AssumedEmptyTransaction \in Nat
      /\ AssumedCostOneWitness * Quorum \in Nat /\ MinAda \in Nat
  BY <1>1, CostsAreNatural DEF AssumedCostOneInput, AssumedCostOneOutput, AssumedCostOneWitness,
       AssumedCostNativeScript, AssumedCostMetadata, AssumedEmptyTransaction, LinearFee
<1>3. EstimatorOk(DummyEstimator)
  BY <1>2 DEF EstimatorOk, DummyEstimator
<1>4. EstimatorOk(ThermostatEstimator)
  BY <1>1, <1>2 DEF EstimatorOk, ThermostatEstimator
<1>5. EstimatorOk(AddProtocolMagic(ThermostatEstimator))
  <2> DEFINE e == ThermostatEstimator
             d == AddProtocolMagic(e)
  <2>1. /\ DOMAIN d = DOMAIN e /\ d.metadata = AssumedCostMetadata
        /\ d.empty = e.empty /\ d.input = e.input
        /\ d.output = e.output /\ d.witness = e.witness /\ d.minAda = e.minAda
        /\ d.inputs = e.inputs /\ d.outputs = e.outputs
    BY DEF AddProtocolMagic, ThermostatEstimator
  <2> HIDE DEF d, e
  <2>2. EstimatorOk(e)
    BY <1>4 DEF e
  <2>3. EstimatorOk(d)
    BY <1>2, <2>1, <2>2 DEF EstimatorOk
  <2>4. QED
    BY <2>3 DEF d, e
<1>6. EstimatorOk(CmlEstimator)
  <2> DEFINE d == CmlEstimator
  <2>1. /\ {"inputs", "outputs", "size"} \subseteq DOMAIN d
        /\ d.metadata = 0 /\ d.empty = Coefficient * SizeEmpty + Constant
        /\ d.input = Coefficient * SizeInput
        /\ d.output = Coefficient * SizeOutput /\ d.witness = Coefficient * SizeWitness
        /\ d.minAda = MinAda /\ d.inputs = 0 /\ d.outputs = 0
    BY DEF CmlEstimator, TransactionBuilder, LinearFee
  <2> HIDE DEF d
  <2>2. AssumedCostOneOutput = Coefficient * SizeOutput
    BY DEF AssumedCostOneOutput, LinearFee
  <2>3. EstimatorOk(d)
    BY <1>1, <1>2, <2>1, <2>2, CostsAreNatural DEF EstimatorOk
  <2>4. QED
    BY <2>3 DEF d
<1>7. QED
  BY <1>3, <1>4, <1>5, <1>6

-----------------------------------------------------------------------------
(* Balances, and the store the outputs are taken from.                     *)

LEMMA SideOfWorth ==
  ASSUME NEW b, IsBalance(b)
  PROVE  /\ Worth(b) \in Int /\ b.amount \in Nat
         /\ InBalance(b) <=> Worth(b) = 0
         /\ InDebt(b) <=> Worth(b) < 0
         /\ InExcess(b) <=> Worth(b) > 0
         /\ ~InDebt(b) => b.amount = Worth(b)
<1>1. CASE b = Balanced
  BY <1>1, Sides DEF Worth
<1>2. ASSUME NEW n \in Positive, b = Debt(n)
      PROVE  /\ Worth(b) \in Int /\ b.amount \in Nat
             /\ ~InBalance(b) /\ InDebt(b) /\ Worth(b) < 0 /\ ~InExcess(b)
  BY <1>2, Sides DEF Worth, Positive
<1>3. ASSUME NEW n \in Positive, b = Excess(n)
      PROVE  /\ Worth(b) \in Int /\ b.amount \in Nat
             /\ ~InBalance(b) /\ ~InDebt(b) /\ Worth(b) > 0 /\ InExcess(b)
             /\ b.amount = Worth(b)
  BY <1>3, Sides DEF Worth, Positive
<1>4. QED
  BY <1>1, <1>2, <1>3 DEF IsBalance

LEMMA BalancedFacts == IsBalance(Balanced) /\ Worth(Balanced) = 0
BY Sides DEF IsBalance, Worth

LEMMA PlusNothing ==
  ASSUME NEW b, IsBalance(b)
  PROVE  Plus(b, 0) = b
<1>1. CASE b = Balanced
  BY <1>1, Sides DEF Plus, Toward
<1>2. ASSUME NEW n \in Positive, b = Debt(n)
      PROVE  Plus(b, 0) = b
  BY <1>2, Sides DEF Plus, Positive
<1>3. ASSUME NEW n \in Positive, b = Excess(n)
      PROVE  Plus(b, 0) = b
  BY <1>3, Sides DEF Plus, Positive
<1>4. QED
  BY <1>1, <1>2, <1>3 DEF IsBalance

LEMMA MainBalanceFacts ==
  ASSUME NEW in \in Nat, NEW out \in Nat, NEW fee \in Nat
  PROVE  /\ IsBalance(MainBalance(in, out, fee))
         /\ Worth(MainBalance(in, out, fee)) = in - out - fee
<1> DEFINE a == Plus(Balanced, in)
           b == Minus(a, fee)
           c == Minus(b, out)
<1>1. IsBalance(a) /\ Worth(a) = 0 + in
  BY BalancedFacts, PlusAdds
<1> HIDE DEF a
<1>2. IsBalance(b) /\ Worth(b) = Worth(a) - fee
  BY <1>1, MinusSubtracts
<1> HIDE DEF b
<1>3. IsBalance(c) /\ Worth(c) = Worth(b) - out
  BY <1>2, MinusSubtracts
<1> HIDE DEF c
<1>4. Worth(c) = in - out - fee
  BY <1>1, <1>2, <1>3
<1>5. QED
  BY <1>3, <1>4 DEF MainBalance, a, b, c

LEMMA AssetBalanceFacts ==
  ASSUME NEW in, IsAssets(in), NEW out, IsAssets(out)
  PROVE  LET b == AssetBalance(in, out) IN
         /\ IsFiniteSet(DOMAIN b) /\ Main \notin DOMAIN b
         /\ \A t \in DOMAIN b : IsBalance(b[t]) /\ Worth(b[t]) = Of(in, t) - Of(out, t)
         /\ \A t : t \notin DOMAIN b => Of(in, t) = 0 /\ Of(out, t) = 0
<1> DEFINE b == AssetBalance(in, out)
<1>1. /\ DOMAIN b = DOMAIN in \cup DOMAIN out
      /\ \A t \in DOMAIN b : b[t] = Minus(Plus(Balanced, Of(in, t)), Of(out, t))
  BY DEF AssetBalance
<1> HIDE DEF b
<1>2. IsFiniteSet(DOMAIN b) /\ Main \notin DOMAIN b
  BY <1>1, FS_Union DEF IsAssets
<1>3. ASSUME NEW t \in DOMAIN b
      PROVE  IsBalance(b[t]) /\ Worth(b[t]) = Of(in, t) - Of(out, t)
  <2> DEFINE a == Plus(Balanced, Of(in, t))
  <2>1. Of(in, t) \in Nat /\ Of(out, t) \in Nat
    BY OfNat
  <2>2. IsBalance(a) /\ Worth(a) = 0 + Of(in, t)
    BY <2>1, BalancedFacts, PlusAdds
  <2>3. b[t] = Minus(a, Of(out, t))
    BY <1>1
  <2> HIDE DEF a
  <2>4. IsBalance(b[t]) /\ Worth(b[t]) = Worth(a) - Of(out, t)
    BY <2>1, <2>2, <2>3, MinusSubtracts
  <2>5. QED
    BY <2>1, <2>2, <2>4
<1>4. \A t : t \notin DOMAIN b => Of(in, t) = 0 /\ Of(out, t) = 0
  BY <1>1 DEF Of
<1>5. QED
  BY <1>2, <1>3, <1>4 DEF b

(* Inputs and outputs that have the same of every token, the fee apart.    *)
LEMMA BalancedWhen ==
  ASSUME NEW in \in Nat, NEW ina, IsAssets(ina), NEW out \in Nat, NEW outa, IsAssets(outa),
         NEW fee \in Nat, in = out + fee, \A t : t # Main => Of(ina, t) = Of(outa, t)
  PROVE  /\ InBalance(MainBalance(in, out, fee))
         /\ AreBalanced(AssetBalance(ina, outa))
<1>1. InBalance(MainBalance(in, out, fee))
  BY MainBalanceFacts, SideOfWorth
<1> DEFINE b == AssetBalance(ina, outa)
<1>2. /\ Main \notin DOMAIN b
      /\ \A t \in DOMAIN b : IsBalance(b[t]) /\ Worth(b[t]) = Of(ina, t) - Of(outa, t)
  BY AssetBalanceFacts
<1> HIDE DEF b
<1>3. ASSUME NEW t \in DOMAIN b
      PROVE  InBalance(b[t])
  <2>1. t # Main /\ Of(ina, t) = Of(outa, t) /\ Of(outa, t) \in Nat
    BY <1>2, OfNat
  <2>2. QED
    BY <1>2, <2>1, SideOfWorth
<1>4. QED
  BY <1>1, <1>3 DEF AreBalanced, b

(* The same of amounts that were added up, and of lists.                   *)
LEMMA AmountsBalance ==
  ASSUME NEW in \in Nat, NEW ina, IsAssets(ina), NEW out \in Nat, NEW outa, IsAssets(outa),
         NEW fee \in Nat,
         \A t : Have(in, ina, t) = Have(out, outa, t) + (IF t = Main THEN fee ELSE 0)
  PROVE  /\ InBalance(MainBalance(in, out, fee))
         /\ AreBalanced(AssetBalance(ina, outa))
<1>1. in = out + fee
  BY DEF Have
<1>2. ASSUME NEW t, t # Main
      PROVE  Of(ina, t) = Of(outa, t)
  <2>1. Of(outa, t) \in Nat
    BY OfNat
  <2>2. QED
    BY <1>2, <2>1 DEF Have
<1>3. QED
  BY <1>1, <1>2, BalancedWhen

LEMMA ListsBalanceWhen ==
  ASSUME NEW ins, AreOutputs(ins), NEW outs, AreOutputs(outs), NEW fee \in Nat,
         \A t : Holds(ins, t) = Holds(outs, t) + (IF t = Main THEN fee ELSE 0)
  PROVE  ListsBalance(ins, outs, fee)
<1>1. /\ IsAssets(AssetsOf(ins)) /\ MainOf(ins) \in Nat
      /\ \A t : Have(MainOf(ins), AssetsOf(ins), t) = Holds(ins, t)
  BY OutputsHave
<1>2. /\ IsAssets(AssetsOf(outs)) /\ MainOf(outs) \in Nat
      /\ \A t : Have(MainOf(outs), AssetsOf(outs), t) = Holds(outs, t)
  BY OutputsHave
<1>3. QED
  BY <1>1, <1>2, AmountsBalance DEF ListsBalance

-----------------------------------------------------------------------------
(* How a step of a call keeps the invariant.                               *)

(* the body of ChoiceIsAPartition                                          *)
ChoiceStep ==
  call # NoCall /\ result'.is = "selected"
    => LET chosen == Range(result'.chosen) IN
       /\ IsInjective(result'.chosen)
       /\ chosen \subseteq call.given
       /\ NowAvailable = call.given \ chosen

(* the parts of the invariant that most steps leave alone                  *)
RestOk ==
  /\ store' = store /\ fresh' = fresh
  /\ GoodStore(available') /\ RandomOk(random') /\ EstimatorOk(estimator')

LEMMA NoneSelected ==
  /\ NoResult.is # "selected" /\ Failed.is # "selected" /\ Panicked.is # "selected"
  /\ NoCall.algo = "none"
BY DEF NoResult, Failed, Panicked, NoCall

LEMMA GoesOn ==
  ASSUME IInv, RestOk, CallOk(call', Owned, random'), result' = NoResult
  PROVE  IInv' /\ ChoiceStep
<1>1. Owned' = Owned
  BY DEF RestOk, Owned
<1>2. StoreOk'
  BY <1>1 DEF IInv, StoreOk, RestOk
<1>3. IInv'
  BY <1>1, <1>2 DEF IInv, RestOk
<1>4. QED
  BY <1>3, NoneSelected DEF ChoiceStep

LEMMA Ends ==
  ASSUME IInv, RestOk, call' = NoCall, result' \in {Failed, Panicked}
  PROVE  IInv' /\ ChoiceStep
<1>1. Owned' = Owned
  BY DEF RestOk, Owned
<1>2. StoreOk'
  BY <1>1 DEF IInv, StoreOk, RestOk
<1>3. IInv'
  BY <1>1, <1>2 DEF IInv, RestOk, CallOk
<1>4. QED
  BY <1>3, NoneSelected DEF ChoiceStep

LEMMA Returns ==
  ASSUME IInv, RestOk, call' = NoCall, ResultOk(result', Owned, estimator')
  PROVE  IInv'
<1>1. Owned' = Owned
  BY DEF RestOk, Owned
<1>2. StoreOk'
  BY <1>1 DEF IInv, StoreOk, RestOk
<1>3. IInv'
  BY <1>1, <1>2 DEF IInv, RestOk, CallOk
<1>4. QED
  BY <1>3

-----------------------------------------------------------------------------
(* Setups, and taking an output out of the store of a call.                *)

LEMMA EnumeratesRange ==
  ASSUME NEW S, NEW e \in Seq(S), IsInjective(e)
  PROVE  Enumerates(e, Range(e)) /\ Range(e) \subseteq S /\ IsFiniteSet(Range(e))
<1>1. DOMAIN e = 1..Len(e) /\ Len(e) \in Nat /\ \A k \in DOMAIN e : e[k] \in S
  OBVIOUS
<1>2. e = [k \in 1..Len(e) |-> e[k]]
  OBVIOUS
<1>3. e \in [1..Len(e) -> Range(e)]
  BY <1>1, <1>2 DEF Range
<1>4. e \in Seq(Range(e))
  BY <1>1, <1>3
<1>5. IsFiniteSet(Range(e))
  <2>1. IsFiniteSet(1..Len(e))
    BY <1>1, FS_Interval
  <2>2. e \in Surjection(1..Len(e), Range(e))
    BY <1>1, <1>3 DEF Surjection, Range
  <2>3. QED
    BY <2>1, <2>2, FS_Surjection
<1>6. QED
  BY <1>1, <1>4, <1>5 DEF Enumerates, Range

LEMMA SetupFacts ==
  ASSUME NEW own, \A u \in own : IsOutput(u), NEW setup, SetupOk(setup, own)
  PROVE  /\ AreOutputs(setup.fixedIn) /\ AreOutputs(setup.fixedOut)
         /\ Range(setup.fixedIn) \subseteq own
         /\ setup.inMain \in Nat /\ IsAssets(setup.inAssets)
         /\ setup.outMain \in Nat /\ IsAssets(setup.outAssets)
         /\ \A t : /\ Have(setup.inMain, setup.inAssets, t) = Holds(setup.fixedIn, t)
                   /\ Have(setup.outMain, setup.outAssets, t) = Holds(setup.fixedOut, t)
<1>1. setup.fixedIn \in Seq(own)
  BY DEF SetupOk
<1>2. AreOutputs(setup.fixedIn) /\ AreOutputs(setup.fixedOut)
  BY <1>1, OutputsIn DEF SetupOk
<1>3. Range(setup.fixedIn) \subseteq own
  BY <1>1 DEF Range
<1>4. QED
  BY <1>2, <1>3, OutputsHave DEF SetupOk

LEMMA AppendIn ==
  ASSUME NEW S, NEW s \in Seq(S), NEW x \in S
  PROVE  Append(s, x) \in Seq(S)
OBVIOUS

(* d is c with the output u taken out of the store                         *)
Takes(c, u, d) ==
  /\ u \in c.utxos.utxos.set
  /\ d.setup = c.setup /\ d.given = c.given
  /\ d.utxos = RemoveUtxo(c.utxos, u) /\ d.chosen = Append(c.chosen, u)

LEMMA TakeOne ==
  ASSUME NEW own, \A u \in own : IsOutput(u), NEW c, TakenOk(c, own),
         NEW u, NEW d, Takes(c, u, d)
  PROVE  /\ TakenOk(d, own) /\ IsOutput(u)
         /\ \A t : Holds(d.chosen, t) = Holds(c.chosen, t) + In(u, t)
<1>1. /\ c.chosen \in Seq(c.given) /\ IsInjective(c.chosen) /\ GoodStore(c.utxos)
      /\ c.utxos.utxos.set = c.given \ Range(c.chosen)
      /\ c.given \subseteq own \ Range(c.setup.fixedIn)
  BY DEF TakenOk
<1>0. /\ u \in c.utxos.utxos.set
      /\ d.setup = c.setup /\ d.given = c.given
      /\ d.utxos = RemoveUtxo(c.utxos, u) /\ d.chosen = Append(c.chosen, u)
  BY DEF Takes
<1>2. IsOutput(u) /\ u \in c.given /\ u \notin Range(c.chosen)
  BY <1>0, <1>1
<1>3. Enumerates(c.chosen, Range(c.chosen))
  BY <1>1, EnumeratesRange
<1>4. Enumerates(d.chosen, Range(c.chosen) \cup {u})
  BY <1>0, <1>2, <1>3, AppendNew
<1>5. IsInjective(d.chosen) /\ Range(d.chosen) = Range(c.chosen) \cup {u}
  BY <1>4 DEF Enumerates, Range
<1>6. d.chosen \in Seq(c.given)
  BY <1>0, <1>1, <1>2, AppendIn
<1>7. GoodStore(d.utxos) /\ d.utxos.utxos.set = c.utxos.utxos.set \ {u}
  BY <1>0, <1>1, RemoveKeepsIndexes
<1>8. TakenOk(d, own)
  BY <1>0, <1>1, <1>5, <1>6, <1>7 DEF TakenOk
<1>9. AreOutputs(c.chosen)
  BY <1>1, OutputsIn
<1>10. QED
  BY <1>0, <1>2, <1>8, <1>9, AppendFacts

(* The inputs of the result are those that were fixed and then those that  *)
(* were chosen.                                                            *)
LEMMA FixedThenChosen ==
  ASSUME NEW own, \A u \in own : IsOutput(u),
         NEW r, r.fixedIn \in Seq(own), IsInjective(r.fixedIn),
         r.chosen \in Seq(own), IsInjective(r.chosen),
         Range(r.chosen) \cap Range(r.fixedIn) = {}
  PROVE  /\ InputsOf(r) \in Seq(own) /\ IsInjective(InputsOf(r)) /\ AreOutputs(InputsOf(r))
         /\ \A t : Holds(InputsOf(r), t) = Holds(r.fixedIn, t) + Holds(r.chosen, t)
<1>1. Enumerates(r.fixedIn, Range(r.fixedIn)) /\ Enumerates(r.chosen, Range(r.chosen))
  BY EnumeratesRange
<1>2. Enumerates(InputsOf(r), Range(r.fixedIn) \cup Range(r.chosen))
  BY <1>1, JoinTwo DEF InputsOf
<1>3. InputsOf(r) \in Seq(own) /\ IsInjective(InputsOf(r))
  BY <1>2 DEF Enumerates, InputsOf
<1>4. AreOutputs(r.fixedIn) /\ AreOutputs(r.chosen)
  BY OutputsIn
<1>5. QED
  BY <1>3, <1>4, ConcatFacts DEF InputsOf

LEMMA TakenReturns ==
  ASSUME NEW own, \A u \in own : IsOutput(u), NEW c, TakenOk(c, own),
         NEW r, r.fixedIn = c.setup.fixedIn, r.fixedOut = c.setup.fixedOut,
         r.chosen = c.chosen
  PROVE  /\ InputsOf(r) \in Seq(own) /\ IsInjective(InputsOf(r)) /\ AreOutputs(InputsOf(r))
         /\ AreOutputs(r.fixedOut)
         /\ \A t : Holds(InputsOf(r), t) = Holds(c.setup.fixedIn, t) + Holds(c.chosen, t)
         /\ IsInjective(r.chosen) /\ Range(r.chosen) \subseteq c.given
         /\ c.utxos.utxos.set = c.given \ Range(r.chosen)
<1>1. /\ c.setup.fixedIn \in Seq(own) /\ IsInjective(c.setup.fixedIn)
      /\ AreOutputs(c.setup.fixedOut)
      /\ c.chosen \in Seq(c.given) /\ IsInjective(c.chosen)
      /\ c.utxos.utxos.set = c.given \ Range(c.chosen)
      /\ c.given \subseteq own \ Range(c.setup.fixedIn)
  BY DEF TakenOk, SetupOk
<1>2. Range(c.chosen) \subseteq c.given
  BY <1>1 DEF Range
<1>3. c.chosen \in Seq(own)
  BY <1>1
<1>4. Range(r.chosen) \cap Range(r.fixedIn) = {}
  BY <1>1, <1>2
<1>5. QED
  BY <1>1, <1>2, <1>3, <1>4, FixedThenChosen

-----------------------------------------------------------------------------
(* LargestFirst.                                                           *)

LEMMA LargestIn ==
  ASSUME NEW s, NEW t, NEW W
  PROVE  Largest(s, t, W) \subseteq W
BY DEF Largest, FirstOrderedRev

LEMMA OwnedFacts == ASSUME IInv PROVE \A u \in Owned : IsOutput(u)
BY DEF IInv, StoreOk, OwnedOk

LEMMA LargestCall ==
  ASSUME IInv, call.algo = "largest"
  PROVE  LargestOk(call, Owned) /\ call # NoCall /\ result = NoResult
BY NoneSelected DEF IInv, CallOk, RandomCallOk, ThermostatOk

LEMMA LfBeginOk ==
  ASSUME NEW own, \A u \in own : IsOutput(u), NEW setup, SetupOk(setup, own),
         NEW utxos, GoodStore(utxos), utxos.utxos.set \subseteq own \ Range(setup.fixedIn),
         NEW e
  PROVE  LargestOk(LfBegin(setup, utxos, e), own)
<1> DEFINE c == LfBegin(setup, utxos, e)
<1>1. /\ c.algo = "largest" /\ LfFields \subseteq DOMAIN c
      /\ c.setup = setup /\ c.given = utxos.utxos.set /\ c.utxos = utxos
      /\ c.chosen = <<>> /\ c.inMain = setup.inMain /\ c.inAssets = setup.inAssets
      /\ c.todo = DOMAIN setup.outAssets
  BY DEF LfBegin, LfFields
<1> HIDE DEF c
<1>2. Range(<<>>) = {} /\ IsInjective(<<>>) /\ <<>> \in Seq(c.given)
  BY DEF Range, IsInjective
<1>3. TakenOk(c, own)
  BY <1>1, <1>2 DEF TakenOk
<1>4. /\ IsAssets(c.inAssets)
      /\ \A t : Have(c.inMain, c.inAssets, t) = Holds(c.setup.fixedIn, t) + Holds(c.chosen, t)
  <2>1. IsAssets(setup.inAssets) /\ AreOutputs(setup.fixedIn)
    BY SetupFacts
  <2>2. \A t : /\ Have(setup.inMain, setup.inAssets, t) = Holds(setup.fixedIn, t)
               /\ Holds(setup.fixedIn, t) \in Nat /\ Holds(<<>>, t) = 0
    BY <2>1, SetupFacts, OutputsFacts, NoOutputs
  <2>3. QED
    BY <1>1, <2>1, <2>2
<1>5. LargestOk(c, own)
  BY <1>1, <1>3, <1>4 DEF LargestOk
<1>6. QED
  BY <1>5 DEF c

LEMMA LfNextTokenKeeps ==
  ASSUME IInv, LfNextToken, UNCHANGED <<store, payments, fresh>>
  PROVE  IInv' /\ ChoiceStep
<1> DEFINE c == call
           d == call'
<1>1. LargestOk(c, Owned) /\ result = NoResult /\ c.algo = "largest"
  BY LargestCall DEF LfNextToken
<1>2. PICK t \in c.todo :
        d = [c EXCEPT !.token = t, !.todo = @ \ {t}, !.inAssets = Together(@, Single(t, 0))]
  BY DEF LfNextToken
<1>3. LfFields \subseteq DOMAIN c
  BY <1>1 DEF LargestOk
<1>4. /\ DOMAIN d = DOMAIN c /\ d.algo = c.algo /\ d.setup = c.setup /\ d.given = c.given
      /\ d.utxos = c.utxos /\ d.chosen = c.chosen /\ d.inMain = c.inMain
      /\ d.todo = c.todo \ {t} /\ d.inAssets = Together(c.inAssets, Single(t, 0))
  BY <1>2, <1>3 DEF LfFields
<1>5. t # Main
  <2>1. IsAssets(c.setup.outAssets)
    BY <1>1, OwnedFacts, SetupFacts DEF LargestOk, TakenOk
  <2>2. QED
    BY <1>1, <2>1 DEF LargestOk, IsAssets
<1> HIDE DEF c, d
<1>6. TakenOk(d, Owned)
  BY <1>1, <1>4 DEF LargestOk, TakenOk
<1>7. IsAssets(c.inAssets) /\ IsAssets(Single(t, 0)) /\ \A s : Of(Single(t, 0), s) = 0
  BY <1>1, <1>5, SingleFacts DEF LargestOk
<1>8. IsAssets(d.inAssets) /\ \A s : Of(d.inAssets, s) = Of(c.inAssets, s)
  <2>1. /\ IsAssets(d.inAssets)
        /\ \A s : Of(d.inAssets, s) = Of(c.inAssets, s) + Of(Single(t, 0), s)
    BY <1>4, <1>7, TogetherFacts
  <2>2. \A s : Of(c.inAssets, s) \in Nat
    BY <1>7, OfNat
  <2>3. QED
    BY <1>7, <2>1, <2>2
<1>9. LargestOk(d, Owned)
  BY <1>1, <1>4, <1>6, <1>8 DEF LargestOk, Have
<1>10. RestOk /\ result' = NoResult
  BY <1>1 DEF LfNextToken, RestOk, IInv, StoreOk
<1>11. QED
  BY <1>9, <1>10, GoesOn DEF CallOk, d

LEMMA LfSelectKeeps ==
  ASSUME IInv, LfSelect, UNCHANGED <<store, payments, fresh>>
  PROVE  IInv' /\ ChoiceStep
<1> DEFINE c == call
           d == call'
<1>1. LargestOk(c, Owned) /\ result = NoResult /\ c.algo = "largest"
  BY LargestCall DEF LfSelect
<1>2. PICK u \in c.utxos.utxos.set : d = Selected(c, u)
  BY LargestIn DEF LfSelect
<1>3. LfFields \subseteq DOMAIN c
  BY <1>1 DEF LargestOk
<1>4. /\ DOMAIN d = DOMAIN c /\ d.algo = c.algo /\ d.setup = c.setup /\ d.given = c.given
      /\ d.utxos = RemoveUtxo(c.utxos, u) /\ d.chosen = Append(c.chosen, u)
      /\ d.inMain = c.inMain + u.value /\ d.todo = c.todo
      /\ d.inAssets = Together(c.inAssets, u.assets)
  BY <1>2, <1>3 DEF LfFields, Selected
<1> HIDE DEF c, d
<1>5. /\ TakenOk(d, Owned) /\ IsOutput(u)
      /\ \A t : Holds(d.chosen, t) = Holds(c.chosen, t) + In(u, t)
  <2>1. TakenOk(c, Owned) /\ \A w \in Owned : IsOutput(w)
    BY <1>1, OwnedFacts DEF LargestOk
  <2>2. Takes(c, u, d)
    BY <1>2, <1>4 DEF Takes
  <2>3. QED
    BY <2>1, <2>2, TakeOne
<1>6. /\ IsAssets(c.inAssets) /\ AreOutputs(c.setup.fixedIn) /\ AreOutputs(c.chosen)
      /\ \A t : Have(c.inMain, c.inAssets, t) = Holds(c.setup.fixedIn, t) + Holds(c.chosen, t)
  <2>1. TakenOk(c, Owned)
    BY <1>1 DEF LargestOk
  <2>2. c.chosen \in Seq(c.given) /\ c.given \subseteq Owned
    BY <2>1 DEF TakenOk
  <2>3. AreOutputs(c.chosen)
    BY <2>2, OwnedFacts, OutputsIn
  <2>4. AreOutputs(c.setup.fixedIn)
    BY <2>1, OwnedFacts, SetupFacts DEF TakenOk
  <2>5. QED
    BY <1>1, <2>3, <2>4 DEF LargestOk
<1>7. /\ IsAssets(d.inAssets)
      /\ \A t : Of(d.inAssets, t) = Of(c.inAssets, t) + Of(u.assets, t)
  BY <1>4, <1>5, <1>6, TogetherFacts DEF IsOutput
<1>8. \A t : Have(d.inMain, d.inAssets, t) = Holds(d.setup.fixedIn, t) + Holds(d.chosen, t)
  <2> SUFFICES ASSUME NEW t
               PROVE  Have(d.inMain, d.inAssets, t) = Holds(d.setup.fixedIn, t) + Holds(d.chosen, t)
    OBVIOUS
  <2>1. Holds(c.setup.fixedIn, t) \in Nat /\ Holds(c.chosen, t) \in Nat /\ In(u, t) \in Nat
    BY <1>5, <1>6, OutputsFacts, InNat
  <2>2. Have(d.inMain, d.inAssets, t) = Have(c.inMain, c.inAssets, t) + In(u, t)
    BY <1>4, <1>7 DEF Have, In
  <2>3. Have(c.inMain, c.inAssets, t) = Holds(c.setup.fixedIn, t) + Holds(c.chosen, t)
    BY <1>6
  <2>4. Holds(d.chosen, t) = Holds(c.chosen, t) + In(u, t) /\ d.setup = c.setup
    BY <1>4, <1>5
  <2>5. QED
    BY <2>1, <2>2, <2>3, <2>4
<1>9. LargestOk(d, Owned)
  BY <1>1, <1>4, <1>5, <1>7, <1>8 DEF LargestOk
<1>10. RestOk /\ result' = NoResult
  BY <1>1, AddInputsFacts DEF LfSelect, RestOk, IInv, StoreOk
<1>11. QED
  BY <1>9, <1>10, GoesOn DEF CallOk, d

LEMMA LfNoMoreInputKeeps ==
  ASSUME IInv, LfNoMoreInput, UNCHANGED <<store, payments, fresh>>
  PROVE  IInv' /\ ChoiceStep
<1>1. RestOk /\ call' = NoCall /\ result' = Failed
  BY DEF LfNoMoreInput, Fail, RestOk, IInv, StoreOk
<1>2. QED
  BY <1>1, Ends

LEMMA LfReturnKeeps ==
  ASSUME IInv, LfReturn, UNCHANGED <<store, payments, fresh>>
  PROVE  IInv' /\ ChoiceStep
<1> DEFINE c == call
           r == result'
<1>1. LargestOk(c, Owned) /\ c.algo = "largest" /\ TakenOk(c, Owned)
  BY LargestCall DEF LfReturn, LargestOk
<1>2. /\ r.is = "selected" /\ r.by = "largest"
      /\ r.fixedIn = c.setup.fixedIn /\ r.fixedOut = c.setup.fixedOut
      /\ r.chosen = c.chosen /\ r.inMain = c.inMain /\ r.inAssets = c.inAssets
      /\ r.outMain = c.setup.outMain /\ r.outAssets = c.setup.outAssets
      /\ r.again = <<>> /\ r.lost = <<>>
  BY DEF LfReturn, Return, Merged
<1>3. call' = NoCall /\ available' = c.utxos
  BY DEF LfReturn, Return
<1> HIDE DEF c, r
<1>4. /\ InputsOf(r) \in Seq(Owned) /\ IsInjective(InputsOf(r)) /\ AreOutputs(r.fixedOut)
      /\ \A t : Holds(InputsOf(r), t) = Holds(c.setup.fixedIn, t) + Holds(c.chosen, t)
      /\ IsInjective(r.chosen) /\ Range(r.chosen) \subseteq c.given
      /\ c.utxos.utxos.set = c.given \ Range(r.chosen)
  BY <1>1, <1>2, OwnedFacts, TakenReturns
<1>5. Unbalanced(r)
  <2>1. /\ IsAssets(c.inAssets)
        /\ \A t : Have(c.inMain, c.inAssets, t) = Holds(c.setup.fixedIn, t) + Holds(c.chosen, t)
    BY <1>1 DEF LargestOk
  <2>2. c.setup.outMain = MainOf(c.setup.fixedOut) /\ c.setup.outAssets = AssetsOf(c.setup.fixedOut)
    BY <1>1 DEF TakenOk, SetupOk
  <2>3. \A t : Holds(r.again, t) = 0 /\ Holds(InputsOf(r), t) \in Nat
    <3>1. AreOutputs(InputsOf(r))
      BY <1>4, OwnedFacts, OutputsIn
    <3>2. QED
      BY <1>2, <3>1, NoOutputs, OutputsFacts
  <2>4. QED
    BY <1>2, <1>4, <2>1, <2>2, <2>3 DEF Unbalanced
<1>6. ResultOk(r, Owned, estimator')
  BY <1>2, <1>4, <1>5, NoOutputs DEF ResultOk, AgainOk
<1>7. RestOk
  BY <1>1, <1>3 DEF LfReturn, RestOk, IInv, StoreOk, TakenOk
<1>8. IInv'
  BY <1>3, <1>6, <1>7, Returns DEF r
<1>9. ChoiceStep
  BY <1>1, <1>3, <1>4 DEF ChoiceStep, NowAvailable, c, r
<1>10. QED
  BY <1>8, <1>9

-----------------------------------------------------------------------------
(* RandomImprove: the indices that are associated with the outputs.        *)

(* b is a with one more index for the output o                             *)
Associates(a, o, i, b) ==
  /\ AreDisjoint(a, DOMAIN a) /\ i \in Nat /\ i \notin AllOf(a)
  /\ b = Put(a, o, Append(IF o \in DOMAIN a THEN a[o] ELSE <<>>, i))

HasOneMore(a, o, i, b) ==
  /\ DOMAIN b = DOMAIN a \cup {o} /\ AreDisjoint(b, DOMAIN b)
  /\ AllOf(b) = AllOf(a) \cup {i}

LEMMA AssociateOne ==
  ASSUME NEW a, NEW o, NEW i, NEW b, Associates(a, o, i, b)
  PROVE  HasOneMore(a, o, i, b)
<1> DEFINE l == IF o \in DOMAIN a THEN a[o] ELSE <<>>
           e == Append(l, i)
           n == Len(l)
<1>0. /\ AreDisjoint(a, DOMAIN a) /\ i \in Nat /\ i \notin AllOf(a)
      /\ b = Put(a, o, e)
  BY DEF Associates
<1>1. /\ DOMAIN b = DOMAIN a \cup {o} /\ b[o] = e
      /\ \A p \in DOMAIN a : p # o => b[p] = a[p]
  BY <1>0 DEF Put
<1>2. l \in Seq(Nat)
  BY <1>0 DEF AreDisjoint
<1>3. /\ e \in Seq(Nat) /\ n \in Nat /\ DOMAIN l = 1..n /\ DOMAIN e = 1..n + 1
      /\ (\A k \in 1..n : e[k] = l[k]) /\ e[n + 1] = i
  BY <1>0, <1>2
<1>4. /\ \A p \in DOMAIN a : a[p] \in Seq(Nat)
      /\ \A p, q \in DOMAIN a : \A k \in DOMAIN a[p] : \A m \in DOMAIN a[q] :
           a[p][k] = a[q][m] => p = q /\ k = m
  BY <1>0 DEF AreDisjoint
<1>5. \A p \in DOMAIN a : \A k \in DOMAIN a[p] : a[p][k] # i
  BY <1>0 DEF AllOf, Range
<1>6. ~(o \in DOMAIN a) => n = 0
  OBVIOUS
<1>7. o \in DOMAIN a => l = a[o]
  OBVIOUS
<1> HIDE DEF e, n, l
<1>8. \A k \in 1..n + 1 : k \in 1..n \/ k = n + 1
  BY <1>3
<1>9. \A k \in 1..n : o \in DOMAIN a /\ k \in DOMAIN a[o] /\ e[k] = a[o][k]
  BY <1>3, <1>6, <1>7
<1>10. ASSUME NEW p \in DOMAIN b, NEW q \in DOMAIN b, NEW k \in DOMAIN b[p],
              NEW m \in DOMAIN b[q], b[p][k] = b[q][m]
       PROVE  p = q /\ k = m
  <2>1. CASE p = o /\ q = o
    <3>1. k \in 1..n + 1 /\ m \in 1..n + 1 /\ e[k] = e[m]
      BY <1>1, <1>3, <1>10, <2>1
    <3>2. k = m
      BY <1>3, <1>4, <1>5, <1>8, <1>9, <3>1
    <3>3. QED
      BY <2>1, <3>2
  <2>2. CASE p = o /\ q # o
    <3>1. q \in DOMAIN a /\ m \in DOMAIN a[q] /\ e[k] = a[q][m] /\ k \in 1..n + 1
      BY <1>1, <1>3, <1>10, <2>2
    <3>2. QED
      BY <1>3, <1>4, <1>5, <1>8, <1>9, <2>2, <3>1
  <2>3. CASE p # o /\ q = o
    <3>1. p \in DOMAIN a /\ k \in DOMAIN a[p] /\ e[m] = a[p][k] /\ m \in 1..n + 1
      BY <1>1, <1>3, <1>10, <2>3
    <3>2. QED
      BY <1>3, <1>4, <1>5, <1>8, <1>9, <2>3, <3>1
  <2>4. CASE p # o /\ q # o
    BY <1>1, <1>4, <1>10, <2>4
  <2>5. QED
    BY <2>1, <2>2, <2>3, <2>4
<1>11. \A p \in DOMAIN b : b[p] \in Seq(Nat)
  BY <1>1, <1>3, <1>4
<1>12. AreDisjoint(b, DOMAIN b)
  BY <1>10, <1>11 DEF AreDisjoint
<1>13. Range(e) = Range(l) \cup {i}
  BY <1>3, <1>8 DEF Range
<1>14. ASSUME NEW x \in AllOf(b)
       PROVE  x \in AllOf(a) \cup {i}
  <2>1. PICK p \in DOMAIN b : x \in Range(b[p])
    BY DEF AllOf
  <2>2. CASE p = o
    <3>1. PICK k \in 1..n + 1 : e[k] = x
      BY <1>1, <1>3, <2>1, <2>2 DEF Range
    <3>2. QED
      BY <1>3, <1>8, <1>9, <3>1 DEF AllOf, Range
  <2>3. CASE p # o
    BY <1>1, <2>1, <2>3 DEF AllOf
  <2>4. QED
    BY <2>2, <2>3
<1>15. ASSUME NEW x \in AllOf(a) \cup {i}
       PROVE  x \in AllOf(b)
  <2>1. CASE x = i
    BY <1>1, <1>13, <2>1 DEF AllOf
  <2>2. CASE x # i
    <3>1. PICK p \in DOMAIN a : x \in Range(a[p])
      BY <2>2 DEF AllOf
    <3>2. CASE p = o
      BY <1>1, <1>7, <1>13, <3>1, <3>2 DEF AllOf
    <3>3. CASE p # o
      BY <1>1, <3>1, <3>3 DEF AllOf
    <3>4. QED
      BY <3>2, <3>3
  <2>3. QED
    BY <2>1, <2>2
<1>16. QED
  BY <1>1, <1>12, <1>14, <1>15 DEF HasOneMore

(* b is a with the index j in place of the kth one of the output o         *)
Replaces(a, o, k, j, b) ==
  /\ AreDisjoint(a, DOMAIN a) /\ o \in DOMAIN a /\ k \in DOMAIN a[o]
  /\ j \in Nat /\ j \notin AllOf(a)
  /\ b = [a EXCEPT ![o][k] = j]

HasReplaced(a, i, j, b) ==
  /\ DOMAIN b = DOMAIN a /\ AreDisjoint(b, DOMAIN b)
  /\ AllOf(b) = (AllOf(a) \ {i}) \cup {j}
  /\ i \in AllOf(a) /\ i \in Nat

LEMMA ReplaceOne ==
  ASSUME NEW a, NEW o, NEW k, NEW j, NEW b, Replaces(a, o, k, j, b)
  PROVE  HasReplaced(a, a[o][k], j, b)
<1>0. /\ AreDisjoint(a, DOMAIN a) /\ o \in DOMAIN a /\ k \in DOMAIN a[o]
      /\ j \in Nat /\ j \notin AllOf(a)
      /\ b = [a EXCEPT ![o][k] = j]
  BY DEF Replaces
<1>1. /\ DOMAIN b = DOMAIN a /\ b[o] = [a[o] EXCEPT ![k] = j]
      /\ \A p \in DOMAIN a : p # o => b[p] = a[p]
  BY <1>0
<1>2. /\ \A p \in DOMAIN a : a[p] \in Seq(Nat)
      /\ \A p, q \in DOMAIN a : \A m \in DOMAIN a[p] : \A n \in DOMAIN a[q] :
           a[p][m] = a[q][n] => p = q /\ m = n
  BY <1>0 DEF AreDisjoint
<1>3. \A p \in DOMAIN a : \A m \in DOMAIN a[p] : a[p][m] # j
  BY <1>0 DEF AllOf, Range
<1>4. b[o] \in Seq(Nat)
  BY <1>0, <1>1, <1>2
<1>5. \A p \in DOMAIN a : /\ DOMAIN b[p] = DOMAIN a[p]
                          /\ \A m \in DOMAIN a[p] :
                               b[p][m] = IF p = o /\ m = k THEN j ELSE a[p][m]
  BY <1>0, <1>1
<1>6. \A p, q \in DOMAIN b : \A m \in DOMAIN b[p] : \A n \in DOMAIN b[q] :
        b[p][m] = b[q][n] => p = q /\ m = n
  BY <1>0, <1>1, <1>2, <1>3, <1>5
<1>7. \A p \in DOMAIN b : b[p] \in Seq(Nat)
  BY <1>1, <1>2, <1>4
<1>8. AreDisjoint(b, DOMAIN b)
  BY <1>6, <1>7 DEF AreDisjoint
<1>9. a[o][k] \in AllOf(a) /\ a[o][k] \in Nat
  BY <1>0, <1>2 DEF AllOf, Range
<1>10. ASSUME NEW x \in AllOf(b)
       PROVE  x \in (AllOf(a) \ {a[o][k]}) \cup {j}
  <2>1. PICK p \in DOMAIN a : \E m \in DOMAIN a[p] : x = b[p][m]
    BY <1>1, <1>5 DEF AllOf, Range
  <2>2. PICK m \in DOMAIN a[p] : x = b[p][m]
    BY <2>1
  <2>3. CASE p = o /\ m = k
    BY <1>5, <2>2, <2>3
  <2>4. CASE ~(p = o /\ m = k)
    <3>1. x = a[p][m] /\ x # a[o][k]
      BY <1>0, <1>2, <1>5, <2>2, <2>4
    <3>2. x \in AllOf(a)
      BY <3>1 DEF AllOf, Range
    <3>3. QED
      BY <3>1, <3>2
  <2>5. QED
    BY <2>3, <2>4
<1>11. ASSUME NEW x \in (AllOf(a) \ {a[o][k]}) \cup {j}
       PROVE  x \in AllOf(b)
  <2>1. CASE x = j
    <3>1. b[o][k] = j /\ k \in DOMAIN b[o]
      BY <1>0, <1>5
    <3>2. QED
      BY <1>0, <1>1, <2>1, <3>1 DEF AllOf, Range
  <2>2. CASE x # j
    <3>1. PICK p \in DOMAIN a : \E m \in DOMAIN a[p] : x = a[p][m]
      BY <2>2 DEF AllOf, Range
    <3>2. PICK m \in DOMAIN a[p] : x = a[p][m]
      BY <3>1
    <3>3. x = b[p][m] /\ m \in DOMAIN b[p] /\ p \in DOMAIN b
      BY <1>1, <1>5, <1>11, <2>2, <3>2
    <3>4. QED
      BY <3>3 DEF AllOf, Range
  <2>3. QED
    BY <2>1, <2>2
<1>12. QED
  BY <1>1, <1>8, <1>9, <1>10, <1>11 DEF HasReplaced

-----------------------------------------------------------------------------
(* RandomImprove: its steps.                                               *)

LEMMA RandomCall ==
  ASSUME IInv, call.algo = "random"
  PROVE  RandomCallOk(call, Owned, random) /\ call # NoCall /\ result = NoResult
BY NoneSelected DEF IInv, CallOk, LargestOk, ThermostatOk

LEMMA WithIndices ==
  ASSUME NEW r, RandomOk(r), NEW I, I \subseteq Nat, IsFiniteSet(I),
         NEW s, s = [r EXCEPT !.indices = I]
  PROVE  RandomOk(s) /\ s.inputs = r.inputs /\ s.indices = I
<1>1. s.inputs = r.inputs /\ s.indices = I /\ DOMAIN s = DOMAIN r
  BY DEF RandomOk
<1>2. QED
  BY <1>1 DEF RandomOk

LEMMA InputIndices ==
  ASSUME NEW r, RandomOk(r)
  PROVE  DOMAIN r.inputs \subseteq Nat /\ IsFiniteSet(DOMAIN r.inputs)
<1>1. DOMAIN r.inputs = 1..Len(r.inputs) /\ Len(r.inputs) \in Nat
  BY DEF RandomOk
<1>2. QED
  BY <1>1, FS_Interval

(* what the steps of a phase leave alone                                   *)
SameCall(c, d) ==
  /\ DOMAIN c \subseteq DOMAIN d /\ d.algo = c.algo /\ d.setup = c.setup
  /\ d.given = c.given /\ d.chosen = c.chosen /\ d.inMain = c.inMain
  /\ d.inAssets = c.inAssets /\ d.again = c.again

LEMMA PhaseKeeps ==
  ASSUME NEW own, NEW c, NEW r, RandomCallOk(c, own, r), NEW d, SameCall(c, d),
         d.stage \in {"cover", "improve", "collect"},
         NEW s, s.inputs = r.inputs, PhaseOk(d, s), IndicesOk(d, s)
  PROVE  RandomCallOk(d, own, s)
BY DEF RandomCallOk, SameCall

(* a step of a phase that only goes from one output to another             *)
Turns(c, d) ==
  /\ SameCall(c, d) /\ c.stage # "phase" /\ d.stage \in {"cover", "improve", "collect"}
  /\ d.outputs = c.outputs /\ d.relevant = c.relevant /\ d.associated = c.associated
  /\ d.queue \subseteq c.outputs /\ d.at \in c.outputs \cup {0}
  /\ d.stage = "improve" => d.added \in Nat

LEMMA TurnKeeps ==
  ASSUME NEW own, NEW c, NEW r, RandomCallOk(c, own, r), NEW d, Turns(c, d)
  PROVE  RandomCallOk(d, own, r)
<1>1. PhaseOk(c, r) /\ IndicesOk(c, r)
  BY DEF RandomCallOk, Turns
<1>2. PhaseOk(d, r)
  BY <1>1 DEF PhaseOk, Turns, SameCall
<1>3. Assigned(d) = Assigned(c)
  BY DEF Assigned, Turns
<1>4. IndicesOk(d, r)
  BY <1>1, <1>3 DEF IndicesOk, Turns, SameCall
<1>5. QED
  BY <1>2, <1>4, PhaseKeeps DEF Turns

LEMMA Turn ==
  ASSUME IInv, call.algo = "random", Turns(call, call'),
         UNCHANGED <<available, random, estimator, result, store, payments, fresh>>
  PROVE  IInv' /\ ChoiceStep
<1>1. RandomCallOk(call, Owned, random) /\ result = NoResult
  BY RandomCall
<1>2. RandomCallOk(call', Owned, random')
  BY <1>1, TurnKeeps
<1>3. RestOk
  BY DEF RestOk, IInv, StoreOk
<1>4. QED
  BY <1>1, <1>2, <1>3, GoesOn DEF CallOk

LEMMA RiBeginOk ==
  ASSUME NEW own, \A u \in own : IsOutput(u), NEW setup, SetupOk(setup, own),
         NEW r, RandomOk(r), Range(r.inputs) \subseteq own \ Range(setup.fixedIn), NEW e
  PROVE  RandomCallOk(RiBegin(setup, r, e), own, r)
<1> DEFINE c == RiBegin(setup, r, e)
<1>1. /\ c.algo = "random" /\ RiFields \subseteq DOMAIN c /\ c.stage = "phase"
      /\ c.setup = setup /\ c.chosen = {} /\ c.inMain = setup.inMain
      /\ c.inAssets = setup.inAssets /\ Main \in c.todo /\ c.again = <<>>
      /\ c.given = {r.inputs[i] : i \in r.indices \cap 1..Len(r.inputs)}
  BY DEF RiBegin, RiFields
<1> HIDE DEF c
<1>2. Assigned(c) = {}
  BY <1>1 DEF Assigned
<1>3. DOMAIN r.inputs = 1..Len(r.inputs)
  BY DEF RandomOk
<1>4. IndicesOk(c, r)
  BY <1>1, <1>2, <1>3 DEF IndicesOk
<1>5. /\ IsAssets(c.inAssets) /\ AgainOk(c.again, c.setup.fixedOut)
      /\ \A t : Have(c.inMain, c.inAssets, t)
                  = Holds(c.setup.fixedIn, t) + HoldsAt(r.inputs, c.chosen, t)
                      + Holds(c.again, t)
  <2>1. IsAssets(setup.inAssets) /\ AreOutputs(setup.fixedIn)
    BY SetupFacts
  <2>2. \A t : /\ Have(setup.inMain, setup.inAssets, t) = Holds(setup.fixedIn, t)
               /\ Holds(setup.fixedIn, t) \in Nat
    BY <2>1, SetupFacts, OutputsFacts
  <2>3. \A t : HoldsAt(r.inputs, {}, t) = 0
    BY SumEmpty DEF HoldsAt
  <2>4. QED
    BY <1>1, <2>1, <2>2, <2>3, NoOutputs DEF AgainOk
<1>6. RandomCallOk(c, own, r)
  BY <1>1, <1>4, <1>5 DEF RandomCallOk
<1>7. QED
  BY <1>6 DEF c

LEMMA RiPhaseKeeps ==
  ASSUME IInv, RiPhase, UNCHANGED <<store, payments, fresh>>
  PROVE  IInv' /\ ChoiceStep
<1> DEFINE c == call
           d == call'
           r == random
<1>1. /\ RandomCallOk(c, Owned, r) /\ result = NoResult
      /\ c.algo = "random" /\ c.stage = "phase"
  BY RandomCall DEF RiPhase
<1>2. RestOk
  BY DEF RiPhase, RestOk, IInv, StoreOk
<1>3. CASE Panic
  BY <1>2, <1>3, Ends DEF Panic
<1>4. CASE ~Panic
  <2>1. PICK t : /\ \A i \in r.indices : IsThere(i)
                 /\ d = Merged([relevant   |-> {i \in random.indices :
                                                  Counts(random.inputs[i], t)},
                                queue      |-> {p \in DOMAIN Outputs : Counts(Outputs[p], t)},
                                outputs    |-> {p \in DOMAIN Outputs : Counts(Outputs[p], t)},
                                token      |-> t,
                                at         |-> 0,
                                added      |-> 0,
                                associated |-> <<>>],
                               [call EXCEPT !.todo = @ \ {t}, !.stage = "cover"])
                 /\ result' = result
    BY <1>4 DEF RiPhase
  <2>2. RiFields \subseteq DOMAIN c
    BY <1>1 DEF RandomCallOk
  <2>3. /\ SameCall(c, d) /\ d.stage = "cover" /\ PhaseFields \subseteq DOMAIN d
        /\ d.at = 0 /\ d.associated = <<>> /\ d.queue = d.outputs
        /\ d.relevant \subseteq r.indices /\ d.outputs \subseteq DOMAIN c.setup.fixedOut
    BY <2>1, <2>2 DEF Merged, SameCall, RiFields, PhaseFields, Outputs
  <2>4. r.indices \subseteq DOMAIN r.inputs
    <3>1. DOMAIN r.inputs = 1..Len(r.inputs)
      BY DEF IInv, RandomOk
    <3>2. QED
      BY <2>1, <3>1 DEF IsThere
  <2> HIDE DEF c, d, r
  <2>5. DOMAIN <<>> = {} /\ AllOf(<<>>) = {} /\ AreDisjoint(<<>>, {})
    BY DEF AllOf, AreDisjoint
  <2>6. PhaseOk(d, r)
    BY <2>3, <2>4, <2>5 DEF PhaseOk, SameCall
  <2>7. Assigned(d) = {} /\ Assigned(c) = {}
    BY <1>1, <2>3, <2>5 DEF Assigned
  <2>8. IndicesOk(d, r)
    BY <1>1, <2>3, <2>7 DEF RandomCallOk, IndicesOk, SameCall
  <2>9. RandomCallOk(d, Owned, r)
    BY <1>1, <2>3, <2>6, <2>8, PhaseKeeps
  <2>10. random' = random /\ result' = NoResult
    BY <1>1, <2>1 DEF RiPhase
  <2>11. QED
    BY <1>2, <2>9, <2>10, GoesOn DEF CallOk, d, r
<1>5. QED
  BY <1>3, <1>4

(* The fields of a call that is in a phase.                                *)
LEMMA InPhase ==
  ASSUME IInv, call.algo = "random", call.stage # "phase"
  PROVE  /\ RandomCallOk(call, Owned, random) /\ PhaseOk(call, random)
         /\ RiFields \cup PhaseFields \subseteq DOMAIN call /\ result = NoResult
         /\ IndicesOk(call, random) /\ Assigned(call) = AllOf(call.associated)
<1>1. RandomCallOk(call, Owned, random) /\ result = NoResult
  BY RandomCall
<1>2. PhaseOk(call, random) /\ IndicesOk(call, random)
  BY <1>1 DEF RandomCallOk
<1>3. QED
  BY <1>1, <1>2 DEF RandomCallOk, PhaseOk, Assigned

LEMMA RiNextOutputKeeps ==
  ASSUME IInv, RiNextOutput, UNCHANGED <<store, payments, fresh>>
  PROVE  IInv' /\ ChoiceStep
<1>1. PhaseOk(call, random) /\ RiFields \cup PhaseFields \subseteq DOMAIN call
  BY InPhase DEF RiNextOutput
<1>2. PICK p \in call.queue :
        call' = [call EXCEPT !.at = p, !.added = 0, !.queue = @ \ {p}]
  BY DEF RiNextOutput
<1>3. Turns(call, call')
  BY <1>1, <1>2 DEF RiNextOutput, Turns, SameCall, RiFields, PhaseFields, PhaseOk
<1>4. QED
  BY <1>3, Turn DEF RiNextOutput

LEMMA RiAllCoveredKeeps ==
  ASSUME IInv, RiAllCovered, UNCHANGED <<store, payments, fresh>>
  PROVE  IInv' /\ ChoiceStep
<1>1. PhaseOk(call, random) /\ RiFields \cup PhaseFields \subseteq DOMAIN call
  BY InPhase DEF RiAllCovered
<1>2. Turns(call, call')
  BY <1>1 DEF RiAllCovered, Turns, SameCall, RiFields, PhaseFields, PhaseOk
<1>3. QED
  BY <1>2, Turn DEF RiAllCovered

LEMMA RiAllImprovedKeeps ==
  ASSUME IInv, RiAllImproved, UNCHANGED <<store, payments, fresh>>
  PROVE  IInv' /\ ChoiceStep
<1>1. PhaseOk(call, random) /\ RiFields \cup PhaseFields \subseteq DOMAIN call
  BY InPhase DEF RiAllImproved
<1>2. Turns(call, call')
  BY <1>1 DEF RiAllImproved, Turns, SameCall, RiFields, PhaseFields, PhaseOk
<1>3. QED
  BY <1>2, Turn DEF RiAllImproved

LEMMA RiNextToImproveKeeps ==
  ASSUME IInv, RiNextToImprove, UNCHANGED <<store, payments, fresh>>
  PROVE  IInv' /\ ChoiceStep
<1>1. PhaseOk(call, random) /\ RiFields \cup PhaseFields \subseteq DOMAIN call
  BY InPhase DEF RiNextToImprove
<1>2. RestOk
  BY DEF RiNextToImprove, RestOk, IInv, StoreOk
<1>3. CASE Fail
  BY <1>2, <1>3, Ends DEF Fail
<1>4. CASE ~Fail
  <2>1. PICK p \in call.queue :
          /\ call' = [call EXCEPT !.at = p, !.added = 0, !.queue = @ \ {p}]
          /\ UNCHANGED result
    BY <1>4 DEF RiNextToImprove
  <2>2. Turns(call, call')
    BY <1>1, <2>1 DEF RiNextToImprove, Turns, SameCall, RiFields, PhaseFields, PhaseOk
  <2>3. QED
    BY <2>1, <2>2, Turn DEF RiNextToImprove
<1>5. QED
  BY <1>3, <1>4

LEMMA RiInsufficientKeeps ==
  ASSUME IInv, RiInsufficient, UNCHANGED <<store, payments, fresh>>
  PROVE  IInv' /\ ChoiceStep
<1>1. RestOk /\ call' = NoCall /\ result' = Failed
  BY DEF RiInsufficient, Fail, RestOk, IInv, StoreOk
<1>2. QED
  BY <1>1, Ends

LEMMA RiTakeKeeps ==
  ASSUME IInv, RiTake, UNCHANGED <<store, payments, fresh>>
  PROVE  IInv' /\ ChoiceStep
<1> DEFINE c == call
           d == call'
           r == random
           s == random'
           a == c.associated
           o == c.setup.fixedOut[c.at]
           l == IF o \in DOMAIN a THEN a[o] ELSE <<>>
<1>1. /\ RandomCallOk(c, Owned, r) /\ PhaseOk(c, r) /\ IndicesOk(c, r)
      /\ RiFields \cup PhaseFields \subseteq DOMAIN c /\ result = NoResult
      /\ Assigned(c) = AllOf(a) /\ c.stage = "cover"
  BY InPhase DEF RiTake
<1>2. c.at # 0
  BY DEF RiTake, Covered
<1>3. PICK i \in c.relevant :
        /\ d = [c EXCEPT !.relevant   = @ \ {i},
                         !.added      = @ + Quantity(r.inputs[i], c.token),
                         !.associated = Put(@, o, Append(l, i))]
        /\ s = [r EXCEPT !.indices = @ \ {i}]
  BY DEF RiTake, Associated, Outputs
<1>4. /\ SameCall(c, d) /\ d.stage = "cover" /\ DOMAIN d = DOMAIN c
      /\ d.relevant = c.relevant \ {i} /\ d.associated = Put(a, o, Append(l, i))
      /\ d.outputs = c.outputs /\ d.queue = c.queue /\ d.at = c.at
  BY <1>1, <1>3 DEF SameCall, RiFields, PhaseFields
<1>5. RandomOk(r)
  BY DEF IInv
<1>6. RandomOk(s) /\ s.inputs = r.inputs /\ s.indices = r.indices \ {i}
  <2> DEFINE I == r.indices \ {i}
  <2>1. I \subseteq Nat /\ IsFiniteSet(I)
    BY <1>5, FS_Subset DEF RandomOk
  <2>2. s = [r EXCEPT !.indices = I]
    BY <1>3
  <2> HIDE DEF s, r, I
  <2>3. RandomOk(s) /\ s.inputs = r.inputs /\ s.indices = I
    BY <1>5, <2>1, <2>2, WithIndices
  <2>4. QED
    BY <2>3 DEF I
<1>7. RestOk /\ result' = NoResult
  BY <1>1, <1>6 DEF RiTake, RestOk, IInv, StoreOk
<1>8. l = IF o \in DOMAIN a THEN a[o] ELSE <<>>
  OBVIOUS
<1>9. /\ AreDisjoint(a, DOMAIN a) /\ i \in r.indices /\ r.indices \subseteq DOMAIN r.inputs
      /\ AllOf(a) \cap r.indices = {} /\ AllOf(a) \cup c.chosen \subseteq DOMAIN r.inputs
      /\ r.indices \cap c.chosen = {} /\ AllOf(a) \cap c.chosen = {}
      /\ DOMAIN a \subseteq {c.setup.fixedOut[p] : p \in c.outputs}
      /\ c.at \in c.outputs
      /\ c.given = {r.inputs[k] : k \in (r.indices \cup AllOf(a) \cup c.chosen)
                                         \cap DOMAIN r.inputs}
  BY <1>1, <1>2 DEF PhaseOk, IndicesOk
<1>10. i \in Nat /\ i \notin AllOf(a)
  BY <1>5, <1>9 DEF RandomOk
<1>11. o \in {c.setup.fixedOut[p] : p \in c.outputs}
  BY <1>9
<1> HIDE DEF c, d, r, s, a, o, l
<1> DEFINE b == d.associated
<1>12. /\ DOMAIN b = DOMAIN a \cup {o} /\ AreDisjoint(b, DOMAIN b)
       /\ AllOf(b) = AllOf(a) \cup {i}
  <2>1. Associates(a, o, i, b)
    BY <1>4, <1>8, <1>9, <1>10 DEF Associates
  <2>2. HasOneMore(a, o, i, b)
    BY <2>1, AssociateOne
  <2>3. QED
    BY <2>2 DEF HasOneMore
<1>13. PhaseOk(d, s)
  <2>1. d.setup = c.setup /\ PhaseFields \subseteq DOMAIN d
    BY <1>1, <1>4 DEF SameCall
  <2>2. /\ c.outputs \subseteq DOMAIN c.setup.fixedOut /\ c.queue \subseteq c.outputs
        /\ c.relevant \subseteq r.indices
    BY <1>1 DEF PhaseOk
  <2>3. QED
    BY <1>4, <1>6, <1>9, <1>11, <1>12, <2>1, <2>2 DEF PhaseOk
<1>14. Assigned(d) = AllOf(a) \cup {i}
  BY <1>4, <1>12 DEF Assigned
<1>15. s.indices \cup Assigned(d) = r.indices \cup AllOf(a)
  BY <1>6, <1>9, <1>14
<1>16. IndicesOk(d, s)
  <2>1. d.given = c.given /\ d.chosen = c.chosen
    BY <1>4 DEF SameCall
  <2>2. QED
    BY <1>6, <1>9, <1>14, <1>15, <2>1 DEF IndicesOk
<1>17. RandomCallOk(d, Owned, s)
  BY <1>1, <1>4, <1>6, <1>13, <1>16, PhaseKeeps
<1>18. QED
  BY <1>7, <1>17, GoesOn DEF CallOk, d, s

LEMMA RiImproveKeeps ==
  ASSUME IInv, RiImprove, UNCHANGED <<store, payments, fresh>>
  PROVE  IInv' /\ ChoiceStep
<1> DEFINE c == call
           d == call'
           r == random
           s == random'
           a == c.associated
           o == c.setup.fixedOut[c.at]
           k == c.added + 1
           i == a[o][k]
<1>1. /\ RandomCallOk(c, Owned, r) /\ PhaseOk(c, r) /\ IndicesOk(c, r)
      /\ RiFields \cup PhaseFields \subseteq DOMAIN c /\ result = NoResult
      /\ Assigned(c) = AllOf(a) /\ c.stage = "improve" /\ c.algo = "random"
  BY InPhase DEF RiImprove
<1>2. c.at # 0 /\ c.added \in Nat /\ c.added < Len(Associated(c.at))
  BY <1>1 DEF RiImprove, PhaseOk
<1>3. /\ AreDisjoint(a, DOMAIN a) /\ c.relevant \subseteq r.indices
      /\ r.indices \subseteq DOMAIN r.inputs
      /\ AllOf(a) \cap r.indices = {} /\ AllOf(a) \cup c.chosen \subseteq DOMAIN r.inputs
      /\ r.indices \cap c.chosen = {} /\ AllOf(a) \cap c.chosen = {}
      /\ DOMAIN a \subseteq {c.setup.fixedOut[p] : p \in c.outputs}
      /\ c.at \in c.outputs
      /\ c.given = {r.inputs[z] : z \in (r.indices \cup AllOf(a) \cup c.chosen)
                                         \cap DOMAIN r.inputs}
  BY <1>1, <1>2 DEF PhaseOk, IndicesOk
<1>4. o \in DOMAIN a /\ Associated(c.at) = a[o]
  <2>1. CASE o \in DOMAIN a
    BY <2>1 DEF Associated, Outputs
  <2>2. CASE o \notin DOMAIN a
    <3>1. Associated(c.at) = <<>> /\ Len(<<>>) = 0
      BY <2>2 DEF Associated, Outputs
    <3>2. c.added < 0 /\ c.added \in Nat
      BY <1>2, <3>1
    <3> HIDE DEF c
    <3>3. QED
      BY <3>2
  <2>3. QED
    BY <2>1, <2>2
<1>5. k \in DOMAIN a[o] /\ k \in Nat
  <2>1. a[o] \in Seq(Nat)
    BY <1>3, <1>4 DEF AreDisjoint
  <2>2. DOMAIN a[o] = 1..Len(a[o]) /\ Len(a[o]) \in Nat
    <3> HIDE DEF a, o
    <3>1. QED
      BY <2>1
  <2>3. c.added < Len(a[o])
    BY <1>2, <1>4
  <2> HIDE DEF a, o, c
  <2>4. QED
    BY <1>2, <2>2, <2>3
<1>6. RandomOk(r)
  BY DEF IInv
<1>7. PICK j \in c.relevant :
        IF Improves(c.at, i, j)
        THEN /\ d = [c EXCEPT !.added = k, !.relevant = (@ \ {j}) \cup {i},
                              !.associated[o][k] = j]
             /\ s = [r EXCEPT !.indices = Swapped(i, j)]
        ELSE /\ d = [c EXCEPT !.added = k]
             /\ UNCHANGED random
  BY <1>4 DEF RiImprove, Outputs
<1>8. CASE ~Improves(c.at, i, j)
  <2>1. d = [c EXCEPT !.added = k] /\ random' = random
    BY <1>7, <1>8
  <2>2. Turns(c, d)
    BY <1>1, <1>5, <2>1 DEF Turns, SameCall, RiFields, PhaseFields, PhaseOk
  <2>3. Turns(call, call')
    BY <2>2
  <2>4. QED
    BY <1>1, <2>1, <2>3, Turn DEF RiImprove
<1>9. CASE Improves(c.at, i, j)
  <2>1. /\ d = [c EXCEPT !.added = k, !.relevant = (@ \ {j}) \cup {i},
                         !.associated[o][k] = j]
        /\ s = [r EXCEPT !.indices = Swapped(i, j)]
    BY <1>7, <1>9
  <2>2. /\ SameCall(c, d) /\ d.stage = "improve" /\ DOMAIN d = DOMAIN c /\ d.added = k
        /\ d.relevant = (c.relevant \ {j}) \cup {i}
        /\ d.associated = [a EXCEPT ![o][k] = j]
        /\ d.outputs = c.outputs /\ d.queue = c.queue /\ d.at = c.at
    BY <1>1, <2>1 DEF SameCall, RiFields, PhaseFields
  <2>3. j \in Nat /\ j \notin AllOf(a) /\ j \in r.indices
    BY <1>3, <1>6 DEF RandomOk
  <2> DEFINE b == d.associated
  <2>4. HasReplaced(a, i, j, b)
    <3>1. Replaces(a, o, k, j, b)
      BY <1>3, <1>4, <1>5, <2>2, <2>3 DEF Replaces
    <3> HIDE DEF a, o, k, b
    <3>2. HasReplaced(a, a[o][k], j, b)
      BY <3>1, ReplaceOne
    <3>3. QED
      BY <3>2
  <2>5. /\ DOMAIN b = DOMAIN a /\ AreDisjoint(b, DOMAIN b)
        /\ AllOf(b) = (AllOf(a) \ {i}) \cup {j} /\ i \in AllOf(a) /\ i \in Nat
    BY <2>4 DEF HasReplaced
  <2>6. /\ RandomOk(s) /\ s.inputs = r.inputs
        /\ s.indices = (r.indices \cup {i}) \ {j}
    <3> DEFINE I == (r.indices \cup {i}) \ {j}
    <3>1. I \subseteq Nat
      BY <1>6, <2>5 DEF RandomOk
    <3>2. IsFiniteSet(I)
      <4>1. IsFiniteSet(r.indices \cup {i})
        BY <1>6, FS_AddElement DEF RandomOk
      <4>2. QED
        BY <4>1, FS_Subset
    <3>3. s = [r EXCEPT !.indices = I]
      BY <2>1 DEF Swapped
    <3> HIDE DEF s, r, I
    <3>4. RandomOk(s) /\ s.inputs = r.inputs /\ s.indices = I
      BY <1>6, <3>1, <3>2, <3>3, WithIndices
    <3>5. QED
      BY <3>4 DEF I
  <2>7. RestOk /\ result' = NoResult
    BY <1>1, <2>6 DEF RiImprove, RestOk, IInv, StoreOk
  <2> HIDE DEF c, d, r, s, a, o, k, i, b
  <2>8. PhaseOk(d, s)
    <3>1. d.setup = c.setup /\ PhaseFields \subseteq DOMAIN d
      BY <1>1, <2>2 DEF SameCall
    <3>2. /\ c.outputs \subseteq DOMAIN c.setup.fixedOut /\ c.queue \subseteq c.outputs
          /\ c.relevant \subseteq r.indices
      BY <1>1 DEF PhaseOk
    <3>3. d.relevant \subseteq s.indices
      BY <1>3, <2>2, <2>3, <2>5, <2>6, <3>2
    <3>4. s.indices \subseteq DOMAIN s.inputs
      BY <1>3, <2>5, <2>6
    <3>5. DOMAIN d.associated \subseteq {d.setup.fixedOut[p] : p \in d.outputs}
      BY <1>3, <2>2, <2>5, <3>1 DEF b
    <3>6. AreDisjoint(d.associated, DOMAIN d.associated)
      BY <2>5 DEF b
    <3>7. QED
      BY <1>3, <1>5, <2>2, <3>1, <3>2, <3>3, <3>4, <3>5, <3>6 DEF PhaseOk
  <2>9. Assigned(d) = (AllOf(a) \ {i}) \cup {j}
    BY <2>2, <2>5 DEF Assigned, b
  <2>10. s.indices \cup Assigned(d) = r.indices \cup AllOf(a)
    BY <2>3, <2>5, <2>6, <2>9
  <2>11. IndicesOk(d, s)
    <3>1. d.given = c.given /\ d.chosen = c.chosen
      BY <2>2 DEF SameCall
    <3>2. Assigned(d) \cup c.chosen \subseteq DOMAIN s.inputs
      BY <1>3, <2>3, <2>6, <2>9
    <3>3. s.indices \cap Assigned(d) = {} /\ s.indices \cap c.chosen = {}
      BY <1>3, <2>3, <2>5, <2>6, <2>9
    <3>4. Assigned(d) \cap c.chosen = {}
      BY <1>3, <2>3, <2>9
    <3>5. c.given = {s.inputs[z] : z \in (s.indices \cup Assigned(d) \cup c.chosen)
                                          \cap DOMAIN s.inputs}
      BY <1>3, <2>6, <2>10
    <3>6. QED
      BY <3>1, <3>2, <3>3, <3>4, <3>5 DEF IndicesOk
  <2>12. RandomCallOk(d, Owned, s)
    BY <1>1, <2>2, <2>6, <2>8, <2>11, PhaseKeeps
  <2>13. QED
    BY <2>7, <2>12, GoesOn DEF CallOk, d, s
<1>10. QED
  BY <1>8, <1>9

LEMMA OwnedInputs ==
  ASSUME IInv, call.algo = "random"
  PROVE  \A I : I \subseteq DOMAIN random.inputs => AreOutputsAt(random.inputs, I)
<1>1. RandomCallOk(call, Owned, random) /\ RandomOk(random)
  BY RandomCall DEF IInv
<1>2. Range(random.inputs) \subseteq Owned
  BY <1>1 DEF RandomCallOk
<1>3. \A i \in DOMAIN random.inputs : random.inputs[i] \in Owned
  BY <1>2 DEF Range
<1>4. \A i \in DOMAIN random.inputs : IsOutput(random.inputs[i])
  BY <1>3, OwnedFacts
<1>5. QED
  BY <1>1, <1>4, InputIndices, FS_Subset DEF AreOutputsAt

(* The first outputs of a phase are those that equal none before them.  The *)
(* inputs of all its outputs are those it associated, each counted once for *)
(* the first ones, and what is counted again for the others.               *)
LEMMA FirstsGathered ==
  ASSUME IInv, call.algo = "random", call.stage = "collect"
  PROVE  Enumerates(GatheredFor(call.outputs \ Repeated), AllOf(call.associated))
<1> DEFINE c == call
           a == c.associated
           out == c.setup.fixedOut
           P == c.outputs \ Repeated
           f == ListsOf(P)
<1>1. RandomCallOk(c, Owned, random) /\ PhaseOk(c, random)
  BY InPhase
<1>2. /\ AreDisjoint(a, DOMAIN a) /\ c.outputs \subseteq DOMAIN out
      /\ AreOutputs(out) /\ DOMAIN a \subseteq {out[p] : p \in c.outputs}
  BY <1>1 DEF PhaseOk, RandomCallOk, SetupOk
<1>3. IsFiniteSet(P) /\ c.outputs \subseteq Nat
  BY <1>2, OutputsFacts, FS_Subset
<1>4. \A p \in P : f[p] = IF out[p] \in DOMAIN a THEN a[out[p]] ELSE <<>>
  BY DEF ListsOf, Associated, Outputs
<1>5. Fold(JoinKind(f), <<>>, P) = GatheredFor(P)
  BY <1>3, GatheredForIs
<1>6. DOMAIN <<>> = {} /\ <<>> \in Seq(Nat) /\ Range(<<>>) = {}
  BY DEF Range
<1>7. \A p, q \in P : out[p] = out[q] => p = q
  <2> SUFFICES ASSUME NEW p \in P, NEW q \in P, out[p] = out[q]
               PROVE  p = q
    OBVIOUS
  <2>1. ~(p < q) /\ ~(q < p)
    BY DEF Repeated, Outputs
  <2>2. QED
    BY <1>3, <2>1
<1>8. \A p \in c.outputs : \E q \in P : out[q] = out[p]
  <2> SUFFICES ASSUME NEW p \in c.outputs
               PROVE  \E q \in P : out[q] = out[p]
    OBVIOUS
  <2> DEFINE S == {q \in c.outputs : out[q] = out[p]}
  <2>1. p \in S /\ S \subseteq Int /\ IsFiniteSet(S)
    <3>1. IsFiniteSet(c.outputs)
      BY <1>2, OutputsFacts, FS_Subset
    <3>2. QED
      BY <1>3, <3>1, FS_Subset
  <2>2. PICK q \in S : \A n \in S : q <= n
    <3> HIDE DEF S
    <3>1. QED
      BY <2>1, LeastOf
  <2>3. q \notin Repeated
    <3>1. \A n \in c.outputs : out[n] = out[q] => ~(n < q)
      BY <1>3, <2>2
    <3>2. QED
      BY <3>1 DEF Repeated, Outputs
  <2>4. QED
    BY <2>2, <2>3
<1> HIDE DEF f, P, out, a, c
<1>9. AreDisjoint(f, P)
  <2>1. \A p \in P : f[p] \in Seq(Nat)
    BY <1>2, <1>4, <1>6 DEF AreDisjoint
  <2>2. ASSUME NEW p \in P, NEW q \in P, NEW k \in DOMAIN f[p], NEW l \in DOMAIN f[q],
               f[p][k] = f[q][l]
        PROVE  p = q /\ k = l
    <3>1. /\ out[p] \in DOMAIN a /\ f[p] = a[out[p]]
          /\ out[q] \in DOMAIN a /\ f[q] = a[out[q]]
      BY <1>4, <1>6, <2>2
    <3>2. out[p] = out[q] /\ k = l
      BY <1>2, <2>2, <3>1 DEF AreDisjoint
    <3>3. QED
      BY <1>7, <3>2
  <2>3. QED
    BY <2>1, <2>2 DEF AreDisjoint
<1>10. UNION {Range(f[p]) : p \in P} = AllOf(a)
  <2>1. ASSUME NEW p \in P
        PROVE  Range(f[p]) \subseteq AllOf(a)
    BY <1>4, <1>6 DEF AllOf
  <2>2. ASSUME NEW o \in DOMAIN a
        PROVE  \E p \in P : Range(a[o]) = Range(f[p])
    <3>1. PICK p \in P : out[p] = o
      BY <1>2, <1>8
    <3>2. f[p] = a[o]
      BY <1>4, <3>1
    <3>3. QED
      BY <3>2
  <2>3. ASSUME NEW x \in AllOf(a)
        PROVE  x \in UNION {Range(f[p]) : p \in P}
    <3>1. PICK o \in DOMAIN a : x \in Range(a[o])
      BY DEF AllOf
    <3>2. PICK p \in P : Range(a[o]) = Range(f[p])
      BY <2>2
    <3>3. QED
      BY <3>1, <3>2
  <2>4. QED
    BY <2>1, <2>3
<1>11. Enumerates(Fold(JoinKind(f), <<>>, P), UNION {Range(f[p]) : p \in P})
  BY <1>3, <1>9, JoinAll
<1>12. QED
  BY <1>5, <1>10, <1>11 DEF a, P, c

(* What the inputs of the outputs in P hold, output by output.             *)
ListsHold(t) == [p \in call.outputs |-> Holds(Picked(Associated(p), random.inputs), t)]

LEMMA InputsForHold ==
  ASSUME IInv, call.algo = "random", call.stage = "collect", NEW P, P \subseteq call.outputs
  PROVE  /\ AreOutputs(InputsFor(P)) /\ IsFiniteSet(P)
         /\ Range(GatheredFor(P)) = UNION {Range(Associated(p)) : p \in P}
         /\ \A p \in call.outputs : Range(Associated(p)) \subseteq AllOf(call.associated)
         /\ \A t : Holds(InputsFor(P), t) = SumOver(ListsHold(t), P)
         /\ \A t : \A p \in P : ListsHold(t)[p] \in Nat
<1> DEFINE c == call
           a == c.associated
           A == AllOf(a)
           out == c.setup.fixedOut
           g == random.inputs
           f == ListsOf(P)
           e == GatheredFor(P)
<1>1. RandomCallOk(c, Owned, random) /\ PhaseOk(c, random) /\ IndicesOk(c, random) /\ Assigned(c) = A
  BY InPhase
<1>2. /\ AreDisjoint(a, DOMAIN a) /\ c.outputs \subseteq DOMAIN out /\ AreOutputs(out)
      /\ A \subseteq DOMAIN g
  BY <1>1 DEF PhaseOk, RandomCallOk, SetupOk, IndicesOk
<1>3. IsFiniteSet(P)
  BY <1>2, OutputsFacts, FS_Subset
<1>4. \A x \in A : IsOutput(g[x])
  <2>1. AreOutputsAt(g, A)
    BY <1>2, OwnedInputs
  <2>2. QED
    BY <2>1 DEF AreOutputsAt
<1>5. ASSUME NEW p \in c.outputs
      PROVE  Associated(p) \in Seq(A) /\ Range(Associated(p)) \subseteq A
  <2>1. CASE out[p] \in DOMAIN a
    <3>1. Associated(p) = a[out[p]]
      BY <2>1 DEF Associated, Outputs
    <3>2. a[out[p]] \in Seq(Nat) /\ Range(a[out[p]]) \subseteq A
      BY <1>2, <2>1 DEF AreDisjoint, AllOf
    <3> DEFINE q == a[out[p]]
    <3>3. q \in Seq(Nat) /\ Range(q) \subseteq A
      BY <3>2
    <3> HIDE DEF q, A
    <3>4. DOMAIN q = 1..Len(q) /\ Len(q) \in Nat /\ q = [k \in 1..Len(q) |-> q[k]]
      BY <3>3
    <3>5. \A k \in 1..Len(q) : q[k] \in A
      BY <3>3, <3>4 DEF Range
    <3>6. q \in Seq(A)
      BY <3>4, <3>5
    <3>7. QED
      BY <3>1, <3>3, <3>6 DEF q
  <2>2. CASE out[p] \notin DOMAIN a
    <3>1. Associated(p) = <<>>
      BY <2>2 DEF Associated, Outputs
    <3> HIDE DEF A
    <3>2. <<>> \in Seq(A) /\ Range(<<>>) = {}
      BY DEF Range
    <3>3. QED
      BY <3>1, <3>2
  <2>3. QED
    BY <2>1, <2>2
<1>6. \A p \in P : f[p] = Associated(p)
  BY DEF ListsOf
<1>7. Fold(JoinKind(f), <<>>, P) = e
  BY <1>3, GatheredForIs
<1>8. InputsFor(P) = Picked(e, g)
  BY DEF InputsFor, Picked
<1>9. \A p \in P : f[p] \in Seq(A)
  BY <1>5, <1>6
<1> DEFINE h(t) == [p \in P |-> Holds(Picked(f[p], g), t)]
<1>10. /\ AreOutputs(Picked(e, g)) /\ Range(e) = UNION {Range(f[p]) : p \in P}
       /\ \A t : Holds(Picked(e, g), t) = SumOver(h(t), P)
  <2> HIDE DEF f, A, g, e, a, c
  <2>1. QED
    BY <1>3, <1>4, <1>7, <1>9, PickAll
<1>11. ASSUME NEW t
       PROVE  /\ SumOver(h(t), P) = SumOver(ListsHold(t), P)
              /\ \A p \in P : ListsHold(t)[p] \in Nat
  <2>1. \A p \in P : h(t)[p] = ListsHold(t)[p] /\ ListsHold(t)[p] = Holds(Picked(f[p], g), t)
    BY <1>6 DEF ListsHold
  <2>2. \A p \in P : AreOutputs(Picked(f[p], g))
    <3> HIDE DEF f, A, g, e, a, c, h
    <3>1. QED
      BY <1>4, <1>9, PickedFacts
  <2>3. \A p \in P : Holds(Picked(f[p], g), t) \in Nat
    BY <2>2, OutputsFacts
  <2> HIDE DEF h
  <2>4. QED
    BY <1>3, <2>1, <2>3, SumSame
<1>12. QED
  <2> HIDE DEF h, f, e, g
  <2>1. Range(e) = UNION {Range(Associated(p)) : p \in P}
    BY <1>6, <1>10
  <2>2. QED
    BY <1>3, <1>5, <1>8, <1>10, <1>11, <2>1 DEF e

LEMMA AllGathered ==
  ASSUME IInv, call.algo = "random", call.stage = "collect"
  PROVE  LET A     == AllOf(call.associated)
             ins   == InputsFor(call.outputs)
             again == InputsFor(Repeated) IN
         /\ AreOutputs(ins) /\ AreOutputs(again)
         /\ Range(GatheredFor(call.outputs)) = A
         /\ again # <<>> => ~IsInjective(call.setup.fixedOut)
         /\ \A t : Holds(ins, t) = HoldsAt(random.inputs, A, t) + Holds(again, t)
<1> DEFINE P == call.outputs
           F == P \ Repeated
           A == AllOf(call.associated)
           g == random.inputs
<1>1. Repeated \subseteq P /\ F \subseteq P /\ F \cup Repeated = P /\ F \cap Repeated = {}
  BY DEF Repeated
<1>2. /\ AreOutputs(InputsFor(P)) /\ AreOutputs(InputsFor(Repeated)) /\ IsFiniteSet(F)
      /\ IsFiniteSet(Repeated)
      /\ Range(GatheredFor(P)) = UNION {Range(Associated(p)) : p \in P}
      /\ Range(GatheredFor(F)) = UNION {Range(Associated(p)) : p \in F}
      /\ \A p \in P : Range(Associated(p)) \subseteq A
      /\ \A t : /\ Holds(InputsFor(P), t) = SumOver(ListsHold(t), P)
                /\ Holds(InputsFor(F), t) = SumOver(ListsHold(t), F)
                /\ Holds(InputsFor(Repeated), t) = SumOver(ListsHold(t), Repeated)
                /\ \A p \in P : ListsHold(t)[p] \in Nat
  <2> HIDE DEF F, A
  <2>1. QED
    BY <1>1, InputsForHold DEF A
<1>3. Enumerates(GatheredFor(F), A)
  BY FirstsGathered
<1>4. A \subseteq DOMAIN g
  BY InPhase DEF IndicesOk
<1>5. AreOutputsAt(g, A)
  BY <1>4, OwnedInputs
<1>6. InputsFor(F) = [k \in DOMAIN GatheredFor(F) |-> g[GatheredFor(F)[k]]]
  BY DEF InputsFor
<1> HIDE DEF F, A, g
<1>7. \A t : Holds(InputsFor(F), t) = HoldsAt(g, A, t)
  <2>1. IsListOf(InputsFor(F), g, A)
    BY <1>3, <1>5, <1>6, ListOfIs
  <2>2. QED
    BY <2>1 DEF IsListOf
<1>8. \A t : SumOver(ListsHold(t), P) = SumOver(ListsHold(t), F) + SumOver(ListsHold(t), Repeated)
  BY <1>1, <1>2, SumUnion
<1>9. Range(GatheredFor(P)) = A
  <2>1. Range(GatheredFor(F)) = A
    BY <1>3 DEF Enumerates, Range
  <2>2. QED
    BY <1>1, <1>2, <2>1
<1>10. ASSUME InputsFor(Repeated) # <<>>
       PROVE  ~IsInjective(call.setup.fixedOut)
  <2>1. Repeated # {}
    <3>1. GatheredFor({}) = <<>>
      BY GatheredForIs, FoldEmpty, FS_EmptySet
    <3>2. InputsFor({}) = <<>>
      BY <3>1 DEF InputsFor
    <3>3. QED
      BY <1>10, <3>2
  <2>2. PICK p \in P, q \in P : q < p /\ call.setup.fixedOut[q] = call.setup.fixedOut[p]
    BY <2>1 DEF Repeated, Outputs
  <2>3. P \subseteq DOMAIN call.setup.fixedOut /\ DOMAIN call.setup.fixedOut \subseteq Int
    <3>1. RandomCallOk(call, Owned, random) /\ PhaseOk(call, random)
      BY InPhase
    <3>2. AreOutputs(call.setup.fixedOut) /\ P \subseteq DOMAIN call.setup.fixedOut
      BY <3>1 DEF RandomCallOk, SetupOk, PhaseOk
    <3>3. QED
      BY <3>2, OutputsFacts
  <2>4. QED
    BY <2>2, <2>3 DEF IsInjective
<1>11. QED
  BY <1>2, <1>7, <1>8, <1>9, <1>10 DEF A, g

LEMMA HaveMore ==
  ASSUME NEW main, NEW a, IsAssets(a), NEW more, NEW b, IsAssets(b)
  PROVE  /\ IsAssets(Together(a, b))
         /\ \A t : Have(main + more, Together(a, b), t) = Have(main, a, t) + Have(more, b, t)
BY TogetherFacts DEF Have

(* d is c with the inputs at the indices I chosen and counted, and those of *)
(* the list more counted again                                             *)
Chooses(c, I, more, r, d) ==
  /\ RiFields \subseteq DOMAIN d /\ d.algo = c.algo /\ d.setup = c.setup
  /\ d.given = c.given /\ d.stage = "phase"
  /\ d.chosen = c.chosen \cup I /\ I \cap c.chosen = {} /\ I \subseteq DOMAIN r.inputs
  /\ IsAssets(d.inAssets)
  /\ \A t : Have(d.inMain, d.inAssets, t)
              = Have(c.inMain, c.inAssets, t) + (HoldsAt(r.inputs, I, t) + Holds(more, t))
  /\ AreOutputs(more) /\ d.again = c.again \o more
  /\ more # <<>> => ~IsInjective(c.setup.fixedOut)

LEMMA ChooseKeeps ==
  ASSUME NEW own, \A u \in own : IsOutput(u),
         NEW c, NEW r, RandomOk(r), RandomCallOk(c, own, r),
         NEW I, NEW more, NEW s, NEW d, Chooses(c, I, more, r, d), s.inputs = r.inputs, IndicesOk(d, s),
         s.indices \subseteq DOMAIN s.inputs
  PROVE  RandomCallOk(d, own, s)
<1>1. /\ c.chosen \subseteq DOMAIN r.inputs /\ I \subseteq DOMAIN r.inputs
      /\ c.chosen \cap I = {} /\ d.chosen = c.chosen \cup I
  BY DEF RandomCallOk, IndicesOk, Chooses
<1>2. \A i \in DOMAIN r.inputs : IsOutput(r.inputs[i])
  BY DEF RandomCallOk, Range
<1>3. AreOutputsAt(r.inputs, c.chosen) /\ AreOutputsAt(r.inputs, I)
  BY <1>1, <1>2, InputIndices, FS_Subset DEF AreOutputsAt
<1>4. AreOutputs(c.setup.fixedIn)
  BY SetupFacts DEF RandomCallOk
<1>6. /\ AgainOk(d.again, d.setup.fixedOut) /\ AreOutputs(c.again) /\ AreOutputs(more)
      /\ \A t : Holds(d.again, t) = Holds(c.again, t) + Holds(more, t)
  <2>1. AreOutputs(c.again) /\ (c.again # <<>> => ~IsInjective(c.setup.fixedOut))
    BY DEF RandomCallOk, AgainOk
  <2>2. AreOutputs(more) /\ d.again = c.again \o more /\ d.setup = c.setup
    BY DEF Chooses
  <2>3. AreOutputs(d.again) /\ \A t : Holds(d.again, t) = Holds(c.again, t) + Holds(more, t)
    BY <2>1, <2>2, ConcatFacts
  <2>4. c.again = <<>> /\ more = <<>> => d.again = <<>>
    BY <2>2
  <2>5. QED
    BY <2>1, <2>2, <2>3, <2>4 DEF Chooses, AgainOk
<1>5. ASSUME NEW t
      PROVE  Have(d.inMain, d.inAssets, t)
               = Holds(d.setup.fixedIn, t) + HoldsAt(s.inputs, d.chosen, t)
                   + Holds(d.again, t)
  <2>1. /\ Have(d.inMain, d.inAssets, t)
             = Have(c.inMain, c.inAssets, t) + (HoldsAt(r.inputs, I, t) + Holds(more, t))
        /\ d.setup = c.setup
    BY DEF Chooses
  <2>2. Have(c.inMain, c.inAssets, t)
          = Holds(c.setup.fixedIn, t) + HoldsAt(r.inputs, c.chosen, t) + Holds(c.again, t)
    BY DEF RandomCallOk
  <2>3. HoldsAt(r.inputs, c.chosen \cup I, t)
          = HoldsAt(r.inputs, c.chosen, t) + HoldsAt(r.inputs, I, t)
    BY <1>1, <1>3, HoldsAtUnion
  <2>4. /\ Holds(c.setup.fixedIn, t) \in Nat /\ HoldsAt(r.inputs, c.chosen, t) \in Nat
        /\ HoldsAt(r.inputs, I, t) \in Nat
        /\ Holds(c.again, t) \in Nat /\ Holds(more, t) \in Nat
        /\ Holds(d.again, t) = Holds(c.again, t) + Holds(more, t)
    BY <1>3, <1>4, <1>6, HoldsAtNat, OutputsFacts
  <2>5. QED
    BY <1>1, <2>1, <2>2, <2>3, <2>4
<1>7. QED
  BY <1>5, <1>6 DEF RandomCallOk, Chooses

LEMMA RiCollectKeeps ==
  ASSUME IInv, RiCollect, UNCHANGED <<store, payments, fresh>>
  PROVE  IInv' /\ ChoiceStep
<1> DEFINE c == call
           d == call'
           r == random
           A == AllOf(c.associated)
           got == GatheredFor(c.outputs)
           ins == InputsFor(c.outputs)
           more == InputsFor(Repeated)
<1>1. /\ RandomCallOk(c, Owned, r) /\ PhaseOk(c, r) /\ IndicesOk(c, r)
      /\ RiFields \cup PhaseFields \subseteq DOMAIN c /\ result = NoResult
      /\ Assigned(c) = A /\ c.stage = "collect" /\ c.algo = "random"
  BY InPhase DEF RiCollect
<1>2. /\ AreOutputs(ins) /\ AreOutputs(more) /\ Range(got) = A
      /\ more # <<>> => ~IsInjective(c.setup.fixedOut)
      /\ \A t : Holds(ins, t) = HoldsAt(r.inputs, A, t) + Holds(more, t)
  BY <1>1, AllGathered
<1>3. /\ A \cup c.chosen \subseteq DOMAIN r.inputs /\ A \cap c.chosen = {}
      /\ r.indices \cap A = {} /\ r.indices \cap c.chosen = {}
      /\ r.indices \subseteq DOMAIN r.inputs
      /\ c.given = {r.inputs[z] : z \in (r.indices \cup A \cup c.chosen) \cap DOMAIN r.inputs}
  BY <1>1 DEF IndicesOk, PhaseOk
<1>6. CASE Fail /\ UNCHANGED estimator
  <2>1. RestOk
    BY <1>6 DEF RiCollect, RestOk, IInv, StoreOk
  <2>2. QED
    BY <1>6, <2>1, Ends DEF Fail
<1>7. CASE ~(Fail /\ UNCHANGED estimator)
  <2>1. /\ d = [c EXCEPT !.stage    = "phase",
                         !.chosen   = @ \cup Range(got),
                         !.again    = @ \o more,
                         !.inMain   = @ + MainOf(ins),
                         !.inAssets = Together(@, AssetsOf(ins)),
                         !.fee      = @ + FeeForInputs(estimator, Len(ins))]
        /\ estimator' = AddInputs(estimator, Len(ins))
        /\ UNCHANGED <<result, available, random>>
    <3> HIDE DEF d
    <3>1. QED
      BY <1>7, Zenon DEF RiCollect, d, c, r, got, ins, more
  <2>3. Len(ins) \in Nat
    BY <1>2, OutputsFacts
  <2>4. RestOk /\ result' = NoResult /\ random' = r
    <3>1. EstimatorOk(estimator')
      BY <2>1, <2>3, AddInputsFacts DEF IInv
    <3>2. QED
      BY <1>1, <2>1, <3>1 DEF RestOk, IInv, StoreOk
  <2>5. /\ RiFields \subseteq DOMAIN d /\ d.algo = c.algo /\ d.setup = c.setup
        /\ d.given = c.given /\ d.stage = "phase" /\ d.chosen = c.chosen \cup A
        /\ d.inMain = c.inMain + MainOf(ins)
        /\ d.inAssets = Together(c.inAssets, AssetsOf(ins)) /\ d.again = c.again \o more
    <3> HIDE DEF got, ins, more, A, c, d
    <3>1. QED
      BY <1>1, <1>2, <2>1 DEF RiFields
  <2> HIDE DEF c, d, r, A, got, ins, more
  <2>6. /\ IsAssets(AssetsOf(ins)) /\ IsAssets(c.inAssets)
        /\ \A t : Have(MainOf(ins), AssetsOf(ins), t)
                    = HoldsAt(r.inputs, A, t) + Holds(more, t)
    BY <1>1, <1>2, OutputsHave DEF RandomCallOk
  <2>7. Chooses(c, A, more, r, d)
    <3>1. /\ IsAssets(d.inAssets)
          /\ \A t : Have(d.inMain, d.inAssets, t)
                      = Have(c.inMain, c.inAssets, t) + Have(MainOf(ins), AssetsOf(ins), t)
      BY <2>5, <2>6, HaveMore
    <3>2. QED
      BY <1>2, <1>3, <2>5, <2>6, <3>1 DEF Chooses
  <2>8. Assigned(d) = {}
    BY <2>5 DEF Assigned
  <2>9. IndicesOk(d, r)
    BY <1>3, <2>5, <2>8 DEF IndicesOk
  <2>10. RandomCallOk(d, Owned, r)
    <3>1. RandomOk(r)
      BY DEF IInv, r
    <3>2. QED
      BY <1>1, <1>3, <2>7, <2>9, <3>1, OwnedFacts, ChooseKeeps
  <2>11. QED
    BY <2>4, <2>10, GoesOn DEF CallOk, d, r
<1>8. QED
  BY <1>6, <1>7

LEMMA RiExtraKeeps ==
  ASSUME IInv, RiExtra, UNCHANGED <<store, payments, fresh>>
  PROVE  IInv' /\ ChoiceStep
<1> DEFINE c == call
           d == call'
           r == random
           s == random'
<1>1. /\ RandomCallOk(c, Owned, r) /\ result = NoResult
      /\ c.algo = "random" /\ c.stage = "phase" /\ c.todo = {}
  BY RandomCall DEF RiExtra, RiShort
<1>2. /\ RiFields \subseteq DOMAIN c /\ IndicesOk(c, r) /\ r.indices \subseteq DOMAIN r.inputs
  BY <1>1 DEF RandomCallOk
<1>3. Assigned(c) = {} /\ RandomOk(r)
  BY <1>1 DEF Assigned, IInv
<1>4. CASE r.indices = {}
  <2>1. RestOk /\ call' = NoCall /\ result' = Failed
    BY <1>4 DEF RiExtra, RestOk, IInv, StoreOk, Fail
  <2>2. QED
    BY <2>1, Ends
<1>5. CASE r.indices # {}
  <2>1. PICK i \in r.indices :
          /\ s = [r EXCEPT !.indices = @ \ {i}]
          /\ d = [c EXCEPT !.chosen   = @ \cup {i},
                           !.inMain   = @ + r.inputs[i].value,
                           !.inAssets = Together(@, r.inputs[i].assets),
                           !.fee      = @ + FeeForInput(estimator)]
    BY <1>5 DEF RiExtra
  <2>2. /\ RiFields \subseteq DOMAIN d /\ d.algo = c.algo /\ d.setup = c.setup
        /\ d.given = c.given /\ d.stage = "phase" /\ d.chosen = c.chosen \cup {i}
        /\ d.inMain = c.inMain + r.inputs[i].value
        /\ d.inAssets = Together(c.inAssets, r.inputs[i].assets)
        /\ d.again = c.again
    BY <1>1, <1>2, <2>1 DEF RiFields
  <2>3. /\ RandomOk(s) /\ s.inputs = r.inputs /\ s.indices = r.indices \ {i}
    <3> DEFINE I == r.indices \ {i}
    <3>1. I \subseteq Nat /\ IsFiniteSet(I)
      BY <1>3, FS_Subset DEF RandomOk
    <3>2. s = [r EXCEPT !.indices = I]
      BY <2>1
    <3> HIDE DEF s, r, I
    <3>3. RandomOk(s) /\ s.inputs = r.inputs /\ s.indices = I
      BY <1>3, <3>1, <3>2, WithIndices
    <3>4. QED
      BY <3>3 DEF I
  <2>4. RestOk /\ result' = NoResult
    <3>1. estimator' = AddInputs(estimator, 1) /\ UNCHANGED <<result, available>>
      BY <1>5 DEF RiExtra
    <3>2. EstimatorOk(estimator')
      BY <3>1, AddInputsFacts DEF IInv
    <3>3. QED
      BY <1>1, <2>3, <3>1, <3>2 DEF RestOk, IInv, StoreOk
  <2>5. AreOutputsAt(r.inputs, {i})
    <3>1. {i} \subseteq DOMAIN r.inputs
      BY <1>2, <2>1
    <3>2. QED
      BY <1>1, <3>1, OwnedInputs
  <2> HIDE DEF c, d, r, s
  <2>6. IsOutput(r.inputs[i]) /\ \A t : HoldsAt(r.inputs, {i}, t) = In(r.inputs[i], t)
    <3>1. IsOutput(r.inputs[i])
      BY <2>5 DEF AreOutputsAt
    <3>2. QED
      BY <3>1, HoldsAtOne
  <2>7. /\ IsAssets(r.inputs[i].assets) /\ IsAssets(c.inAssets)
        /\ \A t : Have(r.inputs[i].value, r.inputs[i].assets, t) = HoldsAt(r.inputs, {i}, t)
    BY <1>1, <2>6 DEF RandomCallOk, IsOutput, Have, In
  <2>8. {i} \cap c.chosen = {} /\ {i} \subseteq DOMAIN r.inputs
    BY <1>2, <2>1 DEF IndicesOk
  <2>9. Chooses(c, {i}, <<>>, r, d)
    <3>1. /\ IsAssets(d.inAssets)
          /\ \A t : Have(d.inMain, d.inAssets, t)
                      = Have(c.inMain, c.inAssets, t)
                        + Have(r.inputs[i].value, r.inputs[i].assets, t)
      BY <2>2, <2>7, HaveMore
    <3>2. d.again = c.again \o <<>>
      <4>1. AreOutputs(c.again)
        BY <1>1 DEF RandomCallOk, AgainOk
      <4>2. QED
        BY <2>2, <4>1 DEF AreOutputs
    <3>3. \A t : HoldsAt(r.inputs, {i}, t) + Holds(<<>>, t) = HoldsAt(r.inputs, {i}, t)
      <4> TAKE t
      <4>1. HoldsAt(r.inputs, {i}, t) \in Nat /\ Holds(<<>>, t) = 0
        BY <2>6, InNat, NoOutputs
      <4>2. QED
        BY <4>1
    <3>4. QED
      BY <2>2, <2>7, <2>8, <3>1, <3>2, <3>3, NoOutputs DEF Chooses
  <2>10. Assigned(d) = {}
    BY <2>2 DEF Assigned
  <2>11. s.indices \cup d.chosen = r.indices \cup c.chosen
    BY <2>1, <2>2, <2>3
  <2>12. IndicesOk(d, s)
    <3>1. /\ c.given = {r.inputs[z] : z \in (r.indices \cup c.chosen) \cap DOMAIN r.inputs}
          /\ c.chosen \subseteq DOMAIN r.inputs /\ r.indices \cap c.chosen = {}
      BY <1>2, <1>3 DEF IndicesOk
    <3>2. d.given = {s.inputs[z] : z \in (s.indices \cup Assigned(d) \cup d.chosen)
                                          \cap DOMAIN s.inputs}
      BY <2>2, <2>3, <2>10, <2>11, <3>1
    <3>3. Assigned(d) \cup d.chosen \subseteq DOMAIN s.inputs /\ s.indices \cap d.chosen = {}
      BY <2>2, <2>3, <2>8, <2>10, <3>1
    <3>4. QED
      BY <2>10, <3>2, <3>3 DEF IndicesOk
  <2>13. s.indices \subseteq DOMAIN s.inputs
    BY <1>2, <2>3
  <2>14. RandomCallOk(d, Owned, s)
    BY <1>1, <1>3, <2>3, <2>9, <2>12, <2>13, OwnedFacts, ChooseKeeps
  <2>15. QED
    BY <2>4, <2>14, GoesOn DEF CallOk, d, s
<1>6. QED
  BY <1>4, <1>5

LEMMA RiReturnKeeps ==
  ASSUME IInv, RiReturn, UNCHANGED <<store, payments, fresh>>
  PROVE  IInv' /\ ChoiceStep
<1> DEFINE c == call
           r == result'
           s == random
           I == call.chosen
<1>1. /\ RandomCallOk(c, Owned, s) /\ RandomOk(s)
      /\ c.algo = "random" /\ c.stage = "phase" /\ c.todo = {} /\ Assigned(c) = {}
  BY RandomCall DEF RiReturn, IInv, Assigned
<1>2. /\ r.is = "selected" /\ r.by = "random"
      /\ r.fixedIn = c.setup.fixedIn /\ r.fixedOut = c.setup.fixedOut
      /\ r.chosen = InputsAt(I) /\ r.inMain = c.inMain /\ r.inAssets = c.inAssets
      /\ r.outMain = c.setup.outMain /\ r.outAssets = c.setup.outAssets
      /\ r.again = c.again /\ r.lost = <<>>
  BY DEF RiReturn, Return, Merged
<1>3. call' = NoCall /\ random' = random /\ available' = available /\ estimator' = estimator
  BY DEF RiReturn, Return
<1>4. /\ IndicesOk(c, s) /\ s.indices \subseteq DOMAIN s.inputs /\ SetupOk(c.setup, Owned)
      /\ Range(s.inputs) \subseteq Owned \ Range(c.setup.fixedIn)
  BY <1>1 DEF RandomCallOk
<1>5. /\ I \subseteq DOMAIN s.inputs /\ s.indices \cap I = {}
      /\ c.given = {s.inputs[z] : z \in s.indices \cup I}
  <2>1. /\ I \subseteq DOMAIN s.inputs /\ s.indices \cap I = {}
        /\ c.given = {s.inputs[z] : z \in (s.indices \cup {} \cup I) \cap DOMAIN s.inputs}
    BY <1>1, <1>4 DEF IndicesOk
  <2>2. (s.indices \cup {} \cup I) \cap DOMAIN s.inputs = s.indices \cup I
    BY <1>4, <2>1
  <2>3. QED
    BY <2>1, <2>2
<1>6. AreOutputsAt(s.inputs, I)
  BY <1>1, <1>5, OwnedInputs
<1>7. IsFiniteSet(I)
  BY <1>6 DEF AreOutputsAt
<1>8. PICK e : Enumerates(e, I) /\ InputsAt(I) = [k \in DOMAIN e |-> s.inputs[e[k]]]
  BY <1>7, InputsAtFacts
<1>9. \A x, y \in DOMAIN s.inputs : s.inputs[x] = s.inputs[y] => x = y
  BY <1>1 DEF RandomOk, IsInjective
<1> HIDE DEF c, r, s, I
<1>10. /\ r.chosen \in Seq({s.inputs[x] : x \in I}) /\ Range(r.chosen) = {s.inputs[x] : x \in I}
       /\ IsInjective(r.chosen) /\ \A t : Holds(r.chosen, t) = HoldsAt(s.inputs, I, t)
  <2> DEFINE q == [k \in DOMAIN e |-> s.inputs[e[k]]]
             X == {s.inputs[x] : x \in I}
  <2>1. /\ AreOutputs(q) /\ q \in Seq(X) /\ Range(q) = X
        /\ (\A x, y \in I : s.inputs[x] = s.inputs[y] => x = y) => IsInjective(q)
        /\ \A t : Holds(q, t) = HoldsAt(s.inputs, I, t)
    <3>1. q = [k \in DOMAIN e |-> s.inputs[e[k]]]
      BY DEF q
    <3> HIDE DEF q
    <3>2. IsListOf(q, s.inputs, I)
      BY <1>6, <1>8, <3>1, ListOfIs
    <3>3. QED
      BY <3>2 DEF IsListOf
  <2>2. r.chosen = q
    BY <1>2, <1>8
  <2>3. \A x, y \in I : s.inputs[x] = s.inputs[y] => x = y
    BY <1>5, <1>9
  <2> HIDE DEF q, X
  <2>4. r.chosen \in Seq(X) /\ Range(r.chosen) = X /\ IsInjective(r.chosen)
    BY <2>1, <2>2, <2>3
  <2>5. \A t : Holds(r.chosen, t) = HoldsAt(s.inputs, I, t)
    BY <2>1, <2>2
  <2>6. QED
    BY <2>4, <2>5 DEF X
<1>11. {s.inputs[x] : x \in I} \subseteq Owned \ Range(c.setup.fixedIn)
  BY <1>4, <1>5 DEF Range
<1>12. r.chosen \in Seq(Owned) /\ Range(r.chosen) \cap Range(r.fixedIn) = {}
  <2> DEFINE X == {s.inputs[x] : x \in I}
  <2>1. X \subseteq Owned /\ r.chosen \in Seq(X)
    BY <1>10, <1>11
  <2>2. Range(r.chosen) = X /\ r.fixedIn = c.setup.fixedIn
    BY <1>2, <1>10
  <2>3. X \cap Range(c.setup.fixedIn) = {}
    BY <1>11
  <2> HIDE DEF X
  <2>4. QED
    BY <2>1, <2>2, <2>3
<1>13. /\ InputsOf(r) \in Seq(Owned) /\ IsInjective(InputsOf(r))
       /\ \A t : Holds(InputsOf(r), t) = Holds(r.fixedIn, t) + Holds(r.chosen, t)
  <2>1. r.fixedIn \in Seq(Owned) /\ IsInjective(r.fixedIn)
    BY <1>2, <1>4 DEF SetupOk
  <2>2. QED
    BY <1>10, <1>12, <2>1, OwnedFacts, FixedThenChosen
<1>14. Unbalanced(r)
  <2>1. /\ IsAssets(c.inAssets)
        /\ \A t : Have(c.inMain, c.inAssets, t)
                    = Holds(c.setup.fixedIn, t) + HoldsAt(s.inputs, I, t) + Holds(c.again, t)
    BY <1>1 DEF RandomCallOk, c, I
  <2>2. c.setup.outMain = MainOf(c.setup.fixedOut) /\ c.setup.outAssets = AssetsOf(c.setup.fixedOut)
    BY <1>4 DEF SetupOk
  <2>3. QED
    BY <1>2, <1>10, <1>13, <2>1, <2>2 DEF Unbalanced
<1>15. ResultOk(r, Owned, estimator')
  <2>1. AgainOk(c.again, c.setup.fixedOut)
    BY <1>1 DEF RandomCallOk
  <2>2. QED
    BY <1>2, <1>4, <1>13, <1>14, <2>1 DEF ResultOk, SetupOk
<1>16. RestOk
  BY <1>3 DEF RestOk, IInv, StoreOk
<1>17. IInv'
  BY <1>3, <1>15, <1>16, Returns DEF r
<1>18. ChoiceStep
  <2>1. AvailableOf(s) = c.given \ Range(r.chosen)
    <3>1. AvailableOf(s) = {s.inputs[x] : x \in s.indices}
      BY DEF AvailableOf
    <3>2. QED
      BY <1>4, <1>5, <1>9, <1>10, <3>1
  <2>2. Range(r.chosen) \subseteq c.given
    BY <1>5, <1>10
  <2>3. NowAvailable = AvailableOf(s)
    BY <1>1, <1>3 DEF NowAvailable, c, s
  <2>4. QED
    BY <1>10, <2>1, <2>2, <2>3 DEF ChoiceStep, r, c
<1>19. QED
  BY <1>17, <1>18

-----------------------------------------------------------------------------
(* Thermostat: the beginning of a call, and the steps that leave its       *)
(* inputs and its changes alone.                                           *)

LEMMA ThermostatCall ==
  ASSUME IInv, call.algo = "thermostat"
  PROVE  ThermostatOk(call, Owned) /\ call # NoCall /\ result = NoResult
BY NoneSelected DEF IInv, CallOk, RandomCallOk, LargestOk

LEMMA OrderOfAll ==
  ASSUME NEW S, IsFiniteSet(S), NEW order \in SetToSeqs(S)
  PROVE  order \in Seq(Range(order)) /\ Range(order) = S /\ IsInjective(order)
<1> DEFINE n == Cardinality(S)
           D == 1..n
<1>1. n \in Nat /\ IsFiniteSet(D) /\ Cardinality(D) = n
  <2>1. n \in Nat
    BY FS_CardinalityType
  <2>2. QED
    BY <2>1, FS_Interval
<1>2. order \in [D -> S] /\ \A i, j \in D : i # j => order[i] # order[j]
  BY DEF SetToSeqs
<1> HIDE DEF n
<1>3. order \in Injection(D, S)
  <2>1. IsInjective(order)
    BY <1>2 DEF IsInjective
  <2>2. QED
    BY <1>2, <2>1 DEF Injection, IsInjective
<1>4. order \in Surjection(D, S)
  BY <1>1, <1>3, FS_Injection DEF n
<1>5. DOMAIN order = D
  BY <1>2
<1>6. Range(order) = S
  BY <1>2, <1>4, <1>5 DEF Surjection, Range
<1>7. order \in Seq(S)
  BY <1>1, <1>2
<1>8. QED
  BY <1>2, <1>5, <1>6, <1>7 DEF IsInjective

LEMMA ThBeginOk ==
  ASSUME NEW own, \A u \in own : IsOutput(u), NEW setup, SetupOk(setup, own),
         NEW utxos, GoodStore(utxos), utxos.utxos.set \subseteq own \ Range(setup.fixedIn),
         NEW order \in SetToSeqs(DOMAIN AssetBalance(setup.inAssets, setup.outAssets))
  PROVE  ThermostatOk(ThBegin(setup, utxos, order), own)
<1> DEFINE c == ThBegin(setup, utxos, order)
           b == AssetBalance(setup.inAssets, setup.outAssets)
<1>1. /\ c.algo = "thermostat" /\ ThFields \subseteq DOMAIN c /\ c.stage = "assets"
      /\ c.setup = setup /\ c.given = utxos.utxos.set /\ c.utxos = utxos
      /\ c.chosen = <<>> /\ c.balance = Minus(Plus(Balanced, setup.inMain), setup.outMain)
      /\ c.assetBalance = b /\ c.changes = <<>> /\ c.extra = <<>> /\ c.lost = <<>>
      /\ c.order = order /\ c.at = 1
  BY DEF ThBegin, ThFields
<1>2. /\ IsAssets(setup.inAssets) /\ IsAssets(setup.outAssets)
      /\ setup.inMain \in Nat /\ setup.outMain \in Nat
      /\ AreOutputs(setup.fixedIn) /\ AreOutputs(setup.fixedOut)
      /\ \A t : /\ Have(setup.inMain, setup.inAssets, t) = Holds(setup.fixedIn, t)
                /\ Have(setup.outMain, setup.outAssets, t) = Holds(setup.fixedOut, t)
  BY SetupFacts
<1>3. /\ IsFiniteSet(DOMAIN b) /\ Main \notin DOMAIN b
      /\ \A t \in DOMAIN b : /\ IsBalance(b[t])
                             /\ Worth(b[t]) = Of(setup.inAssets, t) - Of(setup.outAssets, t)
      /\ \A t : t \notin DOMAIN b => Of(setup.inAssets, t) = 0 /\ Of(setup.outAssets, t) = 0
  BY <1>2, AssetBalanceFacts
<1> HIDE DEF c
<1>4. Range(<<>>) = {} /\ IsInjective(<<>>) /\ <<>> \in Seq(c.given) /\ DOMAIN <<>> = {}
  BY DEF Range, IsInjective
<1>5. TakenOk(c, own)
  BY <1>1, <1>4 DEF TakenOk
<1>6. ChangesOk(c)
  BY <1>1, <1>3, <1>4, NoOutputs, FS_EmptySet DEF ChangesOk, AreOutputsAt
<1>7. IsBalance(c.balance) /\ Worth(c.balance) = setup.inMain - setup.outMain
  <2> DEFINE p == Plus(Balanced, setup.inMain)
  <2>1. IsBalance(p) /\ Worth(p) = 0 + setup.inMain
    BY <1>2, BalancedFacts, PlusAdds
  <2>2. c.balance = Minus(p, setup.outMain)
    BY <1>1
  <2> HIDE DEF p
  <2>3. IsBalance(c.balance) /\ Worth(c.balance) = Worth(p) - setup.outMain
    BY <1>2, <2>1, <2>2, MinusSubtracts
  <2>4. QED
    BY <1>2, <2>1, <2>3
<1>8. DueOk(c)
  <2> SUFFICES ASSUME NEW t
               PROVE  /\ IsBalance(Due(c, t))
                      /\ Worth(Due(c, t)) = Holds(c.setup.fixedIn, t) + Holds(c.chosen, t)
                                              - Holds(c.setup.fixedOut, t)
                                              - Holds(c.changes, t) - Holds(c.extra, t) - Holds(c.lost, t)
    BY DEF DueOk
  <2>1. /\ Holds(c.chosen, t) = 0 /\ Holds(c.changes, t) = 0 /\ Holds(c.extra, t) = 0 /\ Holds(c.lost, t) = 0
        /\ c.setup = setup
    BY <1>1, NoOutputs
  <2>2. Holds(setup.fixedIn, t) \in Nat /\ Holds(setup.fixedOut, t) \in Nat
    BY <1>2, OutputsFacts
  <2>3. /\ Have(setup.inMain, setup.inAssets, t) = Holds(setup.fixedIn, t)
        /\ Have(setup.outMain, setup.outAssets, t) = Holds(setup.fixedOut, t)
    BY <1>2
  <2>4. /\ IsBalance(Due(c, t))
        /\ Worth(Due(c, t)) = Have(setup.inMain, setup.inAssets, t)
                                - Have(setup.outMain, setup.outAssets, t)
    <3>1. CASE t = Main
      BY <1>7, <3>1 DEF Due, Have
    <3>2. CASE t # Main /\ t \in DOMAIN b
      BY <1>1, <1>3, <3>2 DEF Due, Have
    <3>3. CASE t # Main /\ t \notin DOMAIN b
      BY <1>1, <1>3, <3>3, BalancedFacts DEF Due, Have
    <3>4. QED
      BY <3>1, <3>2, <3>3
  <2>5. QED
    BY <2>1, <2>2, <2>3, <2>4
<1>9. StageOk(c)
  <2>1. IsOrder(c)
    BY <1>1, <1>3, OrderOfAll DEF IsOrder
  <2>2. DOMAIN c.order = 1..Len(c.order) /\ Len(c.order) \in Nat
    BY <2>1 DEF IsOrder
  <2>3. AssetsStage(c)
    BY <1>1, <2>1, <2>2 DEF AssetsStage
  <2>4. QED
    BY <2>3 DEF StageOk
<1>10. ThermostatOk(c, own)
  BY <1>1, <1>5, <1>6, <1>8, <1>9 DEF ThermostatOk
<1>11. QED
  BY <1>10 DEF c

(* d is c at another place of its loops                                    *)
IsMoved(c, d) ==
  /\ ThFields \subseteq DOMAIN d /\ d.algo = c.algo
  /\ d.setup = c.setup /\ d.given = c.given /\ d.utxos = c.utxos /\ d.chosen = c.chosen
  /\ d.balance = c.balance /\ d.assetBalance = c.assetBalance
  /\ d.changes = c.changes /\ d.extra = c.extra /\ d.lost = c.lost
  /\ c.stage = "split" => d.stage = "split"

LEMMA Moves ==
  ASSUME NEW own, NEW c, ThermostatOk(c, own), NEW d, IsMoved(c, d), StageOk(d)
  PROVE  ThermostatOk(d, own)
<1>1. TakenOk(d, own)
  BY DEF ThermostatOk, TakenOk, IsMoved
<1>2. ChangesOk(d)
  BY DEF ThermostatOk, ChangesOk, IsMoved
<1>3. \A t : Due(d, t) = Due(c, t)
  BY DEF IsMoved, Due
<1>4. DueOk(d)
  BY <1>3 DEF ThermostatOk, DueOk, IsMoved
<1>5. QED
  BY <1>1, <1>2, <1>4 DEF ThermostatOk, IsMoved

(* the step of a call that goes on                                         *)
LEMMA ThGoesOn ==
  ASSUME IInv, call.algo = "thermostat", UNCHANGED <<store, payments, fresh, available, random>>,
         result' = result, EstimatorOk(estimator'), ThermostatOk(call', Owned)
  PROVE  IInv' /\ ChoiceStep
<1>1. RestOk
  BY DEF RestOk, IInv, StoreOk
<1>2. QED
  BY <1>1, ThermostatCall, GoesOn DEF CallOk

LEMMA ThEnds ==
  ASSUME IInv, UNCHANGED <<store, payments, fresh, available, random>>,
         EstimatorOk(estimator'), Fail \/ Panic
  PROVE  IInv' /\ ChoiceStep
<1>1. RestOk
  BY DEF RestOk, IInv, StoreOk
<1>2. QED
  BY <1>1, Ends DEF Fail, Panic

LEMMA InStage ==
  ASSUME NEW c, NEW own, ThermostatOk(c, own)
  PROVE  /\ c.stage = "assets"  => AssetsStage(c)
         /\ c.stage = "main"    => MainStage(c)
         /\ c.stage = "regroup" => RegroupStage(c)
         /\ c.stage = "excess"  => ExcessStage(c)
         /\ c.stage = "split"   => SplitStage(c)
BY DEF ThermostatOk, StageOk, AssetsStage, MainStage, RegroupStage, ExcessStage, SplitStage

LEMMA OrderFacts ==
  ASSUME NEW c, IsOrder(c)
  PROVE  /\ DOMAIN c.order = 1..Len(c.order) /\ Len(c.order) \in Nat
         /\ \A k \in DOMAIN c.order : c.order[k] \in DOMAIN c.assetBalance
         /\ \A t \in DOMAIN c.assetBalance : \E k \in DOMAIN c.order : c.order[k] = t
BY DEF IsOrder, Range

LEMMA ThAssetsAreCoveredKeeps ==
  ASSUME IInv, ThAssetsAreCovered, UNCHANGED <<store, payments, fresh>>
  PROVE  IInv' /\ ChoiceStep
<1> DEFINE c == call
           d == call'
<1>1. ThermostatOk(c, Owned) /\ c.algo = "thermostat" /\ c.stage = "assets"
  BY ThermostatCall DEF ThAssetsAreCovered, At
<1>2. AssetsStage(c) /\ ThFields \subseteq DOMAIN c
  BY <1>1, InStage DEF ThermostatOk
<1>3. d = [c EXCEPT !.stage = "main"] /\ c.at \notin DOMAIN c.order
  BY DEF ThAssetsAreCovered
<1>4. IsMoved(c, d) /\ d.stage = "main" /\ d.order = c.order
  BY <1>1, <1>2, <1>3 DEF IsMoved, ThFields
<1> HIDE DEF c, d
<1>5. IsOrder(c) /\ c.at \in Nat \ {0}
  BY <1>2 DEF AssetsStage
<1>6. \A k \in DOMAIN c.order : k < c.at
  BY <1>3, <1>5, OrderFacts
<1>7. IsCovered(c)
  BY <1>2, <1>5, <1>6, OrderFacts DEF AssetsStage, IsCovered
<1>8. StageOk(d)
  BY <1>4, <1>5, <1>7 DEF StageOk, MainStage, IsMoved, IsOrder, IsCovered
<1>9. ThermostatOk(d, Owned)
  BY <1>1, <1>4, <1>8, Moves
<1>10. QED
  BY <1>1, <1>9, ThGoesOn DEF ThAssetsAreCovered, IInv, c, d

LEMMA ThMainIsCoveredKeeps ==
  ASSUME IInv, ThMainIsCovered, UNCHANGED <<store, payments, fresh>>
  PROVE  IInv' /\ ChoiceStep
<1> DEFINE c == call
           d == call'
           order == IF c.order = <<>> THEN <<Main>> ELSE c.order
<1>1. ThermostatOk(c, Owned) /\ c.algo = "thermostat" /\ c.stage = "main"
  BY ThermostatCall DEF ThMainIsCovered, At
<1>2. MainStage(c) /\ ThFields \subseteq DOMAIN c
  BY <1>1, InStage DEF ThermostatOk
<1>3. d = [c EXCEPT !.stage = "regroup", !.at = 1, !.order = order,
                    !.empty = [k \in DOMAIN order |-> FALSE]]
  BY DEF ThMainIsCovered
<1>4. IsMoved(c, d) /\ d.stage = "regroup" /\ d.order = order /\ d.at = 1
  <2> HIDE DEF order, c, d
  <2>1. QED
    BY <1>1, <1>2, <1>3 DEF IsMoved, ThFields
<1> HIDE DEF c, d
<1>5. IsOrder(c) /\ IsCovered(c)
  BY <1>2 DEF MainStage
<1>6. d.assetBalance = c.assetBalance
  BY <1>4 DEF IsMoved
<1>7. IsCovered(d)
  BY <1>5, <1>6 DEF IsCovered
<1>8. RegroupStage(d)
  <2>1. CASE c.order = <<>>
    <3>1. d.order = <<Main>>
      BY <1>4, <2>1
    <3>2. d.at \in DOMAIN d.order
      BY <1>4, <3>1
    <3>3. DOMAIN d.assetBalance = {}
      BY <1>5, <1>6, <2>1 DEF IsOrder, Range
    <3>4. QED
      BY <1>4, <1>7, <3>1, <3>2, <3>3 DEF RegroupStage
  <2>2. CASE c.order # <<>>
    <3>1. d.order = c.order
      BY <1>4, <2>2
    <3>2. 1 \in DOMAIN c.order
      BY <1>5, <2>2 DEF IsOrder
    <3>3. IsOrder(d)
      BY <1>5, <1>6, <3>1 DEF IsOrder
    <3>4. QED
      BY <1>4, <1>7, <3>1, <3>2, <3>3 DEF RegroupStage
  <2>3. QED
    BY <2>1, <2>2
<1>9. ThermostatOk(d, Owned)
  BY <1>1, <1>4, <1>8, Moves DEF StageOk
<1>10. QED
  BY <1>1, <1>9, ThGoesOn DEF ThMainIsCovered, IInv, c, d

LEMMA ThCannotRegroupKeeps ==
  ASSUME IInv, ThCannotRegroup, UNCHANGED <<store, payments, fresh>>
  PROVE  IInv' /\ ChoiceStep
BY ThEnds DEF ThCannotRegroup, IInv

LEMMA ThRegroupedKeeps ==
  ASSUME IInv, ThRegrouped, UNCHANGED <<store, payments, fresh>>
  PROVE  IInv' /\ ChoiceStep
<1> DEFINE c == call
           d == call'
           order == IF c.order = <<Main>> THEN <<>> ELSE c.order
<1>1. ThermostatOk(c, Owned) /\ c.algo = "thermostat" /\ c.stage = "regroup"
  BY ThermostatCall DEF ThRegrouped, At
<1>2. RegroupStage(c) /\ ThFields \subseteq DOMAIN c /\ Main \notin DOMAIN c.assetBalance
  BY <1>1, InStage DEF ThermostatOk, ChangesOk
<1>3. d = [c EXCEPT !.stage = "excess", !.at = 1, !.order = order]
  BY DEF ThRegrouped
<1>4. IsMoved(c, d) /\ d.stage = "excess" /\ d.order = order /\ d.at = 1
  <2> HIDE DEF order, c, d
  <2>1. QED
    BY <1>1, <1>2, <1>3 DEF IsMoved, ThFields
<1> HIDE DEF c, d
<1>5. d.assetBalance = c.assetBalance
  BY <1>4 DEF IsMoved
<1>6. IsCovered(d)
  BY <1>2, <1>5 DEF IsCovered, RegroupStage
<1>7. IsOrder(d)
  <2>1. CASE c.order = <<Main>>
    <3>1. d.order = <<>>
      BY <1>4, <2>1
    <3>2. ~IsOrder(c)
      <4>1. c.order[1] = Main /\ 1 \in DOMAIN c.order
        BY <2>1
      <4>2. QED
        BY <1>2, <4>1, OrderFacts
    <3>3. DOMAIN d.assetBalance = {}
      BY <1>2, <1>5, <3>2 DEF RegroupStage
    <3>4. Range(<<>>) = {}
      BY DEF Range
    <3>5. QED
      BY <3>1, <3>3, <3>4 DEF IsOrder
  <2>2. CASE c.order # <<Main>>
    BY <1>2, <1>4, <1>5, <2>2 DEF IsOrder, RegroupStage
  <2>3. QED
    BY <2>1, <2>2
<1>8. DOMAIN d.order = 1..Len(d.order) /\ Len(d.order) \in Nat
  BY <1>7, OrderFacts
<1>9. ExcessStage(d)
  BY <1>4, <1>6, <1>7, <1>8 DEF ExcessStage
<1>10. ThermostatOk(d, Owned)
  BY <1>1, <1>4, <1>9, Moves DEF StageOk
<1>11. QED
  BY <1>1, <1>10, ThGoesOn DEF ThRegrouped, IInv, c, d

(* what the lists and the changes of the thermostat hold                   *)
LEMMA HeldIsNat ==
  ASSUME NEW own, \A u \in own : IsOutput(u), NEW c, TakenOk(c, own), ChangesOk(c), NEW t
  PROVE  /\ Holds(c.setup.fixedIn, t) \in Nat /\ Holds(c.chosen, t) \in Nat
         /\ Holds(c.setup.fixedOut, t) \in Nat /\ Holds(c.changes, t) \in Nat
         /\ Holds(c.extra, t) \in Nat /\ Holds(c.lost, t) \in Nat
<1>1. AreOutputs(c.setup.fixedIn) /\ AreOutputs(c.setup.fixedOut)
  BY SetupFacts DEF TakenOk
<1>2. c.chosen \in Seq(c.given) /\ c.given \subseteq own
  BY DEF TakenOk
<1>3. AreOutputs(c.chosen)
  BY <1>2, OutputsIn
<1>4. Holds(c.changes, t) \in Nat
  BY HoldsIsAt, HoldsAtNat DEF ChangesOk
<1>5. QED
  BY <1>1, <1>3, <1>4, OutputsFacts DEF ChangesOk

-----------------------------------------------------------------------------
(* Thermostat: selecting an input.                                         *)

LEMMA CandidatesHold ==
  ASSUME NEW t, NEW u \in Candidates(t)
  PROVE  u \in call.utxos.utxos.set /\ DOMAIN u.assets \subseteq {t}
<1>1. Candidates(t) \subseteq {w \in call.utxos.utxos.set : DOMAIN w.assets \subseteq {t}}
  BY LargestIn DEF Candidates
<1>2. QED
  BY <1>1

(* the assets after u, of a token that is known                            *)
HasGained(b, u, d) ==
  /\ DOMAIN d = DOMAIN b \cup DOMAIN u.assets
  /\ \A t \in DOMAIN d :
       d[t] = IF t \in DOMAIN u.assets
              THEN Plus(IF t \in DOMAIN b THEN b[t] ELSE Balanced, u.assets[t])
              ELSE b[t]

(* d is c with the input u                                                 *)
IsWith(c, u, d) ==
  /\ ThFields \subseteq DOMAIN d /\ d.algo = c.algo /\ d.stage = c.stage
  /\ Takes(c, u, d)
  /\ d.balance = Plus(c.balance, u.value) /\ HasGained(c.assetBalance, u, d.assetBalance)
  /\ d.changes = c.changes /\ d.extra = c.extra /\ d.lost = c.lost /\ d.order = c.order

LEMMA WithInputIs ==
  ASSUME NEW c, ThFields \subseteq DOMAIN c, NEW u \in c.utxos.utxos.set
  PROVE  IsWith(c, u, WithInput(c, u)) /\ WithInput(c, u).at = c.at
<1> DEFINE d == WithInput(c, u)
           b == [t \in DOMAIN c.assetBalance \cup DOMAIN u.assets |->
                   IF t \in DOMAIN u.assets
                   THEN Plus(IF t \in DOMAIN c.assetBalance THEN c.assetBalance[t] ELSE Balanced,
                             u.assets[t])
                   ELSE c.assetBalance[t]]
<1>1. d = [c EXCEPT !.utxos = RemoveUtxo(@, u), !.chosen = Append(@, u),
                    !.balance = Plus(@, u.value), !.assetBalance = b]
  BY Zenon DEF WithInput, b, d
<1>2. HasGained(c.assetBalance, u, b)
  BY DEF HasGained
<1> HIDE DEF b, d
<1>3. /\ DOMAIN d = DOMAIN c /\ d.algo = c.algo /\ d.stage = c.stage /\ d.at = c.at
      /\ d.setup = c.setup /\ d.given = c.given /\ d.utxos = RemoveUtxo(c.utxos, u)
      /\ d.chosen = Append(c.chosen, u) /\ d.balance = Plus(c.balance, u.value)
      /\ d.assetBalance = b /\ d.changes = c.changes /\ d.extra = c.extra /\ d.lost = c.lost
      /\ d.order = c.order
  BY <1>1 DEF ThFields
<1>4. IsWith(c, u, d) /\ d.at = c.at
  BY <1>2, <1>3 DEF IsWith, Takes
<1>5. QED
  BY <1>4 DEF d

LEMMA InputIsCounted ==
  ASSUME NEW own, \A u \in own : IsOutput(u),
         NEW c, ThermostatOk(c, own), c.stage # "split",
         NEW t \in DOMAIN c.assetBalance \cup {Main},
         NEW u, DOMAIN u.assets \subseteq {t}, NEW d, IsWith(c, u, d)
  PROVE  /\ TakenOk(d, own) /\ ChangesOk(d) /\ DueOk(d)
         /\ DOMAIN d.assetBalance = DOMAIN c.assetBalance
         /\ \A s \in DOMAIN c.assetBalance :
              ~InDebt(c.assetBalance[s]) => ~InDebt(d.assetBalance[s])
<1>1. TakenOk(c, own) /\ ChangesOk(c) /\ DueOk(c)
  BY DEF ThermostatOk
<1>2. /\ TakenOk(d, own) /\ IsOutput(u)
      /\ \A s : Holds(d.chosen, s) = Holds(c.chosen, s) + In(u, s)
  <2>1. Takes(c, u, d)
    BY DEF IsWith
  <2>2. QED
    BY <1>1, <2>1, TakeOne
<1>3. DOMAIN u.assets \subseteq DOMAIN c.assetBalance /\ Main \notin DOMAIN u.assets
  BY <1>2 DEF IsOutput, IsAssets
<1>4. DOMAIN d.assetBalance = DOMAIN c.assetBalance
  BY <1>3 DEF IsWith, HasGained
<1>5. ChangesOk(d)
  BY <1>1, <1>4 DEF IsWith, ChangesOk
<1>6. \A s : In(u, s) \in Nat
  BY <1>2, InNat
<1>7. ASSUME NEW s
      PROVE  IsBalance(Due(d, s)) /\ Worth(Due(d, s)) = Worth(Due(c, s)) + In(u, s)
  <2>1. IsBalance(Due(c, s))
    BY <1>1 DEF DueOk
  <2>2. /\ IsBalance(Plus(Due(c, s), In(u, s)))
        /\ Worth(Plus(Due(c, s), In(u, s))) = Worth(Due(c, s)) + In(u, s)
    BY <1>6, <2>1, PlusAdds
  <2>3. CASE s = Main
    <3>1. Due(d, s) = Plus(Due(c, s), In(u, s))
      BY <2>3 DEF IsWith, Due, In
    <3>2. QED
      BY <2>2, <3>1
  <2>4. CASE s # Main /\ s \in DOMAIN u.assets
    <3>1. /\ s \in DOMAIN c.assetBalance /\ s \in DOMAIN d.assetBalance
          /\ d.assetBalance[s] = Plus(c.assetBalance[s], u.assets[s])
      BY <1>3, <1>4, <2>4 DEF IsWith, HasGained
    <3>2. Due(d, s) = Plus(Due(c, s), In(u, s))
      BY <2>4, <3>1 DEF Due, In, Of
    <3>3. QED
      BY <2>2, <3>2
  <2>5. CASE s # Main /\ s \notin DOMAIN u.assets
    <3>1. s \in DOMAIN d.assetBalance => d.assetBalance[s] = c.assetBalance[s]
      BY <1>4, <2>5 DEF IsWith, HasGained
    <3>2. Due(d, s) = Due(c, s) /\ In(u, s) = 0
      BY <1>4, <2>5, <3>1 DEF Due, In, Of
    <3>3. Worth(Due(c, s)) \in Int
      BY <2>1, SideOfWorth
    <3>4. QED
      BY <2>1, <3>2, <3>3
  <2>6. QED
    BY <2>3, <2>4, <2>5
<1>8. DueOk(d)
  <2> SUFFICES ASSUME NEW s
               PROVE  /\ IsBalance(Due(d, s))
                      /\ Worth(Due(d, s)) = Holds(d.setup.fixedIn, s) + Holds(d.chosen, s)
                                              - Holds(d.setup.fixedOut, s)
                                              - Holds(d.changes, s) - Holds(d.extra, s) - Holds(d.lost, s)
    BY DEF DueOk
  <2>1. Worth(Due(c, s)) = Holds(c.setup.fixedIn, s) + Holds(c.chosen, s)
                             - Holds(c.setup.fixedOut, s)
                             - Holds(c.changes, s) - Holds(c.extra, s) - Holds(c.lost, s)
    BY <1>1 DEF DueOk
  <2>2. d.setup = c.setup /\ d.changes = c.changes /\ d.extra = c.extra /\ d.lost = c.lost
    BY DEF IsWith, Takes
  <2>3. /\ Holds(c.setup.fixedIn, s) \in Nat /\ Holds(c.chosen, s) \in Nat
        /\ Holds(c.setup.fixedOut, s) \in Nat /\ Holds(c.changes, s) \in Nat
        /\ Holds(c.extra, s) \in Nat /\ Holds(c.lost, s) \in Nat
    BY <1>1, HeldIsNat
  <2>4. Holds(d.chosen, s) = Holds(c.chosen, s) + In(u, s) /\ In(u, s) \in Nat
    BY <1>2, <1>6
  <2>5. IsBalance(Due(d, s)) /\ Worth(Due(d, s)) = Worth(Due(c, s)) + In(u, s)
    BY <1>7
  <2>6. QED
    BY <2>1, <2>2, <2>3, <2>4, <2>5
<1>9. ASSUME NEW s \in DOMAIN c.assetBalance, ~InDebt(c.assetBalance[s])
      PROVE  ~InDebt(d.assetBalance[s])
  <2>1. /\ IsBalance(Due(d, s)) /\ Worth(Due(d, s)) = Worth(Due(c, s)) + In(u, s)
        /\ IsBalance(Due(c, s)) /\ In(u, s) \in Nat
    BY <1>1, <1>6, <1>7 DEF DueOk
  <2>2. Due(c, s) = c.assetBalance[s] /\ Due(d, s) = d.assetBalance[s]
    BY <1>1, <1>4 DEF Due, ChangesOk
  <2>3. ~(Worth(Due(c, s)) < 0) /\ Worth(Due(c, s)) \in Int
    BY <1>9, <2>1, <2>2, SideOfWorth
  <2>4. ~(Worth(Due(d, s)) < 0)
    BY <2>1, <2>3
  <2>5. QED
    BY <2>1, <2>2, <2>4, SideOfWorth
<1>10. QED
  BY <1>2, <1>4, <1>5, <1>8, <1>9

LEMMA ThCoverAssetKeeps ==
  ASSUME IInv, ThCoverAsset, UNCHANGED <<store, payments, fresh>>
  PROVE  IInv' /\ ChoiceStep
<1> DEFINE c == call
           d == call'
<1>1. ThermostatOk(c, Owned) /\ c.algo = "thermostat" /\ c.stage = "assets"
  BY ThermostatCall DEF ThCoverAsset, At
<1>2. AssetsStage(c) /\ ThFields \subseteq DOMAIN c
  BY <1>1, InStage DEF ThermostatOk
<1>3. CASE Candidates(Asset) = {}
  BY <1>3, ThEnds DEF ThCoverAsset, SelectInputFor, IInv
<1>4. CASE Candidates(Asset) # {}
  <2>1. PICK u \in Candidates(Asset) : d = WithInput(c, u)
    BY <1>4 DEF ThCoverAsset, SelectInputFor
  <2>2. u \in c.utxos.utxos.set /\ DOMAIN u.assets \subseteq {Asset}
    BY CandidatesHold
  <2>3. Asset \in DOMAIN c.assetBalance
    BY <1>2, OrderFacts DEF AssetsStage, Asset, ThCoverAsset
  <2>4. EstimatorOk(estimator') /\ result' = result
    BY <1>4, AddInputsFacts DEF ThCoverAsset, SelectInputFor, IInv
  <2> HIDE DEF c, d
  <2>5. IsWith(c, u, d) /\ d.at = c.at
    BY <1>2, <2>1, <2>2, WithInputIs
  <2>6. /\ TakenOk(d, Owned) /\ ChangesOk(d) /\ DueOk(d)
        /\ DOMAIN d.assetBalance = DOMAIN c.assetBalance
        /\ \A s \in DOMAIN c.assetBalance :
             ~InDebt(c.assetBalance[s]) => ~InDebt(d.assetBalance[s])
    BY <1>1, <2>2, <2>3, <2>5, OwnedFacts, InputIsCounted
  <2>7. d.order = c.order /\ d.stage = c.stage
    BY <2>5 DEF IsWith
  <2>8. AssetsStage(d)
    BY <1>2, <2>5, <2>6, <2>7, OrderFacts DEF AssetsStage, IsOrder
  <2>9. ThermostatOk(d, Owned)
    BY <1>1, <2>5, <2>6, <2>8 DEF ThermostatOk, IsWith, StageOk
  <2>10. QED
    BY <1>1, <2>4, <2>9, ThGoesOn DEF ThCoverAsset, c, d
<1>5. QED
  BY <1>3, <1>4

LEMMA ThCoverMainKeeps ==
  ASSUME IInv, ThCoverMain, UNCHANGED <<store, payments, fresh>>
  PROVE  IInv' /\ ChoiceStep
<1> DEFINE c == call
           d == call'
<1>1. ThermostatOk(c, Owned) /\ c.algo = "thermostat" /\ c.stage = "main"
  BY ThermostatCall DEF ThCoverMain, At
<1>2. MainStage(c) /\ ThFields \subseteq DOMAIN c
  BY <1>1, InStage DEF ThermostatOk
<1>3. CASE Candidates(Main) = {}
  BY <1>3, ThEnds DEF ThCoverMain, SelectInputFor, IInv
<1>4. CASE Candidates(Main) # {}
  <2>1. PICK u \in Candidates(Main) : d = WithInput(c, u)
    BY <1>4 DEF ThCoverMain, SelectInputFor
  <2>2. u \in c.utxos.utxos.set /\ DOMAIN u.assets \subseteq {Main}
    BY CandidatesHold
  <2>3. EstimatorOk(estimator') /\ result' = result
    BY <1>4, AddInputsFacts DEF ThCoverMain, SelectInputFor, IInv
  <2> HIDE DEF c, d
  <2>4. IsWith(c, u, d)
    BY <1>2, <2>1, <2>2, WithInputIs
  <2>5. /\ TakenOk(d, Owned) /\ ChangesOk(d) /\ DueOk(d)
        /\ DOMAIN d.assetBalance = DOMAIN c.assetBalance
        /\ \A s \in DOMAIN c.assetBalance :
             ~InDebt(c.assetBalance[s]) => ~InDebt(d.assetBalance[s])
    BY <1>1, <2>2, <2>4, OwnedFacts, InputIsCounted
  <2>6. d.order = c.order /\ d.stage = c.stage
    BY <2>4 DEF IsWith
  <2>7. MainStage(d)
    BY <1>2, <2>5, <2>6 DEF MainStage, IsOrder, IsCovered
  <2>8. ThermostatOk(d, Owned)
    BY <1>1, <2>4, <2>5, <2>7 DEF ThermostatOk, IsWith, StageOk
  <2>9. QED
    BY <1>1, <2>3, <2>8, ThGoesOn DEF ThCoverMain, c, d
<1>5. QED
  BY <1>3, <1>4

LEMMA NextInTurnIn ==
  ASSUME NEW k \in Nat, Len(call.order) \in Nat \ {0}
  PROVE  NextInTurn(k) \in 1..Len(call.order)
<1> DEFINE n == Len(call.order)
<1> HIDE DEF n
<1>1. n \in Nat \ {0}
  BY DEF n
<1>2. (k % n) + 1 \in 1..n
  BY <1>1
<1>3. QED
  BY <1>2 DEF NextInTurn, n

LEMMA ThRegroupKeeps ==
  ASSUME IInv, ThRegroup, UNCHANGED <<store, payments, fresh>>
  PROVE  IInv' /\ ChoiceStep
<1> DEFINE c == call
           d == call'
<1>1. ThermostatOk(c, Owned) /\ c.algo = "thermostat" /\ c.stage = "regroup"
  BY ThermostatCall DEF ThRegroup, At
<1>2. RegroupStage(c) /\ ThFields \subseteq DOMAIN c
  BY <1>1, InStage DEF ThermostatOk
<1>3. /\ DOMAIN c.order = 1..Len(c.order) /\ Len(c.order) \in Nat
      /\ Asset \in DOMAIN c.assetBalance \cup {Main}
  <2>1. CASE c.order = <<Main>> /\ DOMAIN c.assetBalance = {}
    <3>1. DOMAIN c.order = {1} /\ Len(c.order) = 1 /\ c.order[1] = Main
      BY <2>1
    <3>2. Asset = Main
      BY <1>2, <3>1 DEF RegroupStage, Asset
    <3>3. QED
      BY <3>1, <3>2
  <2>2. CASE IsOrder(c)
    BY <1>2, <2>2, OrderFacts DEF RegroupStage, Asset
  <2>3. QED
    BY <1>2, <2>1, <2>2 DEF RegroupStage
<1>4. NextInTurn(c.at) \in DOMAIN c.order
  <2>1. c.at \in 1..Len(c.order)
    BY <1>2, <1>3 DEF RegroupStage
  <2>2. c.at \in Nat /\ Len(c.order) \in Nat \ {0}
    BY <1>3, <2>1
  <2>3. QED
    BY <1>3, <2>2, NextInTurnIn
<1>5. CASE /\ d = [c EXCEPT !.empty[c.at] = TRUE, !.at = NextInTurn(@)]
           /\ UNCHANGED <<estimator, result>>
  <2>1. IsMoved(c, d) /\ d.stage = "regroup" /\ d.order = c.order /\ d.at = NextInTurn(c.at)
    <3> HIDE DEF c, d
    <3>1. QED
      BY <1>1, <1>2, <1>5 DEF IsMoved, ThFields
  <2> HIDE DEF c, d
  <2>2. d.assetBalance = c.assetBalance
    BY <2>1 DEF IsMoved
  <2>3. RegroupStage(d)
    BY <1>2, <1>4, <2>1, <2>2 DEF RegroupStage, IsOrder, IsCovered
  <2>4. ThermostatOk(d, Owned)
    BY <1>1, <2>1, <2>3, Moves DEF StageOk
  <2>5. QED
    BY <1>1, <1>5, <2>4, ThGoesOn DEF ThRegroup, IInv, c, d
<1>6. CASE /\ \E u \in Candidates(Asset) : d = [WithInput(c, u) EXCEPT !.at = NextInTurn(@)]
           /\ estimator' = AddInputs(estimator, 1) /\ result' = result
  <2>1. PICK u \in Candidates(Asset) : d = [WithInput(c, u) EXCEPT !.at = NextInTurn(@)]
    BY <1>6
  <2>2. u \in c.utxos.utxos.set /\ DOMAIN u.assets \subseteq {Asset}
    BY CandidatesHold
  <2>3. EstimatorOk(estimator') /\ result' = result
    BY <1>6, AddInputsFacts DEF IInv
  <2> DEFINE b == WithInput(c, u)
  <2>4. IsWith(c, u, b) /\ b.at = c.at
    BY <1>2, <2>2, WithInputIs
  <2>5. d = [b EXCEPT !.at = NextInTurn(@)]
    BY <2>1
  <2> HIDE DEF b, c, d
  <2>6. IsWith(c, u, d) /\ d.at = NextInTurn(c.at)
    BY <2>4, <2>5 DEF IsWith, Takes, ThFields
  <2>7. /\ TakenOk(d, Owned) /\ ChangesOk(d) /\ DueOk(d)
        /\ DOMAIN d.assetBalance = DOMAIN c.assetBalance
        /\ \A s \in DOMAIN c.assetBalance :
             ~InDebt(c.assetBalance[s]) => ~InDebt(d.assetBalance[s])
    BY <1>1, <1>3, <2>2, <2>6, OwnedFacts, InputIsCounted
  <2>8. d.order = c.order /\ d.stage = c.stage
    BY <2>6 DEF IsWith
  <2>9. RegroupStage(d)
    BY <1>2, <1>4, <2>6, <2>7, <2>8 DEF RegroupStage, IsOrder, IsCovered
  <2>10. ThermostatOk(d, Owned)
    BY <1>1, <2>6, <2>7, <2>9 DEF ThermostatOk, IsWith, StageOk
  <2>11. QED
    BY <1>1, <2>3, <2>10, ThGoesOn DEF ThRegroup, c, d
<1>7. QED
  BY <1>5, <1>6 DEF ThRegroup

-----------------------------------------------------------------------------
(* Thermostat: the excess of an asset goes to its change.                  *)

LEMMA MaxOfTwo ==
  ASSUME NEW a \in Nat, NEW b \in Nat
  PROVE  Max({a, b}) \in Nat /\ Max({a, b}) >= a /\ Max({a, b}) >= b
<1> DEFINE m == IF a <= b THEN b ELSE a
<1>1. m \in {a, b} /\ \A y \in {a, b} : m >= y
  OBVIOUS
<1>2. \A x \in {a, b} : (\A y \in {a, b} : x >= y) => x = m
  OBVIOUS
<1>3. Max({a, b}) = m
  BY <1>1, <1>2 DEF Max
<1>4. QED
  BY <1>3

LEMMA HalfFacts ==
  ASSUME NEW v \in Nat
  PROVE  Half(v) \in Nat /\ 2 * Half(v) <= v /\ v <= 2 * Half(v) + 1
BY DEF Half

LEMMA HeldFacts ==
  ASSUME NEW v \in Nat
  PROVE  Held(v) \in Nat /\ Held(v) >= ThermostatMin
BY ConfigIsUsable DEF Held

LEMMA CurrentBalanceFacts ==
  ASSUME IInv, call.algo = "thermostat"
  PROVE  /\ IsBalance(CurrentBalance) /\ MainExcess \in Nat
         /\ IsBalance(call.balance)
<1>1. IsBalance(Due(call, Main))
  BY ThermostatCall DEF ThermostatOk, DueOk
<1>2. IsBalance(call.balance)
  BY <1>1 DEF Due
<1>3. MinRequiredFee(estimator) \in Nat
  BY AddOutputsFacts DEF IInv
<1>4. IsBalance(CurrentBalance)
  BY <1>2, <1>3, MinusSubtracts DEF CurrentBalance
<1>5. MainExcess \in Nat
  BY <1>4, SideOfWorth DEF MainExcess
<1>6. QED
  BY <1>2, <1>4, <1>5

LEMMA NewValueNat ==
  ASSUME IInv, call.algo = "thermostat"
  PROVE  NewValue \in Nat
<1> DEFINE value == Max({MainExcess, MinValueForOutput(estimator)})
<1>1. /\ MinValueForOutput(estimator) \in Nat /\ FeeForOutput(estimator) \in Nat
      /\ MainExcess \in Nat
  BY CurrentBalanceFacts, FeeForOutputIs DEF IInv
<1>2. value \in Nat
  BY <1>1, MaxOfTwo
<1>3. NewValue = IF value < MinValueForOutput(estimator) + FeeForOutput(estimator)
                 THEN value ELSE value - FeeForOutput(estimator)
  BY DEF NewValue
<1> HIDE DEF value
<1>4. QED
  BY <1>1, <1>2, <1>3

(* d is c with the excess of the token t, and more of the main token       *)
IsAccumulated(c, t, d) ==
  LET old == IF t \in DOMAIN c.changes THEN c.changes[t] ELSE [value |-> 0, assets |-> NoAssets]
  IN
  /\ ThFields \subseteq DOMAIN d /\ d.algo = c.algo /\ d.stage = c.stage
  /\ d.setup = c.setup /\ d.given = c.given /\ d.utxos = c.utxos /\ d.chosen = c.chosen
  /\ d.extra = c.extra /\ d.lost = c.lost /\ d.order = c.order
  /\ \E held \in Nat :
       /\ held >= ThermostatMin
       /\ IsBalance(d.balance) /\ Worth(d.balance) = Worth(c.balance) + old.value - held
       /\ d.changes = Put(c.changes, t,
                          [value  |-> held,
                           assets |-> Together(old.assets, Single(t, c.assetBalance[t].amount))])
  /\ d.assetBalance = [c.assetBalance EXCEPT ![t] = Minus(@, c.assetBalance[t].amount)]

LEMMA AccumulatedIs ==
  ASSUME IInv, call.algo = "thermostat", call.stage # "split",
         NEW t \in DOMAIN call.assetBalance
  PROVE  IsAccumulated(call, t, Accumulated(call, t)) /\ Accumulated(call, t).at = call.at
<1> DEFINE c == call
           d == Accumulated(call, t)
           excess == c.assetBalance[t].amount
           gained == IF IsNew(t) THEN NewValue ELSE MainExcess
           old == IF t \in DOMAIN c.changes THEN c.changes[t]
                  ELSE [value |-> 0, assets |-> NoAssets]
           value == old.value + gained
           paid == Minus(c.balance, gained)
           balance == IF Held(value) < value THEN Plus(paid, value - Held(value))
                                             ELSE Minus(paid, Held(value) - value)
           changes == Put(c.changes, t, [value  |-> Held(value),
                                         assets |-> Together(old.assets, Single(t, excess))])
<1>1. ThermostatOk(c, Owned) /\ ThFields \subseteq DOMAIN c
  BY ThermostatCall DEF ThermostatOk
<1>2. gained \in Nat /\ IsBalance(c.balance)
  BY CurrentBalanceFacts, NewValueNat
<1>3. old.value \in Nat
  BY <1>1 DEF ThermostatOk, ChangesOk, AreOutputsAt, IsOutput
<1>4. d = [c EXCEPT !.balance = balance, !.assetBalance[t] = Minus(@, excess), !.changes = changes]
  BY Zenon DEF Accumulated, IsNew, c, d, excess, gained, old, value, paid, balance, changes
<1>5. Held(value) \in Nat /\ Held(value) >= ThermostatMin /\ value \in Nat
  BY <1>2, <1>3, HeldFacts
<1>6. IsBalance(balance) /\ Worth(balance) = Worth(c.balance) + old.value - Held(value)
  <2>1. IsBalance(paid) /\ Worth(paid) = Worth(c.balance) - gained /\ Worth(c.balance) \in Int
    BY <1>2, MinusSubtracts, SideOfWorth
  <2>2. value = old.value + gained
    OBVIOUS
  <2>3. balance = IF Held(value) < value THEN Plus(paid, value - Held(value))
                                         ELSE Minus(paid, Held(value) - value)
    OBVIOUS
  <2> HIDE DEF balance, paid, value, gained, old, c
  <2>4. CASE Held(value) < value
    <3>1. value - Held(value) \in Nat
      BY <1>5, <2>4
    <3>2. IsBalance(balance) /\ Worth(balance) = Worth(paid) + (value - Held(value))
      BY <2>1, <2>3, <2>4, <3>1, PlusAdds
    <3>3. QED
      BY <1>2, <1>3, <1>5, <2>1, <2>2, <3>2
  <2>5. CASE ~(Held(value) < value)
    <3>1. Held(value) - value \in Nat
      BY <1>5, <2>5
    <3>2. IsBalance(balance) /\ Worth(balance) = Worth(paid) - (Held(value) - value)
      BY <2>1, <2>3, <2>5, <3>1, MinusSubtracts
    <3>3. QED
      BY <1>2, <1>3, <1>5, <2>1, <2>2, <3>2
  <2>6. QED
    BY <2>4, <2>5
<1> HIDE DEF balance, changes, d, c
<1>7. /\ DOMAIN d = DOMAIN c /\ d.algo = c.algo /\ d.stage = c.stage /\ d.at = c.at
      /\ d.setup = c.setup /\ d.given = c.given /\ d.utxos = c.utxos /\ d.chosen = c.chosen
      /\ d.extra = c.extra /\ d.lost = c.lost /\ d.order = c.order /\ d.balance = balance
      /\ d.changes = changes
      /\ d.assetBalance = [c.assetBalance EXCEPT ![t] = Minus(@, excess)]
  <2> HIDE DEF excess
  <2>1. QED
    BY <1>1, <1>4 DEF ThFields
<1>8. IsAccumulated(c, t, d)
  <2> HIDE DEF value
  <2>1. /\ Held(value) \in Nat /\ Held(value) >= ThermostatMin
        /\ IsBalance(d.balance) /\ Worth(d.balance) = Worth(c.balance) + old.value - Held(value)
        /\ d.changes = Put(c.changes, t, [value  |-> Held(value),
                                          assets |-> Together(old.assets, Single(t, excess))])
    BY <1>5, <1>6, <1>7 DEF changes
  <2>2. QED
    BY <1>1, <1>7, <2>1 DEF IsAccumulated
<1>9. QED
  BY <1>7, <1>8 DEF c, d

(* the excess of t is no longer due, and nothing else changes              *)
IsBalancedAt(c, t, d, own) ==
  /\ TakenOk(d, own) /\ ChangesOk(d) /\ DueOk(d)
  /\ DOMAIN d.assetBalance = DOMAIN c.assetBalance
  /\ InBalance(d.assetBalance[t])
  /\ \A s \in DOMAIN c.assetBalance : s # t => d.assetBalance[s] = c.assetBalance[s]

LEMMA ExcessIsAccumulated ==
  ASSUME NEW own, \A u \in own : IsOutput(u),
         NEW c, ThermostatOk(c, own), c.stage # "split",
         NEW t \in DOMAIN c.assetBalance, InExcess(c.assetBalance[t]),
         NEW d, IsAccumulated(c, t, d)
  PROVE  IsBalancedAt(c, t, d, own)
<1> DEFINE old == IF t \in DOMAIN c.changes THEN c.changes[t]
                  ELSE [value |-> 0, assets |-> NoAssets]
           excess == c.assetBalance[t].amount
           assets == Together(old.assets, Single(t, excess))
<1>1. TakenOk(c, own) /\ ChangesOk(c) /\ DueOk(c)
  BY DEF ThermostatOk
<1>2. t # Main
  BY <1>1 DEF ChangesOk
<1>3. IsBalance(c.assetBalance[t]) /\ c.assetBalance[t] = Due(c, t)
  <2>1. c.assetBalance[t] = Due(c, t)
    BY <1>2 DEF Due
  <2>2. QED
    BY <1>1, <2>1 DEF DueOk
<1>4. /\ excess \in Nat /\ excess = Worth(c.assetBalance[t])
  BY <1>3, SideOfWorth
<1>5. PICK held \in Nat :
        /\ held >= ThermostatMin
        /\ IsBalance(d.balance) /\ Worth(d.balance) = Worth(c.balance) + old.value - held
        /\ d.changes = Put(c.changes, t, [value |-> held, assets |-> assets])
  BY DEF IsAccumulated
<1>6. /\ d.algo = c.algo /\ d.stage = c.stage
      /\ d.setup = c.setup /\ d.given = c.given /\ d.utxos = c.utxos /\ d.chosen = c.chosen
      /\ d.extra = c.extra /\ d.lost = c.lost
      /\ d.assetBalance = [c.assetBalance EXCEPT ![t] = Minus(@, excess)]
  BY DEF IsAccumulated
<1>7. /\ IsOutput(old) /\ \A s : In(old, s) = IF t \in DOMAIN c.changes THEN In(c.changes[t], s) ELSE 0
  <2>1. CASE t \in DOMAIN c.changes
    BY <1>1, <2>1 DEF ChangesOk, AreOutputsAt
  <2>2. CASE t \notin DOMAIN c.changes
    <3>1. old.value = 0 /\ old.assets = NoAssets
      BY <2>2
    <3> HIDE DEF old
    <3>2. QED
      BY <2>2, <3>1, NoAssetsFacts DEF IsOutput, In
  <2>3. QED
    BY <2>1, <2>2
<1> DEFINE new == [value |-> held, assets |-> assets]
<1>8. /\ IsOutput(new) /\ In(new, Main) = held
      /\ In(new, t) = In(old, t) + excess
      /\ \A s : s # t /\ s # Main => In(new, s) = In(old, s)
  <2>1. IsAssets(Single(t, excess)) /\ Of(Single(t, excess), t) = excess
        /\ \A s : s # t => Of(Single(t, excess), s) = 0
    BY <1>2, <1>4, SingleFacts
  <2>2. IsAssets(old.assets) /\ \A s : Of(old.assets, s) \in Nat
    BY <1>7, OfNat DEF IsOutput
  <2>3. IsAssets(assets) /\ \A s : Of(assets, s) = Of(old.assets, s) + Of(Single(t, excess), s)
    BY <2>1, <2>2, TogetherFacts
  <2>4. new.value = held /\ new.assets = assets
    OBVIOUS
  <2> HIDE DEF new, assets, old, excess
  <2>5. QED
    BY <1>2, <2>1, <2>2, <2>3, <2>4 DEF IsOutput, In
<1>9. /\ AreOutputsAt(d.changes, DOMAIN d.changes) /\ DOMAIN d.changes = DOMAIN c.changes \cup {t}
      /\ d.changes[t] = new /\ \A z \in DOMAIN c.changes : z # t => d.changes[z] = c.changes[z]
      /\ \A s : Holds(d.changes, s) = Holds(c.changes, s) - In(old, s) + In(new, s)
  <2>1. d.changes = Put(c.changes, t, new) /\ AreOutputsAt(c.changes, DOMAIN c.changes)
    BY <1>1, <1>5 DEF ChangesOk
  <2> HIDE DEF new, old
  <2>2. IsPut(c.changes, t, new, d.changes)
    BY <1>8, <2>1, PutHolds
  <2>3. \A s : Holds(d.changes, s) = Holds(c.changes, s) - In(old, s) + In(new, s)
    BY <1>7, <2>2 DEF IsPut
  <2>4. QED
    BY <2>2, <2>3 DEF IsPut
<1>10. TakenOk(d, own)
  BY <1>1, <1>6 DEF TakenOk
<1>11. /\ DOMAIN d.assetBalance = DOMAIN c.assetBalance
       /\ d.assetBalance[t] = Minus(c.assetBalance[t], excess)
       /\ \A s \in DOMAIN c.assetBalance : s # t => d.assetBalance[s] = c.assetBalance[s]
  <2> HIDE DEF excess
  <2>1. QED
    BY <1>6
<1>12. IsBalance(d.assetBalance[t]) /\ Worth(d.assetBalance[t]) = 0 /\ InBalance(d.assetBalance[t])
  <2>1. IsBalance(d.assetBalance[t]) /\ Worth(d.assetBalance[t]) = Worth(c.assetBalance[t]) - excess
    BY <1>3, <1>4, <1>11, MinusSubtracts
  <2>2. Worth(d.assetBalance[t]) = 0
    BY <1>4, <2>1
  <2>3. QED
    BY <2>1, <2>2, SideOfWorth
<1>13. ChangesOk(d)
  <2>1. d.changes[t].value = held
    BY <1>9
  <2> HIDE DEF new
  <2>2. \A k \in DOMAIN d.changes : d.changes[k].value >= ThermostatMin
    BY <1>1, <1>5, <1>9, <2>1 DEF ChangesOk
  <2>3. QED
    BY <1>1, <1>2, <1>6, <1>9, <1>11, <2>2 DEF ChangesOk
<1>14. DueOk(d)
  <2> SUFFICES ASSUME NEW s
               PROVE  /\ IsBalance(Due(d, s))
                      /\ Worth(Due(d, s)) = Holds(d.setup.fixedIn, s) + Holds(d.chosen, s)
                                              - Holds(d.setup.fixedOut, s)
                                              - Holds(d.changes, s) - Holds(d.extra, s) - Holds(d.lost, s)
    BY DEF DueOk
  <2>1. /\ IsBalance(Due(c, s))
        /\ Worth(Due(c, s)) = Holds(c.setup.fixedIn, s) + Holds(c.chosen, s)
                                - Holds(c.setup.fixedOut, s)
                                - Holds(c.changes, s) - Holds(c.extra, s) - Holds(c.lost, s)
    BY <1>1 DEF DueOk
  <2>2. /\ Holds(c.setup.fixedIn, s) \in Nat /\ Holds(c.chosen, s) \in Nat
        /\ Holds(c.setup.fixedOut, s) \in Nat /\ Holds(c.changes, s) \in Nat
        /\ Holds(c.extra, s) \in Nat /\ Holds(c.lost, s) \in Nat
    BY <1>1, HeldIsNat
  <2>3. In(old, s) \in Nat /\ In(new, s) \in Nat
    BY <1>7, <1>8, InNat
  <2>4. Holds(d.changes, s) = Holds(c.changes, s) - In(old, s) + In(new, s)
    BY <1>9
  <2> HIDE DEF old, new, excess, assets
  <2>5. IsBalance(Due(d, s)) /\ Worth(Due(d, s)) = Worth(Due(c, s)) + In(old, s) - In(new, s)
    <3>1. CASE s = Main
      <4>1. Due(d, s) = d.balance /\ Due(c, s) = c.balance
        BY <3>1 DEF Due
      <4>2. In(old, s) = old.value /\ In(new, s) = held
        BY <1>8, <3>1 DEF In
      <4>3. QED
        BY <1>5, <4>1, <4>2 DEF old
    <3>2. CASE s = t
      <4>1. Due(d, s) = d.assetBalance[t] /\ Due(c, s) = c.assetBalance[t]
        BY <1>2, <1>11, <3>2 DEF Due
      <4>2. In(new, s) = In(old, s) + excess
        BY <1>8, <3>2
      <4>3. QED
        BY <1>4, <1>12, <2>3, <4>1, <4>2
    <3>3. CASE s # Main /\ s # t
      <4>1. Due(d, s) = Due(c, s)
        BY <1>11, <3>3 DEF Due
      <4>2. In(new, s) = In(old, s)
        BY <1>8, <3>3
      <4>3. Worth(Due(c, s)) \in Int
        BY <2>1, SideOfWorth
      <4>4. QED
        BY <2>1, <2>3, <4>1, <4>2, <4>3
    <3>4. QED
      BY <3>1, <3>2, <3>3
  <2>6. QED
    BY <1>6, <2>1, <2>2, <2>3, <2>4, <2>5
<1>15. QED
  BY <1>10, <1>11, <1>12, <1>13, <1>14 DEF IsBalancedAt

(* what balancing the asset t does to a call in the stages that have one   *)
LEMMA BalancedAsset ==
  ASSUME IInv, call.algo = "thermostat", call.stage \in {"assets", "excess"},
         UNCHANGED <<store, payments, fresh, available, random>>,
         call.at \in DOMAIN call.order, ~InDebt(CurrentBalanceOf(Asset)),
         BalanceExcessOfAsset(Asset)
  PROVE  IInv' /\ ChoiceStep
<1> DEFINE c == call
           d == call'
           t == Asset
<1>1. ThermostatOk(c, Owned) /\ ThFields \subseteq DOMAIN c /\ IsOrder(c)
  BY ThermostatCall, InStage DEF ThermostatOk, AssetsStage, ExcessStage
<1>2. c.at \in Nat \ {0} /\ t \in DOMAIN c.assetBalance /\ t = c.order[c.at] /\ t # Main
  BY <1>1, OrderFacts DEF Asset, ThermostatOk, ChangesOk
<1>3. \A k \in DOMAIN c.order : k \in Nat /\ (k < c.at + 1 <=> k < c.at \/ k = c.at)
  BY <1>1, <1>2, OrderFacts
<1>4. CASE ~InExcess(c.assetBalance[t])
  <2>1. d = [c EXCEPT !.at = @ + 1] /\ UNCHANGED <<estimator, result>>
    BY <1>4 DEF BalanceExcessOfAsset, CurrentBalanceOf
  <2>2. InBalance(c.assetBalance[t])
    <3>1. IsBalance(Due(c, t)) /\ Due(c, t) = c.assetBalance[t]
      BY <1>1, <1>2 DEF ThermostatOk, DueOk, Due
    <3>2. ~InDebt(c.assetBalance[t])
      BY DEF CurrentBalanceOf
    <3>3. QED
      BY <1>4, <3>1, <3>2, SideOfWorth
  <2>3. ~InDebt(c.assetBalance[t])
    BY DEF CurrentBalanceOf
  <2>4. IsMoved(c, d) /\ d.stage = c.stage /\ d.order = c.order /\ d.at = c.at + 1
    <3> HIDE DEF c, d
    <3>1. QED
      BY <1>1, <2>1 DEF IsMoved, ThFields
  <2> HIDE DEF c, d, t
  <2>5. d.assetBalance = c.assetBalance /\ d.at \in Nat \ {0}
    BY <1>2, <2>4 DEF IsMoved
  <2>6. IsOrder(d)
    BY <1>1, <2>4, <2>5 DEF IsOrder
  <2>7. StageOk(d)
    <3>1. CASE c.stage = "assets"
      <4>1. AssetsStage(c)
        BY <1>1, <3>1, InStage
      <4>2. AssetsStage(d)
        BY <1>2, <1>3, <2>3, <2>4, <2>5, <2>6, <4>1 DEF AssetsStage
      <4>3. QED
        BY <4>2 DEF StageOk
    <3>2. CASE c.stage = "excess"
      <4>1. ExcessStage(c)
        BY <1>1, <3>2, InStage
      <4>2. ExcessStage(d)
        BY <1>2, <1>3, <2>2, <2>4, <2>5, <2>6, <4>1 DEF ExcessStage, IsCovered
      <4>3. QED
        BY <4>2 DEF StageOk
    <3>3. QED
      BY <3>1, <3>2 DEF c
  <2>8. ThermostatOk(d, Owned)
    BY <1>1, <2>4, <2>7, Moves
  <2>9. QED
    BY <2>1, <2>8, ThGoesOn DEF IInv, d
<1>5. CASE InExcess(c.assetBalance[t]) /\ call' # NoCall
  <2>1. /\ d = [Accumulated(c, t) EXCEPT !.at = @ + 1] /\ result' = result
        /\ estimator' = IF IsNew(t) THEN AddOutputs(estimator, 1) ELSE estimator
    BY <1>5 DEF BalanceExcessOfAsset, CurrentBalanceOf, Fail, Panic
  <2>2. EstimatorOk(estimator')
    BY <2>1, AddOutputsFacts DEF IInv
  <2> DEFINE b == Accumulated(c, t)
  <2>3. IsAccumulated(c, t, b) /\ b.at = c.at
    BY <1>1, <1>2, AccumulatedIs
  <2> HIDE DEF b, c, d, t
  <2>4. IsAccumulated(c, t, d) /\ d.at = c.at + 1
    <3>1. d = [b EXCEPT !.at = @ + 1]
      BY <2>1 DEF b
    <3>2. ThFields \subseteq DOMAIN b
      BY <2>3 DEF IsAccumulated
    <3>3. /\ ThFields \subseteq DOMAIN d /\ d.algo = b.algo /\ d.stage = b.stage
          /\ d.setup = b.setup /\ d.given = b.given /\ d.utxos = b.utxos /\ d.chosen = b.chosen
          /\ d.extra = b.extra /\ d.lost = b.lost /\ d.order = b.order /\ d.balance = b.balance
          /\ d.changes = b.changes /\ d.assetBalance = b.assetBalance /\ d.at = b.at + 1
      BY <3>1, <3>2 DEF ThFields
    <3>4. QED
      BY <2>3, <3>3 DEF IsAccumulated
  <2>5. /\ TakenOk(d, Owned) /\ ChangesOk(d) /\ DueOk(d)
        /\ DOMAIN d.assetBalance = DOMAIN c.assetBalance
        /\ InBalance(d.assetBalance[t])
        /\ \A s \in DOMAIN c.assetBalance : s # t => d.assetBalance[s] = c.assetBalance[s]
    <3>1. c.stage # "split"
      BY DEF c
    <3>2. IsBalancedAt(c, t, d, Owned)
      BY <1>1, <1>2, <1>5, <2>4, <3>1, OwnedFacts, ExcessIsAccumulated
    <3>3. QED
      BY <3>2 DEF IsBalancedAt
  <2>6. d.stage = c.stage /\ d.order = c.order /\ d.algo = c.algo /\ ThFields \subseteq DOMAIN d
    BY <2>4 DEF IsAccumulated
  <2>7. IsOrder(d)
    BY <1>1, <2>5, <2>6 DEF IsOrder
  <2>8. InBalance(d.assetBalance[t]) /\ ~InDebt(d.assetBalance[t])
    BY <2>5 DEF InBalance, InDebt
  <2>9. StageOk(d)
    <3>1. CASE c.stage = "assets"
      <4>1. AssetsStage(c)
        BY <1>1, <3>1, InStage
      <4>2. \A k \in DOMAIN d.order : k < d.at => ~InDebt(d.assetBalance[d.order[k]])
        BY <1>1, <1>2, <1>3, <2>4, <2>5, <2>6, <2>8, <4>1, OrderFacts DEF AssetsStage
      <4>3. AssetsStage(d)
        BY <1>2, <2>4, <2>6, <2>7, <4>1, <4>2 DEF AssetsStage
      <4>4. QED
        BY <4>3 DEF StageOk
    <3>2. CASE c.stage = "excess"
      <4>1. ExcessStage(c)
        BY <1>1, <3>2, InStage
      <4>2. \A k \in DOMAIN d.order : k < d.at => InBalance(d.assetBalance[d.order[k]])
        BY <1>1, <1>2, <1>3, <2>4, <2>5, <2>6, <2>8, <4>1, OrderFacts DEF ExcessStage
      <4>3. IsCovered(d)
        BY <2>5, <2>8, <4>1 DEF ExcessStage, IsCovered
      <4>4. ExcessStage(d)
        BY <1>2, <2>4, <2>6, <2>7, <4>1, <4>2, <4>3 DEF ExcessStage
      <4>5. QED
        BY <4>4 DEF StageOk
    <3>3. QED
      BY <3>1, <3>2 DEF c
  <2>10. ThermostatOk(d, Owned)
    BY <1>1, <2>5, <2>6, <2>9 DEF ThermostatOk
  <2>11. QED
    BY <2>1, <2>2, <2>10, ThGoesOn DEF d
<1>6. CASE InExcess(c.assetBalance[t]) /\ call' = NoCall
  <2>1. EstimatorOk(estimator')
    BY <1>6, AddOutputsFacts DEF BalanceExcessOfAsset, CurrentBalanceOf, IInv
  <2>2. Fail \/ Panic \/ call' = [Accumulated(c, t) EXCEPT !.at = @ + 1]
    BY <1>6 DEF BalanceExcessOfAsset, CurrentBalanceOf
  <2>3. CASE Fail \/ Panic
    BY <2>1, <2>3, ThEnds
  <2>4. CASE call' = [Accumulated(c, t) EXCEPT !.at = @ + 1]
    <3>1. IsAccumulated(c, t, Accumulated(c, t))
      BY <1>1, <1>2, AccumulatedIs
    <3>2. "algo" \in DOMAIN Accumulated(c, t) /\ Accumulated(c, t).algo = "thermostat"
      BY <3>1 DEF IsAccumulated, ThFields
    <3>3. call'.algo = "thermostat"
      BY <2>4, <3>2
    <3>4. QED
      BY <1>6, <3>3, NoneSelected
  <2>5. QED
    BY <2>2, <2>3, <2>4
<1>7. QED
  BY <1>4, <1>5, <1>6

LEMMA ThBalanceAssetKeeps ==
  ASSUME IInv, ThBalanceAsset, UNCHANGED <<store, payments, fresh>>
  PROVE  IInv' /\ ChoiceStep
BY BalancedAsset DEF ThBalanceAsset, At

LEMMA ThBalanceAssetAgainKeeps ==
  ASSUME IInv, ThBalanceAssetAgain, UNCHANGED <<store, payments, fresh>>
  PROVE  IInv' /\ ChoiceStep
<1>1. call.algo = "thermostat" /\ call.stage = "excess" /\ call.at \in DOMAIN call.order
  BY DEF ThBalanceAssetAgain, At
<1>2. ExcessStage(call)
  BY <1>1, ThermostatCall, InStage
<1>3. ~InDebt(CurrentBalanceOf(Asset))
  BY <1>1, <1>2, OrderFacts DEF ExcessStage, IsCovered, CurrentBalanceOf, Asset
<1>4. QED
  BY <1>1, <1>3, BalancedAsset DEF ThBalanceAssetAgain

-----------------------------------------------------------------------------
(* Thermostat: the excess of the main token, and the changes in two.       *)

LEMMA AllAreBalanced ==
  ASSUME NEW c, ExcessStage(c), c.at \notin DOMAIN c.order
  PROVE  \A t \in DOMAIN c.assetBalance : InBalance(c.assetBalance[t])
<1>1. IsOrder(c) /\ c.at \in Nat \ {0}
  BY DEF ExcessStage
<1>2. \A k \in DOMAIN c.order : k < c.at
  BY <1>1, OrderFacts
<1>3. QED
  BY <1>1, <1>2, OrderFacts DEF ExcessStage

LEMMA ListedInOrder ==
  ASSUME NEW S, IsFiniteSet(S)
  PROVE  Listed(S) \in Seq(S) /\ IsInjective(Listed(S))
BY ListedFacts DEF Enumerates

LEMMA ThBalanceMainKeeps ==
  ASSUME IInv, ThBalanceMain, UNCHANGED <<store, payments, fresh>>
  PROVE  IInv' /\ ChoiceStep
<1> DEFINE c == call
           d == call'
           S == DOMAIN c.changes
           fee == FeeForOutput(estimator)
           value == MainExcess - fee
           new == [value |-> value, assets |-> NoAssets]
<1>1. /\ ThermostatOk(c, Owned) /\ c.algo = "thermostat" /\ c.stage = "excess"
      /\ ThFields \subseteq DOMAIN c /\ TakenOk(c, Owned) /\ ChangesOk(c) /\ DueOk(c)
  BY ThermostatCall DEF ThBalanceMain, At, ThermostatOk
<1>2. ExcessStage(c) /\ \A t \in DOMAIN c.assetBalance : InBalance(c.assetBalance[t])
  BY <1>1, InStage, AllAreBalanced DEF ThBalanceMain
<1>3. IsFiniteSet(S) /\ Main \notin S /\ \A t \in S : c.changes[t].value >= ThermostatMin
  BY <1>1 DEF ChangesOk, AreOutputsAt
<1>4. CASE Fail /\ UNCHANGED estimator
  BY <1>4, ThEnds DEF ThBalanceMain, IInv
<1>5. CASE /\ d = [c EXCEPT !.stage = "split", !.order = Listed(S)]
           /\ UNCHANGED <<estimator, result>>
  <2>1. IsMoved(c, d) /\ d.stage = "split" /\ d.order = Listed(S)
    <3> HIDE DEF c, d, S
    <3>1. QED
      BY <1>1, <1>5 DEF IsMoved, ThFields
  <2> HIDE DEF c, d
  <2>2. d.assetBalance = c.assetBalance /\ d.changes = c.changes
    BY <2>1 DEF IsMoved
  <2>3. d.order \in Seq(S) /\ IsInjective(d.order)
    BY <1>3, <2>1, ListedInOrder
  <2>4. \A k \in DOMAIN d.order : d.order[k] \in S
    BY <2>3
  <2>5. SplitStage(d)
    BY <1>2, <1>3, <2>1, <2>2, <2>3, <2>4 DEF SplitStage
  <2>6. ThermostatOk(d, Owned)
    BY <1>1, <2>1, <2>5, Moves DEF StageOk
  <2>7. QED
    BY <1>1, <1>5, <2>6, ThGoesOn DEF ThBalanceMain, IInv, c, d
<1>6. CASE /\ d = [c EXCEPT !.stage = "split", !.order = Listed(S \cup {Main}),
                            !.balance = Minus(@, value),
                            !.changes = Put(@, Main, new)]
           /\ estimator' = AddOutputs(estimator, 1) /\ result' = result
           /\ ~TooSmallForChange
  <2>1. value \in Nat
    <3>1. /\ MainExcess \in Nat /\ fee \in Nat /\ MinValueForOutput(estimator) \in Nat
      BY <1>1, CurrentBalanceFacts, FeeForOutputIs DEF IInv
    <3>2. ~(MainExcess < MinValueForOutput(estimator) + fee)
      BY <1>6 DEF TooSmallForChange
    <3> HIDE DEF fee
    <3>3. QED
      BY <3>1, <3>2
  <2>2. EstimatorOk(estimator')
    BY <1>6, AddOutputsFacts DEF IInv
  <2> HIDE DEF value
  <2>3. IsOutput(new) /\ In(new, Main) = value /\ \A t : t # Main => In(new, t) = 0
    <3>1. new.value = value /\ new.assets = NoAssets
      OBVIOUS
    <3> HIDE DEF new
    <3>2. QED
      BY <2>1, <3>1, NoAssetsFacts DEF IsOutput, In
  <2> HIDE DEF c, d, S, new
  <2>4. /\ ThFields \subseteq DOMAIN d /\ d.algo = c.algo /\ d.stage = "split"
        /\ d.setup = c.setup /\ d.given = c.given /\ d.utxos = c.utxos /\ d.chosen = c.chosen
        /\ d.extra = c.extra /\ d.lost = c.lost /\ d.assetBalance = c.assetBalance
        /\ d.order = Listed(S \cup {Main})
        /\ d.balance = Minus(c.balance, value) /\ d.changes = Put(c.changes, Main, new)
    BY <1>1, <1>6 DEF ThFields
  <2>5. IsPut(c.changes, Main, new, d.changes)
    BY <1>1, <2>3, <2>4, PutHolds DEF ChangesOk
  <2>6. TakenOk(d, Owned)
    BY <1>1, <2>4 DEF TakenOk
  <2>7. ChangesOk(d)
    BY <1>1, <2>4, <2>5 DEF ChangesOk, IsPut
  <2>8. DueOk(d)
    <3> SUFFICES ASSUME NEW s
                 PROVE  /\ IsBalance(Due(d, s))
                        /\ Worth(Due(d, s)) = Holds(d.setup.fixedIn, s) + Holds(d.chosen, s)
                                                - Holds(d.setup.fixedOut, s)
                                                - Holds(d.changes, s) - Holds(d.extra, s) - Holds(d.lost, s)
      BY DEF DueOk
    <3>1. /\ IsBalance(Due(c, s))
          /\ Worth(Due(c, s)) = Holds(c.setup.fixedIn, s) + Holds(c.chosen, s)
                                  - Holds(c.setup.fixedOut, s)
                                  - Holds(c.changes, s) - Holds(c.extra, s) - Holds(c.lost, s)
      BY <1>1 DEF DueOk
    <3>2. /\ Holds(c.setup.fixedIn, s) \in Nat /\ Holds(c.chosen, s) \in Nat
          /\ Holds(c.setup.fixedOut, s) \in Nat /\ Holds(c.changes, s) \in Nat
          /\ Holds(c.extra, s) \in Nat /\ Holds(c.lost, s) \in Nat
      BY <1>1, OwnedFacts, HeldIsNat
    <3>3. Holds(d.changes, s) = Holds(c.changes, s) + In(new, s)
      <4>1. Holds(d.changes, s)
              = Holds(c.changes, s) - (IF Main \in DOMAIN c.changes THEN In(c.changes[Main], s) ELSE 0)
                + In(new, s)
        BY <2>5 DEF IsPut
      <4>2. Main \notin DOMAIN c.changes /\ In(new, s) \in Nat
        BY <1>3, <2>3, InNat DEF S
      <4>3. QED
        BY <3>2, <4>1, <4>2
    <3>4. IsBalance(Due(d, s)) /\ Worth(Due(d, s)) = Worth(Due(c, s)) - In(new, s)
      <4>1. CASE s = Main
        <5>1. Due(d, s) = Minus(Due(c, s), value)
          BY <2>4, <4>1 DEF Due
        <5>2. QED
          BY <2>1, <2>3, <3>1, <4>1, <5>1, MinusSubtracts
      <4>2. CASE s # Main
        <5>1. Due(d, s) = Due(c, s) /\ In(new, s) = 0
          BY <2>3, <2>4, <4>2 DEF Due
        <5>2. Worth(Due(c, s)) \in Int
          BY <3>1, SideOfWorth
        <5>3. QED
          BY <3>1, <5>1, <5>2
      <4>3. QED
        BY <4>1, <4>2
    <3>5. In(new, s) \in Nat
      BY <2>3, InNat
    <3>6. QED
      BY <2>4, <3>1, <3>2, <3>3, <3>4, <3>5
  <2>9. d.order \in Seq(S \cup {Main}) /\ IsInjective(d.order)
    <3>1. IsFiniteSet(S \cup {Main})
      BY <1>3, FS_AddElement
    <3>2. QED
      BY <2>4, <3>1, ListedInOrder
  <2>10. DOMAIN d.changes = S \cup {Main}
    BY <2>5 DEF IsPut, S
  <2>11. \A k \in DOMAIN d.order : d.order[k] \in S \cup {Main}
    BY <2>9
  <2>12. \A t \in S \cup {Main} :
           IF t = Main
           THEN d.changes[Main] = [value |-> d.changes[Main].value, assets |-> NoAssets]
           ELSE d.changes[t].value >= ThermostatMin
    <3>1. d.changes[Main] = new /\ \A t \in S : t # Main => d.changes[t] = c.changes[t]
      BY <2>5 DEF IsPut, S
    <3>2. new = [value |-> new.value, assets |-> NoAssets]
      BY DEF new
    <3>3. QED
      BY <1>3, <3>1, <3>2
  <2>13. SplitStage(d)
    <3>1. \A k \in DOMAIN d.order :
            IF d.order[k] = Main
            THEN d.changes[Main] = [value |-> d.changes[Main].value, assets |-> NoAssets]
            ELSE d.changes[d.order[k]].value >= ThermostatMin
      BY <2>11, <2>12
    <3>2. QED
      BY <1>2, <2>4, <2>9, <2>10, <3>1 DEF SplitStage
  <2>14. ThermostatOk(d, Owned)
    BY <1>1, <2>4, <2>6, <2>7, <2>8, <2>13 DEF ThermostatOk, StageOk
  <2>15. QED
    BY <1>1, <1>6, <2>2, <2>14, ThGoesOn DEF ThBalanceMain, c, d
<1>7. QED
  <2>1. CASE InExcess(CurrentBalance) /\ ~call.setup.change
    BY <1>4, <2>1 DEF ThBalanceMain
  <2>2. CASE /\ ~(InExcess(CurrentBalance) /\ ~call.setup.change)
             /\ ~InExcess(CurrentBalance) \/ TooSmallForChange
    BY <1>5, <2>2 DEF ThBalanceMain
  <2>3. CASE /\ ~(InExcess(CurrentBalance) /\ ~call.setup.change)
             /\ ~(~InExcess(CurrentBalance) \/ TooSmallForChange)
    <3> DEFINE split == [c EXCEPT !.stage = "split", !.order = Listed(S)]
    <3>1. /\ d = [split EXCEPT !.balance = Minus(@, value),
                               !.order   = Listed(S \cup {Main}),
                               !.changes = Put(@, Main, new)]
          /\ estimator' = AddOutputs(estimator, 1) /\ result' = result
      <4> HIDE DEF d
      <4>1. QED
        BY <2>3, Zenon DEF ThBalanceMain, d, c, S, fee, value, new
    <3>2. d = [c EXCEPT !.stage = "split", !.order = Listed(S \cup {Main}),
                        !.balance = Minus(@, value),
                        !.changes = Put(@, Main, new)]
      <4> HIDE DEF c, d, S, value, new
      <4>1. QED
        BY <1>1, <3>1 DEF ThFields
    <3>3. QED
      BY <1>6, <2>3, <3>1, <3>2
  <2>4. QED
    BY <2>1, <2>2, <2>3

-----------------------------------------------------------------------------
(* Thermostat: a change in two, and the end of the call.                   *)

AreHalves(a, moved, left) ==
  /\ IsAssets(moved) /\ IsAssets(left)
  /\ \A s : Of(moved, s) + Of(left, s) = Of(a, s)

LEMMA HalvesFacts ==
  ASSUME NEW a, IsAssets(a),
         NEW moved, moved = [x \in DOMAIN a |-> Half(a[x])],
         NEW left, left = [x \in DOMAIN a |-> a[x] - moved[x]]
  PROVE  AreHalves(a, moved, left)
<1>1. \A x \in DOMAIN a : a[x] \in Nat /\ Half(a[x]) \in Nat /\ Half(a[x]) <= a[x]
  BY HalfFacts DEF IsAssets
<1>2. \A x \in DOMAIN a : moved[x] \in Nat /\ left[x] \in Nat /\ moved[x] + left[x] = a[x]
  BY <1>1
<1>3. DOMAIN moved = DOMAIN a /\ DOMAIN left = DOMAIN a
  OBVIOUS
<1>4. IsAssets(moved) /\ IsAssets(left)
  BY <1>2, <1>3 DEF IsAssets
<1>5. \A s : Of(moved, s) + Of(left, s) = Of(a, s)
  BY <1>2, <1>3 DEF Of
<1>6. QED
  BY <1>4, <1>5 DEF AreHalves

(* d is c with the output new in the place of the change of t, and with    *)
(* the outputs of more, which hold what it held without the cost and what  *)
(* is gone                                                                 *)
IsSplitInto(c, t, new, more, gone, cost, d) ==
  /\ ThFields \subseteq DOMAIN d /\ d.algo = c.algo /\ d.stage = c.stage
  /\ d.setup = c.setup /\ d.given = c.given /\ d.utxos = c.utxos /\ d.chosen = c.chosen
  /\ d.assetBalance = c.assetBalance /\ d.order = c.order
  /\ cost \in Nat /\ IsOutput(new) /\ AreOutputs(more)
  /\ AreOutputs(gone) /\ (gone # <<>> => HalvesAreSmall)
  /\ \A s : In(new, s) + Holds(more, s) + Holds(gone, s)
              = In(c.changes[t], s) - (IF s = Main THEN cost ELSE 0)
  /\ d.changes = Put(c.changes, t, new) /\ d.extra = c.extra \o more
  /\ d.lost = c.lost \o gone /\ d.balance = Plus(c.balance, cost)

LEMMA SplitKeeps ==
  ASSUME NEW own, \A u \in own : IsOutput(u),
         NEW c, ThermostatOk(c, own), c.stage = "split", NEW t \in DOMAIN c.changes,
         NEW new, NEW more, NEW gone, NEW cost, NEW d,
         IsSplitInto(c, t, new, more, gone, cost, d),
         t \notin Range(c.order)
  PROVE  ThermostatOk(d, own)
<1>1. TakenOk(c, own) /\ ChangesOk(c) /\ DueOk(c) /\ SplitStage(c) /\ c.algo = "thermostat"
  BY InStage DEF ThermostatOk
<1>2. /\ ThFields \subseteq DOMAIN d /\ d.algo = c.algo /\ d.stage = c.stage
      /\ d.setup = c.setup /\ d.given = c.given /\ d.utxos = c.utxos /\ d.chosen = c.chosen
      /\ d.assetBalance = c.assetBalance /\ d.order = c.order
      /\ cost \in Nat /\ IsOutput(new) /\ AreOutputs(more)
      /\ AreOutputs(gone) /\ (gone # <<>> => HalvesAreSmall)
      /\ d.changes = Put(c.changes, t, new) /\ d.extra = c.extra \o more
      /\ d.lost = c.lost \o gone /\ d.balance = Plus(c.balance, cost)
  BY DEF IsSplitInto
<1>3. IsPut(c.changes, t, new, d.changes)
  BY <1>1, <1>2, PutHolds DEF ChangesOk
<1>4. /\ AreOutputs(d.extra) /\ AreOutputs(d.lost)
      /\ \A s : Holds(d.extra, s) = Holds(c.extra, s) + Holds(more, s)
      /\ \A s : Holds(d.lost, s) = Holds(c.lost, s) + Holds(gone, s)
  BY <1>1, <1>2, ConcatFacts DEF ChangesOk
<1>5. TakenOk(d, own)
  BY <1>1, <1>2 DEF TakenOk
<1>6. ChangesOk(d)
  <2>1. d.lost # <<>> => HalvesAreSmall
    <3>1. c.lost # <<>> => HalvesAreSmall
      BY <1>1 DEF ChangesOk
    <3>2. c.lost = <<>> /\ gone = <<>> => d.lost = <<>>
      BY <1>2
    <3>3. QED
      BY <1>2, <3>1, <3>2
  <2>2. QED
    BY <1>1, <1>2, <1>3, <1>4, <2>1 DEF ChangesOk, IsPut
<1>7. DueOk(d)
  <2> SUFFICES ASSUME NEW s
               PROVE  /\ IsBalance(Due(d, s))
                      /\ Worth(Due(d, s)) = Holds(d.setup.fixedIn, s) + Holds(d.chosen, s)
                                              - Holds(d.setup.fixedOut, s)
                                              - Holds(d.changes, s) - Holds(d.extra, s) - Holds(d.lost, s)
    BY DEF DueOk
  <2> DEFINE paid == IF s = Main THEN cost ELSE 0
  <2>1. /\ IsBalance(Due(c, s))
        /\ Worth(Due(c, s)) = Holds(c.setup.fixedIn, s) + Holds(c.chosen, s)
                                - Holds(c.setup.fixedOut, s)
                                - Holds(c.changes, s) - Holds(c.extra, s) - Holds(c.lost, s)
    BY <1>1 DEF DueOk
  <2>2. /\ Holds(c.setup.fixedIn, s) \in Nat /\ Holds(c.chosen, s) \in Nat
        /\ Holds(c.setup.fixedOut, s) \in Nat /\ Holds(c.changes, s) \in Nat
        /\ Holds(c.extra, s) \in Nat /\ Holds(c.lost, s) \in Nat
    BY <1>1, HeldIsNat
  <2>3. IsOutput(c.changes[t])
    BY <1>1 DEF ChangesOk, AreOutputsAt
  <2>4. /\ In(new, s) \in Nat /\ Holds(more, s) \in Nat /\ In(c.changes[t], s) \in Nat
        /\ paid \in Nat /\ Holds(gone, s) \in Nat
    BY <1>2, <2>3, InNat, OutputsFacts
  <2>5. In(new, s) + Holds(more, s) + Holds(gone, s) = In(c.changes[t], s) - paid
    BY DEF IsSplitInto
  <2>6. Holds(d.changes, s) = Holds(c.changes, s) - In(c.changes[t], s) + In(new, s)
    BY <1>3 DEF IsPut
  <2>7. /\ Holds(d.extra, s) = Holds(c.extra, s) + Holds(more, s)
        /\ Holds(d.lost, s) = Holds(c.lost, s) + Holds(gone, s)
    BY <1>4
  <2>8. IsBalance(Due(d, s)) /\ Worth(Due(d, s)) = Worth(Due(c, s)) + paid
    <3>1. CASE s = Main
      <4>1. Due(d, s) = Plus(Due(c, s), cost)
        BY <1>2, <3>1 DEF Due
      <4>2. QED
        BY <1>2, <2>1, <3>1, <4>1, PlusAdds
    <3>2. CASE s # Main
      <4>1. Due(d, s) = Due(c, s)
        BY <1>2, <3>2 DEF Due
      <4>2. Worth(Due(c, s)) \in Int
        BY <2>1, SideOfWorth
      <4>3. QED
        BY <2>1, <3>2, <4>1, <4>2
    <3>3. QED
      BY <3>1, <3>2
  <2> HIDE DEF paid
  <2>9. Holds(d.changes, s) + Holds(d.extra, s) + Holds(d.lost, s)
          = Holds(c.changes, s) + Holds(c.extra, s) + Holds(c.lost, s) - paid
    <3> DEFINE new1 == In(new, s)
               old1 == In(c.changes[t], s)
               more1 == Holds(more, s)
               gone1 == Holds(gone, s)
    <3>1. /\ new1 \in Nat /\ old1 \in Nat /\ more1 \in Nat /\ gone1 \in Nat /\ paid \in Nat
          /\ new1 + more1 + gone1 = old1 - paid
          /\ Holds(d.changes, s) = Holds(c.changes, s) - old1 + new1
          /\ Holds(d.extra, s) = Holds(c.extra, s) + more1
          /\ Holds(d.lost, s) = Holds(c.lost, s) + gone1
      BY <2>4, <2>5, <2>6, <2>7
    <3> HIDE DEF new1, old1, more1, gone1
    <3>2. QED
      BY <2>2, <3>1
  <2>10. Holds(d.changes, s) \in Int /\ Holds(d.extra, s) \in Nat /\ Holds(d.lost, s) \in Nat
    BY <2>2, <2>4, <2>6, <2>7
  <2>11. d.setup = c.setup /\ d.chosen = c.chosen
    BY <1>2
  <2>12. Worth(Due(d, s)) = Holds(c.setup.fixedIn, s) + Holds(c.chosen, s)
                              - Holds(c.setup.fixedOut, s)
                              - Holds(d.changes, s) - Holds(d.extra, s) - Holds(d.lost, s)
    <3> DEFINE a == Holds(c.changes, s) + Holds(c.extra, s) + Holds(c.lost, s)
               b == Holds(d.changes, s) + Holds(d.extra, s) + Holds(d.lost, s)
               z == Holds(c.setup.fixedIn, s) + Holds(c.chosen, s) - Holds(c.setup.fixedOut, s)
    <3>1. z \in Int /\ a \in Int /\ b \in Int /\ Worth(Due(c, s)) = z - a
      BY <2>1, <2>2, <2>10
    <3>2. Worth(Due(d, s)) = Worth(Due(c, s)) + paid /\ b = a - paid
      BY <2>2, <2>4, <2>8, <2>9, <2>10
    <3>3. Worth(Due(d, s)) = z - b
      <4> HIDE DEF a, b, z
      <4>1. QED
        BY <2>4, <3>1, <3>2
    <3>4. QED
      BY <2>2, <2>10, <3>3
  <2>13. QED
    BY <2>8, <2>11, <2>12
<1>8. SplitStage(d)
  <2>1. \A k \in DOMAIN c.order : /\ c.order[k] \in DOMAIN c.changes /\ c.order[k] # t
                                  /\ d.changes[c.order[k]] = c.changes[c.order[k]]
    <3>1. \A k \in DOMAIN c.order : c.order[k] \in DOMAIN c.changes /\ c.order[k] # t
      BY <1>1 DEF SplitStage, Range
    <3>2. QED
      BY <1>3, <3>1 DEF IsPut
  <2>2. DOMAIN d.changes = DOMAIN c.changes
    BY <1>3 DEF IsPut
  <2>3. \A k \in DOMAIN d.order :
          IF d.order[k] = Main
          THEN d.changes[Main] = [value |-> d.changes[Main].value, assets |-> NoAssets]
          ELSE d.changes[d.order[k]].value >= ThermostatMin
    <3> SUFFICES ASSUME NEW k \in DOMAIN c.order
                 PROVE  IF c.order[k] = Main
                        THEN d.changes[Main] = [value |-> d.changes[Main].value, assets |-> NoAssets]
                        ELSE d.changes[c.order[k]].value >= ThermostatMin
      BY <1>2
    <3>1. IF c.order[k] = Main
          THEN c.changes[Main] = [value |-> c.changes[Main].value, assets |-> NoAssets]
          ELSE c.changes[c.order[k]].value >= ThermostatMin
      BY <1>1 DEF SplitStage
    <3>2. d.changes[c.order[k]] = c.changes[c.order[k]]
      BY <2>1
    <3>3. QED
      BY <3>1, <3>2
  <2>4. QED
    BY <1>1, <1>2, <2>2, <2>3 DEF SplitStage
<1>9. QED
  BY <1>1, <1>2, <1>5, <1>6, <1>7, <1>8 DEF ThermostatOk, StageOk

LEMMA SplitIs ==
  ASSUME EstimatorOk(estimator), NEW own,
         NEW c, ThermostatOk(c, own), c.stage = "split", NEW t \in DOMAIN c.changes,
         IF t = Main
         THEN c.changes[Main] = [value |-> c.changes[Main].value, assets |-> NoAssets]
         ELSE c.changes[t].value >= ThermostatMin
  PROVE  /\ \E new, more, gone, cost : IsSplitInto(c, t, new, more, gone, cost, Split(c, t))
         /\ Len(Split(c, t).extra) - Len(c.extra) \in {0, 1}
<1> DEFINE d        == Split(c, t)
           old      == c.changes[t]
           half     == Half(old.value)
           fee      == FeeForOutput(estimator)
           moved    == [a \in DOMAIN old.assets |-> Half(old.assets[a])]
           left     == [a \in DOMAIN old.assets |-> old.assets[a] - moved[a]]
           newValue == half - Half(fee)
           kept     == [value |-> old.value - newValue - fee, assets |-> left]
           part     == [value |-> newValue, assets |-> moved]
           miss     == [value |-> 0, assets |-> moved]
           same     == [value |-> old.value, assets |-> left]
<1>1. ThFields \subseteq DOMAIN c /\ ChangesOk(c) /\ DueOk(c)
  BY DEF ThermostatOk
<1>2. IsOutput(old) /\ AreOutputs(c.extra) /\ AreOutputs(c.lost) /\ Len(c.extra) \in Nat
  <2>1. IsOutput(old) /\ AreOutputs(c.extra) /\ AreOutputs(c.lost)
    BY <1>1 DEF ChangesOk, AreOutputsAt
  <2>2. QED
    BY <2>1, OutputsFacts
<1>3. /\ fee \in Nat /\ fee <= AssumedCostOneOutput /\ AssumedCostOneOutput \in Int
  <2>1. AssumedCostOneOutput \in Nat
    BY EstimatorsAreOk, FeeForOutputIs DEF EstimatorOk, ThermostatEstimator
  <2>2. QED
    BY <2>1, FeeForOutputIs
<1>4. AreHalves(old.assets, moved, left)
  <2>1. IsAssets(old.assets)
    BY <1>2 DEF IsOutput
  <2>2. QED
    BY <2>1, HalvesFacts
<1>5. d = IF half <= fee
          THEN [c EXCEPT !.changes[t] = same,
                         !.lost       = IF t = Main THEN @ ELSE Append(@, miss)]
          ELSE [c EXCEPT !.changes[t] = kept, !.balance = Plus(@, fee),
                         !.extra = Append(@, part)]
  BY Zenon DEF Split, d, half, fee, left, kept, part, miss, same, old, moved, newValue
<1>6. old.value \in Nat /\ half \in Nat /\ 2 * half <= old.value /\ old.value <= 2 * half + 1
  <2>1. old.value \in Nat
    BY <1>2 DEF IsOutput
  <2>2. QED
    BY <2>1, HalfFacts
<1> HIDE DEF moved, left, d, half, fee
<1>7. CASE half <= fee
  <2> DEFINE new == same
  <2> DEFINE gone == IF t = Main THEN <<>> ELSE <<miss>>
  <2>1. t # Main => HalvesAreSmall
    <3>1. t # Main => old.value >= ThermostatMin /\ ThermostatMin \in Int
      BY ConfigIsUsable
    <3> HIDE DEF old
    <3>2. QED
      BY <1>3, <1>6, <1>7, <3>1 DEF HalvesAreSmall
  <2>2. d = [c EXCEPT !.changes = [c.changes EXCEPT ![t] = new],
                      !.lost = IF t = Main THEN @ ELSE Append(@, miss)]
    BY <1>5, <1>7
  <2>3. [c.changes EXCEPT ![t] = new] = Put(c.changes, t, new)
    <3> HIDE DEF same
    <3>1. QED
      BY DEF Put
  <2>4. /\ new.value = old.value /\ new.assets = left
        /\ miss.value = 0 /\ miss.assets = moved
    OBVIOUS
  <2>5. t = Main => old.assets = NoAssets
    OBVIOUS
  <2> HIDE DEF new, same, old, miss
  <2>6. IsOutput(new) /\ IsOutput(miss)
    BY <1>4, <1>6, <2>4 DEF IsOutput, AreHalves
  <2>7. AreOutputs(gone) /\ \A s : Holds(gone, s) = IF t = Main THEN 0 ELSE In(miss, s)
    BY <2>6, HoldsOne, NoOutputs
  <2>8. \A s : In(new, s) + Holds(gone, s) = In(old, s)
    <3> SUFFICES ASSUME NEW s
                 PROVE  In(new, s) + Holds(gone, s) = In(old, s)
      OBVIOUS
    <3>1. /\ Of(moved, s) + Of(left, s) = Of(old.assets, s)
          /\ Of(moved, s) \in Nat /\ Of(left, s) \in Nat
      BY <1>4, OfNat DEF AreHalves
    <3>2. t = Main => Of(old.assets, s) = 0
      BY <2>5, NoAssetsFacts
    <3> HIDE DEF gone
    <3>3. CASE s = Main
      <4>1. In(miss, s) = 0 /\ In(new, s) = old.value /\ In(old, s) = old.value
        BY <2>4, <3>3 DEF In
      <4>2. QED
        BY <1>6, <2>7, <4>1
    <3>4. CASE s # Main
      <4>1. In(miss, s) = Of(moved, s) /\ In(new, s) = Of(left, s) /\ In(old, s) = Of(old.assets, s)
        BY <2>4, <3>4 DEF In
      <4>2. QED
        BY <2>7, <3>1, <3>2, <4>1
    <3>5. QED
      BY <3>3, <3>4
  <2>9. /\ DOMAIN d = DOMAIN c /\ d.algo = c.algo /\ d.stage = c.stage
        /\ d.setup = c.setup /\ d.given = c.given /\ d.utxos = c.utxos /\ d.chosen = c.chosen
        /\ d.assetBalance = c.assetBalance /\ d.order = c.order
        /\ d.balance = c.balance /\ d.extra = c.extra /\ d.changes = Put(c.changes, t, new)
        /\ d.lost = IF t = Main THEN c.lost ELSE Append(c.lost, miss)
    BY <1>1, <2>2, <2>3 DEF ThFields
  <2>10. d.extra = c.extra \o <<>> /\ d.lost = c.lost \o gone
    <3>1. c.extra \in Seq(Range(c.extra)) /\ c.lost \in Seq(Range(c.lost))
      BY <1>2 DEF AreOutputs
    <3>2. c.extra \o <<>> = c.extra /\ c.lost \o <<>> = c.lost
      BY <3>1
    <3>3. Append(c.lost, miss) = c.lost \o <<miss>>
      BY <3>1
    <3>4. QED
      BY <2>9, <3>2, <3>3
  <2>11. d.balance = Plus(c.balance, 0)
    <3>1. IsBalance(c.balance)
      BY <1>1 DEF DueOk, Due
    <3>2. Plus(c.balance, 0) = c.balance
      BY <3>1, PlusNothing
    <3>3. QED
      BY <2>9, <3>2
  <2>12. \A s : In(new, s) + Holds(<<>>, s) + Holds(gone, s)
                   = In(c.changes[t], s) - (IF s = Main THEN 0 ELSE 0)
    <3>1. \A s : /\ In(old, s) \in Nat /\ In(new, s) \in Nat
                 /\ Holds(gone, s) \in Nat /\ Holds(<<>>, s) = 0
      BY <1>2, <2>6, <2>7, InNat, NoOutputs, OutputsFacts
    <3> HIDE DEF gone
    <3>2. QED
      BY <2>8, <3>1 DEF old
  <2>13. gone # <<>> => HalvesAreSmall
    BY <2>1
  <2>14. IsSplitInto(c, t, new, <<>>, gone, 0, d)
    <3> HIDE DEF gone
    <3>1. QED
      BY <1>1, <2>6, <2>7, <2>9, <2>10, <2>11, <2>12, <2>13, NoOutputs DEF IsSplitInto
  <2>15. QED
    BY <1>2, <2>9, <2>14 DEF d
<1>8. CASE ~(half <= fee)
  <2>1. d = [c EXCEPT !.changes = [c.changes EXCEPT ![t] = kept], !.balance = Plus(@, fee),
                      !.extra = Append(@, part)]
    BY <1>5, <1>8
  <2>2. [c.changes EXCEPT ![t] = kept] = Put(c.changes, t, kept)
    <3> HIDE DEF kept
    <3>1. QED
      BY DEF Put
  <2>3. /\ part.value = newValue /\ part.assets = moved
        /\ kept.value = old.value - newValue - fee /\ kept.assets = left
    OBVIOUS
  <2>4. newValue \in Nat /\ old.value - newValue - fee \in Nat
    <3>1. Half(fee) \in Nat /\ 2 * Half(fee) <= fee
      BY <1>3, HalfFacts
    <3> HIDE DEF old
    <3>2. QED
      BY <1>3, <1>6, <1>8, <3>1
  <2> HIDE DEF kept, part, old, newValue
  <2>5. IsOutput(kept) /\ IsOutput(part)
    BY <1>4, <2>3, <2>4 DEF IsOutput, AreHalves
  <2>6. \A s : In(kept, s) + In(part, s) = In(old, s) - (IF s = Main THEN fee ELSE 0)
    <3> SUFFICES ASSUME NEW s
                 PROVE  In(kept, s) + In(part, s) = In(old, s) - (IF s = Main THEN fee ELSE 0)
      OBVIOUS
    <3>1. CASE s = Main
      BY <1>3, <1>6, <2>3, <2>4, <3>1 DEF In
    <3>2. CASE s # Main
      <4>1. /\ Of(moved, s) + Of(left, s) = Of(old.assets, s)
            /\ Of(moved, s) \in Nat /\ Of(left, s) \in Nat
        BY <1>4, OfNat DEF AreHalves
      <4>2. QED
        BY <2>3, <3>2, <4>1 DEF In
    <3>3. QED
      BY <3>1, <3>2
  <2>7. /\ DOMAIN d = DOMAIN c /\ d.algo = c.algo /\ d.stage = c.stage
        /\ d.setup = c.setup /\ d.given = c.given /\ d.utxos = c.utxos /\ d.chosen = c.chosen
        /\ d.assetBalance = c.assetBalance /\ d.order = c.order
        /\ d.balance = Plus(c.balance, fee) /\ d.extra = Append(c.extra, part)
        /\ d.changes = Put(c.changes, t, kept) /\ d.lost = c.lost
    BY <1>1, <2>1, <2>2 DEF ThFields
  <2>8. c.extra \in Seq(Range(c.extra)) /\ d.lost = c.lost \o <<>>
    BY <1>2, <2>7 DEF AreOutputs
  <2>9. d.extra = c.extra \o <<part>> /\ Len(d.extra) = Len(c.extra) + 1
    BY <2>7, <2>8
  <2>10. AreOutputs(<<part>>) /\ \A s : Holds(<<part>>, s) = In(part, s)
    BY <2>5, HoldsOne
  <2>11. \A s : In(kept, s) + Holds(<<part>>, s) + Holds(<<>>, s)
                  = In(c.changes[t], s) - (IF s = Main THEN fee ELSE 0)
    <3>1. \A s : In(kept, s) \in Nat /\ In(part, s) \in Nat /\ Holds(<<>>, s) = 0
      BY <2>5, InNat, NoOutputs
    <3>2. QED
      BY <2>6, <2>10, <3>1 DEF old
  <2>12. IsSplitInto(c, t, kept, <<part>>, <<>>, fee, d)
    BY <1>1, <1>3, <2>5, <2>7, <2>8, <2>9, <2>10, <2>11, NoOutputs DEF IsSplitInto
  <2>13. QED
    BY <1>2, <2>9, <2>12 DEF d
<1>9. QED
  BY <1>7, <1>8

LEMMA TailFacts ==
  ASSUME NEW S, NEW s \in Seq(S), IsInjective(s), s # <<>>
  PROVE  /\ Head(s) \in S /\ s[1] = Head(s) /\ 1 \in DOMAIN s
         /\ Tail(s) \in Seq(S) /\ IsInjective(Tail(s)) /\ Head(s) \notin Range(Tail(s))
         /\ \A k \in DOMAIN Tail(s) : k + 1 \in DOMAIN s /\ Tail(s)[k] = s[k + 1]
<1>1. /\ Len(s) \in Nat \ {0} /\ DOMAIN s = 1..Len(s) /\ Head(s) = s[1] /\ s[1] \in S
      /\ Tail(s) \in Seq(S) /\ DOMAIN Tail(s) = 1..Len(s) - 1
      /\ \A k \in 1..Len(s) - 1 : Tail(s)[k] = s[k + 1]
  OBVIOUS
<1>2. \A k \in DOMAIN Tail(s) : k \in Nat \ {0} /\ k + 1 \in DOMAIN s /\ Tail(s)[k] = s[k + 1]
  BY <1>1
<1>3. 1 \in DOMAIN s
  BY <1>1
<1>4. IsInjective(Tail(s))
  <2>1. \A j, k \in DOMAIN Tail(s) : Tail(s)[j] = Tail(s)[k] => j + 1 = k + 1
    BY <1>2 DEF IsInjective
  <2>2. QED
    BY <1>2, <2>1 DEF IsInjective
<1>5. Head(s) \notin Range(Tail(s))
  <2>1. \A k \in DOMAIN Tail(s) : Tail(s)[k] # s[1]
    BY <1>2, <1>3 DEF IsInjective
  <2>2. QED
    BY <1>1, <2>1 DEF Range
<1>6. QED
  BY <1>1, <1>2, <1>3, <1>4, <1>5

LEMMA ThSplitKeeps ==
  ASSUME IInv, ThSplit, UNCHANGED <<store, payments, fresh>>
  PROVE  IInv' /\ ChoiceStep
<1> DEFINE b == call
           t == Head(b.order)
           c == [b EXCEPT !.order = Tail(@)]
           d == call'
<1>1. ThermostatOk(b, Owned) /\ b.algo = "thermostat" /\ b.stage = "split" /\ b.order # <<>>
  BY ThermostatCall DEF ThSplit, At
<1>2. SplitStage(b) /\ ThFields \subseteq DOMAIN b
  BY <1>1, InStage DEF ThermostatOk
<1>3. IsMoved(b, c) /\ c.stage = "split" /\ c.order = Tail(b.order)
  <2> HIDE DEF b
  <2>1. QED
    BY <1>1, <1>2 DEF IsMoved, ThFields
<1>4. c.assetBalance = b.assetBalance /\ c.changes = b.changes /\ c.extra = b.extra
  BY <1>3 DEF IsMoved
<1>0. EstimatorOk(estimator)
  BY DEF IInv
<1> HIDE DEF b, c
<1>5. /\ t \in DOMAIN b.changes /\ b.order[1] = t /\ 1 \in DOMAIN b.order
      /\ Tail(b.order) \in Seq(DOMAIN b.changes) /\ IsInjective(Tail(b.order))
      /\ t \notin Range(Tail(b.order))
      /\ \A k \in DOMAIN Tail(b.order) :
           k + 1 \in DOMAIN b.order /\ Tail(b.order)[k] = b.order[k + 1]
  BY <1>1, <1>2, TailFacts DEF SplitStage
<1>6. SplitStage(c)
  <2>1. \A k \in DOMAIN c.order :
          IF c.order[k] = Main
          THEN c.changes[Main] = [value |-> c.changes[Main].value, assets |-> NoAssets]
          ELSE c.changes[c.order[k]].value >= ThermostatMin
    BY <1>2, <1>3, <1>4, <1>5 DEF SplitStage
  <2>2. QED
    BY <1>2, <1>3, <1>4, <1>5, <2>1 DEF SplitStage
<1>7. ThermostatOk(c, Owned)
  BY <1>1, <1>3, <1>6, Moves DEF StageOk
<1>8. IF t = Main
      THEN c.changes[Main] = [value |-> c.changes[Main].value, assets |-> NoAssets]
      ELSE c.changes[t].value >= ThermostatMin
  BY <1>2, <1>4, <1>5 DEF SplitStage
<1> DEFINE made == Len(Split(c, t).extra) - Len(c.extra)
<1>9. /\ \E new, more, gone, cost : IsSplitInto(c, t, new, more, gone, cost, Split(c, t))
      /\ made \in {0, 1}
  BY <1>0, <1>3, <1>4, <1>5, <1>7, <1>8, SplitIs
<1>10. ThermostatOk(Split(c, t), Owned)
  BY <1>3, <1>4, <1>5, <1>7, <1>9, OwnedFacts, SplitKeeps
<1>11. CASE Fail /\ UNCHANGED estimator
  BY <1>0, <1>11, ThEnds DEF ThSplit
<1>12. CASE d = c /\ UNCHANGED <<estimator, result>>
  BY <1>0, <1>1, <1>7, <1>12, ThGoesOn DEF ThSplit, b
<1>13. CASE /\ d = Split(c, t) /\ estimator' = AddOutputs(estimator, made)
            /\ UNCHANGED result
  <2>1. made \in Nat
    BY <1>9
  <2> HIDE DEF made
  <2>2. EstimatorOk(estimator')
    BY <1>0, <1>13, <2>1, AddOutputsFacts
  <2>3. QED
    BY <1>1, <1>10, <1>13, <2>2, ThGoesOn DEF ThSplit, b
<1>14. QED
  <2> HIDE DEF d
  <2>1. \/ d = c /\ UNCHANGED <<estimator, result>>
        \/ Fail /\ UNCHANGED estimator
        \/ d = Split(c, t) /\ estimator' = AddOutputs(estimator, made) /\ UNCHANGED result
    <3>1. CASE ~IsLarge(t)
      BY <3>1, Zenon DEF ThSplit, b, c, d
    <3>2. CASE IsLarge(t) /\ made = 1 /\ ~Accepts(estimator, Last(Split(c, t).extra))
      BY <3>2, Zenon DEF ThSplit, b, c, d
    <3>3. CASE IsLarge(t) /\ ~(made = 1 /\ ~Accepts(estimator, Last(Split(c, t).extra)))
      BY <3>3, Zenon DEF ThSplit, b, c, d
    <3>4. QED
      BY <3>1, <3>2, <3>3
  <2>2. QED
    BY <1>11, <1>12, <1>13, <2>1

LEMMA AllIsBalanced ==
  ASSUME NEW c, DueOk(c), SplitStage(c), Main \notin DOMAIN c.assetBalance, ~InDebt(c.balance),
         NEW t
  PROVE  Worth(Due(c, t)) = (IF t = Main THEN c.balance.amount ELSE 0) /\ c.balance.amount \in Nat
<1>1. IsBalance(c.balance) /\ IsBalance(Due(c, t))
  BY DEF DueOk, Due
<1>2. c.balance.amount = Worth(c.balance) /\ c.balance.amount \in Nat
  BY <1>1, SideOfWorth
<1>3. CASE t = Main
  BY <1>2, <1>3 DEF Due
<1>4. CASE t # Main /\ t \in DOMAIN c.assetBalance
  <2>1. Due(c, t) = c.assetBalance[t] /\ InBalance(Due(c, t))
    BY <1>4 DEF Due, SplitStage
  <2>2. QED
    BY <1>1, <1>2, <1>4, <2>1, SideOfWorth
<1>5. CASE t # Main /\ t \notin DOMAIN c.assetBalance
  BY <1>2, <1>5, BalancedFacts DEF Due
<1>6. QED
  BY <1>3, <1>4, <1>5

LEMMA ThReturnKeeps ==
  ASSUME IInv, ThReturn, UNCHANGED <<store, payments, fresh>>
  PROVE  IInv' /\ ChoiceStep
<1> DEFINE c == call
           r == result'
           S == DOMAIN c.changes
           kept == Listed(S)
           q == [k \in DOMAIN kept |-> c.changes[kept[k]]]
           changes == q \o c.extra
           ins == c.chosen \o c.setup.fixedIn
           outs == changes \o c.setup.fixedOut
<1>1. /\ ThermostatOk(c, Owned) /\ c.algo = "thermostat" /\ c.stage = "split"
      /\ TakenOk(c, Owned) /\ ChangesOk(c) /\ DueOk(c)
  BY ThermostatCall DEF ThReturn, At, ThermostatOk
<1>2. SplitStage(c) /\ Main \notin DOMAIN c.assetBalance
  BY <1>1, InStage DEF ChangesOk
<1>3. available' = c.utxos /\ random' = random /\ estimator' = estimator
  BY DEF ThReturn
<1>4. RestOk
  BY <1>1, <1>3 DEF RestOk, IInv, StoreOk, TakenOk
<1>5. CASE InDebt(c.balance)
  <2>1. Fail
    BY <1>5 DEF ThReturn
  <2>2. QED
    BY <1>4, <2>1, Ends DEF Fail
<1>6. CASE ~InDebt(c.balance)
  <2>1. Return("thermostat", [fixedIn |-> c.setup.fixedIn, fixedOut |-> c.setup.fixedOut,
                  chosen |-> c.chosen, changes |-> changes,
                  fee |-> c.balance.amount,
                  inMain |-> MainOf(ins), inAssets |-> AssetsOf(ins),
                  outMain |-> MainOf(outs), outAssets |-> AssetsOf(outs),
                  again |-> <<>>, lost |-> c.lost])
    BY <1>6, Zenon DEF ThReturn, c, S, kept, q, changes, ins, outs
  <2> HIDE DEF changes, ins, outs, c
  <2>2. call' = NoCall
    BY <2>1 DEF Return
  <2>3. /\ r.is = "selected" /\ r.by = "thermostat"
        /\ r.fixedIn = c.setup.fixedIn /\ r.fixedOut = c.setup.fixedOut
        /\ r.chosen = c.chosen /\ r.changes = changes /\ r.fee = c.balance.amount
        /\ r.inMain = MainOf(ins) /\ r.inAssets = AssetsOf(ins)
        /\ r.outMain = MainOf(outs) /\ r.outAssets = AssetsOf(outs)
        /\ r.again = <<>> /\ r.lost = c.lost
    BY <2>1 DEF Return, Merged
  <2> HIDE DEF r
  <2>4. /\ InputsOf(r) \in Seq(Owned) /\ IsInjective(InputsOf(r)) /\ AreOutputs(InputsOf(r))
        /\ AreOutputs(r.fixedOut)
        /\ \A t : Holds(InputsOf(r), t) = Holds(c.setup.fixedIn, t) + Holds(c.chosen, t)
        /\ IsInjective(r.chosen) /\ Range(r.chosen) \subseteq c.given
        /\ c.utxos.utxos.set = c.given \ Range(r.chosen)
    BY <1>1, <2>3, OwnedFacts, TakenReturns
  <2>5. AreOutputs(q) /\ \A t : Holds(q, t) = Holds(c.changes, t)
    <3>1. AreOutputsAt(c.changes, S) /\ IsFiniteSet(S)
      BY <1>1 DEF ChangesOk, AreOutputsAt
    <3> HIDE DEF S
    <3>2. Enumerates(kept, S)
      BY <3>1, ListedFacts
    <3>3. q = [k \in DOMAIN kept |-> c.changes[kept[k]]]
      BY DEF q
    <3> HIDE DEF q, kept
    <3>4. IsListOf(q, c.changes, S)
      BY <3>1, <3>2, <3>3, ListOfIs
    <3>5. QED
      BY <3>4, HoldsIsAt DEF IsListOf, S
  <2>6. AreOutputs(changes) /\ \A t : Holds(changes, t) = Holds(c.changes, t) + Holds(c.extra, t)
    <3>1. AreOutputs(c.extra)
      BY <1>1 DEF ChangesOk
    <3> HIDE DEF q
    <3>2. AreOutputs(q \o c.extra) /\ \A t : Holds(q \o c.extra, t) = Holds(q, t) + Holds(c.extra, t)
      BY <2>5, <3>1, ConcatFacts
    <3>3. QED
      BY <2>5, <3>2 DEF changes
  <2>7. /\ AreOutputs(ins)
        /\ \A t : Holds(ins, t) = Holds(c.chosen, t) + Holds(c.setup.fixedIn, t)
    <3>1. AreOutputs(c.setup.fixedIn)
      BY <1>1, OwnedFacts, SetupFacts DEF TakenOk
    <3>2. c.chosen \in Seq(c.given) /\ c.given \subseteq Owned
      BY <1>1 DEF TakenOk
    <3>3. AreOutputs(c.chosen)
      BY <3>2, OwnedFacts, OutputsIn
    <3>4. QED
      BY <3>1, <3>3, ConcatFacts DEF ins
  <2>8. AreOutputs(c.setup.fixedOut)
    BY <2>3, <2>4
  <2>9. /\ AreOutputs(outs)
        /\ \A t : Holds(outs, t) = Holds(changes, t) + Holds(c.setup.fixedOut, t)
    BY <2>6, <2>8, ConcatFacts DEF outs
  <2>10. /\ AreOutputs(OutputsOf(r))
         /\ \A t : Holds(OutputsOf(r), t) = Holds(c.setup.fixedOut, t) + Holds(changes, t)
    BY <2>3, <2>6, <2>8, ConcatFacts DEF OutputsOf
  <2>11. c.balance.amount \in Nat
    BY <1>1, <1>2, <1>6, AllIsBalanced
  <2>12. ASSUME NEW t
         PROVE  /\ Have(r.inMain, r.inAssets, t) = Holds(InputsOf(r), t)
                /\ Have(r.outMain, r.outAssets, t) = Holds(OutputsOf(r), t)
                /\ Holds(InputsOf(r), t)
                     = Holds(OutputsOf(r), t) + Holds(r.lost, t)
                         + (IF t = Main THEN r.fee ELSE 0)
    <3> DEFINE left == IF t = Main THEN c.balance.amount ELSE 0
    <3>1. /\ Holds(c.setup.fixedIn, t) \in Nat /\ Holds(c.chosen, t) \in Nat
          /\ Holds(c.setup.fixedOut, t) \in Nat /\ Holds(c.changes, t) \in Nat
          /\ Holds(c.extra, t) \in Nat /\ Holds(c.lost, t) \in Nat
      BY <1>1, OwnedFacts, HeldIsNat
    <3>2. Worth(Due(c, t)) = Holds(c.setup.fixedIn, t) + Holds(c.chosen, t)
                               - Holds(c.setup.fixedOut, t)
                               - Holds(c.changes, t) - Holds(c.extra, t) - Holds(c.lost, t)
      BY <1>1 DEF DueOk
    <3>3. Worth(Due(c, t)) = left /\ left \in Nat
      BY <1>1, <1>2, <1>6, AllIsBalanced
    <3>4. /\ Have(r.inMain, r.inAssets, t) = Holds(ins, t)
          /\ Have(r.outMain, r.outAssets, t) = Holds(outs, t)
      BY <2>3, <2>7, <2>9, OutputsHave
    <3>5. Holds(InputsOf(r), t) = Holds(c.setup.fixedIn, t) + Holds(c.chosen, t)
      BY <2>4
    <3>6. /\ Holds(OutputsOf(r), t) = Holds(c.setup.fixedOut, t) + Holds(changes, t)
          /\ Holds(changes, t) = Holds(c.changes, t) + Holds(c.extra, t)
      BY <2>6, <2>10
    <3>7. /\ Holds(ins, t) = Holds(c.chosen, t) + Holds(c.setup.fixedIn, t)
          /\ Holds(outs, t) = Holds(changes, t) + Holds(c.setup.fixedOut, t)
      BY <2>7, <2>9
    <3>8. left = IF t = Main THEN r.fee ELSE 0
      BY <2>3
    <3> HIDE DEF left
    <3>9. Holds(InputsOf(r), t) = Holds(OutputsOf(r), t) + Holds(r.lost, t) + left
      BY <2>3, <3>1, <3>2, <3>3, <3>5, <3>6
    <3>10. QED
      BY <3>1, <3>4, <3>5, <3>6, <3>7, <3>8, <3>9
  <2>13. /\ r.inMain \in Nat /\ IsAssets(r.inAssets) /\ r.outMain \in Nat /\ IsAssets(r.outAssets)
    BY <2>3, <2>7, <2>9, OutputsHave
  <2> DEFINE given == InputsOf(r) \o r.again
             taken == OutputsOf(r) \o r.lost
  <2>14. Balances(r)
    <3>1. AreOutputs(r.lost) /\ r.fee \in Nat
      BY <1>1, <2>3, <2>11 DEF ChangesOk
    <3>2. AreOutputs(given) /\ \A t : Holds(given, t) = Holds(InputsOf(r), t)
      <4>1. InputsOf(r) \o <<>> = InputsOf(r)
        BY <2>4 DEF AreOutputs
      <4>2. QED
        BY <2>3, <2>4, <4>1
    <3>3. AreOutputs(taken) /\ \A t : Holds(taken, t) = Holds(OutputsOf(r), t) + Holds(r.lost, t)
      BY <2>10, <3>1, ConcatFacts
    <3> HIDE DEF given, taken
    <3>4. ListsBalance(given, taken, r.fee)
      BY <2>12, <3>1, <3>2, <3>3, ListsBalanceWhen
    <3>5. ASSUME r.lost = <<>>
          PROVE  IsBalanced(r)
      <4>1. \A t : Holds(r.lost, t) = 0 /\ Holds(OutputsOf(r), t) \in Nat
        BY <2>10, <3>5, NoOutputs, OutputsFacts
      <4>2. \A t : Have(r.inMain, r.inAssets, t)
                     = Have(r.outMain, r.outAssets, t) + (IF t = Main THEN r.fee ELSE 0)
        BY <2>12, <4>1
      <4>3. QED
        BY <2>13, <3>1, <4>2, AmountsBalance DEF IsBalanced
    <3>6. QED
      BY <3>4, <3>5 DEF Balances, given, taken
  <2>15. Submittable(r, estimator')
    BY <1>1, <2>3, <2>6, <2>14 DEF Submittable, AreOutputs, IsOutput, IsAssets, ChangesOk
  <2>16. ResultOk(r, Owned, estimator')
    BY <2>3, <2>4, <2>15, NoOutputs DEF ResultOk, AgainOk
  <2>17. IInv'
    BY <1>4, <2>2, <2>16, Returns DEF r
  <2>18. ChoiceStep
    BY <1>1, <1>3, <2>4 DEF ChoiceStep, NowAvailable, c, r
  <2>19. QED
    BY <2>17, <2>18
<1>7. QED
  BY <1>5, <1>6

-----------------------------------------------------------------------------
(* The change balancers.                                                   *)

LEMMA ResultToBalance ==
  ASSUME IInv, HasResult, result.by \in {"largest", "random"}
  PROVE  /\ ResultOk(result, Owned, estimator) /\ Unbalanced(result)
         /\ AreOutputs(InputsOf(result)) /\ AreOutputs(result.fixedOut)
         /\ result.inMain \in Nat /\ IsAssets(result.inAssets)
         /\ result.outMain \in Nat /\ IsAssets(result.outAssets)
         /\ AgainOk(result.again, result.fixedOut)
         /\ \A t : /\ Have(result.inMain, result.inAssets, t)
                        = Holds(InputsOf(result), t) + Holds(result.again, t)
                   /\ Have(result.outMain, result.outAssets, t) = Holds(result.fixedOut, t)
<1>1. ResultOk(result, Owned, estimator)
  BY NoneSelected DEF IInv, HasResult
<1>2. Unbalanced(result)
  BY <1>1 DEF ResultOk, Submittable
<1>3. AreOutputs(InputsOf(result)) /\ AreOutputs(result.fixedOut)
  BY <1>1, OwnedFacts, OutputsIn DEF ResultOk
<1>4. /\ IsAssets(result.inAssets)
      /\ \A t : Have(result.inMain, result.inAssets, t)
                  = Holds(InputsOf(result), t) + Holds(result.again, t)
      /\ result.outMain = MainOf(result.fixedOut) /\ result.outAssets = AssetsOf(result.fixedOut)
  BY <1>2 DEF Unbalanced
<1>5. result.inMain \in Nat
  <2>1. AreOutputs(result.again)
    BY <1>1 DEF ResultOk, AgainOk
  <2>2. Have(result.inMain, result.inAssets, Main) \in Nat
    BY <1>3, <1>4, <2>1, OutputsFacts
  <2>3. QED
    BY <2>2 DEF Have
<1>6. /\ result.outMain \in Nat /\ IsAssets(result.outAssets)
      /\ \A t : Have(result.outMain, result.outAssets, t) = Holds(result.fixedOut, t)
  BY <1>3, <1>4, OutputsHave
<1>7. QED
  BY <1>1, <1>2, <1>3, <1>4, <1>5, <1>6 DEF ResultOk

(* r is the result s with changes, and nothing else of it but its sides    *)
IsOf(s, r) ==
  /\ r.is = "selected" /\ r.by = "balancer"
  /\ r.fixedIn = InputsOf(s) /\ r.fixedOut = s.fixedOut /\ r.chosen = <<>>
  /\ r.inMain = s.inMain /\ r.inAssets = s.inAssets
  /\ r.again = s.again /\ r.lost = <<>>

LEMMA SameInputs ==
  ASSUME NEW own, NEW s, InputsOf(s) \in Seq(own), NEW r, IsOf(s, r)
  PROVE  InputsOf(r) = InputsOf(s)
BY DEF IsOf, InputsOf

LEMMA WithChanges ==
  ASSUME IInv, HasResult, result.by \in {"largest", "random"},
         NEW r, IsOf(result, r), AreOutputs(r.changes), r.fee \in Nat,
         r.outMain \in Nat, IsAssets(r.outAssets),
         \A t : /\ Have(r.outMain, r.outAssets, t)
                     = Have(result.outMain, result.outAssets, t) + Holds(r.changes, t)
                /\ Have(r.inMain, r.inAssets, t)
                     = Have(r.outMain, r.outAssets, t) + (IF t = Main THEN r.fee ELSE 0)
  PROVE  Balances(r)
<1>1. /\ ResultOk(result, Owned, estimator)
      /\ AreOutputs(InputsOf(result)) /\ AreOutputs(result.fixedOut)
      /\ result.inMain \in Nat /\ IsAssets(result.inAssets)
      /\ AreOutputs(result.again)
      /\ \A t : /\ Have(result.inMain, result.inAssets, t)
                     = Holds(InputsOf(result), t) + Holds(result.again, t)
                /\ Have(result.outMain, result.outAssets, t) = Holds(result.fixedOut, t)
  BY ResultToBalance DEF AgainOk
<1>2. InputsOf(r) = InputsOf(result)
  BY <1>1, SameInputs DEF ResultOk
<1>3. /\ AreOutputs(OutputsOf(r))
      /\ \A t : Holds(OutputsOf(r), t) = Holds(result.fixedOut, t) + Holds(r.changes, t)
  BY <1>1, ConcatFacts DEF OutputsOf, IsOf
<1>4. r.inMain \in Nat /\ IsAssets(r.inAssets) /\ r.inMain = result.inMain
      /\ r.inAssets = result.inAssets
  BY <1>1 DEF IsOf
<1> DEFINE ins == InputsOf(r) \o r.again
           outs == OutputsOf(r) \o r.lost
<1>5. AreOutputs(ins) /\ \A t : Holds(ins, t) = Holds(InputsOf(result), t) + Holds(result.again, t)
  BY <1>1, <1>2, ConcatFacts DEF IsOf
<1>6. AreOutputs(outs) /\ \A t : Holds(outs, t) = Holds(OutputsOf(r), t)
  <2>1. r.lost = <<>> /\ OutputsOf(r) \o <<>> = OutputsOf(r)
    BY <1>3 DEF IsOf, AreOutputs
  <2>2. QED
    BY <1>3, <2>1
<1>7. \A t : Holds(ins, t) = Holds(outs, t) + (IF t = Main THEN r.fee ELSE 0)
  BY <1>1, <1>3, <1>4, <1>5, <1>6
<1> HIDE DEF ins, outs
<1>8. ListsBalance(ins, outs, r.fee)
  BY <1>5, <1>6, <1>7, ListsBalanceWhen
<1>9. IsBalanced(r)
  BY <1>4, AmountsBalance DEF IsBalanced
<1>10. QED
  BY <1>8, <1>9 DEF Balances, ins, outs

LEMMA BalancerReturns ==
  ASSUME IInv, HasResult, result.by \in {"largest", "random"},
         UNCHANGED <<store, payments, fresh, available, random>>,
         EstimatorOk(estimator'), call' = NoCall,
         IsOf(result, result'), Submittable(result', estimator')
  PROVE  IInv' /\ ChoiceStep
<1>1. ResultOk(result, Owned, estimator)
  BY ResultToBalance
<1>2. InputsOf(result') = InputsOf(result)
  BY <1>1, SameInputs DEF ResultOk
<1>3. ResultOk(result', Owned, estimator')
  BY <1>1, <1>2 DEF ResultOk, IsOf
<1>4. RestOk
  BY DEF RestOk, IInv, StoreOk
<1>5. IInv'
  BY <1>3, <1>4, Returns
<1>6. QED
  BY <1>5 DEF ChoiceStep, HasResult

LEMMA SpareFacts ==
  ASSUME IInv, HasResult, result.by \in {"largest", "random"}, NEW change
  PROVE  LET spare == Spare(AsSetup(change)) IN
         /\ MinRequiredFee(estimator) \in Nat
         /\ ~InDebt(spare) =>
              /\ spare.amount \in Nat
              /\ result.inMain = result.outMain + MinRequiredFee(estimator) + spare.amount
<1> DEFINE spare == Spare(AsSetup(change))
           fee == MinRequiredFee(estimator)
<1>1. fee \in Nat
  BY AddOutputsFacts DEF IInv
<1>2. result.inMain \in Nat /\ result.outMain \in Nat
  BY ResultToBalance
<1>3. spare = MainBalance(result.inMain, result.outMain, fee)
  BY DEF Spare, AsSetup
<1> HIDE DEF spare, fee
<1>4. IsBalance(spare) /\ Worth(spare) = result.inMain - result.outMain - fee
  BY <1>1, <1>2, <1>3, MainBalanceFacts
<1>5. ~InDebt(spare) => /\ spare.amount \in Nat
                        /\ result.inMain = result.outMain + fee + spare.amount
  BY <1>1, <1>2, <1>4, SideOfWorth
<1>6. QED
  BY <1>1, <1>5 DEF spare, fee

LEMMA FeeChangeKeeps ==
  ASSUME IInv, HasResult, result.by \in {"largest", "random"}, NEW change,
         FeeChange(AsSetup(change)), UNCHANGED <<store, payments, fresh>>
  PROVE  IInv' /\ ChoiceStep
<1> DEFINE setup == AsSetup(change)
           spare == Spare(setup)
           r == result'
           b == AssetBalance(setup.inAssets, setup.outAssets)
           fee == MinRequiredFee(estimator) + spare.amount
<1>1. UNCHANGED <<available, random, estimator>> /\ EstimatorOk(estimator)
  BY DEF FeeChange, IInv
<1>2. CASE ~AreBalanced(b) \/ InDebt(spare)
  <2>1. Fail
    BY <1>2 DEF FeeChange
  <2>2. QED
    BY <1>1, <2>1, ThEnds
<1>3. CASE ~(~AreBalanced(b) \/ InDebt(spare))
  <2>1. Return("balancer", Merged([changes |-> <<>>, fee |-> fee], Unchosen(setup)))
    BY <1>3 DEF FeeChange
  <2> HIDE DEF fee
  <2>2. /\ call' = NoCall /\ IsOf(result, r) /\ r.changes = <<>> /\ r.fee = fee
        /\ r.outMain = result.outMain /\ r.outAssets = result.outAssets
    BY <2>1 DEF Return, Merged, Unchosen, AsSetup, IsOf
  <2>3. /\ result.inMain \in Nat /\ IsAssets(result.inAssets)
        /\ result.outMain \in Nat /\ IsAssets(result.outAssets)
    BY ResultToBalance
  <2>4. /\ MinRequiredFee(estimator) \in Nat /\ spare.amount \in Nat
        /\ result.inMain = result.outMain + MinRequiredFee(estimator) + spare.amount
    BY <1>3, SpareFacts
  <2>5. /\ b = AssetBalance(result.inAssets, result.outAssets)
        /\ \A t \in DOMAIN b : InBalance(b[t])
    BY <1>3 DEF AreBalanced, AsSetup
  <2>6. \A t : t # Main => Of(result.inAssets, t) = Of(result.outAssets, t)
    <3> HIDE DEF b
    <3>1. /\ \A t \in DOMAIN b : /\ IsBalance(b[t])
                                 /\ Worth(b[t]) = Of(result.inAssets, t) - Of(result.outAssets, t)
          /\ \A t : t \notin DOMAIN b => Of(result.inAssets, t) = 0 /\ Of(result.outAssets, t) = 0
      BY <2>3, <2>5, AssetBalanceFacts
    <3>2. \A t : Of(result.inAssets, t) \in Nat /\ Of(result.outAssets, t) \in Nat
      BY <2>3, OfNat
    <3>3. \A t \in DOMAIN b : Worth(b[t]) = 0
      BY <2>5, <3>1, SideOfWorth
    <3>4. QED
      BY <3>1, <3>2, <3>3
  <2> HIDE DEF r, spare, setup
  <2>7. fee \in Nat /\ fee >= MinRequiredFee(estimator) /\ result.inMain = result.outMain + fee
    BY <2>3, <2>4 DEF fee
  <2>8. AreOutputs(r.changes) /\ \A t : Holds(r.changes, t) = 0
    BY <2>2, NoOutputs
  <2>9. ASSUME NEW t
        PROVE  /\ Have(r.outMain, r.outAssets, t)
                    = Have(result.outMain, result.outAssets, t) + Holds(r.changes, t)
               /\ Have(r.inMain, r.inAssets, t)
                    = Have(r.outMain, r.outAssets, t) + (IF t = Main THEN r.fee ELSE 0)
    <3>1. Have(result.outMain, result.outAssets, t) \in Nat
      BY <2>3, OfNat DEF Have
    <3>2. Have(result.inMain, result.inAssets, t)
            = Have(result.outMain, result.outAssets, t) + (IF t = Main THEN fee ELSE 0)
      BY <2>3, <2>6, <2>7, OfNat DEF Have
    <3>3. QED
      BY <2>2, <2>8, <3>1, <3>2 DEF IsOf
  <2>10. Balances(r)
    BY <2>2, <2>3, <2>7, <2>8, <2>9, WithChanges
  <2>11. \A o \in Range(r.changes) : IsFiniteSet(DOMAIN o.assets) /\ Main \notin DOMAIN o.assets
    BY <2>8 DEF AreOutputs, IsOutput, IsAssets
  <2>12. Submittable(r, estimator)
    BY <2>2, <2>7, <2>8, <2>10, <2>11, NoOutputs DEF Submittable, IsOf, AreOutputs
  <2>13. QED
    BY <1>1, <2>2, <2>12, BalancerReturns DEF r
<1>4. QED
  BY <1>2, <1>3

LEMMA SingleOutputKeeps ==
  ASSUME IInv, HasResult, result.by \in {"largest", "random"}, NEW may,
         SingleOutput(AsSetup(may)), UNCHANGED <<store, payments, fresh>>
  PROVE  IInv' /\ ChoiceStep
<1> DEFINE setup == AsSetup(may)
           balances == AssetBalance(setup.inAssets, setup.outAssets)
           spare == Spare(setup)
           over == {t \in DOMAIN balances : InExcess(balances[t])}
           cost == FeeForOutput(estimator)
           change == [value  |-> spare.amount - cost,
                      assets |-> [t \in over |-> balances[t].amount]]
           fee == MinRequiredFee(estimator) + cost
           r == result'
           no == \/ ~setup.change
                 \/ \E t \in DOMAIN balances : InDebt(balances[t])
                 \/ InDebt(spare)
                 \/ ~Accepts(estimator, change)
<1>0. EstimatorOk(estimator) /\ UNCHANGED <<available, random>>
  BY DEF SingleOutput, IInv
<1>1. CASE no
  <2>1. Fail /\ UNCHANGED estimator
    BY <1>1, Zenon DEF SingleOutput, setup, balances, spare, over, cost, change, no
  <2>2. QED
    BY <1>0, <2>1, ThEnds
<1>2. CASE ~no
  <2>1. /\ estimator' = AddOutputs(estimator, 1)
        /\ Return("balancer",
                  Merged([changes |-> <<change>>, fee |-> fee],
                         [Unchosen(setup) EXCEPT !.outMain   = @ + change.value,
                                                 !.outAssets = Together(@, change.assets)]))
    BY <1>2, Zenon DEF SingleOutput, setup, balances, spare, over, cost, change, no, fee
  <2>2. ~InDebt(spare) /\ \A t \in DOMAIN balances : ~InDebt(balances[t])
    BY <1>2
  <2>3. /\ change.value = spare.amount - cost
        /\ change.assets = [t \in over |-> balances[t].amount]
    OBVIOUS
  <2> HIDE DEF change, fee
  <2>4. /\ call' = NoCall /\ IsOf(result, r) /\ r.changes = <<change>> /\ r.fee = fee
        /\ r.outMain = result.outMain + change.value
        /\ r.outAssets = Together(result.outAssets, change.assets)
    BY <2>1 DEF Return, Merged, Unchosen, AsSetup, IsOf
  <2>5. /\ result.inMain \in Nat /\ IsAssets(result.inAssets)
        /\ result.outMain \in Nat /\ IsAssets(result.outAssets)
    BY ResultToBalance
  <2>6. /\ MinRequiredFee(estimator) \in Nat /\ spare.amount \in Nat
        /\ result.inMain = result.outMain + MinRequiredFee(estimator) + spare.amount
    BY <2>2, SpareFacts
  <2>7. cost \in Nat /\ MinRequiredFee(estimator') = MinRequiredFee(estimator) + cost
    BY <1>0, <2>1, FeeForOutputIs
  <2>8. EstimatorOk(estimator')
    BY <1>0, <2>1, AddOutputsFacts
  <2>9. balances = AssetBalance(result.inAssets, result.outAssets)
    BY DEF AsSetup
  <2>10. over \subseteq DOMAIN balances /\ \A t \in DOMAIN balances : t \in over <=> InExcess(balances[t])
    OBVIOUS
  <2> HIDE DEF setup, balances, spare, over, cost, r
  <2>11. /\ IsFiniteSet(DOMAIN balances) /\ Main \notin DOMAIN balances
         /\ \A t \in DOMAIN balances :
              /\ IsBalance(balances[t])
              /\ Worth(balances[t]) = Of(result.inAssets, t) - Of(result.outAssets, t)
         /\ \A t : t \notin DOMAIN balances
                     => Of(result.inAssets, t) = 0 /\ Of(result.outAssets, t) = 0
    BY <2>5, <2>9, AssetBalanceFacts
  <2>12. IsAssets(change.assets)
    <3>1. IsFiniteSet(over) /\ Main \notin over
      BY <2>10, <2>11, FS_Subset
    <3>2. \A t \in over : balances[t].amount \in Nat
      BY <2>10, <2>11, SideOfWorth
    <3>3. QED
      BY <2>3, <3>1, <3>2 DEF IsAssets
  <2>13. \A t : t # Main => Of(result.inAssets, t) = Of(result.outAssets, t) + Of(change.assets, t)
    <3> SUFFICES ASSUME NEW t
                 PROVE  Of(result.inAssets, t) = Of(result.outAssets, t) + Of(change.assets, t)
      OBVIOUS
    <3>0. Of(result.inAssets, t) \in Nat /\ Of(result.outAssets, t) \in Nat
      BY <2>5, OfNat
    <3>1. CASE t \in over
      <4>1. /\ Of(change.assets, t) = balances[t].amount
            /\ balances[t].amount = Worth(balances[t])
        BY <2>2, <2>3, <2>10, <2>11, <3>1, SideOfWorth DEF Of
      <4>2. QED
        BY <2>10, <2>11, <3>0, <3>1, <4>1
    <3>2. CASE t \in DOMAIN balances /\ t \notin over
      <4>1. Of(change.assets, t) = 0
        BY <2>3, <3>2 DEF Of
      <4>2. Worth(balances[t]) = 0
        BY <2>2, <2>10, <2>11, <3>2, SideOfWorth
      <4>3. QED
        BY <2>11, <3>0, <3>2, <4>1, <4>2
    <3>3. CASE t \notin DOMAIN balances
      BY <2>3, <2>10, <2>11, <3>3 DEF Of
    <3>4. QED
      BY <3>1, <3>2, <3>3
  <2>14. fee \in Nat /\ fee = MinRequiredFee(estimator')
    BY <2>6, <2>7 DEF fee
  <2>15. <<change>> \in Seq(Range(<<change>>)) /\ Range(<<change>>) = {change}
    <3>1. DOMAIN <<change>> = {1} /\ <<change>>[1] = change
      OBVIOUS
    <3>2. Range(<<change>>) = {change}
      BY <3>1 DEF Range
    <3>3. QED
      BY <3>2
  <2>16. ASSUME AreOutputs(r.changes)
         PROVE  Balances(r)
    <3>1. IsOutput(change)
      BY <2>4, <2>15, <2>16 DEF AreOutputs
    <3>2. change.value \in Nat
      BY <3>1 DEF IsOutput
    <3>3. \A t : Holds(r.changes, t) = In(change, t)
      BY <2>4, <3>1, HoldsOne
    <3>4. /\ IsAssets(r.outAssets)
          /\ \A t : Of(r.outAssets, t) = Of(result.outAssets, t) + Of(change.assets, t)
      BY <2>4, <2>5, <2>12, TogetherFacts
    <3>5. r.outMain \in Nat /\ result.inMain = r.outMain + fee
      BY <2>3, <2>4, <2>5, <2>6, <2>7, <3>2 DEF fee
    <3>6. ASSUME NEW t
          PROVE  /\ Have(r.outMain, r.outAssets, t)
                      = Have(result.outMain, result.outAssets, t) + Holds(r.changes, t)
                 /\ Have(r.inMain, r.inAssets, t)
                      = Have(r.outMain, r.outAssets, t) + (IF t = Main THEN r.fee ELSE 0)
      <4>1. Have(r.outMain, r.outAssets, t)
              = Have(result.outMain, result.outAssets, t) + In(change, t)
        BY <2>4, <3>4 DEF Have, In
      <4>2. Of(r.outAssets, t) \in Nat
        BY <3>4, OfNat
      <4>3. Have(result.inMain, result.inAssets, t)
              = Have(r.outMain, r.outAssets, t) + (IF t = Main THEN fee ELSE 0)
        BY <2>13, <3>4, <3>5, <4>2 DEF Have
      <4>4. QED
        BY <2>4, <3>3, <4>1, <4>3 DEF IsOf
    <3>7. r.fee \in Nat
      BY <2>4, <2>14
    <3>8. QED
      BY <2>4, <2>16, <3>4, <3>5, <3>6, <3>7, WithChanges
  <2>17. Submittable(r, estimator')
    <3>1. \A o \in Range(r.changes) : IsFiniteSet(DOMAIN o.assets) /\ Main \notin DOMAIN o.assets
      BY <2>4, <2>12, <2>15 DEF IsAssets
    <3>2. r.by = "balancer" /\ r.changes \in Seq(Range(r.changes)) /\ r.lost = <<>>
      BY <2>4, <2>15 DEF IsOf
    <3>3. r.fee >= MinRequiredFee(estimator')
      BY <2>4, <2>14
    <3>4. QED
      BY <2>16, <3>1, <3>2, <3>3, NoOutputs DEF Submittable
  <2>18. QED
    BY <1>0, <2>4, <2>8, <2>17, BalancerReturns DEF r
<1>3. QED
  BY <1>1, <1>2

LEMMA BalanceChangeKeeps ==
  ASSUME IInv, BalanceChange
  PROVE  IInv' /\ ChoiceStep
BY FeeChangeKeeps, SingleOutputKeeps DEF BalanceChange

-----------------------------------------------------------------------------
(* The caller: what it begins with, asks for, and does with a result.      *)

LEMMA EstimatorAsked ==
  ASSUME NEW r \in Requests, NEW fixed, Len(fixed) \in Nat
  PROVE  /\ EstimatorOk(AddInputs(AddOutputs(EstimatorFor(r), Len(r.outs)), Len(fixed)))
         /\ AreOutputs(r.outs)
<1>1. AreOutputs(r.outs) /\ r.est \in {"dummy", "thermostat", "magic", "cml"}
  BY WalletAssumption
<1>2. EstimatorOk(EstimatorFor(r))
  BY <1>1, EstimatorsAreOk DEF EstimatorFor
<1>3. Len(r.outs) \in Nat
  BY <1>1, OutputsFacts
<1>4. EstimatorOk(AddOutputs(EstimatorFor(r), Len(r.outs)))
  BY <1>2, <1>3, AddOutputsFacts
<1>5. QED
  BY <1>1, <1>4, AddInputsFacts

LEMMA FixedIs ==
  ASSUME IInv, NEW r, NEW fixed \in FixedInputs(r)
  PROVE  /\ fixed \in Seq(Owned) /\ IsInjective(fixed) /\ IsFiniteSet(Range(fixed))
         /\ Len(fixed) \in Nat
<1>1. fixed \in Seq(Owned) /\ (Len(fixed) = 0 \/ Len(fixed) = 1)
  <2>1. CASE fixed = <<>>
    BY <2>1
  <2>2. CASE \E u \in Owned : fixed = <<u>>
    BY <2>2
  <2>3. QED
    BY <2>1, <2>2 DEF FixedInputs, Owned
<1>2. DOMAIN fixed = 1..Len(fixed)
  BY <1>1
<1>3. \A j, k \in DOMAIN fixed : j = k
  BY <1>1, <1>2
<1>4. IsInjective(fixed)
  BY <1>3 DEF IsInjective
<1>5. QED
  BY <1>1, <1>4, EnumeratesRange

LEMMA SetupIs ==
  ASSUME NEW own, NEW fixed \in Seq(own), IsInjective(fixed), NEW outs, AreOutputs(outs),
         NEW change
  PROVE  LET setup == FromFixedInputsAndOutputs(fixed, outs, change) IN
         SetupOk(setup, own) /\ setup.fixedIn = fixed /\ setup.fixedOut = outs
BY DEF FromFixedInputsAndOutputs, SetupOk

LEMMA OwnedHasQuantities ==
  ASSUME IInv
  PROVE  \A u \in Owned : HasQuantities(u)
BY OwnedFacts, IsOutputHasQuantities

LEMMA StoreLeft ==
  ASSUME IInv, NEW S, IsFiniteSet(S), NEW utxos,
         utxos \in {RemoveAll(store, S), FromUtxos(RemoveAll(store, S).utxos.set)}
  PROVE  GoodStore(utxos) /\ utxos.utxos.set = Owned \ S /\ IsFiniteSet(utxos.utxos.set)
<1> DEFINE left == RemoveAll(store, S)
<1>1. GoodStore(left) /\ left.utxos.set = Owned \ S
  BY RemoveAllKeepsIndexes DEF IInv, StoreOk, Owned
<1>2. /\ IsFiniteSet(left.utxos.set) /\ PointersDiffer(left.utxos.set)
      /\ \A u \in left.utxos.set : HasQuantities(u)
  BY <1>1 DEF GoodStore, IndexesAgree
<1> HIDE DEF left
<1>3. GoodStore(FromUtxos(left.utxos.set)) /\ FromUtxos(left.utxos.set).utxos.set = left.utxos.set
  BY <1>2, FromUtxosIsGood
<1>4. QED
  BY <1>1, <1>2, <1>3 DEF left

LEMMA RandomIs ==
  ASSUME NEW S, IsFiniteSet(S), NEW old, RandomOk(old),
         NEW r \in {NewRandom(Listed(S)), SetAvailableInputs(old, Listed(S))}
  PROVE  RandomOk(r) /\ Range(r.inputs) = S /\ DOMAIN r.inputs = 1..Len(r.inputs)
<1> DEFINE inputs == Listed(S)
<1>1. Enumerates(inputs, S)
  BY ListedFacts
<1> HIDE DEF inputs
<1>2. inputs \in Seq(Range(inputs)) /\ IsInjective(inputs) /\ Range(inputs) = S
      /\ Len(inputs) \in Nat /\ DOMAIN inputs = 1..Len(inputs)
  BY <1>1 DEF Enumerates, Range
<1>3. CASE r = NewRandom(inputs)
  <2>1. {"inputs", "indices"} \subseteq DOMAIN r /\ r.inputs = inputs /\ r.indices = 1..Len(inputs)
    BY <1>3 DEF NewRandom
  <2>2. r.indices \subseteq Nat /\ IsFiniteSet(r.indices)
    BY <1>2, <2>1, FS_Interval
  <2>3. QED
    BY <1>2, <2>1, <2>2 DEF RandomOk
<1>4. CASE r = SetAvailableInputs(old, inputs)
  <2>1. {"inputs", "indices"} \subseteq DOMAIN r /\ r.inputs = inputs /\ r.indices = old.indices
    BY <1>4 DEF SetAvailableInputs, RandomOk
  <2>2. QED
    BY <1>2, <2>1 DEF RandomOk
<1>5. QED
  BY <1>3, <1>4 DEF inputs

LEMMA AskKeeps == ASSUME IInv, Ask PROVE IInv' /\ ChoiceStep
<1>1. PICK r \in Requests : \E fixed \in FixedInputs(r) :
        LET setup == FromFixedInputsAndOutputs(fixed, r.outs, r.change)
            left  == RemoveAll(store, Range(fixed))
            e     == AddInputs(AddOutputs(EstimatorFor(r), Len(r.outs)), Len(fixed))
        IN
        /\ estimator' = e
        /\ \E utxos \in {left, FromUtxos(left.utxos.set)} :
             CASE r.algo = "largest"    -> AskLargest(setup, utxos, e)
               [] r.algo = "random"     -> AskRandom(setup, utxos, e)
               [] r.algo = "thermostat" -> AskThermostat(setup, utxos, e)
  BY Zenon DEF Ask
<1>2. PICK fixed \in FixedInputs(r) :
        LET setup == FromFixedInputsAndOutputs(fixed, r.outs, r.change)
            left  == RemoveAll(store, Range(fixed))
            e     == AddInputs(AddOutputs(EstimatorFor(r), Len(r.outs)), Len(fixed))
        IN
        /\ estimator' = e
        /\ \E utxos \in {left, FromUtxos(left.utxos.set)} :
             CASE r.algo = "largest"    -> AskLargest(setup, utxos, e)
               [] r.algo = "random"     -> AskRandom(setup, utxos, e)
               [] r.algo = "thermostat" -> AskThermostat(setup, utxos, e)
  BY <1>1, Zenon
<1> DEFINE setup == FromFixedInputsAndOutputs(fixed, r.outs, r.change)
           left  == RemoveAll(store, Range(fixed))
           e     == AddInputs(AddOutputs(EstimatorFor(r), Len(r.outs)), Len(fixed))
<1>3. PICK utxos \in {left, FromUtxos(left.utxos.set)} :
        CASE r.algo = "largest"    -> AskLargest(setup, utxos, e)
          [] r.algo = "random"     -> AskRandom(setup, utxos, e)
          [] r.algo = "thermostat" -> AskThermostat(setup, utxos, e)
  BY <1>2, Zenon DEF setup, left, e
<1>4. estimator' = e
  BY <1>2, Zenon DEF e
<1>5. /\ fixed \in Seq(Owned) /\ IsInjective(fixed) /\ IsFiniteSet(Range(fixed))
      /\ Len(fixed) \in Nat
  BY FixedIs
<1>6. EstimatorOk(estimator') /\ AreOutputs(r.outs)
  BY <1>4, <1>5, EstimatorAsked
<1>7. SetupOk(setup, Owned) /\ setup.fixedIn = fixed /\ setup.fixedOut = r.outs
  BY <1>5, <1>6, SetupIs
<1>8. /\ GoodStore(utxos) /\ utxos.utxos.set = Owned \ Range(setup.fixedIn)
      /\ IsFiniteSet(utxos.utxos.set)
  BY <1>5, <1>7, StoreLeft
<1>9. UNCHANGED <<result, store, fresh>> /\ result' = NoResult
  BY DEF Ask, Idle
<1>10. r.algo \in {"largest", "random", "thermostat"}
  BY WalletAssumption
<1> HIDE DEF setup, left, e
<1>11. CASE r.algo = "largest"
  <2>1. AskLargest(setup, utxos, e)
    BY <1>3, <1>11
  <2>2. LargestOk(call', Owned)
    BY <1>7, <1>8, <2>1, OwnedFacts, LfBeginOk DEF AskLargest
  <2>3. RestOk
    BY <1>6, <1>8, <1>9, <2>1 DEF AskLargest, RestOk, IInv
  <2>4. QED
    BY <1>9, <2>2, <2>3, GoesOn DEF CallOk
<1>12. CASE r.algo = "random"
  <2>1. AskRandom(setup, utxos, e)
    BY <1>3, <1>12
  <2>2. /\ random' \in {NewRandom(Listed(utxos.utxos.set)),
                        SetAvailableInputs(random, Listed(utxos.utxos.set))}
        /\ call' = RiBegin(setup, random', e) /\ UNCHANGED available
    BY <2>1 DEF AskRandom
  <2>3. /\ RandomOk(random') /\ Range(random'.inputs) = Owned \ Range(setup.fixedIn)
        /\ DOMAIN random'.inputs = 1..Len(random'.inputs)
    BY <1>8, <2>2, RandomIs DEF IInv
  <2>4. RandomCallOk(call', Owned, random')
    BY <1>7, <2>2, <2>3, OwnedFacts, RiBeginOk
  <2>5. RestOk
    BY <1>6, <1>9, <2>2, <2>3 DEF RestOk, IInv, StoreOk
  <2>6. QED
    BY <1>9, <2>4, <2>5, GoesOn DEF CallOk
<1>13. CASE r.algo = "thermostat"
  <2>1. AskThermostat(setup, utxos, e)
    BY <1>3, <1>13
  <2>2. ThermostatOk(call', Owned)
    BY <1>7, <1>8, <2>1, OwnedFacts, ThBeginOk DEF AskThermostat
  <2>3. RestOk
    BY <1>6, <1>8, <1>9, <2>1 DEF AskThermostat, RestOk, IInv
  <2>4. QED
    BY <1>9, <2>2, <2>3, GoesOn DEF CallOk
<1>14. QED
  BY <1>10, <1>11, <1>12, <1>13

(* an output the store does not have yet                                   *)
LEMMA FromIoIs ==
  ASSUME NEW o, IsOutput(o), NEW n \in Nat
  PROVE  IsOutput(FromIo(n, o)) /\ FromIo(n, o).pointer = n
BY DEF FromIo, IsOutput

LEMMA NewOnes ==
  ASSUME IInv, NEW S, NEW n \in Nat,
         \A u \in S : IsOutput(u) /\ u.pointer \in fresh..fresh + n - 1
  PROVE  /\ fresh \in Nat /\ fresh + n \in Nat
         /\ \A u \in S : ~ContainsKey(store.utxos, u.pointer)
         /\ OwnedOk(Owned \cup S, fresh + n)
<1>1. fresh \in Nat /\ \A u \in Owned : IsOutput(u) /\ u.pointer \in Nat /\ u.pointer < fresh
  BY DEF IInv, StoreOk, OwnedOk
<1>2. \A u \in S : /\ IsOutput(u) /\ u.pointer \in Nat /\ u.pointer < fresh + n
                   /\ ~(u.pointer < fresh)
  BY <1>1
<1>3. \A u \in S : ~ContainsKey(store.utxos, u.pointer)
  BY <1>1, <1>2 DEF ContainsKey, Owned
<1>4. \A u \in Owned : u.pointer < fresh + n
  BY <1>1
<1>5. QED
  BY <1>1, <1>2, <1>3, <1>4 DEF OwnedOk

LEMMA OwnedSubset ==
  ASSUME NEW own, NEW part \in SUBSET own, NEW n, OwnedOk(own, n)
  PROVE  OwnedOk(part, n)
BY DEF OwnedOk

LEMMA ReceiveKeeps == ASSUME IInv, Receive PROVE IInv' /\ ChoiceStep
<1>1. PICK o \in Incoming : store' = InsertUtxo(store, FromIo(fresh, o))
  BY DEF Receive
<1>2. /\ call = NoCall /\ result = NoResult /\ fresh' = fresh + 1
      /\ UNCHANGED <<available, random, estimator, call, result>>
  BY DEF Receive, Idle, selectionVars
<1> DEFINE u == FromIo(fresh, o)
<1>3. fresh \in Nat /\ GoodStore(store)
  BY DEF IInv, StoreOk
<1>4. IsOutput(u) /\ u.pointer = fresh
  BY <1>3, WalletAssumption, FromIoIs
<1> HIDE DEF u
<1>5. /\ ~ContainsKey(store.utxos, u.pointer) /\ fresh + 1 \in Nat
      /\ OwnedOk(Owned \cup {u}, fresh + 1)
  <2>1. \A w \in {u} : IsOutput(w) /\ w.pointer \in fresh..fresh + 1 - 1
    BY <1>3, <1>4
  <2>2. 1 \in Nat
    OBVIOUS
  <2>3. QED
    <3>1. u \in {u}
      OBVIOUS
    <3>2. QED
      BY <2>1, <2>2, <3>1, NewOnes, Zenon
<1>6. GoodStore(store') /\ store'.utxos.set = Owned \cup {u}
  BY <1>1, <1>3, <1>4, <1>5, IsOutputHasQuantities, InsertKeepsIndexes DEF Owned, u
<1>7. StoreOk'
  BY <1>2, <1>5, <1>6 DEF StoreOk, IInv, Owned
<1>8. IInv'
  BY <1>2, <1>7 DEF IInv, CallOk
<1>9. QED
  BY <1>2, <1>8 DEF ChoiceStep

LEMMA GiveUpKeeps == ASSUME IInv, GiveUp PROVE IInv' /\ ChoiceStep
<1>1. /\ call = NoCall /\ result' = NoResult
      /\ UNCHANGED <<available, random, estimator, call, store, payments, fresh>>
  BY DEF GiveUp
<1>2. IInv'
  BY <1>1 DEF IInv, CallOk, StoreOk, Owned
<1>3. QED
  BY <1>1, <1>2 DEF ChoiceStep

LEMMA SubmittableResult ==
  ASSUME IInv, Submit
  PROVE  /\ ResultOk(result, Owned, estimator) /\ Submittable(result, estimator)
         /\ AreOutputs(result.changes) /\ Balances(result)
<1>1. /\ HasResult /\ result.by \in {"thermostat", "balancer"} /\ OutputsConvert(result)
  BY DEF Submit
<1>2. ResultOk(result, Owned, estimator)
  BY <1>1, NoneSelected DEF IInv, HasResult
<1>3. Submittable(result, estimator)
  BY <1>1, <1>2 DEF ResultOk, Unbalanced
<1>4. /\ result.changes \in Seq(Range(result.changes)) /\ AreOutputs(result.fixedOut)
      /\ \A o \in Range(result.changes) : IsFiniteSet(DOMAIN o.assets) /\ Main \notin DOMAIN o.assets
  BY <1>2, <1>3 DEF ResultOk, Submittable
<1>5. Range(result.changes) \subseteq Range(OutputsOf(result))
  <2> DEFINE a == result.fixedOut
             b == result.changes
  <2>1. a \in Seq(Range(a)) /\ b \in Seq(Range(b))
    BY <1>4 DEF AreOutputs
  <2>2. /\ DOMAIN a = 1..Len(a) /\ DOMAIN b = 1..Len(b) /\ Len(a) \in Nat /\ Len(b) \in Nat
        /\ DOMAIN (a \o b) = 1..Len(a) + Len(b)
        /\ \A k \in 1..Len(b) : (a \o b)[Len(a) + k] = b[k]
    <3> DEFINE X == Range(a) \cup Range(b)
    <3>1. a \in Seq(X) /\ b \in Seq(X)
      BY <2>1
    <3> HIDE DEF a, b, X
    <3>2. QED
      BY <3>1
  <2> HIDE DEF a, b
  <2>3. \A k \in DOMAIN b : Len(a) + k \in DOMAIN (a \o b) /\ (a \o b)[Len(a) + k] = b[k]
    BY <2>2
  <2>4. Range(b) \subseteq Range(a \o b)
    BY <2>3 DEF Range
  <2>5. QED
    BY <2>4 DEF a, b, OutputsOf
<1>6. \A v : IsCoin(v) => v \in Nat
  BY CostsAreNatural DEF IsCoin
<1>7. \A o \in Range(result.changes) : IsOutput(o)
  BY <1>1, <1>4, <1>5, <1>6 DEF OutputsConvert, HasCoins, IsOutput, IsAssets
<1>8. AreOutputs(result.changes)
  BY <1>4, <1>7 DEF AreOutputs
<1>9. QED
  BY <1>2, <1>3, <1>8 DEF Submittable

LEMMA SubmitKeeps == ASSUME IInv, Submit PROVE IInv' /\ ChoiceStep
<1> DEFINE R == Range(InputsOf(result))
           D == DOMAIN result.changes
           S == {Change(result, k) : k \in D}
           left == RemoveAll(store, R)
           n == Len(result.changes)
<1>1. /\ call = NoCall /\ result' = NoResult /\ fresh' = fresh + n
      /\ store' = InsertAll(left, S)
      /\ UNCHANGED <<available, random, estimator, call, payments>>
  BY DEF Submit, HasResult
<1>2. AreOutputs(result.changes) /\ ResultOk(result, Owned, estimator)
  BY SubmittableResult
<1>3. /\ n \in Nat /\ D = 1..n /\ IsFiniteSet(D)
      /\ \A k \in D : IsOutput(result.changes[k])
  BY <1>2, OutputsFacts
<1>4. IsFiniteSet(R)
  BY <1>2, EnumeratesRange DEF ResultOk
<1>5. fresh \in Nat /\ GoodStore(store)
  BY DEF IInv, StoreOk
<1> HIDE DEF R, left, n
<1>6. GoodStore(left) /\ left.utxos.set = Owned \ R
  BY <1>4, <1>5, RemoveAllKeepsIndexes DEF Owned, left
<1>7. IsFiniteSet(S)
  <2> DEFINE f == [k \in D |-> Change(result, k)]
  <2>1. f \in Surjection(D, S)
    BY DEF Surjection
  <2>2. QED
    BY <1>3, <2>1, FS_Surjection
<1>8. \A u \in S : IsOutput(u) /\ u.pointer \in fresh..fresh + n - 1
  <2> SUFFICES ASSUME NEW k \in D
               PROVE  IsOutput(Change(result, k))
                      /\ Change(result, k).pointer \in fresh..fresh + n - 1
    OBVIOUS
  <2>1. fresh + k - 1 \in Nat /\ fresh + k - 1 \in fresh..fresh + n - 1
    BY <1>3, <1>5
  <2>2. QED
    BY <1>3, <2>1, FromIoIs DEF Change
<1>9. PointersDiffer(S)
  <2> SUFFICES ASSUME NEW j \in D, NEW k \in D,
                      Change(result, j).pointer = Change(result, k).pointer
               PROVE  Change(result, j) = Change(result, k)
    BY DEF PointersDiffer
  <2>1. fresh + j - 1 = fresh + k - 1
    BY DEF Change, FromIo
  <2>2. j = k
    BY <1>3, <1>5, <2>1
  <2>3. QED
    BY <2>2
<1> HIDE DEF S, D
<1>10. /\ fresh + n \in Nat /\ OwnedOk(Owned \cup S, fresh + n)
      /\ \A u \in S : ~ContainsKey(store.utxos, u.pointer)
  BY <1>3, <1>8, NewOnes
<1>11. GoodStore(store') /\ store'.utxos.set = (Owned \ R) \cup S
  <2>1. \A u \in S : HasQuantities(u) /\ ~ContainsKey(left.utxos, u.pointer)
    BY <1>6, <1>8, <1>10, IsOutputHasQuantities DEF ContainsKey, Owned
  <2>2. QED
    BY <1>1, <1>6, <1>7, <1>9, <2>1, InsertAllKeepsIndexes
<1>12. OwnedOk((Owned \ R) \cup S, fresh + n)
  BY <1>10, OwnedSubset
<1>13. StoreOk'
  BY <1>1, <1>10, <1>11, <1>12 DEF StoreOk, IInv, Owned
<1>14. IInv'
  BY <1>1, <1>13 DEF IInv, CallOk
<1>15. QED
  BY <1>1, <1>14 DEF ChoiceStep

LEMMA InitIInv == ASSUME Init PROVE IInv
<1> DEFINE n == Cardinality(InitialUtxos)
<1>1. /\ store = FromUtxos(InitialUtxos) /\ available = EmptyStore
      /\ random = NewRandom(Listed(InitialUtxos)) /\ estimator = DummyEstimator
      /\ call = NoCall /\ result = NoResult /\ fresh = n + 1
  BY DEF Init
<1>2. IsFiniteSet(InitialUtxos) /\ PointersDiffer(InitialUtxos) /\ n \in Nat
  BY WalletAssumption, FS_CardinalityType
<1>3. \A u \in InitialUtxos : IsOutput(u) /\ u.pointer \in 1..n
  BY WalletAssumption
<1> HIDE DEF n
<1>4. GoodStore(store) /\ store.utxos.set = InitialUtxos /\ GoodStore(available)
  BY <1>1, <1>2, <1>3, IsOutputHasQuantities, FromUtxosIsGood, EmptyStoreIsGood
<1>5. OwnedOk(InitialUtxos, n + 1)
  <2>1. \A u \in InitialUtxos : u.pointer \in Nat /\ u.pointer < n + 1
    BY <1>2, <1>3
  <2>2. QED
    BY <1>3, <2>1 DEF OwnedOk
<1>6. StoreOk
  BY <1>1, <1>2, <1>4, <1>5 DEF StoreOk, Owned
<1>7. RandomOk(random)
  <2>1. RandomOk(NewRandom(<<>>))
    <3>1. {"inputs", "indices"} \subseteq DOMAIN NewRandom(<<>>) /\ NewRandom(<<>>).inputs = <<>>
          /\ NewRandom(<<>>).indices = 1..0
      BY DEF NewRandom
    <3>2. <<>> \in Seq(Range(<<>>)) /\ IsInjective(<<>>) /\ 1..0 \subseteq Nat /\ IsFiniteSet(1..0)
      BY FS_Interval DEF IsInjective
    <3>3. QED
      BY <3>1, <3>2 DEF RandomOk
  <2>2. QED
    BY <1>1, <1>2, <2>1, RandomIs
<1>8. QED
  BY <1>1, <1>6, <1>7, EstimatorsAreOk DEF IInv, CallOk

-----------------------------------------------------------------------------
(* The next step, and what follows for every run.                          *)

LEMMA LargestKeeps ==
  ASSUME IInv, LfStep, UNCHANGED <<store, payments, fresh>>
  PROVE  IInv' /\ ChoiceStep
BY LfNextTokenKeeps, LfSelectKeeps, LfNoMoreInputKeeps, LfReturnKeeps DEF LfStep

LEMMA RandomKeeps ==
  ASSUME IInv, RiStep, UNCHANGED <<store, payments, fresh>>
  PROVE  IInv' /\ ChoiceStep
BY RiPhaseKeeps, RiNextOutputKeeps, RiTakeKeeps, RiInsufficientKeeps, RiAllCoveredKeeps,
   RiImproveKeeps, RiNextToImproveKeeps, RiAllImprovedKeeps, RiCollectKeeps,
   RiExtraKeeps, RiReturnKeeps DEF RiStep

LEMMA ThermostatKeeps ==
  ASSUME IInv, ThStep, UNCHANGED <<store, payments, fresh>>
  PROVE  IInv' /\ ChoiceStep
BY ThCoverAssetKeeps, ThBalanceAssetKeeps, ThAssetsAreCoveredKeeps, ThCoverMainKeeps,
   ThMainIsCoveredKeeps, ThRegroupKeeps, ThCannotRegroupKeeps, ThRegroupedKeeps,
   ThBalanceAssetAgainKeeps, ThBalanceMainKeeps, ThSplitKeeps, ThReturnKeeps DEF ThStep

LEMMA StutterKeeps == ASSUME IInv, UNCHANGED vars PROVE IInv' /\ ChoiceStep
<1>1. UNCHANGED <<available, random, estimator, call, result, store, payments, fresh>>
  BY DEF vars, selectionVars
<1>2. IInv'
  BY <1>1 DEF IInv, StoreOk, Owned
<1>3. ChoiceStep
  BY <1>1, NoneSelected DEF IInv, ChoiceStep
<1>4. QED
  BY <1>2, <1>3

LEMMA NextKeeps == ASSUME IInv, [Next]_vars PROVE IInv' /\ ChoiceStep
<1>1. CASE Ask
  BY <1>1, AskKeeps
<1>2. CASE Select
  BY <1>2, LargestKeeps, RandomKeeps, ThermostatKeeps DEF Select
<1>3. CASE BalanceChange
  BY <1>3, BalanceChangeKeeps
<1>4. CASE Submit
  BY <1>4, SubmitKeeps
<1>5. CASE GiveUp
  BY <1>5, GiveUpKeeps
<1>6. CASE Receive
  BY <1>6, ReceiveKeeps
<1>7. CASE UNCHANGED vars
  BY <1>7, StutterKeeps
<1>8. QED
  BY <1>1, <1>2, <1>3, <1>4, <1>5, <1>6, <1>7 DEF Next

(* IInv is inductive: whatever the wallet owns, is paid and is asked, equal *)
(* outputs and changes too small to be cut in two among it, its store, the *)
(* call under way and the result of the last one fit together.             *)
THEOREM WalletInvariance == Spec => []IInv
<1>1. Init => IInv
  BY InitIInv
<1>2. IInv /\ [Next]_vars => IInv'
  BY NextKeeps
<1>3. QED
  BY <1>1, <1>2, PTL DEF Spec

(* Every store, also the copies the algorithms work on, keeps its indexes   *)
(* with its outputs (UTxOStoreMut::insert and remove).                     *)
THEOREM StoresAlwaysAgree == Spec => []StoresAgree
<1>1. IInv => StoresAgree
  <2> SUFFICES ASSUME IInv PROVE StoresAgree
    OBVIOUS
  <2>1. IndexesAgree(store) /\ IndexesAgree(available)
    BY DEF IInv, StoreOk, GoodStore
  <2>2. ASSUME call.algo \in {"largest", "thermostat"} PROVE IndexesAgree(call.utxos)
    <3>1. call # NoCall /\ call.algo # "random"
      BY <2>2, NoneSelected
    <3>2. LargestOk(call, Owned) \/ ThermostatOk(call, Owned)
      BY <3>1 DEF IInv, CallOk, RandomCallOk
    <3>3. QED
      BY <3>2 DEF LargestOk, ThermostatOk, TakenOk, GoodStore
  <2>3. QED
    BY <2>1, <2>2 DEF StoresAgree
<1>2. QED
  BY <1>1, WalletInvariance, PTL

(* A call that selected chose inputs that were available, none of them     *)
(* twice, and what is available afterwards is exactly the rest             *)
(* (select_inputs and available_inputs of each algorithm).                 *)
THEOREM ChoicesPartition == Spec => ChoiceIsAPartition
<1>1. IInv /\ [Next]_vars
        => [call # NoCall /\ result'.is = "selected"
              => LET chosen == Range(result'.chosen) IN
                 /\ IsInjective(result'.chosen)
                 /\ chosen \subseteq call.given
                 /\ NowAvailable = call.given \ chosen]_vars
  BY NextKeeps DEF ChoiceStep
<1>2. QED
  BY <1>1, WalletInvariance, PTL DEF Spec, ChoiceIsAPartition

(* A transaction the wallet submits spends outputs it owns, each once, and *)
(* in every token its inputs are worth its outputs and the fee, but for    *)
(* the inputs that RandomImprove counted once more, which needs two equal  *)
(* outputs, and the halves the thermostat lost, which needs a least change *)
(* of which half does not pay for an output; a balancer pays at least the  *)
(* fee the estimator requires (select_inputs of Thermostat,                *)
(* FeeChangeBalancer and SingleOutputChangeBalancer).                      *)
THEOREM SubmittedAreValid == Spec => SubmittedIsValid
<1>1. IInv /\ [Next]_vars
        => [Submit => /\ IsInjective(InputsOf(result))
                      /\ Range(InputsOf(result)) \subseteq store.utxos.set
                      /\ ListsBalance(InputsOf(result) \o result.again,
                                      OutputsOf(result) \o result.lost, result.fee)
                      /\ result.lost = <<>> => IsBalanced(result)
                      /\ result.again # <<>> => ~IsInjective(result.fixedOut)
                      /\ result.lost # <<>> => ThermostatMin <= 2 * AssumedCostOneOutput + 1
                      /\ result.by = "balancer"
                           => result.fee >= MinRequiredFee(estimator)]_vars
  <2> SUFFICES ASSUME IInv, Submit
               PROVE  /\ IsInjective(InputsOf(result))
                      /\ Range(InputsOf(result)) \subseteq store.utxos.set
                      /\ ListsBalance(InputsOf(result) \o result.again,
                                      OutputsOf(result) \o result.lost, result.fee)
                      /\ result.lost = <<>> => IsBalanced(result)
                      /\ result.again # <<>> => ~IsInjective(result.fixedOut)
                      /\ result.lost # <<>> => ThermostatMin <= 2 * AssumedCostOneOutput + 1
                      /\ result.by = "balancer"
                           => result.fee >= MinRequiredFee(estimator)
    OBVIOUS
  <2>1. /\ ResultOk(result, Owned, estimator) /\ Submittable(result, estimator)
        /\ Balances(result)
    BY SubmittableResult
  <2>2. InputsOf(result) \in Seq(Owned) /\ IsInjective(InputsOf(result))
    BY <2>1 DEF ResultOk
  <2>3. Range(InputsOf(result)) \subseteq Owned
    BY <2>2 DEF Range
  <2>4. result.again # <<>> => ~IsInjective(result.fixedOut)
    BY <2>1 DEF ResultOk, AgainOk
  <2>5. /\ result.lost # <<>> => ThermostatMin <= 2 * AssumedCostOneOutput + 1
        /\ result.by = "balancer" => result.fee >= MinRequiredFee(estimator)
    BY <2>1 DEF Submittable, HalvesAreSmall
  <2>6. /\ ListsBalance(InputsOf(result) \o result.again,
                        OutputsOf(result) \o result.lost, result.fee)
        /\ result.lost = <<>> => IsBalanced(result)
    BY <2>1 DEF Balances
  <2>7. QED
    BY <2>2, <2>3, <2>4, <2>5, <2>6 DEF Owned
<1>2. QED
  BY <1>1, WalletInvariance, PTL DEF Spec, SubmittedIsValid
=============================================================================
