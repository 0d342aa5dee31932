---------------------------- MODULE ForestProofs ----------------------------
(***************************************************************************)
(* Facts about the operators of BlockForest, for any blocks: an insertion  *)
(* and a removal keep the links and the tables in agreement and fail no    *)
(* assertion, loading a database gives what inserting its blocks in the    *)
(* order of their keys gives, and ancestor goes up one link at a time.     *)
(***************************************************************************)
EXTENDS BlockForest, FiniteSetTheorems, TLAPS

-----------------------------------------------------------------------------
(* A family of subsets of a finite set has a smallest one.                 *)
LEMMA LeastSet ==
  ASSUME NEW S, IsFiniteSet(S), NEW F, F \subseteq SUBSET S, F # {}
  PROVE  \E T \in F : \A U \in F : U \subseteq T => U = T
<1> DEFINE R == StrictSubsetOrdering(S)
<1>1. IsWellFoundedOn(R, SUBSET S)
  BY FS_FiniteSubsetsOfFinite, FS_StrictSubsetOrderingWellFounded, Zenon
<1> HIDE DEF R
<1>2. PICK T \in F : \A U \in F : ~(<<U, T>> \in R)
  BY <1>1, WFMin
<1>3. QED
  BY <1>2 DEF R, StrictSubsetOrdering

(* So has a set of natural numbers below a bound.                           *)
LEMMA LeastNumber ==
  ASSUME NEW L \in Nat, NEW T \in SUBSET (0..L), T # {}
  PROVE  \E x \in T : \A y \in T : x <= y
<1> DEFINE F == {0..x : x \in T}
<1>1. F \subseteq SUBSET (0..L)
  <2>1. ASSUME NEW X \in F
        PROVE  X \subseteq 0..L
    <3>1. PICK x \in T : X = 0..x
      OBVIOUS
    <3>2. QED
      BY <3>1
  <2>. HIDE DEF F
  <2>2. QED
    BY <2>1
<1>0. F # {}
  OBVIOUS
<1>2. IsFiniteSet(0..L)
  BY FS_Interval
<1>. HIDE DEF F
<1> DEFINE I == 0..L
<1>. HIDE DEF I
<1>9. IsFiniteSet(I) /\ F \subseteq SUBSET I
  BY <1>1, <1>2 DEF I
<1>3. PICK X \in F : \A U \in F : U \subseteq X => U = X
  BY <1>0, <1>9, LeastSet
<1>4. PICK x \in T : X = 0..x
  BY DEF F
<1>5. ASSUME NEW y \in T, y < x
      PROVE  FALSE
  <2>1. 0..y \in F /\ 0..y \subseteq 0..x /\ x \in 0..x /\ x \notin 0..y
    BY <1>5 DEF F
  <2>2. QED
    BY <1>3, <1>4, <2>1
<1>6. QED
  BY <1>5

(* Induction up to a bound, on the set of the numbers that are reached.    *)
LEMMA Induct ==
  ASSUME NEW L \in Nat, NEW S, 0 \in S,
         \A n \in 0..L - 1 : n \in S => n + 1 \in S
  PROVE  \A n \in 0..L : n \in S
<1> SUFFICES ASSUME NEW n \in 0..L, n \notin S PROVE FALSE
  OBVIOUS
<1> DEFINE T == {x \in 0..L : x \notin S}
<1>1. T \in SUBSET (0..L) /\ T # {}
  OBVIOUS
<1>2. PICK x \in T : \A y \in T : x <= y
  BY <1>1, LeastNumber
<1>3. x # 0 /\ x - 1 \in 0..L - 1 /\ (x - 1) + 1 = x
  OBVIOUS
<1>4. x - 1 \in S
  BY <1>2, <1>3
<1>5. QED
  BY <1>3, <1>4
-----------------------------------------------------------------------------
(* What load_from does with one key of the order: nothing if the database  *)
(* does not hold it.                                                       *)
Put(db, m, b) == IF b \in db THEN InsertInMemory(m, {}, b) ELSE m

Folded(db, s, iter) ==
  IF s = {} THEN EmptyForest
  ELSE Put(db, iter[s \ {Max(s)}], KeyOrder[Max(s)])

IsFold(db, n, iter) == iter = [s \in SUBSET (1..n) |-> Folded(db, s, iter)]

(* The order of the keys is a sequence without duplicates of all blocks.   *)
LEMMA KeyOrderFacts ==
  /\ Len(KeyOrder) \in Nat
  /\ DOMAIN KeyOrder = 1..Len(KeyOrder)
  /\ \A n \in 1..Len(KeyOrder) : KeyOrder[n] \in Blocks
  /\ \A b \in Blocks : \E n \in 1..Len(KeyOrder) : KeyOrder[n] = b
  /\ IsFiniteSet(Blocks)
<1>1. KeyOrder \in Seq(Blocks) /\ ToSet(KeyOrder) = Blocks
  BY BlockForestAssumption
<1>2. Len(KeyOrder) \in Nat /\ DOMAIN KeyOrder = 1..Len(KeyOrder)
  BY <1>1
<1>3. /\ \A n \in 1..Len(KeyOrder) : KeyOrder[n] \in Blocks
      /\ \A b \in Blocks : \E n \in 1..Len(KeyOrder) : KeyOrder[n] = b
  BY <1>1, <1>2 DEF ToSet
<1>4. KeyOrder \in Surjection(1..Len(KeyOrder), Blocks)
  BY <1>1, <1>2, <1>3 DEF Surjection
<1>5. IsFiniteSet(1..Len(KeyOrder))
  BY <1>2, FS_Interval
<1>6. IsFiniteSet(Blocks)
  BY <1>4, <1>5, FS_Surjection
<1>7. QED
  BY <1>2, <1>3, <1>6

(* The largest element is the one that no other exceeds.                   *)
LEMMA MaxIs ==
  ASSUME NEW S \in SUBSET Nat, NEW x \in S, \A y \in S : x >= y
  PROVE  Max(S) = x
<1> DEFINE P(z) == z \in S /\ \A y \in S : z >= y
<1>1. P(x)
  OBVIOUS
<1>2. Max(S) = CHOOSE z : P(z)
  BY Zenon DEF Max
<1>3. P(CHOOSE z : P(z))
  BY <1>1, Zenon
<1>4. ASSUME NEW z, P(z)
      PROVE  z = x
  <2>1. z \in Nat /\ x \in Nat /\ z >= x /\ x >= z
    BY <1>4
  <2>2. QED
    BY <2>1
<1>. HIDE DEF P
<1>5. QED
  BY <1>2, <1>3, <1>4

(* The recursion of the fold has a solution.                               *)
LEMMA FoldExists ==
  ASSUME NEW db
  PROVE  \E iter : IsFold(db, Len(KeyOrder), iter)
<1> DEFINE L == Len(KeyOrder)
           S == {n \in 0..L : \E g : IsFold(db, n, g)}
<1>1. L \in Nat
  BY KeyOrderFacts
<1>2. 0 \in S
  <2>1. IsFold(db, 0, [s \in SUBSET (1..0) |-> EmptyForest])
    <3>1. ASSUME NEW s \in SUBSET (1..0)
          PROVE  s = {}
      OBVIOUS
    <3>2. QED
      BY <3>1 DEF IsFold, Folded
  <2>2. QED
    BY <1>1, <2>1
<1>3. ASSUME NEW n \in 0..L - 1, n \in S
      PROVE  n + 1 \in S
  <2>1. PICK g : IsFold(db, n, g)
    BY <1>3
  <2> DEFINE h == [s \in SUBSET (1..n + 1) |->
                     IF n + 1 \in s
                     THEN Put(db, g[s \ {n + 1}], KeyOrder[n + 1])
                     ELSE g[s]]
  <2>2. ASSUME NEW s \in SUBSET (1..n + 1)
        PROVE  h[s] = Folded(db, s, h)
    <3>1. CASE n + 1 \in s
      <4>1. Max(s) = n + 1
        <5>1. s \in SUBSET Nat /\ \A y \in s : n + 1 >= y
          BY <1>1
        <5>2. QED
          BY <3>1, <5>1, MaxIs
      <4>2. s \ {n + 1} \in SUBSET (1..n + 1) /\ n + 1 \notin s \ {n + 1}
        OBVIOUS
      <4>3. h[s \ {n + 1}] = g[s \ {n + 1}]
        BY <4>2
      <4>4. h[s] = Put(db, g[s \ {n + 1}], KeyOrder[n + 1])
        BY <3>1
      <4>5. s # {}
        BY <3>1
      <4>. HIDE DEF h
      <4>6. QED
        BY <4>1, <4>3, <4>4, <4>5 DEF Folded
    <3>2. CASE n + 1 \notin s
      <4>1. s \in SUBSET (1..n)
        BY <1>1, <3>2
      <4>2. h[s] = g[s]
        BY <3>2
      <4>3. g[s] = Folded(db, s, g)
        BY <2>1, <4>1, Zenon DEF IsFold
      <4>4. h[s \ {Max(s)}] = g[s \ {Max(s)}]
        BY <3>2
      <4>. HIDE DEF h
      <4>5. Folded(db, s, g) = Folded(db, s, h)
        BY <4>4 DEF Folded
      <4>6. QED
        BY <4>2, <4>3, <4>5
    <3>3. QED
      BY <3>1, <3>2
  <2>3. h = [s \in SUBSET (1..n + 1) |-> h[s]]
    OBVIOUS
  <2>. HIDE DEF h
  <2>4. IsFold(db, n + 1, h)
    BY <2>2, <2>3 DEF IsFold
  <2>5. n + 1 \in 0..L
    BY <1>1
  <2>6. QED
    BY <2>4, <2>5
<1>. HIDE DEF S, L
<1>4. \A n \in 0..L : n \in S
  BY <1>1, <1>2, <1>3, Induct
<1>5. L \in S
  BY <1>1, <1>4
<1>6. QED
  BY <1>5 DEF S, L

(* Loading goes through the keys in their order, one insertion after the   *)
(* other.                                                                  *)
LEMMA LoadSteps ==
  ASSUME NEW db
  PROVE  \E at :
           /\ at[0] = EmptyForest
           /\ \A n \in 0..Len(KeyOrder) - 1 :
                at[n + 1] = Put(db, at[n], KeyOrder[n + 1])
           /\ at[Len(KeyOrder)] = Load(db)
<1> DEFINE L == Len(KeyOrder)
           iter == CHOOSE g : IsFold(db, L, g)
           at == [n \in 0..L |-> iter[1..n]]
<1>1. L \in Nat /\ DOMAIN KeyOrder = 1..L
  BY KeyOrderFacts
<1>2. IsFold(db, L, iter)
  BY FoldExists, Zenon
<1>3. Load(db) = iter[1..L]
  <2>1. Load(db) = (CHOOSE g : g = [s \in SUBSET (DOMAIN KeyOrder) |->
                                      Folded(db, s, g)])[DOMAIN KeyOrder]
    BY Zenon DEF Load, FoldLeft, MapThenFoldSet, Folded, Put
  <2>2. QED
    BY <1>1, <2>1, Zenon DEF IsFold
<1>. HIDE DEF iter, L
<1>4. \A s \in SUBSET (1..L) : iter[s] = Folded(db, s, iter)
  BY <1>2, Zenon DEF IsFold
<1>5. at[0] = EmptyForest
  <2>1. 1..0 = {} /\ {} \in SUBSET (1..L)
    OBVIOUS
  <2>2. iter[{}] = EmptyForest
    BY <1>4, <2>1, Zenon DEF Folded
  <2>3. QED
    BY <1>1, <2>1, <2>2
<1>6. ASSUME NEW n \in 0..L - 1
      PROVE  at[n + 1] = Put(db, at[n], KeyOrder[n + 1])
  <2>1. n \in 0..L /\ n + 1 \in 0..L
    BY <1>1
  <2>2. (1..n + 1) \in SUBSET (1..L) /\ 1..n + 1 # {}
    <3>1. n + 1 \in 1..n + 1 /\ n \in Nat /\ n + 1 <= L
      BY <1>1
    <3>2. \A y \in 1..n + 1 : y \in 1..L
      BY <1>1, <3>1
    <3>3. QED
      BY <3>1, <3>2
  <2>3. Max(1..n + 1) = n + 1
    <3>1. 1..n + 1 \in SUBSET Nat /\ n + 1 \in 1..n + 1
      BY <1>1
    <3>2. \A y \in 1..n + 1 : n + 1 >= y
      BY <1>1
    <3>3. QED
      BY <3>1, <3>2, MaxIs
  <2>4. (1..n + 1) \ {n + 1} = 1..n
    <3>1. n \in Nat
      BY <1>1
    <3>2. \A x : x \in (1..n + 1) \ {n + 1} <=> x \in 1..n
      BY <3>1
    <3>3. QED
      BY <3>2, Zenon
  <2>5. iter[1..n + 1] = Folded(db, 1..n + 1, iter)
    BY <1>4, <2>2
  <2>6. iter[1..n + 1] = Put(db, iter[1..n], KeyOrder[n + 1])
    BY <2>2, <2>3, <2>4, <2>5 DEF Folded
  <2>7. QED
    BY <2>1, <2>6
<1>7. at[L] = Load(db)
  BY <1>1, <1>3
<1>. HIDE DEF at
<1>8. QED
  BY <1>5, <1>6, <1>7 DEF L

-----------------------------------------------------------------------------
Refs(m) == {m.all[b].ref : b \in DOMAIN m.all}
Links(m) == {m.all[b].parent : b \in DOMAIN m.all}
Leaves(m) == {c \in DOMAIN m.all : m.all[c].children = {}}

Entry == [ref : Ref, children : SUBSET Ref, parent : Ref \cup {Nowhere}]

(* An entry is reached by a reference of its own, and a link that was made *)
(* names the parent.                                                       *)
Entries(m) ==
  /\ DOMAIN m.all \subseteq Blocks
  /\ \A b \in DOMAIN m.all :
       /\ m.all[b] \in Entry
       /\ m.all[b].ref[1] = b
       /\ m.all[b].parent # Nowhere => m.all[b].parent[1] = Parent[b]

(* The three tables follow from the entries, but that a block whose parent *)
(* went away need not be a root.                                           *)
Tables(m) ==
  /\ m.ordered = Refs(m)
  /\ m.tips = {m.all[b].ref : b \in Leaves(m)}
  /\ m.roots \subseteq Refs(m)

(* A child links back to its parent, and a link that leads somewhere leads *)
(* to an entry that counts the block among its children.                   *)
LinksAgree(m) ==
  /\ \A b \in DOMAIN m.all : \A r \in m.all[b].children :
       r \in Refs(m) /\ m.all[r[1]].parent = m.all[b].ref
  /\ \A b \in DOMAIN m.all :
       m.all[b].parent \in Refs(m) =>
         /\ m.all[b].ref \in m.all[Parent[b]].children
         /\ m.all[b].ref \notin m.roots

Forest(m) == Entries(m) /\ Tables(m) /\ LinksAgree(m) /\ m.panic = FALSE

(* A link that leads nowhere is no reference.                              *)
LEMMA NowhereIsNoRef == Nowhere \notin Ref
BY DEF Nowhere, Ref

(* A reference that the entries hold is that of the block it names.        *)
LEMMA RefNames ==
  ASSUME NEW m, Entries(m), NEW r \in Refs(m)
  PROVE  r \in Ref /\ r[1] \in DOMAIN m.all /\ m.all[r[1]].ref = r
BY DEF Entries, Refs, Entry

(* No table holds a reference that is not that of an entry.                *)
LEMMA HeldAreRefs ==
  ASSUME NEW m, Forest(m)
  PROVE  Held(m) = Refs(m)
<1>1. m.ordered = Refs(m) /\ m.roots \subseteq Refs(m)
  BY DEF Forest, Tables
<1>2. m.tips \subseteq Refs(m)
  BY DEF Forest, Tables, Leaves, Refs
<1>3. UNION {m.all[b].children : b \in DOMAIN m.all} \subseteq Refs(m)
  BY DEF Forest, LinksAgree
<1>4. QED
  BY <1>1, <1>2, <1>3 DEF Held, Refs

(* The empty multiverse is a forest.                                       *)
LEMMA EmptyIsForest ==
  Forest(EmptyForest) /\ DOMAIN EmptyForest.all = {}
BY DEF Forest, Entries, Tables, LinksAgree, EmptyForest, Refs, Leaves

(* An allocation is one that nothing in memory was made from: no table     *)
(* holds it and no link, dead or alive, names it.                          *)
LEMMA FreshRef ==
  ASSUME NEW m, Forest(m), NEW b \in Blocks, NEW refs, IsFiniteSet(refs)
  PROVE  /\ NewRef(m, refs, b) \in Ref /\ NewRef(m, refs, b)[1] = b
         /\ NewRef(m, refs, b) \notin Refs(m) \cup refs \cup Links(m)
<1> DEFINE used == Refs(m) \cup refs \cup Links(m)
           L == Cardinality(used)
           F == {n \in 0..L : <<b, n>> \notin used}
           OK(r) == r \in {<<b, n>> : n \in 0..L} /\ r \notin used
                    /\ \A n \in 0..r[2] - 1 : <<b, n>> \in used
<1>1. IsFiniteSet(used)
  <2>1. IsFiniteSet(DOMAIN m.all)
    BY KeyOrderFacts, FS_Subset DEF Forest, Entries
  <2>2. IsFiniteSet(Refs(m))
    <3>1. [c \in DOMAIN m.all |-> m.all[c].ref]
            \in Surjection(DOMAIN m.all, Refs(m))
      BY DEF Surjection, Refs
    <3>2. QED
      BY <2>1, <3>1, FS_Surjection
  <2>3. IsFiniteSet(Links(m))
    <3>1. [c \in DOMAIN m.all |-> m.all[c].parent]
            \in Surjection(DOMAIN m.all, Links(m))
      BY DEF Surjection, Links
    <3>2. QED
      BY <2>1, <3>1, FS_Surjection
  <2>4. QED
    BY <2>2, <2>3, FS_Union
<1>2. L \in Nat
  BY <1>1, FS_CardinalityType
<1>3. F # {}
  <2> SUFFICES ASSUME F = {} PROVE FALSE
    OBVIOUS
  <2>1. \A n \in 0..L : <<b, n>> \in used
    OBVIOUS
  <2>2. IsFiniteSet(0..L) /\ Cardinality(0..L) = L + 1
    BY <1>2, FS_Interval
  <2> DEFINE f == [n \in 0..L |-> <<b, n>>]
  <2>3. f \in [0..L -> used]
    BY <2>1
  <2>4. L < L + 1
    BY <1>2
  <2>. HIDE DEF L, f, F, used
  <2>5. Cardinality(used) < Cardinality(0..L)
    BY <2>2, <2>4 DEF L
  <2>6. \E x, y \in 0..L : x # y /\ f[x] = f[y]
    BY <1>1, <2>2, <2>3, <2>5, FS_PigeonHole
  <2>7. QED
    BY <2>6 DEF f
<1>4. PICK n \in F : \A k \in F : n <= k
  <2>1. F \in SUBSET (0..L)
    OBVIOUS
  <2>. HIDE DEF F, L
  <2>2. QED
    BY <1>2, <1>3, <2>1, LeastNumber
<1>5. OK(<<b, n>>)
  <2>1. n \in 0..L /\ <<b, n>> \notin used
    BY <1>4
  <2>2. ASSUME NEW k \in 0..n - 1
        PROVE  <<b, k>> \in used
    <3>1. k \in 0..L /\ ~(n <= k)
      BY <1>2, <2>1
    <3>2. QED
      BY <1>4, <3>1
  <2>3. QED
    BY <2>1, <2>2
<1>6. NewRef(m, refs, b) = CHOOSE r : OK(r)
  <2>1. Held(m) \cup refs \cup {m.all[c].parent : c \in DOMAIN m.all} = used
    BY HeldAreRefs DEF Links
  <2>2. QED
    BY <2>1, Zenon DEF NewRef
<1>7. OK(NewRef(m, refs, b))
  <2>. HIDE DEF OK
  <2>1. QED
    BY <1>5, <1>6, Zenon
<1>8. QED
  BY <1>2, <1>7 DEF Ref

(* Inserting a block that is not in memory puts it below its parent if the *)
(* parent is there, changes nothing else of the other entries, and fails   *)
(* no assertion.                                                           *)
LEMMA InsertKeepsForest ==
  ASSUME NEW m, Forest(m), NEW b \in Blocks, b \notin DOMAIN m.all,
         NEW refs, IsFiniteSet(refs)
  PROVE  LET M == InsertInMemory(m, refs, b)
         IN  /\ Forest(M)
             /\ DOMAIN M.all = DOMAIN m.all \cup {b}
             /\ \A c \in DOMAIN m.all :
                  /\ M.all[c].ref = m.all[c].ref
                  /\ M.all[c].parent = m.all[c].parent
             /\ Has(m, Parent[b]) => M.all[b].parent = m.all[Parent[b]].ref
<1> DEFINE M == InsertInMemory(m, refs, b)
           r == NewRef(m, refs, b)
           p == Parent[b]
           A == DOMAIN m.all
           entry == [ref |-> r, children |-> {},
                     parent |-> IF Has(m, p) THEN m.all[p].ref ELSE Nowhere]
<1>1. r \in Ref /\ r[1] = b /\ r \notin Refs(m) \cup Links(m)
  BY FreshRef
<1>2. /\ M.all = [x \in A \cup {b} |->
                    IF x = b THEN entry
                    ELSE IF x = p THEN WithChild(m.all[x], r) ELSE m.all[x]]
      /\ M.ordered = m.ordered \cup {r}
      /\ M.tips = Without(m.tips, p) \cup {r}
      /\ M.roots = IF Has(m, p) THEN m.roots ELSE m.roots \cup {r}
      /\ M.panic = (m.panic \/ (~Has(m, p) /\ b \in Names(m.roots)))
  BY DEF InsertInMemory, TipsAbove
<1>3. b \notin A /\ p # b /\ A \subseteq Blocks
  BY BlockForestAssumption DEF Forest, Entries
<1>. HIDE DEF r, p, M
<1>4. DOMAIN M.all = A \cup {b} /\ M.all[b] = entry
  BY <1>2
<1>5. ASSUME NEW c \in A
      PROVE  /\ M.all[c] \in Entry
             /\ M.all[c].ref = m.all[c].ref
             /\ M.all[c].parent = m.all[c].parent
             /\ M.all[c].children =
                  IF c = p THEN m.all[c].children \cup {r}
                  ELSE m.all[c].children
  <2>1. m.all[c] \in Entry
    BY DEF Forest, Entries
  <2>2. CASE c = p
    <3>1. M.all[c] = [m.all[c] EXCEPT !.children = @ \cup {r}]
      BY <1>2, <1>3, <2>2 DEF WithChild
    <3>2. QED
      BY <1>1, <2>1, <2>2, <3>1 DEF Entry
  <2>3. CASE c # p
    <3>1. M.all[c] = m.all[c]
      BY <1>2, <1>3, <2>3
    <3>2. QED
      BY <2>1, <2>3, <3>1
  <2>4. QED
    BY <2>2, <2>3
<1>6. /\ M.all[b].ref = r /\ M.all[b].children = {}
      /\ Has(m, p) => M.all[b].parent = m.all[p].ref
      /\ ~Has(m, p) => M.all[b].parent = Nowhere
  BY <1>4
<1>7. Refs(M) = Refs(m) \cup {r}
  <2>. HIDE DEF entry
  <2>1. DOMAIN M.all = A \cup {b} /\ M.all[b].ref = r
    BY <1>4, <1>6
  <2>2. \A c \in A : M.all[c].ref = m.all[c].ref
    BY <1>5
  <2>3. Refs(M) = {M.all[c].ref : c \in A} \cup {r}
    BY <2>1 DEF Refs
  <2>4. {M.all[c].ref : c \in A} = Refs(m)
    BY <2>2, Zenon DEF Refs
  <2>5. QED
    BY <2>3, <2>4
<1>. HIDE DEF entry
<1>8. ASSUME NEW c \in A
      PROVE  m.all[c].ref \in Ref /\ m.all[c].ref[1] = c
             /\ m.all[c].ref \in Refs(m)
  BY DEF Forest, Entries, Entry, Refs
<1>9. Entries(M)
  <2>1. M.all[b] \in Entry
    BY <1>1, <1>4, <1>8 DEF Entry, entry, Has
  <2>2. M.all[b].parent # Nowhere => M.all[b].parent[1] = Parent[b]
    BY <1>6, <1>8 DEF p, Has
  <2>3. \A c \in A : m.all[c].parent # Nowhere
                       => m.all[c].parent[1] = Parent[c]
    BY DEF Forest, Entries
  <2>4. QED
    BY ZenonT(40), <1>1, <1>3, <1>4, <1>5, <1>6, <1>8, <2>1, <2>2, <2>3 DEF Entries
<1>10. Tables(M)
  <2>1. M.ordered = Refs(M)
    BY <1>2, <1>7 DEF Forest, Tables
  <2>2. M.tips = {M.all[c].ref : c \in Leaves(M)}
    <3>1. Leaves(M) = (Leaves(m) \ {p}) \cup {b}
      BY <1>3, <1>4, <1>5, <1>6 DEF Leaves
    <3>2. M.tips = Without({m.all[c].ref : c \in Leaves(m)}, p) \cup {r}
      BY <1>2 DEF Forest, Tables
    <3>3. Without({m.all[c].ref : c \in Leaves(m)}, p)
            = {m.all[c].ref : c \in Leaves(m) \ {p}}
      BY <1>8 DEF Without, Leaves
    <3>4. {M.all[c].ref : c \in (Leaves(m) \ {p}) \cup {b}}
            = {m.all[c].ref : c \in Leaves(m) \ {p}} \cup {r}
      <4>1. \A c \in Leaves(m) \ {p} : M.all[c].ref = m.all[c].ref
        BY <1>5 DEF Leaves
      <4>2. {M.all[c].ref : c \in (Leaves(m) \ {p}) \cup {b}}
              = {M.all[c].ref : c \in Leaves(m) \ {p}} \cup {r}
        BY <1>6
      <4>3. {M.all[c].ref : c \in Leaves(m) \ {p}}
              = {m.all[c].ref : c \in Leaves(m) \ {p}}
        BY <4>1, Zenon
      <4>4. QED
        BY <4>2, <4>3
    <3>5. QED
      BY <3>1, <3>2, <3>3, <3>4
  <2>3. M.roots \subseteq Refs(M)
    BY <1>2, <1>7 DEF Forest, Tables
  <2>4. QED
    BY <2>1, <2>2, <2>3 DEF Tables
<1>11. ASSUME NEW c \in DOMAIN M.all, NEW q \in M.all[c].children
       PROVE  q \in Refs(M) /\ M.all[q[1]].parent = M.all[c].ref
  <2>1. c \in A
    BY <1>4, <1>6
  <2>2. CASE q \in m.all[c].children
    <3>1. q \in Refs(m) /\ m.all[q[1]].parent = m.all[c].ref
      BY <2>1, <2>2 DEF Forest, LinksAgree
    <3>2. q[1] \in A
      BY <3>1, RefNames DEF Forest
    <3>3. QED
      BY <1>5, <1>7, <2>1, <3>1, <3>2
  <2>3. CASE c = p /\ q = r
    BY <1>1, <1>5, <1>6, <1>7, <2>1, <2>3 DEF Has
  <2>4. QED
    BY ZenonT(40), <1>5, <2>1, <2>2, <2>3
<1>12. ASSUME NEW c \in DOMAIN M.all, M.all[c].parent \in Refs(M)
       PROVE  /\ M.all[c].ref \in M.all[Parent[c]].children
              /\ M.all[c].ref \notin M.roots
  <2>0. m.roots \subseteq Refs(m) /\ Nowhere \notin Refs(M)
    <3>1. Refs(M) \subseteq Ref
      BY <1>1, <1>7, RefNames DEF Forest
    <3>2. QED
      BY <3>1, NowhereIsNoRef DEF Forest, Tables
  <2>1. CASE c = b
    <3>1. Has(m, p)
      BY <1>6, <1>12, <2>0, <2>1
    <3>2. p \in A /\ Parent[c] = p /\ M.all[c].ref = r
      BY <1>6, <2>1, <3>1 DEF Has, p
    <3>3. r \in M.all[p].children
      BY <1>5, <3>2
    <3>4. r \notin M.roots
      BY <1>1, <1>2, <2>0, <3>1
    <3>5. QED
      BY <3>2, <3>3, <3>4
  <2>2. CASE c \in A
    <3>1. m.all[c].parent \in Refs(m)
      BY <1>1, <1>5, <1>7, <1>12, <2>2 DEF Links
    <3>2. /\ m.all[c].ref \in m.all[Parent[c]].children
          /\ m.all[c].ref \notin m.roots
      BY <2>2, <3>1 DEF Forest, LinksAgree
    <3>3. Parent[c] \in A
      <4>1. m.all[c].parent[1] \in A /\ m.all[c].parent # Nowhere
        BY <3>1, RefNames, NowhereIsNoRef DEF Forest
      <4>2. QED
        BY <2>2, <4>1 DEF Forest, Entries
    <3>4. M.all[c].ref = m.all[c].ref /\ m.all[c].ref # r
      BY <1>1, <1>5, <1>8, <2>2
    <3>5. m.all[c].ref \in M.all[Parent[c]].children
      BY <1>5, <3>2, <3>3
    <3>6. QED
      BY <1>2, <3>2, <3>4, <3>5
  <2>3. QED
    BY <1>4, <2>1, <2>2
<1>13. M.panic = FALSE
  <2>1. b \notin Names(m.roots)
    BY <1>3, RefNames DEF Names, Forest, Tables
  <2>2. QED
    BY <1>2, <2>1 DEF Forest
<1>14. LinksAgree(M)
  BY <1>11, <1>12 DEF LinksAgree
<1>15. Forest(M)
  BY <1>9, <1>10, <1>13, <1>14 DEF Forest
<1>16. QED
  BY <1>4, <1>5, <1>6, <1>15 DEF M, p

(* What remove upgrades the parent link to: the entry of the parent if the *)
(* link is alive, and nothing if only a client still holds it.             *)
LEMMA ParentEntryIs ==
  ASSUME NEW m, Forest(m), NEW b \in DOMAIN m.all,
         NEW refs, \A r \in refs : Has(m, r[1]) => m.all[r[1]].ref = r
  PROVE  /\ m.all[b].parent \in Refs(m) =>
              /\ ParentEntry(m, refs, b) = {Parent[b]}
              /\ Parent[b] \in DOMAIN m.all
              /\ m.all[Parent[b]].ref = m.all[b].parent
         /\ m.all[b].parent \notin Refs(m) => ParentEntry(m, refs, b) = {}
<1> DEFINE l == m.all[b].parent
<1>1. ParentEntry(m, refs, b)
        = {q \in Names({l} \cap (Refs(m) \cup refs)) : Has(m, q)}
  BY HeldAreRefs DEF ParentEntry, Upgrade
<1>2. CASE l \in Refs(m)
  <2>1. l \in Ref /\ l[1] \in DOMAIN m.all /\ m.all[l[1]].ref = l
    BY <1>2, RefNames DEF Forest
  <2>2. l[1] = Parent[b]
    BY <2>1, NowhereIsNoRef DEF Forest, Entries
  <2>3. QED
    BY <1>1, <1>2, <2>1, <2>2 DEF Names, Has
<1>3. CASE l \notin Refs(m)
  <2>1. l \in refs => ~Has(m, l[1])
    BY <1>3 DEF Has, Refs
  <2>2. QED
    BY <1>1, <1>3, <2>1 DEF Names
<1>4. QED
  BY <1>2, <1>3

(* Removing a block that is in memory takes it out of the children of its  *)
(* parent, changes nothing else of the other entries, and fails no         *)
(* assertion, whatever references to blocks in memory or to removed ones   *)
(* are held meanwhile.                                                     *)
LEMMA RemoveKeepsForest ==
  ASSUME NEW m, Forest(m), NEW b \in DOMAIN m.all,
         NEW refs, \A r \in refs : Has(m, r[1]) => m.all[r[1]].ref = r
  PROVE  LET M == RemoveFrom(m, refs, b)
         IN  /\ Forest(M)
             /\ DOMAIN M.all = DOMAIN m.all \ {b}
             /\ \A c \in DOMAIN M.all :
                  /\ M.all[c].ref = m.all[c].ref
                  /\ M.all[c].parent = m.all[c].parent
<1> DEFINE M == RemoveFrom(m, refs, b)
           parents == ParentEntry(m, refs, b)
           l == m.all[b].parent
           p == Parent[b]
           A == DOMAIN m.all
<1>1. /\ M.all = [x \in A \ {b} |->
                    IF x \in parents
                    THEN [m.all[x] EXCEPT !.children = ChildrenLeft(@, b)]
                    ELSE m.all[x]]
      /\ M.ordered = Without(m.ordered, b)
      /\ M.tips = TipsBelow(m, refs, b)
      /\ M.roots = RootsWithout(m, b)
      /\ M.panic =
           (\/ m.panic
            \/ /\ b \in Names(m.roots)
               /\ Names(m.all[b].children) \cap Names(m.roots) # {}
            \/ \E q \in parents :
                 \/ b \notin Names(m.all[q].children)
                 \/ /\ ChildrenLeft(m.all[q].children, b) = {}
                    /\ q \in Names(m.tips))
  BY DEF RemoveFrom
<1>2. /\ l \in Refs(m) => parents = {p} /\ p \in A /\ m.all[p].ref = l
      /\ l \notin Refs(m) => parents = {}
  BY ParentEntryIs
<1>3. b \in Blocks /\ p # b /\ A \subseteq Blocks
  BY BlockForestAssumption DEF Forest, Entries
<1>4. \A c \in A : /\ m.all[c] \in Entry /\ m.all[c].ref \in Ref
                   /\ m.all[c].ref[1] = c /\ m.all[c].ref \in Refs(m)
  BY DEF Forest, Entries, Entry, Refs
<1>5. l \in Refs(m) => m.all[b].ref \in m.all[p].children
  BY DEF Forest, LinksAgree
<1>. HIDE DEF parents, M, p, l
<1>6. DOMAIN M.all = A \ {b}
  BY <1>1
<1>7. ASSUME NEW c \in A, NEW q \in m.all[c].children
      PROVE  /\ q \in Refs(m) /\ q[1] \in A /\ m.all[q[1]].ref = q
             /\ m.all[q[1]].parent = m.all[c].ref
             /\ Parent[q[1]] = c /\ q[1] # c
             /\ q[1] = b => c \in parents
  <2>1. q \in Refs(m) /\ m.all[q[1]].parent = m.all[c].ref
    BY DEF Forest, LinksAgree
  <2>2. q[1] \in A /\ m.all[q[1]].ref = q
    BY <2>1, RefNames DEF Forest
  <2>3. Parent[q[1]] = c
    <3>1. m.all[q[1]].parent # Nowhere
      BY <1>4, <2>1, NowhereIsNoRef
    <3>2. m.all[q[1]].parent[1] = Parent[q[1]]
      BY <2>2, <3>1 DEF Forest, Entries
    <3>3. QED
      BY <1>4, <2>1, <3>2
  <2>4. q[1] # c
    BY <1>3, <2>2, <2>3, BlockForestAssumption
  <2>5. q[1] = b => c \in parents
    BY <1>2, <1>4, <2>1, <2>3 DEF l, p
  <2>6. QED
    BY <2>1, <2>2, <2>3, <2>4, <2>5
<1>8. ASSUME NEW c \in A \ {b}
      PROVE  /\ M.all[c] \in Entry
             /\ M.all[c].ref = m.all[c].ref
             /\ M.all[c].parent = m.all[c].parent
             /\ M.all[c].children = Without(m.all[c].children, b)
  <2>1. CASE c \in parents
    <3>1. M.all[c] = [m.all[c] EXCEPT !.children = Without(@, b)]
      BY <1>1, <2>1 DEF ChildrenLeft
    <3>2. QED
      BY <1>4, <3>1 DEF Entry, Without
  <2>2. CASE c \notin parents
    <3>1. M.all[c] = m.all[c]
      BY <1>1, <2>2
    <3>2. m.all[c].children = Without(m.all[c].children, b)
      BY <1>7, <2>2 DEF Without
    <3>3. QED
      BY <1>4, <3>1, <3>2
  <2>3. QED
    BY <2>1, <2>2
<1>9. Refs(M) = Without(Refs(m), b)
  <2>1. \A c \in A \ {b} : M.all[c].ref = m.all[c].ref
    BY <1>8
  <2>2. Refs(M) = {m.all[c].ref : c \in A \ {b}}
    BY <1>6, <2>1, Zenon DEF Refs
  <2>3. {m.all[c].ref : c \in A \ {b}} = Without(Refs(m), b)
    BY <1>4 DEF Refs, Without
  <2>4. QED
    BY <2>2, <2>3
<1>10. Entries(M)
  <2>1. \A c \in A : m.all[c].parent # Nowhere
                       => m.all[c].parent[1] = Parent[c]
    BY DEF Forest, Entries
  <2>2. QED
    BY <1>3, <1>4, <1>6, <1>8, <2>1 DEF Entries
<1>11. M.tips = {M.all[c].ref : c \in Leaves(M)}
  <2>1. /\ m.tips = {m.all[c].ref : c \in Leaves(m)}
        /\ M.tips = Without(m.tips, b)
             \cup {<<q, l[2]>> : q \in
                     {x \in parents : Without(m.all[x].children, b) = {}}}
    BY <1>1 DEF Forest, Tables, TipsBelow, ChildrenLeft, parents, l
  <2>2. ASSUME NEW t \in M.tips
        PROVE  \E c \in Leaves(M) : t = M.all[c].ref
    <3>1. CASE t \in Without(m.tips, b)
      <4>1. PICK c \in Leaves(m) : t = m.all[c].ref
        BY <2>1, <3>1 DEF Without
      <4>2. c \in A \ {b} /\ m.all[c].children = {}
        BY <1>4, <3>1, <4>1 DEF Leaves, Without
      <4>3. M.all[c].children = {} /\ M.all[c].ref = t
        BY <1>8, <4>1, <4>2 DEF Without
      <4>4. QED
        BY <1>6, <4>2, <4>3 DEF Leaves
    <3>2. CASE t \notin Without(m.tips, b)
      <4>1. PICK q \in parents : Without(m.all[q].children, b) = {}
                                  /\ t = <<q, l[2]>>
        BY <2>1, <3>2
      <4>2. l \in Refs(m) /\ q = p /\ q \in A /\ m.all[q].ref = l
        BY <1>2, <4>1
      <4>3. l \in Ref /\ l[1] = q /\ t = l
        BY <1>4, <4>1, <4>2 DEF Ref
      <4>4. q \in A \ {b}
        BY <1>3, <4>2
      <4>5. M.all[q].children = {} /\ M.all[q].ref = t
        BY <1>8, <4>1, <4>2, <4>3, <4>4
      <4>6. QED
        BY <1>6, <4>4, <4>5 DEF Leaves
    <3>3. QED
      BY <3>1, <3>2
  <2>3. ASSUME NEW c \in Leaves(M)
        PROVE  M.all[c].ref \in M.tips
    <3>1. c \in A \ {b} /\ Without(m.all[c].children, b) = {}
      BY <1>6, <1>8 DEF Leaves
    <3>2. M.all[c].ref = m.all[c].ref /\ m.all[c].ref[1] = c
      BY <1>4, <1>8, <3>1
    <3>3. CASE m.all[c].children = {}
      <4>1. m.all[c].ref \in m.tips
        BY <2>1, <3>1, <3>3 DEF Leaves
      <4>2. QED
        BY <2>1, <3>1, <3>2, <4>1 DEF Without
    <3>4. CASE m.all[c].children # {}
      <4>1. PICK q \in m.all[c].children : q[1] = b
        BY <3>1, <3>4 DEF Without
      <4>2. c \in parents
        BY <1>7, <3>1, <4>1
      <4>3. l \in Refs(m) /\ m.all[c].ref = l
        BY <1>2, <4>2
      <4>4. m.all[c].ref = <<c, l[2]>>
        BY <1>4, <3>1, <3>2, <4>3 DEF Ref
      <4>5. QED
        BY <2>1, <3>1, <3>2, <4>2, <4>4
    <3>5. QED
      BY <3>3, <3>4
  <2>4. QED
    BY <2>2, <2>3
<1>12. /\ M.roots \subseteq Refs(M)
       /\ M.roots \subseteq m.roots \cup m.all[b].children
  BY <1>1, <1>7, <1>9 DEF RootsWithout, Forest, Tables, Without
<1>13. Tables(M)
  <2>1. M.ordered = Refs(M)
    BY <1>1, <1>9 DEF Forest, Tables
  <2>2. QED
    BY <1>11, <1>12, <2>1 DEF Tables
<1>14. ASSUME NEW c \in DOMAIN M.all, NEW q \in M.all[c].children
       PROVE  q \in Refs(M) /\ M.all[q[1]].parent = M.all[c].ref
  <2>1. c \in A \ {b} /\ q \in m.all[c].children /\ q[1] # b
    BY <1>6, <1>8, <1>14 DEF Without
  <2>2. q \in Refs(m) /\ q[1] \in A \ {b}
        /\ m.all[q[1]].parent = m.all[c].ref
    BY <1>7, <2>1
  <2>3. q \in Refs(M)
    BY <1>9, <2>1, <2>2 DEF Without
  <2>4. QED
    BY <1>8, <2>1, <2>2, <2>3
<1>15. ASSUME NEW c \in DOMAIN M.all, M.all[c].parent \in Refs(M)
       PROVE  /\ M.all[c].ref \in M.all[Parent[c]].children
              /\ M.all[c].ref \notin M.roots
  <2>1. c \in A \ {b} /\ M.all[c].ref = m.all[c].ref
        /\ M.all[c].parent = m.all[c].parent
    BY <1>6, <1>8
  <2>2. m.all[c].parent \in Refs(m) /\ m.all[c].parent[1] # b
    BY <1>9, <1>15, <2>1 DEF Without
  <2>3. /\ m.all[c].ref \in m.all[Parent[c]].children
        /\ m.all[c].ref \notin m.roots
    BY <2>1, <2>2 DEF Forest, LinksAgree
  <2>4. Parent[c] \in A \ {b}
    <3>1. m.all[c].parent[1] \in A /\ m.all[c].parent # Nowhere
      BY <2>2, RefNames, NowhereIsNoRef DEF Forest
    <3>2. QED
      BY <2>1, <2>2, <3>1 DEF Forest, Entries
  <2>5. m.all[c].ref \in M.all[Parent[c]].children
    BY <1>4, <1>8, <2>1, <2>3, <2>4 DEF Without
  <2>6. m.all[c].ref \notin m.all[b].children
    BY <1>4, <1>7, <2>1, <2>2
  <2>7. QED
    BY <1>12, <2>1, <2>3, <2>5, <2>6
<1>16. M.panic = FALSE
  <2>1. ASSUME NEW r \in m.all[b].children, NEW s \in m.roots, r[1] = s[1]
        PROVE  FALSE
    <3>1. r = s
      BY <1>7, <2>1, RefNames DEF Forest, Tables
    <3>2. /\ r[1] \in A /\ m.all[r[1]].ref = r
          /\ m.all[r[1]].parent \in Refs(m)
      BY <1>4, <1>7
    <3>3. r \notin m.roots
      BY <3>2 DEF Forest, LinksAgree
    <3>4. QED
      BY <3>1, <3>3
  <2>2. ASSUME NEW q \in parents
        PROVE  b \in Names(m.all[q].children) /\ q \notin Names(m.tips)
    <3>1. q = p /\ q \in A /\ m.all[b].ref \in m.all[q].children
      BY <1>2, <1>5, <2>2
    <3>2. b \in Names(m.all[q].children)
      BY <1>4, <3>1 DEF Names
    <3>3. \A t \in m.tips : \E c \in Leaves(m) : t = m.all[c].ref
      BY DEF Forest, Tables
    <3>4. ASSUME q \in Names(m.tips)
          PROVE  q \in Leaves(m)
      BY <1>4, <3>3, <3>4 DEF Names, Leaves
    <3>5. QED
      BY <3>1, <3>2, <3>4 DEF Leaves
  <2>3. m.panic = FALSE
    BY DEF Forest
  <2>4. Names(m.all[b].children) \cap Names(m.roots) = {}
    BY <2>1 DEF Names
  <2>5. QED
    BY <1>1, <2>2, <2>3, <2>4
<1>17. LinksAgree(M)
  BY <1>14, <1>15 DEF LinksAgree
<1>18. Forest(M)
  BY <1>10, <1>13, <1>16, <1>17 DEF Forest
<1>19. QED
  BY <1>6, <1>8, <1>18 DEF M

(* Loading a database gives a forest of exactly its blocks, in which a     *)
(* block is below its parent if the number of the parent is smaller: its   *)
(* key then comes first.                                                   *)
LEMMA LoadIsForest ==
  ASSUME NEW db \in SUBSET Blocks
  PROVE  /\ Forest(Load(db))
         /\ DOMAIN Load(db).all = db
         /\ \A b \in db :
              Parent[b] \in db /\ Number[Parent[b]] < Number[b] =>
                Load(db).all[b].parent = Load(db).all[Parent[b]].ref
<1> DEFINE L == Len(KeyOrder)
           Low(n) == {KeyOrder[i] : i \in 1..n}
           Loaded(n, m) ==
             /\ Forest(m)
             /\ DOMAIN m.all = db \cap Low(n)
             /\ \A b \in DOMAIN m.all :
                  Parent[b] \in DOMAIN m.all /\ Number[Parent[b]] < Number[b]
                    => m.all[b].parent = m.all[Parent[b]].ref
<1>1. PICK at : /\ at[0] = EmptyForest
                /\ \A n \in 0..L - 1 : at[n + 1] = Put(db, at[n], KeyOrder[n + 1])
                /\ at[L] = Load(db)
  BY LoadSteps
<1>2. L \in Nat /\ \A n \in 1..L : KeyOrder[n] \in Blocks
  BY KeyOrderFacts
<1> DEFINE S == {n \in 0..L : Loaded(n, at[n])}
<1>3. 0 \in S
  <2>1. Low(0) = {}
    OBVIOUS
  <2>2. QED
    BY <1>1, <1>2, <2>1, EmptyIsForest
<1>4. ASSUME NEW n \in 0..L - 1, n \in S
      PROVE  n + 1 \in S
  <2> DEFINE b == KeyOrder[n + 1]
             m == at[n]
  <2>1. n \in Nat /\ n + 1 \in 1..L /\ n + 1 \in 0..L /\ b \in Blocks
    BY <1>2
  <2>2. Loaded(n, m)
    BY <1>4
  <2>3. Low(n + 1) = Low(n) \cup {b}
    <3>1. \A i : i \in 1..n + 1 <=> i \in 1..n \/ i = n + 1
      BY <2>1
    <3>2. QED
      BY <3>1
  <2>4. b \notin Low(n)
    <3> SUFFICES ASSUME NEW i \in 1..n, KeyOrder[i] = b PROVE FALSE
      OBVIOUS
    <3>1. i \in 1..L /\ i < n + 1
      BY <1>2, <2>1
    <3>2. QED
      BY <2>1, <3>1, BlockForestAssumption
  <2>5. at[n + 1] = Put(db, m, b)
    BY <1>1
  <2>6. CASE b \notin db
    <3>1. at[n + 1] = m /\ db \cap Low(n + 1) = db \cap Low(n)
      BY <2>3, <2>5, <2>6 DEF Put
    <3>2. QED
      BY <2>1, <2>2, <3>1
  <2>7. CASE b \in db
    <3> DEFINE M == InsertInMemory(m, {}, b)
    <3>1. at[n + 1] = M
      BY <2>5, <2>7 DEF Put
    <3>2. b \notin DOMAIN m.all
      BY <2>2, <2>4
    <3>3. IsFiniteSet({})
      BY FS_EmptySet
    <3>4. /\ Forest(M) /\ DOMAIN M.all = DOMAIN m.all \cup {b}
          /\ \A c \in DOMAIN m.all : /\ M.all[c].ref = m.all[c].ref
                                     /\ M.all[c].parent = m.all[c].parent
          /\ Has(m, Parent[b]) => M.all[b].parent = m.all[Parent[b]].ref
      BY <2>1, <2>2, <3>2, <3>3, InsertKeepsForest
    <3>. HIDE DEF M
    <3>5. DOMAIN M.all = db \cap Low(n + 1)
      BY <2>2, <2>3, <2>7, <3>4
    <3>6. ASSUME NEW c \in DOMAIN M.all,
                 Parent[c] \in DOMAIN M.all, Number[Parent[c]] < Number[c]
          PROVE  M.all[c].parent = M.all[Parent[c]].ref
      <4>1. CASE c = b
        <5>1. Parent[c] # b
          BY <2>1, <4>1, BlockForestAssumption
        <5>2. Parent[b] \in DOMAIN m.all
          BY <3>4, <3>6, <4>1, <5>1
        <5>3. QED
          BY <3>4, <4>1, <5>2 DEF Has
      <4>2. CASE c # b /\ Parent[c] = b
        <5>1. c \in Low(n)
          BY <2>2, <3>4, <4>2
        <5>2. PICK i \in 1..n : c = KeyOrder[i]
          BY <5>1
        <5>3. i \in 1..L /\ i < n + 1
          BY <1>2, <2>1
        <5>4. Number[c] <= Number[b] /\ Number[c] \in Nat /\ Number[b] \in Nat
          BY <1>2, <2>1, <5>2, <5>3, BlockForestAssumption
        <5>5. QED
          BY <3>6, <4>2, <5>4
      <4>3. CASE c # b /\ Parent[c] # b
        <5>1. c \in DOMAIN m.all /\ Parent[c] \in DOMAIN m.all
          BY <3>4, <3>6, <4>3
        <5>2. m.all[c].parent = m.all[Parent[c]].ref
          BY <2>2, <3>6, <5>1
        <5>3. QED
          BY <3>4, <5>1, <5>2
      <4>4. QED
        BY <4>1, <4>2, <4>3
    <3>7. QED
      BY <2>1, <3>1, <3>4, <3>5, <3>6
  <2>8. QED
    BY <2>6, <2>7
<1>. HIDE DEF S, L, Loaded
<1>5. L \in S
  <2>1. \A n \in 0..L : n \in S
    BY <1>2, <1>3, <1>4, Induct
  <2>2. QED
    BY <1>2, <2>1
<1>6. Loaded(L, Load(db))
  BY <1>1, <1>5 DEF S
<1>7. db \cap Low(L) = db
  BY KeyOrderFacts DEF L
<1>8. QED
  BY <1>6, <1>7 DEF Loaded

-----------------------------------------------------------------------------
(* One step of ancestor, from a set of references.                         *)
OneUp(m, refs, s) ==
  UNION {Upgrade(m, refs, m.all[r[1]].parent) : r \in {q \in s : Has(m, q[1])}}

IsClimb(m, refs, tip, d, up) ==
  up = [n \in 0..d |->
          IF n = 0 THEN {tip} ELSE OneUp(m, refs, up[n - 1])]

(* The recursion of ancestor has a solution.                               *)
LEMMA ClimbExists ==
  ASSUME NEW m, NEW refs, NEW tip, NEW d \in Nat
  PROVE  \E up : IsClimb(m, refs, tip, d, up)
<1> DEFINE S == {n \in 0..d : \E g : IsClimb(m, refs, tip, n, g)}
<1>1. 0 \in S
  <2> DEFINE g == [n \in 0..0 |-> {tip}]
  <2>1. IsClimb(m, refs, tip, 0, g)
    BY DEF IsClimb
  <2>2. QED
    BY <2>1
<1>2. ASSUME NEW n \in 0..d - 1, n \in S
      PROVE  n + 1 \in S
  <2>1. PICK g : IsClimb(m, refs, tip, n, g)
    BY <1>2
  <2> DEFINE h == [k \in 0..n + 1 |->
                     IF k = n + 1 THEN OneUp(m, refs, g[n]) ELSE g[k]]
  <2>2. ASSUME NEW k \in 0..n + 1
        PROVE  h[k] = IF k = 0 THEN {tip} ELSE OneUp(m, refs, h[k - 1])
    <3>1. CASE k = n + 1
      <4>1. k # 0 /\ k - 1 = n /\ n \in 0..n + 1 /\ n # n + 1
        BY <3>1
      <4>2. h[n] = g[n]
        BY <4>1
      <4>3. h[k] = OneUp(m, refs, g[n])
        BY <3>1
      <4>. HIDE DEF h
      <4>4. QED
        BY <4>1, <4>2, <4>3
    <3>2. CASE k # n + 1
      <4>1. k \in 0..n
        BY <3>2
      <4>2. h[k] = g[k]
        BY <3>2
      <4>3. g[k] = IF k = 0 THEN {tip} ELSE OneUp(m, refs, g[k - 1])
        BY <2>1, <4>1, Zenon DEF IsClimb
      <4>4. k # 0 => h[k - 1] = g[k - 1]
        BY <4>1
      <4>. HIDE DEF h
      <4>5. QED
        BY <4>2, <4>3, <4>4
    <3>3. QED
      BY <3>1, <3>2
  <2>3. h = [k \in 0..n + 1 |-> h[k]]
    OBVIOUS
  <2>. HIDE DEF h
  <2>4. IsClimb(m, refs, tip, n + 1, h)
    BY <2>2, <2>3, Zenon DEF IsClimb
  <2>5. QED
    BY <2>4
<1>. HIDE DEF S
<1>3. \A n \in 0..d : n \in S
  BY <1>1, <1>2, Induct
<1>4. d \in S
  BY <1>3
<1>5. QED
  BY <1>4 DEF S

(* A climb that stops earlier is the beginning of a longer one.            *)
LEMMA ClimbsAgree ==
  ASSUME NEW m, NEW refs, NEW tip, NEW d \in Nat, NEW e \in Nat, d <= e,
         NEW g, IsClimb(m, refs, tip, d, g), NEW h, IsClimb(m, refs, tip, e, h)
  PROVE  g[d] = h[d]
<1> DEFINE S == {n \in 0..d : g[n] = h[n]}
<1>1. \A n \in 0..d : g[n] = IF n = 0 THEN {tip} ELSE OneUp(m, refs, g[n - 1])
  BY Zenon DEF IsClimb
<1>2. \A n \in 0..e : h[n] = IF n = 0 THEN {tip} ELSE OneUp(m, refs, h[n - 1])
  BY Zenon DEF IsClimb
<1>3. 0 \in S
  BY <1>1, <1>2
<1>4. ASSUME NEW n \in 0..d - 1, n \in S
      PROVE  n + 1 \in S
  <2>1. n + 1 \in 0..d /\ n + 1 \in 0..e /\ n + 1 # 0 /\ (n + 1) - 1 = n
    OBVIOUS
  <2>2. g[n + 1] = OneUp(m, refs, g[n])
    BY <1>1, <2>1
  <2>3. h[n + 1] = OneUp(m, refs, h[n])
    BY <1>2, <2>1
  <2>4. QED
    BY <1>4, <2>1, <2>2, <2>3
<1>. HIDE DEF S
<1>5. \A n \in 0..d : n \in S
  BY <1>3, <1>4, Induct
<1>6. QED
  BY <1>5 DEF S

(* ancestor goes one link further up for every number it is asked for.     *)
LEMMA AncestorSteps ==
  ASSUME NEW m, NEW refs, NEW tip
  PROVE  /\ Ancestor(m, refs, tip, 0) = {tip}
         /\ \A n \in Nat : Ancestor(m, refs, tip, n + 1)
                             = OneUp(m, refs, Ancestor(m, refs, tip, n))
<1> DEFINE up(d) == CHOOSE g : IsClimb(m, refs, tip, d, g)
<1>1. ASSUME NEW d \in Nat
      PROVE  IsClimb(m, refs, tip, d, up(d))
  BY ClimbExists, Zenon
<1>2. ASSUME NEW d \in Nat
      PROVE  Ancestor(m, refs, tip, d) = up(d)[d]
  <2>1. Ancestor(m, refs, tip, d)
          = (CHOOSE g : g = [n \in 0..d |->
                IF n = 0 THEN {tip} ELSE OneUp(m, refs, g[n - 1])])[d]
    BY Zenon DEF Ancestor, OneUp
  <2>2. QED
    BY <2>1, Zenon DEF IsClimb
<1>. HIDE DEF up
<1>3. up(0)[0] = {tip}
  BY <1>1 DEF IsClimb
<1>4. ASSUME NEW n \in Nat
      PROVE  up(n + 1)[n + 1] = OneUp(m, refs, up(n)[n])
  <2>1. IsClimb(m, refs, tip, n, up(n))
    BY <1>1
  <2>2. IsClimb(m, refs, tip, n + 1, up(n + 1)) /\ n + 1 \in Nat /\ n <= n + 1
    BY <1>1
  <2>3. up(n)[n] = up(n + 1)[n]
    BY <2>1, <2>2, ClimbsAgree
  <2>4. \A k \in 0..n + 1 : up(n + 1)[k] =
          IF k = 0 THEN {tip} ELSE OneUp(m, refs, up(n + 1)[k - 1])
    BY <2>2, Zenon DEF IsClimb
  <2>5. n + 1 \in 0..n + 1 /\ n + 1 # 0 /\ (n + 1) - 1 = n
    OBVIOUS
  <2>6. up(n + 1)[n + 1] = OneUp(m, refs, up(n + 1)[n])
    BY <2>4, <2>5
  <2>7. QED
    BY <2>3, <2>6
<1>5. \A n \in Nat : n + 1 \in Nat
  OBVIOUS
<1>6. QED
  BY <1>2, <1>3, <1>4, <1>5

(* From an entry one step goes to its parent, if the link is alive.        *)
LEMMA OneUpFrom ==
  ASSUME NEW m, Forest(m), NEW refs, NEW r \in Refs(m)
  PROVE  OneUp(m, refs, {r}) = {m.all[r[1]].parent} \cap (Refs(m) \cup refs)
<1>1. {q \in {r} : Has(m, q[1])} = {r}
  BY RefNames DEF Has, Forest
<1>2. OneUp(m, refs, {r}) = Upgrade(m, refs, m.all[r[1]].parent)
  BY <1>1 DEF OneUp
<1>3. QED
  BY <1>2, HeldAreRefs DEF Upgrade

(* A way of d links that are alive, from one entry up to another.          *)
Way(m, p, d) ==
  /\ p \in [0..d -> Refs(m)]
  /\ \A n \in 0..d - 1 : m.all[p[n][1]].parent = p[n + 1]

(* Along a way of live links ancestor finds the entry so many links up,    *)
(* whatever references the client holds.                                   *)
LEMMA AncestorOnWay ==
  ASSUME NEW m, Forest(m), NEW refs, NEW d \in Nat, NEW p, Way(m, p, d)
  PROVE  \A n \in 0..d : Ancestor(m, refs, p[0], n) = {p[n]}
<1> DEFINE A(n) == Ancestor(m, refs, p[0], n)
           S == {n \in 0..d : A(n) = {p[n]}}
<1>1. A(0) = {p[0]} /\ \A n \in Nat : A(n + 1) = OneUp(m, refs, A(n))
  BY AncestorSteps
<1>. HIDE DEF A
<1>2. 0 \in S
  BY <1>1
<1>3. ASSUME NEW n \in 0..d - 1, n \in S
      PROVE  n + 1 \in S
  <2>1. n \in Nat /\ n \in 0..d /\ n + 1 \in 0..d
    OBVIOUS
  <2>2. p[n] \in Refs(m) /\ p[n + 1] \in Refs(m)
        /\ m.all[p[n][1]].parent = p[n + 1]
    BY <2>1 DEF Way
  <2>3. A(n + 1) = OneUp(m, refs, {p[n]})
    BY <1>1, <1>3, <2>1
  <2>4. A(n + 1) = {p[n + 1]}
    BY <2>2, <2>3, OneUpFrom
  <2>5. QED
    BY <2>1, <2>4
<1>. HIDE DEF S
<1>4. \A n \in 0..d : n \in S
  BY <1>2, <1>3, Induct
<1>5. QED
  BY <1>4 DEF S, A

(* While a client holds no reference, ancestor is on entries all the way,  *)
(* on one at most at a time.                                               *)
LEMMA AncestorIsEntry ==
  ASSUME NEW m, Forest(m), NEW tip \in Refs(m), NEW d \in Nat
  PROVE  \A n \in 0..d :
           \/ Ancestor(m, {}, tip, n) = {}
           \/ \E r \in Refs(m) : Ancestor(m, {}, tip, n) = {r}
<1> DEFINE A(n) == Ancestor(m, {}, tip, n)
           S == {n \in 0..d : A(n) = {} \/ \E r \in Refs(m) : A(n) = {r}}
<1>1. A(0) = {tip} /\ \A n \in Nat : A(n + 1) = OneUp(m, {}, A(n))
  BY AncestorSteps
<1>. HIDE DEF A
<1>2. 0 \in S
  BY <1>1
<1>3. ASSUME NEW n \in 0..d - 1, n \in S
      PROVE  n + 1 \in S
  <2>1. n \in Nat /\ n + 1 \in 0..d
    OBVIOUS
  <2>2. A(n + 1) = OneUp(m, {}, A(n))
    BY <1>1, <2>1
  <2>3. CASE A(n) = {}
    BY <2>1, <2>2, <2>3 DEF OneUp
  <2>4. CASE \E r \in Refs(m) : A(n) = {r}
    <3>1. PICK r \in Refs(m) : A(n) = {r}
      BY <2>4
    <3>2. A(n + 1) = {m.all[r[1]].parent} \cap Refs(m)
      BY <2>2, <3>1, OneUpFrom
    <3>3. QED
      BY <2>1, <3>2
  <2>5. QED
    BY <1>3, <2>3, <2>4
<1>. HIDE DEF S
<1>4. \A n \in 0..d : n \in S
  BY <1>2, <1>3, Induct
<1>5. QED
  BY <1>4 DEF S, A

(* If ancestor finds an entry so many links up, there is a way to it.      *)
LEMMA AncestorHasWay ==
  ASSUME NEW m, Forest(m), NEW tip \in Refs(m), NEW d \in Nat,
         NEW a \in Ancestor(m, {}, tip, d)
  PROVE  \E p : /\ Way(m, p, d) /\ p[0] = tip
                /\ Ancestor(m, {}, tip, d) = {p[d]}
<1> DEFINE A(n) == Ancestor(m, {}, tip, n)
           S == {n \in 0..d :
                   A(n) # {} => \E p : /\ Way(m, p, n) /\ p[0] = tip
                                       /\ A(n) = {p[n]}}
<1>1. A(0) = {tip} /\ \A n \in Nat : A(n + 1) = OneUp(m, {}, A(n))
  BY AncestorSteps
<1>. HIDE DEF A
<1>2. 0 \in S
  <2> DEFINE p == [n \in 0..0 |-> tip]
  <2>1. Way(m, p, 0) /\ p[0] = tip
    BY DEF Way
  <2>. HIDE DEF p
  <2>2. A(0) = {p[0]}
    BY <1>1, <2>1
  <2>3. QED
    BY <2>1, <2>2
<1>3. ASSUME NEW n \in 0..d - 1, n \in S
      PROVE  n + 1 \in S
  <2>1. n \in Nat /\ n \in 0..n + 1 /\ n + 1 \in 0..n + 1 /\ n + 1 \in 0..d
    OBVIOUS
  <2>2. CASE A(n + 1) = {}
    BY <2>1, <2>2
  <2>3. CASE A(n + 1) # {}
    <3>1. A(n) # {}
      BY <1>1, <2>1, <2>3 DEF OneUp
    <3>2. PICK p : Way(m, p, n) /\ p[0] = tip /\ A(n) = {p[n]}
      BY <1>3, <3>1
    <3>3. p[n] \in Refs(m)
      BY <2>1, <3>2 DEF Way
    <3> DEFINE l == m.all[p[n][1]].parent
    <3>4. A(n + 1) = {l} \cap Refs(m)
      BY <1>1, <2>1, <3>2, <3>3, OneUpFrom
    <3>5. l \in Refs(m) /\ A(n + 1) = {l}
      BY <2>3, <3>4
    <3> DEFINE q == [k \in 0..n + 1 |-> IF k = n + 1 THEN l ELSE p[k]]
    <3>6. q[n + 1] = l /\ \A k \in 0..n : q[k] = p[k]
      BY <2>1
    <3>7. q \in [0..n + 1 -> Refs(m)]
      <4>1. ASSUME NEW k \in 0..n + 1
            PROVE  (IF k = n + 1 THEN l ELSE p[k]) \in Refs(m)
        <5>1. k # n + 1 => k \in 0..n
          BY <2>1
        <5>2. QED
          BY <3>2, <3>5, <5>1 DEF Way
      <4>2. QED
        BY <4>1
    <3>. HIDE DEF q
    <3>8. ASSUME NEW k \in 0..(n + 1) - 1
          PROVE  m.all[q[k][1]].parent = q[k + 1]
      <4>1. CASE k = n
        BY <2>1, <3>6, <4>1
      <4>2. CASE k # n
        <5>1. k \in 0..n - 1 /\ k \in 0..n /\ k + 1 \in 0..n
          BY <2>1, <4>2
        <5>2. QED
          BY <3>2, <3>6, <5>1 DEF Way
      <4>3. QED
        BY <4>1, <4>2
    <3>9. Way(m, q, n + 1)
      BY <3>7, <3>8 DEF Way
    <3>10. q[0] = tip
      BY <2>1, <3>2, <3>6
    <3>11. A(n + 1) = {q[n + 1]}
      BY <3>5, <3>6
    <3>12. QED
      BY <2>1, <3>9, <3>10, <3>11
  <2>4. QED
    BY <2>2, <2>3
<1>. HIDE DEF S
<1>4. \A n \in 0..d : n \in S
  BY <1>2, <1>3, Induct
<1>5. d \in S
  BY <1>4
<1>6. QED
  BY <1>5 DEF S, A

(* ancestor, asked by a client that holds no reference, never follows a    *)
(* link to an entry that is not there.                                     *)
LEMMA AncestorMeetsEntries ==
  ASSUME NEW m, Forest(m), NEW tip \in Refs(m), NEW d \in Nat
  PROVE  ~AncestorPanics(m, {}, tip, d)
<1> SUFFICES ASSUME NEW n \in 0..d - 1, NEW r \in Ancestor(m, {}, tip, n)
             PROVE  Has(m, r[1])
  BY DEF AncestorPanics
<1>1. n \in 0..d
  OBVIOUS
<1>2. r \in Refs(m)
  BY <1>1, AncestorIsEntry
<1>3. QED
  BY <1>2, RefNames DEF Has, Forest

=============================================================================
