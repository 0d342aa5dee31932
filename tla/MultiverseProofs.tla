-------------------------- MODULE MultiverseProofs --------------------------
(***************************************************************************)
(* Proofs about Multiverse for any blocks, confirmation depths and age     *)
(* gaps.  The inductive invariant says that memory is a forest (see        *)
(* ForestProofs), that the database holds what is in memory from StoreFrom *)
(* on and what could not be removed from it, and that a client that works  *)
(* through a selection still finds the way of links, from the tip to the   *)
(* selected block, on which no block has a number below that block's.      *)
(***************************************************************************)
EXTENDS Multiverse, ForestProofs

(* A client's reference to a block in memory is that of its entry.         *)
HeldByClient ==
  /\ best.selected \subseteq Ref /\ best.discarded \subseteq Ref
  /\ \A r \in ClientRefs : Has(mem, r[1]) => mem.all[r[1]].ref = r

(* The way up to what was selected is still there.                         *)
WayToSelected ==
  best.selected # {} =>
    \E p : /\ Way(mem, p, best.depth)
           /\ best.tip = {p[0]} /\ best.selected = {p[best.depth]}
           /\ \A n \in 0..best.depth :
                Number[p[best.depth][1]] <= Number[p[n][1]]

(* What is discarded is old, and what is old is discarded.                 *)
OldIsDiscarded ==
  \A s \in best.selected :
    /\ \A r \in best.discarded :
         Number[r[1]] < Minus(Number[s[1]], best.age_gap)
    /\ \A b \in DOMAIN mem.all :
         b \in Names(best.discarded)
           \/ Minus(Number[s[1]], best.age_gap) <= Number[b]

Selection ==
  /\ best.depth \in Nat /\ best.age_gap \in Nat
  /\ HeldByClient /\ WayToSelected /\ OldIsDiscarded

(* The database is what is in memory, but for what is too old to be stored *)
(* and for what memory gave up and the database kept.                      *)
DbAgrees ==
  /\ db \subseteq Blocks /\ gone \subseteq Blocks
  /\ \A b \in db : Stored(b)
  /\ db \ gone = {b \in DOMAIN mem.all : Stored(b)}

IInv == Forest(mem) /\ DbAgrees /\ Selection

-----------------------------------------------------------------------------
(* Numbers do not rise along a way up.                                     *)
LEMMA WayGoesDown ==
  ASSUME NEW m, Forest(m), NEW d \in Nat, NEW p, Way(m, p, d)
  PROVE  \A n \in 0..d : Number[p[d][1]] <= Number[p[n][1]]
<1> DEFINE N(k) == Number[p[d - k][1]]
           S == {k \in 0..d : Number[p[d][1]] <= N(k)}
<1>1. ASSUME NEW n \in 0..d
      PROVE  p[n] \in Refs(m) /\ p[n][1] \in Blocks /\ Number[p[n][1]] \in Nat
  <2>1. p[n] \in Refs(m)
    BY DEF Way
  <2>2. p[n][1] \in Blocks
    BY <2>1, RefNames DEF Forest, Entries
  <2>3. QED
    BY <2>1, <2>2, BlockForestAssumption
<1>2. 0 \in S
  <2>1. d - 0 = d /\ d \in 0..d
    OBVIOUS
  <2>2. N(0) = Number[p[d][1]] /\ Number[p[d][1]] \in Nat
    BY <1>1, <2>1
  <2>3. QED
    BY <2>2
<1>3. ASSUME NEW k \in 0..d - 1, k \in S
      PROVE  k + 1 \in S
  <2> DEFINE n == d - (k + 1)
  <2>1. /\ n \in 0..d - 1 /\ n \in 0..d /\ n + 1 \in 0..d
        /\ n + 1 = d - k /\ k + 1 \in 0..d /\ d \in 0..d
    OBVIOUS
  <2>2. m.all[p[n][1]].parent = p[n + 1]
    BY <2>1 DEF Way
  <2>. HIDE DEF n
  <2>3. p[n][1] \in DOMAIN m.all /\ p[n + 1] # Nowhere
    BY <1>1, <2>1, RefNames, NowhereIsNoRef DEF Forest
  <2>4. p[n + 1][1] = Parent[p[n][1]]
    BY <2>2, <2>3 DEF Forest, Entries
  <2>5. Number[p[n + 1][1]] <= Number[p[n][1]]
    BY <1>1, <2>1, <2>4, ChainAssumption
  <2>6. Number[p[d][1]] <= Number[p[n + 1][1]]
    BY <1>3, <2>1
  <2>7. Number[p[d][1]] <= Number[p[n][1]]
    BY <1>1, <2>1, <2>5, <2>6
  <2>8. QED
    BY <2>1, <2>7 DEF n
<1>. HIDE DEF S
<1>4. \A k \in 0..d : k \in S
  BY <1>2, <1>3, Induct
<1>5. ASSUME NEW n \in 0..d
      PROVE  Number[p[d][1]] <= Number[p[n][1]]
  <2>1. d - n \in 0..d /\ d - (d - n) = n
    OBVIOUS
  <2>2. d - n \in S
    BY <1>4, <2>1
  <2>3. QED
    BY <2>1, <2>2 DEF S
<1>6. QED
  BY <1>5

(* A client that holds nothing is in agreement with any forest.            *)
LEMMA NothingSelected ==
  ASSUME best = NoBest
  PROVE  Selection
BY DEF NoBest, Selection, HeldByClient, WayToSelected, OldIsDiscarded,
       ClientRefs

(* Insertion: the database decides what a block that is in memory needs,   *)
(* and it has every such block.                                            *)
LEMMA InsertKeepsIInv ==
  ASSUME IInv, NEW b \in Blocks, InsertBlock(b)
  PROVE  IInv'
<1>1. /\ Forest(mem) /\ best = NoBest /\ best' = best
      /\ mem' = InsertInto(mem, {}, db, b)
      /\ db' = DbInsert(db, b) /\ gone' = gone \ {b}
  BY DEF IInv, InsertBlock
<1>2. Has(mem, b) => (Stored(b) => b \in db)
  BY DEF IInv, DbAgrees, Has
<1>3. Forest(mem') /\ DOMAIN mem'.all = DOMAIN mem.all \cup {b}
  <2>1. CASE Has(mem, b)
    <3>1. mem' = mem
      BY <1>1, <1>2, <2>1 DEF InsertInto
    <3>2. QED
      BY <1>1, <2>1, <3>1 DEF Has
  <2>2. CASE ~Has(mem, b)
    <3>1. mem' = InsertInMemory(mem, {}, b)
      BY <1>1, <2>2 DEF InsertInto
    <3>2. QED
      BY <1>1, <2>2, <3>1, FS_EmptySet, InsertKeepsForest DEF Has
  <2>3. QED
    BY <2>1, <2>2
<1>4. DbAgrees'
  <2>1. CASE Stored(b)
    <3>1. db' = db \cup {b}
      BY <1>1, <2>1 DEF DbInsert
    <3>2. QED
      BY <1>1, <1>3, <2>1, <3>1 DEF IInv, DbAgrees, Stored
  <2>2. CASE ~Stored(b)
    <3>1. db' = db
      BY <1>1, <2>2 DEF DbInsert
    <3>2. QED
      BY <1>1, <1>3, <2>2, <3>1 DEF IInv, DbAgrees, Stored
  <2>3. QED
    BY <2>1, <2>2
<1>5. Selection'
  <2>1. (best = NoBest => Selection)'
    BY NothingSelected, PTL
  <2>2. QED
    BY <1>1, <2>1 DEF NoBest
<1>6. QED
  BY <1>3, <1>4, <1>5 DEF IInv

(* Selection: there is a way to what ancestor gives, and what is discarded *)
(* was in the table of numbers.                                            *)
LEMMA SelectKeepsIInv ==
  ASSUME IInv, NEW tip \in BestTips(mem), NEW depth \in Depths,
         NEW age_gap \in Gaps, Select(tip, depth, age_gap)
  PROVE  IInv'
<1> DEFINE selected == Ancestor(mem, {}, tip, depth)
           discarded == Discarded(mem, selected, age_gap)
<1>1. /\ Forest(mem) /\ DbAgrees
      /\ mem' = mem /\ db' = db /\ gone' = gone
      /\ best' = [tip |-> {tip}, depth |-> depth, age_gap |-> age_gap,
                  selected |-> selected, discarded |-> discarded]
  BY DEF IInv, Select, SelectBest
<1>2. depth \in Nat /\ age_gap \in Nat
  BY MultiverseAssumption
<1>3. tip \in Refs(mem)
  BY <1>1 DEF BestTips, Highest, Forest, Tables
<1>4. \/ selected = {}
      \/ \E r \in Refs(mem) : selected = {r}
  <2>1. depth \in 0..depth
    BY <1>2
  <2>2. QED
    BY <1>1, <1>2, <1>3, <2>1, AncestorIsEntry
<1>5. selected # {} =>
        \E p : /\ Way(mem, p, depth) /\ p[0] = tip /\ selected = {p[depth]}
               /\ \A n \in 0..depth : Number[p[depth][1]] <= Number[p[n][1]]
  <2>1. ASSUME selected # {}
        PROVE  \E p : /\ Way(mem, p, depth) /\ p[0] = tip
                      /\ selected = {p[depth]}
                      /\ \A n \in 0..depth :
                           Number[p[depth][1]] <= Number[p[n][1]]
    <3>1. PICK a \in selected : TRUE
      BY <2>1
    <3>2. PICK p : Way(mem, p, depth) /\ p[0] = tip /\ selected = {p[depth]}
      BY <1>1, <1>2, <1>3, <3>1, AncestorHasWay
    <3>3. \A n \in 0..depth : Number[p[depth][1]] <= Number[p[n][1]]
      BY <1>1, <1>2, <3>2, WayGoesDown
    <3>4. QED
      BY <3>2, <3>3
  <2>2. QED
    BY <2>1
<1>. HIDE DEF selected
<1>6. \A s \in selected : Has(mem, s[1])
  BY <1>1, <1>4, RefNames DEF Has, Forest
<1>7. /\ \A r \in discarded : r \in Refs(mem)
      /\ \A s \in selected : \A r \in discarded :
           Number[r[1]] < Minus(Number[s[1]], age_gap)
  <2>1. mem.ordered = Refs(mem)
    BY <1>1 DEF Forest, Tables
  <2>2. ASSUME NEW r \in discarded
        PROVE  \E s \in selected : r \in Refs(mem)
                 /\ Number[r[1]] < Minus(Number[s[1]], age_gap)
    BY <2>1 DEF Discarded, Keep
  <2>3. \A s, t \in selected : s = t
    BY <1>4
  <2>4. QED
    BY <2>2, <2>3
<1>8. ASSUME NEW s \in selected, NEW b \in DOMAIN mem.all
      PROVE  b \in Names(discarded)
               \/ Minus(Number[s[1]], age_gap) <= Number[b]
  <2>1. mem.all[b].ref \in mem.ordered /\ mem.all[b].ref[1] = b
    BY <1>1 DEF Forest, Entries, Tables, Refs
  <2>2. CASE Number[b] < Minus(Number[s[1]], age_gap)
    <3>1. mem.all[b].ref \in discarded
      BY <1>6, <2>1, <2>2 DEF Discarded, Keep
    <3>2. QED
      BY <2>1, <3>1 DEF Names
  <2>3. CASE ~(Number[b] < Minus(Number[s[1]], age_gap))
    <3>1. Number[b] \in Nat /\ Number[s[1]] \in Nat
      BY <1>1, <1>6, BlockForestAssumption DEF Has, Forest, Entries
    <3>2. Minus(Number[s[1]], age_gap) \in Nat
      BY <1>2, <3>1 DEF Minus
    <3>3. QED
      BY <2>3, <3>1, <3>2
  <2>4. QED
    BY <2>2, <2>3
<1>. HIDE DEF discarded
<1>9. /\ best'.tip = {tip} /\ best'.depth = depth /\ best'.age_gap = age_gap
       /\ best'.selected = selected /\ best'.discarded = discarded
  BY <1>1
<1>10. HeldByClient'
  <2>1. \A r \in selected \cup discarded :
          r \in Ref /\ mem.all[r[1]].ref = r
    BY <1>1, <1>4, <1>7, RefNames DEF Forest
  <2>2. QED
    BY <1>1, <1>9, <2>1 DEF HeldByClient, ClientRefs
<1>11. WayToSelected'
  BY <1>1, <1>5, <1>9 DEF WayToSelected
<1>12. OldIsDiscarded'
  BY <1>1, <1>7, <1>8, <1>9 DEF OldIsDiscarded
<1>13. Selection'
  BY <1>2, <1>9, <1>10, <1>11, <1>12 DEF Selection
<1>14. DbAgrees'
  BY <1>1 DEF DbAgrees
<1>15. QED
  BY <1>1, <1>13, <1>14 DEF IInv

(* Removal: whatever is removed while a client works through a selection   *)
(* is discarded, so its number is below that of every block on the way.    *)
LEMMA RemoveKeepsSelection ==
  ASSUME IInv, NEW b \in Blocks, MayRemove(b), best' = best,
         mem' = RemoveFrom(mem, ClientRefs, b)
  PROVE  /\ Forest(mem') /\ DOMAIN mem'.all = DOMAIN mem.all \ {b}
         /\ Selection'
<1>1. /\ Forest(mem') /\ DOMAIN mem'.all = DOMAIN mem.all \ {b}
      /\ \A c \in DOMAIN mem'.all :
           /\ mem'.all[c].ref = mem.all[c].ref
           /\ mem'.all[c].parent = mem.all[c].parent
  <2>1. /\ Forest(mem) /\ b \in DOMAIN mem.all
        /\ \A r \in ClientRefs : Has(mem, r[1]) => mem.all[r[1]].ref = r
    BY DEF IInv, Selection, HeldByClient, MayRemove, Has
  <2>2. QED
    BY <2>1, RemoveKeepsForest
<1>2. HeldByClient'
  BY <1>1 DEF IInv, Selection, HeldByClient, ClientRefs, Has
<1>3. WayToSelected'
  <2> SUFFICES ASSUME best.selected # {}
               PROVE  WayToSelected'
    BY DEF IInv, Selection, WayToSelected
  <2> DEFINE d == best.depth
  <2>1. PICK p : /\ Way(mem, p, d)
                 /\ best.tip = {p[0]} /\ best.selected = {p[d]}
                 /\ \A n \in 0..d : Number[p[d][1]] <= Number[p[n][1]]
    BY DEF IInv, Selection, WayToSelected
  <2>2. d \in Nat /\ best.age_gap \in Nat
    BY DEF IInv, Selection
  <2>3. PICK r \in best.discarded : r[1] = b
    <3>1. best # NoBest
      BY DEF NoBest
    <3>2. QED
      BY <3>1 DEF MayRemove, Names
  <2>4. Number[b] < Minus(Number[p[d][1]], best.age_gap)
    BY <2>1, <2>3 DEF IInv, Selection, OldIsDiscarded
  <2>5. ASSUME NEW n \in 0..d
        PROVE  p[n] \in Refs(mem) /\ p[n][1] \in DOMAIN mem.all
               /\ mem.all[p[n][1]].ref = p[n] /\ Number[p[n][1]] \in Nat
    <3>1. p[n] \in Refs(mem)
      BY <2>1 DEF Way
    <3>2. p[n][1] \in DOMAIN mem.all /\ mem.all[p[n][1]].ref = p[n]
      BY <3>1, RefNames DEF IInv, Forest
    <3>3. QED
      BY <3>1, <3>2, BlockForestAssumption DEF IInv, Forest, Entries
  <2>6. ASSUME NEW n \in 0..d
        PROVE  p[n][1] \in DOMAIN mem'.all /\ p[n] \in Refs(mem')
    <3>1. d \in 0..d
      BY <2>2
    <3>2. Number[p[d][1]] <= Number[p[n][1]]
      BY <2>1
    <3>3. Number[b] \in Nat
      BY BlockForestAssumption
    <3>4. Number[p[d][1]] \in Nat /\ Number[p[n][1]] \in Nat
      BY <2>5, <3>1
    <3>5. Number[b] < Number[p[n][1]]
      BY <2>2, <2>4, <3>2, <3>3, <3>4 DEF Minus
    <3>6. p[n][1] # b
      BY <3>3, <3>5
    <3>7. p[n][1] \in DOMAIN mem'.all
      BY <1>1, <2>5, <3>6
    <3>8. mem'.all[p[n][1]].ref = p[n]
      BY <1>1, <2>5, <3>7
    <3>9. QED
      BY <3>7, <3>8 DEF Refs
  <2>7. Way(mem', p, d)
    <3>1. p \in [0..d -> Refs(mem')]
      BY <2>1, <2>6 DEF Way
    <3>2. ASSUME NEW n \in 0..d - 1
          PROVE  mem'.all[p[n][1]].parent = p[n + 1]
      <4>1. n \in 0..d
        BY <2>2
      <4>2. QED
        BY <1>1, <2>1, <2>6, <4>1 DEF Way
    <3>3. QED
      BY <3>1, <3>2 DEF Way
  <2>8. QED
    BY <2>1, <2>7 DEF WayToSelected
<1>4. OldIsDiscarded'
  BY <1>1 DEF IInv, Selection, OldIsDiscarded
<1>5. QED
  BY <1>1, <1>2, <1>3, <1>4 DEF IInv, Selection

(* A fresh start from a database: what it holds is in memory.              *)
LEMMA LoadedIsIInv ==
  ASSUME db' \in SUBSET Blocks, \A b \in db' : Stored(b), gone' = {},
         best' = NoBest, Forest(mem'), DOMAIN mem'.all = db'
  PROVE  IInv'
<1>1. (best = NoBest => Selection)'
  BY NothingSelected, PTL
<1>2. Selection'
  BY <1>1 DEF NoBest
<1>3. DbAgrees'
  BY DEF DbAgrees
<1>4. QED
  BY <1>2, <1>3 DEF IInv

(* Init => IInv and IInv /\ [Next]_vars => IInv'.                          *)
LEMMA IInvInvariance == Spec => []IInv
<1>1. Init => IInv
  <2> SUFFICES ASSUME Init PROVE IInv
    OBVIOUS
  <2>1. Forest(mem) /\ DOMAIN mem.all = {}
    BY EmptyIsForest DEF Init
  <2>2. Selection
    BY NothingSelected DEF Init
  <2>3. DbAgrees
    BY <2>1 DEF Init, DbAgrees
  <2>4. QED
    BY <2>1, <2>2, <2>3 DEF IInv
<1>2. IInv /\ [Next]_vars => IInv'
  <2> SUFFICES ASSUME IInv, [Next]_vars PROVE IInv'
    OBVIOUS
  <2>1. ASSUME NEW b \in Blocks, InsertBlock(b)
        PROVE  IInv'
    BY <2>1, InsertKeepsIInv
  <2>2. ASSUME NEW tip \in BestTips(mem), NEW depth \in Depths,
               NEW age_gap \in Gaps, Select(tip, depth, age_gap)
        PROVE  IInv'
    BY <2>2, SelectKeepsIInv
  <2>3. ASSUME NEW b \in Blocks, RemoveBlock(b)
        PROVE  IInv'
    <3>1. Forest(mem') /\ DOMAIN mem'.all = DOMAIN mem.all \ {b} /\ Selection'
      BY <2>3, RemoveKeepsSelection DEF RemoveBlock
    <3>2. DbAgrees'
      BY <2>3, <3>1 DEF IInv, DbAgrees, RemoveBlock, Stored
    <3>3. QED
      BY <3>1, <3>2 DEF IInv
  <2>4. ASSUME NEW b \in Blocks, RemoveBlockFails(b)
        PROVE  IInv'
    <3>1. Forest(mem') /\ DOMAIN mem'.all = DOMAIN mem.all \ {b} /\ Selection'
      BY <2>4, RemoveKeepsSelection DEF RemoveBlockFails
    <3>2. DbAgrees'
      BY <2>4, <3>1 DEF IInv, DbAgrees, RemoveBlockFails, Stored
    <3>3. QED
      BY <3>1, <3>2 DEF IInv
  <2>5. CASE Release
    <3>1. mem' = mem /\ db' = db /\ gone' = gone /\ best' = NoBest
      BY <2>5 DEF Release
    <3>2. (best = NoBest => Selection)'
      BY NothingSelected, PTL
    <3>3. Selection'
      BY <3>1, <3>2 DEF NoBest
    <3>4. QED
      BY <3>1, <3>3 DEF IInv, DbAgrees
  <2>6. CASE Clear
    BY <2>6, EmptyIsForest, LoadedIsIInv DEF Clear
  <2>7. CASE Destroy
    BY <2>7, EmptyIsForest, LoadedIsIInv DEF Destroy
  <2>8. CASE Reopen
    <3>1. db \in SUBSET Blocks /\ \A b \in db : Stored(b)
      BY DEF IInv, DbAgrees
    <3>2. QED
      BY <2>8, <3>1, LoadIsForest, LoadedIsIInv DEF Reopen
  <2>9. CASE UNCHANGED vars
    BY <2>9 DEF vars, IInv, DbAgrees, Selection, HeldByClient, WayToSelected,
                OldIsDiscarded, ClientRefs
  <2>10. QED
    BY <2>1, <2>2, <2>3, <2>4, <2>5, <2>6, <2>7, <2>8, <2>9 DEF Next
<1>3. QED
  BY <1>1, <1>2, PTL DEF Spec

-----------------------------------------------------------------------------
(* The invariant holds the types.                                          *)
LEMMA IInvTypes == IInv => TypeOK
<1> SUFFICES ASSUME IInv PROVE TypeOK
  OBVIOUS
<1>1. Forest(mem) /\ Entries(mem)
  BY DEF IInv, Forest
<1>2. ASSUME NEW b \in DOMAIN mem.all
      PROVE  /\ mem.all[b].ref \in Named(Ref, b)
             /\ \A r \in mem.all[b].children : r \in Ref /\ Parent[r[1]] = b
             /\ mem.all[b].parent \in Named(Ref, Parent[b]) \cup {Nowhere}
  <2>1. /\ mem.all[b].ref \in Ref /\ mem.all[b].ref[1] = b
        /\ mem.all[b].parent \in Ref \cup {Nowhere}
        /\ mem.all[b].parent # Nowhere => mem.all[b].parent[1] = Parent[b]
    BY <1>1 DEF Entries, Entry
  <2>2. ASSUME NEW r \in mem.all[b].children
        PROVE  r \in Ref /\ Parent[r[1]] = b
    <3>1. r \in Refs(mem) /\ mem.all[r[1]].parent = mem.all[b].ref
      BY <1>1 DEF Forest, LinksAgree
    <3>2. r \in Ref /\ r[1] \in DOMAIN mem.all
      BY <1>1, <3>1, RefNames
    <3>3. mem.all[r[1]].parent # Nowhere
      BY <2>1, <3>1, NowhereIsNoRef
    <3>4. QED
      BY <1>1, <2>1, <3>1, <3>2, <3>3 DEF Entries
  <2>3. QED
    BY <2>1, <2>2 DEF Named
<1>3. Refs(mem) \subseteq Ref
  BY <1>1, RefNames
<1>4. mem.ordered \subseteq Ref /\ mem.tips \subseteq Ref
      /\ mem.roots \subseteq Ref /\ mem.panic \in BOOLEAN
  BY <1>1, <1>3 DEF Forest, Tables, Leaves, Refs
<1>5. Cardinality(best.selected) <= 1
  <2>1. CASE best.selected = {}
    BY <2>1, FS_EmptySet
  <2>2. CASE best.selected # {}
    <3>1. PICK s : best.selected = {s}
      BY <2>2 DEF IInv, Selection, WayToSelected
    <3>2. QED
      BY <3>1, FS_Singleton
  <2>3. QED
    BY <2>1, <2>2
<1>6. QED
  BY <1>1, <1>2, <1>4, <1>5
     DEF TypeOK, Entries, IInv, DbAgrees, Selection, HeldByClient

(* In any reachable state none of the assertions of insert_in_memory and   *)
(* remove has failed, and select_best_block, started from any of the       *)
(* highest blocks, meets an entry wherever it looks for one.               *)
THEOREM PanicFreedom == Spec => []NeverPanics
<1>1. IInv => NeverPanics
  <2> SUFFICES ASSUME IInv, NEW tip \in BestTips(mem), NEW depth \in Depths
               PROVE  ~mem.panic /\ ~AncestorPanics(mem, {}, tip, depth)
    BY DEF NeverPanics, IInv, Forest
  <2>1. Forest(mem) /\ ~mem.panic
    BY DEF IInv, Forest
  <2>2. tip \in Refs(mem) /\ depth \in Nat
    BY <2>1, MultiverseAssumption DEF BestTips, Highest, Forest, Tables
  <2>3. QED
    BY <2>1, <2>2, AncestorMeetsEntries
<1>2. QED
  BY <1>1, IInvInvariance, PTL

(* In any reachable state the tables of numbers, tips and roots are those  *)
(* of the entries, and the links of a block and of its parent agree.       *)
THEOREM TablesInvariance == Spec => []TablesAgree
<1>1. IInv => TablesAgree
  <2> SUFFICES ASSUME IInv PROVE TablesAgree
    OBVIOUS
  <2>1. Forest(mem)
    BY DEF IInv
  <2>2. /\ mem.ordered = Refs(mem) /\ mem.roots \subseteq Refs(mem)
        /\ mem.tips = {mem.all[b].ref : b \in
                         {c \in DOMAIN mem.all : mem.all[c].children = {}}}
    BY <2>1 DEF Forest, Tables, Leaves
  <2>3. ASSUME NEW b \in DOMAIN mem.all, NEW r \in mem.all[b].children
        PROVE  r \in Refs(mem) /\ mem.all[r[1]].parent = mem.all[b].ref
    BY <2>1 DEF Forest, LinksAgree
  <2>4. ASSUME NEW b \in DOMAIN mem.all,
               NEW l \in Upgrade(mem, {}, mem.all[b].parent)
        PROVE  /\ mem.all[b].ref \in mem.all[l[1]].children
               /\ mem.all[b].ref \notin mem.roots
    <3>1. l = mem.all[b].parent /\ l \in Refs(mem)
      BY <2>1, HeldAreRefs DEF Upgrade
    <3>2. l # Nowhere
      BY <2>1, <3>1, RefNames, NowhereIsNoRef DEF Forest
    <3>3. l[1] = Parent[b]
      BY <2>1, <3>1, <3>2 DEF Forest, Entries
    <3>4. QED
      BY <2>1, <3>1, <3>3 DEF Forest, LinksAgree
  <2>5. QED
    BY <2>2, <2>3, <2>4, IInvTypes DEF TablesAgree, Refs
<1>2. QED
  BY <1>1, IInvInvariance, PTL

(* In any reachable state the selected block is in memory, at the asked    *)
(* for distance from its tip, however much of what the selection discards  *)
(* has been removed, and what is older than the age gap is discarded.      *)
THEOREM SelectionSurvives == Spec => []CollectionKeepsSelection
<1>1. IInv => CollectionKeepsSelection
  <2> SUFFICES ASSUME IInv, NEW s \in best.selected
               PROVE  /\ Has(mem, s[1])
                      /\ \A tip \in best.tip :
                           /\ tip \in mem.ordered
                           /\ Ancestor(mem, ClientRefs, tip, best.depth)
                                = best.selected
                      /\ \A b \in DOMAIN mem.all :
                           Number[b] + best.age_gap >= Number[s[1]]
                             \/ b \in Names(best.discarded)
    BY DEF CollectionKeepsSelection
  <2> DEFINE d == best.depth
  <2>1. PICK p : /\ Way(mem, p, d)
                 /\ best.tip = {p[0]} /\ best.selected = {p[d]}
    BY DEF IInv, Selection, WayToSelected
  <2>2. d \in Nat /\ best.age_gap \in Nat /\ Forest(mem)
    BY DEF IInv, Selection
  <2>3. 0 \in 0..d /\ d \in 0..d
    BY <2>2
  <2>4. p[0] \in Refs(mem) /\ p[d] \in Refs(mem)
    BY <2>1, <2>3 DEF Way
  <2>5. Has(mem, s[1])
    BY <2>1, <2>2, <2>4, RefNames DEF Has, Forest
  <2>6. p[0] \in mem.ordered
    BY <2>2, <2>4 DEF Forest, Tables
  <2>7. Ancestor(mem, ClientRefs, p[0], d) = {p[d]}
    BY <2>1, <2>2, <2>3, AncestorOnWay
  <2>8. ASSUME NEW b \in DOMAIN mem.all
        PROVE  Number[b] + best.age_gap >= Number[s[1]]
                 \/ b \in Names(best.discarded)
    <3>1. \/ b \in Names(best.discarded)
          \/ Minus(Number[s[1]], best.age_gap) <= Number[b]
      BY DEF IInv, Selection, OldIsDiscarded
    <3>2. Number[b] \in Nat /\ Number[s[1]] \in Nat
      BY <2>2, <2>5, BlockForestAssumption DEF Has, Forest, Entries
    <3>3. QED
      BY <2>2, <3>1, <3>2 DEF Minus
  <2>9. QED
    BY <2>1, <2>5, <2>6, <2>7, <2>8
<1>2. QED
  BY <1>1, IInvInvariance, PTL

(* In any reachable state the highest of the tips and the highest of all   *)
(* blocks have one number: no chain of blocks ends in a circle.            *)
THEOREM TipsAreHighest == Spec => []TipsReachTheTop
<1>1. IInv => TipsReachTheTop
  <2> SUFFICES ASSUME IInv, NEW r \in PreferredForkTips(mem),
                      NEW s \in BestTips(mem)
               PROVE  Number[r[1]] = Number[s[1]]
    BY DEF TipsReachTheTop
  <2> DEFINE A == DOMAIN mem.all
             Top == {b \in A : \A c \in A : Number[c] <= Number[b]}
  <2>1. /\ Forest(mem) /\ mem.ordered = Refs(mem)
        /\ mem.tips = {mem.all[b].ref : b \in Leaves(mem)}
    BY DEF IInv, Forest, Tables
  <2>2. A \subseteq Blocks
    BY <2>1 DEF Forest, Entries
  <2>3. \A b \in A : mem.all[b].ref \in Refs(mem) /\ mem.all[b].ref[1] = b
                     /\ Number[b] \in Nat
    BY <2>1, <2>2, BlockForestAssumption DEF Refs, Forest, Entries
  <2>4. /\ s[1] \in A
        /\ \A c \in A : Number[c] <= Number[s[1]]
    <3>1. s \in Refs(mem) /\ \A t \in Refs(mem) : Number[t[1]] <= Number[s[1]]
      BY <2>1 DEF BestTips, Highest
    <3>2. s[1] \in A
      BY <2>1, <3>1, RefNames DEF Forest
    <3>3. ASSUME NEW c \in A
          PROVE  Number[c] <= Number[s[1]]
      BY <2>3, <3>1
    <3>4. QED
      BY <3>2, <3>3
  <2>5. PICK b \in Top : \A c \in Top : Parent[c] # b
    <3>1. Top \in SUBSET Blocks /\ Top # {}
      BY <2>2, <2>4
    <3>. HIDE DEF Top
    <3>2. QED
      BY <3>1, ChainAssumption
  <2>6. mem.all[b].children = {}
    <3> SUFFICES ASSUME NEW q \in mem.all[b].children PROVE FALSE
      OBVIOUS
    <3>1. q \in Refs(mem) /\ Parent[q[1]] = b
      <4>1. \A q2 \in mem.all[b].children : Parent[q2[1]] = b
        BY IInvTypes DEF TypeOK
      <4>2. QED
        BY <2>1, <4>1 DEF Forest, LinksAgree
    <3>2. q[1] \in A
      BY <2>1, <3>1, RefNames DEF Forest
    <3>3. Number[b] <= Number[q[1]]
      BY <2>2, <3>1, <3>2, ChainAssumption
    <3>4. ASSUME NEW c \in A
          PROVE  Number[c] <= Number[q[1]]
      <4>1. Number[c] <= Number[b]
        OBVIOUS
      <4>2. Number[c] \in Nat /\ Number[b] \in Nat /\ Number[q[1]] \in Nat
        BY <2>3, <3>2
      <4>3. QED
        BY <3>3, <4>1, <4>2
    <3>5. QED
      BY <2>5, <3>1, <3>2, <3>4
  <2>7. mem.all[b].ref \in mem.tips
    BY <2>1, <2>6 DEF Leaves
  <2>8. /\ r \in mem.tips
        /\ \A t \in mem.tips : Number[t[1]] <= Number[r[1]]
    BY DEF PreferredForkTips, Highest
  <2>9. r[1] \in A
    BY <2>1, <2>3, <2>8 DEF Leaves
  <2>10. Number[b] <= Number[r[1]]
    BY <2>3, <2>7, <2>8
  <2>11. Number[s[1]] <= Number[b] /\ Number[r[1]] <= Number[s[1]]
    BY <2>4, <2>9
  <2>12. QED
    BY <2>3, <2>4, <2>9, <2>10, <2>11
<1>2. QED
  BY <1>1, IInvInvariance, PTL

(* In any reachable state, what a process that starts now would load from  *)
(* the database are the blocks that are in memory from StoreFrom on, with  *)
(* those whose removal failed, each below its parent where the numbers put *)
(* the parent first, and without a failing assertion.                      *)
THEOREM ReloadIsFaithful == Spec => []ReloadRebuilds
<1>1. IInv => ReloadRebuilds
  <2> SUFFICES ASSUME IInv PROVE ReloadRebuilds
    OBVIOUS
  <2> DEFINE m == Load(db)
  <2>1. db \in SUBSET Blocks /\ db \ gone = {b \in DOMAIN mem.all : Stored(b)}
    BY DEF IInv, DbAgrees
  <2>2. /\ Forest(m) /\ DOMAIN m.all = db
        /\ \A b \in db :
             Parent[b] \in db /\ Number[Parent[b]] < Number[b] =>
               m.all[b].parent = m.all[Parent[b]].ref
    BY <2>1, LoadIsForest
  <2>. HIDE DEF m
  <2>3. ASSUME NEW b \in DOMAIN m.all, m.all[b].children = {}
        PROVE  b \in Names(m.tips)
    <3>1. m.all[b].ref \in m.tips /\ m.all[b].ref[1] = b
      BY <2>2, <2>3 DEF Forest, Entries, Tables, Leaves
    <3>2. QED
      BY <3>1 DEF Names
  <2>4. ~m.panic
    BY <2>2 DEF Forest
  <2>5. QED
    BY <2>1, <2>2, <2>3, <2>4 DEF ReloadRebuilds, m, Has
<1>2. QED
  BY <1>1, IInvInvariance, PTL
=============================================================================
