---------------------------- MODULE BlockForest ----------------------------
(***************************************************************************)
(* The data structure of the multiverse crate: the blocks in memory with   *)
(* the links between them, and the tables that are kept beside them.  A    *)
(* link to a parent is a weak reference: it leads somewhere as long as     *)
(* some table, or a client, holds the reference it was made from.          *)
(*                                                                         *)
(* HashSets compare references by the block they name, and an EntryRef     *)
(* is a block and the number of the allocation it points to.               *)
(***************************************************************************)
EXTENDS Naturals, Sequences, FiniteSets, FiniteSetsExt, SequencesExt

CONSTANTS
  Blocks,     \* keys of blocks
  Parent,     \* Variant::parent_id
  Number,     \* Variant::block_number
  KeyOrder,   \* all blocks in the order of their keys in sled
  StoreFrom   \* blocks of a smaller number are not made persistent

(* mk_sled_key starts with the number; between blocks of one number the    *)
(* order is that of their names, whoever is the parent of whom.            *)
ASSUME BlockForestAssumption ==
  /\ Blocks \subseteq DOMAIN Parent
  /\ Blocks \subseteq DOMAIN Number
  /\ \A b \in Blocks : Parent[b] # b /\ Number[b] \in Nat
  /\ KeyOrder \in Seq(Blocks) /\ ToSet(KeyOrder) = Blocks
  /\ \A i, j \in 1..Len(KeyOrder) :
       i < j => /\ KeyOrder[i] # KeyOrder[j]
                /\ Number[KeyOrder[i]] <= Number[KeyOrder[j]]
  /\ StoreFrom \in Nat

-----------------------------------------------------------------------------
Ref == Blocks \X Nat
Named(refs, b) == {r \in refs : r[1] = b}
Without(refs, b) == {r \in refs : r[1] # b}
Names(refs) == {r[1] : r \in refs}

(* EntryWeakRef::new: a link that leads nowhere *)
Nowhere == << >>

(* a Multiverse without its database; panic is whether an assertion failed *)
EmptyForest ==
  [all |-> [b \in {} |-> {}], ordered |-> {}, tips |-> {}, roots |-> {},
   panic |-> FALSE]

Tips(m) == Names(m.tips)
Has(m, b) == b \in DOMAIN m.all

Held(m) ==
  {m.all[b].ref : b \in DOMAIN m.all}
    \cup (UNION {m.all[b].children : b \in DOMAIN m.all})
    \cup m.ordered \cup m.tips \cup m.roots

(* EntryWeakRef::upgrade; refs are those the client holds *)
Upgrade(m, refs, link) == {link} \cap (Held(m) \cup refs)

(* Arc::new: an allocation nobody refers to *)
NewRef(m, refs, b) ==
  LET used == Held(m) \cup refs \cup {m.all[c].parent : c \in DOMAIN m.all}
  IN CHOOSE r \in {<<b, n>> : n \in 0..Cardinality(used)} :
       r \notin used /\ \A n \in 0..r[2] - 1 : <<b, n>> \in used

WithChild(entry, r) == [entry EXCEPT !.children = @ \cup {r}]

(* mutant: a block with children stays a tip *)
TipsKept(m, p) == m.tips

(* the tips after an entry was put below p *)
TipsAbove(m, p) == Without(m.tips, p)

InsertInMemory(m, refs, b) ==
  LET r == NewRef(m, refs, b)
      p == Parent[b]
      linked == Has(m, p)
      entry == [ref |-> r, children |-> {},
                parent |-> IF linked THEN m.all[p].ref ELSE Nowhere]
  IN
  [all |-> [x \in DOMAIN m.all \cup {b} |->
              IF x = b THEN entry
              ELSE IF x = p THEN WithChild(m.all[x], r) ELSE m.all[x]],
   ordered |-> m.ordered \cup {r},
   tips |-> TipsAbove(m, p) \cup {r},
   roots |-> IF linked THEN m.roots ELSE m.roots \cup {r},
   panic |-> m.panic \/ (~linked /\ b \in Names(m.roots))]

(* insert: db is the set of blocks in the database *)
Stored(b) == StoreFrom <= Number[b]
DbInsert(db, b) == IF Stored(b) THEN db \cup {b} ELSE db

InsertInto(m, refs, db, b) ==
  IF Has(m, b) /\ (Stored(b) => b \in db)
  THEN m
  ELSE InsertInMemory(m, refs, b)

(* mutant: the numbers are little endian in the keys *)
LoadBackwards(db) ==
  FoldLeft(LAMBDA m, b : IF b \in db THEN InsertInMemory(m, {}, b) ELSE m,
           EmptyForest, Reverse(KeyOrder))

(* load_from: the entries of the database in the order of their keys *)
Load(db) ==
  FoldLeft(LAMBDA m, b : IF b \in db THEN InsertInMemory(m, {}, b) ELSE m,
           EmptyForest, KeyOrder)

-----------------------------------------------------------------------------
(* the children of a root that is removed are roots *)
RootsWithout(m, b) ==
  Without(m.roots, b)
    \cup (IF b \in Names(m.roots) THEN m.all[b].children ELSE {})

(* the entry the parent link of b leads to, while b is being removed *)
ParentEntry(m, refs, b) ==
  {p \in Names(Upgrade(m, refs, m.all[b].parent)) : Has(m, p)}

(* mutant: the parent keeps the reference *)
ChildrenKept(children, b) == children

ChildrenLeft(children, b) == Without(children, b)

(* mutant: the parent is not looked at *)
TipsOnlyWithout(m, refs, b) == Without(m.tips, b)

(* a parent that lost its last child is a tip again *)
TipsBelow(m, refs, b) ==
  Without(m.tips, b)
    \cup {<<p, m.all[b].parent[2]>> : p \in
            {q \in ParentEntry(m, refs, b) :
               ChildrenLeft(m.all[q].children, b) = {}}}

(* remove, but for the database *)
RemoveFrom(m, refs, b) ==
  LET parents == ParentEntry(m, refs, b)
  IN
  [all |-> [x \in DOMAIN m.all \ {b} |->
              IF x \in parents
              THEN [m.all[x] EXCEPT !.children = ChildrenLeft(@, b)]
              ELSE m.all[x]],
   ordered |-> Without(m.ordered, b),
   tips |-> TipsBelow(m, refs, b),
   roots |-> RootsWithout(m, b),
   panic |->
     \/ m.panic
     \/ /\ b \in Names(m.roots)
        /\ Names(m.all[b].children) \cap Names(m.roots) # {}
     \/ \E p \in parents :
          \/ b \notin Names(m.all[p].children)
          \/ /\ ChildrenLeft(m.all[p].children, b) = {}
             /\ p \in Names(m.tips)]

-----------------------------------------------------------------------------
Highest(refs) ==
  {r \in refs : \A s \in refs : Number[s[1]] <= Number[r[1]]}

(* mutant: the first of the tips, however high *)
AnyTips(m) == m.tips

(* the tip select_best_block starts from: whichever the HashSet of the     *)
(* highest number gives first                                              *)
BestTips(m) == Highest(m.ordered)

(* ancestor: no reference where a link ends early *)
Ancestor(m, refs, tip, depth) ==
  LET up[n \in 0..depth] ==
        IF n = 0 THEN {tip}
        ELSE UNION {Upgrade(m, refs, m.all[r[1]].parent) :
                      r \in {s \in up[n - 1] : Has(m, s[1])}}
  IN up[depth]

(* its expect: a link leads to an entry that is not there *)
AncestorPanics(m, refs, tip, depth) ==
  \E n \in 0..depth - 1 :
    \E r \in Ancestor(m, refs, tip, n) : ~Has(m, r[1])

Minus(a, b) == IF a < b THEN 0 ELSE a - b  \* saturating_sub

(* mutant: an inclusive range *)
KeepOneLess(number, age_gap) == Minus(number, age_gap) + 1

(* the number below which blocks are discarded *)
Keep(number, age_gap) == Minus(number, age_gap)

Discarded(m, selected, age_gap) ==
  UNION {{r \in m.ordered : Number[r[1]] < Keep(Number[s[1]], age_gap)} :
           s \in {x \in selected : Has(m, x[1])}}

(* select_best_block with the LongestChain rule *)
SelectBest(m, refs, tip, depth, age_gap) ==
  LET selected == Ancestor(m, refs, tip, depth)
  IN [selected |-> selected, discarded |-> Discarded(m, selected, age_gap)]

(* preferred_fork_tip: one of these *)
PreferredForkTips(m) == Highest(m.tips)

(* iter: one group of blocks of equal number after the other, each in the  *)
(* order of its HashSet; the last block of the iteration is one of these   *)
LastOfIter(m) == Names(BestTips(m)) \cap DOMAIN m.all
=============================================================================
