----------------------------- MODULE Multiverse -----------------------------
(***************************************************************************)
(* The multiverse crate behind its interface: blocks are inserted and      *)
(* removed in any order, the best block is selected and what it discards   *)
(* removed, and the process stops and loads its database again.            *)
(*                                                                         *)
(* sled (external) may lose its last writes when the process dies.  What   *)
(* it then holds is what it held after fewer calls, which is a state that  *)
(* is looked at anyway.  A client lets go of the references it was given   *)
(* before it inserts or selects again, as those in the repository do: one  *)
(* that keeps the reference of a removed block keeps the links to it       *)
(* alive, and ancestor follows them to an entry that is not there.         *)
(***************************************************************************)
EXTENDS BlockForest

CONSTANTS
  Depths,  \* confirmation depths clients ask for
  Gaps     \* age_gap clients ask for

ASSUME MultiverseAssumption == Depths \subseteq Nat /\ Gaps \subseteq Nat

(* The key of a block is its hash, which covers the key of its parent: no  *)
(* chain of blocks comes back to where it started.  Along a chain numbers  *)
(* never fall, and need not rise (the epoch boundary blocks of Byron).     *)
ASSUME ChainAssumption ==
  /\ \A b \in Blocks : Parent[b] \in Blocks => Number[Parent[b]] <= Number[b]
  /\ \A S \in SUBSET Blocks :
       S # {} => \E b \in S : \A c \in S : Parent[c] # b

VARIABLES
  mem,   \* the Multiverse in memory
  db,    \* the blocks in its sled tree
  best,  \* the BestBlock the client works through, and what it asked for
  gone   \* history: blocks whose removal from the database failed

vars == <<mem, db, best, gone>>

NoBest ==
  [tip |-> {}, depth |-> 0, age_gap |-> 0, selected |-> {}, discarded |-> {}]

Init ==
  /\ mem = EmptyForest
  /\ db = {}
  /\ best = NoBest
  /\ gone = {}

ClientRefs == best.selected \cup best.discarded

InsertBlock(b) ==
  /\ best = NoBest
  /\ mem' = InsertInto(mem, {}, db, b)
  /\ db' = DbInsert(db, b)
  /\ gone' = gone \ {b}
  /\ UNCHANGED best

Select(tip, depth, age_gap) ==
  /\ best = NoBest
  /\ LET s == SelectBest(mem, {}, tip, depth, age_gap)
     IN best' = [tip |-> {tip}, depth |-> depth, age_gap |-> age_gap,
                 selected |-> s.selected, discarded |-> s.discarded]
  /\ UNCHANGED <<mem, db, gone>>

(* a client removes what was discarded, in any order, or what it likes *)
MayRemove(b) ==
  Has(mem, b) /\ (best # NoBest => b \in Names(best.discarded))

RemoveBlock(b) ==
  /\ MayRemove(b)
  /\ mem' = RemoveFrom(mem, ClientRefs, b)
  /\ db' = db \ {b}
  /\ UNCHANGED <<best, gone>>

(* db_remove comes last, and fails *)
RemoveBlockFails(b) ==
  /\ MayRemove(b)
  /\ mem' = RemoveFrom(mem, ClientRefs, b)
  /\ gone' = gone \cup ({b} \cap db)
  /\ UNCHANGED <<db, best>>

Release ==
  /\ best # NoBest
  /\ best' = NoBest
  /\ UNCHANGED <<mem, db, gone>>

Clear ==
  /\ best = NoBest
  /\ mem' = EmptyForest
  /\ db' = {}
  /\ gone' = {}
  /\ UNCHANGED best

(* the multiverse is given up with its tree; the next one starts empty *)
Destroy ==
  /\ mem' = EmptyForest
  /\ db' = {}
  /\ best' = NoBest
  /\ gone' = {}

(* the process ends, however it does, and opens the database again *)
Reopen ==
  /\ mem' = Load(db)
  /\ best' = NoBest
  /\ gone' = {}
  /\ UNCHANGED db

Next ==
  \/ \E b \in Blocks : InsertBlock(b) \/ RemoveBlock(b) \/ RemoveBlockFails(b)
  \/ \E tip \in BestTips(mem), depth \in Depths, age_gap \in Gaps :
       Select(tip, depth, age_gap)
  \/ Release \/ Clear \/ Destroy \/ Reopen

Spec == Init /\ [][Next]_vars

-----------------------------------------------------------------------------
TypeOK ==
  /\ DOMAIN mem.all \subseteq Blocks
  /\ \A b \in DOMAIN mem.all :
       /\ mem.all[b].ref \in Named(Ref, b)
       /\ \A r \in mem.all[b].children : r \in Ref /\ Parent[r[1]] = b
       /\ mem.all[b].parent \in Named(Ref, Parent[b]) \cup {Nowhere}
  /\ mem.ordered \subseteq Ref /\ mem.tips \subseteq Ref
  /\ mem.roots \subseteq Ref /\ mem.panic \in BOOLEAN
  /\ db \subseteq Blocks /\ gone \subseteq Blocks
  /\ best.selected \subseteq Ref /\ best.discarded \subseteq Ref
  /\ Cardinality(best.selected) <= 1

(* No assertion of insert_in_memory, remove or ancestor fails, in whatever *)
(* order blocks come and go and whatever selection was made in between.    *)
NeverPanics ==
  /\ ~mem.panic
  /\ best = NoBest =>
       \A tip \in BestTips(mem), depth \in Depths :
         ~AncestorPanics(mem, {}, tip, depth)

(* The tables name the same blocks, by the same allocations; a block is a  *)
(* tip when it has no children, the links of a block and of its parent     *)
(* agree, and what is a root has no parent to lead to.                     *)
TablesAgree ==
  LET refs == {mem.all[b].ref : b \in DOMAIN mem.all}
  IN
  /\ TypeOK
  /\ mem.ordered = refs
  /\ mem.tips = {mem.all[b].ref : b \in
                   {c \in DOMAIN mem.all : mem.all[c].children = {}}}
  /\ mem.roots \subseteq refs
  /\ \A b \in DOMAIN mem.all :
       /\ \A r \in mem.all[b].children :
            /\ r \in refs
            /\ mem.all[r[1]].parent = mem.all[b].ref
       /\ \A l \in Upgrade(mem, {}, mem.all[b].parent) :
            /\ mem.all[b].ref \in mem.all[l[1]].children
            /\ mem.all[b].ref \notin mem.roots

(* What a selection discards can be removed in any order, with the process *)
(* dying in between or not, and the selected block is still there, is      *)
(* still reached from the tip it was selected for, and is its ancestor.    *)
CollectionKeepsSelection ==
  \A s \in best.selected :
    /\ Has(mem, s[1])
    /\ \A tip \in best.tip :
         /\ tip \in mem.ordered
         /\ Ancestor(mem, ClientRefs, tip, best.depth) = best.selected
    /\ \A b \in DOMAIN mem.all : Number[b] + best.age_gap >= Number[s[1]]
         \/ b \in Names(best.discarded)

(* The two ways to find the best chain, by the table of numbers and by the *)
(* tips, come to the same height.                                          *)
TipsReachTheTop ==
  \A r \in PreferredForkTips(mem), s \in BestTips(mem) :
    Number[r[1]] = Number[s[1]]

(* A process that loads the database finds the blocks that were inserted   *)
(* and not removed, from StoreFrom on, with every link between blocks of   *)
(* different numbers (mk_sled_key: "we should always go from parent to     *)
(* children"), and with no assertion failing.                              *)
ReloadRebuilds ==
  LET m == Load(db)
  IN
  /\ ~m.panic
  /\ DOMAIN m.all \ gone = {b \in DOMAIN mem.all : Stored(b)}
  /\ \A b \in DOMAIN m.all :
       /\ Has(m, Parent[b]) /\ Number[Parent[b]] < Number[b] =>
            m.all[b].parent = m.all[Parent[b]].ref
       /\ b \in Names(m.tips) \/ m.all[b].children # {}
=============================================================================
