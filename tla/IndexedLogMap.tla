--------------------------- MODULE IndexedLogMap ---------------------------
(***************************************************************************)
(* The map of indexed-log-map: a fraos database with the values in order   *)
(* of insertion and a sled database from key to sequence number.  append   *)
(* writes to one and then to the other without a lock around both, so      *)
(* other threads and the death of the process come in between.             *)
(*                                                                         *)
(* fraos is taken as the AppendLog that Fraos implements: what it appended *)
(* survives the process.  sled (external) keeps inserts in memory and      *)
(* writes them to its file later, in order: a process that dies leaves the *)
(* index as it was at some earlier time.  A read looks at the index once   *)
(* and then at records that never change, so it is one step.               *)
(***************************************************************************)
EXTENDS Naturals, Sequences, FiniteSets

CONSTANTS
  Keys,
  Values,
  Writers,     \* threads in append
  NoJob,       \* a writer that is not in append
  MaxLog       \* bound: the number of records at which fraos is full

ASSUME IndexedLogMapAssumption == MaxLog \in Nat

VARIABLES
  log,     \* fraos: the values, each with the key it was appended under
  index,   \* key_to_seqno as the process sees it
  disk,    \* key_to_seqno as the file holds it
  config,  \* the IndexedLogMapConfig it was opened with
  job,     \* per writer: where it is in append and its locals
  walk,    \* a client in get_next: how many records lie up to its last one
  stale    \* history: keys whose last append is not promised to be found

vars == <<log, index, disk, config, job, walk, stale>>

-----------------------------------------------------------------------------
NoKeys == [k \in {} |-> 0]

(* storage_path is whether there is one: without it nothing is persistent *)
Configs == [storage_path : BOOLEAN, use_key_indexing : BOOLEAN,
            readonly : BOOLEAN, open : {TRUE}]

Closed(path) ==
  [storage_path |-> path, use_key_indexing |-> FALSE, readonly |-> FALSE,
   open |-> FALSE]

Persistent == config.storage_path

(* in memory readonly is ignored *)
ReadOnly(c) == c.storage_path /\ c.readonly

(* the key of a record is not stored in fraos: it is what the client knows *)
Record == [key : Keys, value : Values]

Job == [at : {"storage", "index"}, record : Record, seqno : Nat,
        alone : BOOLEAN]

ASSUME NoJobAssumption == NoJob \notin Job

Init ==
  /\ log = << >>
  /\ index = NoKeys
  /\ disk = NoKeys
  /\ \E path \in BOOLEAN : config = Closed(path)
  /\ job = [w \in Writers |-> NoJob]
  /\ walk = 0
  /\ stale = {}

At(w, place) == job[w] # NoJob /\ job[w].at = place

Appending(k) == {w \in Writers : job[w] # NoJob /\ job[w].record.key = k}

-----------------------------------------------------------------------------
(* IndexedLogMap::new; a read-only database needs its files *)
New(c) ==
  /\ ~config.open
  /\ c.storage_path = Persistent
  /\ ReadOnly(c) => log # << >>
  /\ config' = c
  /\ index' = IF c.use_key_indexing THEN disk ELSE NoKeys
  /\ walk' = 0
  /\ UNCHANGED <<log, disk, job, stale>>

(* append without a key index is an error before anything is done *)
Begin(w, r) ==
  /\ config.use_key_indexing
  /\ job[w] = NoJob
  /\ LET others == Appending(r.key)
     IN /\ job' = [v \in Writers |->
                     IF v = w
                     THEN [at |-> "storage", record |-> r, seqno |-> 0,
                           alone |-> others = {}]
                     ELSE IF v \in others
                          THEN [job[v] EXCEPT !.alone = FALSE]
                          ELSE job[v]]
        /\ stale' = IF others = {} THEN stale ELSE stale \cup {r.key}
  /\ UNCHANGED <<log, index, disk, config, walk>>

(* storage.append_get_seqno; a value is never encoded to nothing *)
AppendToStorage(w) ==
  /\ At(w, "storage")
  /\ ~ReadOnly(config)
  /\ Len(log) < MaxLog
  /\ log' = Append(log, job[w].record)
  /\ job' = [job EXCEPT ![w].seqno = Len(log), ![w].at = "index"]
  /\ UNCHANGED <<index, disk, config, walk, stale>>

StorageFails(w) ==
  /\ At(w, "storage")
  /\ ReadOnly(config) \/ Len(log) = MaxLog
  /\ job' = [job EXCEPT ![w] = NoJob]
  /\ UNCHANGED <<log, index, disk, config, walk, stale>>

(* mutant: the last position of the log, read when the key is inserted *)
PositionOfTheLast(w) == Len(log) - 1

(* the position append stores under the key *)
Position(w) == job[w].seqno

(* mutant: a key keeps its first position *)
InsertKeyIfAbsent(w) ==
  /\ At(w, "index")
  /\ LET k == job[w].record.key
     IN /\ index' = [x \in DOMAIN index \cup {k} |->
                       IF x \in DOMAIN index THEN index[x] ELSE Position(w)]
        /\ stale' = IF job[w].alone THEN stale \ {k} ELSE stale
  /\ job' = [job EXCEPT ![w] = NoJob]
  /\ UNCHANGED <<log, disk, config, walk>>

InsertKey(w) ==
  /\ At(w, "index")
  /\ LET k == job[w].record.key
     IN /\ index' = [x \in DOMAIN index \cup {k} |->
                       IF x = k THEN Position(w) ELSE index[x]]
        /\ stale' = IF job[w].alone THEN stale \ {k} ELSE stale
  /\ job' = [job EXCEPT ![w] = NoJob]
  /\ UNCHANGED <<log, disk, config, walk>>

(* sled reports an error: the value stays in the log without its key *)
InsertKeyFails(w) ==
  /\ At(w, "index")
  /\ stale' = stale \cup {job[w].record.key}
  /\ job' = [job EXCEPT ![w] = NoJob]
  /\ UNCHANGED <<log, index, disk, config, walk>>

-----------------------------------------------------------------------------
(* storage.iter_from_seqno, then next on the iterator *)
RecordAt(seqno) ==
  IF seqno < Len(log) THEN {log[seqno + 1]} ELSE {}

(* get: the value or nothing, as a set *)
Get(k) ==
  IF k \in DOMAIN index THEN {r.value : r \in RecordAt(index[k])} ELSE {}

(* get_next: the position behind the key's; of no key, the first.  It      *)
(* returns the value, whose key the client gives to the next call.         *)
NextOf(from) ==
  IF from = {} THEN {0}
  ELSE {index[k] + 1 : k \in from \cap DOMAIN index}

GetNext ==
  /\ config.open
  /\ LET from == IF walk = 0 THEN {} ELSE {log[walk].key}
         next == {s \in NextOf(from) : RecordAt(s) # {}}
     IN /\ from # {} => config.use_key_indexing
        /\ \E s \in next : walk' = s + 1
  /\ UNCHANGED <<log, index, disk, config, job, stale>>

-----------------------------------------------------------------------------
(* sled writes its buffers, at the latest after flush_every_ms *)
Flush ==
  /\ config.use_key_indexing
  /\ Persistent
  /\ disk' = index
  /\ UNCHANGED <<log, index, config, job, walk, stale>>

(* the map is dropped by its last owner: sled flushes *)
Close ==
  /\ config.open
  /\ \A w \in Writers : job[w] = NoJob
  /\ config' = Closed(Persistent)
  /\ index' = NoKeys
  /\ disk' = IF ~Persistent THEN NoKeys
             ELSE IF config.use_key_indexing THEN index ELSE disk
  /\ log' = IF Persistent THEN log ELSE << >>
  /\ walk' = 0
  /\ stale' = IF Persistent THEN stale ELSE {}
  /\ UNCHANGED job

LostKeys ==
  {k \in Keys :
     \/ k \in DOMAIN index /\ (k \in DOMAIN disk => disk[k] # index[k])
     \/ \E w \in Appending(k) : At(w, "index")}

(* the process dies *)
Crash ==
  /\ config.open
  /\ Persistent
  /\ config' = Closed(Persistent)
  /\ index' = NoKeys
  /\ job' = [w \in Writers |-> NoJob]
  /\ walk' = 0
  /\ stale' = stale \cup (IF config.use_key_indexing THEN LostKeys ELSE {})
  /\ UNCHANGED <<log, disk>>

Next ==
  \/ \E c \in Configs : New(c)
  \/ \E w \in Writers :
       \/ \E r \in Record : Begin(w, r)
       \/ AppendToStorage(w) \/ StorageFails(w)
       \/ InsertKey(w) \/ InsertKeyFails(w)
  \/ GetNext \/ Flush \/ Close \/ Crash

Spec == Init /\ [][Next]_vars

-----------------------------------------------------------------------------
Index == UNION {[D -> 0..MaxLog - 1] : D \in SUBSET Keys}

TypeOK ==
  /\ log \in Seq(Record) /\ Len(log) <= MaxLog
  /\ index \in Index /\ disk \in Index
  /\ config \in Configs \cup {Closed(TRUE), Closed(FALSE)}
  /\ job \in [Writers -> Job \cup {NoJob}]
  /\ walk \in 0..MaxLog
  /\ stale \subseteq Keys

(* An index, read now or found by a later process, never leads outside the *)
(* log or to the value of another key, although it is written by many      *)
(* threads behind the log and may be older than it.                        *)
KeyNamesItsOwnValue ==
  TypeOK /\ \A idx \in {index, disk} : \A k \in DOMAIN idx :
    idx[k] < Len(log) /\ log[idx[k] + 1].key = k

Positions(k) == {i \in 1..Len(log) : log[i].key = k}

(* "If you append already existing key ... get(&key) - new value will be   *)
(* returned" (README of indexed-log-map), of keys that were appended by    *)
(* one thread at a time; an append that runs alone to its end makes good   *)
(* what a race, an error or a crash has done to its key before.            *)
LastAppendIsServed ==
  config.use_key_indexing =>
    \A k \in Keys \ stale :
      Appending(k) = {} =>
        Get(k) = {log[i].value : i \in
                    {j \in Positions(k) : \A p \in Positions(k) : p <= j}}

(* A client of get_next starts at the first record.  From a record of the  *)
(* key k it goes on behind a record of k, the last one unless k is being   *)
(* appended or is stale: it never comes back to what it has seen, and a    *)
(* key appended again takes it behind the record of the last append, past  *)
(* those in between.  So it repeats and skips none where no key comes      *)
(* twice.                                                                  *)
NextIsTheFollowingRecord ==
  [][ walk' \notin {0, walk} =>
        IF walk = 0
        THEN walk' = 1
        ELSE LET k == log[walk].key IN
             /\ walk' - 1 \in Positions(k)
             /\ k \notin stale /\ Appending(k) = {} =>
                  \A p \in Positions(k) : p < walk' ]_vars
=============================================================================
