------------------------ MODULE IndexedLogMapProofs ------------------------
(***************************************************************************)
(* What IndexedLogMap promises of its keys, proved for any keys, values,   *)
(* writers and length of the log.                                          *)
(***************************************************************************)
EXTENDS IndexedLogMap, TLAPS

(* the last record of a key is at this position of fraos *)
IsLast(k, seqno) ==
  /\ seqno + 1 \in Positions(k)
  /\ \A p \in Positions(k) : p <= seqno + 1

(* an index that leads to the last record of a key, or has none *)
Serves(idx, k) ==
  IF k \in DOMAIN idx THEN IsLast(k, idx[k]) ELSE Positions(k) = {}

NamesItsOwn(idx) ==
  \A k \in DOMAIN idx : idx[k] < Len(log) /\ log[idx[k] + 1].key = k

(* nobody appends without a key index *)
JobsAreIndexed ==
  ~config.use_key_indexing => \A w \in Writers : job[w] = NoJob

(* a writer that goes to the index knows where its record is *)
JobsKnowTheirRecord ==
  \A w \in Writers :
    At(w, "index") =>
      /\ job[w].seqno < Len(log)
      /\ log[job[w].seqno + 1] = job[w].record

(* the only writer of its key *)
Only(w) ==
  \A v \in Writers :
    job[v] # NoJob /\ v # w => job[v].record.key # job[w].record.key

(* its record is the last one of the key *)
IsNewest(w) == IsLast(job[w].record.key, job[w].seqno)

(* a writer that is alone is what it takes itself for, and the key of one  *)
(* that is not is stale                                                    *)
AloneIsAlone ==
  \A w \in Writers :
    job[w] # NoJob =>
      IF job[w].alone
      THEN Only(w) /\ (At(w, "index") => IsNewest(w))
      ELSE job[w].record.key \in stale

(* of a key that is not stale, the index the process uses leads to the last *)
(* record, but while the only writer of the key is between the two stores  *)
IndexServes ==
  config.use_key_indexing =>
    \A k \in Keys \ stale :
      (\A w \in Appending(k) : ~At(w, "index")) => Serves(index, k)

(* and so does the one on the disk, when it is not behind *)
DiskServes ==
  ~config.use_key_indexing => \A k \in Keys \ stale : Serves(disk, k)

IInv ==
  /\ TypeOK
  /\ NamesItsOwn(index) /\ NamesItsOwn(disk)
  /\ JobsAreIndexed
  /\ JobsKnowTheirRecord
  /\ AloneIsAlone
  /\ IndexServes
  /\ DiskServes

-----------------------------------------------------------------------------
(* An index is a function from some keys to positions.                     *)
LEMMA IndexFacts ==
  ASSUME NEW idx \in Index
  PROVE  /\ DOMAIN idx \subseteq Keys
         /\ \A k \in DOMAIN idx : idx[k] \in 0..MaxLog - 1
         /\ idx \in [DOMAIN idx -> 0..MaxLog - 1]
BY DEF Index

(* No keys are an index.                                                   *)
LEMMA NoKeysIsIndex == NoKeys \in Index /\ DOMAIN NoKeys = {}
<1>1. NoKeys \in [{} -> 0..MaxLog - 1] /\ DOMAIN NoKeys = {}
  BY DEF NoKeys
<1> QED BY <1>1 DEF Index

(* What is not open has no key index.                                      *)
LEMMA ClosedHasNoIndex ==
  ASSUME TypeOK, ~config.open
  PROVE  ~config.use_key_indexing
<1>1. config \in Configs => config.open \in {TRUE}
  BY DEF Configs
<1>2. config \in {Closed(TRUE), Closed(FALSE)}
  BY <1>1 DEF TypeOK
<1> QED BY <1>2 DEF Closed

(* IndexedLogMap begins in IInv.                                           *)
LEMMA InitIInv == Init => IInv
<1> SUFFICES ASSUME Init PROVE IInv
  OBVIOUS
<1>1. TypeOK
  <2>1. log \in Seq(Record) /\ Len(log) <= MaxLog /\ walk \in 0..MaxLog
    BY IndexedLogMapAssumption DEF Init
  <2>2. config \in {Closed(TRUE), Closed(FALSE)}
    BY DEF Init
  <2> QED BY <2>1, <2>2, NoKeysIsIndex DEF Init, TypeOK
<1>2. NamesItsOwn(index) /\ NamesItsOwn(disk)
  BY NoKeysIsIndex DEF Init, NamesItsOwn
<1>3. JobsAreIndexed /\ JobsKnowTheirRecord /\ AloneIsAlone
  BY DEF Init, JobsAreIndexed, JobsKnowTheirRecord, AloneIsAlone, At
<1>4. IndexServes
  BY DEF Init, IndexServes, Closed
<1>5. DiskServes
  BY NoKeysIsIndex DEF Init, DiskServes, Serves, Positions
<1> QED BY <1>1, <1>2, <1>3, <1>4, <1>5 DEF IInv

-----------------------------------------------------------------------------
(* Opening: the index of the process is that of the disk, or none.         *)
LEMMA NewIInv ==
  ASSUME IInv, NEW c \in Configs, New(c)
  PROVE  IInv'
<1> USE DEF IInv
<1>1. ~config.use_key_indexing
  BY ClosedHasNoIndex DEF New
<1>2. TypeOK'
  <2>1. index' \in Index
    BY NoKeysIsIndex DEF TypeOK, New
  <2>2. walk' \in 0..MaxLog
    BY IndexedLogMapAssumption DEF New
  <2> QED BY <2>1, <2>2 DEF TypeOK, New
<1>3. NamesItsOwn(index)' /\ NamesItsOwn(disk)'
  BY NoKeysIsIndex DEF New, NamesItsOwn
<1>4. JobsAreIndexed' /\ JobsKnowTheirRecord' /\ AloneIsAlone'
  BY <1>1 DEF New, JobsAreIndexed, JobsKnowTheirRecord, AloneIsAlone, At
<1>5. IndexServes'
  BY <1>1 DEF New, IndexServes, DiskServes, Serves, IsLast, Positions
<1>6. DiskServes'
  BY <1>1 DEF New, DiskServes, Serves, IsLast, Positions
<1> QED BY <1>2, <1>3, <1>4, <1>5, <1>6

-----------------------------------------------------------------------------
(* What an append knows of its writer.                                     *)
LEMMA JobFacts ==
  ASSUME TypeOK, NEW w \in Writers, job[w] # NoJob
  PROVE  /\ job[w] \in Job
         /\ job[w].record \in Record
         /\ job[w].record.key \in Keys
         /\ job[w].seqno \in Nat
BY DEF TypeOK, Job, Record

(* The beginning of an append: it is alone, or it and the others are not.  *)
LEMMA BeginIInv ==
  ASSUME IInv, NEW w \in Writers, NEW r \in Record, Begin(w, r)
  PROVE  IInv'
<1> USE DEF IInv
<1> DEFINE others == Appending(r.key)
           new == [at |-> "storage", record |-> r, seqno |-> 0,
                   alone |-> others = {}]
<1>1. /\ config.use_key_indexing /\ job[w] = NoJob
      /\ UNCHANGED <<log, index, disk, config, walk>>
      /\ job \in [Writers -> Job \cup {NoJob}]
  BY DEF Begin, TypeOK
<1>2. r.key \in Keys /\ new \in Job
  BY DEF Record, Job
<1>3. \A v \in others :
        /\ v \in Writers /\ v # w /\ job[v] # NoJob
        /\ job[v] \in Job /\ job[v].record.key = r.key
  BY <1>1 DEF Appending
<1>4. \A v \in others :
        /\ [job[v] EXCEPT !.alone = FALSE] \in Job
        /\ [job[v] EXCEPT !.alone = FALSE].at = job[v].at
        /\ [job[v] EXCEPT !.alone = FALSE].record = job[v].record
        /\ [job[v] EXCEPT !.alone = FALSE].seqno = job[v].seqno
        /\ ~[job[v] EXCEPT !.alone = FALSE].alone
  BY <1>3 DEF Job
<1>5. /\ job' \in [Writers -> Job \cup {NoJob}]
      /\ job'[w] = new
      /\ \A v \in others : job'[v] = [job[v] EXCEPT !.alone = FALSE]
      /\ \A v \in Writers \ others : v # w => job'[v] = job[v]
  BY <1>1, <1>2, <1>3, <1>4 DEF Begin
<1>14. job'[w].record.key = r.key /\ (job'[w].alone <=> others = {})
  <2>1. new.record = r /\ (new.alone <=> others = {})
    OBVIOUS
  <2> QED BY <2>1, <1>5
<1>15. \A v \in others : ~job'[v].alone /\ job'[v].record = job[v].record
  <2> SUFFICES ASSUME NEW v \in others
               PROVE  ~job'[v].alone /\ job'[v].record = job[v].record
    OBVIOUS
  <2>1. job'[v] = [job[v] EXCEPT !.alone = FALSE]
    BY <1>5
  <2>2. ~[job[v] EXCEPT !.alone = FALSE].alone
    BY <1>4
  <2>3. [job[v] EXCEPT !.alone = FALSE].record = job[v].record
    BY <1>4
  <2> QED BY <2>1, <2>2, <2>3
<1>6. stale \subseteq stale' /\ stale' \subseteq Keys
      /\ (others # {} => r.key \in stale')
  BY <1>2 DEF Begin, TypeOK
<1>7. TypeOK'
  BY <1>1, <1>5, <1>6 DEF TypeOK
<1>8. NamesItsOwn(index)' /\ NamesItsOwn(disk)' /\ JobsAreIndexed' /\ DiskServes'
  BY <1>1 DEF NamesItsOwn, JobsAreIndexed, DiskServes
<1>9. \A v \in Writers : At(v, "index")' =>
        /\ At(v, "index") /\ v # w
        /\ job'[v].record = job[v].record /\ job'[v].seqno = job[v].seqno
  <2> SUFFICES ASSUME NEW v \in Writers, At(v, "index")'
               PROVE  /\ At(v, "index") /\ v # w
                      /\ job'[v].record = job[v].record
                      /\ job'[v].seqno = job[v].seqno
    OBVIOUS
  <2>1. v # w
    BY <1>5 DEF At
  <2>2. CASE v \in others
    BY <2>1, <2>2, <1>3, <1>4, <1>5 DEF At
  <2>3. CASE v \notin others
    BY <2>1, <2>3, <1>5 DEF At
  <2> QED BY <2>2, <2>3
<1>10. JobsKnowTheirRecord'
  BY <1>1, <1>9 DEF JobsKnowTheirRecord
<1>11. \A v \in Writers : job'[v] # NoJob =>
         IF job'[v].alone
         THEN Only(v)' /\ (At(v, "index")' => IsNewest(v))
         ELSE job'[v].record.key \in stale'
  <2> SUFFICES ASSUME NEW v \in Writers, job'[v] # NoJob
               PROVE  IF job'[v].alone
                      THEN Only(v)' /\ (At(v, "index")' => IsNewest(v))
                      ELSE job'[v].record.key \in stale'
    OBVIOUS
  <2>1. CASE v = w
    <3>1. CASE others = {}
      <4>1. \A u \in Writers : u # w => job'[u] = job[u]
        BY <3>1, <1>5
      <4>2. \A u \in Writers : u # w /\ job[u] # NoJob => job[u].record.key # r.key
        BY <3>1 DEF Appending
      <4>3. job'[v].record.key = r.key /\ ~At(v, "index")'
        BY <2>1, <1>14, <1>9
      <4>4. Only(v)'
        BY <2>1, <4>1, <4>2, <4>3 DEF Only
      <4> QED BY <2>1, <3>1, <4>3, <4>4, <1>14
    <3>2. CASE others # {}
      <4>1. ~job'[v].alone /\ job'[v].record.key \in stale'
        BY <2>1, <3>2, <1>14, <1>6
      <4> QED BY <4>1
    <3> QED BY <3>1, <3>2
  <2>2. CASE v \in others
    <3>1. ~job'[v].alone /\ job'[v].record.key = r.key
      BY <2>2, <1>3, <1>15
    <3> QED BY <2>2, <3>1, <1>6
  <2>3. CASE v # w /\ v \notin others
    <3>1. job'[v] = job[v] /\ job[v].record.key # r.key
      BY <2>3, <1>5 DEF Appending
    <3>2. \A u \in Writers : job'[u] # NoJob /\ job'[u].record.key # r.key =>
            job'[u] = job[u]
      <4> SUFFICES ASSUME NEW u \in Writers, job'[u] # NoJob,
                          job'[u].record.key # r.key
                   PROVE  job'[u] = job[u]
        OBVIOUS
      <4>1. u # w
        BY <1>5
      <4>2. u \in others => job'[u].record = job[u].record
        BY <1>4, <1>5
      <4>3. u \notin others
        BY <4>2, <1>3
      <4> QED BY <4>1, <4>3, <1>5
    <3>3. CASE job[v].alone
      <4>1. Only(v)
        BY <3>1, <3>3 DEF AloneIsAlone
      <4>2. At(v, "index")' => IsNewest(v)
        BY <3>1, <3>3, <1>9 DEF AloneIsAlone
      <4>3. Only(v)'
        BY <3>1, <3>2, <4>1 DEF Only
      <4> QED BY <3>1, <3>3, <4>2, <4>3
    <3>4. CASE ~job[v].alone
      BY <3>1, <3>4, <1>6 DEF AloneIsAlone
    <3> QED BY <3>3, <3>4
  <2> QED BY <2>1, <2>2, <2>3
<1>13. AloneIsAlone'
  <2>1. \A v \in Writers : At(v, "index")' /\ IsNewest(v) => IsNewest(v)'
    BY <1>1, <1>9 DEF IsNewest, IsLast, Positions
  <2> QED BY <1>11, <2>1 DEF AloneIsAlone
<1>12. IndexServes'
  <2> SUFFICES ASSUME NEW k \in Keys \ stale',
                      \A v \in Appending(k)' : ~At(v, "index")'
               PROVE  Serves(index, k)'
    BY DEF IndexServes
  <2>1. \A v \in Appending(k) : ~At(v, "index")
    <3> SUFFICES ASSUME NEW v \in Appending(k), At(v, "index") PROVE FALSE
      OBVIOUS
    <3>1. v \in Writers /\ v # w /\ job[v] # NoJob /\ job[v].record.key = k
      BY <1>1 DEF Appending
    <3>2. v \notin others
      BY <3>1, <1>3, <1>6
    <3>3. job'[v] = job[v]
      BY <3>1, <3>2, <1>5
    <3> QED BY <3>1, <3>3 DEF Appending, At
  <2>2. Serves(index, k)
    BY <2>1, <1>1, <1>6 DEF IndexServes
  <2> QED BY <2>2, <1>1 DEF Serves, IsLast, Positions
<1> QED BY <1>7, <1>8, <1>10, <1>13, <1>12

-----------------------------------------------------------------------------
(* The value goes to the log: the last record of its key is the new one.   *)
LEMMA AppendToStorageIInv ==
  ASSUME IInv, NEW w \in Writers, AppendToStorage(w)
  PROVE  IInv'
<1> USE DEF IInv
<1> DEFINE key == job[w].record.key
<1>1. /\ At(w, "storage") /\ Len(log) < MaxLog
      /\ log' = Append(log, job[w].record)
      /\ UNCHANGED <<index, disk, config, walk, stale>>
  BY DEF AppendToStorage
<1>2. /\ job[w] # NoJob /\ job[w] \in Job
      /\ job[w].record \in Record /\ key \in Keys
      /\ log \in Seq(Record) /\ Len(log) \in Nat
  <2>1. job[w] # NoJob
    BY <1>1 DEF At
  <2>2. log \in Seq(Record)
    BY DEF TypeOK
  <2> QED BY <2>1, <2>2, JobFacts
<1>3. /\ log' \in Seq(Record) /\ Len(log') = Len(log) + 1
      /\ \A i \in 1..Len(log) : log'[i] = log[i]
      /\ log'[Len(log) + 1] = job[w].record
  BY <1>1, <1>2
<1>4. \A k : Positions(k)' =
        IF k = key THEN Positions(k) \cup {Len(log) + 1} ELSE Positions(k)
  BY <1>2, <1>3 DEF Positions
<1>5. \A k : Positions(k) \subseteq 1..Len(log)
  BY DEF Positions
<1>6. /\ job'[w] = [job[w] EXCEPT !.seqno = Len(log), !.at = "index"]
      /\ job'[w] \in Job
      /\ job'[w].seqno = Len(log) /\ job'[w].at = "index"
      /\ job'[w].record = job[w].record
      /\ job'[w].alone = job[w].alone
      /\ \A v \in Writers : v # w => job'[v] = job[v]
      /\ job' \in [Writers -> Job \cup {NoJob}]
  <2>1. job' = [job EXCEPT ![w] = [job[w] EXCEPT !.seqno = Len(log), !.at = "index"]]
    BY DEF AppendToStorage
  <2>2. /\ [job[w] EXCEPT !.seqno = Len(log), !.at = "index"] \in Job
        /\ [job[w] EXCEPT !.seqno = Len(log), !.at = "index"].seqno = Len(log)
        /\ [job[w] EXCEPT !.seqno = Len(log), !.at = "index"].at = "index"
        /\ [job[w] EXCEPT !.seqno = Len(log), !.at = "index"].record = job[w].record
        /\ [job[w] EXCEPT !.seqno = Len(log), !.at = "index"].alone = job[w].alone
    BY <1>2 DEF Job
  <2> QED BY <2>1, <2>2 DEF TypeOK
<1>7. TypeOK'
  <2>1. Len(log') <= MaxLog
    BY <1>1, <1>2, <1>3, IndexedLogMapAssumption
  <2> QED BY <1>1, <1>3, <1>6, <2>1 DEF TypeOK
<1>8. NamesItsOwn(index)' /\ NamesItsOwn(disk)'
  <2>1. \A idx \in Index : NamesItsOwn(idx) =>
          \A k \in DOMAIN idx : idx[k] < Len(log') /\ log'[idx[k] + 1].key = k
    BY <1>2, <1>3, IndexFacts DEF NamesItsOwn
  <2> QED BY <2>1, <1>1 DEF NamesItsOwn, TypeOK
<1>9. config.use_key_indexing
  BY <1>2 DEF JobsAreIndexed
<1>10. JobsAreIndexed' /\ DiskServes'
  BY <1>1, <1>9 DEF JobsAreIndexed, DiskServes
<1>11. JobsKnowTheirRecord'
  <2> SUFFICES ASSUME NEW v \in Writers, At(v, "index")'
               PROVE  /\ job'[v].seqno < Len(log')
                      /\ log'[job'[v].seqno + 1] = job'[v].record
    BY DEF JobsKnowTheirRecord
  <2>1. CASE v = w
    BY <2>1, <1>2, <1>3, <1>6
  <2>2. CASE v # w
    <3>1. job'[v] = job[v] /\ At(v, "index")
      BY <2>2, <1>6 DEF At
    <3>2. job[v].seqno \in Nat
      BY <3>1, JobFacts DEF At
    <3> QED BY <3>1, <3>2, <1>2, <1>3 DEF JobsKnowTheirRecord
  <2> QED BY <2>1, <2>2
<1>12. \A v \in Writers :
         /\ job'[v] # NoJob <=> job[v] # NoJob
         /\ job'[v].record = job[v].record
         /\ job'[v].alone = job[v].alone
         /\ v # w => job'[v] = job[v] /\ (At(v, "index")' <=> At(v, "index"))
  BY <1>2, <1>6, NoJobAssumption DEF At
<1>13. \A k : Appending(k)' = Appending(k)
  BY <1>12 DEF Appending
<1>14. \A k, n : k # key /\ IsLast(k, n) => IsLast(k, n)'
  BY <1>4 DEF IsLast
<1>15. IsNewest(w)'
  <2>1. \A k, n : k = key /\ n = Len(log) => IsLast(k, n)'
    BY <1>2, <1>4, <1>5 DEF IsLast
  <2> QED BY <2>1, <1>6 DEF IsNewest
<1>16. AloneIsAlone'
  <2> SUFFICES ASSUME NEW v \in Writers, job'[v] # NoJob
               PROVE  IF job'[v].alone
                      THEN Only(v)' /\ (At(v, "index")' => IsNewest(v)')
                      ELSE job'[v].record.key \in stale'
    BY DEF AloneIsAlone
  <2>1. IF job[v].alone
        THEN Only(v) /\ (At(v, "index") => IsNewest(v))
        ELSE job[v].record.key \in stale
    BY <1>12 DEF AloneIsAlone
  <2>2. Only(v) => Only(v)'
    BY <1>12 DEF Only
  <2>3. CASE ~job[v].alone
    BY <2>1, <2>3, <1>1, <1>12
  <2>4. CASE job[v].alone /\ v = w
    BY <2>1, <2>2, <2>4, <1>12, <1>15
  <2>5. CASE job[v].alone /\ v # w
    <3>1. job[v].record.key # key
      BY <2>1, <2>5, <1>2 DEF Only
    <3>2. At(v, "index")' => IsNewest(v)'
      BY <2>1, <2>5, <3>1, <1>12, <1>14 DEF IsNewest
    <3> QED BY <2>1, <2>2, <2>5, <3>2, <1>12
  <2> QED BY <2>3, <2>4, <2>5
<1>17. IndexServes'
  <2> SUFFICES ASSUME NEW k \in Keys \ stale',
                      \A v \in Appending(k)' : ~At(v, "index")'
               PROVE  Serves(index, k)'
    BY DEF IndexServes
  <2>1. k # key
    <3>1. At(w, "index")'
      BY <1>6, NoJobAssumption DEF At
    <3>2. k = key => w \in Appending(k)'
      BY <1>2, <1>13 DEF Appending
    <3> QED BY <3>1, <3>2
  <2>2. \A v \in Appending(k) : ~At(v, "index")
    BY <2>1, <1>12, <1>13 DEF Appending
  <2>3. Serves(index, k)
    BY <2>2, <1>1, <1>9 DEF IndexServes
  <2> QED BY <2>1, <2>3, <1>1, <1>4, <1>14 DEF Serves
<1> QED BY <1>7, <1>8, <1>10, <1>11, <1>16, <1>17

-----------------------------------------------------------------------------
(* A writer leaves append with its key stale or as it was.                 *)
LEMMA LeavesIInv ==
  ASSUME IInv, NEW w \in Writers, job[w] # NoJob,
         job' = [job EXCEPT ![w] = NoJob],
         UNCHANGED <<log, index, disk, config, walk>>,
         stale' \in {stale, stale \cup {job[w].record.key}},
         At(w, "index") => job[w].record.key \in stale'
  PROVE  IInv'
<1> USE DEF IInv
<1>1. /\ job' \in [Writers -> Job \cup {NoJob}]
      /\ job'[w] = NoJob
      /\ \A v \in Writers : v # w => job'[v] = job[v]
  BY DEF TypeOK
<1>2. stale \subseteq stale' /\ stale' \subseteq Keys
  BY JobFacts DEF TypeOK
<1>3. TypeOK'
  BY <1>1, <1>2 DEF TypeOK
<1>4. NamesItsOwn(index)' /\ NamesItsOwn(disk)' /\ JobsAreIndexed'
  BY <1>1 DEF NamesItsOwn, JobsAreIndexed
<1>5. \A v \in Writers : job'[v] # NoJob => v # w /\ job'[v] = job[v]
  BY <1>1
<1>6. \A v \in Writers : At(v, "index")' => At(v, "index")
  BY <1>5 DEF At
<1>7. JobsKnowTheirRecord'
  BY <1>5, <1>6 DEF JobsKnowTheirRecord, At
<1>8. AloneIsAlone'
  <2> SUFFICES ASSUME NEW v \in Writers, job'[v] # NoJob
               PROVE  IF job'[v].alone
                      THEN Only(v)' /\ (At(v, "index")' => IsNewest(v)')
                      ELSE job'[v].record.key \in stale'
    BY DEF AloneIsAlone
  <2>1. IF job[v].alone
        THEN Only(v) /\ (At(v, "index") => IsNewest(v))
        ELSE job[v].record.key \in stale
    BY <1>5 DEF AloneIsAlone
  <2>2. Only(v) => Only(v)'
    BY <1>5 DEF Only
  <2>3. IsNewest(v) => IsNewest(v)'
    BY <1>5 DEF IsNewest, IsLast, Positions
  <2> QED BY <2>1, <2>2, <2>3, <1>2, <1>5, <1>6
<1>9. IndexServes'
  <2> SUFFICES ASSUME NEW k \in Keys \ stale', config.use_key_indexing,
                      \A v \in Appending(k)' : ~At(v, "index")'
               PROVE  Serves(index, k)'
    BY DEF IndexServes
  <2>1. \A v \in Appending(k) : ~At(v, "index")
    <3> SUFFICES ASSUME NEW v \in Appending(k), At(v, "index") PROVE FALSE
      OBVIOUS
    <3>1. v # w
      BY DEF Appending
    <3>2. v \in Appending(k)' /\ At(v, "index")'
      BY <3>1, <1>1 DEF Appending, At
    <3> QED BY <3>2
  <2>2. Serves(index, k)
    BY <2>1, <1>2 DEF IndexServes
  <2> QED BY <2>2 DEF Serves, IsLast, Positions
<1>10. DiskServes'
  BY <1>2 DEF DiskServes, Serves, IsLast, Positions
<1> QED BY <1>3, <1>4, <1>7, <1>8, <1>9, <1>10

(* Neither store failing makes an index wrong.                             *)
LEMMA StorageFailsIInv ==
  ASSUME IInv, NEW w \in Writers, StorageFails(w)
  PROVE  IInv'
<1>1. job[w] # NoJob /\ ~At(w, "index")
  BY DEF StorageFails, At
<1> QED BY <1>1, LeavesIInv DEF StorageFails

LEMMA InsertKeyFailsIInv ==
  ASSUME IInv, NEW w \in Writers, InsertKeyFails(w)
  PROVE  IInv'
<1>1. job[w] # NoJob
  BY DEF InsertKeyFails, At
<1> QED BY <1>1, LeavesIInv DEF InsertKeyFails

-----------------------------------------------------------------------------
(* The key goes to the index: if the writer is alone, its record is the    *)
(* last one; if it is not, the key is stale and stays so.                  *)
LEMMA InsertKeyIInv ==
  ASSUME IInv, NEW w \in Writers, InsertKey(w)
  PROVE  IInv'
<1> USE DEF IInv
<1> DEFINE key == job[w].record.key
<1>1. /\ At(w, "index") /\ job[w] # NoJob
      /\ index' = [x \in DOMAIN index \cup {key} |->
                     IF x = key THEN job[w].seqno ELSE index[x]]
      /\ stale' = IF job[w].alone THEN stale \ {key} ELSE stale
      /\ UNCHANGED <<log, disk, config, walk>>
  BY DEF InsertKey, Position, At
<1>2. /\ key \in Keys /\ job[w].seqno \in Nat
      /\ job[w].seqno < Len(log) /\ log[job[w].seqno + 1].key = key
  BY <1>1, JobFacts DEF JobsKnowTheirRecord
<1>3. /\ job' \in [Writers -> Job \cup {NoJob}]
      /\ job'[w] = NoJob
      /\ \A v \in Writers : v # w => job'[v] = job[v]
  BY DEF TypeOK, InsertKey
<1>4. \A v \in Writers : job'[v] # NoJob => v # w /\ job'[v] = job[v]
  BY <1>3
<1>5. /\ index' \in Index
      /\ DOMAIN index' = DOMAIN index \cup {key}
      /\ index'[key] = job[w].seqno
      /\ \A k \in DOMAIN index : k # key => index'[k] = index[k]
  <2>1. /\ DOMAIN index \subseteq Keys
        /\ \A k \in DOMAIN index : index[k] \in 0..MaxLog - 1
    BY IndexFacts DEF TypeOK
  <2>2. job[w].seqno \in 0..MaxLog - 1
    BY <1>2, IndexedLogMapAssumption DEF TypeOK
  <2>3. index' \in [DOMAIN index \cup {key} -> 0..MaxLog - 1]
    BY <1>1, <2>1, <2>2
  <2>4. DOMAIN index \cup {key} \in SUBSET Keys
    BY <1>2, <2>1
  <2> QED BY <1>1, <2>3, <2>4 DEF Index
<1>6. stale' \subseteq stale /\ stale \subseteq stale' \cup {key}
  BY <1>1
<1>7. TypeOK'
  BY <1>1, <1>3, <1>5, <1>6 DEF TypeOK
<1>8. NamesItsOwn(index)' /\ NamesItsOwn(disk)'
  BY <1>1, <1>2, <1>5 DEF NamesItsOwn
<1>9. config.use_key_indexing
  BY <1>1 DEF JobsAreIndexed
<1>10. JobsAreIndexed' /\ DiskServes'
  BY <1>1, <1>9 DEF JobsAreIndexed, DiskServes
<1>11. JobsKnowTheirRecord'
  BY <1>1, <1>4 DEF JobsKnowTheirRecord, At
<1>12. job[w].alone => Only(w) /\ IsNewest(w)
  BY <1>1 DEF AloneIsAlone
<1>13. AloneIsAlone'
  <2> SUFFICES ASSUME NEW v \in Writers, job'[v] # NoJob
               PROVE  IF job'[v].alone
                      THEN Only(v)' /\ (At(v, "index")' => IsNewest(v)')
                      ELSE job'[v].record.key \in stale'
    BY DEF AloneIsAlone
  <2>1. IF job[v].alone
        THEN Only(v) /\ (At(v, "index") => IsNewest(v))
        ELSE job[v].record.key \in stale
    BY <1>4 DEF AloneIsAlone
  <2>2. Only(v) => Only(v)'
    BY <1>4 DEF Only
  <2>3. IsNewest(v) => IsNewest(v)'
    BY <1>1, <1>4 DEF IsNewest, IsLast, Positions
  <2>4. At(v, "index")' => At(v, "index")
    BY <1>4 DEF At
  <2>5. job[v].record.key \in stale => job[v].record.key \in stale'
    BY <1>1, <1>4, <1>12 DEF Only
  <2> QED BY <2>1, <2>2, <2>3, <2>4, <2>5, <1>4
<1>14. IndexServes'
  <2> SUFFICES ASSUME NEW k \in Keys \ stale',
                      \A v \in Appending(k)' : ~At(v, "index")'
               PROVE  Serves(index, k)'
    BY DEF IndexServes
  <2>1. CASE k = key
    <3>1. job[w].alone
      <4>1. ~job[w].alone => key \in stale /\ stale' = stale
        BY <1>1 DEF AloneIsAlone
      <4> QED BY <2>1, <4>1
    <3>2. IsLast(key, job[w].seqno)
      BY <3>1, <1>12 DEF IsNewest
    <3>3. \A n : IsLast(k, n) => IsLast(k, n)'
      BY <1>1 DEF IsLast, Positions
    <3> QED BY <2>1, <3>2, <3>3, <1>5 DEF Serves
  <2>2. CASE k # key
    <3>1. \A v \in Appending(k) : ~At(v, "index")
      <4> SUFFICES ASSUME NEW v \in Appending(k), At(v, "index") PROVE FALSE
        OBVIOUS
      <4>1. v # w
        BY <2>2 DEF Appending
      <4>2. v \in Appending(k)' /\ At(v, "index")'
        BY <4>1, <1>3 DEF Appending, At
      <4> QED BY <4>2
    <3>2. Serves(index, k)
      BY <2>2, <3>1, <1>6, <1>9 DEF IndexServes
    <3> QED BY <2>2, <3>2, <1>1, <1>5 DEF Serves, IsLast, Positions
  <2> QED BY <2>1, <2>2
<1> QED BY <1>7, <1>8, <1>10, <1>11, <1>13, <1>14

-----------------------------------------------------------------------------
(* A walk changes nothing, and stays within the log.                       *)
LEMMA GetNextIInv ==
  ASSUME IInv, GetNext
  PROVE  IInv'
<1> USE DEF IInv
<1>1. UNCHANGED <<log, index, disk, config, job, stale>>
  BY DEF GetNext
<1>2. walk' \in 0..MaxLog
  <2>1. PICK s : RecordAt(s) # {} /\ walk' = s + 1
                   /\ \E from : s \in NextOf(from)
    BY DEF GetNext
  <2>2. s \in Nat
    BY <2>1, IndexFacts DEF NextOf, TypeOK
  <2>3. s < Len(log)
    BY <2>1 DEF RecordAt
  <2> QED BY <2>1, <2>2, <2>3, IndexedLogMapAssumption DEF TypeOK
<1>3. TypeOK'
  BY <1>1, <1>2 DEF TypeOK
<1>4. NamesItsOwn(index)' /\ NamesItsOwn(disk)' /\ JobsAreIndexed'
  BY <1>1 DEF NamesItsOwn, JobsAreIndexed
<1>5. JobsKnowTheirRecord' /\ AloneIsAlone'
  BY <1>1 DEF JobsKnowTheirRecord, AloneIsAlone, At, Only, IsNewest, IsLast, Positions
<1>6. IndexServes' /\ DiskServes'
  BY <1>1 DEF IndexServes, DiskServes, Serves, IsLast, Positions, Appending, At
<1> QED BY <1>3, <1>4, <1>5, <1>6

(* What sled writes to its file is the index.                              *)
LEMMA FlushIInv ==
  ASSUME IInv, Flush
  PROVE  IInv'
<1> USE DEF IInv
<1>1. /\ disk' = index /\ config.use_key_indexing
      /\ UNCHANGED <<log, index, config, job, walk, stale>>
  BY DEF Flush
<1>2. TypeOK'
  BY <1>1 DEF TypeOK
<1>3. NamesItsOwn(index)' /\ NamesItsOwn(disk)' /\ JobsAreIndexed'
  BY <1>1 DEF NamesItsOwn, JobsAreIndexed
<1>4. JobsKnowTheirRecord' /\ AloneIsAlone'
  BY <1>1 DEF JobsKnowTheirRecord, AloneIsAlone, At, Only, IsNewest, IsLast, Positions
<1>5. IndexServes' /\ DiskServes'
  BY <1>1 DEF IndexServes, DiskServes, Serves, IsLast, Positions, Appending, At
<1> QED BY <1>2, <1>3, <1>4, <1>5

(* A map that is closed in good order has all of its index on the disk, if *)
(* there is one; what was in memory is forgotten, with its log.            *)
LEMMA CloseIInv ==
  ASSUME IInv, Close
  PROVE  IInv'
<1> USE DEF IInv
<1>1. /\ \A w \in Writers : job[w] = NoJob
      /\ config' = Closed(Persistent) /\ index' = NoKeys /\ walk' = 0
      /\ UNCHANGED job
  BY DEF Close
<1>2. CASE ~Persistent
  <2>1. disk' = NoKeys /\ log' = << >> /\ stale' = {}
    BY <1>2 DEF Close
  <2>2. TypeOK'
    <3>1. log' \in Seq(Record) /\ Len(log') <= MaxLog /\ walk' \in 0..MaxLog
      BY <1>1, <2>1, IndexedLogMapAssumption
    <3>2. Persistent \in BOOLEAN
      <4>1. \A c \in Configs : c.storage_path \in BOOLEAN
        BY DEF Configs
      <4>2. Closed(TRUE).storage_path = TRUE /\ Closed(FALSE).storage_path = FALSE
        BY DEF Closed
      <4>3. config \in {Closed(TRUE), Closed(FALSE)} => config.storage_path \in {TRUE, FALSE}
        BY <4>2
      <4> QED BY <4>1, <4>3 DEF TypeOK, Persistent
    <3>3. config' \in {Closed(TRUE), Closed(FALSE)}
      BY <1>1, <1>2, <3>2
    <3> QED BY <1>1, <2>1, <3>1, <3>3, NoKeysIsIndex DEF TypeOK
  <2>3. NamesItsOwn(index)' /\ NamesItsOwn(disk)'
    BY <1>1, <2>1, NoKeysIsIndex DEF NamesItsOwn
  <2>4. JobsAreIndexed' /\ JobsKnowTheirRecord' /\ AloneIsAlone'
    BY <1>1 DEF JobsAreIndexed, JobsKnowTheirRecord, AloneIsAlone, At
  <2>5. IndexServes' /\ DiskServes'
    BY <1>1, <2>1, NoKeysIsIndex DEF IndexServes, DiskServes, Serves, Positions, Closed
  <2> QED BY <2>2, <2>3, <2>4, <2>5
<1>3. CASE Persistent
  <2>1. /\ disk' = IF config.use_key_indexing THEN index ELSE disk
        /\ UNCHANGED <<log, stale>>
    BY <1>3 DEF Close
  <2>2. TypeOK'
    BY <1>1, <2>1, <1>3, NoKeysIsIndex, IndexedLogMapAssumption DEF TypeOK
  <2>3. NamesItsOwn(index)' /\ NamesItsOwn(disk)'
    BY <1>1, <2>1, NoKeysIsIndex DEF NamesItsOwn
  <2>4. JobsAreIndexed' /\ JobsKnowTheirRecord' /\ AloneIsAlone'
    BY <1>1 DEF JobsAreIndexed, JobsKnowTheirRecord, AloneIsAlone, At
  <2>5. \A k \in Keys \ stale :
          Serves(IF config.use_key_indexing THEN index ELSE disk, k)
    BY <1>1 DEF IndexServes, DiskServes, Appending
  <2>6. IndexServes' /\ DiskServes'
    BY <1>1, <2>1, <2>5 DEF IndexServes, DiskServes, Serves, IsLast, Positions, Closed
  <2> QED BY <2>2, <2>3, <2>4, <2>6
<1> QED BY <1>2, <1>3

(* After a crash the disk is behind for the keys that were lost only.      *)
LEMMA CrashIInv ==
  ASSUME IInv, Crash
  PROVE  IInv'
<1> USE DEF IInv
<1>1. /\ Persistent /\ config' = Closed(Persistent)
      /\ index' = NoKeys /\ walk' = 0
      /\ job' = [w \in Writers |-> NoJob]
      /\ stale' = stale \cup (IF config.use_key_indexing THEN LostKeys ELSE {})
      /\ UNCHANGED <<log, disk>>
  BY DEF Crash
<1>2. stale \subseteq stale' /\ stale' \subseteq Keys
  BY <1>1 DEF TypeOK, LostKeys
<1>3. TypeOK'
  BY <1>1, <1>2, NoKeysIsIndex, IndexedLogMapAssumption DEF TypeOK
<1>4. NamesItsOwn(index)' /\ NamesItsOwn(disk)'
  BY <1>1, NoKeysIsIndex DEF NamesItsOwn
<1>5. JobsAreIndexed' /\ JobsKnowTheirRecord' /\ AloneIsAlone'
  BY <1>1 DEF JobsAreIndexed, JobsKnowTheirRecord, AloneIsAlone, At
<1>6. \A k \in Keys \ stale' : Serves(disk, k)
  <2> SUFFICES ASSUME NEW k \in Keys \ stale' PROVE Serves(disk, k)
    OBVIOUS
  <2>1. CASE ~config.use_key_indexing
    BY <2>1, <1>2 DEF DiskServes
  <2>2. CASE config.use_key_indexing
    <3>1. k \notin LostKeys
      BY <2>2, <1>1
    <3>2. \A w \in Appending(k) : ~At(w, "index")
      BY <3>1 DEF LostKeys
    <3>3. Serves(index, k)
      BY <2>2, <3>2, <1>2 DEF IndexServes
    <3>4. k \in DOMAIN index => k \in DOMAIN disk /\ disk[k] = index[k]
      BY <3>1 DEF LostKeys
    <3>5. k \in DOMAIN disk => disk[k] + 1 \in Positions(k)
      BY IndexFacts DEF NamesItsOwn, Positions, TypeOK
    <3> QED BY <3>3, <3>4, <3>5 DEF Serves
  <2> QED BY <2>1, <2>2
<1>7. IndexServes' /\ DiskServes'
  BY <1>1, <1>6 DEF IndexServes, DiskServes, Serves, IsLast, Positions, Closed
<1> QED BY <1>3, <1>4, <1>5, <1>7

-----------------------------------------------------------------------------
(* IInv is an inductive invariant.                                         *)
LEMMA NextIInv == IInv /\ [Next]_vars => IInv'
<1> SUFFICES ASSUME IInv, [Next]_vars PROVE IInv'
  OBVIOUS
<1>1. ASSUME NEW c \in Configs, New(c) PROVE IInv'
  BY <1>1, NewIInv
<1>2. ASSUME NEW w \in Writers, NEW r \in Record, Begin(w, r) PROVE IInv'
  BY <1>2, BeginIInv
<1>3. ASSUME NEW w \in Writers, AppendToStorage(w) PROVE IInv'
  BY <1>3, AppendToStorageIInv
<1>4. ASSUME NEW w \in Writers, StorageFails(w) PROVE IInv'
  BY <1>4, StorageFailsIInv
<1>5. ASSUME NEW w \in Writers, InsertKey(w) PROVE IInv'
  BY <1>5, InsertKeyIInv
<1>6. ASSUME NEW w \in Writers, InsertKeyFails(w) PROVE IInv'
  BY <1>6, InsertKeyFailsIInv
<1>7. CASE GetNext
  BY <1>7, GetNextIInv
<1>8. CASE Flush
  BY <1>8, FlushIInv
<1>9. CASE Close
  BY <1>9, CloseIInv
<1>10. CASE Crash
  BY <1>10, CrashIInv
<1>11. CASE UNCHANGED vars
  <2>1. TypeOK' /\ NamesItsOwn(index)' /\ NamesItsOwn(disk)' /\ JobsAreIndexed'
    BY <1>11 DEF vars, IInv, TypeOK, NamesItsOwn, JobsAreIndexed
  <2>2. JobsKnowTheirRecord' /\ AloneIsAlone'
    BY <1>11 DEF vars, IInv, JobsKnowTheirRecord, AloneIsAlone, At, Only,
       IsNewest, IsLast, Positions
  <2>3. IndexServes' /\ DiskServes'
    BY <1>11 DEF vars, IInv, IndexServes, DiskServes, Serves, IsLast, Positions,
       Appending, At
  <2> QED BY <2>1, <2>2, <2>3 DEF IInv
<1> QED
  BY <1>1, <1>2, <1>3, <1>4, <1>5, <1>6, <1>7, <1>8, <1>9, <1>10, <1>11 DEF Next

THEOREM MapInvariance == Spec => []IInv
<1> QED BY InitIInv, NextIInv, PTL DEF Spec

(* No index, in memory or on the disk, leads outside the log or to the     *)
(* value of another key, whatever is interrupted, fails or races.          *)
THEOREM NoWrongKey == Spec => []KeyNamesItsOwnValue
<1>1. IInv => KeyNamesItsOwnValue
  BY DEF IInv, NamesItsOwn, KeyNamesItsOwnValue
<1> QED BY <1>1, MapInvariance, PTL

(* A key that was appended by one thread at a time leads to the value that *)
(* was appended last, through crashes, errors and reopenings that did not  *)
(* touch that key, or before which it was appended once more.              *)
THEOREM LastValueIsServed == Spec => []LastAppendIsServed
<1>1. IInv => LastAppendIsServed
  <2> SUFFICES ASSUME IInv, config.use_key_indexing, NEW k \in Keys \ stale,
                      Appending(k) = {}
               PROVE  Get(k) = {log[i].value : i \in
                        {j \in Positions(k) : \A p \in Positions(k) : p <= j}}
    BY DEF LastAppendIsServed
  <2>1. Serves(index, k)
    BY DEF IInv, IndexServes
  <2>2. CASE k \notin DOMAIN index
    BY <2>1, <2>2 DEF Serves, Get
  <2>3. CASE k \in DOMAIN index
    <3>1. IsLast(k, index[k]) /\ index[k] \in Nat
      BY <2>1, <2>3, IndexFacts DEF Serves, IInv, TypeOK
    <3>2. Positions(k) \subseteq 1..Len(log)
      BY DEF Positions
    <3>3. {j \in Positions(k) : \A p \in Positions(k) : p <= j} = {index[k] + 1}
      BY <3>1, <3>2 DEF IsLast
    <3>4. RecordAt(index[k]) = {log[index[k] + 1]}
      BY <2>3 DEF IInv, NamesItsOwn, RecordAt
    <3> QED BY <2>3, <3>3, <3>4 DEF Get
  <2> QED BY <2>2, <2>3
<1> QED BY <1>1, MapInvariance, PTL

(* get_next goes from the first record on, each time behind a record of    *)
(* the key it is given, and behind the last one of a key that is not being *)
(* appended and was not raced, lost or in error.                           *)
THEOREM NoRecordIsSkipped == Spec => NextIsTheFollowingRecord
<1> DEFINE Key     == log[walk].key
           Behind  == /\ walk' - 1 \in Positions(Key)
                      /\ Key \notin stale /\ Appending(Key) = {} =>
                           \A p \in Positions(Key) : p < walk'
           Follows == walk' \notin {0, walk} => IF walk = 0 THEN walk' = 1 ELSE Behind
<1>1. IInv /\ [Next]_vars => [Follows]_vars
  <2> SUFFICES ASSUME IInv, Next, walk' \notin {0, walk}
               PROVE  IF walk = 0 THEN walk' = 1 ELSE Behind
    OBVIOUS
  <2>1. GetNext
    BY DEF Next, New, Begin, AppendToStorage, StorageFails, InsertKey,
       InsertKeyFails, Flush, Close, Crash
  <2>2. CASE walk = 0
    BY <2>1, <2>2 DEF GetNext, NextOf
  <2>3. CASE walk # 0
    <3>1. PICK s \in NextOf({Key}) : walk' = s + 1
      BY <2>1, <2>3 DEF GetNext
    <3>2. Key \in DOMAIN index /\ s = index[Key] + 1 /\ index[Key] \in Nat
      <4>1. Key \in DOMAIN index /\ s = index[Key] + 1
        BY <3>1 DEF NextOf
      <4> QED BY <4>1, IndexFacts, IndexedLogMapAssumption DEF IInv, TypeOK
    <3>3. walk' - 1 = index[Key] + 1 /\ walk' - 1 \in Positions(Key)
      BY <3>1, <3>2, IndexFacts DEF IInv, TypeOK, NamesItsOwn, Positions
    <3>4. ASSUME Key \notin stale, Appending(Key) = {}, NEW p \in Positions(Key)
          PROVE  p < walk'
      <4>1. GetNext => config.use_key_indexing
        BY <2>3 DEF GetNext
      <4>2. Key \in Keys
        BY <3>2, IndexFacts DEF IInv, TypeOK
      <4>3. Serves(index, Key)
        BY <2>1, <3>4, <4>1, <4>2 DEF IInv, IndexServes
      <4>4. p \in Nat /\ p <= index[Key] + 1
        BY <3>2, <4>3 DEF Serves, IsLast, Positions
      <4> QED BY <3>1, <3>2, <4>4
    <3> QED BY <2>3, <3>3, <3>4
  <2> QED BY <2>2, <2>3
<1> QED BY <1>1, MapInvariance, PTL DEF Spec, NextIsTheFollowingRecord
=============================================================================
