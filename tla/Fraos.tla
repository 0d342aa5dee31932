------------------------------- MODULE Fraos -------------------------------
(***************************************************************************)
(* The fraos database: a data file with the records back to back and a     *)
(* seqno file with one (offset, length) pair per record.  Writers are      *)
(* serialised by write_lock; readers take no lock but the RwLock of each   *)
(* file, so they run between any two steps of a writer.  The process may   *)
(* die at any point, and opening the database again must find the end of   *)
(* the seqno file, which is longer than what was written to it.            *)
(*                                                                         *)
(* Left out: the wording of errors, and a set_len that fails while the     *)
(* database is dropped (the code ignores it; the files are then what a     *)
(* crash at that point leaves).                                            *)
(***************************************************************************)
EXTENDS MmapStore, Sequences

CONSTANTS
  Records,    \* what may be appended
  RecLen,     \* number of bytes of each record
  Batches,    \* the arguments clients give to append_get_seqno
  Writers,    \* threads in append_get_seqno
  Readers,    \* threads in get_by_seqno, last or a SeqNoIter
  NoWriter,   \* write_lock is free
  NoByte,     \* a byte of the file nobody wrote
  DataCap,    \* the largest length set_len can give to the data file
  IndexCap,   \* the largest number of pairs the seqno file can hold
  DataMin,    \* MIN_MMAP_BYTES, in bytes
  IndexMin    \* MIN_MMAP_BYTES, in pairs

ASSUME FraosAssumption ==
  /\ RecLen \in [Records -> Nat]
  /\ Batches \subseteq Seq(Records) \ {<< >>}
  /\ NoWriter \notin Writers
  /\ DataCap \in Nat /\ IndexCap \in Nat
  /\ DataMin \in Nat \ {0} /\ IndexMin \in Nat \ {0}

VARIABLES
  data,    \* FlatFile
  index,   \* SeqNoIndex
  db,      \* progress of Database::new and of the drop of the last handle
  search,  \* start and end of find_actual_end
  lock,    \* the owner of write_lock
  pc, job, \* per writer: where it is and its locals
  rd,      \* per reader: the pair it got from the index, not yet followed
  log,     \* history: the records whose pair is complete in the seqno file
  acked    \* history: the <<seqno, record>> promised to clients

vars == <<data, index, db, search, lock, pc, job, rd, log, acked>>

-----------------------------------------------------------------------------
Byte == (Records \X Nat) \cup {NoByte}
Pair == [offset : Nat, length : Nat]
NoPair == [offset |-> 0, length |-> 0]

DataAddress == 0..DataCap - 1
IndexAddress == 0..IndexCap - 1

Job == [batch : Seq(Records), plan : Seq(Pair), next : Nat,
        k : Nat, at : Nat, seqno : Nat]

NoJob == [batch |-> << >>, plan |-> << >>, next |-> 0,
          k |-> 1, at |-> 0, seqno |-> 0]

NoRead == [busy |-> FALSE, seqno |-> 0, pair |-> NoPair]

(* the RwLock of GrowableMmap is held for writing *)
DataBusy == \E w \in Writers : pc[w] = "data"
IndexBusy == \E w \in Writers : pc[w] \in {"offset", "length"}

Init ==
  /\ data = EmptyStore(DataAddress, NoByte)
  /\ index = EmptyStore(IndexAddress, NoPair)
  /\ db = "closed"
  /\ search = [start |-> 0, end |-> 0]
  /\ lock = NoWriter
  /\ pc = [w \in Writers |-> "idle"]
  /\ job = [w \in Writers |-> NoJob]
  /\ rd = [r \in Readers |-> NoRead]
  /\ log = << >>
  /\ acked = {}

-----------------------------------------------------------------------------
(* Opening: SeqNoIndex::new, find_actual_end, then the data file.          *)

LengthAt(i) == index.cell[i].length

(* mutant: the file is trusted to have been shrunk *)
TrustsLength == FALSE

(* the storage was not shrunk: there is a zero pair at the end of the file *)
HasZeroTail == index.len > 0 /\ LengthAt(index.len - 1) = 0

OpenIndex ==
  /\ db = "closed"
  /\ IF HasZeroTail
     THEN IF LengthAt(0) = 0
          THEN /\ index' = Attach(index, 0)
               /\ db' = "data"
               /\ UNCHANGED search
          ELSE /\ index' = Attach(index, index.len)
               /\ db' = "search"
               /\ search' = [start |-> 0, end |-> index.len]
     ELSE /\ index' = Attach(index, index.len)
          /\ db' = "data"
          /\ UNCHANGED search
  /\ UNCHANGED <<data, lock, pc, job, rd, log, acked>>

(* mutants: the loop stops one pair early; the end is never looked for      *)
(* behind start                                                             *)
SearchesLess == search.start < index.size - 2
NeverFound == FALSE

MoreToSearch == search.start < index.size - 1
FoundEnd == LengthAt(search.start + 1) = 0
ActualEnd == search.start + 1

(* one turn of the while loop of find_actual_end *)
FindActualEnd ==
  LET mid == (search.start + search.end) \div 2 IN
  /\ db = "search"
  /\ IF ~MoreToSearch
     THEN db' = "damaged" /\ UNCHANGED <<index, search>>
     ELSE IF FoundEnd
     THEN /\ index' = Attach(index, ActualEnd)
          /\ db' = "data"
          /\ search' = [start |-> 0, end |-> 0]
     ELSE /\ search' = IF LengthAt(mid) = 0
                       THEN [search EXCEPT !.end = mid]
                       ELSE [search EXCEPT !.start = mid]
          /\ UNCHANGED <<index, db>>
  /\ UNCHANGED <<data, lock, pc, job, rd, log, acked>>

ExistingLength ==
  IF index.size = 0
  THEN 0
  ELSE index.cell[index.size - 1].offset + index.cell[index.size - 1].length

OpenData ==
  /\ db = "data"
  /\ IF ExistingLength > data.len
     THEN db' = "damaged" /\ UNCHANGED data
     ELSE db' = "open" /\ data' = Attach(data, ExistingLength)
  /\ UNCHANGED <<index, search, lock, pc, job, rd, log, acked>>

-----------------------------------------------------------------------------
(* Database::append_get_seqno *)

(* mutants: append does not take write_lock; the offset of the first record *)
(* is that of the last byte                                                 *)
AppendUnlocked(w, batch) ==
  /\ db = "open"
  /\ pc[w] = "idle"
  /\ lock' = w
  /\ pc' = [pc EXCEPT ![w] = "plan"]
  /\ job' = [job EXCEPT ![w] = [NoJob EXCEPT !.batch = batch,
                                             !.next = data.size]]
  /\ UNCHANGED <<data, index, db, search, rd, log, acked>>

AcquireAtLastByte(w, batch) ==
  /\ db = "open"
  /\ lock = NoWriter
  /\ lock' = w
  /\ pc' = [pc EXCEPT ![w] = "plan"]
  /\ job' = [job EXCEPT ![w] = [NoJob EXCEPT !.batch = batch,
                                             !.next = data.size - 1]]
  /\ UNCHANGED <<data, index, db, search, rd, log, acked>>

AcquireLock(w, batch) ==
  /\ db = "open"
  /\ lock = NoWriter
  /\ lock' = w
  /\ pc' = [pc EXCEPT ![w] = "plan"]
  /\ job' = [job EXCEPT ![w] = [NoJob EXCEPT !.batch = batch,
                                             !.next = data.size]]
  /\ UNCHANGED <<data, index, db, search, rd, log, acked>>

Release(w) ==
  /\ lock' = NoWriter
  /\ pc' = [pc EXCEPT ![w] = "idle"]
  /\ job' = [job EXCEPT ![w] = NoJob]

(* seqno_index_update.push((offset, record.len())) *)
PlanRecord(w) ==
  LET j == job[w]
      n == RecLen[j.batch[Len(j.plan) + 1]]
  IN
  /\ pc[w] = "plan"
  /\ Len(j.plan) < Len(j.batch)
  /\ job' = [job EXCEPT
               ![w].plan = Append(@, [offset |-> j.next, length |-> n]),
               ![w].next = j.next + n]
  /\ UNCHANGED <<data, index, db, search, lock, pc, rd, log, acked>>

Planned(w) == pc[w] = "plan" /\ Len(job[w].plan) = Len(job[w].batch)

HasEmptyRecord(w) == \E i \in 1..Len(job[w].plan) : job[w].plan[i].length = 0

(* EmptyRecordAppended *)
RejectEmpty(w) ==
  /\ Planned(w)
  /\ HasEmptyRecord(w)
  /\ Release(w)
  /\ UNCHANGED <<data, index, db, search, rd, log, acked>>

DataInc(w) == job[w].next - data.size

FitsData(w) ==
  HasRoom(data, DataInc(w)) \/ data.end + NewMmapSize(DataInc(w), DataMin) <= DataCap

GrowData(w) ==
  /\ Planned(w)
  /\ ~HasEmptyRecord(w)
  /\ FitsData(w)
  /\ data' = Grow(data, DataInc(w), DataMin, NoByte)
  /\ pc' = [pc EXCEPT ![w] = "data"]
  /\ job' = [job EXCEPT ![w].at = data.end]
  /\ UNCHANGED <<index, db, search, lock, rd, log, acked>>

(* create_mmap fails, in set_len or in the mmap that follows it *)
DataMapFails(w) ==
  /\ Planned(w)
  /\ ~HasEmptyRecord(w)
  /\ ~HasRoom(data, DataInc(w))
  /\ \/ UNCHANGED data
     \/ /\ Persistent /\ FitsData(w)
        /\ data' = Extend(data, DataInc(w), DataMin, NoByte)
  /\ Release(w)
  /\ UNCHANGED <<index, db, search, rd, log, acked>>

(* mmap.write_all(record) *)
WriteRecord(w) ==
  LET j == job[w]
      r == j.batch[j.k]
  IN
  /\ pc[w] = "data"
  /\ j.k <= Len(j.batch)
  /\ data' = [data EXCEPT !.cell =
                [a \in DataAddress |->
                   IF j.at <= a /\ a < j.at + RecLen[r]
                   THEN <<r, a - j.at>>
                   ELSE data.cell[a]]]
  /\ job' = [job EXCEPT ![w].k = j.k + 1, ![w].at = j.at + RecLen[r]]
  /\ UNCHANGED <<index, db, search, lock, pc, rd, log, acked>>

(* mutant: the actual size is not stored *)
FinishKeepsSize(w) ==
  /\ pc[w] = "data"
  /\ job[w].k > Len(job[w].batch)
  /\ data' = RearrangeMmaps(data)
  /\ pc' = [pc EXCEPT ![w] = "index"]
  /\ UNCHANGED <<index, db, search, lock, job, rd, log, acked>>

(* flush, release of the data file, store of its actual size *)
FinishData(w) ==
  /\ pc[w] = "data"
  /\ job[w].k > Len(job[w].batch)
  /\ data' = [RearrangeMmaps(data) EXCEPT !.size = job[w].next]
  /\ pc' = [pc EXCEPT ![w] = "index"]
  /\ UNCHANGED <<index, db, search, lock, job, rd, log, acked>>

IndexInc(w) == Len(job[w].batch)

FitsIndex(w) ==
  HasRoom(index, IndexInc(w))
    \/ index.end + NewMmapSize(IndexInc(w), IndexMin) <= IndexCap

(* mutant: the size of the index is stored before its pairs are written *)
GrowAndPublish(w) ==
  /\ pc[w] = "index"
  /\ FitsIndex(w)
  /\ index' = [Grow(index, IndexInc(w), IndexMin, NoPair) EXCEPT
                 !.size = index.end + IndexInc(w)]
  /\ pc' = [pc EXCEPT ![w] = "offset"]
  /\ job' = [job EXCEPT ![w].k = 1, ![w].at = index.end,
                        ![w].seqno = index.size]
  /\ UNCHANGED <<data, db, search, lock, rd, log, acked>>

GrowIndex(w) ==
  /\ pc[w] = "index"
  /\ FitsIndex(w)
  /\ index' = Grow(index, IndexInc(w), IndexMin, NoPair)
  /\ pc' = [pc EXCEPT ![w] = "offset"]
  /\ job' = [job EXCEPT ![w].k = 1, ![w].at = index.end,
                        ![w].seqno = index.size]
  /\ UNCHANGED <<data, db, search, lock, rd, log, acked>>

(* mutant: the error returns without the lock being released *)
IndexMapFailsLocked(w) ==
  /\ pc[w] = "index"
  /\ ~HasRoom(index, IndexInc(w))
  /\ pc' = [pc EXCEPT ![w] = "idle"]
  /\ job' = [job EXCEPT ![w] = NoJob]
  /\ UNCHANGED <<data, index, db, search, lock, rd, log, acked>>

IndexMapFails(w) ==
  /\ pc[w] = "index"
  /\ ~HasRoom(index, IndexInc(w))
  /\ \/ UNCHANGED index
     \/ /\ Persistent /\ FitsIndex(w)
        /\ index' = Extend(index, IndexInc(w), IndexMin, NoPair)
  /\ Release(w)
  /\ UNCHANGED <<data, db, search, rd, log, acked>>

(* mutant: the length is written first *)
WriteLengthFirst(w) ==
  LET j == job[w] IN
  /\ pc[w] = "offset"
  /\ j.k <= Len(j.batch)
  /\ index' = [index EXCEPT !.cell[j.at].length = j.plan[j.k].length]
  /\ pc' = [pc EXCEPT ![w] = "length"]
  /\ UNCHANGED <<data, db, search, lock, job, rd, log, acked>>

WriteOffset(w) ==
  LET j == job[w] IN
  /\ pc[w] = "offset"
  /\ j.k <= Len(j.batch)
  /\ index' = [index EXCEPT !.cell[j.at].offset = j.plan[j.k].offset]
  /\ pc' = [pc EXCEPT ![w] = "length"]
  /\ UNCHANGED <<data, db, search, lock, job, rd, log, acked>>

(* from here on the record is found by whoever opens the files *)
WriteLength(w) ==
  LET j == job[w] IN
  /\ pc[w] = "length"
  /\ index' = [index EXCEPT !.cell[j.at].length = j.plan[j.k].length]
  /\ log' = Append(log, j.batch[j.k])
  /\ job' = [job EXCEPT ![w].k = j.k + 1, ![w].at = j.at + 1]
  /\ pc' = [pc EXCEPT ![w] = "offset"]
  /\ UNCHANGED <<data, db, search, lock, rd, acked>>

(* flush and release of the seqno file: readers may see the new records *)
FinishIndex(w) ==
  /\ pc[w] = "offset"
  /\ job[w].k > Len(job[w].batch)
  /\ index' = RearrangeMmaps(index)
  /\ pc' = [pc EXCEPT ![w] = "publish"]
  /\ UNCHANGED <<data, db, search, lock, job, rd, log, acked>>

(* store of the actual size of the index; Ok(Some(current_seqno)) *)
Publish(w) ==
  LET j == job[w] IN
  /\ pc[w] = "publish"
  /\ index' = [index EXCEPT !.size = index.size + IndexInc(w)]
  /\ acked' = acked \cup {<<j.seqno + i - 1, j.batch[i]>> : i \in 1..Len(j.batch)}
  /\ Release(w)
  /\ UNCHANGED <<data, db, search, rd, log>>

-----------------------------------------------------------------------------
(* Database::get_by_seqno, last and SeqNoIter::next: two separate reads.   *)

(* mutant: the index is read without its RwLock *)
SeekUnlocked(r, seqno) ==
  /\ db = "open"
  /\ ~rd[r].busy
  /\ Mapped(index, seqno)
  /\ rd' = [rd EXCEPT ![r] = [busy |-> TRUE, seqno |-> seqno,
                              pair |-> index.cell[seqno]]]
  /\ UNCHANGED <<data, index, db, search, lock, pc, job, log, acked>>

Seek(r, seqno) ==
  /\ db = "open"
  /\ ~rd[r].busy
  /\ ~IndexBusy
  /\ Mapped(index, seqno)
  /\ rd' = [rd EXCEPT ![r] = [busy |-> TRUE, seqno |-> seqno,
                              pair |-> index.cell[seqno]]]
  /\ UNCHANGED <<data, index, db, search, lock, pc, job, log, acked>>

Fetch(r) ==
  /\ rd[r].busy
  /\ ~DataBusy
  /\ rd' = [rd EXCEPT ![r] = NoRead]
  /\ UNCHANGED <<data, index, db, search, lock, pc, job, log, acked>>

-----------------------------------------------------------------------------
(* The last handle is dropped: impl Drop for Database.  *)

DropIndex ==
  /\ Persistent
  /\ db = "open"
  /\ \A w \in Writers : pc[w] = "idle"
  /\ \A r \in Readers : ~rd[r].busy
  /\ index' = Detach(ShrinkToSize(index, NoPair))
  /\ db' = "dropping"
  /\ UNCHANGED <<data, search, lock, pc, job, rd, log, acked>>

DropData ==
  /\ db = "dropping"
  /\ data' = Detach(ShrinkToSize(data, NoByte))
  /\ db' = "closed"
  /\ UNCHANGED <<index, search, lock, pc, job, rd, log, acked>>

(* the process dies *)
Crash ==
  /\ Persistent
  /\ db # "closed"
  /\ data' = Detach(data)
  /\ index' = Detach(index)
  /\ db' = "closed"
  /\ search' = [start |-> 0, end |-> 0]
  /\ lock' = NoWriter
  /\ pc' = [w \in Writers |-> "idle"]
  /\ job' = [w \in Writers |-> NoJob]
  /\ rd' = [r \in Readers |-> NoRead]
  /\ UNCHANGED <<log, acked>>

-----------------------------------------------------------------------------
WriterStep(w) ==
  \/ PlanRecord(w) \/ RejectEmpty(w)
  \/ GrowData(w) \/ DataMapFails(w) \/ WriteRecord(w) \/ FinishData(w)
  \/ GrowIndex(w) \/ IndexMapFails(w) \/ WriteOffset(w) \/ WriteLength(w)
  \/ FinishIndex(w) \/ Publish(w)

OpenStep == OpenIndex \/ FindActualEnd \/ OpenData

Next ==
  \/ OpenStep
  \/ \E w \in Writers : WriterStep(w) \/ \E b \in Batches : AcquireLock(w, b)
  \/ \E r \in Readers : Fetch(r) \/ \E s \in IndexAddress : Seek(r, s)
  \/ DropIndex \/ DropData
  \/ Crash

Spec == Init /\ [][Next]_vars

(* a thread that is in a call, and a process that is opening the database, *)
(* keep running unless the process dies                                    *)
FairSpec ==
  /\ Spec
  /\ \A w \in Writers : WF_vars(WriterStep(w))
  /\ \A r \in Readers : WF_vars(Fetch(r))
  /\ WF_vars(OpenStep)
-----------------------------------------------------------------------------
(* Properties *)

(* Every variable keeps its type; no counter leaves the naturals.  *)
TypeOK ==
  /\ data \in Store(DataAddress, Byte)
  /\ index \in Store(IndexAddress, Pair)
  /\ db \in {"closed", "search", "data", "open", "dropping", "damaged"}
  /\ search \in [start : Nat, end : Nat]
  /\ lock \in Writers \cup {NoWriter}
  /\ pc \in [Writers -> {"idle", "plan", "data", "index", "offset", "length",
                         "publish"}]
  /\ job \in [Writers -> Job]
  /\ rd \in [Readers -> [busy : BOOLEAN, seqno : Nat, pair : Pair]]
  /\ log \in Seq(Records)
  /\ acked \subseteq (Nat \X Records)

(* the bytes of record r are in the data file at the place pair p names *)
Holds(p, r) ==
  /\ p.length = RecLen[r]
  /\ p.offset + p.length <= data.len
  /\ \A a \in DataAddress :
       p.offset <= a /\ a < p.offset + p.length =>
         data.cell[a] = <<r, a - p.offset>>

(* A record whose sequence number was returned by append_get_seqno is in   *)
(* the two files, at that number and whole, from then on: after any number *)
(* of later appends, failures, crashes and reopenings ("changes are dumped *)
(* to the disk at the moment of insertion", README).                       *)
AckedIsStored ==
  \A p \in acked :
    /\ p[1] < index.len
    /\ index.cell[p[1]].length > 0
    /\ Holds(index.cell[p[1]], p[2])

(* An open database serves every record it ever acknowledged: the index    *)
(* reaches its pair and the record lies in one slice of the data file, so  *)
(* that get_record_at_offset has all of its bytes.                         *)
AckedIsServed ==
  db = "open" =>
    \A p \in acked :
      /\ Mapped(index, p[1])
      /\ InOneSlice(data, index.cell[p[1]].offset, index.cell[p[1]].length)

(* Whatever the process was doing when it died, the files it leaves can be *)
(* opened: neither IndexFileDamaged nor DataFileDamaged is reached.        *)
NeverDamaged == db # "damaged"

(* find_actual_end and the reopening of the index keep exactly the records *)
(* whose pair was completed: none is lost, no zero pair is taken for one.  *)
RecoversExactly ==
  db = "data" => index.end = Len(log) /\ index.size = Len(log)

(* A reader that got a pair from the index, however long ago and however   *)
(* many appends ago, finds the whole record behind it in the data file,    *)
(* and the record is the one of the sequence number it asked for.          *)
ReadsAreRight ==
  \A r \in Readers :
    rd[r].busy =>
      /\ rd[r].seqno < Len(log)
      /\ Holds(rd[r].pair, log[rd[r].seqno + 1])
      /\ ~DataBusy => InOneSlice(data, rd[r].pair.offset, rd[r].pair.length)

(* The size published by the index is a safe upper boundary for reads (the *)
(* comment on Appender::actual_size): every pair below it is complete and  *)
(* mapped, even while a writer is adding pairs behind it.                  *)
LenIsReadable ==
  db = "open" =>
    \A s \in 0..index.size - 1 :
      Mapped(index, s) /\ s < Len(log) /\ Holds(index.cell[s], log[s + 1])

-----------------------------------------------------------------------------
(* The records the two files stand for, read back from their content alone *)

Decoded(p) ==
  IF \E r \in Records : Holds(p, r)
  THEN CHOOSE r \in Records : Holds(p, r)
  ELSE NoByte

FirstIncomplete ==
  CHOOSE n \in 0..index.len :
    /\ \A i \in 0..n - 1 : LengthAt(i) > 0
    /\ n = index.len \/ LengthAt(n) = 0

StoredLog == [i \in 1..FirstIncomplete |-> Decoded(index.cell[i - 1])]

Promise == INSTANCE AppendLog WITH log <- StoredLog, acked <- acked

(* The files implement the append-only log: a step of the code adds one    *)
(* record at the end of what the files hold, or acknowledges records with  *)
(* the sequence numbers they are stored under, or changes nothing of it.   *)
(* Crashes, truncations and reopenings are stutters.                       *)
ImplementsAppendLog == Promise!LogSpec

(* append_get_seqno returns, with the records stored or with an error, and *)
(* a call that came to an end, also one that failed in the middle, does not *)
(* hold write_lock, for which the next writer waits; or the process dies.  *)
AppendReturns ==
  \A w \in Writers :
    (pc[w] # "idle" \/ lock = w) ~> (pc[w] = "idle" /\ lock # w)

(* Opening ends: the binary search of find_actual_end does not run in      *)
(* circles on any file a crash leaves.                                     *)
OpeningEnds == db \in {"search", "data"} ~> db \in {"open", "closed"}
=============================================================================
