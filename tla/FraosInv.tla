----------------------------- MODULE FraosInv ------------------------------
(***************************************************************************)
(* The inductive invariant of Fraos.  The properties of Fraos are not      *)
(* inductive: that an acknowledged record stays readable rests on how the  *)
(* writer lays out the bytes it is about to write (Plan, DataPhase), on    *)
(* the shape of both files at every point where the process may die (IndexTail, *)
(* Entries, Ordered) and on what the binary search still knows about the   *)
(* end of the index (Searching).                                           *)
(***************************************************************************)
EXTENDS Fraos

(* the writer that is in append_get_seqno is the one that owns the lock,   *)
(* and nobody is in a call unless the database is open                     *)
Mutex ==
  /\ \A w \in Writers : pc[w] # "idle" => lock = w
  /\ db # "open" => \A w \in Writers : pc[w] = "idle"
  /\ db # "open" => \A r \in Readers : ~rd[r].busy

(* what is mapped is backed by the file, and the appended data is mapped *)
Shape(m, cap) ==
  /\ m.len <= cap
  /\ m.end <= m.len
  /\ m.mapStart + m.mapLen <= m.len
  /\ \A c \in m.bounds : c <= m.end

Shapes == Shape(data, DataCap) /\ Shape(index, IndexCap)

Entry(i) == index.cell[i - 1]

(* the pairs of the log are complete and there is no length behind them *)
IndexTail ==
  /\ Len(log) <= index.len
  /\ \A i \in 1..Len(log) : LengthAt(i - 1) > 0
  /\ \A a \in IndexAddress : a >= Len(log) => LengthAt(a) = 0

Entries == \A i \in 1..Len(log) : Holds(Entry(i), log[i])

(* records lie in the data file in the order of their sequence numbers *)
Ordered ==
  \A i, j \in 1..Len(log) :
    i < j => Entry(i).offset + Entry(i).length <= Entry(j).offset

(* once the data file is open, its records are before its end, which the   *)
(* bounds between two appended ranges do not cut                           *)
DataOpen ==
  db \in {"open", "dropping"} =>
    \A i \in 1..Len(log) :
      /\ Entry(i).offset + Entry(i).length <= data.size
      /\ InOneSlice(data, Entry(i).offset, Entry(i).length)

(* the two sizes each file keeps agree except while a writer is between    *)
(* the growth of a file and the store of its size                          *)
DataSize ==
  db \in {"open", "dropping"} =>
    /\ data.size <= data.end
    /\ ~DataBusy => data.size = data.end

IndexSize ==
  /\ db = "data" => index.end = Len(log) /\ index.size = Len(log)
  /\ db = "open" =>
       /\ (\A w \in Writers : pc[w] \notin {"offset", "length", "publish"})
            => index.size = Len(log)
       /\ ~IndexBusy => index.end = Len(log)

(* the pairs planned so far: one per record, adjacent, behind the records  *)
(* already stored                                                          *)
PlanOf(j, label) ==
  /\ j.batch \in Batches
  /\ j.k \in 1..Len(j.batch) + 1
  /\ Len(j.plan) <= Len(j.batch)
  /\ label # "plan" =>
       /\ Len(j.plan) = Len(j.batch)
       /\ \A i \in 1..Len(j.plan) : j.plan[i].length > 0
  /\ \A i \in 1..Len(j.plan) :
       /\ j.plan[i].length = RecLen[j.batch[i]]
       /\ j.plan[i].offset + j.plan[i].length <= j.next
  /\ \A i \in 1..Len(j.plan) : i + 1 <= Len(j.plan) =>
       j.plan[i + 1].offset = j.plan[i].offset + j.plan[i].length
  /\ \A i, h \in 1..Len(j.plan) : i < h =>
       j.plan[i].offset + j.plan[i].length <= j.plan[h].offset

Plan == \A w \in Writers : pc[w] # "idle" => PlanOf(job[w], pc[w])

(* plan, data: nothing of the batch is in the index yet *)
DataPhaseOf(j, label) ==
  /\ label \in {"plan", "data"} =>
       /\ data.size <= j.next
       /\ Len(j.plan) > 0 => j.plan[1].offset = data.size
       /\ \A i \in 1..Len(j.plan) : data.size <= j.plan[i].offset
  /\ label = "plan" =>
       /\ j.k = 1
       /\ Len(j.plan) = 0 => j.next = data.size
       /\ Len(j.plan) > 0 =>
            j.next = j.plan[Len(j.plan)].offset + j.plan[Len(j.plan)].length
  /\ label = "data" =>
       /\ j.next = data.end
       /\ j.k <= Len(j.batch) => j.at = j.plan[j.k].offset
       /\ \A i \in 1..j.k - 1 : Holds(j.plan[i], j.batch[i])
  /\ label \in {"data", "index", "offset", "length"} =>
       \A i \in 1..Len(j.plan) :
         InOneSlice(data, j.plan[i].offset, j.plan[i].length)

DataPhase == \A w \in Writers : pc[w] # "idle" => DataPhaseOf(job[w], pc[w])

(* index, offset, length, publish: the data is complete, and the pairs are *)
(* written one behind the other                                            *)
IndexPhaseOf(j, label) ==
  /\ label \in {"index", "offset", "length"} =>
       /\ j.next <= data.size
       /\ \A i \in 1..Len(j.plan) : Holds(j.plan[i], j.batch[i])
  /\ label = "index" =>
       \A i \in 1..Len(j.plan), e \in 1..Len(log) :
         Entry(e).offset + Entry(e).length <= j.plan[i].offset
  /\ label \in {"offset", "length"} =>
       /\ \A i \in j.k..Len(j.plan), e \in 1..Len(log) :
            Entry(e).offset + Entry(e).length <= j.plan[i].offset
       /\ j.at = Len(log)
       /\ index.end = Len(log) + Len(j.batch) - (j.k - 1)
       /\ Len(log) = j.seqno + j.k - 1
  /\ label = "length" =>
       /\ j.k <= Len(j.batch)
       /\ index.cell[j.at].offset = j.plan[j.k].offset
  /\ label = "publish" => Len(log) = j.seqno + Len(j.batch)
  /\ label \in {"offset", "length", "publish"} =>
       /\ index.size = j.seqno
       /\ \A i \in 1..Len(j.batch) :
            (i < j.k \/ label = "publish") => log[j.seqno + i] = j.batch[i]

IndexPhase == \A w \in Writers : pc[w] # "idle" => IndexPhaseOf(job[w], pc[w])

Reads ==
  \A r \in Readers :
    rd[r].busy => /\ rd[r].seqno < Len(log)
                  /\ rd[r].pair = index.cell[rd[r].seqno]

Promises ==
  \A p \in acked : p[1] < Len(log) /\ log[p[1] + 1] = p[2]

(* the end of the index is between start and end of find_actual_end *)
Searching ==
  db = "search" =>
    /\ index.size = index.len
    /\ index.len > 0
    /\ LengthAt(index.len - 1) = 0
    /\ search.start < Len(log)
    /\ Len(log) <= search.end
    /\ search.end <= index.len

Opens == NeverDamaged

IInv ==
  /\ TypeOK /\ Mutex /\ Shapes
  /\ IndexTail /\ Entries /\ Ordered
  /\ DataOpen /\ DataSize /\ IndexSize
  /\ Plan /\ DataPhase /\ IndexPhase
  /\ Reads /\ Promises /\ Searching /\ Opens
=============================================================================
