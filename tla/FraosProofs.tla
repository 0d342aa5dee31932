---------------------------- MODULE FraosProofs ----------------------------
(***************************************************************************)
(* Proofs about Fraos: IInv is an inductive invariant, and with it the     *)
(* safety properties of Fraos hold for every set of records, writers,      *)
(* readers and batches and every size of the files and of the maps, and    *)
(* the two files implement AppendLog.                                      *)
(***************************************************************************)
EXTENDS FraosInv, TLAPS

-----------------------------------------------------------------------------
(* The operators of MmapStore *)

(* NewMmapSize covers what is appended.  *)
LEMMA NewMmapSizeFacts ==
  ASSUME NEW ext \in Nat, NEW min \in Nat
  PROVE  NewMmapSize(ext, min) \in Nat /\ NewMmapSize(ext, min) >= ext
BY DEF NewMmapSize

(* What SetLen, Attach, Detach and Grow do to a store, as contracts. *)

IsResized(Address, Cell, zero, m, n, s) ==
  /\ s \in Store(Address, Cell)
  /\ s.len = n
  /\ s.end = m.end /\ s.bounds = m.bounds /\ s.size = m.size
  /\ s.mapStart = m.mapStart /\ s.mapLen = m.mapLen
  /\ \A x \in Address : x < n /\ x < m.len => s.cell[x] = m.cell[x]
  /\ \A x \in Address : ~(x < n /\ x < m.len) => s.cell[x] = zero

IsAttached(Address, Cell, m, n, s) ==
  /\ s \in Store(Address, Cell)
  /\ s.len = m.len /\ s.cell = m.cell
  /\ s.end = n /\ s.size = n
  /\ \A c \in s.bounds : c = n
  /\ s.mapStart = 0 /\ s.mapLen = 0

IsGrown(Address, Cell, zero, cap, m, ext, s) ==
  /\ s \in Store(Address, Cell)
  /\ Shape(s, cap)
  /\ s.end = m.end + ext
  /\ s.bounds = m.bounds \cup {m.end + ext}
  /\ s.size = m.size
  /\ m.len <= s.len \/ m.end + ext <= s.len
  /\ \A x \in Address : x < m.end => s.cell[x] = m.cell[x]
  /\ \A x \in Address : s.cell[x] = m.cell[x] \/ s.cell[x] = zero

(* SetLen changes the length and forgets what is outside of both lengths.  *)
LEMMA SetLenFacts ==
  ASSUME NEW Address \in SUBSET Nat, NEW Cell, NEW zero \in Cell,
         NEW m \in Store(Address, Cell), NEW n \in Nat
  PROVE  IsResized(Address, Cell, zero, m, n, SetLen(m, n, zero))
BY DEF SetLen, Store, IsResized

(* Attach maps the first n cells of the file and leaves the file alone.    *)
LEMMA AttachFacts ==
  ASSUME NEW Address \in SUBSET Nat, NEW Cell,
         NEW m \in Store(Address, Cell), NEW n \in Nat
  PROVE  IsAttached(Address, Cell, m, n, Attach(m, n))
BY DEF Attach, Store, IsAttached

(* Detach leaves a store nothing of which is mapped.                       *)
LEMMA DetachFacts ==
  ASSUME NEW Address \in SUBSET Nat, NEW Cell,
         NEW m \in Store(Address, Cell)
  PROVE  IsAttached(Address, Cell, m, 0, Detach(m))
BY DEF Detach, Store, IsAttached

(* A growth moves the end by what is appended, adds one bound there, keeps *)
(* every cell before the end, and keeps what is mapped inside the file.    *)
LEMMA GrowFacts ==
  ASSUME NEW Address \in SUBSET Nat, NEW Cell, NEW zero \in Cell,
         NEW m \in Store(Address, Cell), NEW cap \in Nat,
         NEW ext \in Nat, NEW min \in Nat,
         Shape(m, cap),
         HasRoom(m, ext) \/ m.end + NewMmapSize(ext, min) <= cap,
         NEW g, g = Grow(m, ext, min, zero)
  PROVE  IsGrown(Address, Cell, zero, cap, m, ext, g)
<1> DEFINE e == m.end + ext
           bs == m.bounds \cup {e}
<1>e. /\ e \in Nat /\ m.end \in Nat /\ m.len \in Nat /\ e >= m.end
      /\ m.mapStart \in Nat /\ m.mapLen \in Nat
  BY DEF Store
<1>b. bs \in SUBSET Nat
  BY <1>e DEF Store
<1>s. m.end <= m.len /\ m.mapStart + m.mapLen <= m.len /\ m.len <= cap
  BY DEF Shape
<1>c. \A c \in bs : c <= e
  BY <1>e, <1>b DEF Shape
<1>1. CASE HasRoom(m, ext)
  <2>0. e < m.mapStart + m.mapLen
    BY <1>1 DEF HasRoom
  <2>1. g = [m EXCEPT !.end = e, !.bounds = bs]
    BY <1>1 DEF Grow, AppendBound
  <2> HIDE DEF e, bs
  <2>2. g \in Store(Address, Cell)
    BY <1>e, <1>b, <2>1 DEF Store
  <2>3. /\ g.len = m.len /\ g.cell = m.cell /\ g.end = e
        /\ g.size = m.size /\ g.bounds = bs
        /\ g.mapStart = m.mapStart /\ g.mapLen = m.mapLen
    BY <2>1 DEF Store
  <2>4. Shape(g, cap)
    BY <1>c, <1>e, <1>s, <2>0, <2>3 DEF Shape
  <2> QED
    BY <1>e, <1>s, <2>2, <2>3, <2>4 DEF e, bs, IsGrown
<1>2. CASE ~HasRoom(m, ext)
  <2>1. PICK n \in Nat : n = NewMmapSize(ext, min) /\ n >= ext
    BY NewMmapSizeFacts
  <2>2. PICK l \in Nat : l = m.end + n
    BY <1>e, <2>1
  <2>3. PICK k \in Nat : k = IF m.mapLen = 0 THEN m.maps ELSE m.maps + 1
    BY DEF Store
  <2>4. PICK s : s = SetLen(m, l, zero)
    OBVIOUS
  <2>5. g = [s EXCEPT !.end = e, !.bounds = bs, !.maps = k,
                      !.mapStart = m.end, !.mapLen = n]
    BY <1>2, <2>1, <2>2, <2>3, <2>4, Zenon DEF Grow, Extend, AppendBound
  <2>6. l >= e /\ l <= cap
    BY <1>2, <1>e, <2>1, <2>2
  <2> HIDE DEF e, bs
  <2>r. IsResized(Address, Cell, zero, m, l, s)
    BY <2>4, SetLenFacts
  <2>7. /\ s \in Store(Address, Cell)
        /\ s.len = l
        /\ s.size = m.size
        /\ \A x \in Address : x < l /\ x < m.len => s.cell[x] = m.cell[x]
        /\ \A x \in Address : ~(x < l /\ x < m.len) => s.cell[x] = zero
    BY <2>r DEF IsResized
  <2>8. g \in Store(Address, Cell)
    <3>1. PICK c \in SUBSET Nat : c = bs
      BY <1>b DEF bs
    <3>2. PICK x \in Nat, y \in Nat : x = e /\ y = m.end
      BY <1>e DEF e
    <3>3. [s EXCEPT !.end = x, !.bounds = c, !.maps = k, !.mapStart = y,
                    !.mapLen = n] \in Store(Address, Cell)
      BY <2>7 DEF Store
    <3> QED
      BY <2>5, <3>1, <3>2, <3>3
  <2>9. /\ g.len = l /\ g.end = e /\ g.size = m.size /\ g.bounds = bs
        /\ g.mapStart = m.end /\ g.mapLen = n /\ g.cell = s.cell
    BY <2>5, <2>7 DEF Store
  <2>10. Shape(g, cap)
    BY <1>c, <1>e, <1>s, <2>2, <2>6, <2>9 DEF Shape
  <2>11. \A x \in Address : x < m.end => x < l /\ x < m.len
    BY <1>e, <1>s, <2>2
  <2> QED
    BY <2>6, <2>7, <2>8, <2>9, <2>10, <2>11 DEF e, bs, IsGrown
<1> QED
  BY <1>1, <1>2

(* Merging the inactive maps drops bounds, and nothing else of the store.  *)
IsRearranged(Address, Cell, m, s) ==
  /\ s \in Store(Address, Cell)
  /\ s.len = m.len /\ s.cell = m.cell /\ s.end = m.end /\ s.size = m.size
  /\ s.mapStart = m.mapStart /\ s.mapLen = m.mapLen
  /\ s.bounds \subseteq m.bounds

(* rearrange_mmaps is such a merge, or leaves the store as it is.          *)
LEMMA RearrangeFacts ==
  ASSUME NEW Address \in SUBSET Nat, NEW Cell,
         NEW m \in Store(Address, Cell)
  PROVE  IsRearranged(Address, Cell, m, RearrangeMmaps(m))
<1> DEFINE bs == {c \in m.bounds : c >= m.mapStart}
<1>1. bs \in SUBSET Nat /\ bs \subseteq m.bounds
  BY DEF Store
<1> HIDE DEF bs
<1>2. CASE Persistent /\ m.maps > MaxMaps
  <2>1. RearrangeMmaps(m) = [m EXCEPT !.maps = 1, !.bounds = bs]
    BY <1>2 DEF RearrangeMmaps, bs
  <2> QED
    <3>0. PICK b \in SUBSET Nat : b = bs
      BY <1>1
    <3>1. [m EXCEPT !.maps = 1, !.bounds = b] \in Store(Address, Cell)
      BY DEF Store
    <3>2. /\ RearrangeMmaps(m).len = m.len
          /\ RearrangeMmaps(m).cell = m.cell
          /\ RearrangeMmaps(m).end = m.end
          /\ RearrangeMmaps(m).size = m.size
          /\ RearrangeMmaps(m).mapStart = m.mapStart
          /\ RearrangeMmaps(m).mapLen = m.mapLen
          /\ RearrangeMmaps(m).bounds = bs
      BY <1>1, <2>1 DEF Store
    <3> QED
      BY <1>1, <2>1, <3>0, <3>1, <3>2 DEF IsRearranged
<1>3. CASE ~(Persistent /\ m.maps > MaxMaps)
  <2>1. RearrangeMmaps(m) = m
    BY <1>3 DEF RearrangeMmaps
  <2> QED
    BY <2>1 DEF Store, IsRearranged
<1> QED
  BY <1>2, <1>3

-----------------------------------------------------------------------------
(* Frames: what a step leaves alone keeps what is said about it.           *)

(* A step that touches neither file nor the histories keeps everything     *)
(* the invariant says of them.                                             *)
LEMMA FilesFrame ==
  ASSUME IInv, UNCHANGED <<data, index, db, search, log, acked>>
  PROVE  (/\ Shapes /\ IndexTail /\ Entries /\ Ordered
          /\ DataOpen /\ Promises /\ Searching /\ Opens)'
<1>1. (Shapes /\ IndexTail /\ Entries /\ Ordered /\ DataOpen)'
  BY DEF IInv, Shapes, IndexTail, Entries, Ordered, DataOpen,
         Entry, Holds, LengthAt
<1>2. (Promises /\ Searching /\ Opens)'
  BY DEF IInv, Promises, Searching, Opens, NeverDamaged, LengthAt
<1> QED
  BY <1>1, <1>2

(* A step that touches neither the files nor the locals of the writers     *)
(* keeps what the invariant says of an append in progress.                 *)
LEMMA CallsFrame ==
  ASSUME IInv, UNCHANGED <<data, index, lock, pc, job, log>>
  PROVE  (Plan /\ DataPhase /\ IndexPhase)'
<1> SUFFICES ASSUME NEW w \in Writers, pc[w] # "idle"
             PROVE  /\ PlanOf(job[w], pc[w])
                    /\ DataPhaseOf(job[w], pc[w])'
                    /\ IndexPhaseOf(job[w], pc[w])'
  BY DEF Plan, PlanOf, DataPhase, IndexPhase
<1>1. PICK j, label : j \in Job /\ j = job[w] /\ label = pc[w]
  BY DEF IInv, TypeOK
<1>2. PlanOf(j, label) /\ DataPhaseOf(j, label) /\ IndexPhaseOf(j, label)
  BY <1>1 DEF IInv, Plan, DataPhase, IndexPhase
<1>3. DataPhaseOf(j, label)'
  BY <1>2 DEF DataPhaseOf, Holds
<1>4. IndexPhaseOf(j, label)'
  BY <1>2 DEF IndexPhaseOf, Holds, Entry
<1>5. job' = job /\ pc' = pc
  OBVIOUS
<1> QED
  BY <1>1, <1>2, <1>3, <1>4, <1>5

(* Only one writer is in a call.  *)
LEMMA OneWriter ==
  ASSUME IInv, NEW w \in Writers, pc[w] # "idle", NEW v \in Writers, v # w
  PROVE  pc[v] = "idle"
BY DEF IInv, Mutex

(* The types of the constants and of what is derived from them.            *)
LEMMA Constants ==
  /\ DataAddress \in SUBSET Nat
  /\ IndexAddress \in SUBSET Nat
  /\ NoByte \in Byte
  /\ NoPair \in Pair
  /\ DataCap \in Nat /\ IndexCap \in Nat /\ DataMin \in Nat /\ IndexMin \in Nat
  /\ \A batch \in Batches : batch \in Seq(Records) /\ Len(batch) \in Nat \ {0}
  /\ \A r \in Records : RecLen[r] \in Nat
BY FraosAssumption DEF DataAddress, IndexAddress, Byte, Pair, NoPair

(* What is known of the writer that is in a call, and of its next state.   *)
LEMMA WriterNow ==
  ASSUME IInv, NEW w \in Writers, pc[w] # "idle"
  PROVE  /\ db = "open" /\ lock = w /\ job[w] \in Job
         /\ PlanOf(job[w], pc[w])
         /\ DataPhaseOf(job[w], pc[w])
         /\ IndexPhaseOf(job[w], pc[w])
         /\ DataBusy <=> pc[w] = "data"
         /\ IndexBusy <=> pc[w] \in {"offset", "length"}
         /\ (\A v \in Writers : pc[v] \notin {"offset", "length", "publish"})
              <=> pc[w] \notin {"offset", "length", "publish"}
BY OneWriter DEF IInv, TypeOK, Mutex, Plan, DataPhase, IndexPhase,
                 DataBusy, IndexBusy

Labels == {"plan", "data", "index", "offset", "length", "publish"}

(* A step of the writer in the call, or of one that takes the lock, that   *)
(* goes to label with the locals j: it is enough to show the three phases  *)
(* for this writer.                                                        *)
LEMMA WriterNext ==
  ASSUME IInv, NEW w \in Writers, NEW j \in Job, NEW label \in Labels,
         pc[w] # "idle" \/ lock = NoWriter,
         db = "open", db' = db, lock' = w, rd' = rd,
         pc' = [pc EXCEPT ![w] = label],
         job' = [job EXCEPT ![w] = j],
         PlanOf(j, label),
         DataPhaseOf(j, label)',
         IndexPhaseOf(j, label)'
  PROVE  /\ (Mutex /\ Plan /\ DataPhase /\ IndexPhase)'
         /\ pc' \in [Writers -> Labels \cup {"idle"}]
         /\ job' \in [Writers -> Job]
         /\ lock' \in Writers \cup {NoWriter}
         /\ DataBusy' <=> label = "data"
         /\ IndexBusy' <=> label \in {"offset", "length"}
         /\ (\A v \in Writers : pc'[v] \notin {"offset", "length", "publish"})
              <=> label \notin {"offset", "length", "publish"}
<1>1. \A v \in Writers : v # w => pc[v] = "idle"
  BY FraosAssumption DEF IInv, Mutex
<1>2. /\ pc \in [Writers -> Labels \cup {"idle"}]
      /\ job \in [Writers -> Job]
  BY DEF IInv, TypeOK, Labels
<1>3. /\ pc' \in [Writers -> Labels \cup {"idle"}]
      /\ job' \in [Writers -> Job]
      /\ pc'[w] = label /\ job'[w] = j
      /\ \A v \in Writers : v # w => pc'[v] = "idle"
  BY <1>1, <1>2
<1>4. Mutex'
  BY <1>3 DEF IInv, Mutex
<1>5. Plan'
  BY <1>3 DEF Plan, PlanOf
<1>6. DataPhase'
  BY <1>3 DEF DataPhase
<1>7. IndexPhase'
  BY <1>3 DEF IndexPhase
<1>8. /\ DataBusy' <=> label = "data"
      /\ IndexBusy' <=> label \in {"offset", "length"}
      /\ (\A v \in Writers : pc'[v] \notin {"offset", "length", "publish"})
           <=> label \notin {"offset", "length", "publish"}
  BY <1>3 DEF DataBusy, IndexBusy
<1> QED
  BY <1>3, <1>4, <1>5, <1>6, <1>7, <1>8

(* After a release nobody is in a call.  *)
LEMMA WriterDone ==
  ASSUME IInv, NEW w \in Writers, pc[w] # "idle", Release(w),
         db' = db, rd' = rd
  PROVE  /\ (Mutex /\ Plan /\ DataPhase /\ IndexPhase)'
         /\ pc' \in [Writers -> Labels \cup {"idle"}]
         /\ job' \in [Writers -> Job]
         /\ lock' \in Writers \cup {NoWriter}
         /\ \A v \in Writers : pc'[v] = "idle"
         /\ ~DataBusy' /\ ~IndexBusy'
<1>1. \A v \in Writers : v # w => pc[v] = "idle"
  BY OneWriter
<1>2. /\ pc \in [Writers -> Labels \cup {"idle"}]
      /\ job \in [Writers -> Job]
      /\ NoJob \in Job
  BY SMTT(40) DEF IInv, TypeOK, Labels, NoJob, Job
<1>3. /\ pc' \in [Writers -> Labels \cup {"idle"}]
      /\ job' \in [Writers -> Job]
      /\ \A v \in Writers : pc'[v] = "idle"
  BY <1>1, <1>2 DEF Release
<1>4. (Mutex /\ Plan /\ DataPhase /\ IndexPhase)'
  BY <1>3 DEF IInv, Mutex, Plan, DataPhase, IndexPhase
<1> QED
  BY <1>3, <1>4 DEF Release, DataBusy, IndexBusy

(* What Append of the Sequences module returns.                            *)
LEMMA AppendFacts ==
  ASSUME NEW S, NEW s \in Seq(S), NEW e \in S
  PROVE  /\ Append(s, e) \in Seq(S)
         /\ Len(Append(s, e)) = Len(s) + 1
         /\ \A i \in 1..Len(s) : Append(s, e)[i] = s[i] /\ s[i] \in S
         /\ Append(s, e)[Len(s) + 1] = e
OBVIOUS

-----------------------------------------------------------------------------
(* The steps of a writer *)

(* The next pair is planned where the last one ends, behind everything     *)
(* stored.                                                                 *)
LEMMA PlanRecordStep ==
  ASSUME IInv, NEW w \in Writers, PlanRecord(w)
  PROVE  IInv'
<1>1. PICK j \in Job : j = job[w]
  BY DEF IInv, TypeOK
<1>2. /\ pc[w] = "plan" /\ db = "open" /\ lock = w
      /\ PlanOf(j, "plan") /\ DataPhaseOf(j, "plan")
      /\ Len(j.plan) < Len(j.batch)
  BY <1>1, WriterNow DEF PlanRecord
<1>3. /\ j.batch \in Batches /\ j.batch \in Seq(Records)
      /\ Len(j.batch) \in Nat /\ j.plan \in Seq(Pair) /\ j.next \in Nat
  BY <1>2, Constants DEF PlanOf, Job
<1>4. PICK L \in Nat : L = Len(j.plan) /\ L < Len(j.batch)
  BY <1>2, <1>3
<1>5. PICK n \in Nat : n = RecLen[j.batch[L + 1]]
  BY <1>3, <1>4, Constants
<1>6. PICK p \in Pair : p = [offset |-> j.next, length |-> n]
  BY <1>3, <1>5 DEF Pair
<1>7. PICK q \in Seq(Pair) : q = Append(j.plan, p)
  BY <1>3, AppendFacts
<1>8. /\ Len(q) = L + 1 /\ q[L + 1] = p
      /\ \A i \in 1..L : q[i] = j.plan[i] /\ j.plan[i] \in Pair
  BY <1>3, <1>4, <1>7, AppendFacts
<1>p. /\ p.offset = j.next /\ p.length = n
      /\ \A i \in 1..L : j.plan[i].offset \in Nat /\ j.plan[i].length \in Nat
  BY <1>6, <1>8 DEF Pair
<1>q. /\ \A i \in 1..L : /\ j.plan[i].length = RecLen[j.batch[i]]
                         /\ j.plan[i].offset + j.plan[i].length <= j.next
      /\ \A i \in 1..L : i + 1 <= L =>
            j.plan[i + 1].offset = j.plan[i].offset + j.plan[i].length
      /\ \A i, h \in 1..L : i < h =>
            j.plan[i].offset + j.plan[i].length <= j.plan[h].offset
      /\ j.k \in 1..Len(j.batch) + 1
  BY <1>2, <1>4 DEF PlanOf
<1>r. /\ data.size <= j.next
      /\ L > 0 => j.plan[1].offset = data.size
      /\ \A i \in 1..L : data.size <= j.plan[i].offset
      /\ j.k = 1
      /\ L = 0 => j.next = data.size
      /\ L > 0 => j.next = j.plan[L].offset + j.plan[L].length
  BY <1>2, <1>4 DEF DataPhaseOf
<1>9. PICK x \in Nat : x = j.next + n
  BY <1>3
<1>10. PICK jj \in Job : jj = [j EXCEPT !.plan = q, !.next = x]
  BY DEF Job
<1>11. /\ jj.plan = q /\ jj.next = x /\ jj.batch = j.batch /\ jj.k = j.k
  BY <1>10 DEF Job
<1>12. /\ job' = [job EXCEPT ![w] = jj]
       /\ UNCHANGED <<data, index, db, search, lock, pc, rd, log, acked>>
  BY <1>1, <1>4, <1>5, <1>6, <1>7, <1>9, <1>10 DEF PlanRecord
<1>13. PlanOf(jj, "plan")
  <2>1. \A i \in 1..L + 1 : /\ q[i].length = RecLen[j.batch[i]]
                            /\ q[i].offset + q[i].length <= x
    <3> SUFFICES ASSUME NEW i \in 1..L + 1
                 PROVE  /\ q[i].length = RecLen[j.batch[i]]
                        /\ q[i].offset + q[i].length <= x
      OBVIOUS
    <3>1. CASE i = L + 1
      BY <3>1, <1>3, <1>5, <1>8, <1>9, <1>p
    <3>2. CASE i # L + 1
      <4>1. i \in 1..L
        BY <3>2
      <4>2. /\ q[i] = j.plan[i]
            /\ j.plan[i].length = RecLen[j.batch[i]]
            /\ j.plan[i].offset + j.plan[i].length <= j.next
            /\ j.plan[i].offset \in Nat /\ j.plan[i].length \in Nat
        BY <4>1, <1>8, <1>p, <1>q
      <4>3. x \in Nat /\ j.next <= x
        BY <1>3, <1>9
      <4>4. PICK o \in Nat, h \in Nat : o = q[i].offset /\ h = q[i].length
        BY <4>2
      <4>5. PICK e \in Nat : e = j.next /\ o + h <= e /\ e <= x
        BY <1>3, <4>2, <4>3, <4>4
      <4>6. o + h <= x
        BY <4>3, <4>5
      <4> QED
        BY <4>2, <4>4, <4>6
    <3> QED
      BY <3>1, <3>2
  <2>2. \A i \in 1..L + 1 : i + 1 <= L + 1 =>
          q[i + 1].offset = q[i].offset + q[i].length
    <3> SUFFICES ASSUME NEW i \in 1..L
                 PROVE  q[i + 1].offset = q[i].offset + q[i].length
      OBVIOUS
    <3>1. CASE i = L
      BY <3>1, <1>8, <1>p, <1>r
    <3>2. CASE i # L
      <4>1. i \in 1..L /\ i + 1 \in 1..L /\ i + 1 <= L
        BY <3>2
      <4>2. q[i] = j.plan[i] /\ q[i + 1] = j.plan[i + 1]
        BY <4>1, <1>8
      <4> QED
        BY <4>1, <4>2, <1>q
    <3> QED
      BY <3>1, <3>2
  <2>3. \A i, h \in 1..L + 1 : i < h =>
          q[i].offset + q[i].length <= q[h].offset
    <3> SUFFICES ASSUME NEW i \in 1..L, NEW h \in 1..L + 1, i < h
                 PROVE  q[i].offset + q[i].length <= q[h].offset
      OBVIOUS
    <3>1. CASE h = L + 1
      BY <3>1, <1>8, <1>p, <1>q
    <3>2. CASE h # L + 1
      <4>1. h \in 1..L
        BY <3>2
      <4>2. q[i] = j.plan[i] /\ q[h] = j.plan[h]
        BY <4>1, <1>8
      <4> QED
        BY <4>1, <4>2, <1>q
    <3> QED
      BY <3>1, <3>2
  <2> QED
    BY SMTT(40), <1>2, <1>3, <1>4, <1>8, <1>11, <2>1, <2>2, <2>3 DEF PlanOf
<1>14. data.size \in Nat /\ data' = data
  BY <1>12 DEF IInv, TypeOK, Store
<1>15. DataPhaseOf(jj, "plan")'
  <2>1. data.size <= x /\ q[1].offset = data.size
    <3>1. data.size <= x
      BY <1>3, <1>9, <1>14, <1>r
    <3>2. CASE L = 0
      <4>1. L + 1 = 1
        BY <3>2
      <4>2. q[1] = p /\ j.next = data.size
        BY <1>8, <1>r, <3>2, <4>1
      <4> QED
        BY <1>p, <3>1, <4>2
    <3>3. CASE L > 0
      <4>1. 1 \in 1..L
        BY <3>3
      <4>2. q[1] = j.plan[1] /\ j.plan[1].offset = data.size
        BY <1>8, <1>r, <3>3, <4>1
      <4> QED
        BY <3>1, <4>2
    <3>4. L = 0 \/ L > 0
      OBVIOUS
    <3> QED
      BY <3>1, <3>2, <3>3, <3>4
  <2>2. \A i \in 1..L + 1 : data.size <= q[i].offset
    <3> SUFFICES ASSUME NEW i \in 1..L + 1
                 PROVE  data.size <= q[i].offset
      OBVIOUS
    <3>1. CASE i = L + 1
      BY <3>1, <1>8, <1>p, <1>r
    <3>2. CASE i \in 1..L
      BY <3>2, <1>8, <1>r
    <3> QED
      BY <3>1, <3>2
  <2>3. x = q[L + 1].offset + q[L + 1].length
    BY <1>8, <1>9, <1>p
  <2> QED
    BY <1>2, <1>4, <1>8, <1>11, <1>14, <1>r, <2>1, <2>2, <2>3 DEF DataPhaseOf
<1>16. IndexPhaseOf(jj, "plan")'
  BY DEF IndexPhaseOf
<1>17. pc' = [pc EXCEPT ![w] = "plan"] /\ "plan" \in Labels
  BY <1>2, <1>12 DEF IInv, TypeOK, Labels
<1>18. /\ (Mutex /\ Plan /\ DataPhase /\ IndexPhase)'
       /\ pc' \in [Writers -> Labels \cup {"idle"}]
       /\ job' \in [Writers -> Job]
  BY <1>2, <1>12, <1>13, <1>15, <1>16, <1>17, WriterNext
<1>19. TypeOK'
  BY <1>12, <1>18 DEF IInv, TypeOK
<1>20. (DataSize /\ IndexSize /\ Reads)'
  BY <1>12 DEF IInv, DataSize, IndexSize, Reads, DataBusy, IndexBusy
<1> QED
  BY <1>12, <1>18, <1>19, <1>20, FilesFrame DEF IInv
(* The lock is taken with nobody in a call, and the plan starts at the     *)
(* end of the data.                                                        *)
LEMMA AcquireLockStep ==
  ASSUME IInv, NEW w \in Writers, NEW batch \in Batches, AcquireLock(w, batch)
  PROVE  IInv'
<1>1. /\ data.size \in Nat /\ batch \in Seq(Records) /\ Len(batch) \in Nat \ {0}
      /\ db = "open" /\ lock = NoWriter
  BY Constants DEF IInv, TypeOK, Store, AcquireLock
<1>2. PICK n \in Nat : n = data.size
  BY <1>1
<1>3. PICK jj \in Job : jj = [NoJob EXCEPT !.batch = batch, !.next = n]
  <2>1. << >> \in Seq(Records) /\ << >> \in Seq(Pair)
    OBVIOUS
  <2>2. PICK d \in Job : d = NoJob
    BY <2>1 DEF Job, NoJob
  <2>3. [d EXCEPT !.batch = batch, !.next = n] \in Job
    BY <1>1 DEF Job
  <2> QED
    BY <2>2, <2>3
<1>4. jj.batch = batch /\ jj.plan = << >> /\ jj.next = n /\ jj.k = 1
  BY <1>3 DEF NoJob
<1>5. /\ job' = [job EXCEPT ![w] = jj] /\ lock' = w
      /\ pc' = [pc EXCEPT ![w] = "plan"]
      /\ UNCHANGED <<data, index, db, search, rd, log, acked>>
  BY <1>2, <1>3 DEF AcquireLock
<1>6. PlanOf(jj, "plan") /\ "plan" \in Labels
  BY <1>1, <1>4 DEF PlanOf, Labels
<1>7. DataPhaseOf(jj, "plan")' /\ IndexPhaseOf(jj, "plan")'
  BY <1>1, <1>2, <1>4, <1>5 DEF DataPhaseOf, IndexPhaseOf
<1>8. /\ (Mutex /\ Plan /\ DataPhase /\ IndexPhase)'
      /\ pc' \in [Writers -> Labels \cup {"idle"}]
      /\ job' \in [Writers -> Job]
      /\ lock' \in Writers \cup {NoWriter}
      /\ DataBusy' <=> "plan" = "data"
      /\ IndexBusy' <=> "plan" \in {"offset", "length"}
  BY <1>1, <1>5, <1>6, <1>7, WriterNext
<1>9. TypeOK'
  BY <1>5, <1>8 DEF IInv, TypeOK, Labels
<1>10. \A v \in Writers : pc[v] = "idle"
  BY <1>1, FraosAssumption DEF IInv, Mutex
<1>11. (DataSize /\ IndexSize /\ Reads)'
  BY <1>5, <1>10 DEF IInv, DataSize, IndexSize, Reads, DataBusy, IndexBusy
<1> QED
  BY <1>5, <1>8, <1>9, <1>11, FilesFrame DEF IInv

(* An append that is rejected has changed neither file.                    *)
LEMMA RejectEmptyStep ==
  ASSUME IInv, NEW w \in Writers, RejectEmpty(w)
  PROVE  IInv'
<1>1. /\ pc[w] = "plan" /\ Release(w)
      /\ UNCHANGED <<data, index, db, search, rd, log, acked>>
  BY DEF RejectEmpty, Planned
<1>2. /\ db = "open" /\ ~DataBusy /\ ~IndexBusy
      /\ \A v \in Writers : pc[v] \notin {"offset", "length", "publish"}
  BY <1>1, WriterNow
<1>3. /\ (Mutex /\ Plan /\ DataPhase /\ IndexPhase)'
      /\ pc' \in [Writers -> Labels \cup {"idle"}]
      /\ job' \in [Writers -> Job]
      /\ lock' \in Writers \cup {NoWriter}
      /\ ~DataBusy' /\ ~IndexBusy'
  BY <1>1, WriterDone
<1>4. TypeOK'
  BY <1>1, <1>3 DEF IInv, TypeOK, Labels
<1>5. (DataSize /\ IndexSize /\ Reads)'
  BY <1>1, <1>2 DEF IInv, DataSize, IndexSize, Reads
<1> QED
  BY <1>1, <1>3, <1>4, <1>5, FilesFrame DEF IInv

(* A step on the data file that leaves alone what is before its size.      *)
LEMMA DataFrame ==
  ASSUME IInv, db = "open", data' \in Store(DataAddress, Byte),
         UNCHANGED <<index, db, search, log, acked, rd>>,
         Shape(data, DataCap)',
         data.size <= data.size', data.size <= data.len',
         \A x \in DataAddress : x < data.size => data'.cell[x] = data.cell[x],
         data.size <= data.end',
         \A c \in data.bounds' : c \in data.bounds \/ data.size <= c
  PROVE  /\ (/\ Shapes /\ IndexTail /\ Entries /\ Ordered /\ DataOpen
             /\ Reads /\ Promises /\ Searching /\ Opens)'
<1>1. /\ data.size \in Nat /\ data.end \in Nat /\ data'.size \in Nat
      /\ data'.len \in Nat /\ data'.end \in Nat /\ data.bounds \in SUBSET Nat
      /\ data'.bounds \in SUBSET Nat /\ index.cell \in [IndexAddress -> Pair]
      /\ log \in Seq(Records)
  BY DEF IInv, TypeOK, Store
<1>2. (Shapes /\ IndexTail /\ Ordered)'
  BY DEF IInv, Shapes, IndexTail, Ordered, Entry, LengthAt
<1>3. (Reads /\ Promises /\ Searching /\ Opens)'
  BY DEF IInv, Reads, Promises, Searching, Opens, NeverDamaged, LengthAt
<1>4. \A i \in 1..Len(log) :
        Entry(i) = Entry(i)' /\ Entry(i).offset \in Nat /\ Entry(i).length \in Nat
  <2> SUFFICES ASSUME NEW i \in 1..Len(log)
               PROVE  /\ Entry(i) = Entry(i)'
                      /\ Entry(i).offset \in Nat /\ Entry(i).length \in Nat
    OBVIOUS
  <2>0. index.len \in Nat /\ index.len <= IndexCap /\ IndexCap \in Nat
    BY Constants DEF IInv, TypeOK, Store, Shapes, Shape
  <2>1. i - 1 \in IndexAddress
    BY <1>1, <2>0 DEF IInv, IndexTail, IndexAddress
  <2> QED
    BY <1>1, <2>1 DEF Entry, Pair
<1>5. \A i \in 1..Len(log) : /\ Entry(i).offset + Entry(i).length <= data.size
                             /\ InOneSlice(data, Entry(i).offset, Entry(i).length)
                             /\ Holds(Entry(i), log[i])
  BY DEF IInv, DataOpen, Entries
<1>6. \A i \in 1..Len(log) : Holds(Entry(i), log[i])'
  <2> SUFFICES ASSUME NEW i \in 1..Len(log)
               PROVE  Holds(Entry(i), log[i])'
    OBVIOUS
  <2>1. PICK o \in Nat, n \in Nat : o = Entry(i).offset /\ n = Entry(i).length
    BY <1>4
  <2>2. /\ o + n <= data.size /\ n = RecLen[log[i]] /\ o + n <= data.len
        /\ \A x \in DataAddress :
             o <= x /\ x < o + n => data.cell[x] = <<log[i], x - o>>
    BY <1>5, <2>1 DEF Holds
  <2>3. \A x \in DataAddress : x < o + n => data'.cell[x] = data.cell[x]
    <3> SUFFICES ASSUME NEW x \in DataAddress, x < o + n
                 PROVE  x < data.size
      OBVIOUS
    <3>1. x \in Nat
      BY Constants
    <3> QED
      BY <1>1, <2>2, <3>1
  <2>4. o + n <= data'.len
    BY <1>1, <2>2
  <2>5. o = Entry(i).offset' /\ n = Entry(i).length' /\ log' = log
    BY <1>4, <2>1
  <2> QED
    BY <2>2, <2>3, <2>4, <2>5 DEF Holds
<1>7. Entries'
  BY <1>4, <1>6 DEF Entries
<1>8. \A i \in 1..Len(log) :
        /\ Entry(i).offset + Entry(i).length <= data.size'
        /\ InOneSlice(data', Entry(i).offset, Entry(i).length)
  <2> SUFFICES ASSUME NEW i \in 1..Len(log)
               PROVE  /\ Entry(i).offset + Entry(i).length <= data.size'
                      /\ InOneSlice(data', Entry(i).offset, Entry(i).length)
    OBVIOUS
  <2>1. PICK o \in Nat, n \in Nat : o = Entry(i).offset /\ n = Entry(i).length
    BY <1>4
  <2>2. o + n <= data.size /\ \A c \in data.bounds : c <= o \/ o + n <= c
    BY <1>5, <2>1 DEF InOneSlice
  <2>3. o + n <= data.size' /\ o + n <= data.end'
        /\ \A c \in data.bounds' : c <= o \/ o + n <= c
    BY <1>1, <2>2
  <2> QED
    BY <2>1, <2>3 DEF InOneSlice
<1>9. DataOpen'
  BY <1>4, <1>8 DEF DataOpen
<1> QED
  BY <1>2, <1>3, <1>7, <1>9

(* What is known of a planned batch; the pairs are well typed.  *)
LEMMA PlannedPairs ==
  ASSUME NEW j \in Job, NEW label, PlanOf(j, label)
  PROVE  /\ j.batch \in Batches /\ j.batch \in Seq(Records)
         /\ Len(j.batch) \in Nat \ {0} /\ Len(j.plan) \in Nat
         /\ j.plan \in Seq(Pair) /\ j.next \in Nat /\ j.k \in Nat
         /\ j.at \in Nat /\ j.seqno \in Nat
         /\ \A i \in 1..Len(j.plan) :
              j.plan[i].offset \in Nat /\ j.plan[i].length \in Nat
<1>1. j.plan \in Seq(Pair) /\ j.batch \in Batches
  BY DEF Job, PlanOf
<1>2. \A i \in 1..Len(j.plan) : j.plan[i] \in Pair
  BY <1>1
<1>3. \A i \in 1..Len(j.plan) :
        j.plan[i].offset \in Nat /\ j.plan[i].length \in Nat
  BY <1>2 DEF Pair
<1> QED
  BY <1>1, <1>3, Constants DEF Job

(* The data file of an open database.  *)
LEMMA DataNow ==
  ASSUME IInv, db = "open"
  PROVE  /\ data \in Store(DataAddress, Byte)
         /\ data.size \in Nat /\ data.end \in Nat /\ data.len \in Nat
         /\ data.mapStart \in Nat /\ data.mapLen \in Nat
         /\ data.bounds \in SUBSET Nat
         /\ data.cell \in [DataAddress -> Byte]
         /\ Shape(data, DataCap)
         /\ data.size <= data.end /\ data.end <= data.len
         /\ data.len <= DataCap
         /\ \A c \in data.bounds : c <= data.end
         /\ ~DataBusy => data.size = data.end
<1>1. data \in Store(DataAddress, Byte) /\ Shape(data, DataCap) /\ DataSize
  BY DEF IInv, TypeOK, Shapes
<1> QED
  BY <1>1 DEF Store, Shape, DataSize

(* The data file grows by the bytes of the plan: no record moves, and the  *)
(* new range is one slice.                                                 *)
LEMMA GrowDataStep ==
  ASSUME IInv, NEW w \in Writers, GrowData(w)
  PROVE  IInv'
<1>1. PICK j \in Job : j = job[w]
  BY DEF IInv, TypeOK
<1>2. /\ pc[w] = "plan" /\ db = "open" /\ lock = w
      /\ PlanOf(j, "plan") /\ DataPhaseOf(j, "plan") /\ ~DataBusy
      /\ Len(j.plan) = Len(j.batch)
      /\ \A i \in 1..Len(j.plan) : j.plan[i].length # 0
  BY <1>1, WriterNow DEF GrowData, Planned, HasEmptyRecord
<1>3. data.size = data.end /\ data.size <= j.next
  BY <1>2, DataNow DEF DataPhaseOf
<1>4. PICK ext \in Nat : ext = j.next - data.size
  BY <1>2, <1>3, DataNow, PlannedPairs
<1>5. /\ HasRoom(data, ext) \/ data.end + NewMmapSize(ext, DataMin) <= DataCap
      /\ data' = Grow(data, ext, DataMin, NoByte)
      /\ UNCHANGED <<index, db, search, lock, rd, log, acked>>
      /\ pc' = [pc EXCEPT ![w] = "data"]
  BY <1>1, <1>4 DEF GrowData, FitsData, DataInc
<1>6. IsGrown(DataAddress, Byte, NoByte, DataCap, data, ext, data')
  BY <1>2, <1>4, <1>5, DataNow, Constants, GrowFacts
<1>7. /\ data' \in Store(DataAddress, Byte) /\ Shape(data', DataCap)
      /\ data'.end = j.next /\ data'.size = data.size
      /\ data'.bounds = data.bounds \cup {j.next}
      /\ \A x \in DataAddress : x < data.size => data'.cell[x] = data.cell[x]
  <2>1. data.end + ext = j.next
    BY <1>2, <1>3, <1>4, DataNow, PlannedPairs
  <2> QED
    BY <1>3, <1>6, <2>1 DEF IsGrown
<1>8. PICK e \in Nat : e = data.end
  BY <1>2, DataNow
<1>9. PICK jj \in Job : jj = [j EXCEPT !.at = e]
  BY DEF Job
<1>10. /\ jj.batch = j.batch /\ jj.plan = j.plan /\ jj.next = j.next
       /\ jj.k = j.k /\ jj.at = e
  BY <1>9 DEF Job
<1>11. job' = [job EXCEPT ![w] = jj]
  BY <1>1, <1>8, <1>9 DEF GrowData
<1>12. PlanOf(jj, "data") /\ "data" \in Labels
  <2>1. \A i \in 1..Len(j.plan) : j.plan[i].length > 0
    BY <1>2, PlannedPairs
  <2> QED
    BY <1>2, <1>10, <2>1 DEF PlanOf, Labels
<1>13. DataPhaseOf(jj, "data")'
  <2>1. /\ j.k = 1 /\ Len(j.plan) > 0 /\ j.plan[1].offset = e
        /\ \A i \in 1..Len(j.plan) : e <= j.plan[i].offset
    BY <1>2, <1>3, <1>8, PlannedPairs DEF DataPhaseOf
  <2>2. \A i \in 1..Len(j.plan) :
          InOneSlice(data', j.plan[i].offset, j.plan[i].length)
    <3> SUFFICES ASSUME NEW i \in 1..Len(j.plan)
                 PROVE  InOneSlice(data', j.plan[i].offset, j.plan[i].length)
      OBVIOUS
    <3>1. PICK o \in Nat, n \in Nat :
            o = j.plan[i].offset /\ n = j.plan[i].length
      BY <1>2, PlannedPairs
    <3>2. o + n <= j.next /\ e <= o
      BY <1>2, <2>1, <3>1 DEF PlanOf
    <3>3. \A c \in data.bounds : c <= o
      BY <1>2, <1>8, <3>2, DataNow
    <3> QED
      BY <1>7, <3>1, <3>2, <3>3 DEF InOneSlice
  <2>3. j.next = data'.end /\ data'.size = e /\ e <= j.next
    BY <1>3, <1>7, <1>8
  <2> QED
    BY <1>10, <2>1, <2>2, <2>3 DEF DataPhaseOf
<1>14. IndexPhaseOf(jj, "data")'
  BY DEF IndexPhaseOf
<1>15. /\ (Mutex /\ Plan /\ DataPhase /\ IndexPhase)'
       /\ pc' \in [Writers -> Labels \cup {"idle"}]
       /\ job' \in [Writers -> Job]
       /\ lock' \in Writers \cup {NoWriter}
       /\ DataBusy' <=> "data" = "data"
       /\ IndexBusy' <=> "data" \in {"offset", "length"}
  BY <1>2, <1>5, <1>11, <1>12, <1>13, <1>14, WriterNext
<1>16. TypeOK'
  BY <1>5, <1>7, <1>15 DEF IInv, TypeOK, Labels
<1>17. (DataSize /\ IndexSize)'
  <2>1. DataSize'
    BY <1>3, <1>7, <1>15 DEF DataSize
  <2>2. index.size = Len(log) /\ index.end = Len(log)
    BY <1>2, WriterNow DEF IInv, IndexSize
  <2> QED
    BY <1>2, <1>5, <2>1, <2>2 DEF IndexSize
<1>18. (/\ Shapes /\ IndexTail /\ Entries /\ Ordered /\ DataOpen
        /\ Reads /\ Promises /\ Searching /\ Opens)'
  <2>1. data.size <= data.len' /\ data.size <= data.end'
    BY <1>2, <1>3, <1>7, DataNow, PlannedPairs DEF Shape, Store
  <2> QED
    BY <1>2, <1>3, <1>5, <1>7, <2>1, DataNow, DataFrame
<1> QED
  BY <1>15, <1>16, <1>17, <1>18 DEF IInv

(* A data file that could not grow is at most longer than before.          *)
LEMMA DataMapFailsStep ==
  ASSUME IInv, NEW w \in Writers, DataMapFails(w)
  PROVE  IInv'
<1>1. /\ pc[w] = "plan" /\ Release(w)
      /\ UNCHANGED <<index, db, search, rd, log, acked>>
  BY DEF DataMapFails, Planned
<1>2. /\ db = "open" /\ ~DataBusy /\ ~IndexBusy
      /\ \A v \in Writers : pc[v] \notin {"offset", "length", "publish"}
  BY <1>1, WriterNow
<1>3. /\ (Mutex /\ Plan /\ DataPhase /\ IndexPhase)'
      /\ pc' \in [Writers -> Labels \cup {"idle"}]
      /\ job' \in [Writers -> Job]
      /\ lock' \in Writers \cup {NoWriter}
      /\ ~DataBusy' /\ ~IndexBusy'
  BY <1>1, WriterDone
<1>4. CASE UNCHANGED data
  <2>1. TypeOK'
    BY <1>1, <1>3, <1>4 DEF IInv, TypeOK, Labels
  <2>2. (DataSize /\ IndexSize /\ Reads)'
    BY <1>1, <1>2, <1>4 DEF IInv, DataSize, IndexSize, Reads
  <2> QED
    BY <1>1, <1>3, <1>4, <2>1, <2>2, FilesFrame DEF IInv
<1>5. CASE FitsData(w) /\ data' = Extend(data, DataInc(w), DataMin, NoByte)
  <2>1. PICK j \in Job : j = job[w]
    BY DEF IInv, TypeOK
  <2>2. PlanOf(j, "plan") /\ DataPhaseOf(j, "plan")
    BY <1>1, <2>1, WriterNow
  <2>3. data.size = data.end /\ data.size <= j.next
    BY <1>2, <2>2, DataNow DEF DataPhaseOf
  <2>4. PICK ext \in Nat : ext = DataInc(w)
    BY <1>2, <2>1, <2>2, <2>3, DataNow, PlannedPairs DEF DataInc
  <2>5. PICK n \in Nat : n = NewMmapSize(ext, DataMin) /\ n >= ext
    BY NewMmapSizeFacts, Constants
  <2>6. PICK l \in Nat : l = data.end + n
    BY <1>2, DataNow
  <2>7. l <= DataCap
    BY <1>5, <2>4, <2>5, <2>6 DEF DataMapFails, FitsData
  <2>8. data' = SetLen(data, l, NoByte)
    BY <1>5, <2>4, <2>5, <2>6 DEF Extend
  <2>9. IsResized(DataAddress, Byte, NoByte, data, l, data')
    BY <1>2, <2>8, DataNow, Constants, SetLenFacts
  <2>10. /\ data' \in Store(DataAddress, Byte)
         /\ data'.len = l
         /\ data'.end = data.end /\ data'.bounds = data.bounds
         /\ data'.size = data.size
         /\ data'.mapStart = data.mapStart /\ data'.mapLen = data.mapLen
         /\ \A x \in DataAddress :
              x < l /\ x < data.len => data'.cell[x] = data.cell[x]
    BY <2>9 DEF IsResized
  <2>11. ~HasRoom(data, ext)
    BY <1>5, <2>4 DEF DataMapFails
  <2>12. Shape(data', DataCap) /\ data.size <= l /\ data.size <= data'.end
    <3>1. data.end + ext >= data.mapStart + data.mapLen
      BY <1>2, <2>11, DataNow DEF HasRoom
    <3>2. data.end <= l /\ data.mapStart + data.mapLen <= l
      BY <1>2, <2>5, <2>6, <3>1, DataNow
    <3>3. \A c \in data.bounds : c <= data.end
      BY <1>2, DataNow
    <3>4. Shape(data', DataCap)
      BY <2>7, <2>10, <3>2, <3>3 DEF Shape
    <3> QED
      BY <1>2, <2>3, <2>10, <3>2, <3>4, DataNow
  <2>13. \A x \in DataAddress : x < data.size => data'.cell[x] = data.cell[x]
    <3> SUFFICES ASSUME NEW x \in DataAddress, x < data.size
                 PROVE  x < l /\ x < data.len
      BY <2>10
    <3>1. x \in Nat
      BY Constants
    <3> QED
      BY <1>2, <2>12, <3>1, DataNow
  <2>14. (/\ Shapes /\ IndexTail /\ Entries /\ Ordered /\ DataOpen
          /\ Reads /\ Promises /\ Searching /\ Opens)'
    BY <1>1, <1>2, <2>3, <2>10, <2>12, <2>13, DataNow, DataFrame
  <2>15. TypeOK'
    BY <1>1, <1>3, <2>10 DEF IInv, TypeOK, Labels
  <2>16. (DataSize /\ IndexSize)'
    BY <1>1, <1>2, <2>10 DEF IInv, DataSize, IndexSize
  <2> QED
    BY <1>3, <2>14, <2>15, <2>16 DEF IInv
<1> QED
  BY <1>4, <1>5 DEF DataMapFails

(* The bytes of a record go behind all stored records and behind the ones  *)
(* of the batch written before.                                            *)
LEMMA WriteRecordStep ==
  ASSUME IInv, NEW w \in Writers, WriteRecord(w)
  PROVE  IInv'
<1>1. PICK j \in Job : j = job[w]
  BY DEF IInv, TypeOK
<1>2. /\ pc[w] = "data" /\ db = "open" /\ lock = w
      /\ PlanOf(j, "data") /\ DataPhaseOf(j, "data")
      /\ j.k <= Len(j.batch)
  BY <1>1, WriterNow DEF WriteRecord
<1>k. j.k \in 1..Len(j.plan) /\ Len(j.plan) = Len(j.batch)
  BY <1>2, PlannedPairs DEF PlanOf
<1>3. /\ j.at = j.plan[j.k].offset
      /\ \A i \in 1..j.k - 1 : Holds(j.plan[i], j.batch[i])
      /\ \A i \in 1..Len(j.plan) :
           /\ InOneSlice(data, j.plan[i].offset, j.plan[i].length)
           /\ data.size <= j.plan[i].offset
           /\ j.plan[i].length = RecLen[j.batch[i]]
      /\ \A i, h \in 1..Len(j.plan) : i < h =>
           j.plan[i].offset + j.plan[i].length <= j.plan[h].offset
      /\ \A i \in 1..Len(j.plan) : i + 1 <= Len(j.plan) =>
           j.plan[i + 1].offset = j.plan[i].offset + j.plan[i].length
  BY <1>2 DEF PlanOf, DataPhaseOf
<1>4. PICK r \in Records : r = j.batch[j.k]
  BY <1>2, <1>3, <1>k, PlannedPairs
<1>5. PICK n \in Nat : n = RecLen[r]
  BY Constants
<1>6. PICK o \in Nat : o = j.at
  BY <1>2, PlannedPairs
<1>7. PICK f \in [DataAddress -> Byte] :
        f = [a \in DataAddress |->
               IF o <= a /\ a < o + n THEN <<r, a - o>> ELSE data.cell[a]]
  <2> SUFFICES ASSUME NEW a \in DataAddress
               PROVE  (IF o <= a /\ a < o + n THEN <<r, a - o>>
                       ELSE data.cell[a]) \in Byte
    OBVIOUS
  <2>1. a \in Nat /\ data.cell[a] \in Byte
    BY <1>2, Constants, DataNow
  <2>2. o <= a => <<r, a - o>> \in Byte
    BY <2>1 DEF Byte
  <2> QED
    BY <2>1, <2>2
<1>8. data' = [data EXCEPT !.cell = f]
  BY <1>1, <1>4, <1>5, <1>6, <1>7 DEF WriteRecord
<1>9. /\ data' \in Store(DataAddress, Byte)
      /\ data'.cell = f /\ data'.len = data.len /\ data'.end = data.end
      /\ data'.bounds = data.bounds /\ data'.size = data.size
      /\ data'.mapStart = data.mapStart /\ data'.mapLen = data.mapLen
  BY <1>2, <1>8, DataNow DEF Store
<1>10. PICK x \in Nat : x = o + n
  OBVIOUS
<1>11. PICK y \in Nat : y = j.k + 1
  BY <1>2, PlannedPairs
<1>12. PICK jj \in Job : jj = [j EXCEPT !.k = y, !.at = x]
  BY DEF Job
<1>13. /\ jj.batch = j.batch /\ jj.plan = j.plan /\ jj.next = j.next
       /\ jj.k = y /\ jj.at = x
  BY <1>12 DEF Job
<1>14. /\ job' = [job EXCEPT ![w] = jj]
       /\ UNCHANGED <<index, db, search, lock, pc, rd, log, acked>>
  BY <1>1, <1>4, <1>5, <1>6, <1>10, <1>11, <1>12 DEF WriteRecord
<1>15. PlanOf(jj, "data")
  BY <1>2, <1>11, <1>13, PlannedPairs DEF PlanOf
<1>16. j.plan[j.k].length = n /\ j.plan[j.k].offset = o
  BY <1>3, <1>k, <1>4, <1>5, <1>6
<1>17. \A i \in 1..j.k : Holds(j.plan[i], j.batch[i])'
  <2> SUFFICES ASSUME NEW i \in 1..j.k
               PROVE  Holds(j.plan[i], j.batch[i])'
    OBVIOUS
  <2>0. i \in 1..Len(j.plan) /\ j.k \in 1..Len(j.plan)
    BY <1>2, <1>3, <1>k, PlannedPairs
  <2>1. PICK p \in Nat, q \in Nat : p = j.plan[i].offset /\ q = j.plan[i].length
    BY <1>2, <2>0, PlannedPairs
  <2>2. p + q <= data.end /\ q = RecLen[j.batch[i]]
    BY <1>3, <1>k, <2>0, <2>1 DEF InOneSlice
  <2>3. p + q <= data'.len
    BY <1>2, <1>9, <2>2, DataNow
  <2>4. CASE i = j.k
    <3>1. p = o /\ q = n /\ j.batch[i] = r
      BY <1>4, <1>16, <2>1, <2>4
    <3>2. \A a \in DataAddress : p <= a /\ a < p + q => f[a] = <<r, a - p>>
      BY <1>7, <3>1
    <3> QED
      BY <1>9, <2>1, <2>2, <2>3, <3>1, <3>2 DEF Holds
  <2>5. CASE i # j.k
    <3>1. i \in 1..j.k - 1 /\ i < j.k
      BY <1>2, <2>0, <2>5, PlannedPairs
    <3>2. p + q <= o /\ Holds(j.plan[i], j.batch[i])
      BY <1>3, <1>k, <1>16, <2>0, <2>1, <3>1
    <3>3. \A a \in DataAddress :
            p <= a /\ a < p + q => data.cell[a] = <<j.batch[i], a - p>>
      BY <2>1, <3>2 DEF Holds
    <3>4. \A a \in DataAddress : a < p + q => f[a] = data.cell[a]
      <4> SUFFICES ASSUME NEW a \in DataAddress, a < p + q
                   PROVE  f[a] = data.cell[a]
        OBVIOUS
      <4>1. a \in Nat /\ ~(o <= a)
        BY <3>2, Constants
      <4> QED
        BY <1>7, <4>1
    <3> QED
      BY <1>9, <2>1, <2>2, <2>3, <3>3, <3>4 DEF Holds
  <2> QED
    BY <2>4, <2>5
<1>18. DataPhaseOf(jj, "data")'
  <2>1. y <= Len(j.batch) => x = j.plan[y].offset
    BY <1>2, <1>3, <1>k, <1>10, <1>11, <1>16, PlannedPairs
  <2>2. \A i \in 1..y - 1 : Holds(j.plan[i], j.batch[i])'
    BY <1>2, <1>11, <1>17, PlannedPairs
  <2>3. \A i \in 1..Len(j.plan) :
          InOneSlice(data', j.plan[i].offset, j.plan[i].length)
    BY <1>3, <1>k, <1>9 DEF InOneSlice
  <2>4. /\ data'.size <= j.next /\ j.next = data'.end
        /\ Len(j.plan) > 0 => j.plan[1].offset = data'.size
        /\ \A i \in 1..Len(j.plan) : data'.size <= j.plan[i].offset
    BY <1>2, <1>9 DEF DataPhaseOf
  <2> QED
    BY <1>13, <2>1, <2>2, <2>3, <2>4 DEF DataPhaseOf
<1>19. IndexPhaseOf(jj, "data")'
  BY DEF IndexPhaseOf
<1>20. pc' = [pc EXCEPT ![w] = "data"] /\ "data" \in Labels
  BY <1>2, <1>14 DEF IInv, TypeOK, Labels
<1>21. /\ (Mutex /\ Plan /\ DataPhase /\ IndexPhase)'
       /\ pc' \in [Writers -> Labels \cup {"idle"}]
       /\ job' \in [Writers -> Job]
       /\ DataBusy' <=> "data" = "data"
  BY <1>2, <1>14, <1>15, <1>18, <1>19, <1>20, WriterNext
<1>22. TypeOK'
  BY <1>9, <1>14, <1>21 DEF IInv, TypeOK, Labels
<1>23. (DataSize /\ IndexSize)'
  BY <1>9, <1>14, <1>21 DEF IInv, DataSize, IndexSize, IndexBusy
<1>24. (/\ Shapes /\ IndexTail /\ Entries /\ Ordered /\ DataOpen
        /\ Reads /\ Promises /\ Searching /\ Opens)'
  <2>1. data.size <= o
    BY <1>3, <1>k, <1>16
  <2>2. \A a \in DataAddress : a < data.size => data'.cell[a] = data.cell[a]
    <3> SUFFICES ASSUME NEW a \in DataAddress, a < data.size
                 PROVE  f[a] = data.cell[a]
      BY <1>9
    <3>1. a \in Nat /\ ~(o <= a)
      BY <1>2, <2>1, Constants, DataNow
    <3> QED
      BY <1>7, <3>1
  <2>3. Shape(data', DataCap)
    BY <1>2, <1>9, DataNow DEF Shape
  <2>4. data.size <= data'.size /\ data.size <= data'.len /\ data.size <= data'.end
    BY <1>2, <1>9, DataNow
  <2> QED
    BY <1>2, <1>9, <1>14, <2>2, <2>3, <2>4, DataFrame
<1> QED
  BY <1>21, <1>22, <1>23, <1>24 DEF IInv

(* The size that is stored is the end of the data, and merging the maps    *)
(* cuts no record.                                                         *)
LEMMA FinishDataStep ==
  ASSUME IInv, NEW w \in Writers, FinishData(w)
  PROVE  IInv'
<1>1. PICK j \in Job : j = job[w]
  BY DEF IInv, TypeOK
<1>2. /\ pc[w] = "data" /\ db = "open" /\ lock = w
      /\ PlanOf(j, "data") /\ DataPhaseOf(j, "data")
      /\ j.k > Len(j.batch)
  BY <1>1, WriterNow DEF FinishData
<1>3. /\ j.next = data.end /\ Len(j.plan) = Len(j.batch)
      /\ \A i \in 1..Len(j.plan) :
           /\ InOneSlice(data, j.plan[i].offset, j.plan[i].length)
           /\ data.size <= j.plan[i].offset
           /\ Holds(j.plan[i], j.batch[i])
  BY <1>2, PlannedPairs DEF PlanOf, DataPhaseOf
<1>4. PICK x \in Nat : x = j.next
  BY <1>2, PlannedPairs
<1>5. PICK s \in Store(DataAddress, Byte) :
        /\ s = RearrangeMmaps(data)
        /\ s.len = data.len /\ s.cell = data.cell /\ s.end = data.end
        /\ s.size = data.size
        /\ s.mapStart = data.mapStart /\ s.mapLen = data.mapLen
        /\ s.bounds \subseteq data.bounds
  <2>1. IsRearranged(DataAddress, Byte, data, RearrangeMmaps(data))
    BY <1>2, DataNow, Constants, RearrangeFacts
  <2> QED
    BY <2>1 DEF IsRearranged
<1>6. /\ data' = [s EXCEPT !.size = x]
      /\ pc' = [pc EXCEPT ![w] = "index"]
      /\ UNCHANGED <<index, db, search, lock, job, rd, log, acked>>
  BY <1>1, <1>4, <1>5 DEF FinishData
<1>7. /\ data' \in Store(DataAddress, Byte)
      /\ data'.cell = data.cell /\ data'.len = data.len
      /\ data'.end = data.end /\ data'.bounds \subseteq data.bounds
      /\ data'.size = x
      /\ data'.mapStart = data.mapStart /\ data'.mapLen = data.mapLen
  BY <1>5, <1>6 DEF Store
<1>8. PlanOf(j, "index") /\ "index" \in Labels
  BY <1>2 DEF PlanOf, Labels
<1>9. \A i \in 1..Len(j.plan) :
        /\ InOneSlice(data', j.plan[i].offset, j.plan[i].length)
        /\ Holds(j.plan[i], j.batch[i])'
  BY <1>3, <1>7 DEF InOneSlice, Holds
<1>10. DataPhaseOf(j, "index")'
  BY <1>9 DEF DataPhaseOf
<1>11. IndexPhaseOf(j, "index")'
  <2>1. \A i \in 1..Len(j.plan), e \in 1..Len(log) :
          (Entry(e).offset + Entry(e).length <= j.plan[i].offset)'
    <3> SUFFICES ASSUME NEW i \in 1..Len(j.plan), NEW e \in 1..Len(log)
                 PROVE  Entry(e).offset + Entry(e).length <= j.plan[i].offset
      BY <1>6 DEF Entry
    <3>1. Entry(e).offset + Entry(e).length <= data.size
      BY <1>2 DEF IInv, DataOpen
    <3>2. data.size <= j.plan[i].offset /\ j.plan[i].offset \in Nat
      BY <1>2, <1>3, PlannedPairs
    <3>3. e - 1 \in IndexAddress
      <4>1. index.len \in Nat /\ index.len <= IndexCap /\ IndexCap \in Nat
            /\ Len(log) \in Nat
        BY Constants DEF IInv, TypeOK, Store, Shapes, Shape
      <4> QED
        BY <4>1 DEF IInv, IndexTail, IndexAddress
    <3>4. Entry(e).offset \in Nat /\ Entry(e).length \in Nat
      BY <3>3 DEF IInv, TypeOK, Store, Entry, Pair
    <3>5. data.size \in Nat
      BY <1>2, DataNow
    <3> QED
      BY <3>1, <3>2, <3>4, <3>5
  <2>2. (log' = log) /\ j.next <= data'.size
    BY <1>4, <1>6, <1>7
  <2> QED
    BY <1>9, <2>1, <2>2 DEF IndexPhaseOf
<1>12. job' = [job EXCEPT ![w] = j]
  BY <1>1, <1>6 DEF IInv, TypeOK
<1>13. /\ (Mutex /\ Plan /\ DataPhase /\ IndexPhase)'
       /\ pc' \in [Writers -> Labels \cup {"idle"}]
       /\ job' \in [Writers -> Job]
  BY <1>2, <1>6, <1>8, <1>10, <1>11, <1>12, WriterNext
<1>14. TypeOK'
  BY <1>6, <1>7, <1>13 DEF IInv, TypeOK, Labels
<1>15. (DataSize /\ IndexSize)'
  <2>1. index.size = Len(log) /\ index.end = Len(log)
    BY <1>2, WriterNow DEF IInv, IndexSize
  <2>2. data'.size = data'.end
    BY <1>3, <1>4, <1>7
  <2> QED
    BY <1>2, <1>4, <1>6, <2>1, <2>2 DEF DataSize, IndexSize
<1>16. (/\ Shapes /\ IndexTail /\ Entries /\ Ordered /\ DataOpen
        /\ Reads /\ Promises /\ Searching /\ Opens)'
  <2>1. /\ data.size <= data'.size /\ data.size <= data'.len
        /\ data.size <= data'.end
    BY <1>2, <1>3, <1>4, <1>7, DataNow
  <2>2. Shape(data', DataCap)
    BY <1>2, <1>7, DataNow DEF Shape
  <2> QED
    BY <1>2, <1>6, <1>7, <2>1, <2>2, DataFrame
<1> QED
  BY <1>13, <1>14, <1>15, <1>16 DEF IInv

(* The seqno file, at any time.  *)
LEMMA IndexNow ==
  ASSUME IInv
  PROVE  /\ index \in Store(IndexAddress, Pair)
         /\ index.size \in Nat /\ index.end \in Nat /\ index.len \in Nat
         /\ index.mapStart \in Nat /\ index.mapLen \in Nat
         /\ index.bounds \in SUBSET Nat
         /\ index.cell \in [IndexAddress -> Pair]
         /\ Shape(index, IndexCap)
         /\ index.end <= index.len /\ index.len <= IndexCap
         /\ index.mapStart + index.mapLen <= index.len
         /\ log \in Seq(Records) /\ Len(log) \in Nat /\ Len(log) <= index.len
         /\ \A i \in 1..Len(log) : LengthAt(i - 1) > 0
         /\ \A x \in IndexAddress : x >= Len(log) => LengthAt(x) = 0
         /\ \A x \in Nat : x < IndexCap => x \in IndexAddress
<1>1. index \in Store(IndexAddress, Pair) /\ Shape(index, IndexCap)
      /\ IndexTail /\ log \in Seq(Records)
  BY DEF IInv, TypeOK, Shapes
<1>2. \A x \in Nat : x < IndexCap => x \in IndexAddress
  BY Constants DEF IndexAddress
<1> QED
  BY <1>1, <1>2 DEF Store, Shape, IndexTail

(* The pairs of the log.  *)
LEMMA EntryFacts ==
  ASSUME IInv
  PROVE  \A i \in 1..Len(log) :
           /\ i \in Nat /\ i - 1 \in IndexAddress
           /\ Entry(i) \in Pair
           /\ Entry(i).offset \in Nat /\ Entry(i).length \in Nat
           /\ Holds(Entry(i), log[i])
<1> SUFFICES ASSUME NEW i \in 1..Len(log)
             PROVE  /\ i \in Nat /\ i - 1 \in IndexAddress
                    /\ Entry(i) \in Pair
                    /\ Entry(i).offset \in Nat /\ Entry(i).length \in Nat
                    /\ Holds(Entry(i), log[i])
  OBVIOUS
<1>1. i \in Nat /\ i - 1 \in Nat /\ i - 1 < IndexCap
  BY IndexNow, Constants
<1>2. i - 1 \in IndexAddress
  BY <1>1, IndexNow
<1>3. Entry(i) \in Pair
  BY <1>2, IndexNow DEF Entry
<1> QED
  BY <1>1, <1>2, <1>3 DEF Pair, IInv, Entries

(* A step on the seqno file that leaves alone the pairs of the log and     *)
(* writes no length behind them.                                           *)
LEMMA IndexFrame ==
  ASSUME IInv, index' \in Store(IndexAddress, Pair),
         UNCHANGED <<data, log, acked>>,
         Shape(index, IndexCap)',
         Len(log) <= index.len',
         \A x \in IndexAddress : x < Len(log) => index'.cell[x] = index.cell[x],
         \A x \in IndexAddress : x >= Len(log) => index'.cell[x].length = 0,
         db' \in {"open", "dropping"} => db \in {"open", "dropping"}
  PROVE  /\ (/\ Shapes /\ IndexTail /\ Entries /\ Ordered /\ DataOpen
             /\ Promises)'
         /\ rd' = rd => Reads'
<1>1. \A i \in 1..Len(log) : Entry(i)' = Entry(i)
  <2> SUFFICES ASSUME NEW i \in 1..Len(log)
               PROVE  index'.cell[i - 1] = index.cell[i - 1]
    BY DEF Entry
  <2>1. i - 1 \in IndexAddress /\ i - 1 < Len(log)
    BY EntryFacts, IndexNow
  <2> QED
    BY <2>1
<1>2. Shapes'
  BY DEF IInv, Shapes
<1>3. IndexTail'
  <2>1. \A i \in 1..Len(log) : LengthAt(i - 1)' > 0
    BY <1>1, IndexNow DEF Entry, LengthAt
  <2> QED
    BY <2>1 DEF IndexTail, LengthAt
<1>4. Entries' /\ Ordered'
  BY <1>1 DEF IInv, Entries, Ordered, Holds
<1>5. DataOpen'
  BY <1>1 DEF IInv, DataOpen
<1>6. Promises'
  BY DEF IInv, Promises
<1>7. rd' = rd => Reads'
  <2> SUFFICES ASSUME rd' = rd, NEW r \in Readers, rd[r].busy
               PROVE  /\ rd[r].seqno < Len(log)
                      /\ rd[r].pair = index'.cell[rd[r].seqno]
    BY DEF Reads
  <2>1. /\ rd[r].seqno < Len(log) /\ rd[r].pair = index.cell[rd[r].seqno]
        /\ rd[r].seqno \in Nat
    BY DEF IInv, TypeOK, Reads
  <2>2. rd[r].seqno \in IndexAddress
    BY <2>1, IndexNow, Constants
  <2> QED
    BY <2>1, <2>2
<1> QED
  BY <1>2, <1>3, <1>4, <1>5, <1>6, <1>7

(* The pairs that are added to the seqno file are zero until they are      *)
(* written.                                                                *)
LEMMA GrowIndexStep ==
  ASSUME IInv, NEW w \in Writers, GrowIndex(w)
  PROVE  IInv'
<1>1. PICK j \in Job : j = job[w]
  BY DEF IInv, TypeOK
<1>2. /\ pc[w] = "index" /\ db = "open" /\ lock = w
      /\ PlanOf(j, "index") /\ DataPhaseOf(j, "index")
      /\ IndexPhaseOf(j, "index")
  BY <1>1, WriterNow DEF GrowIndex
<1>3. index.end = Len(log) /\ index.size = Len(log)
  BY <1>2, WriterNow DEF IInv, IndexSize
<1>4. PICK ext \in Nat : ext = Len(j.batch) /\ ext > 0
  BY <1>2, PlannedPairs
<1>5. /\ HasRoom(index, ext)
         \/ index.end + NewMmapSize(ext, IndexMin) <= IndexCap
      /\ index' = Grow(index, ext, IndexMin, NoPair)
      /\ UNCHANGED <<data, db, search, lock, rd, log, acked>>
      /\ pc' = [pc EXCEPT ![w] = "offset"]
  BY <1>1, <1>4 DEF GrowIndex, FitsIndex, IndexInc
<1>6. IsGrown(IndexAddress, Pair, NoPair, IndexCap, index, ext, index')
  BY <1>4, <1>5, IndexNow, Constants, GrowFacts
<1>7. /\ index' \in Store(IndexAddress, Pair) /\ Shape(index', IndexCap)
      /\ index'.end = Len(log) + ext /\ index'.size = Len(log)
      /\ \A x \in IndexAddress : x < Len(log) => index'.cell[x] = index.cell[x]
      /\ \A x \in IndexAddress :
           index'.cell[x] = index.cell[x] \/ index'.cell[x] = NoPair
  BY <1>3, <1>6 DEF IsGrown
<1>8. PICK e \in Nat : e = Len(log)
  BY IndexNow
<1>9. PICK jj \in Job : jj = [j EXCEPT !.k = 1, !.at = e, !.seqno = e]
  BY DEF Job
<1>10. /\ jj.batch = j.batch /\ jj.plan = j.plan /\ jj.next = j.next
       /\ jj.k = 1 /\ jj.at = e /\ jj.seqno = e
  BY <1>9 DEF Job
<1>11. job' = [job EXCEPT ![w] = jj]
  BY <1>1, <1>3, <1>8, <1>9 DEF GrowIndex
<1>12. PlanOf(jj, "offset") /\ "offset" \in Labels
  <2>1. jj.k \in 1..Len(j.batch) + 1
    BY <1>2, <1>10, PlannedPairs
  <2> QED
    BY <1>2, <1>10, <2>1 DEF PlanOf, Labels
<1>13. (/\ Shapes /\ IndexTail /\ Entries /\ Ordered /\ DataOpen
        /\ Reads /\ Promises)'
  <2>1. \A x \in IndexAddress : x >= Len(log) => index'.cell[x].length = 0
    BY <1>7, IndexNow DEF NoPair, LengthAt
  <2>2. Len(log) <= index'.len
    <3>1. index'.len \in Nat /\ index'.end <= index'.len
      BY <1>7 DEF Shape, Store
    <3> QED
      BY <1>4, <1>7, <3>1, IndexNow
  <2> QED
    BY <1>5, <1>7, <2>1, <2>2, IndexFrame
<1>14. \A i \in 1..Len(log) : Entry(i)' = Entry(i)
  <2> SUFFICES ASSUME NEW i \in 1..Len(log)
               PROVE  index'.cell[i - 1] = index.cell[i - 1]
    BY DEF Entry
  <2>1. i - 1 \in IndexAddress /\ i - 1 < Len(log)
    BY EntryFacts, IndexNow
  <2> QED
    BY <1>7, <2>1
<1>15. DataPhaseOf(jj, "offset")'
  BY <1>2, <1>5, <1>10 DEF DataPhaseOf
<1>16. IndexPhaseOf(jj, "offset")'
  <2>1. /\ (jj.next <= data.size)'
        /\ \A i \in 1..Len(jj.plan) : Holds(jj.plan[i], jj.batch[i])'
    BY <1>2, <1>5, <1>10 DEF IndexPhaseOf, Holds
  <2>2. \A i \in jj.k..Len(jj.plan), n \in 1..Len(log) :
          (Entry(n).offset + Entry(n).length <= jj.plan[i].offset)'
    BY <1>2, <1>10, <1>14 DEF IndexPhaseOf
  <2>3. /\ jj.at = Len(log) /\ Len(log) = jj.seqno + jj.k - 1
        /\ index'.end = Len(log) + Len(jj.batch) - (jj.k - 1)
        /\ index'.size = jj.seqno
    BY <1>4, <1>7, <1>8, <1>10
  <2>4. \A i \in 1..Len(jj.batch) : ~(i < jj.k)
    BY <1>2, <1>10, PlannedPairs
  <2>5. log' = log
    BY <1>5
  <2> QED
    BY <2>1, <2>2, <2>3, <2>4, <2>5 DEF IndexPhaseOf
<1>17. /\ (Mutex /\ Plan /\ DataPhase /\ IndexPhase)'
       /\ pc' \in [Writers -> Labels \cup {"idle"}]
       /\ job' \in [Writers -> Job]
       /\ DataBusy' <=> "offset" = "data"
       /\ IndexBusy' <=> "offset" \in {"offset", "length"}
       /\ (\A v \in Writers : pc'[v] \notin {"offset", "length", "publish"})
            <=> "offset" \notin {"offset", "length", "publish"}
  BY <1>2, <1>5, <1>11, <1>12, <1>15, <1>16, WriterNext
<1>18. TypeOK'
  BY <1>5, <1>7, <1>17 DEF IInv, TypeOK, Labels
<1>19. (DataSize /\ IndexSize)'
  <2>1. ~DataBusy
    BY <1>2, WriterNow
  <2> QED
    BY <1>2, <1>5, <1>17, <2>1 DEF IInv, DataSize, IndexSize
<1>20. (Searching /\ Opens)'
  BY <1>2, <1>5 DEF Searching, Opens, NeverDamaged
<1> QED
  BY <1>13, <1>17, <1>18, <1>19, <1>20 DEF IInv

(* A seqno file that could not grow has no length behind the log; the      *)
(* data already written is behind all its records.                         *)
LEMMA IndexMapFailsStep ==
  ASSUME IInv, NEW w \in Writers, IndexMapFails(w)
  PROVE  IInv'
<1>1. /\ pc[w] = "index" /\ Release(w)
      /\ UNCHANGED <<data, db, search, rd, log, acked>>
  BY DEF IndexMapFails
<1>2. /\ db = "open" /\ ~DataBusy /\ ~IndexBusy
      /\ \A v \in Writers : pc[v] \notin {"offset", "length", "publish"}
  BY <1>1, WriterNow
<1>3. /\ (Mutex /\ Plan /\ DataPhase /\ IndexPhase)'
      /\ pc' \in [Writers -> Labels \cup {"idle"}]
      /\ job' \in [Writers -> Job]
      /\ lock' \in Writers \cup {NoWriter}
      /\ ~DataBusy' /\ ~IndexBusy'
  BY <1>1, WriterDone
<1>4. CASE UNCHANGED index
  <2>1. TypeOK'
    BY <1>1, <1>3, <1>4 DEF IInv, TypeOK, Labels
  <2>2. (DataSize /\ IndexSize /\ Reads)'
    BY <1>1, <1>2, <1>4 DEF IInv, DataSize, IndexSize, Reads
  <2> QED
    BY <1>1, <1>3, <1>4, <2>1, <2>2, FilesFrame DEF IInv
<1>5. CASE FitsIndex(w) /\ index' = Extend(index, IndexInc(w), IndexMin, NoPair)
  <2>1. PICK j \in Job : j = job[w]
    BY DEF IInv, TypeOK
  <2>2. PlanOf(j, "index") /\ index.end = Len(log) /\ index.size = Len(log)
    BY <1>1, <1>2, <2>1, WriterNow DEF IInv, IndexSize
  <2>3. PICK ext \in Nat : ext = IndexInc(w)
    BY <2>1, <2>2, PlannedPairs DEF IndexInc
  <2>4. PICK n \in Nat : n = NewMmapSize(ext, IndexMin) /\ n >= ext
    BY NewMmapSizeFacts, Constants
  <2>5. PICK l \in Nat : l = index.end + n
    BY IndexNow
  <2>6. l <= IndexCap /\ ~HasRoom(index, ext)
    BY <1>5, <2>3, <2>4, <2>5 DEF IndexMapFails, FitsIndex
  <2>7. index' = SetLen(index, l, NoPair)
    BY <1>5, <2>3, <2>4, <2>5 DEF Extend
  <2>8. IsResized(IndexAddress, Pair, NoPair, index, l, index')
    BY <2>7, IndexNow, Constants, SetLenFacts
  <2>9. /\ index' \in Store(IndexAddress, Pair)
        /\ index'.len = l
        /\ index'.end = index.end /\ index'.bounds = index.bounds
        /\ index'.size = index.size
        /\ index'.mapStart = index.mapStart /\ index'.mapLen = index.mapLen
        /\ \A x \in IndexAddress :
             x < l /\ x < index.len => index'.cell[x] = index.cell[x]
        /\ \A x \in IndexAddress :
             ~(x < l /\ x < index.len) => index'.cell[x] = NoPair
    BY <2>8 DEF IsResized
  <2>10. Shape(index', IndexCap) /\ Len(log) <= l
    <3>1. index.end + ext >= index.mapStart + index.mapLen
      BY <2>6, IndexNow DEF HasRoom
    <3>2. index.end <= l /\ index.mapStart + index.mapLen <= l
      <4>1. /\ index.end \in Nat /\ index.mapStart \in Nat
            /\ index.mapLen \in Nat
        BY IndexNow
      <4> QED
        BY <2>4, <2>5, <3>1, <4>1
    <3>3. \A c \in index.bounds : c <= index.end
      BY IndexNow DEF Shape
    <3>4. Shape(index', IndexCap)
      BY <2>6, <2>9, <3>2, <3>3 DEF Shape
    <3> QED
      BY <2>2, <3>2, <3>4
  <2>11. \A x \in IndexAddress : x < Len(log) => index'.cell[x] = index.cell[x]
    <3> SUFFICES ASSUME NEW x \in IndexAddress, x < Len(log)
                 PROVE  x < l /\ x < index.len
      BY <2>9
    <3>1. x \in Nat
      BY Constants
    <3> QED
      BY <2>10, <3>1, IndexNow
  <2>12. \A x \in IndexAddress : x >= Len(log) => index'.cell[x].length = 0
    BY <2>9, IndexNow DEF NoPair, LengthAt
  <2>13. (/\ Shapes /\ IndexTail /\ Entries /\ Ordered /\ DataOpen
          /\ Reads /\ Promises)'
    BY <1>1, <2>9, <2>10, <2>11, <2>12, IndexFrame
  <2>14. TypeOK'
    BY <1>1, <1>3, <2>9 DEF IInv, TypeOK, Labels
  <2>15. (DataSize /\ IndexSize)'
    BY <1>1, <1>2, <2>2, <2>9 DEF IInv, DataSize, IndexSize
  <2>16. (Searching /\ Opens)'
    BY <1>1, <1>2 DEF Searching, Opens, NeverDamaged
  <2> QED
    BY <1>3, <2>13, <2>14, <2>15, <2>16 DEF IInv
<1> QED
  BY <1>4, <1>5 DEF IndexMapFails

(* An offset without its length does not make a pair.                      *)
LEMMA WriteOffsetStep ==
  ASSUME IInv, NEW w \in Writers, WriteOffset(w)
  PROVE  IInv'
<1>1. PICK j \in Job : j = job[w]
  BY DEF IInv, TypeOK
<1>2. /\ pc[w] = "offset" /\ db = "open" /\ lock = w
      /\ PlanOf(j, "offset") /\ DataPhaseOf(j, "offset")
      /\ IndexPhaseOf(j, "offset")
      /\ j.k <= Len(j.batch)
  BY <1>1, WriterNow DEF WriteOffset
<1>3. /\ j.k \in 1..Len(j.plan)
      /\ j.at = Len(log) /\ index.end = Len(log) + Len(j.batch) - (j.k - 1)
      /\ Len(log) = j.seqno + j.k - 1
  <2>1. Len(j.plan) = Len(j.batch) /\ j.k \in 1..Len(j.batch) + 1
    BY <1>2 DEF PlanOf
  <2> QED
    BY <1>2, <2>1, PlannedPairs DEF IndexPhaseOf
<1>4. j.at \in IndexAddress
  <2>1. Len(log) < index.end
    <3>1. PICK N \in Nat, k \in Nat : N = Len(j.batch) /\ k = j.k /\ k <= N
      BY <1>2, PlannedPairs
    <3>2. PICK L \in Nat : L = Len(log) /\ index.end = L + N - (k - 1)
      BY <1>3, <3>1, IndexNow
    <3> QED
      BY <3>1, <3>2
  <2> QED
    BY <1>3, <2>1, IndexNow, Constants
<1>5. PICK at \in IndexAddress : at = j.at
  BY <1>4
<1>6. PICK o \in Nat : o = j.plan[j.k].offset
  BY <1>2, <1>3, PlannedPairs
<1>7. PICK p \in Pair : p = [index.cell[at] EXCEPT !.offset = o]
  <2>1. index.cell[at] \in Pair
    BY IndexNow
  <2> QED
    BY <2>1 DEF Pair
<1>8. p.offset = o /\ p.length = index.cell[at].length
  <2>1. index.cell[at] \in Pair
    BY IndexNow
  <2> QED
    BY <1>7, <2>1 DEF Pair
<1>9. PICK f \in [IndexAddress -> Pair] : f = [index.cell EXCEPT ![at] = p]
  BY IndexNow
<1>10. index' = [index EXCEPT !.cell = f]
  BY <1>1, <1>5, <1>6, <1>7, <1>9, IndexNow DEF WriteOffset, Store
<1>11. /\ index' \in Store(IndexAddress, Pair)
       /\ index'.cell = f /\ index'.len = index.len /\ index'.end = index.end
       /\ index'.bounds = index.bounds /\ index'.size = index.size
       /\ index'.mapStart = index.mapStart /\ index'.mapLen = index.mapLen
  BY <1>10, IndexNow DEF Store
<1>12. /\ \A x \in IndexAddress : x # at => f[x] = index.cell[x]
       /\ f[at] = p
  BY <1>9, IndexNow
<1>13. /\ pc' = [pc EXCEPT ![w] = "length"]
       /\ UNCHANGED <<data, db, search, lock, job, rd, log, acked>>
  BY DEF WriteOffset
<1>14. \A x \in IndexAddress : x < Len(log) => index'.cell[x] = index.cell[x]
  <2> SUFFICES ASSUME NEW x \in IndexAddress, x < Len(log)
               PROVE  x # at
    BY <1>11, <1>12
  <2> QED
    BY <1>3, <1>5, IndexNow
<1>15. \A x \in IndexAddress : x >= Len(log) => index'.cell[x].length = 0
  BY <1>8, <1>11, <1>12, IndexNow DEF LengthAt
<1>16. (/\ Shapes /\ IndexTail /\ Entries /\ Ordered /\ DataOpen
        /\ Reads /\ Promises)'
  <2>1. Shape(index', IndexCap) /\ Len(log) <= index'.len
    BY <1>11, IndexNow DEF Shape
  <2> QED
    BY <1>11, <1>13, <1>14, <1>15, <2>1, IndexFrame
<1>17. \A i \in 1..Len(log) : Entry(i)' = Entry(i)
  <2> SUFFICES ASSUME NEW i \in 1..Len(log)
               PROVE  index'.cell[i - 1] = index.cell[i - 1]
    BY DEF Entry
  <2>1. i - 1 \in IndexAddress /\ i - 1 < Len(log)
    BY EntryFacts, IndexNow
  <2> QED
    BY <1>14, <2>1
<1>18. PlanOf(j, "length") /\ "length" \in Labels
  BY <1>2 DEF PlanOf, Labels
<1>19. DataPhaseOf(j, "length")'
  BY <1>2, <1>13 DEF DataPhaseOf
<1>20. IndexPhaseOf(j, "length")'
  <2>1. /\ (j.next <= data.size)'
        /\ \A i \in 1..Len(j.plan) : Holds(j.plan[i], j.batch[i])'
    BY <1>2, <1>13 DEF IndexPhaseOf, Holds
  <2>2. \A i \in j.k..Len(j.plan), n \in 1..Len(log) :
          (Entry(n).offset + Entry(n).length <= j.plan[i].offset)'
    BY <1>2, <1>17 DEF IndexPhaseOf
  <2>3. /\ index'.end = Len(log) + Len(j.batch) - (j.k - 1)
        /\ index'.size = j.seqno
        /\ \A i \in 1..Len(j.batch) : i < j.k => log[j.seqno + i] = j.batch[i]
    BY <1>2, <1>3, <1>11 DEF IndexPhaseOf
  <2>4. index'.cell[j.at].offset = j.plan[j.k].offset
    BY <1>5, <1>6, <1>8, <1>11, <1>12
  <2>5. log' = log
    BY <1>13
  <2> QED
    BY <1>2, <1>3, <2>1, <2>2, <2>3, <2>4, <2>5 DEF IndexPhaseOf
<1>21. job' = [job EXCEPT ![w] = j]
  BY <1>1, <1>13 DEF IInv, TypeOK
<1>22. /\ (Mutex /\ Plan /\ DataPhase /\ IndexPhase)'
       /\ pc' \in [Writers -> Labels \cup {"idle"}]
       /\ job' \in [Writers -> Job]
       /\ IndexBusy' <=> "length" \in {"offset", "length"}
       /\ (\A v \in Writers : pc'[v] \notin {"offset", "length", "publish"})
            <=> "length" \notin {"offset", "length", "publish"}
  BY <1>2, <1>13, <1>18, <1>19, <1>20, <1>21, WriterNext
<1>23. TypeOK'
  BY <1>11, <1>13, <1>22 DEF IInv, TypeOK, Labels
<1>24. (DataSize /\ IndexSize)'
  <2>1. ~DataBusy
    BY <1>2, WriterNow
  <2> QED
    BY <1>2, <1>13, <1>22, <2>1 DEF IInv, DataSize, IndexSize
<1>25. (Searching /\ Opens)'
  BY <1>2, <1>13 DEF Searching, Opens, NeverDamaged
<1> QED
  BY <1>16, <1>22, <1>23, <1>24, <1>25 DEF IInv

(* With the length the pair is complete: its record is the next one of     *)
(* the log, in the data file, behind all others.                           *)
LEMMA WriteLengthStep ==
  ASSUME IInv, NEW w \in Writers, WriteLength(w)
  PROVE  IInv'
<1>1. PICK j \in Job : j = job[w]
  BY DEF IInv, TypeOK
<1>2. /\ pc[w] = "length" /\ db = "open" /\ lock = w
      /\ PlanOf(j, "length") /\ DataPhaseOf(j, "length")
      /\ IndexPhaseOf(j, "length")
  BY <1>1, WriterNow DEF WriteLength
<1>k. PICK k \in Nat : k = j.k
  BY <1>2, PlannedPairs
<1>L. PICK L \in Nat : L = Len(log)
  BY IndexNow
<1>3. /\ k \in 1..Len(j.plan) /\ Len(j.plan) = Len(j.batch)
      /\ j.at = L /\ index.end = L + Len(j.batch) - (k - 1)
      /\ L = j.seqno + k - 1
      /\ index.cell[j.at].offset = j.plan[k].offset
      /\ index.size = j.seqno
  <2>1. Len(j.plan) = Len(j.batch) /\ k \in 1..Len(j.batch) + 1
    BY <1>2, <1>k DEF PlanOf
  <2> QED
    BY <1>2, <1>k, <1>L, <2>1, PlannedPairs DEF IndexPhaseOf
<1>4. PICK at \in IndexAddress : at = L /\ at < index.len
  <2>1. L < index.end
    <3>1. PICK N \in Nat : N = Len(j.batch) /\ k <= N
      BY <1>2, <1>3, PlannedPairs
    <3>2. index.end = L + N - (k - 1)
      BY <1>3, <3>1
    <3> QED
      BY <3>1, <3>2
  <2> QED
    BY <2>1, IndexNow, Constants
<1>5. PICK o \in Nat, n \in Nat : o = j.plan[k].offset /\ n = j.plan[k].length
  BY <1>2, <1>3, PlannedPairs
<1>6. PICK r \in Records : r = j.batch[k]
  BY <1>2, <1>3, PlannedPairs
<1>7. PICK p \in Pair : p = [index.cell[at] EXCEPT !.length = n]
  <2>1. index.cell[at] \in Pair
    BY IndexNow
  <2> QED
    BY <2>1 DEF Pair
<1>8. p.length = n /\ p.offset = o
  <2>1. index.cell[at] \in Pair
    BY IndexNow
  <2> QED
    BY <1>3, <1>4, <1>5, <1>7, <2>1 DEF Pair
<1>9. PICK f \in [IndexAddress -> Pair] : f = [index.cell EXCEPT ![at] = p]
  BY IndexNow
<1>10. index' = [index EXCEPT !.cell = f]
  BY <1>1, <1>3, <1>k, <1>4, <1>5, <1>7, <1>9, IndexNow DEF WriteLength, Store
<1>11. /\ index' \in Store(IndexAddress, Pair)
       /\ index'.cell = f /\ index'.len = index.len /\ index'.end = index.end
       /\ index'.bounds = index.bounds /\ index'.size = index.size
       /\ index'.mapStart = index.mapStart /\ index'.mapLen = index.mapLen
  BY <1>10, IndexNow DEF Store
<1>12. /\ \A x \in IndexAddress : x # at => f[x] = index.cell[x]
       /\ f[at] = p
  BY <1>9, IndexNow
<1>13. /\ pc' = [pc EXCEPT ![w] = "offset"]
       /\ UNCHANGED <<data, db, search, lock, rd, acked>>
       /\ log' = Append(log, r)
  BY <1>1, <1>k, <1>6 DEF WriteLength
<1>14. PICK y \in Nat, z \in Nat : y = k + 1 /\ z = at + 1
  BY <1>4
<1>15. PICK jj \in Job : jj = [j EXCEPT !.k = y, !.at = z]
  BY DEF Job
<1>16. /\ jj.batch = j.batch /\ jj.plan = j.plan /\ jj.next = j.next
       /\ jj.k = y /\ jj.at = z /\ jj.seqno = j.seqno
  BY <1>15 DEF Job
<1>17. job' = [job EXCEPT ![w] = jj]
  BY <1>1, <1>3, <1>k, <1>4, <1>14, <1>15 DEF WriteLength
<1>18. /\ log' \in Seq(Records) /\ Len(log') = L + 1 /\ log'[L + 1] = r
       /\ \A i \in 1..L : log'[i] = log[i]
  BY <1>13, <1>L, IndexNow, AppendFacts
<1>19. \A i \in 1..L : Entry(i)' = Entry(i)
  <2> SUFFICES ASSUME NEW i \in 1..L
               PROVE  index'.cell[i - 1] = index.cell[i - 1]
    BY DEF Entry
  <2>1. i - 1 \in IndexAddress /\ i - 1 # at
    BY <1>4, <1>L, EntryFacts
  <2> QED
    BY <1>11, <1>12, <2>1
<1>20. Entry(L + 1)' = p
  <2>1. (L + 1) - 1 = at
    BY <1>4
  <2> QED
    BY <1>11, <1>12, <2>1 DEF Entry
<1>21. \A i \in 1..L + 1 : i \in 1..L \/ i = L + 1
  OBVIOUS
<1>22. /\ o + n <= j.next /\ j.next <= data.size /\ n > 0
       /\ InOneSlice(data, o, n)
       /\ j.plan[k].length = RecLen[r]
       /\ Holds(j.plan[k], r)
       /\ \A e \in 1..L : Entry(e).offset + Entry(e).length <= o
  <2>1. o + n <= j.next /\ n > 0 /\ n = RecLen[r]
    BY <1>2, <1>3, <1>5, <1>6 DEF PlanOf
  <2>2. InOneSlice(data, o, n)
    BY <1>2, <1>3, <1>5 DEF DataPhaseOf
  <2>3. j.next <= data.size /\ Holds(j.plan[k], r)
    BY <1>2, <1>3, <1>6 DEF IndexPhaseOf
  <2>4. k \in j.k..Len(j.plan)
    BY <1>3, <1>k
  <2>5. \A e \in 1..L : Entry(e).offset + Entry(e).length <= o
    BY <1>2, <1>5, <1>L, <2>4 DEF IndexPhaseOf
  <2> QED
    BY <1>5, <2>1, <2>2, <2>3, <2>5
<1>23. Shapes'
  BY <1>11, <1>13 DEF IInv, Shapes, Shape
<1>24. IndexTail'
  <2>1. Len(log') <= index'.len
    BY <1>4, <1>11, <1>18, IndexNow
  <2>2. \A i \in 1..L + 1 : LengthAt(i - 1)' > 0
    <3>1. \A i \in 1..L : LengthAt(i - 1)' > 0
      BY <1>19, <1>L, IndexNow DEF Entry, LengthAt
    <3>2. LengthAt((L + 1) - 1)' > 0
      BY <1>8, <1>20, <1>22 DEF Entry, LengthAt
    <3> QED
      BY <1>21, <3>1, <3>2
  <2>3. \A x \in IndexAddress : x >= L + 1 => LengthAt(x)' = 0
    <3> SUFFICES ASSUME NEW x \in IndexAddress, x >= L + 1
                 PROVE  index'.cell[x].length = 0
      BY DEF LengthAt
    <3>1. x # at /\ x >= L
      BY <1>4, Constants
    <3> QED
      BY <1>11, <1>12, <1>L, <3>1, IndexNow DEF LengthAt
  <2> QED
    BY <1>18, <2>1, <2>2, <2>3 DEF IndexTail
<1>25. Entries'
  <2> SUFFICES ASSUME NEW i \in 1..L + 1
               PROVE  Holds(Entry(i), log[i])'
    BY <1>18 DEF Entries
  <2>1. CASE i = L + 1
    BY <1>5, <1>8, <1>13, <1>18, <1>20, <1>22, <2>1 DEF Holds
  <2>2. CASE i \in 1..L
    <3>1. Holds(Entry(i), log[i])
      BY <1>L, <2>2, EntryFacts
    <3> QED
      BY <1>13, <1>18, <1>19, <2>2, <3>1 DEF Holds
  <2> QED
    BY <1>21, <2>1, <2>2
<1>26. Ordered'
  <2> SUFFICES ASSUME NEW i \in 1..L + 1, NEW h \in 1..L + 1, i < h
               PROVE  (Entry(i).offset + Entry(i).length <= Entry(h).offset)'
    BY <1>18 DEF Ordered
  <2>1. i \in 1..L
    OBVIOUS
  <2>2. CASE h = L + 1
    BY <1>8, <1>19, <1>20, <1>22, <2>1, <2>2
  <2>3. CASE h \in 1..L
    BY <1>19, <1>L, <2>1, <2>3 DEF IInv, Ordered
  <2> QED
    BY <1>21, <2>2, <2>3
<1>27. DataOpen'
  <2> SUFFICES ASSUME NEW i \in 1..L + 1
               PROVE  (/\ Entry(i).offset + Entry(i).length <= data.size
                       /\ InOneSlice(data, Entry(i).offset, Entry(i).length))'
    BY <1>18 DEF DataOpen
  <2>1. CASE i = L + 1
    <3>1. o + n <= data.size
      BY <1>2, <1>22, PlannedPairs, DataNow
    <3> QED
      BY <1>8, <1>13, <1>20, <1>22, <2>1, <3>1
  <2>2. CASE i \in 1..L
    BY <1>2, <1>13, <1>19, <1>L, <2>2 DEF IInv, DataOpen
  <2> QED
    BY <1>21, <2>1, <2>2
<1>28. Reads'
  <2> SUFFICES ASSUME NEW q \in Readers, rd[q].busy
               PROVE  /\ rd[q].seqno < L + 1
                      /\ rd[q].pair = index'.cell[rd[q].seqno]
    BY <1>13, <1>18 DEF Reads
  <2>1. /\ rd[q].seqno < L /\ rd[q].pair = index.cell[rd[q].seqno]
        /\ rd[q].seqno \in Nat
    BY <1>L DEF IInv, TypeOK, Reads
  <2>2. rd[q].seqno \in IndexAddress
    BY SMTT(40), <1>L, <2>1, IndexNow, Constants
  <2> QED
    BY <1>4, <1>11, <1>12, <2>1, <2>2
<1>29. Promises'
  <2> SUFFICES ASSUME NEW q \in acked
               PROVE  q[1] < L + 1 /\ log'[q[1] + 1] = q[2]
    BY <1>13, <1>18 DEF Promises
  <2>1. q[1] < L /\ log[q[1] + 1] = q[2] /\ q[1] \in Nat
    BY <1>L DEF IInv, TypeOK, Promises
  <2>2. q[1] + 1 \in 1..L
    BY <2>1
  <2> QED
    BY <1>18, <2>1, <2>2
<1>30. PlanOf(jj, "offset") /\ "offset" \in Labels
  <2>1. jj.k \in 1..Len(j.batch) + 1
    BY <1>2, <1>3, <1>14, <1>16, PlannedPairs
  <2> QED
    BY <1>2, <1>16, <2>1 DEF PlanOf, Labels
<1>31. DataPhaseOf(jj, "offset")'
  BY <1>2, <1>13, <1>16 DEF DataPhaseOf
<1>32. IndexPhaseOf(jj, "offset")'
  <2>1. /\ (jj.next <= data.size)'
        /\ \A i \in 1..Len(jj.plan) : Holds(jj.plan[i], jj.batch[i])'
    BY <1>2, <1>13, <1>16 DEF IndexPhaseOf, Holds
  <2>2. \A i \in y..Len(j.plan), e \in 1..L + 1 :
          (Entry(e).offset + Entry(e).length <= j.plan[i].offset)'
    <3> SUFFICES ASSUME NEW i \in y..Len(j.plan), NEW e \in 1..L + 1
                 PROVE  (Entry(e).offset + Entry(e).length)' <= j.plan[i].offset
      OBVIOUS
    <3>0. PICK N \in Nat : N = Len(j.plan) /\ k \in 1..N
      BY <1>2, <1>3, PlannedPairs
    <3>1. i \in 1..Len(j.plan) /\ k \in 1..Len(j.plan) /\ k < i
          /\ i \in j.k..Len(j.plan)
      BY <3>0, <1>14, <1>k
    <3>2. CASE e = L + 1
      BY <1>2, <1>5, <1>8, <1>20, <3>1, <3>2 DEF PlanOf
    <3>3. CASE e \in 1..L
      BY <1>2, <1>19, <1>L, <3>1, <3>3 DEF IndexPhaseOf
    <3> QED
      BY <1>21, <3>2, <3>3
  <2>3. /\ jj.at = L + 1
        /\ index'.end = (L + 1) + Len(j.batch) - (y - 1)
        /\ L + 1 = j.seqno + y - 1
        /\ index'.size = j.seqno
    <3>1. PICK s \in Nat, N \in Nat : s = j.seqno /\ N = Len(j.batch)
      BY <1>2, PlannedPairs
    <3>2. index.end = L + N - (k - 1) /\ L = s + k - 1 /\ at = L
      BY <1>3, <1>4, <3>1
    <3>3. (L + 1) + N - (y - 1) = L + N - (k - 1) + 0 /\ L + 1 = s + y - 1
      BY <1>14, <3>2
    <3> QED
      BY <1>3, <1>11, <1>14, <1>16, <3>1, <3>2, <3>3
  <2>4. \A i \in 1..Len(j.batch) : i < y => log'[j.seqno + i] = j.batch[i]
    <3> SUFFICES ASSUME NEW i \in 1..Len(j.batch), i < y
                 PROVE  log'[j.seqno + i] = j.batch[i]
      OBVIOUS
    <3>1. CASE i = k
      <4>1. j.seqno + i = L + 1
        <5>1. PICK s \in Nat : s = j.seqno /\ L = s + k - 1
          BY <1>2, <1>3, PlannedPairs
        <5> QED
          BY <3>1, <5>1
      <4> QED
        BY <1>6, <1>18, <3>1, <4>1
    <3>2. CASE i # k
      <4>1. i < k /\ j.seqno + i \in 1..L
        <5>1. PICK s \in Nat : s = j.seqno /\ L = s + k - 1
          BY <1>2, <1>3, PlannedPairs
        <5>2. i \in Nat /\ i >= 1 /\ i < k
          BY <1>2, <1>14, <3>2, PlannedPairs
        <5> QED
          BY <5>1, <5>2
      <4>2. log[j.seqno + i] = j.batch[i]
        BY <1>2, <1>k, <4>1 DEF IndexPhaseOf
      <4> QED
        BY <1>18, <4>1, <4>2
    <3> QED
      BY <3>1, <3>2
  <2> QED
    BY <1>16, <1>18, <2>1, <2>2, <2>3, <2>4 DEF IndexPhaseOf
<1>33. /\ (Mutex /\ Plan /\ DataPhase /\ IndexPhase)'
       /\ pc' \in [Writers -> Labels \cup {"idle"}]
       /\ job' \in [Writers -> Job]
       /\ IndexBusy' <=> "offset" \in {"offset", "length"}
       /\ (\A v \in Writers : pc'[v] \notin {"offset", "length", "publish"})
            <=> "offset" \notin {"offset", "length", "publish"}
  BY <1>2, <1>13, <1>17, <1>30, <1>31, <1>32, WriterNext
<1>34. TypeOK'
  BY <1>11, <1>13, <1>18, <1>33 DEF IInv, TypeOK, Labels
<1>35. (DataSize /\ IndexSize)'
  <2>1. ~DataBusy
    BY <1>2, WriterNow
  <2> QED
    BY <1>2, <1>13, <1>33, <2>1 DEF IInv, DataSize, IndexSize
<1>36. (Searching /\ Opens)'
  BY <1>2, <1>13 DEF Searching, Opens, NeverDamaged
<1> QED
  BY <1>23, <1>24, <1>25, <1>26, <1>27, <1>28, <1>29, <1>33, <1>34, <1>35,
     <1>36 DEF IInv

(* When all pairs are written the end of the seqno file is the length of   *)
(* the log.                                                                *)
LEMMA FinishIndexStep ==
  ASSUME IInv, NEW w \in Writers, FinishIndex(w)
  PROVE  IInv'
<1>1. PICK j \in Job : j = job[w]
  BY DEF IInv, TypeOK
<1>2. /\ pc[w] = "offset" /\ db = "open" /\ lock = w
      /\ PlanOf(j, "offset") /\ IndexPhaseOf(j, "offset")
      /\ j.k > Len(j.batch)
  BY <1>1, WriterNow DEF FinishIndex
<1>3. j.k = Len(j.batch) + 1
  BY <1>2, PlannedPairs DEF PlanOf
<1>4. /\ index.end = Len(log) /\ Len(log) = j.seqno + Len(j.batch)
      /\ index.size = j.seqno
      /\ \A i \in 1..Len(j.batch) : log[j.seqno + i] = j.batch[i]
  BY <1>2, <1>3, IndexNow, PlannedPairs DEF IndexPhaseOf
<1>5. /\ index' \in Store(IndexAddress, Pair)
      /\ index'.len = index.len /\ index'.cell = index.cell
      /\ index'.end = index.end /\ index'.size = index.size
      /\ index'.mapStart = index.mapStart /\ index'.mapLen = index.mapLen
      /\ index'.bounds \subseteq index.bounds
  <2>1. IsRearranged(IndexAddress, Pair, index, index')
    BY IndexNow, Constants, RearrangeFacts DEF FinishIndex
  <2> QED
    BY <2>1 DEF IsRearranged
<1>6. /\ pc' = [pc EXCEPT ![w] = "publish"]
      /\ UNCHANGED <<data, db, search, lock, job, rd, log, acked>>
  BY DEF FinishIndex
<1>7. PlanOf(j, "publish") /\ "publish" \in Labels
  BY <1>2 DEF PlanOf, Labels
<1>8. DataPhaseOf(j, "publish")'
  BY DEF DataPhaseOf
<1>9. IndexPhaseOf(j, "publish")'
  BY <1>4, <1>5, <1>6 DEF IndexPhaseOf
<1>10. job' = [job EXCEPT ![w] = j]
  BY <1>1, <1>6 DEF IInv, TypeOK
<1>11. /\ (Mutex /\ Plan /\ DataPhase /\ IndexPhase)'
       /\ pc' \in [Writers -> Labels \cup {"idle"}]
       /\ job' \in [Writers -> Job]
       /\ (\A v \in Writers : pc'[v] \notin {"offset", "length", "publish"})
            <=> "publish" \notin {"offset", "length", "publish"}
  BY <1>2, <1>6, <1>7, <1>8, <1>9, <1>10, WriterNext
<1>12. TypeOK'
  BY <1>5, <1>6, <1>11 DEF IInv, TypeOK, Labels
<1>13. (DataSize /\ IndexSize)'
  <2>1. ~DataBusy
    BY <1>2, WriterNow
  <2> QED
    BY <1>2, <1>4, <1>5, <1>6, <1>11, <2>1 DEF IInv, DataSize, IndexSize
<1>14. (/\ Shapes /\ IndexTail /\ Entries /\ Ordered /\ DataOpen
        /\ Reads /\ Promises)'
  <2>1. Shape(index', IndexCap) /\ Len(log) <= index'.len
    BY <1>5, IndexNow DEF Shape
  <2>2. \A x \in IndexAddress : x >= Len(log) => index'.cell[x].length = 0
    BY <1>5, IndexNow DEF LengthAt
  <2> QED
    BY <1>5, <1>6, <2>1, <2>2, IndexFrame
<1>15. (Searching /\ Opens)'
  BY <1>2, <1>6 DEF Searching, Opens, NeverDamaged
<1> QED
  BY <1>11, <1>12, <1>13, <1>14, <1>15 DEF IInv

(* What is acknowledged is in the log under the numbers that are           *)
(* returned, and the size that is stored is its length.                    *)
LEMMA PublishStep ==
  ASSUME IInv, NEW w \in Writers, Publish(w)
  PROVE  IInv'
<1>1. PICK j \in Job : j = job[w]
  BY DEF IInv, TypeOK
<1>2. /\ pc[w] = "publish" /\ db = "open" /\ ~DataBusy /\ ~IndexBusy
      /\ PlanOf(j, "publish") /\ IndexPhaseOf(j, "publish")
  BY <1>1, WriterNow DEF Publish
<1>3. /\ index.end = Len(log) /\ Len(log) = j.seqno + Len(j.batch)
      /\ index.size = j.seqno
      /\ \A i \in 1..Len(j.batch) : log[j.seqno + i] = j.batch[i]
  BY <1>2 DEF IInv, IndexPhaseOf, IndexSize
<1>4. PICK x \in Nat : x = Len(log) /\ x = index.size + Len(j.batch)
  BY <1>3, IndexNow
<1>5. index' = [index EXCEPT !.size = x]
  BY <1>1, <1>4 DEF Publish, IndexInc
<1>6. /\ index' \in Store(IndexAddress, Pair)
      /\ index'.len = index.len /\ index'.cell = index.cell
      /\ index'.end = index.end /\ index'.size = x
      /\ index'.mapStart = index.mapStart /\ index'.mapLen = index.mapLen
      /\ index'.bounds = index.bounds
  BY <1>5, IndexNow DEF Store
<1>7. /\ Release(w) /\ pc[w] # "idle"
      /\ UNCHANGED <<data, db, search, rd, log>>
      /\ acked' = acked \cup
           {<<j.seqno + i - 1, j.batch[i]>> : i \in 1..Len(j.batch)}
  BY <1>1, <1>2 DEF Publish
<1>8. /\ (Mutex /\ Plan /\ DataPhase /\ IndexPhase)'
      /\ pc' \in [Writers -> Labels \cup {"idle"}]
      /\ job' \in [Writers -> Job]
      /\ lock' \in Writers \cup {NoWriter}
      /\ ~DataBusy' /\ ~IndexBusy'
  BY <1>7, WriterDone
<1>9. \A i \in 1..Len(j.batch) :
        /\ j.seqno + i - 1 \in Nat /\ j.batch[i] \in Records
        /\ j.seqno + i - 1 < Len(log)
        /\ log[(j.seqno + i - 1) + 1] = j.batch[i]
  <2> SUFFICES ASSUME NEW i \in 1..Len(j.batch)
               PROVE  /\ j.seqno + i - 1 \in Nat /\ j.batch[i] \in Records
                      /\ j.seqno + i - 1 < Len(log)
                      /\ log[(j.seqno + i - 1) + 1] = j.batch[i]
    OBVIOUS
  <2>1. (j.seqno + i - 1) + 1 = j.seqno + i
    BY <1>2, PlannedPairs
  <2> QED
    BY <1>2, <1>3, <2>1, PlannedPairs
<1>10. acked' \subseteq Nat \X Records
  BY <1>7, <1>9 DEF IInv, TypeOK
<1>11. Promises'
  <2> SUFFICES ASSUME NEW p \in acked'
               PROVE  p[1] < Len(log) /\ log[p[1] + 1] = p[2]
    BY <1>7 DEF Promises
  <2>1. CASE p \in acked
    BY <2>1 DEF IInv, Promises
  <2>2. CASE p \notin acked
    <3>1. PICK i \in 1..Len(j.batch) : p = <<j.seqno + i - 1, j.batch[i]>>
      BY <1>7, <2>2
    <3> QED
      BY <1>9, <3>1
  <2> QED
    BY <2>1, <2>2
<1>12. TypeOK'
  BY <1>6, <1>7, <1>8, <1>10 DEF IInv, TypeOK, Labels
<1>13. (DataSize /\ IndexSize)'
  BY <1>2, <1>3, <1>4, <1>6, <1>7, <1>8 DEF IInv, DataSize, IndexSize
<1>14. (/\ Shapes /\ IndexTail /\ Entries /\ Ordered /\ DataOpen /\ Reads)'
  <2>1. Shapes' /\ IndexTail' /\ Entries' /\ Ordered' /\ DataOpen'
    BY <1>6, <1>7 DEF IInv, Shapes, Shape, IndexTail, Entries, Ordered,
       DataOpen, Entry, Holds, LengthAt
  <2>2. Reads'
    BY <1>6, <1>7 DEF IInv, Reads
  <2> QED
    BY <2>1, <2>2
<1>15. (Searching /\ Opens)'
  BY <1>2, <1>7 DEF Searching, Opens, NeverDamaged
<1> QED
  BY <1>8, <1>11, <1>12, <1>13, <1>14, <1>15 DEF IInv

-----------------------------------------------------------------------------
(* The steps of a reader *)

(* A pair read under the RwLock of the seqno file is that of a record of   *)
(* the log.                                                                *)
LEMMA SeekStep ==
  ASSUME IInv, NEW r \in Readers, NEW seqno \in IndexAddress, Seek(r, seqno)
  PROVE  IInv'
<1>1. /\ db = "open" /\ ~IndexBusy /\ seqno < index.end
      /\ UNCHANGED <<data, index, db, search, lock, pc, job, log, acked>>
  BY DEF Seek, Mapped
<1>2. PICK p \in Pair : p = index.cell[seqno]
  BY IndexNow
<1>3. seqno \in Nat /\ seqno < Len(log)
  BY <1>1, Constants DEF IInv, IndexSize
<1>4. PICK q \in [busy : BOOLEAN, seqno : Nat, pair : Pair] :
        q = [busy |-> TRUE, seqno |-> seqno, pair |-> p]
  BY <1>3
<1>5. rd' = [rd EXCEPT ![r] = q]
  BY <1>2, <1>4 DEF Seek
<1>6. /\ rd' \in [Readers -> [busy : BOOLEAN, seqno : Nat, pair : Pair]]
      /\ \A s \in Readers : s # r => rd'[s] = rd[s]
      /\ rd'[r] = q
  BY <1>5 DEF IInv, TypeOK
<1>7. TypeOK'
  BY <1>1, <1>6 DEF IInv, TypeOK
<1>8. Reads'
  <2> SUFFICES ASSUME NEW s \in Readers, rd'[s].busy
               PROVE  /\ rd'[s].seqno < Len(log)
                      /\ rd'[s].pair = index.cell[rd'[s].seqno]
    BY <1>1 DEF Reads
  <2>1. CASE s = r
    BY <1>2, <1>3, <1>4, <1>6, <2>1
  <2>2. CASE s # r
    BY <1>6, <2>2 DEF IInv, Reads
  <2> QED
    BY <2>1, <2>2
<1>9. Mutex'
  BY <1>1 DEF IInv, Mutex
<1>10. (DataSize /\ IndexSize)'
  BY <1>1 DEF IInv, DataSize, IndexSize, DataBusy, IndexBusy
<1>11. (Plan /\ DataPhase /\ IndexPhase)'
  BY <1>1, CallsFrame
<1> QED
  BY <1>1, <1>7, <1>8, <1>9, <1>10, <1>11, FilesFrame DEF IInv

(* A read ends without a trace.                                            *)
LEMMA FetchStep ==
  ASSUME IInv, NEW r \in Readers, Fetch(r)
  PROVE  IInv'
<1>1. UNCHANGED <<data, index, db, search, lock, pc, job, log, acked>>
  BY DEF Fetch
<1>2. PICK q \in [busy : BOOLEAN, seqno : Nat, pair : Pair] :
        q = NoRead /\ ~q.busy
  <2>1. NoRead \in [busy : BOOLEAN, seqno : Nat, pair : Pair]
    BY Constants DEF NoRead
  <2>2. ~NoRead.busy
    BY DEF NoRead
  <2> QED
    BY <2>1, <2>2
<1>3. rd' = [rd EXCEPT ![r] = q]
  BY <1>2 DEF Fetch
<1>4. /\ rd' \in [Readers -> [busy : BOOLEAN, seqno : Nat, pair : Pair]]
      /\ \A s \in Readers : rd'[s].busy => rd'[s] = rd[s]
  BY <1>2, <1>3 DEF IInv, TypeOK
<1>5. TypeOK' /\ Reads' /\ Mutex'
  <2>1. TypeOK'
    BY <1>1, <1>4 DEF IInv, TypeOK
  <2>2. Reads' /\ Mutex'
    BY <1>1, <1>4 DEF IInv, Reads, Mutex
  <2> QED
    BY <2>1, <2>2
<1>6. (DataSize /\ IndexSize)'
  BY <1>1 DEF IInv, DataSize, IndexSize, DataBusy, IndexBusy
<1>7. (Plan /\ DataPhase /\ IndexPhase)'
  BY <1>1, CallsFrame
<1> QED
  BY <1>1, <1>5, <1>6, <1>7, FilesFrame DEF IInv

-----------------------------------------------------------------------------
(* Opening, dropping and dying *)

(* Unless the database is open, nobody is in a call.  *)
LEMMA NobodyInCall ==
  ASSUME IInv, db # "open"
  PROVE  /\ \A v \in Writers : pc[v] = "idle"
         /\ \A r \in Readers : ~rd[r].busy
         /\ ~DataBusy /\ ~IndexBusy
         /\ UNCHANGED <<pc, job, lock, rd>> =>
              (Mutex' <=> (db' # "open" \/ db' = "open")) /\
              (Plan /\ DataPhase /\ IndexPhase)' /\ ~DataBusy' /\ ~IndexBusy'
BY DEF IInv, Mutex, Plan, DataPhase, IndexPhase, DataBusy, IndexBusy

(* The end of the log is where the lengths stop.  *)
LEMMA EndOfLog ==
  ASSUME IInv, NEW x \in Nat, x < index.len
  PROVE  /\ x \in IndexAddress
         /\ LengthAt(x) = 0 <=> Len(log) <= x
<1>1. x \in IndexAddress
  BY IndexNow, Constants
<1>2. CASE Len(log) <= x
  BY <1>1, <1>2, IndexNow
<1>3. CASE x < Len(log)
  <2>1. x + 1 \in 1..Len(log) /\ (x + 1) - 1 = x
    BY <1>3, IndexNow
  <2>2. LengthAt((x + 1) - 1) > 0
    BY <2>1, IndexNow
  <2> QED
    BY <1>1, <1>3, <2>1, <2>2, IndexNow
<1> QED
  BY <1>2, <1>3, IndexNow

(* Attaching or detaching the seqno file changes neither its length nor    *)
(* its content.                                                            *)
LEMMA AttachIndex ==
  ASSUME IInv, db # "open", db # "dropping", NEW n \in Nat, n <= index.len,
         index' = Attach(index, n),
         db' \in {"data", "search", "closed"},
         UNCHANGED <<data, lock, pc, job, rd, log, acked>>,
         search' \in [start : Nat, end : Nat],
         db' = "data" => n = Len(log),
         db' = "search" => /\ n = index.len /\ n > 0
                           /\ LengthAt(n - 1) = 0
                           /\ search'.start < Len(log)
                           /\ Len(log) <= search'.end
                           /\ search'.end <= n
  PROVE  IInv'
<1>1. IsAttached(IndexAddress, Pair, index, n, index')
  BY IndexNow, Constants, AttachFacts
<1>2. /\ index' \in Store(IndexAddress, Pair)
      /\ index'.len = index.len /\ index'.cell = index.cell
      /\ index'.end = n /\ index'.size = n
      /\ \A c \in index'.bounds : c = n
      /\ index'.mapStart = 0 /\ index'.mapLen = 0
  BY <1>1 DEF IsAttached
<1>3. Shape(index', IndexCap)
  <2>1. index'.mapStart + index'.mapLen <= index'.len
    BY <1>2, IndexNow
  <2> QED
    BY <1>2, <2>1, IndexNow DEF Shape
<1>4. (/\ Shapes /\ IndexTail /\ Entries /\ Ordered /\ DataOpen
       /\ Reads /\ Promises)'
  <2>1. \A x \in IndexAddress : x >= Len(log) => index'.cell[x].length = 0
    BY <1>2, IndexNow DEF LengthAt
  <2> QED
    BY <1>2, <1>3, <2>1, IndexNow, IndexFrame
<1>5. (Mutex /\ Plan /\ DataPhase /\ IndexPhase)'
  BY NobodyInCall DEF IInv, Mutex, Plan, DataPhase, IndexPhase
<1>6. TypeOK'
  BY <1>2 DEF IInv, TypeOK
<1>7. (DataSize /\ IndexSize)'
  BY <1>2 DEF DataSize, IndexSize
<1>8. Searching'
  BY <1>2, IndexNow DEF Searching, LengthAt
<1>9. Opens'
  BY DEF Opens, NeverDamaged
<1> QED
  BY <1>4, <1>5, <1>6, <1>7, <1>8, <1>9 DEF IInv

(* The seqno file is opened at its length when it ends with a complete     *)
(* pair, at 0 when it begins with a zero pair, and is searched otherwise.  *)
LEMMA OpenIndexStep ==
  ASSUME IInv, OpenIndex
  PROVE  IInv'
<1>1. db = "closed" /\ UNCHANGED <<data, lock, pc, job, rd, log, acked>>
  BY DEF OpenIndex, HasZeroTail
<1>s. search \in [start : Nat, end : Nat]
  BY DEF IInv, TypeOK
<1>2. CASE index.len > 0 /\ LengthAt(index.len - 1) = 0 /\ LengthAt(0) = 0
  <2>1. Len(log) = 0
    BY <1>2, EndOfLog, IndexNow
  <2> QED
    BY <1>1, <1>2, <1>s, <2>1, IndexNow, AttachIndex DEF OpenIndex, HasZeroTail
<1>3. CASE index.len > 0 /\ LengthAt(index.len - 1) = 0 /\ LengthAt(0) # 0
  <2>1. 0 < Len(log) /\ Len(log) <= index.len
    BY <1>3, EndOfLog, IndexNow
  <2>2. PICK l \in Nat : l = index.len
    BY IndexNow
  <2>3. PICK sh \in [start : Nat, end : Nat] :
          sh = [start |-> 0, end |-> l] /\ sh.start = 0 /\ sh.end = l
    <3>1. [start |-> 0, end |-> l] \in [start : Nat, end : Nat]
      OBVIOUS
    <3> QED
      BY <3>1
  <2>4. search' = sh /\ db' = "search" /\ index' = Attach(index, l)
    BY <1>3, <2>2, <2>3 DEF OpenIndex, HasZeroTail
  <2> QED
    BY <1>1, <1>3, <2>1, <2>2, <2>3, <2>4, AttachIndex
<1>4. CASE ~(index.len > 0 /\ LengthAt(index.len - 1) = 0)
  <2>1. Len(log) = index.len
    <3>1. CASE index.len = 0
      BY <3>1, IndexNow
    <3>2. CASE index.len > 0
      <4>1. PICK x \in Nat : x = index.len - 1 /\ x < index.len
        BY <3>2, IndexNow
      <4>2. ~(Len(log) <= x)
        BY <1>4, <3>2, <4>1, EndOfLog
      <4> QED
        BY <4>1, <4>2, IndexNow
    <3> QED
      BY <3>1, <3>2, IndexNow
  <2>2. search' = search /\ db' = "data" /\ index' = Attach(index, index.len)
    BY <1>4 DEF OpenIndex, HasZeroTail
  <2> QED
    BY <1>1, <1>s, <2>1, <2>2, IndexNow, AttachIndex
<1> QED
  BY <1>2, <1>3, <1>4

(* A turn of the binary search keeps the end of the log between start and  *)
(* end, and finds it when the pair behind start is zero.                   *)
LEMMA FindActualEndStep ==
  ASSUME IInv, FindActualEnd
  PROVE  IInv'
<1>1. PICK st \in Nat, en \in Nat : st = search.start /\ en = search.end
  BY DEF IInv, TypeOK
<1>2. /\ db = "search" /\ UNCHANGED <<data, lock, pc, job, rd, log, acked>>
      /\ index.size = index.len /\ index.len > 0
      /\ LengthAt(index.len - 1) = 0
      /\ st < Len(log) /\ Len(log) <= en /\ en <= index.len
  BY <1>1 DEF FindActualEnd, MoreToSearch, FoundEnd, ActualEnd, IInv, Searching
<1>3. Len(log) <= index.len - 1
  <2>0. index.len \in Nat /\ index.len > 0
    BY <1>2, IndexNow
  <2>1. PICK x \in Nat : x = index.len - 1 /\ x < index.len
    BY <2>0
  <2> QED
    BY <1>2, <2>1, EndOfLog
<1>4. st < index.size - 1 /\ st + 1 < index.len
  BY <1>2, <1>3, IndexNow
<1>5. CASE LengthAt(st + 1) = 0
  <2>1. st + 1 = Len(log)
    <3>1. Len(log) <= st + 1
      BY <1>4, <1>5, EndOfLog
    <3>2. Len(log) \in Nat
      BY IndexNow
    <3> QED
      BY <1>2, <3>1, <3>2
  <2>2. /\ index' = Attach(index, st + 1) /\ db' = "data"
        /\ search' = [start |-> 0, end |-> 0]
    BY <1>1, <1>4, <1>5 DEF FindActualEnd, MoreToSearch, FoundEnd, ActualEnd
  <2> QED
    BY <1>2, <1>4, <2>1, <2>2, IndexNow, AttachIndex
<1>6. CASE LengthAt(st + 1) # 0
  <2>1. PICK mid \in Nat : mid = (st + en) \div 2 /\ st <= mid /\ mid < en
    <3>1. st < en
      BY <1>2, IndexNow
    <3>2. (st + en) \div 2 \in Nat /\ st <= (st + en) \div 2
          /\ (st + en) \div 2 < en
      BY <3>1
    <3> QED
      BY <3>2
  <2>2. mid < index.len
    BY <1>2, <2>1, IndexNow
  <2>3. LengthAt(mid) = 0 <=> Len(log) <= mid
    BY <2>2, EndOfLog
  <2>4. PICK sh \in [start : Nat, end : Nat] :
          /\ sh = IF LengthAt(mid) = 0 THEN [search EXCEPT !.end = mid]
                  ELSE [search EXCEPT !.start = mid]
          /\ sh.start < Len(log) /\ Len(log) <= sh.end /\ sh.end <= index.len
    <3>1. search \in [start : Nat, end : Nat]
      BY DEF IInv, TypeOK
    <3>2. CASE LengthAt(mid) = 0
      <4>1. PICK sh \in [start : Nat, end : Nat] : sh = [search EXCEPT !.end = mid]
        BY <3>1
      <4>2. sh.start = st /\ sh.end = mid
        BY <1>1, <3>1, <4>1
      <4>3. st < Len(log) /\ Len(log) <= mid /\ mid <= index.len
        BY <1>2, <2>2, <2>3, <3>2, IndexNow
      <4> QED
        BY <3>2, <4>1, <4>2, <4>3
    <3>3. CASE LengthAt(mid) # 0
      <4>1. PICK sh \in [start : Nat, end : Nat] : sh = [search EXCEPT !.start = mid]
        BY <3>1
      <4>2. sh.start = mid /\ sh.end = en
        BY <1>1, <3>1, <4>1
      <4>3. mid < Len(log) /\ Len(log) <= en /\ en <= index.len
        BY <1>2, <2>3, <3>3, IndexNow
      <4> QED
        BY <3>3, <4>1, <4>2, <4>3
    <3> QED
      BY <3>2, <3>3
  <2>5. search' = sh /\ UNCHANGED <<index, db>>
    BY <1>1, <1>4, <1>6, <2>1, <2>4 DEF FindActualEnd, MoreToSearch, FoundEnd, ActualEnd
  <2>6. (/\ Shapes /\ IndexTail /\ Entries /\ Ordered /\ DataOpen
         /\ Promises /\ Reads /\ Mutex /\ Opens)'
    <3>1. (Shapes /\ IndexTail /\ Entries /\ Ordered /\ DataOpen)'
      BY <1>2, <2>5 DEF IInv, Shapes, IndexTail, Entries, Ordered, DataOpen,
         Entry, Holds, LengthAt
    <3>2. (Promises /\ Reads /\ Mutex /\ Opens)'
      BY <1>2, <2>5 DEF IInv, Promises, Reads, Mutex, Opens, NeverDamaged
    <3> QED
      BY <3>1, <3>2
  <2>7. (Plan /\ DataPhase /\ IndexPhase)'
    BY <1>2, NobodyInCall DEF Plan, DataPhase, IndexPhase
  <2>8. TypeOK'
    BY <1>2, <2>4, <2>5 DEF IInv, TypeOK
  <2>9. (DataSize /\ IndexSize)'
    BY <1>2, <2>5 DEF DataSize, IndexSize
  <2>10. Searching'
    BY <1>2, <2>4, <2>5 DEF Searching, LengthAt
  <2> QED
    BY <2>6, <2>7, <2>8, <2>9, <2>10 DEF IInv
<1> QED
  BY <1>5, <1>6

(* The end of the last record is within the data file, so it opens there,  *)
(* behind all records.                                                     *)
LEMMA OpenDataStep ==
  ASSUME IInv, OpenData
  PROVE  IInv'
<1>1. /\ db = "data" /\ index.end = Len(log) /\ index.size = Len(log)
      /\ UNCHANGED <<index, search, lock, pc, job, rd, log, acked>>
  BY DEF OpenData, IInv, IndexSize
<1>d. /\ data \in Store(DataAddress, Byte) /\ data.len \in Nat
      /\ Shape(data, DataCap)
  BY DEF IInv, TypeOK, Shapes, Store
<1>2. PICK n \in Nat :
        /\ n = ExistingLength /\ n <= data.len
        /\ \A i \in 1..Len(log) : Entry(i).offset + Entry(i).length <= n
  <2>1. CASE Len(log) = 0
    BY <1>1, <1>d, <2>1 DEF ExistingLength
  <2>2. CASE Len(log) # 0
    <3>1. Len(log) \in 1..Len(log)
      BY <2>2, IndexNow
    <3>2. PICK p \in Pair : /\ p = Entry(Len(log)) /\ p = index.cell[Len(log) - 1]
                            /\ Holds(p, log[Len(log)])
      BY <3>1, EntryFacts DEF Entry
    <3>3. p.offset \in Nat /\ p.length \in Nat
      BY DEF Pair
    <3>4. ExistingLength = p.offset + p.length
      BY <1>1, <2>2, <3>2 DEF ExistingLength
    <3>5. p.offset + p.length <= data.len
      BY <3>2 DEF Holds
    <3>6. \A i \in 1..Len(log) :
            Entry(i).offset + Entry(i).length <= p.offset + p.length
      <4> SUFFICES ASSUME NEW i \in 1..Len(log)
                   PROVE  Entry(i).offset + Entry(i).length
                            <= p.offset + p.length
        OBVIOUS
      <4>1. PICK a \in Nat, b \in Nat :
              a = Entry(i).offset /\ b = Entry(i).length
        BY EntryFacts
      <4>2. CASE i = Len(log)
        <5>1. a = p.offset /\ b = p.length
          BY <3>2, <4>1, <4>2
        <5> QED
          BY <4>1, <5>1
      <4>3. CASE i # Len(log)
        <5>1. i < Len(log)
          BY <4>3, IndexNow
        <5>2. a + b <= p.offset
          BY <3>1, <3>2, <4>1, <5>1 DEF IInv, Ordered
        <5> QED
          BY <3>3, <4>1, <5>2
      <4> QED
        BY <4>2, <4>3
    <3> QED
      BY <3>3, <3>4, <3>5, <3>6
  <2> QED
    BY <2>1, <2>2
<1>3. db' = "open" /\ data' = Attach(data, n)
  BY <1>2, <1>d DEF OpenData
<1>4. IsAttached(DataAddress, Byte, data, n, data')
  BY <1>3, <1>d, Constants, AttachFacts
<1>5. /\ data' \in Store(DataAddress, Byte)
      /\ data'.len = data.len /\ data'.cell = data.cell
      /\ data'.end = n /\ data'.size = n
      /\ \A c \in data'.bounds : c = n
      /\ data'.mapStart = 0 /\ data'.mapLen = 0
  BY <1>4 DEF IsAttached
<1>6. Shapes'
  <2>1. Shape(data', DataCap)
    <3>1. data'.mapStart + data'.mapLen <= data'.len
      BY <1>5, <1>d
    <3> QED
      BY <1>2, <1>5, <1>d, <3>1 DEF Shape
  <2> QED
    BY <1>1, <2>1 DEF IInv, Shapes
<1>7. (IndexTail /\ Ordered /\ Promises /\ Reads)'
  BY <1>1 DEF IInv, IndexTail, Ordered, Promises, Reads, Entry, LengthAt
<1>8. Entries'
  BY <1>1, <1>5 DEF IInv, Entries, Entry, Holds
<1>9. DataOpen'
  <2> SUFFICES ASSUME NEW i \in 1..Len(log)
               PROVE  (/\ Entry(i).offset + Entry(i).length <= data.size
                       /\ InOneSlice(data, Entry(i).offset, Entry(i).length))'
    BY <1>1 DEF DataOpen
  <2>1. Entry(i)' = Entry(i) /\ Entry(i).offset + Entry(i).length <= n
    BY <1>1, <1>2 DEF Entry
  <2> QED
    BY <1>5, <2>1 DEF InOneSlice
<1>10. (Mutex /\ Plan /\ DataPhase /\ IndexPhase)'
  BY <1>1, NobodyInCall DEF Mutex, Plan, DataPhase, IndexPhase
<1>11. TypeOK'
  BY <1>1, <1>3, <1>5 DEF IInv, TypeOK
<1>12. (DataSize /\ IndexSize)'
  BY <1>1, <1>3, <1>5 DEF DataSize, IndexSize
<1>13. (Searching /\ Opens)'
  BY <1>3 DEF Searching, Opens, NeverDamaged
<1> QED
  BY <1>6, <1>7, <1>8, <1>9, <1>10, <1>11, <1>12, <1>13 DEF IInv

(* Cutting the seqno file at its end keeps all pairs of the log.           *)
LEMMA DropIndexStep ==
  ASSUME IInv, DropIndex
  PROVE  IInv'
<1>1. /\ db = "open" /\ db' = "dropping"
      /\ \A w \in Writers : pc[w] = "idle"
      /\ \A r \in Readers : ~rd[r].busy
      /\ UNCHANGED <<data, search, lock, pc, job, rd, log, acked>>
      /\ index' = Detach(SetLen(index, index.end, NoPair))
  BY DEF DropIndex, ShrinkToSize
<1>2. ~DataBusy /\ ~IndexBusy /\ index.end = Len(log)
  BY <1>1 DEF DataBusy, IndexBusy, IInv, IndexSize
<1>3. PICK n \in Nat : n = Len(log) /\ n = index.end /\ n <= index.len
  BY <1>2, IndexNow
<1>4. PICK s \in Store(IndexAddress, Pair) :
        /\ s = SetLen(index, n, NoPair) /\ s.len = n
        /\ \A x \in IndexAddress :
             x < n /\ x < index.len => s.cell[x] = index.cell[x]
        /\ \A x \in IndexAddress :
             ~(x < n /\ x < index.len) => s.cell[x] = NoPair
  <2>1. IsResized(IndexAddress, Pair, NoPair, index, n, SetLen(index, n, NoPair))
    BY IndexNow, Constants, SetLenFacts
  <2> QED
    BY <2>1 DEF IsResized
<1>5. IsAttached(IndexAddress, Pair, s, 0, index')
  BY <1>1, <1>3, <1>4, Constants, DetachFacts
<1>6. /\ index' \in Store(IndexAddress, Pair)
      /\ index'.len = n /\ index'.cell = s.cell
      /\ index'.end = 0 /\ index'.size = 0
      /\ \A c \in index'.bounds : c = 0
      /\ index'.mapStart = 0 /\ index'.mapLen = 0
  BY <1>4, <1>5 DEF IsAttached
<1>7. (/\ Shapes /\ IndexTail /\ Entries /\ Ordered /\ DataOpen
       /\ Reads /\ Promises)'
  <2>1. Shape(index', IndexCap)
    <3>1. n <= IndexCap
      BY <1>3, IndexNow, Constants
    <3> QED
      BY <1>6, <3>1 DEF Shape
  <2>2. \A x \in IndexAddress : x < Len(log) => index'.cell[x] = index.cell[x]
    <3> SUFFICES ASSUME NEW x \in IndexAddress, x < Len(log)
                 PROVE  x < n /\ x < index.len
      BY <1>4, <1>6
    <3>1. x \in Nat
      BY Constants
    <3> QED
      BY <1>3, <3>1, IndexNow
  <2>3. \A x \in IndexAddress : x >= Len(log) => index'.cell[x].length = 0
    <3> SUFFICES ASSUME NEW x \in IndexAddress, x >= Len(log)
                 PROVE  ~(x < n)
      BY <1>4, <1>6 DEF NoPair
    <3>1. x \in Nat
      BY Constants
    <3> QED
      BY <1>3, <3>1
  <2>4. Len(log) <= index'.len
    BY <1>3, <1>6
  <2> QED
    BY <1>1, <1>6, <2>1, <2>2, <2>3, <2>4, IndexFrame
<1>8. (Mutex /\ Plan /\ DataPhase /\ IndexPhase)'
  BY <1>1 DEF Mutex, Plan, DataPhase, IndexPhase
<1>9. TypeOK'
  BY <1>1, <1>6 DEF IInv, TypeOK
<1>10. (DataSize /\ IndexSize /\ Searching /\ Opens)'
  BY <1>1, <1>2 DEF IInv, DataSize, DataBusy, IndexSize, Searching, Opens,
                    NeverDamaged
<1> QED
  BY <1>7, <1>8, <1>9, <1>10 DEF IInv

(* A step of an unopened database that changes the data file and leaves it *)
(* unmapped, with the cells of the records as they are.                    *)
LEMMA DataClosed ==
  ASSUME IInv, data' \in Store(DataAddress, Byte), db' = "closed",
         UNCHANGED <<log, acked>>, index' \in Store(IndexAddress, Pair),
         index'.len = index.len, index'.cell = index.cell,
         Shape(index, IndexCap)', Shape(data, DataCap)',
         lock' \in Writers \cup {NoWriter},
         pc' \in [Writers -> {"idle"}], job' \in [Writers -> Job],
         rd' \in [Readers -> [busy : BOOLEAN, seqno : Nat, pair : Pair]],
         \A r \in Readers : ~rd'[r].busy,
         search' \in [start : Nat, end : Nat],
         \A i \in 1..Len(log) : Holds(Entry(i), log[i])'
  PROVE  IInv'
<1>1. TypeOK'
  <2>1. pc' \in [Writers -> {"idle", "plan", "data", "index", "offset",
                              "length", "publish"}]
    OBVIOUS
  <2> QED
    BY <2>1 DEF IInv, TypeOK
<1>2. \A w \in Writers : pc'[w] = "idle"
  OBVIOUS
<1>3. (Mutex /\ Plan /\ DataPhase /\ IndexPhase)'
  BY <1>2 DEF Mutex, Plan, DataPhase, IndexPhase
<1>4. (Shapes /\ IndexTail /\ Entries /\ Ordered)'
  BY DEF IInv, Shapes, IndexTail, Entries, Ordered, Entry, LengthAt
<1>5. (DataOpen /\ DataSize /\ IndexSize /\ Reads)'
  BY DEF DataOpen, DataSize, IndexSize, Reads
<1>6. (Promises /\ Searching /\ Opens)'
  BY DEF IInv, Promises, Searching, Opens, NeverDamaged
<1> QED
  BY <1>1, <1>3, <1>4, <1>5, <1>6 DEF IInv

(* Cutting the data file at its end keeps all records.                     *)
LEMMA DropDataStep ==
  ASSUME IInv, DropData
  PROVE  IInv'
<1>1. /\ db = "dropping" /\ db' = "closed"
      /\ UNCHANGED <<index, search, lock, pc, job, rd, log, acked>>
      /\ data' = Detach(SetLen(data, data.end, NoByte))
  BY DEF DropData, ShrinkToSize
<1>2. /\ data \in Store(DataAddress, Byte) /\ data.len \in Nat
      /\ data.size \in Nat /\ Shape(data, DataCap) /\ data.size <= data.end
  BY <1>1 DEF IInv, TypeOK, Shapes, Store, DataSize
<1>3. PICK n \in Nat : n = data.end /\ n <= data.len /\ n <= DataCap
  BY <1>2, Constants DEF Store, Shape
<1>4. PICK s \in Store(DataAddress, Byte) :
        /\ s = SetLen(data, n, NoByte) /\ s.len = n
        /\ \A x \in DataAddress :
             x < n /\ x < data.len => s.cell[x] = data.cell[x]
  <2>1. IsResized(DataAddress, Byte, NoByte, data, n, SetLen(data, n, NoByte))
    BY <1>2, Constants, SetLenFacts
  <2> QED
    BY <2>1 DEF IsResized
<1>5. IsAttached(DataAddress, Byte, s, 0, data')
  BY <1>1, <1>3, <1>4, Constants, DetachFacts
<1>6. /\ data' \in Store(DataAddress, Byte)
      /\ data'.len = n /\ data'.cell = s.cell
      /\ data'.end = 0 /\ data'.size = 0
      /\ \A c \in data'.bounds : c = 0
      /\ data'.mapStart = 0 /\ data'.mapLen = 0
  BY <1>4, <1>5 DEF IsAttached
<1>7. Shape(data', DataCap)
  BY <1>3, <1>6 DEF Shape
<1>8. \A i \in 1..Len(log) : Holds(Entry(i), log[i])'
  <2> SUFFICES ASSUME NEW i \in 1..Len(log)
               PROVE  Holds(Entry(i), log[i])'
    OBVIOUS
  <2>1. PICK o \in Nat, l \in Nat : o = Entry(i).offset /\ l = Entry(i).length
    BY EntryFacts
  <2>2. /\ o + l <= data.size /\ l = RecLen[log[i]]
        /\ \A x \in DataAddress :
             o <= x /\ x < o + l => data.cell[x] = <<log[i], x - o>>
    BY <1>1, <2>1, EntryFacts DEF IInv, DataOpen, Holds
  <2>3. o + l <= n
    BY <1>2, <1>3, <2>2
  <2>4. \A x \in DataAddress : x < o + l => data'.cell[x] = data.cell[x]
    <3> SUFFICES ASSUME NEW x \in DataAddress, x < o + l
                 PROVE  x < n /\ x < data.len
      BY <1>4, <1>6
    <3>1. x \in Nat
      BY Constants
    <3> QED
      BY <1>2, <1>3, <2>3, <3>1
  <2>5. Entry(i)' = Entry(i) /\ log' = log
    BY <1>1 DEF Entry
  <2> QED
    BY <1>6, <2>1, <2>2, <2>3, <2>4, <2>5 DEF Holds
<1>9. /\ \A w \in Writers : pc[w] = "idle"
      /\ \A r \in Readers : ~rd[r].busy
  BY <1>1, NobodyInCall
<1>10. /\ index' \in Store(IndexAddress, Pair) /\ Shape(index, IndexCap)'
       /\ lock' \in Writers \cup {NoWriter}
       /\ pc' \in [Writers -> {"idle"}] /\ job' \in [Writers -> Job]
       /\ rd' \in [Readers -> [busy : BOOLEAN, seqno : Nat, pair : Pair]]
       /\ search' \in [start : Nat, end : Nat]
       /\ \A r \in Readers : ~rd'[r].busy
  BY <1>1, <1>9, IndexNow DEF IInv, TypeOK, Shape
<1> QED
  BY <1>1, <1>6, <1>7, <1>8, <1>10, DataClosed

(* A crash leaves both files as they are.                                  *)
LEMMA CrashStep ==
  ASSUME IInv, Crash
  PROVE  IInv'
<1>1. /\ db' = "closed" /\ UNCHANGED <<log, acked>>
      /\ data' = Detach(data) /\ index' = Detach(index)
  BY DEF Crash
<1>2. /\ data \in Store(DataAddress, Byte) /\ data.len \in Nat
      /\ Shape(data, DataCap)
  BY DEF IInv, TypeOK, Shapes, Store
<1>3. IsAttached(DataAddress, Byte, data, 0, data')
  BY <1>1, <1>2, Constants, DetachFacts
<1>4. IsAttached(IndexAddress, Pair, index, 0, index')
  BY <1>1, IndexNow, Constants, DetachFacts
<1>5. /\ data' \in Store(DataAddress, Byte) /\ data'.len = data.len
      /\ data'.cell = data.cell
      /\ index' \in Store(IndexAddress, Pair) /\ index'.len = index.len
      /\ index'.cell = index.cell
  BY <1>3, <1>4 DEF IsAttached
<1>6. Shape(data, DataCap)' /\ Shape(index, IndexCap)'
  BY <1>2, <1>3, <1>4, IndexNow DEF IsAttached, Shape
<1>7. \A i \in 1..Len(log) : Holds(Entry(i), log[i])'
  BY <1>1, <1>5 DEF IInv, Entries, Entry, Holds
<1>8. NoJob \in Job /\ NoRead \in [busy : BOOLEAN, seqno : Nat, pair : Pair]
      /\ ~NoRead.busy
  <2>1. << >> \in Seq(Records) /\ << >> \in Seq(Pair)
    OBVIOUS
  <2>2. NoJob \in Job
    BY <2>1 DEF Job, NoJob
  <2>3. NoRead \in [busy : BOOLEAN, seqno : Nat, pair : Pair]
    BY Constants DEF NoRead
  <2>4. ~NoRead.busy
    BY DEF NoRead
  <2> QED
    BY <2>2, <2>3, <2>4
<1>9. PICK q \in [busy : BOOLEAN, seqno : Nat, pair : Pair] :
        q = NoRead /\ ~q.busy
  BY <1>8
<1>10. /\ lock' = NoWriter
       /\ pc' = [w \in Writers |-> "idle"]
       /\ job' = [w \in Writers |-> NoJob]
       /\ rd' = [r \in Readers |-> q]
       /\ search' = [start |-> 0, end |-> 0]
  BY <1>9 DEF Crash
<1>11. /\ lock' \in Writers \cup {NoWriter}
       /\ pc' \in [Writers -> {"idle"}] /\ job' \in [Writers -> Job]
       /\ rd' \in [Readers -> [busy : BOOLEAN, seqno : Nat, pair : Pair]]
       /\ search' \in [start : Nat, end : Nat]
       /\ \A r \in Readers : ~rd'[r].busy
  BY <1>8, <1>9, <1>10
<1> QED
  BY <1>1, <1>5, <1>6, <1>7, <1>11, DataClosed

-----------------------------------------------------------------------------
(* The initial states and the stutters *)

(* The empty storage satisfies the invariant.                              *)
LEMMA InitIInv == Init => IInv
<1> SUFFICES ASSUME Init PROVE IInv
  OBVIOUS
<1>1. /\ data = EmptyStore(DataAddress, NoByte)
      /\ index = EmptyStore(IndexAddress, NoPair)
      /\ db = "closed" /\ lock = NoWriter /\ log = << >> /\ acked = {}
      /\ search = [start |-> 0, end |-> 0]
      /\ pc = [w \in Writers |-> "idle"]
      /\ job = [w \in Writers |-> NoJob]
      /\ rd = [r \in Readers |-> NoRead]
  BY DEF Init
<1>2. << >> \in Seq(Records) /\ << >> \in Seq(Pair) /\ Len(<< >>) = 0
  OBVIOUS
<1>3. data \in Store(DataAddress, Byte) /\ index \in Store(IndexAddress, Pair)
  BY <1>1, Constants DEF EmptyStore, Store
<1>4. NoJob \in Job /\ NoRead \in [busy : BOOLEAN, seqno : Nat, pair : Pair]
  <2>1. NoJob \in Job
    BY <1>2 DEF Job, NoJob
  <2>2. NoRead \in [busy : BOOLEAN, seqno : Nat, pair : Pair]
    BY Constants DEF NoRead
  <2> QED
    BY <2>1, <2>2
<1>5. TypeOK
  <2>1. /\ search \in [start : Nat, end : Nat]
        /\ pc \in [Writers -> {"idle", "plan", "data", "index", "offset",
                               "length", "publish"}]
        /\ job \in [Writers -> Job]
        /\ rd \in [Readers -> [busy : BOOLEAN, seqno : Nat, pair : Pair]]
    BY <1>1, <1>4
  <2> QED
    BY <1>1, <1>2, <1>3, <2>1 DEF TypeOK
<1>6. (\A w \in Writers : pc[w] = "idle") /\ (\A r \in Readers : ~rd[r].busy)
  <2>1. ~NoRead.busy
    BY DEF NoRead
  <2> QED
    BY <1>1, <2>1
<1>7. Mutex /\ Plan /\ DataPhase /\ IndexPhase /\ Reads
  BY <1>1, <1>6 DEF Mutex, Plan, DataPhase, IndexPhase, Reads
<1>8. Shapes
  BY <1>1, Constants DEF Shapes, Shape, EmptyStore
<1>9. IndexTail /\ Entries /\ Ordered /\ Promises
  <2>1. \A x \in IndexAddress : LengthAt(x) = 0
    BY <1>1 DEF LengthAt, EmptyStore, NoPair
  <2>2. index.len = 0
    BY <1>1 DEF EmptyStore
  <2> QED
    BY <1>1, <1>2, <2>1, <2>2 DEF IndexTail, Entries, Ordered, Promises
<1>10. DataOpen /\ DataSize /\ IndexSize /\ Searching /\ Opens
  BY <1>1 DEF DataOpen, DataSize, IndexSize, Searching, Opens, NeverDamaged
<1> QED
  BY <1>5, <1>7, <1>8, <1>9, <1>10 DEF IInv

(* A step that changes no variable keeps the invariant.                    *)
LEMMA StutterStep ==
  ASSUME IInv, UNCHANGED vars
  PROVE  IInv'
<1>1. UNCHANGED <<data, index, db, search, lock, pc, job, rd, log, acked>>
  BY DEF vars
<1>2. (TypeOK /\ Mutex /\ DataSize /\ IndexSize /\ Reads)'
  BY <1>1 DEF IInv, TypeOK, Mutex, DataSize, IndexSize, Reads, DataBusy,
              IndexBusy
<1>3. (Plan /\ DataPhase /\ IndexPhase)'
  BY <1>1, CallsFrame
<1> QED
  BY <1>1, <1>2, <1>3, FilesFrame DEF IInv

(* Every step of the code preserves the invariant.  *)
LEMMA NextIInv == IInv /\ [Next]_vars => IInv'
<1> SUFFICES ASSUME IInv, [Next]_vars PROVE IInv'
  OBVIOUS
<1>1. CASE OpenStep
  BY <1>1, OpenIndexStep, FindActualEndStep, OpenDataStep DEF OpenStep
<1>2. ASSUME NEW w \in Writers, WriterStep(w) PROVE IInv'
  BY <1>2, PlanRecordStep, RejectEmptyStep, GrowDataStep, DataMapFailsStep,
     WriteRecordStep, FinishDataStep, GrowIndexStep, IndexMapFailsStep,
     WriteOffsetStep, WriteLengthStep, FinishIndexStep, PublishStep
  DEF WriterStep
<1>3. ASSUME NEW w \in Writers, NEW batch \in Batches, AcquireLock(w, batch)
      PROVE  IInv'
  BY <1>3, AcquireLockStep
<1>4. ASSUME NEW r \in Readers,
             Fetch(r) \/ \E s \in IndexAddress : Seek(r, s)
      PROVE  IInv'
  BY <1>4, FetchStep, SeekStep
<1>5. CASE DropIndex \/ DropData \/ Crash
  BY <1>5, DropIndexStep, DropDataStep, CrashStep
<1>6. CASE UNCHANGED vars
  BY <1>6, StutterStep
<1> QED
  BY <1>1, <1>2, <1>3, <1>4, <1>5, <1>6 DEF Next

(* Every reachable state of the database satisfies the invariant.          *)
THEOREM Invariance == Spec => []IInv
BY InitIInv, NextIInv, PTL DEF Spec

-----------------------------------------------------------------------------
(* The properties of Fraos *)

(* A sequence number that was promised names a complete pair of the index. *)
LEMMA PromisedEntry ==
  ASSUME IInv, NEW p \in acked
  PROVE  /\ p[1] \in Nat /\ p[1] + 1 \in 1..Len(log)
         /\ index.cell[p[1]] = Entry(p[1] + 1)
         /\ log[p[1] + 1] = p[2]
<1>1. p[1] \in Nat /\ p[1] < Len(log) /\ log[p[1] + 1] = p[2]
  BY DEF IInv, TypeOK, Promises
<1>2. p[1] + 1 \in 1..Len(log) /\ (p[1] + 1) - 1 = p[1]
  BY SMTT(40), <1>1, IndexNow
<1> QED
  BY <1>1, <1>2 DEF Entry

(* Everything in the log is mapped by an open index, and nothing that the  *)
(* index publishes is missing from the log.                                *)
LEMMA OpenIndexEnds ==
  ASSUME IInv, db = "open"
  PROVE  Len(log) <= index.end /\ index.size <= Len(log)
<1>1. CASE \A w \in Writers : pc[w] = "idle"
  <2>1. index.end = Len(log) /\ index.size = Len(log)
    BY <1>1 DEF IInv, IndexSize, IndexBusy
  <2> QED
    BY <2>1, IndexNow
<1>2. CASE \E w \in Writers : pc[w] # "idle"
  <2>1. PICK w \in Writers : pc[w] # "idle"
    BY <1>2
  <2>2. PICK j \in Job : j = job[w]
    BY DEF IInv, TypeOK
  <2>3. /\ PlanOf(j, pc[w]) /\ IndexPhaseOf(j, pc[w])
        /\ IndexBusy <=> pc[w] \in {"offset", "length"}
        /\ (\A v \in Writers : pc[v] \notin {"offset", "length", "publish"})
             <=> pc[w] \notin {"offset", "length", "publish"}
    BY <2>1, <2>2, WriterNow
  <2>4. PICK N \in Nat, k \in Nat, s \in Nat :
          /\ N = Len(j.batch) /\ k = j.k /\ s = j.seqno
          /\ 1 <= k /\ k <= N + 1
    <3>1. PICK N \in Nat, k \in Nat, s \in Nat :
            N = Len(j.batch) /\ k = j.k /\ s = j.seqno
      BY <2>3, PlannedPairs
    <3>2. j.k \in 1..Len(j.batch) + 1
      BY <2>3 DEF PlanOf
    <3> QED
      BY <3>1, <3>2
  <2>5. CASE pc[w] \in {"offset", "length"}
    <3>1. /\ index.end = Len(log) + N - (k - 1) /\ Len(log) = s + k - 1
          /\ index.size = s
      BY <2>3, <2>4, <2>5 DEF IndexPhaseOf
    <3>2. PICK L \in Nat, e \in Nat : L = Len(log) /\ e = index.end
      BY IndexNow
    <3>3. e = L + N - (k - 1) /\ L = s + k - 1
      BY <3>1, <3>2
    <3>4. 1 <= k /\ k <= N + 1
      BY <2>4
    <3>5. L <= e
      BY <3>3, <3>4
    <3>6. s <= L
      BY <3>3, <3>4
    <3> QED
      BY <3>1, <3>2, <3>5, <3>6
  <2>6. CASE pc[w] = "publish"
    <3>1. index.end = Len(log) /\ Len(log) = s + N /\ index.size = s
      BY <2>3, <2>4, <2>6 DEF IInv, IndexSize, IndexPhaseOf
    <3> QED
      BY <2>4, <3>1, IndexNow
  <2>7. CASE pc[w] \notin {"offset", "length", "publish"}
    <3>1. index.end = Len(log) /\ index.size = Len(log)
      BY <2>3, <2>7 DEF IInv, IndexSize
    <3> QED
      BY <3>1, IndexNow
  <2> QED
    BY <2>5, <2>6, <2>7
<1> QED
  BY <1>1, <1>2

(* Every variable of the database keeps its type: no size, offset or       *)
(* counter of the code leaves the naturals.                                *)
THEOREM TypeCorrectness == Spec => []TypeOK
<1>1. IInv => TypeOK
  BY DEF IInv
<1> QED
  BY <1>1, Invariance, PTL

(* What append_get_seqno acknowledged is in the files for ever, under its  *)
(* sequence number and whole, through failures, crashes and reopenings.    *)
THEOREM Durability == Spec => []AckedIsStored
<1>1. IInv => AckedIsStored
  <2> SUFFICES ASSUME IInv, NEW p \in acked
               PROVE  /\ p[1] < index.len /\ index.cell[p[1]].length > 0
                      /\ Holds(index.cell[p[1]], p[2])
    BY DEF AckedIsStored
  <2>1. PICK i \in 1..Len(log) : /\ i = p[1] + 1 /\ i - 1 = p[1]
                                 /\ index.cell[p[1]] = Entry(i)
                                 /\ log[i] = p[2]
    BY PromisedEntry
  <2>2. Holds(Entry(i), log[i]) /\ i - 1 < Len(log)
    BY EntryFacts, IndexNow
  <2>3. index.cell[p[1]].length > 0
    BY <2>1, IndexNow DEF LengthAt
  <2> QED
    BY <2>1, <2>2, <2>3, PromisedEntry, IndexNow
<1> QED
  BY <1>1, Invariance, PTL

(* An open database can serve every record it ever acknowledged, each from *)
(* a single slice of the data file.                                        *)
THEOREM Availability == Spec => []AckedIsServed
<1>1. IInv => AckedIsServed
  <2> SUFFICES ASSUME IInv, db = "open", NEW p \in acked
               PROVE  /\ Mapped(index, p[1])
                      /\ InOneSlice(data, index.cell[p[1]].offset,
                                    index.cell[p[1]].length)
    BY DEF AckedIsServed
  <2>1. p[1] < Len(log)
    BY PromisedEntry, IndexNow
  <2>2. Mapped(index, p[1])
    BY <2>1, OpenIndexEnds, PromisedEntry, IndexNow DEF Mapped
  <2> QED
    BY <2>2, PromisedEntry DEF IInv, DataOpen
<1> QED
  BY <1>1, Invariance, PTL

(* The files a crash leaves are never reported as damaged.                 *)
THEOREM Reopening == Spec => []NeverDamaged
<1>1. IInv => NeverDamaged
  BY DEF IInv, Opens
<1> QED
  BY <1>1, Invariance, PTL

(* find_actual_end keeps exactly the complete records, for every file      *)
(* length and every number of zero pairs at its end.                       *)
THEOREM Recovery == Spec => []RecoversExactly
<1>1. IInv => RecoversExactly
  BY DEF IInv, IndexSize, RecoversExactly
<1> QED
  BY <1>1, Invariance, PTL

(* A reader that follows a pair finds the record of the number it asked    *)
(* for, whatever was appended in between.                                  *)
THEOREM ReadConsistency == Spec => []ReadsAreRight
<1>1. IInv => ReadsAreRight
  <2> SUFFICES ASSUME IInv, NEW r \in Readers, rd[r].busy
               PROVE  /\ rd[r].seqno < Len(log)
                      /\ Holds(rd[r].pair, log[rd[r].seqno + 1])
                      /\ InOneSlice(data, rd[r].pair.offset, rd[r].pair.length)
    BY DEF ReadsAreRight
  <2>1. /\ db = "open" /\ rd[r].seqno \in Nat /\ rd[r].seqno < Len(log)
        /\ rd[r].pair = index.cell[rd[r].seqno]
    BY DEF IInv, TypeOK, Mutex, Reads
  <2>2. PICK i \in 1..Len(log) : i = rd[r].seqno + 1 /\ i - 1 = rd[r].seqno
    BY <2>1, IndexNow
  <2>3. rd[r].pair = Entry(i)
    BY <2>1, <2>2 DEF Entry
  <2>4. Holds(Entry(i), log[i])
    BY EntryFacts
  <2> QED
    BY <2>1, <2>2, <2>3, <2>4 DEF IInv, DataOpen
<1> QED
  BY <1>1, Invariance, PTL

(* The published size of the index is a safe upper boundary for reads.     *)
THEOREM PublishedSize == Spec => []LenIsReadable
<1>1. IInv => LenIsReadable
  <2> SUFFICES ASSUME IInv, db = "open", NEW s \in 0..index.size - 1
               PROVE  /\ Mapped(index, s) /\ s < Len(log)
                      /\ Holds(index.cell[s], log[s + 1])
    BY DEF LenIsReadable
  <2>1. s \in Nat /\ s < Len(log) /\ s < index.end
    BY OpenIndexEnds, IndexNow
  <2>2. PICK i \in 1..Len(log) : i = s + 1 /\ i - 1 = s
    BY <2>1, IndexNow
  <2>3. Holds(Entry(i), log[i])
    BY EntryFacts
  <2> QED
    BY <2>1, <2>2, <2>3 DEF Entry, Mapped
<1> QED
  BY <1>1, Invariance, PTL

-----------------------------------------------------------------------------
(* What the two files say is the log                                       *)

(* No other record is where one is found.                                  *)
LEMMA OneRecord ==
  ASSUME IInv, NEW p \in Pair, p.length > 0,
         NEW r \in Records, NEW s \in Records, Holds(p, r), Holds(p, s)
  PROVE  r = s
<1>1. p.offset \in Nat /\ p.length \in Nat /\ data.len \in Nat
      /\ data.len <= DataCap /\ DataCap \in Nat
  BY Constants DEF Pair, IInv, TypeOK, Store, Shapes, Shape
<1>2. p.offset \in DataAddress /\ p.offset < p.offset + p.length
      /\ p.offset - p.offset = 0
  BY <1>1 DEF Holds, DataAddress
<1>3. data.cell[p.offset] = <<r, 0>> /\ data.cell[p.offset] = <<s, 0>>
  BY <1>1, <1>2 DEF Holds
<1> QED
  BY <1>3

(* The complete pairs at the beginning of the index are those of the log,  *)
(* and what is read behind them are its records.                           *)
LEMMA FilesSayLog == IInv => StoredLog = log
<1> SUFFICES ASSUME IInv
             PROVE  StoredLog = log
  OBVIOUS
<1>1. /\ Len(log) \in Nat /\ index.len \in Nat /\ Len(log) <= index.len
      /\ index.len <= IndexCap /\ IndexCap \in Nat /\ log \in Seq(Records)
      /\ index \in Store(IndexAddress, Pair)
  BY Constants, IndexNow DEF IInv, TypeOK, Store, Shapes, Shape, IndexTail
<1> DEFINE complete(n) == /\ \A i \in 0..n - 1 : LengthAt(i) > 0
                          /\ n = index.len \/ LengthAt(n) = 0
<1>2. complete(Len(log))
  <2>1. \A i \in 0..Len(log) - 1 : LengthAt(i) > 0
    <3>1. \A i \in 0..Len(log) - 1 : i + 1 \in 1..Len(log) /\ (i + 1) - 1 = i
      BY <1>1
    <3> QED
      BY <3>1 DEF IInv, IndexTail
  <2>2. Len(log) # index.len => LengthAt(Len(log)) = 0
    <3>1. Len(log) # index.len => Len(log) \in IndexAddress
      BY <1>1 DEF IndexAddress
    <3> QED
      BY <1>1, <3>1 DEF IInv, IndexTail
  <2> QED
    BY <2>1, <2>2
<1>3. ASSUME NEW n \in 0..index.len, complete(n)
      PROVE  n = Len(log)
  <2>1. ~(n < Len(log))
    <3>1. n < Len(log) => n \in 0..Len(log) - 1 /\ n # index.len
      BY <1>1
    <3>2. n < Len(log) => LengthAt(n) > 0 /\ LengthAt(n) = 0
      BY <3>1, <1>2, <1>3
    <3> QED
      BY <3>2
  <2>2. ~(n > Len(log))
    <3>1. n > Len(log) => Len(log) \in 0..n - 1 /\ Len(log) # index.len
      BY <1>1
    <3>2. n > Len(log) => LengthAt(Len(log)) > 0 /\ LengthAt(Len(log)) = 0
      BY <3>1, <1>2, <1>3
    <3> QED
      BY <3>2
  <2> QED
    BY <1>1, <2>1, <2>2
<1>4. FirstIncomplete = Len(log)
  <2>1. Len(log) \in 0..index.len
    BY <1>1
  <2>2. FirstIncomplete = CHOOSE n \in 0..index.len : complete(n)
    BY DEF FirstIncomplete
  <2> HIDE DEF complete
  <2> QED
    BY <1>2, <1>3, <2>1, <2>2
<1>5. ASSUME NEW i \in 1..Len(log)
      PROVE  Decoded(index.cell[i - 1]) = log[i]
  <2>1. /\ Holds(index.cell[i - 1], log[i]) /\ log[i] \in Records
        /\ index.cell[i - 1].length > 0
    BY <1>1 DEF IInv, Entries, Entry, IndexTail, LengthAt
  <2>2. index.cell[i - 1] \in Pair
    <3>1. i - 1 \in IndexAddress
      BY <1>1 DEF IndexAddress
    <3> QED
      BY <1>1, <3>1 DEF Store
  <2> QED
    BY <2>1, <2>2, OneRecord DEF Decoded
<1>6. StoredLog = [i \in 1..Len(log) |-> Decoded(index.cell[i - 1])]
  BY <1>4, Zenon DEF StoredLog
<1>7. StoredLog = [i \in 1..Len(log) |-> log[i]]
  BY <1>5, <1>6
<1> QED
  BY <1>1, <1>7

(* A pair that is completed puts its record at the end.                    *)
LEMMA WriteLengthPuts ==
  ASSUME IInv, IInv', NEW w \in Writers, WriteLength(w)
  PROVE  \E r \in Records : Promise!Put(r)
<1>1. PICK j \in Job : j = job[w]
  BY DEF IInv, TypeOK
<1>2. PlanOf(j, "length") /\ IndexPhaseOf(j, "length")
  BY <1>1, WriterNow DEF WriteLength
<1>3. j.batch[j.k] \in Records
  <2>1. /\ j.batch \in Seq(Records) /\ Len(j.batch) \in Nat
        /\ j.k \in 1..Len(j.batch)
    <3>1. j.batch \in Seq(Records) /\ Len(j.batch) \in Nat
      BY <1>2, PlannedPairs
    <3>2. j.k \in 1..Len(j.batch) + 1
      BY <1>2 DEF PlanOf
    <3>3. j.k <= Len(j.batch)
      BY <1>2 DEF IndexPhaseOf
    <3> QED
      BY <3>1, <3>2, <3>3
  <2> QED
    BY <2>1
<1>4. log' = Append(log, j.batch[j.k]) /\ acked' = acked
  BY <1>1 DEF WriteLength
<1>5. (StoredLog = log)'
  <2>1. (IInv => StoredLog = log)'
    BY FilesSayLog, PTL
  <2> QED
    BY <2>1
<1> QED
  BY <1>3, <1>4, <1>5, FilesSayLog DEF Promise!Put

(* What append_get_seqno returns is acknowledged.                          *)
LEMMA PublishAcknowledges ==
  ASSUME IInv, IInv', NEW w \in Writers, Publish(w)
  PROVE  \E i, j \in 0..Len(log) - 1 : i <= j /\ Promise!Acknowledge(i, j)
<1>1. PICK j \in Job : j = job[w]
  BY DEF IInv, TypeOK
<1>2. PlanOf(j, "publish") /\ IndexPhaseOf(j, "publish")
  BY <1>1, WriterNow DEF Publish
<1>3. /\ Len(log) = j.seqno + Len(j.batch)
      /\ \A i \in 1..Len(j.batch) : log[j.seqno + i] = j.batch[i]
      /\ Len(j.batch) \in Nat \ {0} /\ j.seqno \in Nat
  BY <1>2, Constants DEF IndexPhaseOf, PlanOf, Job
<1> DEFINE first == j.seqno
           last == j.seqno + Len(j.batch) - 1
<1>4. first \in 0..Len(log) - 1 /\ last \in 0..Len(log) - 1 /\ first <= last
  BY SMTT(40), <1>3
<1>5. /\ acked' = acked \cup
           {<<j.seqno + i - 1, j.batch[i]>> : i \in 1..Len(j.batch)}
      /\ log' = log
  BY <1>1 DEF Publish
<1>6. {<<j.seqno + i - 1, j.batch[i]>> : i \in 1..Len(j.batch)}
        = {<<s, log[s + 1]>> : s \in first..last}
  <2>1. ASSUME NEW i \in 1..Len(j.batch)
        PROVE  /\ j.seqno + i - 1 \in first..last
               /\ j.batch[i] = log[(j.seqno + i - 1) + 1]
    <3>1. j.seqno + i - 1 \in first..last /\ (j.seqno + i - 1) + 1 = j.seqno + i
      BY <1>3
    <3> QED
      BY <3>1, <1>3
  <2>2. ASSUME NEW s \in first..last
        PROVE  \E i \in 1..Len(j.batch) :
                 s = j.seqno + i - 1 /\ log[s + 1] = j.batch[i]
    <3>1. /\ s - j.seqno + 1 \in 1..Len(j.batch)
          /\ s = j.seqno + (s - j.seqno + 1) - 1
          /\ s + 1 = j.seqno + (s - j.seqno + 1)
      BY SMTT(40), <1>3
    <3> QED
      BY <3>1, <1>3
  <2> QED
    BY <2>1, <2>2
<1>7. (StoredLog = log)'
  <2>1. (IInv => StoredLog = log)'
    BY FilesSayLog, PTL
  <2> QED
    BY <2>1
<1>8. Promise!Acknowledge(first, last)
  BY <1>5, <1>6, <1>7, FilesSayLog DEF Promise!Acknowledge
<1> QED
  BY <1>4, <1>8

(* A step of the code is a step of the log, or changes nothing of it.      *)
LEMMA NextIsLogStep ==
  ASSUME IInv, IInv', [Next]_vars
  PROVE  [Promise!LogNext]_(Promise!logVars)
<1>1. StoredLog = log /\ (StoredLog = log)'
  <2>1. (IInv => StoredLog = log)'
    BY FilesSayLog, PTL
  <2> QED
    BY <2>1, FilesSayLog
<1>2. CASE log' = log /\ acked' = acked
  BY <1>1, <1>2 DEF Promise!logVars
<1>3. ASSUME NEW w \in Writers, WriteLength(w)
      PROVE  Promise!LogNext
  BY <1>3, WriteLengthPuts DEF Promise!LogNext
<1>4. ASSUME NEW w \in Writers, Publish(w)
      PROVE  Promise!LogNext
  BY <1>1, <1>4, PublishAcknowledges DEF Promise!LogNext
<1>5. ASSUME NEW w \in Writers, WriterStep(w), ~WriteLength(w), ~Publish(w)
      PROVE  log' = log /\ acked' = acked
  BY <1>5 DEF WriterStep, PlanRecord, RejectEmpty, GrowData, DataMapFails,
              WriteRecord, FinishData, GrowIndex, IndexMapFails, WriteOffset,
              FinishIndex
<1>6. ASSUME NEW w \in Writers, NEW b \in Batches, AcquireLock(w, b)
      PROVE  log' = log /\ acked' = acked
  BY <1>6 DEF AcquireLock
<1>7. ASSUME \/ OpenStep
             \/ \E r \in Readers : Fetch(r) \/ \E s \in IndexAddress : Seek(r, s)
             \/ DropIndex \/ DropData \/ Crash
             \/ UNCHANGED vars
      PROVE  log' = log /\ acked' = acked
  BY <1>7 DEF OpenStep, OpenIndex, FindActualEnd, OpenData, Fetch, Seek,
              DropIndex, DropData, Crash, vars
<1> QED
  BY <1>2, <1>3, <1>4, <1>5, <1>6, <1>7 DEF Next

(* The files are an append-only log: records are added one at a time at    *)
(* the end of what the files hold and never taken back, and a sequence     *)
(* number is given out for the record under it only; crashes, truncations, *)
(* failed appends and reopenings change nothing of it.                     *)
THEOREM FilesAreALog == Spec => ImplementsAppendLog
<1>1. Init => Promise!LogInit
  <2>1. Init => log = << >> /\ acked = {}
    BY DEF Init
  <2> QED
    BY <2>1, InitIInv, FilesSayLog DEF Promise!LogInit
<1>2. IInv /\ IInv' /\ [Next]_vars => [Promise!LogNext]_(Promise!logVars)
  BY NextIsLogStep
<1> QED
  BY <1>1, <1>2, Invariance, PTL DEF Spec, ImplementsAppendLog, Promise!LogSpec
=============================================================================
