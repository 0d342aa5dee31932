------------------------ MODULE GrowableMmapProofs ------------------------
(***************************************************************************)
(* Proofs about GrowableMmap: IInv is an inductive invariant, and with it  *)
(* every read between two appends is given the appended bytes, the maps    *)
(* are few, the index describes them, and the file is a store of           *)
(* StoreSpec.  All of it for every size of the file and of the maps, every *)
(* set of sizes of the appends, with a file and in memory.                 *)
(***************************************************************************)
EXTENDS GrowableMmap, TLAPS

-----------------------------------------------------------------------------
(* The inductive invariant *)

Types ==
  /\ mem \in [0..Cap -> [Address -> Byte]]
  /\ fileLen \in 0..Cap /\ objects \in 0..Cap
  /\ open \in BOOLEAN
  /\ chunks \in Seq(Chunk) /\ maps \in Seq(Map)
  /\ active \in [len : Nat, map : Map, bounds : Chunk]
  /\ write \in [stage : {"none", "apply", "flush"}, from : Nat, ext : Nat]
  /\ actual \in Nat
  /\ stored \in Seq(Byte)

(* for every byte of the chunk there is a first bound behind it, which is  *)
(* what ChunkFind looks for *)
HasNextBound(c) ==
  \A x \in 0..SizeOf(c) - 1 :
    \E i \in 1..Len(c.ends) :
      c.ends[i] > x /\ \A j \in 1..i - 1 : c.ends[j] <= x

Bounded(c) ==
  /\ c.ends # << >>
  /\ \A i \in 1..Len(c.ends) : c.ends[i] \in 1..SizeOf(c)
  /\ HasNextBound(c)

(* the chunks cover the first n addresses, and no other *)
Tiles(cs, n) ==
  /\ \A i \in 1..Len(cs) : Bounded(cs[i]) /\ GlobalEnd(cs[i]) <= n
  /\ \A a \in 0..n - 1 : \E i \in 1..Len(cs) : Covers(cs[i], a)

Matching ==
  /\ Len(maps) = Len(chunks)
  /\ \A n \in 1..Len(chunks) : maps[n].len = SizeOf(chunks[n])

(* every map of the file lies where its chunk says, within the file *)
OnTheFile ==
  Persistent =>
    /\ objects = 0
    /\ InactiveLen <= fileLen
    /\ \A n \in 1..Len(maps) :
         maps[n].object = 0 /\ maps[n].at = chunks[n].start
    /\ active.len > 0 =>
         /\ active.map.object = 0 /\ active.map.at = active.bounds.start
         /\ active.bounds.start + active.len <= fileLen

(* no two anonymous maps share an object, and each is filled by one append *)
InMemory ==
  ~Persistent =>
    /\ fileLen = 0
    /\ objects <= TheEnd
    /\ active.len = 0 => objects = 0 /\ chunks = << >>
    /\ \A n \in 1..Len(maps) :
         maps[n].object \in 1..objects - 1 /\ maps[n].at = 0
    /\ active.len > 0 =>
         /\ objects > 0
         /\ active.map.object = objects /\ active.map.at = 0
         /\ active.len = SizeOf(active.bounds)
         /\ active.bounds.start + active.len <= Cap

(* the active map begins where the inactive ones end *)
ActiveIsLast ==
  IF active.len = 0 THEN active = NoActive
  ELSE /\ Bounded(active.bounds)
       /\ active.bounds.start = InactiveLen
       /\ SizeOf(active.bounds) <= active.len

(* what an append that holds the lock has done so far *)
Phases ==
  /\ ~open => /\ chunks = << >> /\ maps = << >>
              /\ active = NoActive /\ write = NoWrite
  /\ IF write.stage = "none" THEN write = NoWrite
     ELSE /\ active.len > 0
          /\ write.ext > 0
          /\ write.from + write.ext = SizeOf(active.bounds)
  /\ actual + write.ext = TheEnd
  /\ Len(stored) = IF write.stage = "apply" THEN actual ELSE TheEnd

Written == IF write.stage = "apply" THEN write.from ELSE SizeOf(active.bounds)

(* every map holds the bytes of its part of the appended data *)
Contents ==
  /\ \A n \in 1..Len(chunks) : \A k \in 0..SizeOf(chunks[n]) - 1 :
       mem[maps[n].object][maps[n].at + k] = stored[chunks[n].start + k + 1]
  /\ \A k \in 0..Written - 1 :
       mem[active.map.object][active.map.at + k]
         = stored[active.bounds.start + k + 1]
  /\ \A o \in objects + 1..Cap : mem[o] = [a \in Address |-> Zero]

Few ==
  Persistent => Len(maps) <= MaxMaps + (IF write.stage = "none" THEN 0 ELSE 1)

IInv ==
  /\ Types
  /\ Tiles(chunks, InactiveLen)
  /\ Matching
  /\ OnTheFile
  /\ InMemory
  /\ ActiveIsLast
  /\ Phases
  /\ Contents
  /\ Few

-----------------------------------------------------------------------------
(* The operators on chunks *)

(* The size and the end of a chunk are numbers, its last bound its size.   *)
LEMMA ChunkSizes ==
  ASSUME NEW c \in Chunk
  PROVE  /\ c.start \in Nat /\ c.ends \in Seq(Nat)
         /\ SizeOf(c) \in Nat /\ GlobalEnd(c) \in Nat
         /\ GlobalEnd(c) = c.start + SizeOf(c)
         /\ c.ends = << >> => SizeOf(c) = 0
         /\ Bounded(c) => SizeOf(c) > 0 /\ c.start < GlobalEnd(c)
BY DEF Chunk, SizeOf, GlobalEnd, Bounded

(* append_relative_end: the chunk grows to the new bound and still leads   *)
(* every byte to the first bound behind it.                                *)
LEMMA AppendEndFacts ==
  ASSUME NEW c \in Chunk, c.ends = << >> \/ Bounded(c),
         NEW e \in Nat, e > SizeOf(c)
  PROVE  /\ AppendEnd(c, e) \in Chunk
         /\ AppendEnd(c, e).start = c.start
         /\ SizeOf(AppendEnd(c, e)) = e
         /\ GlobalEnd(AppendEnd(c, e)) = c.start + e
         /\ Bounded(AppendEnd(c, e))
         /\ EndsOf(AppendEnd(c, e)) = EndsOf(c) \cup {c.start + e}
<1> DEFINE d == AppendEnd(c, e)
           n == Len(c.ends)
<1>0. c.ends \in Seq(Nat) /\ c.start \in Nat
  BY DEF Chunk
<1>1. /\ d \in Chunk /\ d.start = c.start /\ d.ends = Append(c.ends, e)
      /\ n \in Nat /\ Len(d.ends) = n + 1
      /\ d.ends[n + 1] = e
      /\ \A i \in 1..n : d.ends[i] = c.ends[i] /\ c.ends[i] \in Nat
      /\ d.ends # << >>
      /\ c.ends = << >> => n = 0
  <2>1. Append(c.ends, e) \in Seq(Nat)
    BY <1>0
  <2>2. d \in Chunk /\ d.start = c.start /\ d.ends = Append(c.ends, e)
    BY <2>1 DEF AppendEnd, Chunk
  <2>. HIDE DEF d
  <2>3. QED
    BY SMTT(40), <2>2, <1>0
<1>2. SizeOf(d) = e /\ GlobalEnd(d) = c.start + e
  BY <1>1 DEF SizeOf, GlobalEnd
<1>3. SizeOf(c) \in Nat
  BY ChunkSizes
<1>4. \A i \in 1..n : c.ends[i] \in 1..SizeOf(c)
  BY <1>1 DEF Bounded
<1>5. \A i \in 1..n + 1 : d.ends[i] \in 1..e
  BY <1>1, <1>3, <1>4
<1>6. HasNextBound(d)
  <2> SUFFICES ASSUME NEW x \in 0..e - 1
               PROVE  \E i \in 1..n + 1 :
                        d.ends[i] > x /\ \A j \in 1..i - 1 : d.ends[j] <= x
    BY <1>1, <1>2 DEF HasNextBound
  <2>1. CASE x < SizeOf(c)
    <3>1. HasNextBound(c)
      BY <1>3, <2>1 DEF Bounded, SizeOf
    <3>2. PICK i \in 1..n : c.ends[i] > x /\ \A j \in 1..i - 1 : c.ends[j] <= x
      BY <3>1, <2>1, <1>3 DEF HasNextBound
    <3>3. QED
      BY <3>2, <1>1
  <2>2. CASE x >= SizeOf(c)
    <3>1. \A j \in 1..n : d.ends[j] <= x
      BY <2>2, <1>1, <1>3, <1>4
    <3>2. QED
      BY SMTT(40), <3>1, <1>1
  <2>3. QED
    BY <2>1, <2>2, <1>3
<1>7. Bounded(d)
  BY <1>1, <1>2, <1>5, <1>6 DEF Bounded
<1>8. EndsOf(d) = EndsOf(c) \cup {c.start + e}
  <2>1. EndsOf(d) = {c.start + d.ends[i] : i \in 1..n + 1}
    BY <1>1 DEF EndsOf
  <2>2. EndsOf(c) = {c.start + d.ends[i] : i \in 1..n}
    BY <1>1 DEF EndsOf
  <2>3. 1..n + 1 = 1..n \cup {n + 1}
    BY <1>1
  <2>4. QED
    BY SMTT(40), <2>1, <2>2, <2>3, <1>1
<1>9. QED
  BY <1>1, <1>2, <1>7, <1>8

(* MmapChunkAddressMapper::find: the offset is that of the address, the    *)
(* length reaches at least one byte and not past the chunk.                *)
LEMMA ChunkFindFacts ==
  ASSUME NEW c \in Chunk, Bounded(c), NEW a \in Nat, Covers(c, a)
  PROVE  LET d == ChunkFind(c, a) IN
         /\ d.offset = a - c.start
         /\ a - c.start \in 0..SizeOf(c) - 1
         /\ d.len \in Nat /\ d.len > 0
         /\ a + d.len <= GlobalEnd(c)
<1> DEFINE rel == a - c.start
           next == CHOOSE i \in 1..Len(c.ends) :
                     c.ends[i] > rel /\ \A j \in 1..i - 1 : c.ends[j] <= rel
<1>1. rel \in 0..SizeOf(c) - 1 /\ c.start \in Nat /\ SizeOf(c) \in Nat
      /\ GlobalEnd(c) = c.start + SizeOf(c)
  BY ChunkSizes DEF Covers
<1>2. \E i \in 1..Len(c.ends) :
        c.ends[i] > rel /\ \A j \in 1..i - 1 : c.ends[j] <= rel
  BY <1>1 DEF Bounded, HasNextBound
<1>3. next \in 1..Len(c.ends) /\ c.ends[next] > rel
  BY <1>2
<1>4. c.ends[next] \in 1..SizeOf(c)
  BY <1>3 DEF Bounded
<1>5. ChunkFind(c, a) = [offset |-> rel, len |-> c.ends[next] - rel]
  BY DEF ChunkFind
<1>. HIDE DEF next
<1>6. QED
  BY SMTT(40), <1>1, <1>3, <1>4, <1>5

(* IndexOnMmaps::append of a chunk that begins where the index ends.       *)
LEMMA AppendTiles ==
  ASSUME NEW cs \in Seq(Chunk), NEW n \in Nat, Tiles(cs, n),
         NEW c \in Chunk, Bounded(c), c.start = n
  PROVE  /\ WithChunk(cs, c) = Append(cs, c)
         /\ Append(cs, c) \in Seq(Chunk)
         /\ Append(cs, c) # << >>
         /\ Tiles(Append(cs, c), GlobalEnd(c))
<1> DEFINE ds == Append(cs, c)
           m == Len(cs)
<1>1. /\ ds \in Seq(Chunk) /\ m \in Nat /\ Len(ds) = m + 1 /\ ds[m + 1] = c
      /\ \A i \in 1..m : ds[i] = cs[i] /\ cs[i] \in Chunk
      /\ ds # << >>
  OBVIOUS
<1>2. SizeOf(c) \in Nat /\ SizeOf(c) > 0 /\ n < GlobalEnd(c)
      /\ GlobalEnd(c) \in Nat
  BY ChunkSizes
<1>3. WithChunk(cs, c) = ds
  BY <1>2 DEF WithChunk
<1>4. \A i \in 1..m : Bounded(cs[i]) /\ GlobalEnd(cs[i]) <= n
                      /\ GlobalEnd(cs[i]) \in Nat
  BY <1>1, ChunkSizes DEF Tiles
<1>5. ASSUME NEW i \in 1..m + 1
      PROVE  Bounded(ds[i]) /\ GlobalEnd(ds[i]) <= GlobalEnd(c)
  <2>1. CASE i \in 1..m
    BY <2>1, <1>1, <1>2, <1>4
  <2>2. CASE i = m + 1
    BY <2>2, <1>1, <1>2
  <2>3. QED
    BY <2>1, <2>2, <1>1
<1>6. ASSUME NEW a \in 0..GlobalEnd(c) - 1
      PROVE  \E i \in 1..m + 1 : Covers(ds[i], a)
  <2>1. CASE a < n
    <3>1. PICK i \in 1..m : Covers(cs[i], a)
      BY <2>1 DEF Tiles
    <3>2. QED
      BY <3>1, <1>1
  <2>2. CASE a >= n
    <3>1. Covers(c, a)
      BY <2>2, <1>2 DEF Covers
    <3>2. QED
      BY <3>1, <1>1
  <2>3. QED
    BY <2>1, <2>2, <1>2
<1>7. Tiles(ds, GlobalEnd(c))
  BY <1>1, <1>5, <1>6 DEF Tiles
<1>8. QED
  BY <1>1, <1>3, <1>7

-----------------------------------------------------------------------------
(* What the invariant says of a state *)

(* The end of the appended data lies within the file or the anonymous maps.*)
LEMMA EndFacts ==
  ASSUME IInv
  PROVE  /\ InactiveLen \in Nat /\ TheEnd \in Nat
         /\ SizeOf(active.bounds) \in Nat /\ active.bounds.start \in Nat
         /\ InactiveLen <= TheEnd /\ TheEnd <= Cap
         /\ Persistent => TheEnd <= fileLen
         /\ active.len = 0 => /\ TheEnd = InactiveLen
                              /\ SizeOf(active.bounds) = 0
         /\ active.len > 0 => /\ TheEnd = InactiveLen + SizeOf(active.bounds)
                              /\ TheEnd = GlobalEnd(active.bounds)
                              /\ SizeOf(active.bounds) > 0
                              /\ active.bounds.start = InactiveLen
<1>1. active.len \in Nat /\ active.bounds \in Chunk /\ fileLen \in 0..Cap
      /\ Cap \in Nat
  BY GrowableAssumption DEF IInv, Types
<1>2. InactiveLen \in Nat
  <2>1. CASE chunks = << >>
    BY <2>1 DEF InactiveLen
  <2>2. CASE chunks # << >>
    <3>1. chunks[Len(chunks)] \in Chunk
      BY <2>2 DEF IInv, Types
    <3>2. QED
      BY <2>2, <3>1, ChunkSizes DEF InactiveLen
  <2>3. QED
    BY <2>1, <2>2
<1>3. SizeOf(active.bounds) \in Nat /\ active.bounds.start \in Nat
      /\ GlobalEnd(active.bounds) = active.bounds.start + SizeOf(active.bounds)
  BY <1>1, ChunkSizes
<1>4. CASE active.len = 0
  <2>1. TheEnd = InactiveLen
    BY <1>4 DEF TheEnd
  <2>2. active.bounds = NoChunk
    BY <1>4 DEF IInv, ActiveIsLast, NoActive
  <2>3. SizeOf(active.bounds) = 0
    BY <2>2 DEF NoChunk, SizeOf
  <2>4. Persistent => TheEnd <= fileLen
    BY <2>1 DEF IInv, OnTheFile
  <2>5. ~Persistent => TheEnd = 0
    BY <2>1, <1>4 DEF IInv, InMemory, InactiveLen
  <2>6. QED
    BY <1>1, <1>2, <1>3, <1>4, <2>1, <2>3, <2>4, <2>5
<1>5. CASE active.len > 0
  <2>1. /\ Bounded(active.bounds) /\ active.bounds.start = InactiveLen
        /\ SizeOf(active.bounds) <= active.len
    BY <1>5 DEF IInv, ActiveIsLast
  <2>2. SizeOf(active.bounds) > 0
    BY <1>1, <2>1, ChunkSizes
  <2>3. TheEnd = InactiveLen + SizeOf(active.bounds)
        /\ TheEnd = GlobalEnd(active.bounds)
    BY <1>3, <1>5, <2>1 DEF TheEnd
  <2>4. Persistent => active.bounds.start + active.len <= fileLen
    BY <1>5 DEF IInv, OnTheFile
  <2>5. ~Persistent => active.bounds.start + active.len <= Cap
    BY <1>5 DEF IInv, InMemory
  <2>6. QED
    BY <1>1, <1>2, <1>3, <1>5, <2>1, <2>2, <2>3, <2>4, <2>5
<1>6. QED
  BY <1>1, <1>4, <1>5

(* The k-th byte of an inactive chunk has a place in a map and a number    *)
(* among the bytes appended.                                               *)
LEMMA Located ==
  ASSUME IInv, NEW n \in 1..Len(chunks), NEW k \in 0..SizeOf(chunks[n]) - 1
  PROVE  /\ n \in 1..Len(maps)
         /\ chunks[n] \in Chunk /\ maps[n] \in Map
         /\ SizeOf(chunks[n]) \in Nat
         /\ chunks[n].start \in Nat /\ maps[n].at \in Nat /\ k \in Nat
         /\ maps[n].object \in 0..Cap
         /\ maps[n].at + k \in Address
         /\ chunks[n].start + k \in 0..InactiveLen - 1
         /\ Persistent => /\ maps[n].object = 0
                          /\ maps[n].at + k = chunks[n].start + k
<1>1. /\ Len(maps) = Len(chunks) /\ chunks \in Seq(Chunk) /\ maps \in Seq(Map)
      /\ objects \in 0..Cap /\ Cap \in Nat
  BY GrowableAssumption DEF IInv, Types, Matching
<1>2. chunks[n] \in Chunk /\ maps[n] \in Map /\ n \in 1..Len(maps)
  BY <1>1
<1>3. /\ chunks[n].start \in Nat /\ SizeOf(chunks[n]) \in Nat
      /\ GlobalEnd(chunks[n]) = chunks[n].start + SizeOf(chunks[n])
  BY <1>2, ChunkSizes
<1>4. GlobalEnd(chunks[n]) <= InactiveLen
  BY DEF IInv, Tiles
<1>5. InactiveLen \in Nat /\ InactiveLen <= Cap
  BY <1>1, EndFacts
<1>6. chunks[n].start + k \in 0..InactiveLen - 1
  BY <1>3, <1>4, <1>5
<1>10. k \in Nat
  BY <1>3
<1>7. CASE Persistent
  <2>1. maps[n].object = 0 /\ maps[n].at = chunks[n].start
    BY <1>2, <1>7 DEF IInv, OnTheFile
  <2>2. chunks[n].start + k \in 0..Cap - 1
    BY <1>1, <1>3, <1>5, <1>6, <1>10
  <2>3. 0 \in 0..Cap
    BY <1>1
  <2>4. QED
    BY <1>2, <1>3, <1>6, <1>10, <2>1, <2>2, <2>3 DEF Address
<1>8. CASE ~Persistent
  <2>1. maps[n].object \in 1..objects - 1 /\ maps[n].at = 0
    BY <1>2, <1>8 DEF IInv, InMemory
  <2>2. k \in 0..Cap - 1
    BY <1>1, <1>3, <1>4, <1>5
  <2>3. QED
    BY <1>1, <1>2, <1>3, <1>6, <1>8, <2>1, <2>2 DEF Address
<1>9. maps[n].at \in Nat
  BY <1>2 DEF Map
<1>11. QED
  BY <1>1, <1>2, <1>3, <1>6, <1>7, <1>8, <1>9, <1>10

(* The same for the bytes the active map may hold.                         *)
LEMMA LocatedActive ==
  ASSUME IInv, active.len > 0, NEW k \in 0..active.len - 1
  PROVE  /\ active.map.object \in 0..Cap
         /\ active.map.at + k \in Address
         /\ active.map.at \in Nat
         /\ Persistent => /\ active.map.object = 0
                          /\ active.map.at = active.bounds.start
<1>1. /\ active.len \in Nat /\ active.map \in Map /\ active.bounds \in Chunk
      /\ active.bounds.start \in Nat
      /\ objects \in 0..Cap /\ Cap \in Nat /\ fileLen \in 0..Cap
  BY GrowableAssumption DEF IInv, Types, Chunk
<1>2. CASE Persistent
  BY SMTT(40), <1>1, <1>2 DEF IInv, OnTheFile, Address
<1>3. CASE ~Persistent
  <2>1. /\ active.map.object = objects /\ active.map.at = 0
        /\ active.bounds.start + active.len <= Cap
    BY <1>3 DEF IInv, InMemory
  <2>2. QED
    BY <1>1, <1>3, <2>1 DEF Address
<1>4. QED
  BY <1>1, <1>2, <1>3 DEF Map

-----------------------------------------------------------------------------
(* The file *)

(* set_len keeps what is before both lengths and nothing else changes.     *)
LEMMA ResizeFacts ==
  ASSUME Types, NEW n \in 0..Cap, Resize(n)
  PROVE  /\ mem' \in [0..Cap -> [Address -> Byte]]
         /\ fileLen' = n
         /\ \A a \in Address : mem'[0][a] = IF a < n /\ a < fileLen
                                           THEN mem[0][a] ELSE Zero
         /\ \A o \in 1..Cap : mem'[o] = mem[o]
<1>1. 0 \in 0..Cap /\ mem \in [0..Cap -> [Address -> Byte]] /\ Cap \in Nat
  BY GrowableAssumption DEF Types
<1>2. Zero \in Byte
  BY DEF Byte
<1> DEFINE f == [a \in Address |->
                   IF a < n /\ a < fileLen THEN mem[0][a] ELSE Zero]
<1>3. f \in [Address -> Byte]
  BY <1>1, <1>2
<1>4. fileLen' = n /\ mem' = [mem EXCEPT ![0] = f]
  BY DEF Resize
<1>5. mem'[0] = f /\ \A o \in 1..Cap : mem'[o] = mem[o]
  BY <1>1, <1>4
<1>6. mem' \in [0..Cap -> [Address -> Byte]]
  BY <1>1, <1>3, <1>4
<1>7. QED
  BY <1>4, <1>5, <1>6

(* create_mmap leaves every byte where it is that some map holds, and the  *)
(* new part of the file or the new anonymous map is there.                 *)
LEMMA CreateMmapFacts ==
  ASSUME IInv, NEW size \in Nat, size > 0, CreateMmap(size, TheEnd),
         active.len > 0 => SizeOf(active.bounds) + size >= active.len
  PROVE  /\ TheEnd + size <= Cap
         /\ mem' \in [0..Cap -> [Address -> Byte]]
         /\ fileLen' \in 0..Cap /\ objects' \in 0..Cap
         /\ NewMap(size, TheEnd) \in Map
         /\ NewMap(size, TheEnd).len = size
         /\ \A n \in 1..Len(chunks) : \A k \in 0..SizeOf(chunks[n]) - 1 :
              mem'[maps[n].object][maps[n].at + k]
                = mem[maps[n].object][maps[n].at + k]
         /\ \A k \in 0..SizeOf(active.bounds) - 1 :
              mem'[active.map.object][active.map.at + k]
                = mem[active.map.object][active.map.at + k]
         /\ \A o \in objects' + 1..Cap : mem'[o] = [a \in Address |-> Zero]
         /\ Persistent => /\ fileLen' = TheEnd + size
                          /\ objects' = objects
                          /\ NewMap(size, TheEnd).object = 0
                          /\ NewMap(size, TheEnd).at = TheEnd
         /\ ~Persistent => /\ fileLen' = fileLen /\ mem' = mem
                           /\ objects' = objects + 1
                           /\ objects' <= TheEnd + 1
                           /\ NewMap(size, TheEnd).object = objects'
                           /\ NewMap(size, TheEnd).at = 0
<1>1. /\ TheEnd \in Nat /\ InactiveLen \in Nat /\ InactiveLen <= TheEnd
      /\ SizeOf(active.bounds) \in Nat
      /\ Persistent => TheEnd <= fileLen
      /\ active.len = 0 => SizeOf(active.bounds) = 0
      /\ active.len > 0 => /\ TheEnd = InactiveLen + SizeOf(active.bounds)
                           /\ active.bounds.start = InactiveLen
  BY EndFacts
<1>2. Types /\ Cap \in Nat /\ fileLen \in 0..Cap /\ objects \in 0..Cap
      /\ active.len \in Nat
      /\ mem \in [0..Cap -> [Address -> Byte]]
  BY GrowableAssumption DEF IInv, Types
<1>3. TheEnd + size <= Cap
  BY DEF CreateMmap
<1>4. NewMap(size, TheEnd) \in Map /\ NewMap(size, TheEnd).len = size
  BY <1>1, <1>2 DEF NewMap, Map
<1>5. ASSUME NEW k \in 0..SizeOf(active.bounds) - 1
      PROVE  /\ active.map.object \in 0..Cap /\ active.map.at + k \in Address
             /\ Persistent => /\ active.map.object = 0
                              /\ active.map.at + k < TheEnd
  <2>1. active.len > 0
    BY <1>1, <1>2
  <2>2. SizeOf(active.bounds) <= active.len
    BY <2>1 DEF IInv, ActiveIsLast
  <2>3. k \in 0..active.len - 1
    BY <1>1, <1>2, <2>2
  <2>4. QED
    BY <1>1, <2>1, <2>3, LocatedActive
<1>6. CASE Persistent
  <2>1. Resize(TheEnd + size) /\ objects' = objects
    BY <1>6 DEF CreateMmap
  <2>2. TheEnd + size \in 0..Cap
    BY <1>1, <1>3
  <2>3. /\ mem' \in [0..Cap -> [Address -> Byte]]
        /\ fileLen' = TheEnd + size
        /\ \A a \in Address : mem'[0][a] = IF a < TheEnd + size /\ a < fileLen
                                           THEN mem[0][a] ELSE Zero
        /\ \A o \in 1..Cap : mem'[o] = mem[o]
    BY <1>2, <2>1, <2>2, ResizeFacts
  <2>4. \A a \in Address : a < TheEnd => mem'[0][a] = mem[0][a]
    BY <1>1, <1>2, <1>6, <2>3 DEF Address
  <2>5. ASSUME NEW n \in 1..Len(chunks), NEW k \in 0..SizeOf(chunks[n]) - 1
        PROVE  mem'[maps[n].object][maps[n].at + k]
                 = mem[maps[n].object][maps[n].at + k]
    <3>1. /\ maps[n].object = 0 /\ maps[n].at + k \in Address
          /\ maps[n].at + k = chunks[n].start + k
          /\ chunks[n].start + k \in 0..InactiveLen - 1
      BY <1>6, Located
    <3>2. maps[n].at + k < TheEnd
      BY <1>1, <3>1
    <3>3. QED
      BY <3>1, <3>2, <2>4
  <2>6. ASSUME NEW k \in 0..SizeOf(active.bounds) - 1
        PROVE  mem'[active.map.object][active.map.at + k]
                 = mem[active.map.object][active.map.at + k]
    BY <1>5, <1>6, <2>4
  <2>7. \A o \in objects' + 1..Cap : mem'[o] = [a \in Address |-> Zero]
    BY <1>2, <2>1, <2>3 DEF IInv, Contents
  <2>8. NewMap(size, TheEnd).object = 0 /\ NewMap(size, TheEnd).at = TheEnd
    BY <1>6 DEF NewMap
  <2>9. QED
    BY <1>2, <1>3, <1>4, <1>6, <2>1, <2>2, <2>3, <2>5, <2>6, <2>7, <2>8
<1>7. CASE ~Persistent
  <2>1. mem' = mem /\ fileLen' = fileLen /\ objects' = objects + 1
    BY <1>7 DEF CreateMmap
  <2>2. objects <= TheEnd
    BY <1>7 DEF IInv, InMemory
  <2>3. objects' \in 0..Cap /\ objects' <= TheEnd + 1
    BY <1>1, <1>2, <1>3, <2>1, <2>2
  <2>4. \A o \in objects' + 1..Cap : mem'[o] = [a \in Address |-> Zero]
    BY <1>2, <2>1, <2>3 DEF IInv, Contents
  <2>5. NewMap(size, TheEnd).object = objects' /\ NewMap(size, TheEnd).at = 0
    BY <1>7, <2>1 DEF NewMap
  <2>6. QED
    BY <1>2, <1>3, <1>4, <1>7, <2>1, <2>3, <2>4, <2>5
<1>8. QED
  BY <1>6, <1>7

-----------------------------------------------------------------------------
(* The steps *)

(* In the initial state nothing is mapped and nothing was appended.        *)
LEMMA InitInv ==
  ASSUME Init
  PROVE  IInv
<1>1. Cap \in Nat /\ MaxMaps \in Nat /\ Zero \in Byte
  BY GrowableAssumption, StoreAssumption DEF Byte
<1>2. NoChunk \in Chunk /\ NoMap \in Map
  BY DEF NoChunk, Chunk, NoMap, Map
<1>3. Types
  <2>1. mem \in [0..Cap -> [Address -> Byte]]
    BY <1>1 DEF Init
  <2>2. active \in [len : Nat, map : Map, bounds : Chunk]
    BY <1>2 DEF Init, NoActive
  <2>3. write \in [stage : {"none", "apply", "flush"}, from : Nat, ext : Nat]
    BY DEF Init, NoWrite
  <2>4. chunks \in Seq(Chunk) /\ maps \in Seq(Map) /\ stored \in Seq(Byte)
    BY DEF Init
  <2>5. fileLen \in 0..Cap /\ objects \in 0..Cap /\ open \in BOOLEAN
        /\ actual \in Nat
    BY <1>1 DEF Init
  <2>6. QED
    BY <2>1, <2>2, <2>3, <2>4, <2>5 DEF Types
<1>4. chunks = << >> /\ maps = << >> /\ active = NoActive /\ write = NoWrite
      /\ stored = << >> /\ actual = 0 /\ objects = 0 /\ fileLen = 0 /\ ~open
  BY DEF Init
<1>5. InactiveLen = 0 /\ TheEnd = 0
  BY <1>4 DEF InactiveLen, TheEnd, NoActive
<1>6. SizeOf(active.bounds) = 0
  BY <1>4 DEF NoActive, NoChunk, SizeOf
<1>7. Tiles(chunks, InactiveLen) /\ Matching
  BY <1>4, <1>5 DEF Tiles, Matching
<1>8. OnTheFile /\ InMemory /\ ActiveIsLast
  BY <1>4, <1>5 DEF OnTheFile, InMemory, ActiveIsLast, NoActive
<1>9. Phases /\ Few
  BY <1>1, <1>4, <1>5 DEF Phases, Few, NoWrite
<1>10. Contents
  BY <1>1, <1>4, <1>6 DEF Contents, Written, NoWrite, Init
<1>11. QED
  BY <1>3, <1>7, <1>8, <1>9, <1>10 DEF IInv

(* A new active map behind the inactive ones that hold all the data.       *)
LEMMA NewActiveInv ==
  ASSUME IInv, NEW ext \in Exts, Idle,
         NEW size \in Nat, size = NewMmapSize(ext, Min),
         CreateMmap(size, TheEnd),
         active.len > 0 => SizeOf(active.bounds) + size >= active.len,
         active' = ActiveOn(size, TheEnd, ext), write' = Locked(0, ext),
         UNCHANGED <<open, actual, stored>>,
         chunks' \in Seq(Chunk), maps' \in Seq(Map), InactiveLen' = TheEnd,
         Tiles(chunks', TheEnd), Matching', Len(maps') <= Len(maps) + 1,
         Persistent => \A n \in 1..Len(maps') :
           maps'[n].object = 0 /\ maps'[n].at = chunks'[n].start,
         ~Persistent => \A n \in 1..Len(maps') :
           maps'[n].object \in 1..objects /\ maps'[n].at = 0,
         \A n \in 1..Len(chunks') : \A k \in 0..SizeOf(chunks'[n]) - 1 :
           mem'[maps'[n].object][maps'[n].at + k]
             = stored[chunks'[n].start + k + 1]
  PROVE  IInv'
<1>1. /\ ext \in Nat /\ ext > 0 /\ Min \in Nat /\ MaxMaps \in Nat
      /\ size >= ext /\ (~Persistent => size = ext)
  BY GrowableAssumption, StoreAssumption DEF NewMmapSize
<1>2. TheEnd \in Nat /\ write = NoWrite /\ open
  BY EndFacts DEF Idle, IInv, Phases
<1>3. /\ TheEnd + size <= Cap
      /\ mem' \in [0..Cap -> [Address -> Byte]]
      /\ fileLen' \in 0..Cap /\ objects' \in 0..Cap
      /\ NewMap(size, TheEnd) \in Map
      /\ \A o \in objects' + 1..Cap : mem'[o] = [a \in Address |-> Zero]
      /\ Persistent => /\ fileLen' = TheEnd + size
                       /\ objects' = objects
                       /\ NewMap(size, TheEnd).object = 0
                       /\ NewMap(size, TheEnd).at = TheEnd
      /\ ~Persistent => /\ fileLen' = fileLen
                        /\ objects' = objects + 1
                        /\ objects' <= TheEnd + 1
                        /\ NewMap(size, TheEnd).object = objects'
                        /\ NewMap(size, TheEnd).at = 0
  BY <1>1, CreateMmapFacts
<1> DEFINE b == AppendEnd(NewChunk(TheEnd), ext)
<1>4. NewChunk(TheEnd) \in Chunk /\ NewChunk(TheEnd).ends = << >>
      /\ NewChunk(TheEnd).start = TheEnd /\ SizeOf(NewChunk(TheEnd)) = 0
  BY <1>2 DEF NewChunk, Chunk, SizeOf
<1>5. /\ b \in Chunk /\ b.start = TheEnd /\ SizeOf(b) = ext
      /\ GlobalEnd(b) = TheEnd + ext /\ Bounded(b)
  BY <1>1, <1>4, AppendEndFacts
<1>6. /\ active'.len = size /\ active'.map = NewMap(size, TheEnd)
      /\ active'.bounds = b
      /\ active' \in [len : Nat, map : Map, bounds : Chunk]
  BY <1>3, <1>5 DEF ActiveOn
<1>7. /\ write'.stage = "apply" /\ write'.from = 0 /\ write'.ext = ext
      /\ write' \in [stage : {"none", "apply", "flush"}, from : Nat, ext : Nat]
  BY <1>1 DEF Locked
<1>8. TheEnd' = TheEnd + ext
  BY <1>1, <1>5, <1>6 DEF TheEnd
<1>. HIDE DEF b
<1>9. Types'
  BY <1>3, <1>6, <1>7 DEF IInv, Types
<1>10. Tiles(chunks, InactiveLen)'
  OBVIOUS
<1>11. OnTheFile'
  <2>1. ASSUME Persistent
        PROVE  /\ objects' = 0 /\ InactiveLen' <= fileLen'
               /\ active'.map.object = 0
               /\ active'.map.at = active'.bounds.start
               /\ active'.bounds.start + active'.len <= fileLen'
    BY <1>1, <1>2, <1>3, <1>5, <1>6, <2>1 DEF IInv, OnTheFile
  <2>2. QED
    BY <2>1 DEF OnTheFile
<1>12. InMemory'
  <2>1. ASSUME ~Persistent
        PROVE  /\ fileLen' = 0 /\ objects' <= TheEnd' /\ active'.len # 0
               /\ \A n \in 1..Len(maps') :
                    maps'[n].object \in 1..objects' - 1 /\ maps'[n].at = 0
               /\ objects' > 0
               /\ active'.map.object = objects' /\ active'.map.at = 0
               /\ active'.len = SizeOf(active'.bounds)
               /\ active'.bounds.start + active'.len <= Cap
    <3>1. fileLen = 0 /\ objects \in Nat
      BY <2>1 DEF IInv, InMemory, Types
    <3>2. objects' - 1 = objects
      BY <1>3, <2>1, <3>1
    <3>3. QED
      BY <1>1, <1>2, <1>3, <1>5, <1>6, <1>8, <2>1, <3>1, <3>2
  <2>2. QED
    BY <2>1 DEF InMemory
<1>13. ActiveIsLast'
  BY <1>1, <1>5, <1>6 DEF ActiveIsLast
<1>14. Phases'
  <2>1. actual = TheEnd /\ Len(stored) = TheEnd
    BY <1>2 DEF IInv, Phases, NoWrite, Types
  <2>2. QED
    BY <1>1, <1>2, <1>5, <1>6, <1>7, <1>8, <2>1 DEF Phases
<1>15. Contents'
  <2>1. \A n \in 1..Len(chunks') : \A k \in 0..SizeOf(chunks'[n]) - 1 :
          mem'[maps'[n].object][maps'[n].at + k]
            = stored'[chunks'[n].start + k + 1]
    OBVIOUS
  <2>2. Written' = 0
    BY <1>7 DEF Written
  <2>3. \A k \in 0..Written' - 1 :
          mem'[active'.map.object][active'.map.at + k]
            = stored'[active'.bounds.start + k + 1]
    BY <2>2
  <2>4. QED
    BY <1>3, <2>1, <2>3 DEF Contents
<1>16. Few'
  <2>1. Persistent => Len(maps) <= MaxMaps
    BY <1>1, <1>2 DEF IInv, Few, NoWrite, Types
  <2>2. Len(maps) \in Nat /\ Len(maps') \in Nat
    BY DEF IInv, Types
  <2>3. QED
    BY <1>1, <1>7, <2>1, <2>2 DEF Few
<1>17. QED
  BY <1>9, <1>10, <1>11, <1>12, <1>13, <1>14, <1>15, <1>16 DEF IInv

(* The first append maps the end of the file or of the memory.             *)
LEMMA GrowFirstInv ==
  ASSUME IInv, NEW ext \in Exts, GrowFirst(ext)
  PROVE  IInv'
<1> DEFINE size == NewMmapSize(ext, Min)
<1>1. size \in Nat /\ size > 0
  BY GrowableAssumption DEF NewMmapSize
<1>2. active.len = 0 /\ TheEnd = InactiveLen /\ Idle
  BY EndFacts DEF GrowFirst
<1>3. /\ CreateMmap(size, TheEnd) /\ active' = ActiveOn(size, TheEnd, ext)
      /\ write' = Locked(0, ext)
      /\ UNCHANGED <<open, chunks, maps, actual, stored>>
  BY <1>2 DEF GrowFirst
<1>. HIDE DEF size
<1>4. InactiveLen' = TheEnd /\ Matching' /\ Tiles(chunks', TheEnd)
      /\ chunks' \in Seq(Chunk) /\ maps' \in Seq(Map)
      /\ Len(maps') <= Len(maps) + 1
  BY <1>2, <1>3 DEF IInv, Types, InactiveLen, Matching
<1>5. \A n \in 1..Len(chunks') : \A k \in 0..SizeOf(chunks'[n]) - 1 :
        mem'[maps'[n].object][maps'[n].at + k]
          = stored[chunks'[n].start + k + 1]
  BY <1>1, <1>2, <1>3, CreateMmapFacts DEF IInv, Contents
<1>6. Persistent => \A n \in 1..Len(maps') :
        maps'[n].object = 0 /\ maps'[n].at = chunks'[n].start
  BY <1>3 DEF IInv, OnTheFile
<1>7. ~Persistent => \A n \in 1..Len(maps') :
        maps'[n].object \in 1..objects /\ maps'[n].at = 0
  <2>1. ~Persistent => Len(maps) = 0
    <3>1. ~Persistent => chunks = << >>
      BY <1>2 DEF IInv, InMemory
    <3>2. Len(maps) = Len(chunks) /\ maps \in Seq(Map)
      BY DEF IInv, Matching, Types
    <3>3. QED
      BY <3>1, <3>2
  <2>2. QED
    BY <1>3, <2>1
<1>8. QED
  BY <1>1, <1>2, <1>3, <1>4, <1>5, <1>6, <1>7, NewActiveInv DEF size

(* The active map is full: it is cut, becomes inactive, and a new one      *)
(* takes its place.                                                        *)
LEMMA GrowNextInv ==
  ASSUME IInv, NEW ext \in Exts, GrowNext(ext)
  PROVE  IInv'
<1> DEFINE size == NewMmapSize(ext, Min)
           b == active.bounds
           m == Len(chunks)
<1>1. /\ size \in Nat /\ size > 0 /\ ext \in Nat /\ size >= ext
      /\ ~Persistent => size = ext
  BY GrowableAssumption DEF NewMmapSize
<1>2. /\ active.len > 0 /\ Idle /\ write = NoWrite
      /\ TheEnd = GlobalEnd(b) /\ b.start = InactiveLen
      /\ SizeOf(b) \in Nat /\ SizeOf(b) > 0 /\ SizeOf(b) + ext >= active.len
      /\ InactiveLen \in Nat /\ TheEnd \in Nat
  <2>1. active.len > 0 /\ Idle /\ ~Fits(ext)
    BY DEF GrowNext
  <2>2. write = NoWrite
    BY <2>1 DEF Idle, IInv, Phases
  <2>3. active.len \in Nat
    BY DEF IInv, Types
  <2>4. QED
    BY <1>1, <2>1, <2>2, <2>3, EndFacts DEF Fits
<1>3. b \in Chunk /\ Bounded(b) /\ active.map \in Map
      /\ active \in [len : Nat, map : Map, bounds : Chunk]
  BY <1>2 DEF IInv, ActiveIsLast, Types
<1>4. /\ CreateMmap(size, TheEnd) /\ active' = ActiveOn(size, TheEnd, ext)
      /\ write' = Locked(0, ext)
      /\ chunks' = WithChunk(chunks, b) /\ maps' = Append(maps, Retired)
      /\ UNCHANGED <<open, actual, stored>>
  BY <1>2 DEF GrowNext
<1>. HIDE DEF size
<1>5. /\ chunks' = Append(chunks, b) /\ chunks' \in Seq(Chunk)
      /\ chunks' # << >> /\ Tiles(chunks', TheEnd)
  BY ZenonT(40), <1>2, <1>3, <1>4, AppendTiles DEF IInv, Types
<1>6. /\ Retired \in Map /\ Retired.len = SizeOf(b)
      /\ Retired.object = active.map.object /\ Retired.at = active.map.at
  BY <1>2, <1>3 DEF Retired, Map
<1>7. /\ maps' \in Seq(Map) /\ m \in Nat /\ Len(maps) = m
      /\ Len(maps') = m + 1 /\ Len(chunks') = m + 1
      /\ maps'[m + 1] = Retired /\ chunks'[m + 1] = b
      /\ \A n \in 1..m : maps'[n] = maps[n] /\ chunks'[n] = chunks[n]
  BY <1>4, <1>5, <1>6 DEF IInv, Types, Matching
<1>. HIDE DEF m
<1>8. InactiveLen' = TheEnd
  BY <1>2, <1>5, <1>7 DEF InactiveLen
<1>9. Matching'
  <2>1. ASSUME NEW n \in 1..m + 1
        PROVE  maps'[n].len = SizeOf(chunks'[n])
    <3>1. CASE n \in 1..m
      BY <3>1, <1>7 DEF IInv, Matching, m
    <3>2. CASE n = m + 1
      BY <3>2, <1>6, <1>7
    <3>3. QED
      BY <3>1, <3>2, <1>7
  <2>2. QED
    BY <1>7, <2>1 DEF Matching
<1>10. ASSUME Persistent, NEW n \in 1..Len(maps')
       PROVE  maps'[n].object = 0 /\ maps'[n].at = chunks'[n].start
  <2>1. CASE n \in 1..m
    BY <2>1, <1>7, <1>10 DEF IInv, OnTheFile
  <2>2. CASE n = m + 1
    BY <2>2, <1>2, <1>6, <1>7, <1>10 DEF IInv, OnTheFile
  <2>3. QED
    BY <2>1, <2>2, <1>7
<1>11. ASSUME ~Persistent, NEW n \in 1..Len(maps')
       PROVE  maps'[n].object \in 1..objects /\ maps'[n].at = 0
  <2>1. objects \in Nat
    BY DEF IInv, Types
  <2>2. CASE n \in 1..m
    <3>1. maps[n].object \in 1..objects - 1 /\ maps[n].at = 0
      BY <2>2, <1>7, <1>11 DEF IInv, InMemory
    <3>2. QED
      BY <2>1, <2>2, <3>1, <1>7
  <2>3. CASE n = m + 1
    <3>1. objects > 0 /\ active.map.object = objects /\ active.map.at = 0
      BY <1>2, <1>11 DEF IInv, InMemory
    <3>2. QED
      BY <2>1, <2>3, <3>1, <1>6, <1>7
  <2>4. QED
    BY <2>2, <2>3, <1>7
<1>12. ASSUME NEW n \in 1..Len(chunks'), NEW k \in 0..SizeOf(chunks'[n]) - 1
       PROVE  mem'[maps'[n].object][maps'[n].at + k]
                = stored[chunks'[n].start + k + 1]
  <2>1. active.len > 0 => SizeOf(active.bounds) + size >= active.len
    BY <1>1, <1>2, <1>3
  <2>2. CASE n \in 1..m
    <3>1. mem'[maps[n].object][maps[n].at + k]
            = mem[maps[n].object][maps[n].at + k]
      BY ZenonT(40), <1>1, <1>4, <1>7, <2>1, <2>2, CreateMmapFacts DEF m
    <3>2. QED
      BY <1>7, <2>2, <3>1 DEF IInv, Contents, m
  <2>3. CASE n = m + 1
    <3>1. mem'[active.map.object][active.map.at + k]
            = mem[active.map.object][active.map.at + k]
      BY <1>1, <1>4, <1>7, <2>1, <2>3, CreateMmapFacts
    <3>2. Written = SizeOf(b)
      BY <1>2 DEF Written, NoWrite
    <3>3. QED
      BY <1>6, <1>7, <2>3, <3>1, <3>2 DEF IInv, Contents
  <2>4. QED
    BY <1>7, <2>2, <2>3
<1>13. active.len > 0 => SizeOf(active.bounds) + size >= active.len
  BY <1>1, <1>2, <1>3
<1>14. Len(maps') <= Len(maps) + 1
  BY <1>7
<1>15. QED
  BY <1>1, <1>2, <1>4, <1>5, <1>7, <1>8, <1>9, <1>10, <1>11, <1>12, <1>13,
     <1>14, NewActiveInv DEF size

(* The active map has room for the append: one more bound on it.           *)
LEMMA GrowInPlaceInv ==
  ASSUME IInv, NEW ext \in Exts, GrowInPlace(ext)
  PROVE  IInv'
<1> DEFINE b == active.bounds
           end == SizeOf(b)
           c == AppendEnd(b, end + ext)
<1>1. /\ ext \in Nat /\ ext > 0 /\ active.len \in Nat /\ active.len > 0
      /\ end \in Nat /\ end + ext < active.len /\ Idle /\ write = NoWrite
      /\ TheEnd \in Nat /\ TheEnd = InactiveLen + end /\ b.start = InactiveLen
      /\ InactiveLen \in Nat
  <2>1. Idle /\ active.len > 0 /\ Fits(ext)
    BY DEF GrowInPlace
  <2>2. write = NoWrite
    BY <2>1 DEF Idle, IInv, Phases
  <2>3. ext \in Nat /\ ext > 0 /\ active.len \in Nat
    BY GrowableAssumption DEF IInv, Types
  <2>4. QED
    BY <2>1, <2>2, <2>3, EndFacts DEF Fits
<1>2. b \in Chunk /\ Bounded(b)
      /\ active \in [len : Nat, map : Map, bounds : Chunk]
  BY <1>1 DEF IInv, ActiveIsLast, Types
<1>3. /\ active' = [active EXCEPT !.bounds = c] /\ write' = Locked(end, ext)
      /\ UNCHANGED <<mem, fileLen, objects, open, chunks, maps, actual, stored>>
  BY DEF GrowInPlace
<1>4. /\ c \in Chunk /\ c.start = b.start /\ SizeOf(c) = end + ext
      /\ GlobalEnd(c) = b.start + (end + ext) /\ Bounded(c)
  BY <1>1, <1>2, AppendEndFacts
<1>. HIDE DEF c
<1>5. /\ active'.len = active.len /\ active'.map = active.map
      /\ active'.bounds = c
      /\ active' \in [len : Nat, map : Map, bounds : Chunk]
  BY <1>2, <1>3, <1>4
<1>6. /\ write'.stage = "apply" /\ write'.from = end /\ write'.ext = ext
      /\ write' \in [stage : {"none", "apply", "flush"}, from : Nat, ext : Nat]
  BY <1>1, <1>3 DEF Locked
<1>7. InactiveLen' = InactiveLen /\ TheEnd' = TheEnd + ext
  <2>1. InactiveLen' = InactiveLen
    BY <1>3 DEF InactiveLen
  <2>2. TheEnd' = GlobalEnd(c)
    BY <1>1, <1>5 DEF TheEnd
  <2>3. QED
    BY <2>1, <2>2, <1>1, <1>4
<1>8. Types'
  BY <1>3, <1>5, <1>6 DEF IInv, Types
<1>9. Tiles(chunks, InactiveLen)' /\ Matching'
  BY <1>3, <1>7 DEF IInv, Matching
<1>10. OnTheFile'
  BY <1>3, <1>4, <1>5, <1>7 DEF IInv, OnTheFile
<1>11. Persistent
  <2>1. ~Persistent => active.len = end
    BY <1>1 DEF IInv, InMemory
  <2>2. QED
    BY <1>1, <2>1
<1>12. InMemory'
  BY <1>11 DEF InMemory
<1>13. ActiveIsLast'
  BY <1>1, <1>4, <1>5, <1>7 DEF ActiveIsLast
<1>14. Phases'
  <2>1. actual = TheEnd /\ Len(stored) = TheEnd /\ open
    BY <1>1 DEF IInv, Phases, NoWrite, Types, Idle
  <2>2. QED
    BY <1>1, <1>3, <1>4, <1>5, <1>6, <1>7, <2>1 DEF Phases
<1>15. Contents'
  <2>1. Written = end /\ Written' = end
    BY <1>1, <1>6 DEF Written, NoWrite
  <2>2. QED
    BY <1>3, <1>4, <1>5, <2>1 DEF IInv, Contents
<1>16. Few'
  <2>1. Persistent => Len(maps) <= MaxMaps
    BY <1>1, StoreAssumption DEF IInv, Few, NoWrite, Types
  <2>2. Len(maps) \in Nat /\ maps' = maps /\ MaxMaps \in Nat
    BY <1>3, StoreAssumption DEF IInv, Types
  <2>3. QED
    BY <1>6, <2>1, <2>2 DEF Few
<1>17. QED
  BY <1>8, <1>9, <1>10, <1>12, <1>13, <1>14, <1>15, <1>16 DEF IInv

(* create_mmap fails: the file may be longer, no byte of a map has moved.  *)
LEMMA CreateFailsInv ==
  ASSUME IInv, NEW ext \in Exts, CreateFails(ext)
  PROVE  IInv'
<1> DEFINE size == NewMmapSize(ext, Min)
<1>1. /\ size \in Nat /\ size > 0 /\ size >= ext /\ ext \in Nat
  BY GrowableAssumption DEF NewMmapSize
<1>2. /\ UNCHANGED <<objects, open, chunks, maps, active, write, actual, stored>>
      /\ Idle /\ (active.len = 0 \/ ~Fits(ext))
  BY DEF CreateFails
<1>3. \/ UNCHANGED <<mem, fileLen>>
      \/ Persistent /\ TheEnd + size <= Cap /\ Resize(TheEnd + size)
  BY DEF CreateFails
<1>4. InactiveLen' = InactiveLen /\ TheEnd' = TheEnd /\ Written' = Written
  BY <1>2 DEF InactiveLen, TheEnd, Written
<1>5. Tiles(chunks, InactiveLen)' /\ Matching' /\ ActiveIsLast' /\ Phases' /\ Few'
  BY <1>2, <1>4 DEF IInv, Matching, ActiveIsLast, Phases, Few
<1>6. CASE UNCHANGED <<mem, fileLen>>
  BY <1>2, <1>4, <1>5, <1>6
     DEF IInv, Types, OnTheFile, InMemory, Contents
<1>7. CASE Persistent /\ TheEnd + size <= Cap /\ Resize(TheEnd + size)
  <2>1. CreateMmap(size, TheEnd)
    BY <1>2, <1>7 DEF CreateMmap
  <2>2. active.len > 0 => SizeOf(active.bounds) + size >= active.len
    <3>1. active.len \in Nat /\ SizeOf(active.bounds) \in Nat
      BY EndFacts DEF IInv, Types
    <3>2. QED
      BY <1>1, <1>2, <3>1 DEF Fits
  <2>. HIDE DEF size
  <2>3. /\ mem' \in [0..Cap -> [Address -> Byte]]
        /\ fileLen' \in 0..Cap /\ fileLen' = TheEnd + size
        /\ \A n \in 1..Len(chunks) : \A k \in 0..SizeOf(chunks[n]) - 1 :
              mem'[maps[n].object][maps[n].at + k]
                = mem[maps[n].object][maps[n].at + k]
        /\ \A k \in 0..SizeOf(active.bounds) - 1 :
              mem'[active.map.object][active.map.at + k]
                = mem[active.map.object][active.map.at + k]
        /\ \A o \in objects' + 1..Cap : mem'[o] = [a \in Address |-> Zero]
    BY <1>1, <1>7, <2>1, <2>2, CreateMmapFacts
  <2>4. Types'
    BY <1>2, <2>3 DEF IInv, Types
  <2>5. OnTheFile'
    <3>1. /\ TheEnd \in Nat /\ InactiveLen \in Nat /\ InactiveLen <= TheEnd
          /\ active.len > 0 => /\ TheEnd = InactiveLen + SizeOf(active.bounds)
                               /\ active.bounds.start = InactiveLen
          /\ SizeOf(active.bounds) \in Nat /\ active.len \in Nat
      BY EndFacts DEF IInv, Types
    <3>2. /\ InactiveLen <= fileLen'
          /\ active.len > 0 => active.bounds.start + active.len <= fileLen'
      BY <1>1, <2>2, <2>3, <3>1
    <3>3. QED
      BY <1>2, <1>4, <1>7, <3>2 DEF IInv, OnTheFile
  <2>6. InMemory'
    BY <1>7 DEF InMemory
  <2>7. Contents'
    <3>1. Written = SizeOf(active.bounds)
      BY <1>2 DEF Idle, Written
    <3>2. \A n \in 1..Len(chunks') : \A k \in 0..SizeOf(chunks'[n]) - 1 :
            mem'[maps'[n].object][maps'[n].at + k]
              = stored'[chunks'[n].start + k + 1]
      BY <1>2, <2>3 DEF IInv, Contents
    <3>3. \A k \in 0..Written' - 1 :
            mem'[active'.map.object][active'.map.at + k]
              = stored'[active'.bounds.start + k + 1]
      BY <1>2, <1>4, <2>3, <3>1 DEF IInv, Contents
    <3>4. QED
      BY <2>3, <3>2, <3>3 DEF Contents
  <2>8. QED
    BY <1>5, <2>4, <2>5, <2>6, <2>7 DEF IInv
<1>8. QED
  BY <1>3, <1>6, <1>7

(* What follows in a sequence keeps what was there.                        *)
LEMMA ConcatFacts ==
  ASSUME NEW S, NEW s \in Seq(S), NEW t \in Seq(S)
  PROVE  /\ s \o t \in Seq(S) /\ Len(s \o t) = Len(s) + Len(t)
         /\ \A i \in 1..Len(s) : (s \o t)[i] = s[i]
         /\ \A i \in 1..Len(t) : (s \o t)[Len(s) + i] = t[i]
OBVIOUS

(* f writes behind the bytes that are there: in a part of the file, or in  *)
(* an object, where no other map looks.                                    *)
LEMMA ApplyInv ==
  ASSUME IInv, NEW tag \in Tags, Apply(tag)
  PROVE  IInv'
<1> DEFINE obj == active.map.object
           first == active.map.at + write.from
           ext == write.ext
           new == [i \in 1..ext |-> <<tag, Len(stored) + i - 1>>]
           row == [a \in Address |->
                     IF first <= a /\ a < first + ext
                     THEN new[a - first + 1] ELSE mem[obj][a]]
<1>1. /\ write.stage = "apply" /\ write' = [write EXCEPT !.stage = "flush"]
      /\ mem' = [mem EXCEPT ![obj] = row]
      /\ stored' = stored \o new
      /\ UNCHANGED <<fileLen, objects, open, chunks, maps, active, actual>>
  BY DEF Apply
<1>2. Types /\ Cap \in Nat
  BY GrowableAssumption DEF IInv
<1>3. /\ active.len > 0 /\ ext > 0 /\ write.from + ext = SizeOf(active.bounds)
      /\ actual + ext = TheEnd /\ Len(stored) = actual
      /\ ext \in Nat /\ write.from \in Nat /\ active.len \in Nat
      /\ actual \in Nat /\ objects \in 0..Cap
  BY <1>1 DEF IInv, Phases, Types
<1>0. write \in [stage : {"none", "apply", "flush"}, from : Nat, ext : Nat]
      /\ stored \in Seq(Byte)
  BY DEF IInv, Types
<1>4. /\ TheEnd = InactiveLen + SizeOf(active.bounds) /\ TheEnd \in Nat
      /\ active.bounds.start = InactiveLen /\ InactiveLen \in Nat
      /\ SizeOf(active.bounds) \in Nat /\ TheEnd <= Cap
      /\ actual = InactiveLen + write.from
  BY SMTT(40), <1>3, EndFacts
<1>5. SizeOf(active.bounds) <= active.len
  BY <1>3 DEF IInv, ActiveIsLast
<1>6. \A k \in 0..SizeOf(active.bounds) - 1 :
        /\ obj \in 0..Cap /\ active.map.at + k \in Address /\ active.map.at \in Nat
        /\ Persistent => obj = 0 /\ active.map.at = InactiveLen
  <2>1. ASSUME NEW k \in 0..SizeOf(active.bounds) - 1
        PROVE  /\ obj \in 0..Cap /\ active.map.at + k \in Address
               /\ active.map.at \in Nat
               /\ Persistent => obj = 0 /\ active.map.at = InactiveLen
    <3>1. k \in 0..active.len - 1
      BY <1>3, <1>4, <1>5
    <3>2. QED
      BY <1>3, <1>4, <3>1, LocatedActive
  <2>2. QED
    BY <2>1
<1>. HIDE DEF ext, new, row
<1>7. /\ obj \in 0..Cap /\ active.map.at \in Nat /\ first \in Nat
      /\ Persistent => obj = 0 /\ active.map.at = InactiveLen
      /\ ~Persistent => obj = objects
  <2>1. 0 \in 0..SizeOf(active.bounds) - 1
    BY SMTT(40), <1>3, <1>4
  <2>2. ~Persistent => obj = objects
    BY <1>3 DEF IInv, InMemory
  <2>3. QED
    BY SMTT(40), <1>3, <1>6, <2>1, <2>2
<1>8. /\ new \in Seq(Byte) /\ Len(new) = ext
      /\ \A i \in 1..ext : new[i] = <<tag, actual + i - 1>> /\ new[i] \in Byte
  <2>1. ASSUME NEW i \in 1..ext
        PROVE  <<tag, actual + i - 1>> \in Byte
    <3>11. ext \in Nat /\ actual \in Nat /\ Cap \in Nat
      BY <1>2, <1>3
    <3>12. actual + ext <= Cap
      BY <1>3, <1>4
    <3>1. actual + i - 1 \in Address
      BY <3>11, <3>12 DEF Address
    <3>2. QED
      BY <3>1 DEF Byte
  <2>2. \A i \in 1..ext : new[i] = <<tag, actual + i - 1>> /\ new[i] \in Byte
    BY <1>3, <2>1 DEF new
  <2>3. new \in [1..ext -> Byte]
    BY <1>3, <2>1 DEF new
  <2>4. QED
    BY <1>3, <2>2, <2>3
<1>9. /\ stored' \in Seq(Byte) /\ Len(stored') = TheEnd
      /\ \A i \in 1..actual : stored'[i] = stored[i]
      /\ \A i \in 1..ext : stored'[actual + i] = new[i]
  <2>1. Len(stored) = actual /\ Len(new) = ext /\ new \in Seq(Byte)
        /\ stored \in Seq(Byte) /\ stored' = stored \o new
    BY <1>0, <1>1, <1>3, <1>8
  <2>2. /\ stored' \in Seq(Byte) /\ Len(stored') = Len(stored) + Len(new)
        /\ \A i \in 1..Len(stored) : stored'[i] = stored[i]
        /\ \A i \in 1..Len(new) : stored'[Len(stored) + i] = new[i]
    <3>1. /\ stored \o new \in Seq(Byte)
          /\ Len(stored \o new) = Len(stored) + Len(new)
          /\ \A i \in 1..Len(stored) : (stored \o new)[i] = stored[i]
          /\ \A i \in 1..Len(new) : (stored \o new)[Len(stored) + i] = new[i]
      <4>1. stored \in Seq(Byte)
        BY <2>1
      <4>2. new \in Seq(Byte)
        BY <2>1
      <4>3. stored \o new \in Seq(Byte)
        BY <4>1, <4>2
      <4>4. Len(stored \o new) = Len(stored) + Len(new)
        BY <4>1, <4>2
      <4>5. QED
        BY <4>1, <4>2, ConcatFacts
    <3>2. QED
      BY <2>1, <3>1
  <2>3. QED
    BY <2>1, <2>2, <1>3
<1>. HIDE DEF obj, first
<1>10. row \in [Address -> Byte]
  <2>1. mem[obj] \in [Address -> Byte]
    BY <1>2, <1>7 DEF Types
  <2>2. ASSUME NEW a \in Address, first <= a, a < first + ext
        PROVE  new[a - first + 1] \in Byte
    <3>1. a - first + 1 \in 1..ext
      BY <1>2, <1>3, <1>7, <2>2 DEF Address
    <3>2. QED
      BY <3>1, <1>8
  <2>3. QED
    BY <2>1, <2>2 DEF row
<1>11. /\ mem' \in [0..Cap -> [Address -> Byte]]
       /\ \A p \in 0..Cap : p # obj => mem'[p] = mem[p]
       /\ \A a \in Address :
            mem'[obj][a] = IF first <= a /\ a < first + ext
                         THEN new[a - first + 1] ELSE mem[obj][a]
  <2>1. mem \in [0..Cap -> [Address -> Byte]]
    BY <1>2 DEF Types
  <2>2. mem'[obj] = row /\ \A p \in 0..Cap : p # obj => mem'[p] = mem[p]
    BY <1>1, <1>7, <2>1
  <2>3. mem' \in [0..Cap -> [Address -> Byte]]
    BY <1>1, <1>7, <1>10, <2>1
  <2>4. QED
    BY <2>2, <2>3 DEF row
<1>12. /\ write'.stage = "flush" /\ write'.from = write.from
       /\ write'.ext = ext
       /\ write' \in [stage : {"none", "apply", "flush"}, from : Nat, ext : Nat]
  BY <1>0, <1>1 DEF ext
<1>13. Types'
  BY <1>1, <1>2, <1>9, <1>11, <1>12 DEF Types
<1>14. InactiveLen' = InactiveLen /\ TheEnd' = TheEnd
  BY <1>1 DEF InactiveLen, TheEnd
<1>15. /\ Tiles(chunks, InactiveLen)' /\ Matching' /\ OnTheFile' /\ InMemory'
       /\ ActiveIsLast' /\ Few'
  BY <1>1, <1>12, <1>14
     DEF IInv, Matching, OnTheFile, InMemory, ActiveIsLast, Few
<1>16. Phases'
  <2>1. open
    BY <1>3 DEF IInv, Phases, NoActive
  <2>2. QED
    BY <1>1, <1>3, <1>9, <1>12, <1>14, <2>1 DEF Phases
<1>17. ASSUME NEW n \in 1..Len(chunks), NEW k \in 0..SizeOf(chunks[n]) - 1
       PROVE  mem'[maps[n].object][maps[n].at + k]
                = stored'[chunks[n].start + k + 1]
  <2>1. /\ maps[n].object \in 0..Cap /\ maps[n].at + k \in Address
        /\ chunks[n].start + k \in 0..InactiveLen - 1
        /\ chunks[n].start \in Nat /\ k \in Nat /\ maps[n].at \in Nat
        /\ n \in 1..Len(maps)
        /\ Persistent => /\ maps[n].object = 0
                         /\ maps[n].at + k = chunks[n].start + k
    BY Located
  <2>2. mem[maps[n].object][maps[n].at + k] = stored[chunks[n].start + k + 1]
    BY DEF IInv, Contents
  <2>3. stored'[chunks[n].start + k + 1] = stored[chunks[n].start + k + 1]
    <3>1. chunks[n].start + k + 1 \in 1..actual
      <4>1. InactiveLen <= actual /\ InactiveLen \in Nat /\ actual \in Nat
        BY SMTT(40), <1>3, <1>4
      <4>2. QED
        BY SMTT(40), <2>1, <4>1
    <3>2. QED
      BY <3>1, <1>9
  <2>4. mem'[maps[n].object][maps[n].at + k]
          = mem[maps[n].object][maps[n].at + k]
    <3>1. CASE Persistent
      <4>1. first = InactiveLen + write.from /\ obj = 0
        BY <1>7, <3>1 DEF first
      <4>2. ~(first <= maps[n].at + k)
        <5>1. InactiveLen \in Nat /\ write.from \in Nat
          BY <1>3, <1>4
        <5>2. QED
          BY SMTT(40), <2>1, <3>1, <4>1, <5>1
      <4>3. QED
        BY <1>11, <2>1, <3>1, <4>1, <4>2
    <3>2. CASE ~Persistent
      <4>1. maps[n].object \in 1..objects - 1
        BY <2>1, <3>2 DEF IInv, InMemory
      <4>2. maps[n].object # obj
        BY <1>3, <1>7, <3>2, <4>1
      <4>3. QED
        BY <1>11, <2>1, <4>2
    <3>3. QED
      BY <3>1, <3>2
  <2>5. QED
    BY <2>2, <2>3, <2>4
<1>18. ASSUME NEW k \in 0..SizeOf(active.bounds) - 1
       PROVE  mem'[obj][active.map.at + k] = stored'[active.bounds.start + k + 1]
  <2>1. active.map.at + k \in Address
    BY <1>6
  <2>2. CASE k < write.from
    <3>1. mem[obj][active.map.at + k] = stored[active.bounds.start + k + 1]
      <4>1. Written = write.from
        BY <1>1 DEF Written
      <4>2. k \in 0..Written - 1
        BY SMTT(40), <1>3, <1>4, <2>2, <4>1
      <4>3. QED
        BY <4>2 DEF IInv, Contents, obj
    <3>2. ~(first <= active.map.at + k)
      BY SMTT(40), <1>3, <1>7, <2>2 DEF first
    <3>3. active.bounds.start + k + 1 \in 1..actual
      BY SMTT(40), <1>3, <1>4, <2>2
    <3>4. QED
      BY <1>9, <1>11, <2>1, <3>1, <3>2, <3>3
  <2>3. CASE k >= write.from
    <3>1. first <= active.map.at + k /\ active.map.at + k < first + ext
          /\ (active.map.at + k) - first + 1 = k - write.from + 1
      <4>1. /\ write.from \in Nat /\ ext \in Nat /\ active.map.at \in Nat
            /\ k \in Nat /\ k < write.from + ext
        BY <1>3, <1>4, <1>7
      <4>2. QED
        BY <2>3, <4>1 DEF first
    <3>2. k - write.from + 1 \in 1..ext
          /\ active.bounds.start + k + 1 = actual + (k - write.from + 1)
      <4>1. /\ write.from \in Nat /\ ext \in Nat /\ InactiveLen \in Nat
            /\ k \in Nat /\ k < write.from + ext
        BY <1>3, <1>4
      <4>2. active.bounds.start = InactiveLen
            /\ actual = InactiveLen + write.from
        BY <1>4
      <4>3. QED
        BY <2>3, <4>1, <4>2
    <3>3. mem'[obj][active.map.at + k] = new[k - write.from + 1]
      <4>1. mem'[obj][active.map.at + k] = new[(active.map.at + k) - first + 1]
        BY <1>11, <2>1, <3>1
      <4>2. QED
        BY <3>1, <4>1
    <3>4. stored'[active.bounds.start + k + 1] = new[k - write.from + 1]
      BY <1>9, <3>2
    <3>5. QED
      BY <3>3, <3>4
  <2>4. QED
    BY <1>3, <2>2, <2>3
<1>19. \A p \in objects + 1..Cap : mem'[p] = [a \in Address |-> Zero]
  <2>1. ASSUME NEW p \in objects + 1..Cap
        PROVE  mem'[p] = mem[p]
    <3>1. p # obj /\ p \in 0..Cap
      BY <1>2, <1>3, <1>7 DEF IInv, OnTheFile
    <3>2. QED
      BY <3>1, <1>11
  <2>2. QED
    BY <2>1 DEF IInv, Contents
<1>20. Contents'
  <2>1. Written' = SizeOf(active.bounds)
    BY <1>1, <1>12 DEF Written
  <2>2. chunks' = chunks /\ maps' = maps /\ active' = active
        /\ objects' = objects
    BY <1>1
  <2>3. \A k \in 0..Written' - 1 :
          mem'[active'.map.object][active'.map.at + k]
            = stored'[active'.bounds.start + k + 1]
    BY <1>18, <2>1, <2>2 DEF obj
  <2>4. \A n \in 1..Len(chunks') : \A k \in 0..SizeOf(chunks'[n]) - 1 :
          mem'[maps'[n].object][maps'[n].at + k]
            = stored'[chunks'[n].start + k + 1]
    BY <1>17, <2>2
  <2>5. QED
    BY <1>19, <2>2, <2>3, <2>4 DEF Contents
<1>21. QED
  BY <1>13, <1>15, <1>16, <1>20 DEF IInv

(* One chunk and one map of the file that begin at 0 are an index and a    *)
(* list of maps for the n bytes they hold.                                 *)
LEMMA SingleMap ==
  ASSUME NEW n \in Nat, n > 0,
         chunks' = WithChunk(<< >>, AppendEnd(NewChunk(0), n)),
         maps' = <<[object |-> 0, at |-> 0, len |-> n]>>
  PROVE  /\ chunks' \in Seq(Chunk) /\ maps' \in Seq(Map)
         /\ Len(chunks') = 1 /\ Len(maps') = 1
         /\ chunks'[1].start = 0 /\ SizeOf(chunks'[1]) = n
         /\ maps'[1] = [object |-> 0, at |-> 0, len |-> n]
         /\ InactiveLen' = n
         /\ Tiles(chunks', n) /\ Matching'
         /\ EndsOf(chunks'[1]) = {n}
<1> DEFINE c == AppendEnd(NewChunk(0), n)
<1>1. /\ NewChunk(0) \in Chunk /\ NewChunk(0).ends = << >>
      /\ NewChunk(0).start = 0 /\ SizeOf(NewChunk(0)) = 0
      /\ EndsOf(NewChunk(0)) = {}
  BY DEF NewChunk, Chunk, SizeOf, EndsOf
<1>2. /\ c \in Chunk /\ c.start = 0 /\ SizeOf(c) = n
      /\ GlobalEnd(c) = 0 + n /\ Bounded(c)
      /\ EndsOf(c) = EndsOf(NewChunk(0)) \cup {0 + n}
  BY <1>1, AppendEndFacts
<1>. HIDE DEF c
<1>3. << >> \in Seq(Chunk) /\ Tiles(<< >>, 0) /\ 0 \in Nat
  BY DEF Tiles
<1>4. /\ chunks' = Append(<< >>, c) /\ chunks' \in Seq(Chunk)
      /\ Tiles(chunks', GlobalEnd(c))
  BY <1>2, <1>3, AppendTiles DEF c
<1>5. Len(chunks') = 1 /\ chunks'[1] = c /\ chunks' # << >>
  BY <1>4
<1>6. /\ Len(maps') = 1 /\ maps'[1] = [object |-> 0, at |-> 0, len |-> n]
      /\ maps' \in Seq(Map)
  <2>1. [object |-> 0, at |-> 0, len |-> n] \in Map
    BY DEF Map
  <2>2. QED
    BY <2>1
<1>7. InactiveLen' = n
  BY <1>2, <1>5 DEF InactiveLen
<1>8. Matching'
  BY <1>2, <1>5, <1>6 DEF Matching
<1>9. EndsOf(c) = {n}
  BY <1>1, <1>2
<1>10. QED
  BY <1>2, <1>4, <1>5, <1>6, <1>7, <1>8, <1>9

(* The append is over; the inactive maps may become a single one, which    *)
(* holds in one piece what they held.                                      *)
LEMMA FinishInv ==
  ASSUME IInv, Finish
  PROVE  IInv'
<1>1. /\ write.stage = "flush" /\ actual' = actual + write.ext /\ write' = NoWrite
      /\ UNCHANGED <<mem, fileLen, objects, open, active, stored>>
      /\ IF Persistent /\ Len(maps) > MaxMaps
         THEN Merge ELSE UNCHANGED <<chunks, maps>>
  BY DEF Finish
<1>2. /\ actual \in Nat /\ write.ext \in Nat /\ TheEnd \in Nat
      /\ InactiveLen \in Nat /\ Len(maps) \in Nat /\ MaxMaps \in Nat
      /\ MaxMaps > 0 /\ Len(maps) = Len(chunks)
  BY EndFacts, StoreAssumption DEF IInv, Types, Matching
<1>3. /\ write'.stage = "none" /\ write'.from = 0 /\ write'.ext = 0
      /\ write' \in [stage : {"none", "apply", "flush"}, from : Nat, ext : Nat]
  BY <1>1 DEF NoWrite
<1>4. /\ active.len > 0 /\ actual + write.ext = TheEnd /\ Len(stored) = TheEnd
      /\ open
  <2>1. active.len > 0 /\ actual + write.ext = TheEnd /\ Len(stored) = TheEnd
    BY <1>1 DEF IInv, Phases
  <2>2. open
    BY <2>1 DEF IInv, Phases, NoActive
  <2>3. QED
    BY <2>1, <2>2
<1>5. Written' = Written
  BY <1>1, <1>3 DEF Written
<1>6. CASE ~(Persistent /\ Len(maps) > MaxMaps)
  <2>1. UNCHANGED <<chunks, maps>>
    BY <1>1, <1>6
  <2>2. InactiveLen' = InactiveLen /\ TheEnd' = TheEnd
    BY <1>1, <2>1 DEF InactiveLen, TheEnd
  <2>3. Types'
    BY <1>1, <1>2, <1>3, <2>1 DEF IInv, Types
  <2>4. /\ Tiles(chunks, InactiveLen)' /\ Matching' /\ OnTheFile' /\ InMemory'
        /\ ActiveIsLast' /\ Contents'
    BY <1>1, <1>5, <2>1, <2>2
       DEF IInv, Matching, OnTheFile, InMemory, ActiveIsLast, Contents
  <2>5. Phases'
    BY <1>1, <1>2, <1>3, <1>4, <2>2 DEF Phases
  <2>6. Few'
    BY <1>2, <1>3, <1>6, <2>1 DEF Few
  <2>7. QED
    BY <2>3, <2>4, <2>5, <2>6 DEF IInv
<1>7. CASE Persistent /\ Len(maps) > MaxMaps
  <2>1. Merge
    BY <1>1, <1>7
  <2>2. InactiveLen > 0
    <3>1. 1 \in 1..Len(chunks) /\ chunks[1] \in Chunk
      BY <1>2, <1>7 DEF IInv, Types
    <3>2. Bounded(chunks[1]) /\ GlobalEnd(chunks[1]) <= InactiveLen
      BY <3>1 DEF IInv, Tiles
    <3>3. GlobalEnd(chunks[1]) \in Nat /\ GlobalEnd(chunks[1]) > 0
      BY <3>1, <3>2, ChunkSizes
    <3>4. QED
      BY <1>2, <3>2, <3>3
  <2>3. /\ chunks' \in Seq(Chunk) /\ maps' \in Seq(Map)
        /\ Len(chunks') = 1 /\ Len(maps') = 1
        /\ chunks'[1].start = 0 /\ SizeOf(chunks'[1]) = InactiveLen
        /\ maps'[1] = [object |-> 0, at |-> 0, len |-> InactiveLen]
        /\ InactiveLen' = InactiveLen
        /\ Tiles(chunks', InactiveLen) /\ Matching'
    BY <1>2, <2>1, <2>2, SingleMap DEF Merge
  <2>4. TheEnd' = TheEnd
    BY <1>1, <2>3 DEF TheEnd
  <2>5. Types'
    BY <1>1, <1>2, <1>3, <2>3 DEF IInv, Types
  <2>6. OnTheFile'
    BY <1>1, <1>7, <2>3 DEF IInv, OnTheFile
  <2>7. InMemory'
    BY <1>7 DEF InMemory
  <2>8. ActiveIsLast'
    BY <1>1, <2>3 DEF IInv, ActiveIsLast
  <2>9. Phases'
    BY <1>1, <1>2, <1>3, <1>4, <2>4 DEF Phases
  <2>10. Few'
    BY <1>2, <1>3, <2>3 DEF Few
  <2>11. ASSUME NEW n \in 1..Len(chunks'), NEW k \in 0..SizeOf(chunks'[n]) - 1
         PROVE  mem'[maps'[n].object][maps'[n].at + k]
                  = stored'[chunks'[n].start + k + 1]
    <3>1. /\ n = 1 /\ k \in 0..InactiveLen - 1 /\ k \in Nat
          /\ mem' = mem /\ stored' = stored
      BY <1>1, <1>2, <2>3
    <3>2. PICK i \in 1..Len(chunks) : Covers(chunks[i], k)
      BY <3>1 DEF IInv, Tiles
    <3>3. chunks[i] \in Chunk
      BY DEF IInv, Types
    <3>4. /\ chunks[i].start \in Nat /\ SizeOf(chunks[i]) \in Nat
          /\ GlobalEnd(chunks[i]) = chunks[i].start + SizeOf(chunks[i])
      BY <3>3, ChunkSizes
    <3>5. k - chunks[i].start \in 0..SizeOf(chunks[i]) - 1
      BY <3>1, <3>2, <3>4 DEF Covers
    <3>6. /\ maps[i].object = 0
          /\ maps[i].at + (k - chunks[i].start)
               = chunks[i].start + (k - chunks[i].start)
      BY <1>7, <3>5, Located
    <3>7. mem[maps[i].object][maps[i].at + (k - chunks[i].start)]
            = stored[chunks[i].start + (k - chunks[i].start) + 1]
      BY <3>5 DEF IInv, Contents
    <3>8. chunks[i].start + (k - chunks[i].start) = k
      BY <3>1, <3>4
    <3>9. mem[0][k] = stored[k + 1]
      BY <3>6, <3>7, <3>8
    <3>10. maps'[n].object = 0 /\ maps'[n].at + k = k
           /\ chunks'[n].start + k = k
      BY <2>3, <3>1
    <3>11. QED
      BY <3>1, <3>9, <3>10
  <2>12. Contents'
    <3>1. \A k \in 0..Written' - 1 :
            mem'[active'.map.object][active'.map.at + k]
              = stored'[active'.bounds.start + k + 1]
      BY <1>1, <1>5 DEF IInv, Contents
    <3>2. \A o \in objects' + 1..Cap : mem'[o] = [a \in Address |-> Zero]
      BY <1>1 DEF IInv, Contents
    <3>3. QED
      BY <2>11, <3>1, <3>2 DEF Contents
  <2>13. QED
    BY <2>3, <2>5, <2>6, <2>7, <2>8, <2>9, <2>10, <2>12 DEF IInv
<1>8. QED
  BY <1>6, <1>7

(* GrowableMmap::new: one map of what is taken from the file.              *)
LEMMA NewInv ==
  ASSUME IInv, NEW n \in 0..fileLen, New(n)
  PROVE  IInv'
<1>1. /\ ~open /\ open' = TRUE /\ active' = NoActive /\ write' = NoWrite
      /\ actual' = n /\ stored' = [i \in 1..n |-> mem[0][i - 1]]
      /\ UNCHANGED <<mem, fileLen, objects>>
      /\ IF n > 0
         THEN /\ chunks' = WithChunk(<< >>, AppendEnd(NewChunk(0), n))
              /\ maps' = <<[object |-> 0, at |-> 0, len |-> n]>>
         ELSE chunks' = << >> /\ maps' = << >>
  BY DEF New
<1>2. /\ fileLen \in 0..Cap /\ Cap \in Nat /\ objects \in 0..Cap
      /\ n \in Nat /\ n <= Cap /\ MaxMaps \in Nat /\ MaxMaps > 0
      /\ mem \in [0..Cap -> [Address -> Byte]]
  BY GrowableAssumption, StoreAssumption DEF IInv, Types
<1>3. objects = 0 /\ (~Persistent => n = 0)
  <2>1. Persistent => objects = 0
    BY DEF IInv, OnTheFile
  <2>2. ~Persistent => fileLen = 0 /\ objects = 0
    <3>1. active.len = 0
      BY <1>1 DEF IInv, Phases, NoActive
    <3>2. QED
      BY <3>1 DEF IInv, InMemory
  <2>3. QED
    BY <1>2, <2>1, <2>2
<1>4. stored' \in Seq(Byte) /\ Len(stored') = n
      /\ \A i \in 1..n : stored'[i] = mem[0][i - 1]
  <2>1. ASSUME NEW i \in 1..n
        PROVE  mem[0][i - 1] \in Byte
    <3>1. i - 1 \in Address /\ 0 \in 0..Cap
      BY <1>2 DEF Address
    <3>2. QED
      BY <1>2, <3>1
  <2>2. stored' \in [1..n -> Byte]
    BY <1>1, <2>1
  <2>3. QED
    BY <1>1, <1>2, <2>2
<1>5. /\ active'.len = 0 /\ active'.bounds.ends = << >>
      /\ SizeOf(active'.bounds) = 0
      /\ active' \in [len : Nat, map : Map, bounds : Chunk]
      /\ write'.stage = "none" /\ write'.ext = 0
      /\ write' \in [stage : {"none", "apply", "flush"}, from : Nat, ext : Nat]
  BY <1>1 DEF NoActive, NoWrite, NoMap, NoChunk, Map, Chunk, SizeOf
<1>6. /\ chunks' \in Seq(Chunk) /\ maps' \in Seq(Map)
      /\ Len(maps') <= 1
      /\ InactiveLen' = n /\ Tiles(chunks', n) /\ Matching'
      /\ \A i \in 1..Len(chunks') :
           /\ maps'[i].object = 0 /\ maps'[i].at = 0
           /\ chunks'[i].start = 0 /\ SizeOf(chunks'[i]) = n
      /\ n = 0 => chunks' = << >> /\ maps' = << >>
      /\ Len(maps') = Len(chunks')
  <2>1. CASE n > 0
    <3>1. /\ chunks' \in Seq(Chunk) /\ maps' \in Seq(Map)
          /\ Len(chunks') = 1 /\ Len(maps') = 1
          /\ chunks'[1].start = 0 /\ SizeOf(chunks'[1]) = n
          /\ maps'[1] = [object |-> 0, at |-> 0, len |-> n]
          /\ InactiveLen' = n
          /\ Tiles(chunks', n) /\ Matching'
      BY <1>1, <1>2, <2>1, SingleMap
    <3>2. QED
      BY <2>1, <3>1
  <2>2. CASE n = 0
    <3>1. chunks' = << >> /\ maps' = << >>
      BY <1>1, <2>2
    <3>2. QED
      BY <2>2, <3>1 DEF InactiveLen, Tiles, Matching
  <2>3. QED
    BY <1>2, <2>1, <2>2
<1>7. TheEnd' = n
  BY <1>5, <1>6 DEF TheEnd
<1>8. Types'
  BY <1>1, <1>2, <1>4, <1>5, <1>6 DEF Types
<1>9. OnTheFile'
  BY <1>1, <1>2, <1>3, <1>5, <1>6 DEF OnTheFile
<1>10. InMemory'
  <2>1. ~Persistent => chunks' = << >> /\ Len(maps') = 0 /\ fileLen = 0
    BY <1>2, <1>3, <1>6 DEF IInv, InMemory
  <2>2. QED
    BY <1>1, <1>2, <1>3, <1>5, <1>7, <2>1 DEF InMemory
<1>11. ActiveIsLast' /\ Phases' /\ Few'
  <2>1. ActiveIsLast'
    BY <1>1, <1>5 DEF ActiveIsLast
  <2>2. Phases'
    BY <1>1, <1>2, <1>4, <1>5, <1>7 DEF Phases
  <2>3. Few'
    BY <1>2, <1>5, <1>6 DEF Few, Types
  <2>4. QED
    BY <2>1, <2>2, <2>3
<1>12. Contents'
  <2>1. ASSUME NEW i \in 1..Len(chunks'), NEW k \in 0..SizeOf(chunks'[i]) - 1
        PROVE  mem'[maps'[i].object][maps'[i].at + k]
                 = stored'[chunks'[i].start + k + 1]
    <3>1. k \in 0..n - 1 /\ k \in Nat
      BY <1>2, <1>6
    <3>2. maps'[i].object = 0 /\ maps'[i].at + k = k /\ chunks'[i].start + k = k
      BY <1>6, <3>1
    <3>3. k + 1 \in 1..n /\ (k + 1) - 1 = k
      BY <1>2, <3>1
    <3>4. stored'[k + 1] = mem[0][k]
      BY <1>4, <3>3
    <3>5. QED
      BY <1>1, <3>2, <3>4
  <2>2. Written' = 0
    BY <1>5 DEF Written
  <2>3. \A o \in objects' + 1..Cap : mem'[o] = [a \in Address |-> Zero]
    BY <1>1 DEF IInv, Contents
  <2>4. QED
    BY <2>1, <2>2, <2>3 DEF Contents
<1>13. QED
  BY <1>6, <1>8, <1>9, <1>10, <1>11, <1>12 DEF IInv

(* The handle is gone: only the file is left, with whatever is in it.      *)
LEMMA ForgetInv ==
  ASSUME IInv, Persistent, Forget, mem' \in [0..Cap -> [Address -> Byte]],
         fileLen' \in 0..Cap, \A o \in 1..Cap : mem'[o] = mem[o]
  PROVE  IInv'
<1>1. /\ open' = FALSE /\ chunks' = << >> /\ maps' = << >>
      /\ active' = NoActive /\ write' = NoWrite /\ actual' = 0
      /\ stored' = << >> /\ objects' = objects
  BY DEF Forget
<1>2. Cap \in Nat /\ MaxMaps \in Nat /\ objects = 0
  BY GrowableAssumption, StoreAssumption DEF IInv, OnTheFile
<1>3. /\ active'.len = 0 /\ SizeOf(active'.bounds) = 0
      /\ active' \in [len : Nat, map : Map, bounds : Chunk]
      /\ write'.stage = "none" /\ write'.ext = 0
      /\ write' \in [stage : {"none", "apply", "flush"}, from : Nat, ext : Nat]
  BY <1>1 DEF NoActive, NoWrite, NoMap, NoChunk, Map, Chunk, SizeOf
<1>4. chunks' \in Seq(Chunk) /\ maps' \in Seq(Map) /\ stored' \in Seq(Byte)
      /\ Len(chunks') = 0 /\ Len(maps') = 0 /\ Len(stored') = 0
  BY <1>1
<1>5. InactiveLen' = 0 /\ TheEnd' = 0 /\ Written' = 0
  BY <1>1, <1>3 DEF InactiveLen, TheEnd, Written
<1>6. Types'
  BY SMTT(40), <1>1, <1>2, <1>3, <1>4 DEF Types
<1>7. Tiles(chunks, InactiveLen)' /\ Matching'
  BY <1>4, <1>5 DEF Tiles, Matching
<1>8. OnTheFile' /\ InMemory'
  BY <1>1, <1>2, <1>3, <1>4, <1>5 DEF OnTheFile, InMemory
<1>9. ActiveIsLast' /\ Phases' /\ Few'
  BY <1>1, <1>2, <1>3, <1>4, <1>5 DEF ActiveIsLast, Phases, Few
<1>10. Contents'
  BY <1>1, <1>2, <1>4, <1>5 DEF IInv, Contents
<1>11. QED
  BY <1>6, <1>7, <1>8, <1>9, <1>10 DEF IInv

(* shrink_to_size truncates the file where its data ends.                  *)
LEMMA ShrinkInv ==
  ASSUME IInv, Shrink
  PROVE  IInv'
<1>1. Persistent /\ Resize(TheEnd) /\ Forget
  BY DEF Shrink
<1>2. TheEnd \in 0..Cap /\ Types
  BY EndFacts, GrowableAssumption DEF IInv
<1>3. QED
  BY <1>1, <1>2, ResizeFacts, ForgetInv

(* A crash leaves the file as it is.                                       *)
LEMMA CrashInv ==
  ASSUME IInv, Crash
  PROVE  IInv'
<1>1. Persistent /\ Forget /\ UNCHANGED <<mem, fileLen>>
  BY DEF Crash
<1>2. mem' \in [0..Cap -> [Address -> Byte]] /\ fileLen' \in 0..Cap
      /\ \A o \in 1..Cap : mem'[o] = mem[o]
  BY <1>1 DEF IInv, Types
<1>3. QED
  BY <1>1, <1>2, ForgetInv

(* A step that changes nothing.                                            *)
LEMMA StutterInv ==
  ASSUME IInv, UNCHANGED vars
  PROVE  IInv'
<1>1. UNCHANGED <<mem, fileLen, objects, open, chunks, maps, active, write,
                  actual, stored>>
  BY DEF vars
<1>2. InactiveLen' = InactiveLen /\ TheEnd' = TheEnd /\ Written' = Written
  BY <1>1 DEF InactiveLen, TheEnd, Written
<1>3. QED
  BY <1>1, <1>2 DEF IInv, Types, Matching, OnTheFile, InMemory, ActiveIsLast,
                    Phases, Contents, Few

(* IInv is inductive.                                                      *)
LEMMA NextInv == IInv /\ [Next]_vars => IInv'
<1> SUFFICES ASSUME IInv, [Next]_vars
             PROVE  IInv'
  OBVIOUS
<1>1. ASSUME NEW n \in 0..fileLen, New(n)
      PROVE  IInv'
  BY <1>1, NewInv
<1>2. ASSUME NEW ext \in Exts, GrowFirst(ext)
      PROVE  IInv'
  BY <1>2, GrowFirstInv
<1>3. ASSUME NEW ext \in Exts, GrowInPlace(ext)
      PROVE  IInv'
  BY <1>3, GrowInPlaceInv
<1>4. ASSUME NEW ext \in Exts, GrowNext(ext)
      PROVE  IInv'
  BY <1>4, GrowNextInv
<1>5. ASSUME NEW ext \in Exts, CreateFails(ext)
      PROVE  IInv'
  BY <1>5, CreateFailsInv
<1>6. ASSUME NEW tag \in Tags, Apply(tag)
      PROVE  IInv'
  BY <1>6, ApplyInv
<1>7. CASE Finish
  BY <1>7, FinishInv
<1>8. CASE Shrink
  BY <1>8, ShrinkInv
<1>9. CASE Crash
  BY <1>9, CrashInv
<1>10. CASE UNCHANGED vars
  BY <1>10, StutterInv
<1>11. QED
  BY <1>1, <1>2, <1>3, <1>4, <1>5, <1>6, <1>7, <1>8, <1>9, <1>10 DEF Next

(* The index, the maps, the file and the bytes appended agree as IInv says *)
(* in every reachable state: each map lies where its chunk says, two maps  *)
(* never share a byte, and each holds the bytes appended to its addresses. *)
THEOREM MapsInvariance == Spec => []IInv
<1>1. Init => IInv
  BY InitInv
<1>2. QED
  BY <1>1, NextInv, PTL DEF Spec

-----------------------------------------------------------------------------
(* The properties *)

(* Every variable keeps its type, and the index accepts the chunk of the   *)
(* active map whenever that is replaced.                                   *)
LEMMA InvTypeOK == IInv => TypeOK
<1> SUFFICES ASSUME IInv
             PROVE  TypeOK
  OBVIOUS
<1>1. Types
  BY DEF IInv
<1>2. \A o \in DOMAIN mem : \A a \in Address : mem[o][a] \in Byte
  BY <1>1 DEF Types
<1>3. /\ \A i \in 1..Len(chunks) : chunks[i] \in Chunk
      /\ \A i \in 1..Len(maps) : maps[i] \in Map
  BY <1>1 DEF Types
<1>4. active.len \in Nat /\ active.map \in Map /\ active.bounds \in Chunk
  BY <1>1 DEF Types
<1>5. active.len > 0 => Follows(active.bounds)
  BY <1>4 DEF IInv, ActiveIsLast, Follows
<1>6. QED
  BY <1>1, <1>2, <1>3, <1>4, <1>5 DEF Types, TypeOK

(* What a read slice is, in terms of what was appended.                    *)
LEMMA SliceFacts ==
  ASSUME IInv, Idle, NEW a \in 0..TheEnd - 1
  PROVE  \E l \in Nat :
           /\ l > 0 /\ a + l <= TheEnd
           /\ ReadSlice(a) = [i \in 1..l |-> stored[a + i]]
<1>1. /\ InactiveLen \in Nat /\ TheEnd \in Nat /\ a \in Nat
      /\ InactiveLen <= TheEnd
      /\ SizeOf(active.bounds) \in Nat
  BY EndFacts
<1>2. CASE a < InactiveLen
  <2> DEFINE n == FindMap(a)
             d == ChunkFind(chunks[n], a)
  <2>1. n \in 1..Len(chunks) /\ Covers(chunks[n], a)
    <3>1. \E j \in 1..Len(chunks) : Covers(chunks[j], a)
      BY <1>1, <1>2 DEF IInv, Tiles
    <3>2. QED
      BY <3>1 DEF FindMap
  <2>2. ReadSlice(a) = Window(maps[n], d.offset, d.len)
    BY <1>2 DEF ReadSlice
  <2>. HIDE DEF n
  <2>3. /\ chunks[n] \in Chunk /\ Bounded(chunks[n])
        /\ GlobalEnd(chunks[n]) <= InactiveLen
    BY <2>1 DEF IInv, Types, Tiles
  <2>4. /\ chunks[n].start \in Nat /\ SizeOf(chunks[n]) \in Nat
        /\ GlobalEnd(chunks[n]) = chunks[n].start + SizeOf(chunks[n])
    BY <2>3, ChunkSizes
  <2>5. /\ d.offset = a - chunks[n].start
        /\ a - chunks[n].start \in 0..SizeOf(chunks[n]) - 1
        /\ d.len \in Nat /\ d.len > 0
        /\ a + d.len <= GlobalEnd(chunks[n])
    BY <1>1, <2>1, <2>3, ChunkFindFacts
  <2>. HIDE DEF d
  <2>6. a + d.len <= TheEnd
    BY <1>1, <2>3, <2>4, <2>5
  <2>7. ASSUME NEW i \in 1..d.len
        PROVE  mem[maps[n].object][maps[n].at + d.offset + i - 1] = stored[a + i]
    <3> DEFINE k == a - chunks[n].start + i - 1
    <3>1. k \in 0..SizeOf(chunks[n]) - 1
      BY <1>1, <2>4, <2>5
    <3>2. mem[maps[n].object][maps[n].at + k] = stored[chunks[n].start + k + 1]
      BY <2>1, <3>1 DEF IInv, Contents
    <3>3. chunks[n].start + k + 1 = a + i
      BY <1>1, <2>4
    <3>4. maps[n].at \in Nat
      BY <2>1, <3>1, Located
    <3>5. maps[n].at + d.offset + i - 1 = maps[n].at + k
      BY <1>1, <2>4, <2>5, <3>4
    <3>. HIDE DEF k
    <3>6. QED
      BY <3>2, <3>3, <3>5
  <2>8. Window(maps[n], d.offset, d.len) = [i \in 1..d.len |-> stored[a + i]]
    BY <2>7, Zenon DEF Window
  <2>9. QED
    BY <2>2, <2>5, <2>6, <2>8
<1>3. CASE a >= InactiveLen
  <2> DEFINE b == active.bounds
             d == ChunkFind(b, a)
  <2>1. active.len > 0
    <3>1. active.len \in Nat
      BY DEF IInv, Types
    <3>2. active.len = 0 => TheEnd = InactiveLen
      BY EndFacts
    <3>3. QED
      BY <1>1, <1>3, <3>1, <3>2
  <2>2. /\ TheEnd = GlobalEnd(b) /\ b.start = InactiveLen
        /\ TheEnd = InactiveLen + SizeOf(b)
    BY <2>1, EndFacts
  <2>3. b \in Chunk /\ Bounded(b)
    BY <2>1 DEF IInv, Types, ActiveIsLast
  <2>4. Covers(b, a)
    BY <1>1, <1>3, <2>2 DEF Covers
  <2>5. ReadSlice(a) = Window(active.map, d.offset, d.len)
    BY <1>1, <1>3, <2>1, <2>4 DEF ReadSlice
  <2>6. /\ d.offset = a - b.start /\ a - b.start \in 0..SizeOf(b) - 1
        /\ d.len \in Nat /\ d.len > 0 /\ a + d.len <= GlobalEnd(b)
    BY <1>1, <2>3, <2>4, ChunkFindFacts
  <2>. HIDE DEF d
  <2>7. Written = SizeOf(b)
    BY DEF Idle, Written
  <2>8. ASSUME NEW i \in 1..d.len
        PROVE  mem[active.map.object][active.map.at + d.offset + i - 1]
                 = stored[a + i]
    <3> DEFINE k == a - InactiveLen + i - 1
    <3>1. k \in 0..SizeOf(b) - 1
      BY <1>1, <2>2, <2>6
    <3>2. mem[active.map.object][active.map.at + k]
            = stored[InactiveLen + k + 1]
      BY <2>2, <2>7, <3>1 DEF IInv, Contents
    <3>3. InactiveLen + k + 1 = a + i
      BY <1>1
    <3>4. active.map.at \in Nat
      BY DEF IInv, Types, Map
    <3>5. active.map.at + d.offset + i - 1 = active.map.at + k
      BY <1>1, <2>2, <2>6, <3>4
    <3>. HIDE DEF k
    <3>6. QED
      BY <3>2, <3>3, <3>5
  <2>9. Window(active.map, d.offset, d.len) = [i \in 1..d.len |-> stored[a + i]]
    BY <2>8, Zenon DEF Window
  <2>10. QED
    BY <2>2, <2>5, <2>6, <2>9
<1>4. QED
  BY <1>1, <1>2, <1>3

(* get_ref_and_apply gives every published address the bytes appended      *)
(* there, wherever the maps put them.                                      *)
LEMMA InvReads == IInv => ReadsWhatWasStored
<1> SUFFICES ASSUME IInv
             PROVE  ReadsWhatWasStored
  OBVIOUS
<1>1. ASSUME Idle, NEW a \in 0..actual - 1
      PROVE  LET s == ReadSlice(a) IN
             /\ Len(s) > 0
             /\ a + Len(s) <= Len(stored)
             /\ s = SubSeq(stored, a + 1, a + Len(s))
  <2>1. write.stage = "none" /\ write = NoWrite
    BY <1>1 DEF Idle, IInv, Phases
  <2>2. actual = TheEnd /\ Len(stored) = TheEnd /\ TheEnd \in Nat
        /\ stored \in Seq(Byte) /\ actual \in Nat
    BY <2>1, EndFacts DEF IInv, Phases, NoWrite, Types
  <2>3. PICK l \in Nat :
          /\ l > 0 /\ a + l <= TheEnd
          /\ ReadSlice(a) = [i \in 1..l |-> stored[a + i]]
    BY <1>1, <2>2, SliceFacts
  <2>4. Len(ReadSlice(a)) = l
    BY <2>3
  <2>5. SubSeq(stored, a + 1, a + l) = [i \in 1..l |-> stored[a + i]]
    BY <2>2, <2>3
  <2>6. QED
    BY <2>2, <2>3, <2>4, <2>5
<1>2. QED
  BY <1>1, InvTypeOK DEF ReadsWhatWasStored

(* A read at a published address is given the bytes that were appended     *)
(* there, at least one of them and never one that was not appended.        *)
THEOREM ReadsAreExact == Spec => []ReadsWhatWasStored
BY MapsInvariance, InvReads, PTL

(* The map whose number the index gives is there, as long as the index     *)
(* says: the descriptor of an address never leads past the end of a map.   *)
THEOREM IndexIsRight == Spec => []IndexDescribesMaps
<1>1. IInv => IndexDescribesMaps
  BY DEF IInv, Matching, IndexDescribesMaps, Types
<1>2. QED
  BY <1>1, MapsInvariance, PTL

(* A file has at most MAX_MMAPS_COUNT inactive maps between two appends.   *)
(* In memory nothing is merged, and the theorem says nothing.              *)
THEOREM FewMaps == ASSUME Persistent PROVE Spec => []MapsAreFew
<1>1. IInv => MapsAreFew
  BY StoreAssumption DEF IInv, Few, MapsAreFew, Types
<1>2. QED
  BY <1>1, MapsInvariance, PTL

-----------------------------------------------------------------------------
(* The refinement: the lists of maps and bounds with their searches, seen  *)
(* through View, take no step that the store Fraos is built from cannot    *)
(* take.                                                                   *)

(* The operators of the store *)

AStore == Store(Address, Byte)

(* the fields two stores share after a step that is not about them *)
SameFile(r, s) == r.len = s.len /\ r.cell = s.cell
SameMaps(r, s) == r.maps = s.maps /\ r.mapStart = s.mapStart /\ r.mapLen = s.mapLen
SameData(r, s) == r.end = s.end /\ r.bounds = s.bounds /\ r.size = s.size

(* the file of s is that of r after set_len(n) *)
IsCut(r, s, n) ==
  /\ s.len = n
  /\ s.cell = [a \in Address |-> IF a < n /\ a < r.len THEN r.cell[a] ELSE Zero]

(* A store is its parts.                                                   *)
LEMMA SameStore ==
  ASSUME NEW r \in AStore, NEW s \in AStore,
         SameFile(r, s), SameMaps(r, s), SameData(r, s)
  PROVE  r = s
BY DEF AStore, Store, SameFile, SameMaps, SameData

(* A store on the first n cells of the file.                               *)
LEMMA AttachParts ==
  ASSUME NEW m \in AStore, NEW n \in Nat, NEW s, s = AsStore!Attach(m, n)
  PROVE  /\ s \in AStore /\ SameFile(m, s) /\ s.end = n /\ s.size = n
         /\ s.bounds = (IF n > 0 THEN {n} ELSE {})
         /\ s.maps = (IF n > 0 THEN 1 ELSE 0)
         /\ s.mapStart = 0 /\ s.mapLen = 0
BY DEF AStore, Store, AsStore!Attach, SameFile

(* What is left of a store without a handle.                               *)
LEMMA DetachParts ==
  ASSUME NEW m \in AStore, NEW s, s = AsStore!Detach(m)
  PROVE  /\ s \in AStore /\ SameFile(m, s) /\ s.end = 0 /\ s.size = 0
         /\ s.bounds = {} /\ s.maps = 0 /\ s.mapStart = 0 /\ s.mapLen = 0
BY DEF AStore, Store, AsStore!Detach, SameFile

(* SetLen changes the file and nothing else.                               *)
LEMMA SetLenParts ==
  ASSUME NEW m \in AStore, NEW n \in Nat, NEW s, s = AsStore!SetLen(m, n, Zero)
  PROVE  s \in AStore /\ IsCut(m, s, n) /\ SameMaps(m, s) /\ SameData(m, s)
<1> DEFINE c == [a \in Address |-> IF a < n /\ a < m.len THEN m.cell[a] ELSE Zero]
<1>1. DOMAIN m.cell = Address /\ Zero \in Byte
  BY DEF AStore, Store, Byte
<1>2. c \in [Address -> Byte]
  BY <1>1 DEF AStore, Store
<1>3. s = [m EXCEPT !.len = n, !.cell = c]
  BY <1>1 DEF AsStore!SetLen
<1>4. s.cell = c
  BY <1>3 DEF AStore, Store
<1>. HIDE DEF c
<1>5. s \in AStore /\ s.len = n /\ SameMaps(m, s) /\ SameData(m, s)
  BY <1>2, <1>3 DEF AStore, Store, SameMaps, SameData
<1>6. QED
  BY <1>4, <1>5 DEF IsCut, c

(* create_mmap: the file reaches to the end of the new map.                *)
LEMMA ExtendParts ==
  ASSUME NEW m \in AStore, NEW ext \in Nat, NEW s,
         s = AsStore!Extend(m, ext, Min, Zero),
         NEW size \in Nat, size = NewMmapSize(ext, Min)
  PROVE  /\ s \in AStore /\ IsCut(m, s, m.end + size)
         /\ SameMaps(m, s) /\ SameData(m, s)
<1>1. m.end + size \in Nat
  BY DEF AStore, Store
<1>2. s = AsStore!SetLen(m, m.end + size, Zero)
  BY DEF AsStore!Extend, AsStore!NewMmapSize, NewMmapSize
<1>3. QED
  BY <1>1, <1>2, SetLenParts

(* An append to a map that has room.                                       *)
LEMMA GrowInRoomParts ==
  ASSUME NEW m \in AStore, NEW ext \in Nat, m.end + ext < m.mapStart + m.mapLen,
         NEW s, s = AsStore!Grow(m, ext, Min, Zero)
  PROVE  /\ s \in AStore /\ SameFile(m, s) /\ SameMaps(m, s)
         /\ s.end = m.end + ext /\ s.bounds = m.bounds \cup {m.end + ext}
         /\ s.size = m.size
<1> DEFINE bs == m.bounds \cup {m.end + ext}
<1>1. s = [m EXCEPT !.end = m.end + ext, !.bounds = bs]
  BY DEF AsStore!Grow, AsStore!HasRoom, AsStore!AppendBound
<1>2. bs \in SUBSET Nat /\ m.end + ext \in Nat
  BY DEF AStore, Store
<1>. HIDE DEF bs
<1>3. /\ s \in AStore /\ SameFile(m, s) /\ SameMaps(m, s)
      /\ s.end = m.end + ext /\ s.bounds = bs /\ s.size = m.size
  BY <1>1, <1>2 DEF AStore, Store, SameFile, SameMaps
<1>4. QED
  BY <1>3 DEF bs

(* An append that needs a new map: the first one, or a full one before it. *)
LEMMA GrowParts ==
  ASSUME NEW m \in AStore, NEW ext \in Nat,
         ~(m.end + ext < m.mapStart + m.mapLen),
         NEW s, s = AsStore!Grow(m, ext, Min, Zero),
         NEW size \in Nat, size = NewMmapSize(ext, Min)
  PROVE  /\ s \in AStore /\ IsCut(m, s, m.end + size)
         /\ s.end = m.end + ext /\ s.bounds = m.bounds \cup {m.end + ext}
         /\ s.size = m.size
         /\ s.maps = (IF m.mapLen = 0 THEN m.maps ELSE m.maps + 1)
         /\ s.mapStart = m.end /\ s.mapLen = size
<1> DEFINE x == AsStore!Extend(m, ext, Min, Zero)
           n == IF m.mapLen = 0 THEN m.maps ELSE m.maps + 1
           bs == m.bounds \cup {m.end + ext}
<1>1. x \in AStore /\ IsCut(m, x, m.end + size) /\ SameData(m, x)
  BY ExtendParts
<1>2. s = [x EXCEPT !.end = m.end + ext, !.bounds = bs, !.maps = n,
                    !.mapStart = m.end, !.mapLen = size]
  BY DEF AsStore!Grow, AsStore!HasRoom, AsStore!AppendBound,
         AsStore!NewMmapSize, NewMmapSize
<1>3. n \in Nat /\ bs \in SUBSET Nat /\ m.end + ext \in Nat /\ m.end \in Nat
  BY DEF AStore, Store
<1>. HIDE DEF x, n, bs
<1>4. /\ s \in AStore /\ s.len = x.len /\ s.cell = x.cell /\ s.size = x.size
      /\ s.end = m.end + ext /\ s.bounds = bs /\ s.maps = n
      /\ s.mapStart = m.end /\ s.mapLen = size
  BY ZenonT(40), <1>1, <1>2, <1>3 DEF AStore, Store
<1>5. QED
  BY <1>1, <1>4 DEF IsCut, SameData, n, bs

(* The end of an append, with and without the merge of the inactive maps.  *)
LEMMA RearrangeParts ==
  ASSUME NEW m \in AStore, NEW s,
         s = [AsStore!RearrangeMmaps(m) EXCEPT !.size = m.end]
  PROVE  /\ s \in AStore /\ SameFile(m, s) /\ s.end = m.end /\ s.size = m.end
         /\ s.mapStart = m.mapStart /\ s.mapLen = m.mapLen
         /\ Persistent /\ m.maps > MaxMaps =>
              s.maps = 1 /\ s.bounds = {b \in m.bounds : b >= m.mapStart}
         /\ ~(Persistent /\ m.maps > MaxMaps) =>
              s.maps = m.maps /\ s.bounds = m.bounds
BY DEF AsStore!RearrangeMmaps, AStore, Store, SameFile

-----------------------------------------------------------------------------
(* What View shows of a state *)

FileSize == IF Persistent THEN fileLen ELSE active.bounds.start + active.len

Cells == [a \in Address |-> CellAt(a)]

InactiveBounds == UNION {EndsOf(chunks[i]) : i \in 1..Len(chunks)}

Bounds == InactiveBounds \cup EndsOf(active.bounds)

(* The parts of View, in a state and in the next one.                      *)
LEMMA ViewParts ==
  /\ View.len = FileSize /\ View.cell = Cells /\ View.end = TheEnd
  /\ View.bounds = Bounds /\ View.maps = Len(maps)
  /\ View.mapStart = active.bounds.start /\ View.mapLen = active.len
  /\ View.size = actual
<1>1. View = [len |-> FileSize, cell |-> Cells, end |-> TheEnd, bounds |-> Bounds,
              maps |-> Len(maps), mapStart |-> active.bounds.start,
              mapLen |-> active.len, size |-> actual]
  BY Zenon DEF View, FileSize, Cells, Bounds, InactiveBounds
<1>2. QED
  BY <1>1

(* In memory a cell below the inactive end holds what was appended there,  *)
(* one of the active map what is in it, and there is nothing behind.       *)
InMemoryCells ==
  ~Persistent =>
    \A a \in Address :
      /\ a < InactiveLen => CellAt(a) = stored[a + 1]
      /\ a >= InactiveLen /\ a < active.bounds.start + active.len =>
           /\ active.len > 0
           /\ a - InactiveLen \in Address
           /\ CellAt(a) = mem[active.map.object][a - InactiveLen]
      /\ a >= active.bounds.start + active.len => CellAt(a) = Zero

(* So the invariant says.                                                  *)
LEMMA CellsInMemory == IInv => InMemoryCells
<1> SUFFICES ASSUME IInv, ~Persistent, NEW a \in Address
             PROVE  /\ a < InactiveLen => CellAt(a) = stored[a + 1]
                    /\ a >= InactiveLen
                       /\ a < active.bounds.start + active.len =>
                         /\ active.len > 0
                         /\ a - InactiveLen \in Address
                         /\ CellAt(a) = mem[active.map.object][a - InactiveLen]
                    /\ a >= active.bounds.start + active.len =>
                         CellAt(a) = Zero
  BY DEF InMemoryCells
<1>1. /\ InactiveLen \in Nat /\ active.bounds.start \in Nat /\ a \in Nat
      /\ active.len \in Nat
      /\ active.len > 0 => active.bounds.start = InactiveLen
      /\ a \in 0..Cap - 1 /\ Cap \in Nat
  BY EndFacts, GrowableAssumption DEF IInv, Types, Address
<1>2. active.len = 0 => InactiveLen = 0 /\ active.bounds.start = 0
  BY DEF IInv, InMemory, InactiveLen, ActiveIsLast, NoActive, NoChunk
<1>3. ASSUME a < InactiveLen
      PROVE  CellAt(a) = stored[a + 1]
  <2> DEFINE n == FindMap(a)
  <2>1. n \in 1..Len(chunks) /\ Covers(chunks[n], a)
    <3>1. \E j \in 1..Len(chunks) : Covers(chunks[j], a)
      BY <1>1, <1>3 DEF IInv, Tiles
    <3>2. QED
      BY <3>1 DEF FindMap
  <2>2. CellAt(a) = mem[maps[n].object][maps[n].at + a - chunks[n].start]
    BY <1>3 DEF CellAt
  <2>. HIDE DEF n
  <2>3. /\ chunks[n] \in Chunk /\ chunks[n].start \in Nat
        /\ SizeOf(chunks[n]) \in Nat
        /\ GlobalEnd(chunks[n]) = chunks[n].start + SizeOf(chunks[n])
    BY SMTT(40), <2>1, ChunkSizes DEF IInv, Types
  <2> DEFINE k == a - chunks[n].start
  <2>4. k \in 0..SizeOf(chunks[n]) - 1
    BY <1>1, <2>1, <2>3 DEF Covers
  <2>5. mem[maps[n].object][maps[n].at + k] = stored[chunks[n].start + k + 1]
    BY <2>1, <2>4 DEF IInv, Contents
  <2>6. chunks[n].start + k + 1 = a + 1
    BY <1>1, <2>3
  <2>7. QED
    BY <2>2, <2>5, <2>6
<1>4. ASSUME a >= InactiveLen, a < active.bounds.start + active.len
      PROVE  /\ active.len > 0
             /\ a - InactiveLen \in Address
             /\ CellAt(a) = mem[active.map.object][a - InactiveLen]
  <2>1. active.len > 0
    BY <1>1, <1>2, <1>4
  <2>2. CellAt(a) = mem[active.map.object]
                       [active.map.at + a - active.bounds.start]
    BY <1>1, <1>4 DEF CellAt
  <2>3. active.map.at = 0
    BY <2>1 DEF IInv, InMemory
  <2>4. active.map.at + a - active.bounds.start = a - InactiveLen
    BY <1>1, <2>1, <2>3
  <2>5. a - InactiveLen \in Address
    BY <1>1, <1>4 DEF Address
  <2>6. QED
    BY <2>1, <2>2, <2>4, <2>5
<1>5. ASSUME a >= active.bounds.start + active.len
      PROVE  CellAt(a) = Zero
  <2>1. ~(a < InactiveLen)
    BY <1>1, <1>2, <1>5
  <2>2. ~(a < active.bounds.start + active.len)
    BY <1>1, <1>5
  <2>3. QED
    BY <2>1, <2>2 DEF CellAt
<1>6. QED
  BY <1>3, <1>4, <1>5

(* Between two appends, in memory, a cell before the end holds what was    *)
(* appended there and the others nothing.                                  *)
LEMMA CellsAtRest ==
  ASSUME IInv, ~Persistent, write.stage # "apply", NEW a \in Address
  PROVE  /\ a < TheEnd => CellAt(a) = stored[a + 1]
         /\ a >= TheEnd => CellAt(a) = Zero
<1>1. /\ InactiveLen \in Nat /\ TheEnd \in Nat /\ a \in Nat
      /\ active.len \in Nat /\ SizeOf(active.bounds) \in Nat
      /\ active.len = 0 => TheEnd = InactiveLen
      /\ active.len > 0 => /\ active.bounds.start = InactiveLen
                           /\ TheEnd = InactiveLen + SizeOf(active.bounds)
  BY EndFacts, GrowableAssumption DEF IInv, Types, Address
<1>2. active.len = 0 => InactiveLen = 0 /\ active.bounds.start = 0
  BY DEF IInv, InMemory, InactiveLen, ActiveIsLast, NoActive, NoChunk
<1>3. active.len > 0 => active.len = SizeOf(active.bounds) /\ active.map.at = 0
  BY DEF IInv, InMemory
<1>4. active.bounds.start + active.len = TheEnd
  BY <1>1, <1>2, <1>3
<1>5. /\ a < InactiveLen => CellAt(a) = stored[a + 1]
      /\ a >= InactiveLen /\ a < TheEnd =>
           /\ active.len > 0
           /\ CellAt(a) = mem[active.map.object][a - InactiveLen]
      /\ a >= TheEnd => CellAt(a) = Zero
  BY <1>4, CellsInMemory DEF InMemoryCells
<1>6. ASSUME a >= InactiveLen, a < TheEnd
      PROVE  CellAt(a) = stored[a + 1]
  <2> DEFINE k == a - InactiveLen
  <2>1. active.len > 0 /\ CellAt(a) = mem[active.map.object][k]
    BY <1>5, <1>6
  <2>2. k \in 0..Written - 1
    BY <1>1, <1>6, <2>1 DEF Written
  <2>3. mem[active.map.object][active.map.at + k]
          = stored[active.bounds.start + k + 1]
    BY <2>2 DEF IInv, Contents
  <2>4. active.map.at + k = k /\ active.bounds.start + k + 1 = a + 1
    BY <1>1, <1>3, <2>1
  <2>5. QED
    BY <2>1, <2>3, <2>4
<1>7. QED
  BY <1>1, <1>5, <1>6

(* Every bound of a chunk lies behind its start and not behind its end,    *)
(* where there is one.                                                     *)
LEMMA EndsFacts ==
  ASSUME NEW c \in Chunk, c.ends = << >> \/ Bounded(c)
  PROVE  /\ EndsOf(c) \in SUBSET Nat
         /\ \A b \in EndsOf(c) : c.start < b /\ b <= GlobalEnd(c)
         /\ c.ends # << >> => GlobalEnd(c) \in EndsOf(c)
         /\ c.ends = << >> => EndsOf(c) = {}
<1>1. /\ c.start \in Nat /\ c.ends \in Seq(Nat) /\ SizeOf(c) \in Nat
      /\ GlobalEnd(c) = c.start + SizeOf(c)
  BY ChunkSizes
<1>2. CASE c.ends = << >>
  BY <1>2 DEF EndsOf
<1>3. CASE Bounded(c)
  <2>1. c.ends # << >> /\ \A i \in 1..Len(c.ends) : c.ends[i] \in 1..SizeOf(c)
    BY <1>3 DEF Bounded
  <2>2. \A b \in EndsOf(c) : b \in Nat /\ c.start < b /\ b <= GlobalEnd(c)
    BY <1>1, <2>1 DEF EndsOf
  <2>3. Len(c.ends) \in 1..Len(c.ends)
    BY <1>1, <2>1
  <2>4. GlobalEnd(c) = c.start + c.ends[Len(c.ends)]
    BY <2>1 DEF GlobalEnd, SizeOf
  <2>5. GlobalEnd(c) \in EndsOf(c)
    BY <2>3, <2>4 DEF EndsOf
  <2>6. QED
    BY <2>1, <2>2, <2>5
<1>4. QED
  BY <1>2, <1>3

(* The bounds of the inactive maps do not pass their end, which is one of  *)
(* them when there is any; those of the active map lie behind it.          *)
LEMMA BoundsFacts ==
  ASSUME IInv
  PROVE  /\ \A i \in 1..Len(chunks) : \A b \in EndsOf(chunks[i]) :
              b \in Nat /\ b <= InactiveLen
         /\ chunks # << >> =>
              \E i \in 1..Len(chunks) : InactiveLen \in EndsOf(chunks[i])
         /\ \A b \in EndsOf(active.bounds) : b \in Nat
         /\ active.len > 0 => \A b \in EndsOf(active.bounds) : b > InactiveLen
         /\ active.len = 0 => EndsOf(active.bounds) = {}
         /\ Bounds \in SUBSET Nat
<1>1. InactiveLen \in Nat
  BY EndFacts
<1>2. \A i \in 1..Len(chunks) :
        /\ chunks[i] \in Chunk /\ Bounded(chunks[i])
        /\ GlobalEnd(chunks[i]) <= InactiveLen
        /\ GlobalEnd(chunks[i]) \in Nat
  BY SMTT(40), ChunkSizes DEF IInv, Types, Tiles
<1>3. \A i \in 1..Len(chunks) : \A b \in EndsOf(chunks[i]) :
        b \in Nat /\ b <= InactiveLen
  BY <1>1, <1>2, EndsFacts
<1>4. ASSUME chunks # << >>
      PROVE  \E i \in 1..Len(chunks) : InactiveLen \in EndsOf(chunks[i])
  <2>1. Len(chunks) \in 1..Len(chunks)
    BY <1>4 DEF IInv, Types
  <2>2. InactiveLen = GlobalEnd(chunks[Len(chunks)])
    BY <1>4 DEF InactiveLen
  <2>3. chunks[Len(chunks)].ends # << >>
    BY <1>2, <2>1 DEF Bounded
  <2>4. QED
    BY <1>2, <2>1, <2>2, <2>3, EndsFacts
<1>5. active.bounds \in Chunk /\ active.len \in Nat
  BY DEF IInv, Types
<1>6. active.len = 0 => active.bounds.ends = << >>
  BY DEF IInv, ActiveIsLast, NoActive, NoChunk
<1>7. active.len > 0 => Bounded(active.bounds) /\ active.bounds.start = InactiveLen
  BY DEF IInv, ActiveIsLast
<1>8. /\ EndsOf(active.bounds) \in SUBSET Nat
      /\ \A b \in EndsOf(active.bounds) : active.bounds.start < b
      /\ active.len = 0 => EndsOf(active.bounds) = {}
  <2>1. active.bounds.ends = << >> \/ Bounded(active.bounds)
    BY <1>5, <1>6, <1>7
  <2>2. QED
    BY <1>5, <1>6, <2>1, EndsFacts
<1>9. Bounds \in SUBSET Nat
  <2>1. ASSUME NEW b \in Bounds
        PROVE  b \in Nat
    <3>1. CASE b \in EndsOf(active.bounds)
      BY <3>1, <1>8
    <3>2. CASE b \in InactiveBounds
      <4>1. PICK i \in 1..Len(chunks) : b \in EndsOf(chunks[i])
        BY <3>2 DEF InactiveBounds
      <4>2. QED
        BY <4>1, <1>3
    <3>3. QED
      BY <3>1, <3>2 DEF Bounds
  <2>2. QED
    BY <2>1
<1>10. QED
  BY <1>3, <1>4, <1>7, <1>8, <1>9

(* View is a store.                                                        *)
LEMMA ViewIsStore == IInv => View \in AStore
<1> SUFFICES ASSUME IInv
             PROVE  View \in AStore
  OBVIOUS
<1>1. /\ TheEnd \in Nat /\ active.bounds.start \in Nat /\ InactiveLen \in Nat
  BY EndFacts
<1>2. /\ fileLen \in Nat /\ active.len \in Nat /\ actual \in Nat
      /\ Len(maps) \in Nat
      /\ mem \in [0..Cap -> [Address -> Byte]] /\ stored \in Seq(Byte)
      /\ objects \in 0..Cap /\ Cap \in Nat /\ Zero \in Byte
  BY GrowableAssumption DEF IInv, Types, Byte
<1>3. FileSize \in Nat
  BY <1>1, <1>2 DEF FileSize
<1>4. Bounds \in SUBSET Nat
  BY BoundsFacts
<1>5. ASSUME NEW a \in Address
      PROVE  CellAt(a) \in Byte
  <2>1. CASE Persistent
    BY <1>2, <2>1 DEF CellAt
  <2>2. CASE ~Persistent
    <3>1. /\ a < InactiveLen => CellAt(a) = stored[a + 1]
          /\ a >= InactiveLen /\ a < active.bounds.start + active.len =>
               /\ active.len > 0 /\ a - InactiveLen \in Address
               /\ CellAt(a) = mem[active.map.object][a - InactiveLen]
          /\ a >= active.bounds.start + active.len => CellAt(a) = Zero
      BY <2>2, CellsInMemory DEF InMemoryCells
    <3>2. a \in Nat
      BY <1>2 DEF Address
    <3>3. CASE a < InactiveLen
      <4>1. InactiveLen <= Len(stored)
        <5>1. IF write.stage = "apply" THEN Len(stored) = actual
              ELSE Len(stored) = TheEnd
          BY DEF IInv, Phases
        <5>2. InactiveLen <= TheEnd
          BY EndFacts
        <5>3. write.stage = "apply" => InactiveLen <= actual
          <6>1. SUFFICES ASSUME write.stage = "apply"
                         PROVE  InactiveLen <= actual
            OBVIOUS
          <6>2. /\ active.len > 0 /\ write.from + write.ext = SizeOf(active.bounds)
                /\ actual + write.ext = TheEnd
                /\ write.from \in Nat /\ write.ext \in Nat
            BY <6>1 DEF IInv, Phases, Types
          <6>3. TheEnd = InactiveLen + (write.from + write.ext)
            BY <6>2, EndFacts
          <6>4. QED
            BY <1>1, <1>2, <6>2, <6>3
        <5>4. QED
          BY <5>1, <5>2, <5>3
      <4>2. a + 1 \in 1..Len(stored)
        BY <1>1, <1>2, <3>2, <3>3, <4>1
      <4>3. stored[a + 1] \in Byte
        BY <1>2, <4>2
      <4>4. QED
        BY <3>1, <3>3, <4>3
    <3>4. CASE a >= InactiveLen /\ a < active.bounds.start + active.len
      <4>1. active.map.object = objects
        BY <2>2, <3>1, <3>4 DEF IInv, InMemory
      <4>2. QED
        BY <1>2, <3>1, <3>4, <4>1
    <3>5. CASE a >= active.bounds.start + active.len
      BY <1>2, <3>1, <3>5
    <3>6. QED
      BY <1>1, <1>2, <3>2, <3>3, <3>4, <3>5
  <2>3. QED
    BY <2>1, <2>2
<1>6. Cells \in [Address -> Byte]
  BY <1>5 DEF Cells
<1>7. View = [len |-> FileSize, cell |-> Cells, end |-> TheEnd, bounds |-> Bounds,
              maps |-> Len(maps), mapStart |-> active.bounds.start,
              mapLen |-> active.len, size |-> actual]
  BY Zenon DEF View, FileSize, Cells, Bounds, InactiveBounds
<1>8. QED
  BY <1>1, <1>2, <1>3, <1>4, <1>6, <1>7 DEF AStore, Store

(* A state whose parts are those of a store looks like this store.         *)
LEMMA NextView ==
  ASSUME IInv', NEW s \in AStore,
         s.len = FileSize', s.cell = Cells', s.end = TheEnd',
         s.bounds = Bounds', s.maps = Len(maps'),
         s.mapStart = active'.bounds.start, s.mapLen = active'.len,
         s.size = actual'
  PROVE  View' = s
<1>1. View' \in AStore
  <2>1. (IInv => View \in AStore)'
    BY ViewIsStore, PTL
  <2>2. QED
    BY <2>1
<1>2. (/\ View.len = FileSize /\ View.cell = Cells /\ View.end = TheEnd
       /\ View.bounds = Bounds /\ View.maps = Len(maps)
       /\ View.mapStart = active.bounds.start /\ View.mapLen = active.len
       /\ View.size = actual)'
  BY ViewParts, PTL
<1>3. SameFile(View', s) /\ SameMaps(View', s) /\ SameData(View', s)
  BY <1>2 DEF SameFile, SameMaps, SameData
<1>4. QED
  BY <1>1, <1>3, SameStore

(* With a file the cells are those of the file.                            *)
LEMMA FileView == IInv /\ Persistent => Cells = mem[0] /\ FileSize = fileLen
<1> SUFFICES ASSUME IInv, Persistent
             PROVE  Cells = mem[0] /\ FileSize = fileLen
  OBVIOUS
<1>1. mem[0] \in [Address -> Byte]
  BY GrowableAssumption DEF IInv, Types
<1>2. \A a \in Address : CellAt(a) = mem[0][a]
  BY DEF CellAt
<1>3. Cells = [a \in Address |-> mem[0][a]]
  BY <1>2 DEF Cells
<1>4. QED
  BY <1>1, <1>3 DEF FileSize

(* Without a handle there is nothing but the file.                         *)
LEMMA NothingOpen ==
  ASSUME IInv, ~open
  PROVE  /\ chunks = << >> /\ maps = << >> /\ active = NoActive
         /\ InactiveLen = 0 /\ TheEnd = 0 /\ actual = 0
         /\ View.len = fileLen
         /\ ~Persistent => \A a \in Address : CellAt(a) = Zero
<1>1. /\ chunks = << >> /\ maps = << >> /\ active = NoActive /\ write = NoWrite
      /\ actual + write.ext = TheEnd /\ actual \in Nat
  BY DEF IInv, Phases, Types
<1>2. active.len = 0 /\ active.bounds.start = 0
  BY <1>1 DEF NoActive, NoChunk
<1>3. InactiveLen = 0 /\ TheEnd = 0 /\ actual = 0
  BY <1>1, <1>2 DEF InactiveLen, TheEnd, NoWrite
<1>4. View.len = fileLen
  BY <1>2, ViewParts DEF FileSize, IInv, InMemory
<1>5. ~Persistent => \A a \in Address : CellAt(a) = Zero
  BY <1>2, <1>3, GrowableAssumption DEF CellAt, Address
<1>6. QED
  BY <1>1, <1>3, <1>4, <1>5

-----------------------------------------------------------------------------
(* The steps *)

(* Nothing is mapped at first, and the file is empty.                      *)
LEMMA InitView ==
  ASSUME Init
  PROVE  AsStore!StoreInit
<1>1. IInv
  BY InitInv
<1>2. /\ chunks = << >> /\ maps = << >> /\ active = NoActive /\ ~open
      /\ fileLen = 0
  BY DEF Init
<1>3. /\ TheEnd = 0 /\ actual = 0 /\ View.len = 0
      /\ ~Persistent => \A a \in Address : CellAt(a) = Zero
  BY <1>1, <1>2, NothingOpen
<1>4. \A a \in Address : CellAt(a) = Zero
  <2>1. Persistent => \A a \in Address : CellAt(a) = Zero
    BY GrowableAssumption DEF Init, CellAt
  <2>2. QED
    BY <2>1, <1>3
<1>5. View.cell = [a \in Address |-> Zero]
  BY <1>4, ViewParts DEF Cells
<1>6. View.bounds = {}
  BY <1>2, ViewParts DEF Bounds, InactiveBounds, EndsOf, NoActive, NoChunk
<1>7. View.mapStart = 0 /\ View.mapLen = 0 /\ View.maps = 0 /\ View.end = 0
      /\ View.size = 0
  BY <1>2, <1>3, ViewParts DEF NoActive, NoChunk
<1>8. View \in AStore
  BY <1>1, ViewIsStore
<1>9. View = AsStore!EmptyStore(Address, Zero)
  BY <1>3, <1>5, <1>6, <1>7, <1>8 DEF AStore, Store, AsStore!EmptyStore
<1>10. QED
  BY <1>9 DEF AsStore!StoreInit

(* new attaches a store to a part of the file.                             *)
LEMMA NewView ==
  ASSUME IInv, IInv', NEW n \in 0..fileLen, New(n)
  PROVE  AsStore!StoreNext
<1> DEFINE s == AsStore!Attach(View, n)
<1>1. /\ chunks = << >> /\ maps = << >> /\ active = NoActive /\ ~open
      /\ InactiveLen = 0
      /\ View.len = fileLen
      /\ ~Persistent => \A a \in Address : CellAt(a) = Zero
  BY NothingOpen DEF New
<1>2. fileLen \in Nat /\ n \in Nat /\ View \in AStore
  BY SMTT(40), ViewIsStore, GrowableAssumption DEF IInv, Types
<1>3. /\ s \in AStore /\ SameFile(View, s) /\ s.end = n /\ s.size = n
      /\ s.bounds = (IF n > 0 THEN {n} ELSE {})
      /\ s.maps = (IF n > 0 THEN 1 ELSE 0)
      /\ s.mapStart = 0 /\ s.mapLen = 0
  BY <1>2, AttachParts
<1>. HIDE DEF s
<1>4. /\ active' = NoActive /\ actual' = n /\ mem' = mem /\ fileLen' = fileLen
      /\ n = 0 => chunks' = << >> /\ maps' = << >>
      /\ n > 0 => Len(maps') = 1
  BY <1>2 DEF New
<1>5. active'.len = 0 /\ active'.bounds.start = 0 /\ active'.bounds.ends = << >>
  BY <1>4 DEF NoActive, NoChunk
<1> DEFINE c == AppendEnd(NewChunk(0), n)
<1>6. ASSUME n > 0
      PROVE  /\ chunks' = <<c>> /\ GlobalEnd(c) = n /\ EndsOf(c) = {n}
  <2>1. NewChunk(0) \in Chunk /\ NewChunk(0).ends = << >>
        /\ NewChunk(0).start = 0 /\ SizeOf(NewChunk(0)) = 0
        /\ EndsOf(NewChunk(0)) = {}
    BY DEF NewChunk, Chunk, SizeOf, EndsOf
  <2>2. /\ SizeOf(c) = n /\ GlobalEnd(c) = n
        /\ EndsOf(c) = EndsOf(NewChunk(0)) \cup {0 + n}
    BY <1>2, <1>6, <2>1, AppendEndFacts
  <2>. HIDE DEF c
  <2>3. chunks' = <<c>>
    <3>1. chunks' = WithChunk(<< >>, c)
      BY <1>6 DEF New, c
    <3>2. QED
      BY <3>1, <2>2, <1>6 DEF WithChunk
  <2>4. 0 + n = n
    BY <1>2
  <2>5. QED
    BY <2>1, <2>2, <2>3, <2>4
<1>. HIDE DEF c
<1>7. InactiveLen' = n /\ TheEnd' = n
  <2>1. InactiveLen' = n
    BY <1>2, <1>4, <1>6 DEF InactiveLen
  <2>2. QED
    BY <2>1, <1>5 DEF TheEnd
<1>8. Bounds' = s.bounds
  <2>1. EndsOf(active.bounds)' = {}
    BY <1>5 DEF EndsOf
  <2>2. InactiveBounds' = (IF n > 0 THEN {n} ELSE {})
    <3>1. CASE n = 0
      BY <3>1, <1>4 DEF InactiveBounds
    <3>2. CASE n > 0
      <4>1. Len(chunks') = 1 /\ chunks'[1] = c
        BY <3>2, <1>6
      <4>2. QED
        BY <4>1, <3>2, <1>6 DEF InactiveBounds
    <3>3. QED
      BY <3>1, <3>2, <1>2
  <2>3. QED
    BY <2>1, <2>2, <1>3 DEF Bounds
<1>9. FileSize' = s.len
  <2>1. FileSize' = fileLen
    BY <1>4, <1>5 DEF FileSize, IInv, InMemory
  <2>2. QED
    BY <2>1, <1>1, <1>3 DEF SameFile
<1>10. Cells' = s.cell
  <2>1. \A a \in Address : CellAt(a)' = CellAt(a)
    <3>1. CASE Persistent
      BY <3>1, <1>4 DEF CellAt
    <3>2. CASE ~Persistent
      <4>1. fileLen = 0
        BY <3>2 DEF IInv, InMemory
      <4>2. n = 0
        BY <4>1, <1>2
      <4>3. \A a \in Address : ~(a < 0) /\ 0 + 0 = 0
        BY GrowableAssumption DEF Address
      <4>4. \A a \in Address : CellAt(a)' = Zero
        BY <3>2, <4>2, <4>3, <1>5, <1>7 DEF CellAt
      <4>5. QED
        BY <4>4, <3>2, <1>1
    <3>3. QED
      BY <3>1, <3>2
  <2>2. Cells' = Cells
    BY <2>1 DEF Cells
  <2>3. QED
    BY <2>2, <1>3, ViewParts DEF SameFile
<1>11. s.maps = Len(maps')
  BY <1>2, <1>3, <1>4
<1>12. View' = s
  BY <1>3, <1>4, <1>5, <1>7, <1>8, <1>9, <1>10, <1>11, NextView
<1>13. QED
  BY <1>1, <1>12 DEF AsStore!StoreNext, s

(* A new active map behind data that did not move is a Grow without room.  *)
LEMMA NewActiveView ==
  ASSUME IInv, IInv', NEW ext \in Exts, Idle,
         NEW size \in Nat, size = NewMmapSize(ext, Min),
         CreateMmap(size, TheEnd),
         active.len > 0 => ~Fits(ext),
         active' = ActiveOn(size, TheEnd, ext),
         UNCHANGED <<actual, stored>>,
         InactiveLen' = TheEnd, InactiveBounds' = Bounds,
         Len(maps') = IF active.len = 0 THEN Len(maps) ELSE Len(maps) + 1
  PROVE  AsStore!StoreNext
<1> DEFINE s == AsStore!Grow(View, ext, Min, Zero)
           b == AppendEnd(NewChunk(TheEnd), ext)
<1>1. /\ ext \in Nat /\ ext > 0 /\ size >= ext /\ (~Persistent => size = ext)
      /\ Cap \in Nat
  BY GrowableAssumption DEF NewMmapSize
<1>2. /\ TheEnd \in Nat /\ InactiveLen \in Nat
      /\ SizeOf(active.bounds) \in Nat /\ active.bounds.start \in Nat
      /\ active.len > 0 => /\ TheEnd = InactiveLen + SizeOf(active.bounds)
                           /\ active.bounds.start = InactiveLen
  BY EndFacts
<1>3. View \in AStore /\ active.len \in Nat
  BY ViewIsStore DEF IInv, Types
<1>4. active.len = 0 => active.bounds.start = 0
  BY DEF IInv, ActiveIsLast, NoActive, NoChunk
<1>5. ~(TheEnd + ext < active.bounds.start + active.len)
  <2>1. CASE active.len = 0
    BY <2>1, <1>1, <1>2, <1>4
  <2>2. CASE active.len > 0
    BY <2>2, <1>1, <1>2, <1>3 DEF Fits
  <2>3. QED
    BY <2>1, <2>2, <1>3
<1>6. /\ View.end = TheEnd /\ View.mapStart = active.bounds.start
      /\ View.mapLen = active.len /\ View.bounds = Bounds
      /\ View.maps = Len(maps) /\ View.size = actual
      /\ View.len = FileSize /\ View.cell = Cells
  BY ViewParts
<1>7. /\ s \in AStore /\ IsCut(View, s, TheEnd + size)
      /\ s.end = TheEnd + ext /\ s.bounds = Bounds \cup {TheEnd + ext}
      /\ s.size = actual
      /\ s.maps = (IF active.len = 0 THEN Len(maps) ELSE Len(maps) + 1)
      /\ s.mapStart = TheEnd /\ s.mapLen = size
  BY <1>1, <1>3, <1>5, <1>6, GrowParts
<1>. HIDE DEF s
<1>8. /\ b \in Chunk /\ b.start = TheEnd /\ GlobalEnd(b) = TheEnd + ext
      /\ EndsOf(b) = {TheEnd + ext}
  <2>1. /\ NewChunk(TheEnd) \in Chunk /\ NewChunk(TheEnd).ends = << >>
        /\ NewChunk(TheEnd).start = TheEnd /\ SizeOf(NewChunk(TheEnd)) = 0
        /\ EndsOf(NewChunk(TheEnd)) = {}
    BY <1>2 DEF NewChunk, Chunk, SizeOf, EndsOf
  <2>2. /\ b \in Chunk /\ b.start = TheEnd /\ GlobalEnd(b) = TheEnd + ext
        /\ EndsOf(b) = EndsOf(NewChunk(TheEnd)) \cup {TheEnd + ext}
    BY <1>1, <2>1, AppendEndFacts
  <2>3. QED
    BY <2>1, <2>2
<1>9. active'.len = size /\ active'.bounds = b
  BY DEF ActiveOn
<1>. HIDE DEF b
<1>10. TheEnd' = TheEnd + ext /\ size > 0
  BY <1>1, <1>8, <1>9 DEF TheEnd
<1>11. Bounds' = s.bounds
  BY <1>7, <1>8, <1>9 DEF Bounds
<1>12. FileSize' = s.len /\ Cells' = s.cell
  <2>1. /\ s.len = TheEnd + size
        /\ s.cell = [a \in Address |-> IF a < TheEnd + size /\ a < FileSize
                                       THEN Cells[a] ELSE Zero]
    BY <1>6, <1>7 DEF IsCut
  <2>2. CASE Persistent
    <3>1. Resize(TheEnd + size) /\ TheEnd + size <= Cap
      BY <2>2 DEF CreateMmap
    <3>2. TheEnd + size \in 0..Cap
      BY <3>1, <1>1, <1>2
    <3>3. /\ fileLen' = TheEnd + size
          /\ \A a \in Address : mem'[0][a] = IF a < TheEnd + size /\ a < fileLen
                                             THEN mem[0][a] ELSE Zero
      BY <3>1, <3>2, ResizeFacts DEF IInv
    <3>4. Cells = mem[0] /\ FileSize = fileLen
      BY <2>2, FileView
    <3>5. \A a \in Address : CellAt(a)' = mem'[0][a]
      BY <2>2 DEF CellAt
    <3>6. \A a \in Address : CellAt(a)' = IF a < TheEnd + size /\ a < FileSize
                                          THEN Cells[a] ELSE Zero
      BY <3>3, <3>4, <3>5
    <3>7. Cells' = s.cell
      BY <3>6, <2>1 DEF Cells
    <3>8. QED
      BY <2>1, <2>2, <3>3, <3>7 DEF FileSize
  <2>3. CASE ~Persistent
    <3>1. size = ext /\ mem' = mem /\ objects' = objects + 1
      BY <1>1, <2>3 DEF CreateMmap
    <3>2. FileSize' = TheEnd + ext
      BY <1>8, <1>9, <2>3, <3>1 DEF FileSize
    <3>3. FileSize = TheEnd
      <4>1. active.len > 0 => active.len = SizeOf(active.bounds)
        BY <2>3 DEF IInv, InMemory
      <4>2. active.len = 0 => TheEnd = 0
        BY <2>3, EndFacts DEF IInv, InMemory, InactiveLen
      <4>3. FileSize = active.bounds.start + active.len
        BY <2>3 DEF FileSize
      <4>4. QED
        BY <4>1, <4>2, <4>3, <1>2, <1>3, <1>4
    <3>4. ASSUME NEW a \in Address
          PROVE  CellAt(a)' = IF a < TheEnd + size /\ a < FileSize
                              THEN Cells[a] ELSE Zero
      <4>1. a \in Nat /\ a \in 0..Cap - 1
        BY <1>1 DEF Address
      <4>2. (InMemoryCells)'
        <5>1. (IInv => InMemoryCells)'
          BY CellsInMemory, PTL
        <5>2. QED
          BY <5>1
      <4>3. /\ a < TheEnd => CellAt(a)' = stored[a + 1]
            /\ a >= TheEnd /\ a < TheEnd + ext =>
                 /\ a - TheEnd \in Address
                 /\ CellAt(a)' = mem[active'.map.object][a - TheEnd]
            /\ a >= TheEnd + ext => CellAt(a)' = Zero
        BY <4>2, <2>3, <1>8, <1>9, <3>1 DEF InMemoryCells
      <4>4. a < TheEnd => CellAt(a)' = Cells[a]
        <5>1. write.stage # "apply"
          BY DEF Idle
        <5>2. a < TheEnd => CellAt(a) = stored[a + 1]
          BY <5>1, <2>3, CellsAtRest
        <5>3. QED
          BY <5>2, <4>3 DEF Cells
      <4>5. a >= TheEnd => CellAt(a)' = Zero
        <5>1. active'.map.object = objects + 1
          BY <2>3 DEF ActiveOn, NewMap
        <5>2. objects + 1 \in objects + 1..Cap
          <6>1. objects' \in 0..Cap /\ objects \in 0..Cap
            BY DEF IInv, Types
          <6>2. QED
            BY <6>1, <3>1, <1>1
        <5>3. mem[objects + 1] = [x \in Address |-> Zero]
          BY <5>2 DEF IInv, Contents
        <5>4. a >= TheEnd /\ a < TheEnd + ext => CellAt(a)' = Zero
          BY <5>1, <5>3, <4>3
        <5>5. QED
          BY <5>4, <4>1, <4>3, <1>1, <1>2
      <4>6. QED
        BY <4>1, <4>4, <4>5, <3>1, <3>3, <1>1, <1>2
    <3>5. Cells' = s.cell
      BY <3>4, <2>1 DEF Cells
    <3>6. QED
      BY <2>1, <3>1, <3>2, <3>5
  <2>4. QED
    BY <2>2, <2>3
<1>13. View' = s
  BY <1>7, <1>8, <1>9, <1>10, <1>11, <1>12, NextView
<1>14. QED
  BY <1>13 DEF AsStore!StoreNext, s

(* The first append.                                                       *)
LEMMA GrowFirstView ==
  ASSUME IInv, IInv', NEW ext \in Exts, GrowFirst(ext)
  PROVE  AsStore!StoreNext
<1> DEFINE size == NewMmapSize(ext, Min)
<1>1. size \in Nat
  BY GrowableAssumption DEF NewMmapSize
<1>2. TheEnd = InactiveLen /\ InactiveLen' = InactiveLen
  BY DEF GrowFirst, TheEnd, InactiveLen
<1>3. InactiveBounds' = Bounds
  <2>1. EndsOf(active.bounds) = {}
    BY BoundsFacts DEF GrowFirst
  <2>2. Bounds = InactiveBounds
    BY <2>1 DEF Bounds
  <2>3. QED
    BY <2>2 DEF InactiveBounds, GrowFirst
<1>4. CreateMmap(size, TheEnd) /\ active' = ActiveOn(size, TheEnd, ext)
  BY <1>2 DEF GrowFirst
<1>5. QED
  BY <1>1, <1>2, <1>3, <1>4, NewActiveView DEF GrowFirst

(* The active map is replaced: its bounds go with it to the inactive ones. *)
LEMMA GrowNextView ==
  ASSUME IInv, IInv', NEW ext \in Exts, GrowNext(ext)
  PROVE  AsStore!StoreNext
<1> DEFINE size == NewMmapSize(ext, Min)
<1>1. size \in Nat
  BY GrowableAssumption DEF NewMmapSize
<1>2. /\ chunks \in Seq(Chunk) /\ active.bounds \in Chunk
      /\ Bounded(active.bounds) /\ active.len > 0 /\ active.len \in Nat
      /\ maps \in Seq(Map)
  BY DEF IInv, Types, ActiveIsLast, GrowNext
<1>3. TheEnd = GlobalEnd(active.bounds) /\ SizeOf(active.bounds) > 0
  BY <1>2, EndFacts
<1>4. chunks' = Append(chunks, active.bounds) /\ maps' = Append(maps, Retired)
  BY <1>3 DEF GrowNext, WithChunk
<1>5. /\ Len(chunks') = Len(chunks) + 1
      /\ chunks'[Len(chunks) + 1] = active.bounds
      /\ \A i \in 1..Len(chunks) : chunks'[i] = chunks[i]
      /\ Len(chunks) \in Nat /\ chunks' # << >>
      /\ Len(maps') = Len(maps) + 1
  BY <1>2, <1>4
<1>6. InactiveLen' = TheEnd
  BY <1>3, <1>5 DEF InactiveLen
<1>7. InactiveBounds' = Bounds
  <2>1. 1..Len(chunks) + 1 = 1..Len(chunks) \cup {Len(chunks) + 1}
    BY <1>5
  <2>2. InactiveBounds'
          = UNION {EndsOf(chunks'[i]) : i \in 1..Len(chunks) + 1}
    BY <1>5 DEF InactiveBounds
  <2>3. \A x : x \in InactiveBounds'
                 <=> \E i \in 1..Len(chunks) + 1 : x \in EndsOf(chunks'[i])
    BY <2>2
  <2>4. \A x : x \in InactiveBounds
                 <=> \E i \in 1..Len(chunks) : x \in EndsOf(chunks[i])
    BY DEF InactiveBounds
  <2>5. \A x : x \in InactiveBounds'
                 <=> x \in InactiveBounds \/ x \in EndsOf(active.bounds)
    BY <2>1, <2>3, <2>4, <1>5
  <2>6. InactiveBounds' = InactiveBounds \cup EndsOf(active.bounds)
    BY <2>5
  <2>7. QED
    BY <2>6 DEF Bounds
<1>8. CreateMmap(size, TheEnd) /\ active' = ActiveOn(size, TheEnd, ext)
  BY <1>3 DEF GrowNext
<1>9. active.len # 0
  BY <1>2
<1>10. QED
  BY <1>1, <1>5, <1>6, <1>7, <1>8, <1>9, NewActiveView DEF GrowNext

(* An append to the active map, which only a file has room for.            *)
LEMMA GrowInPlaceView ==
  ASSUME IInv, IInv', NEW ext \in Exts, GrowInPlace(ext)
  PROVE  AsStore!StoreNext
<1> DEFINE s == AsStore!Grow(View, ext, Min, Zero)
           c == AppendEnd(active.bounds, SizeOf(active.bounds) + ext)
<1>1. ext \in Nat /\ ext > 0
  BY GrowableAssumption
<1>2. /\ TheEnd \in Nat /\ InactiveLen \in Nat
      /\ SizeOf(active.bounds) \in Nat /\ active.bounds.start \in Nat
      /\ TheEnd = InactiveLen + SizeOf(active.bounds)
      /\ active.bounds.start = InactiveLen
  BY EndFacts DEF GrowInPlace
<1>3. /\ View \in AStore /\ active.len \in Nat /\ active.len > 0
      /\ active.bounds \in Chunk /\ Bounded(active.bounds)
      /\ active \in [len : Nat, map : Map, bounds : Chunk]
  BY ViewIsStore DEF IInv, Types, ActiveIsLast, GrowInPlace
<1>4. Persistent
  <2>1. ~Persistent => active.len = SizeOf(active.bounds)
    BY <1>3 DEF IInv, InMemory
  <2>2. SizeOf(active.bounds) + ext < active.len
    BY DEF GrowInPlace, Fits
  <2>3. QED
    BY <2>1, <2>2, <1>1, <1>2, <1>3
<1>5. TheEnd + ext < active.bounds.start + active.len
  BY <1>1, <1>2, <1>3 DEF GrowInPlace, Fits
<1>6. /\ View.end = TheEnd /\ View.mapStart = active.bounds.start
      /\ View.mapLen = active.len /\ View.bounds = Bounds
      /\ View.maps = Len(maps) /\ View.size = actual
      /\ View.len = FileSize /\ View.cell = Cells
  BY ViewParts
<1>7. /\ s \in AStore /\ SameFile(View, s) /\ SameMaps(View, s)
      /\ s.end = TheEnd + ext /\ s.bounds = Bounds \cup {TheEnd + ext}
      /\ s.size = actual
  BY <1>1, <1>3, <1>5, <1>6, GrowInRoomParts
<1>. HIDE DEF s
<1>8. SizeOf(active.bounds) + ext > SizeOf(active.bounds)
      /\ SizeOf(active.bounds) + ext \in Nat
      /\ active.bounds.start + (SizeOf(active.bounds) + ext) = TheEnd + ext
  BY <1>1, <1>2
<1>9. /\ c.start = active.bounds.start /\ GlobalEnd(c) = TheEnd + ext
      /\ EndsOf(c) = EndsOf(active.bounds) \cup {TheEnd + ext}
  BY <1>3, <1>8, AppendEndFacts
<1>10. active'.bounds = c /\ active'.len = active.len
  BY <1>3 DEF GrowInPlace
<1>. HIDE DEF c
<1>11. TheEnd' = TheEnd + ext
  BY <1>3, <1>9, <1>10 DEF TheEnd
<1>12. Bounds' = s.bounds
  <2>1. InactiveBounds' = InactiveBounds
    BY DEF InactiveBounds, GrowInPlace
  <2>2. Bounds' = InactiveBounds \cup EndsOf(c)
    BY <2>1, <1>10 DEF Bounds
  <2>3. Bounds = InactiveBounds \cup EndsOf(active.bounds)
    BY DEF Bounds
  <2>. HIDE DEF Bounds
  <2>4. QED
    BY <2>2, <2>3, <1>7, <1>9
<1>13. FileSize' = FileSize /\ Cells' = Cells
  <2>1. Cells = mem[0] /\ FileSize = fileLen
    BY <1>4, FileView
  <2>2. (IInv /\ Persistent => Cells = mem[0] /\ FileSize = fileLen)'
    BY FileView, PTL
  <2>3. mem' = mem /\ fileLen' = fileLen
    BY DEF GrowInPlace
  <2>4. QED
    BY <2>1, <2>2, <2>3, <1>4
<1>14. maps' = maps /\ actual' = actual
  BY DEF GrowInPlace
<1>15. View' = s
  <2>1. /\ s.len = FileSize' /\ s.cell = Cells' /\ s.maps = Len(maps')
        /\ s.mapStart = active'.bounds.start /\ s.mapLen = active'.len
    BY <1>6, <1>7, <1>9, <1>10, <1>13, <1>14 DEF SameFile, SameMaps
  <2>2. QED
    BY <2>1, <1>7, <1>11, <1>12, <1>14, NextView
<1>16. QED
  BY <1>15 DEF AsStore!StoreNext, s

(* A failed append leaves the store as it is, or with a longer file.       *)
LEMMA CreateFailsView ==
  ASSUME IInv, IInv', NEW ext \in Exts, CreateFails(ext)
  PROVE  AsStore!StoreNext \/ View' = View
<1> DEFINE size == NewMmapSize(ext, Min)
           s == AsStore!Extend(View, ext, Min, Zero)
<1>1. /\ chunks' = chunks /\ maps' = maps /\ active' = active
      /\ actual' = actual /\ objects' = objects
  BY DEF CreateFails
<1>2. InactiveLen' = InactiveLen /\ TheEnd' = TheEnd /\ Bounds' = Bounds
  BY <1>1 DEF InactiveLen, TheEnd, Bounds, InactiveBounds
<1>3. View \in AStore
  BY ViewIsStore
<1>4. CASE UNCHANGED <<mem, fileLen>>
  <2>1. \A a \in Address : CellAt(a)' = CellAt(a)
    BY <1>1, <1>2, <1>4 DEF CellAt, FindMap
  <2>2. Cells' = Cells /\ FileSize' = FileSize
    BY <2>1, <1>1, <1>4 DEF Cells, FileSize
  <2>3. View' = View
    BY <1>1, <1>2, <1>3, <2>2, ViewParts, NextView
  <2>4. QED
    BY <2>3
<1>5. CASE Persistent /\ TheEnd + size <= Cap /\ Resize(TheEnd + size)
  <2>1. size \in Nat
    BY GrowableAssumption DEF NewMmapSize
  <2>2. TheEnd + size \in 0..Cap
    BY <1>5, <2>1, EndFacts, GrowableAssumption
  <2>3. /\ s \in AStore /\ IsCut(View, s, TheEnd + size)
        /\ SameMaps(View, s) /\ SameData(View, s)
    BY <1>3, <2>1, ViewParts, ExtendParts, GrowableAssumption
  <2>. HIDE DEF s
  <2>4. /\ fileLen' = TheEnd + size
        /\ \A a \in Address : mem'[0][a] = IF a < TheEnd + size /\ a < fileLen
                                           THEN mem[0][a] ELSE Zero
    BY <1>5, <2>2, ResizeFacts DEF IInv
  <2>5. Cells = mem[0] /\ FileSize = fileLen
    BY <1>5, FileView
  <2>6. \A a \in Address : CellAt(a)' = mem'[0][a]
    BY <1>5 DEF CellAt
  <2>7. \A a \in Address : CellAt(a)' = IF a < TheEnd + size /\ a < FileSize
                                        THEN Cells[a] ELSE Zero
    BY <2>4, <2>5, <2>6
  <2>8. /\ s.len = TheEnd + size
        /\ s.cell = [a \in Address |-> IF a < TheEnd + size /\ a < FileSize
                                       THEN Cells[a] ELSE Zero]
    BY <2>3, ViewParts DEF IsCut
  <2>9. Cells' = s.cell
    BY <2>7, <2>8 DEF Cells
  <2>10. FileSize' = s.len
    BY <2>4, <2>8, <1>5 DEF FileSize
  <2>11. View' = s
    <3>1. /\ s.end = TheEnd /\ s.bounds = Bounds /\ s.maps = Len(maps)
          /\ s.mapStart = active.bounds.start /\ s.mapLen = active.len
          /\ s.size = actual
      BY <2>3, ViewParts DEF SameMaps, SameData
    <3>2. QED
      BY <1>1, <1>2, <2>3, <2>9, <2>10, <3>1, NextView
  <2>12. QED
    BY <2>11 DEF AsStore!StoreNext, s
<1>6. QED
  BY <1>4, <1>5 DEF CreateFails

(* The handle is gone: what is left is the file.                           *)
LEMMA ForgetView ==
  ASSUME IInv', Persistent, Forget, NEW s \in AStore,
         s.len = fileLen', s.cell = Cells', s.end = 0, s.size = 0,
         s.bounds = {}, s.maps = 0, s.mapStart = 0, s.mapLen = 0
  PROVE  View' = s
<1>1. /\ chunks' = << >> /\ maps' = << >> /\ active' = NoActive /\ actual' = 0
  BY DEF Forget
<1>2. active'.len = 0 /\ active'.bounds.start = 0 /\ active'.bounds.ends = << >>
  BY <1>1 DEF NoActive, NoChunk
<1>3. TheEnd' = 0 /\ FileSize' = fileLen'
  BY <1>1, <1>2 DEF TheEnd, InactiveLen, FileSize
<1>4. Bounds' = {}
  <2>1. EndsOf(active.bounds)' = {}
    BY <1>2 DEF EndsOf
  <2>2. InactiveBounds' = {}
    BY <1>1 DEF InactiveBounds
  <2>3. QED
    BY <2>1, <2>2 DEF Bounds
<1>5. Len(maps') = 0
  BY <1>1
<1>6. QED
  BY <1>1, <1>2, <1>3, <1>4, <1>5, NextView

(* A crash is a Detach, shrink_to_size one after the cut.                  *)
LEMMA CrashView ==
  ASSUME IInv, IInv', Crash
  PROVE  AsStore!StoreNext
<1> DEFINE s == AsStore!Detach(View)
<1>1. /\ s \in AStore /\ SameFile(View, s) /\ s.end = 0 /\ s.size = 0
      /\ s.bounds = {} /\ s.maps = 0 /\ s.mapStart = 0 /\ s.mapLen = 0
  BY ViewIsStore, DetachParts
<1>. HIDE DEF s
<1>2. Cells = mem[0] /\ FileSize = fileLen
  BY FileView DEF Crash
<1>3. (IInv /\ Persistent => Cells = mem[0] /\ FileSize = fileLen)'
  BY FileView, PTL
<1>4. Cells' = Cells /\ fileLen' = fileLen
  BY <1>2, <1>3 DEF Crash
<1>5. s.len = fileLen' /\ s.cell = Cells'
  BY <1>1, <1>2, <1>4, ViewParts DEF SameFile
<1>6. View' = s
  BY <1>1, <1>5, ForgetView DEF Crash
<1>7. QED
  BY <1>6 DEF AsStore!StoreNext, s

(* The file is cut where its data ends.                                    *)
LEMMA ShrinkView ==
  ASSUME IInv, IInv', Shrink
  PROVE  AsStore!StoreNext
<1> DEFINE t == AsStore!ShrinkToSize(View, Zero)
           s == AsStore!Detach(t)
<1>1. View \in AStore /\ TheEnd \in Nat /\ View.end = TheEnd
      /\ TheEnd \in 0..Cap
  BY ViewIsStore, ViewParts, EndFacts, GrowableAssumption
<1>2. t = AsStore!SetLen(View, TheEnd, Zero)
  BY <1>1 DEF AsStore!ShrinkToSize
<1>3. t \in AStore /\ IsCut(View, t, TheEnd)
  BY <1>1, <1>2, SetLenParts
<1>. HIDE DEF t
<1>4. /\ s \in AStore /\ SameFile(t, s) /\ s.end = 0 /\ s.size = 0
      /\ s.bounds = {} /\ s.maps = 0 /\ s.mapStart = 0 /\ s.mapLen = 0
  BY <1>3, DetachParts
<1>. HIDE DEF s
<1>5. Cells = mem[0] /\ FileSize = fileLen
  BY FileView DEF Shrink
<1>6. /\ fileLen' = TheEnd
      /\ \A a \in Address : mem'[0][a] = IF a < TheEnd /\ a < fileLen
                                         THEN mem[0][a] ELSE Zero
  BY <1>1, ResizeFacts DEF IInv, Shrink
<1>7. \A a \in Address : CellAt(a)' = mem'[0][a]
  BY DEF CellAt, Shrink
<1>8. \A a \in Address : CellAt(a)' = IF a < TheEnd /\ a < FileSize
                                      THEN Cells[a] ELSE Zero
  BY <1>5, <1>6, <1>7
<1>9. /\ s.len = TheEnd
      /\ s.cell = [a \in Address |-> IF a < TheEnd /\ a < FileSize
                                     THEN Cells[a] ELSE Zero]
  BY <1>3, <1>4, ViewParts DEF IsCut, SameFile
<1>10. Cells' = s.cell /\ s.len = fileLen'
  BY <1>6, <1>8, <1>9 DEF Cells
<1>11. View' = s
  BY <1>4, <1>10, ForgetView DEF Shrink
<1>12. QED
  BY <1>11 DEF AsStore!StoreNext, s, t

(* The end of an append: the bounds of what was merged are forgotten, and  *)
(* the new bytes are published.                                            *)
LEMMA FinishView ==
  ASSUME IInv, IInv', Finish
  PROVE  AsStore!StoreNext
<1> DEFINE s == [AsStore!RearrangeMmaps(View) EXCEPT !.size = View.end]
<1>1. View \in AStore
  BY ViewIsStore
<1>2. /\ View.end = TheEnd /\ View.mapStart = active.bounds.start
      /\ View.mapLen = active.len /\ View.bounds = Bounds
      /\ View.maps = Len(maps) /\ View.size = actual
      /\ View.len = FileSize /\ View.cell = Cells
  BY ViewParts
<1>3. /\ s \in AStore /\ SameFile(View, s) /\ s.end = TheEnd /\ s.size = TheEnd
      /\ s.mapStart = active.bounds.start /\ s.mapLen = active.len
      /\ Persistent /\ Len(maps) > MaxMaps =>
           s.maps = 1 /\ s.bounds = {b \in Bounds : b >= active.bounds.start}
      /\ ~(Persistent /\ Len(maps) > MaxMaps) =>
           s.maps = Len(maps) /\ s.bounds = Bounds
  BY ZenonT(40), <1>1, <1>2, RearrangeParts
<1>. HIDE DEF s
<1>4. /\ active' = active /\ mem' = mem /\ fileLen' = fileLen
      /\ objects' = objects /\ stored' = stored
  BY DEF Finish
<1>5. actual' = TheEnd
  BY DEF Finish, IInv, Phases
<1>6. /\ active.len > 0 /\ active.len \in Nat /\ active.bounds.start = InactiveLen
      /\ InactiveLen \in Nat
  <2>1. active.len > 0
    BY DEF Finish, IInv, Phases
  <2>2. QED
    BY <2>1, EndFacts DEF IInv, Types
<1>7. CASE ~(Persistent /\ Len(maps) > MaxMaps)
  <2>1. chunks' = chunks /\ maps' = maps
    BY <1>7 DEF Finish
  <2>2. InactiveLen' = InactiveLen /\ TheEnd' = TheEnd /\ Bounds' = Bounds
    BY <2>1, <1>4 DEF InactiveLen, TheEnd, Bounds, InactiveBounds
  <2>3. \A a \in Address : CellAt(a)' = CellAt(a)
    BY <2>1, <2>2, <1>4 DEF CellAt, FindMap
  <2>4. Cells' = Cells /\ FileSize' = FileSize
    BY <2>3, <1>4 DEF Cells, FileSize
  <2>5. s.len = FileSize' /\ s.cell = Cells'
    BY <2>4, <1>2, <1>3 DEF SameFile
  <2>6. View' = s
    BY <2>1, <2>2, <2>5, <1>3, <1>4, <1>5, <1>7, NextView
  <2>7. QED
    BY <2>6 DEF AsStore!StoreNext, s
<1>8. CASE Persistent /\ Len(maps) > MaxMaps
  <2> DEFINE c == AppendEnd(NewChunk(0), InactiveLen)
  <2>1. chunks # << >> /\ chunks \in Seq(Chunk) /\ maps \in Seq(Map)
    <3>1. MaxMaps \in Nat /\ MaxMaps > 0
      BY StoreAssumption
    <3>2. Len(chunks) > 0
      BY <3>1, <1>8 DEF IInv, Types, Matching
    <3>3. QED
      BY <3>2 DEF IInv, Types
  <2>2. InactiveLen > 0
    <3>1. chunks[Len(chunks)] \in Chunk /\ Bounded(chunks[Len(chunks)])
      BY <2>1 DEF IInv, Tiles
    <3>2. QED
      BY <2>1, <3>1, ChunkSizes DEF InactiveLen
  <2>3. /\ SizeOf(c) = InactiveLen /\ GlobalEnd(c) = InactiveLen
        /\ EndsOf(c) = {InactiveLen}
    <3>1. NewChunk(0) \in Chunk /\ NewChunk(0).ends = << >>
          /\ NewChunk(0).start = 0 /\ SizeOf(NewChunk(0)) = 0
          /\ EndsOf(NewChunk(0)) = {}
      BY DEF NewChunk, Chunk, SizeOf, EndsOf
    <3>2. /\ SizeOf(c) = InactiveLen /\ GlobalEnd(c) = 0 + InactiveLen
          /\ EndsOf(c) = EndsOf(NewChunk(0)) \cup {0 + InactiveLen}
      BY <1>6, <2>2, <3>1, AppendEndFacts
    <3>3. 0 + InactiveLen = InactiveLen
      BY <1>6
    <3>. HIDE DEF c
    <3>4. QED
      BY <3>1, <3>2, <3>3
  <2>4. chunks' = <<c>> /\ Len(maps') = 1
    <3>1. chunks' = WithChunk(<< >>, c) /\ Len(maps') = 1
      BY <1>8 DEF Finish, Merge
    <3>2. WithChunk(<< >>, c) = <<c>>
      BY <2>2, <2>3, <1>6 DEF WithChunk
    <3>. HIDE DEF c
    <3>3. QED
      BY <3>1, <3>2
  <2>. HIDE DEF c
  <2>5. /\ Len(chunks') = 1 /\ chunks'[1] = c /\ chunks' # << >>
    BY <2>4
  <2>6. InactiveLen' = InactiveLen
    BY <2>3, <2>5 DEF InactiveLen
  <2>7. TheEnd' = TheEnd
    BY <2>6, <1>4 DEF TheEnd
  <2>8. Bounds' = s.bounds
    <3>1. InactiveBounds' = {InactiveLen}
      BY <2>3, <2>5 DEF InactiveBounds
    <3>2. Bounds' = {InactiveLen} \cup EndsOf(active.bounds)
      BY <3>1, <1>4 DEF Bounds
    <3>3. /\ \A b \in EndsOf(active.bounds) : b \in Nat /\ b > InactiveLen
          /\ \A b \in InactiveBounds : b \in Nat /\ b <= InactiveLen
          /\ InactiveLen \in InactiveBounds
      BY <1>6, <2>1, BoundsFacts DEF InactiveBounds
    <3>4. s.bounds = {b \in Bounds : b >= InactiveLen}
      BY <1>3, <1>6, <1>8
    <3>5. \A b : b \in s.bounds <=> \/ b \in InactiveBounds /\ b >= InactiveLen
                                   \/ b \in EndsOf(active.bounds)
      BY <3>3, <3>4, <1>6 DEF Bounds
    <3>6. \A b : b \in InactiveBounds /\ b >= InactiveLen <=> b = InactiveLen
      BY <3>3, <1>6
    <3>7. \A b : b \in s.bounds <=> \/ b = InactiveLen
                                   \/ b \in EndsOf(active.bounds)
      BY <3>5, <3>6
    <3>8. s.bounds = {InactiveLen} \cup EndsOf(active.bounds)
      BY <3>7
    <3>9. QED
      BY <3>2, <3>8
  <2>9. Cells' = Cells /\ FileSize' = FileSize
    <3>1. Cells = mem[0] /\ FileSize = fileLen
      BY <1>8, FileView
    <3>2. (IInv /\ Persistent => Cells = mem[0] /\ FileSize = fileLen)'
      BY FileView, PTL
    <3>3. QED
      BY <3>1, <3>2, <1>4, <1>8
  <2>10. s.len = FileSize' /\ s.cell = Cells'
    BY <2>9, <1>2, <1>3 DEF SameFile
  <2>11. View' = s
    BY <2>4, <2>7, <2>8, <2>10, <1>3, <1>4, <1>5, <1>8, NextView
  <2>12. QED
    BY <2>11 DEF AsStore!StoreNext, s
<1>9. QED
  BY <1>7, <1>8

(* A write changes the cells that were appended and are not published.     *)
LEMMA WrittenCells ==
  ASSUME IInv, IInv', NEW tag \in Tags, Apply(tag), NEW a \in Address
  PROVE  \/ CellAt(a)' = CellAt(a)
         \/ /\ actual <= a /\ a < TheEnd
            /\ CellAt(a)' \in Tags \X Address
<1> DEFINE first == active.map.at + write.from
           new == [i \in 1..write.ext |-> <<tag, Len(stored) + i - 1>>]
<1>1. /\ Cap \in Nat /\ a \in Nat /\ a \in 0..Cap - 1
      /\ TheEnd \in Nat /\ TheEnd <= Cap /\ InactiveLen \in Nat
      /\ actual \in Nat /\ write.from \in Nat /\ write.ext \in Nat
      /\ active.len \in Nat /\ active.bounds.start \in Nat
  <2>1. Cap \in Nat /\ a \in Nat /\ a \in 0..Cap - 1
    BY GrowableAssumption DEF Address
  <2>2. /\ actual \in Nat /\ write.from \in Nat /\ write.ext \in Nat
        /\ active.len \in Nat
    BY DEF IInv, Types
  <2>3. QED
    BY <2>1, <2>2, EndFacts
<1>2. /\ active.len > 0 /\ write.ext > 0 /\ Len(stored) = actual
      /\ actual + write.ext = TheEnd
      /\ write.from + write.ext = SizeOf(active.bounds)
  BY DEF Apply, IInv, Phases
<1>3. /\ TheEnd = InactiveLen + SizeOf(active.bounds)
      /\ active.bounds.start = InactiveLen
      /\ SizeOf(active.bounds) \in Nat /\ SizeOf(active.bounds) <= active.len
  BY <1>2, EndFacts DEF IInv, ActiveIsLast
<1>4. actual = InactiveLen + write.from
  BY SMTT(40), <1>1, <1>2, <1>3
<1>5. ASSUME NEW i \in 1..write.ext
      PROVE  new[i] \in Tags \X Address
  <2>1. actual + i - 1 \in 0..Cap - 1
    BY <1>1, <1>2
  <2>2. QED
    BY <2>1, <1>2 DEF Address
<1>6. /\ chunks' = chunks /\ maps' = maps /\ active' = active
      /\ objects' = objects /\ stored' = stored \o new
      /\ mem' = [mem EXCEPT ![active.map.object] =
                   [x \in Address |->
                      IF first <= x /\ x < first + write.ext
                      THEN new[x - first + 1]
                      ELSE mem[active.map.object][x]]]
  BY DEF Apply
<1>7. InactiveLen' = InactiveLen
  BY <1>6 DEF InactiveLen
<1>8. active.map.object \in 0..Cap
  <2>1. 0 \in 0..active.len - 1
    BY <1>1, <1>2
  <2>2. QED
    BY <2>1, <1>2, LocatedActive
<1>9. \A x \in Address :
        mem'[active.map.object][x] =
          IF first <= x /\ x < first + write.ext
          THEN new[x - first + 1] ELSE mem[active.map.object][x]
  BY <1>6, <1>8 DEF IInv, Types
<1>. HIDE DEF new
<1>10. CASE Persistent
  <2>1. /\ active.map.object = 0 /\ active.map.at = InactiveLen
    BY <1>2, <1>3, <1>10 DEF IInv, OnTheFile
  <2>2. first = actual
    BY <1>4, <2>1
  <2>3. CellAt(a)' = mem'[0][a] /\ CellAt(a) = mem[0][a]
    BY <1>10 DEF CellAt
  <2>4. CASE actual <= a /\ a < TheEnd
    <3>1. a - actual + 1 \in 1..write.ext
      BY <2>4, <1>1, <1>2
    <3>2. a < actual + write.ext
      BY <2>4, <1>2
    <3>3. mem'[0][a] = new[a - actual + 1]
      BY <2>1, <2>2, <2>4, <3>2, <1>9
    <3>4. QED
      BY <2>3, <2>4, <3>1, <3>3, <1>5
  <2>5. CASE ~(actual <= a /\ a < TheEnd)
    <3>1. mem'[0][a] = mem[0][a]
      BY <2>1, <2>2, <2>5, <1>2, <1>9
    <3>2. QED
      BY <2>3, <3>1
  <2>6. QED
    BY <2>4, <2>5
<1>11. CASE ~Persistent
  <2>1. active.map.at = 0 /\ active.len = SizeOf(active.bounds)
    BY <1>2, <1>11 DEF IInv, InMemory
  <2>2. first = write.from /\ active.bounds.start + active.len = TheEnd
    BY <2>1, <1>1, <1>3
  <2>3. /\ a < InactiveLen => CellAt(a) = stored[a + 1]
        /\ a >= InactiveLen /\ a < TheEnd =>
             /\ a - InactiveLen \in Address
             /\ CellAt(a) = mem[active.map.object][a - InactiveLen]
        /\ a >= TheEnd => CellAt(a) = Zero
    BY <2>2, <1>11, CellsInMemory DEF InMemoryCells
  <2>4. /\ a < InactiveLen => CellAt(a)' = stored'[a + 1]
        /\ a >= InactiveLen /\ a < TheEnd =>
             CellAt(a)' = mem'[active.map.object][a - InactiveLen]
        /\ a >= TheEnd => CellAt(a)' = Zero
    <3>1. (IInv => InMemoryCells)'
      BY CellsInMemory, PTL
    <3>2. (InMemoryCells)'
      BY <3>1
    <3>3. QED
      BY <3>2, <2>2, <1>6, <1>7, <1>11 DEF InMemoryCells
  <2>5. CASE a < InactiveLen
    <3>1. a + 1 \in 1..Len(stored)
      BY <2>5, <1>1, <1>2, <1>4
    <3>2. stored'[a + 1] = stored[a + 1]
      <4>1. stored \in Seq(Byte) /\ new \in Seq(Byte)
        <5>1. \A i \in 1..write.ext : new[i] \in Byte
          BY <1>5 DEF Byte
        <5>2. new \in [1..write.ext -> Byte]
          BY <5>1 DEF new
        <5>3. new \in Seq(Byte)
          BY <5>2, <1>1
        <5>4. QED
          BY <5>3 DEF IInv, Types
      <4>2. QED
        BY <4>1, <3>1, <1>6, ConcatFacts
    <3>3. QED
      BY <2>3, <2>4, <2>5, <3>2
  <2>6. CASE InactiveLen <= a /\ a < TheEnd
    <3> DEFINE x == a - InactiveLen
    <3>1. /\ x \in Address /\ CellAt(a) = mem[active.map.object][x]
          /\ CellAt(a)' = mem'[active.map.object][x]
      BY <2>3, <2>4, <2>6, <1>1
    <3>2. CASE write.from <= x
      <4>1. x < write.from + write.ext
        BY <2>6, <1>1, <1>2, <1>3
      <4>2. x - write.from + 1 \in 1..write.ext
        BY <4>1, <3>2, <1>1
      <4>3. CellAt(a)' = new[x - write.from + 1]
        BY <2>2, <3>1, <3>2, <4>1, <1>9
      <4>4. actual <= a
        BY <3>2, <1>1, <1>4
      <4>5. QED
        BY <2>6, <4>2, <4>3, <4>4, <1>5
    <3>3. CASE ~(write.from <= x)
      BY <2>2, <3>1, <3>3, <1>9
    <3>4. QED
      BY <3>2, <3>3
  <2>7. CASE a >= TheEnd
    BY <2>3, <2>4, <2>7
  <2>8. QED
    BY <2>5, <2>6, <2>7, <1>1
<1>12. QED
  BY <1>10, <1>11

(* f is a Write.                                                           *)
LEMMA ApplyView ==
  ASSUME IInv, IInv', NEW tag \in Tags, Apply(tag)
  PROVE  AsStore!StoreNext
<1> DEFINE s == [View EXCEPT !.cell = View'.cell]
<1>1. View \in AStore /\ View' \in AStore
  <2>1. (IInv => View \in AStore)'
    BY ViewIsStore, PTL
  <2>2. QED
    BY <2>1, ViewIsStore
<1>2. View' = s
  <2>1. /\ s \in AStore /\ s.len = View.len /\ s.cell = View'.cell
        /\ s.end = View.end /\ s.bounds = View.bounds /\ s.maps = View.maps
        /\ s.mapStart = View.mapStart /\ s.mapLen = View.mapLen
        /\ s.size = View.size
    BY <1>1 DEF AStore, Store
  <2>. HIDE DEF s
  <2>2. View'.cell = Cells'
    <3>1. (View.cell = Cells)'
      BY ViewParts, PTL
    <3>2. QED
      BY <3>1
  <2>3. /\ chunks' = chunks /\ maps' = maps /\ active' = active
        /\ actual' = actual /\ fileLen' = fileLen
    BY DEF Apply
  <2>4. TheEnd' = TheEnd /\ Bounds' = Bounds /\ FileSize' = FileSize
    BY <2>3 DEF InactiveLen, TheEnd, Bounds, InactiveBounds, FileSize
  <2>5. QED
    BY <2>1, <2>2, <2>3, <2>4, ViewParts, NextView
<1>3. ASSUME NEW a \in Address
      PROVE  \/ View'.cell[a] = View.cell[a]
             \/ /\ View.size <= a /\ a < View.end
                /\ View'.cell[a] \in Tags \X Address
  <2>1. (View.cell = Cells)'
    BY ViewParts, PTL
  <2>2. View'.cell[a] = CellAt(a)' /\ View.cell[a] = CellAt(a)
    BY <2>1, ViewParts DEF Cells
  <2>3. QED
    BY <2>2, ViewParts, WrittenCells
<1>4. AsStore!Write
  BY <1>2, <1>3 DEF AsStore!Write
<1>5. QED
  BY <1>4 DEF AsStore!StoreNext

-----------------------------------------------------------------------------
(* A step of the file is a step of the store, or changes none of it.       *)
LEMMA NextIsStoreStep ==
  ASSUME IInv, IInv', [Next]_vars
  PROVE  [AsStore!StoreNext]_View
<1>1. ASSUME NEW n \in 0..fileLen, New(n)
      PROVE  AsStore!StoreNext
  BY <1>1, NewView
<1>2. ASSUME NEW ext \in Exts, GrowFirst(ext)
      PROVE  AsStore!StoreNext
  BY <1>2, GrowFirstView
<1>3. ASSUME NEW ext \in Exts, GrowInPlace(ext)
      PROVE  AsStore!StoreNext
  BY <1>3, GrowInPlaceView
<1>4. ASSUME NEW ext \in Exts, GrowNext(ext)
      PROVE  AsStore!StoreNext
  BY <1>4, GrowNextView
<1>5. ASSUME NEW ext \in Exts, CreateFails(ext)
      PROVE  AsStore!StoreNext \/ View' = View
  BY <1>5, CreateFailsView
<1>6. ASSUME NEW tag \in Tags, Apply(tag)
      PROVE  AsStore!StoreNext
  BY <1>6, ApplyView
<1>7. CASE Finish
  BY <1>7, FinishView
<1>8. CASE Shrink
  BY <1>8, ShrinkView
<1>9. CASE Crash
  BY <1>9, CrashView
<1>10. CASE UNCHANGED vars
  <2>1. /\ chunks' = chunks /\ maps' = maps /\ active' = active
        /\ actual' = actual /\ mem' = mem /\ fileLen' = fileLen
    BY <1>10 DEF vars
  <2>2. InactiveLen' = InactiveLen /\ TheEnd' = TheEnd /\ Bounds' = Bounds
    BY <2>1 DEF InactiveLen, TheEnd, Bounds, InactiveBounds
  <2>3. \A a \in Address : CellAt(a)' = CellAt(a)
    BY <2>1, <2>2 DEF CellAt, FindMap
  <2>4. Cells' = Cells /\ FileSize' = FileSize
    BY <2>1, <2>3 DEF Cells, FileSize
  <2>5. View' = View
    BY <2>1, <2>2, <2>4, ViewIsStore, ViewParts, NextView
  <2>6. QED
    BY <2>5
<1>11. QED
  BY <1>1, <1>2, <1>3, <1>4, <1>5, <1>6, <1>7, <1>8, <1>9, <1>10 DEF Next

(* GrowableMmap, its index and its lists of maps are the store Fraos is    *)
(* built from: for every size of the maps and of the appends, with a file  *)
(* and in memory, and through every crash.                                 *)
THEOREM MapsAreAStore == Spec => ImplementsStore
<1>1. Init => AsStore!StoreInit
  BY InitView
<1>2. IInv /\ IInv' /\ [Next]_vars => [AsStore!StoreNext]_View
  BY NextIsStoreStep
<1>3. QED
  BY <1>1, <1>2, MapsInvariance, PTL DEF Spec, ImplementsStore, AsStore!StoreLife
=============================================================================
