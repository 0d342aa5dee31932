---------------------------- MODULE GrowableMmap ----------------------------
(***************************************************************************)
(* The inside of a MmapStore: GrowableMmap with its list of inactive maps, *)
(* the index that finds the map of an address (IndexOnMmaps), the active   *)
(* map the appends go to, and the Appender around them.                    *)
(*                                                                         *)
(* A map is a window on an object: object 0 is the file, every anonymous   *)
(* map of an in-memory database is an object of its own.                   *)
(***************************************************************************)
EXTENDS MmapStore, Sequences

CONSTANTS
  Cap,   \* the largest length set_len can give to the file
  Min,   \* MIN_MMAP_BYTES
  Exts,  \* numbers of bytes appended at once
  Tags,  \* what the bytes of an append say
  Zero   \* a byte nobody wrote

ASSUME GrowableAssumption ==
  /\ Cap \in Nat /\ Min \in Nat \ {0} /\ Exts \subseteq Nat \ {0}

VARIABLES
  mem,     \* the content of every object
  fileLen, \* length of the file
  objects, \* number of anonymous maps created
  open,    \* there is a handle
  chunks,  \* IndexOnMmaps::mmaps of the inactive maps
  maps,    \* InactiveMmaps::maps
  active,  \* active_map
  write,   \* the append that holds the RwLock
  actual,  \* actual_size
  stored   \* history: the bytes appended, in their order

vars == <<mem, fileLen, objects, open, chunks, maps, active, write, actual,
          stored>>

-----------------------------------------------------------------------------
Address == 0..Cap - 1
Byte == (Tags \X Address) \cup {Zero}

Chunk == [start : Nat, ends : Seq(Nat)]
Map == [object : Nat, at : Nat, len : Nat]

NoChunk == [start |-> 0, ends |-> << >>]
NoMap == [object |-> 0, at |-> 0, len |-> 0]
NoActive == [len |-> 0, map |-> NoMap, bounds |-> NoChunk]
NoWrite == [stage |-> "none", from |-> 0, ext |-> 0]

Init ==
  /\ mem = [o \in 0..Cap |-> [a \in Address |-> Zero]]
  /\ fileLen = 0
  /\ objects = 0
  /\ open = FALSE
  /\ chunks = << >>
  /\ maps = << >>
  /\ active = NoActive
  /\ write = NoWrite
  /\ actual = 0
  /\ stored = << >>

-----------------------------------------------------------------------------
(* MmapChunkAddressMapper and IndexOnMmaps *)

SizeOf(c) == IF c.ends = << >> THEN 0 ELSE c.ends[Len(c.ends)]

GlobalEnd(c) == c.start + SizeOf(c)

NewChunk(start) == [start |-> start, ends |-> << >>]

(* append_relative_end; its two errors are never met by this caller *)
AppendEnd(c, e) == [c EXCEPT !.ends = Append(@, e)]

InactiveLen == IF chunks = << >> THEN 0 ELSE GlobalEnd(chunks[Len(chunks)])

TheEnd == IF active.len = 0 THEN InactiveLen ELSE GlobalEnd(active.bounds)

(* IndexOnMmaps::append: an empty chunk is left out, and one that does not  *)
(* begin where the index ends is an error                                  *)
Follows(c) == SizeOf(c) = 0 \/ c.start = InactiveLen
WithChunk(cs, c) == IF SizeOf(c) = 0 THEN cs ELSE Append(cs, c)

Covers(c, a) == c.start <= a /\ a < GlobalEnd(c)

(* mutant: the bytes are taken from the beginning of the chunk *)
ChunkFindAtStart(c, a) ==
  [offset |-> 0,
   len |-> c.ends[CHOOSE i \in 1..Len(c.ends) : c.ends[i] > a - c.start]]

(* MmapChunkAddressMapper::find on an address the chunk covers: from there *)
(* to the next bound, the first one that is greater                        *)
ChunkFind(c, a) ==
  LET rel == a - c.start
      next == CHOOSE i \in 1..Len(c.ends) :
                c.ends[i] > rel /\ \A j \in 1..i - 1 : c.ends[j] <= rel
  IN [offset |-> rel, len |-> c.ends[next] - rel]

-----------------------------------------------------------------------------
(* IndexOnMmaps::find: the chunk whose key the binary search meets is the   *)
(* one that covers the address                                             *)
FindMap(a) == CHOOSE n \in 1..Len(chunks) : Covers(chunks[n], a)

(* GrowableMmap::get_ref_and_apply: the slice given to the reader *)

Window(p, offset, len) ==
  [i \in 1..len |-> mem[p.object][p.at + offset + i - 1]]

ReadSlice(a) ==
  IF a < InactiveLen
  THEN LET n == FindMap(a)
           d == ChunkFind(chunks[n], a)
       IN Window(maps[n], d.offset, d.len)
  ELSE IF active.len > 0 /\ Covers(active.bounds, a)
  THEN LET d == ChunkFind(active.bounds, a)
       IN Window(active.map, d.offset, d.len)
  ELSE << >>

-----------------------------------------------------------------------------
(* GrowableMmap::new and Appender::new on the first n bytes of the file *)
New(n) ==
  /\ ~open
  /\ n <= fileLen
  /\ open' = TRUE
  /\ IF n > 0
     THEN /\ chunks' = WithChunk(<< >>, AppendEnd(NewChunk(0), n))
          /\ maps' = <<[object |-> 0, at |-> 0, len |-> n]>>
     ELSE chunks' = << >> /\ maps' = << >>
  /\ active' = NoActive
  /\ write' = NoWrite
  /\ actual' = n
  /\ stored' = [i \in 1..n |-> mem[0][i - 1]]
  /\ UNCHANGED <<mem, fileLen, objects>>

(* File::set_len: a longer file is filled with zeros *)
Resize(n) ==
  /\ fileLen' = n
  /\ mem' = [mem EXCEPT ![0] = [a \in Address |->
               IF a < n /\ a < fileLen THEN mem[0][a] ELSE Zero]]

(* create_mmap: the file is extended and a part of it mapped, or an        *)
(* anonymous map is made                                                   *)
NewMap(size, offset) ==
  IF Persistent
  THEN [object |-> 0, at |-> offset, len |-> size]
  ELSE [object |-> objects + 1, at |-> 0, len |-> size]

CreateMmap(size, offset) ==
  IF Persistent
  THEN /\ offset + size <= Cap
       /\ Resize(offset + size)
       /\ UNCHANGED objects
  ELSE /\ offset + size <= Cap
       /\ objects' = objects + 1
       /\ UNCHANGED <<mem, fileLen>>

ActiveOn(size, start, ext) ==
  [len |-> size, map |-> NewMap(size, start),
   bounds |-> AppendEnd(NewChunk(start), ext)]

Locked(from, ext) == [stage |-> "apply", from |-> from, ext |-> ext]

-----------------------------------------------------------------------------
(* grow_and_apply up to the call of f, one action per branch.  Appender is *)
(* used by one thread at a time (write_lock of Database).                  *)

Idle == open /\ write.stage = "none"

(* mutant: a map may be filled to its last byte *)
FitsExactly(ext) == SizeOf(active.bounds) + ext <= active.len

Fits(ext) == SizeOf(active.bounds) + ext < active.len

GrowFirst(ext) ==
  LET size == NewMmapSize(ext, Min) IN
  /\ Idle
  /\ active.len = 0
  /\ CreateMmap(size, InactiveLen)
  /\ active' = ActiveOn(size, InactiveLen, ext)
  /\ write' = Locked(0, ext)
  /\ UNCHANGED <<open, chunks, maps, actual, stored>>

GrowInPlace(ext) ==
  LET end == SizeOf(active.bounds) IN
  /\ Idle
  /\ active.len > 0
  /\ Fits(ext)
  /\ active' = [active EXCEPT !.bounds = AppendEnd(@, end + ext)]
  /\ write' = Locked(end, ext)
  /\ UNCHANGED <<mem, fileLen, objects, open, chunks, maps, actual, stored>>

(* mutant: the whole map is kept *)
RetiredUncut == active.map

(* the map that is replaced is cut where its data ends *)
Retired == [active.map EXCEPT !.len = SizeOf(active.bounds)]

GrowNext(ext) ==
  LET size == NewMmapSize(ext, Min)
      start == GlobalEnd(active.bounds)
  IN
  /\ Idle
  /\ active.len > 0
  /\ ~Fits(ext)
  /\ CreateMmap(size, start)
  /\ chunks' = WithChunk(chunks, active.bounds)
  /\ maps' = Append(maps, Retired)
  /\ active' = ActiveOn(size, start, ext)
  /\ write' = Locked(0, ext)
  /\ UNCHANGED <<open, actual, stored>>

(* create_mmap returns an error, before or after its set_len *)
CreateFails(ext) ==
  LET size == NewMmapSize(ext, Min) IN
  /\ Idle
  /\ active.len = 0 \/ ~Fits(ext)
  /\ \/ UNCHANGED <<mem, fileLen>>
     \/ Persistent /\ TheEnd + size <= Cap /\ Resize(TheEnd + size)
  /\ UNCHANGED <<objects, open, chunks, maps, active, write, actual, stored>>

(* f writes the data at start_write_from *)
Apply(tag) ==
  LET first == active.map.at + write.from
      new == [i \in 1..write.ext |-> <<tag, Len(stored) + i - 1>>]
  IN
  /\ write.stage = "apply"
  /\ write' = [write EXCEPT !.stage = "flush"]
  /\ mem' = [mem EXCEPT ![active.map.object] =
               [a \in Address |->
                  IF first <= a /\ a < first + write.ext
                  THEN new[a - first + 1]
                  ELSE mem[active.map.object][a]]]
  /\ stored' = stored \o new
  /\ UNCHANGED <<fileLen, objects, open, chunks, maps, active, actual>>

(* rearrange_mmaps: one map of the file for all the inactive ones *)
Merge ==
  /\ chunks' = WithChunk(<< >>, AppendEnd(NewChunk(0), InactiveLen))
  /\ maps' = <<[object |-> 0, at |-> 0, len |-> InactiveLen]>>

(* mutant: one map more than allowed is kept *)
FinishLate ==
  /\ write.stage = "flush"
  /\ IF Persistent /\ Len(maps) > MaxMaps + 1
     THEN Merge
     ELSE UNCHANGED <<chunks, maps>>
  /\ actual' = actual + write.ext
  /\ write' = NoWrite
  /\ UNCHANGED <<mem, fileLen, objects, open, active, stored>>

(* flush, rearrange_mmaps, and the store of actual_size *)
Finish ==
  /\ write.stage = "flush"
  /\ IF Persistent /\ Len(maps) > MaxMaps
     THEN Merge
     ELSE UNCHANGED <<chunks, maps>>
  /\ actual' = actual + write.ext
  /\ write' = NoWrite
  /\ UNCHANGED <<mem, fileLen, objects, open, active, stored>>

Forget ==
  /\ open' = FALSE
  /\ chunks' = << >> /\ maps' = << >>
  /\ active' = NoActive /\ write' = NoWrite
  /\ actual' = 0
  /\ stored' = << >>
  /\ UNCHANGED objects

(* shrink_to_size, and the handle is dropped *)
Shrink ==
  /\ Persistent
  /\ Idle
  /\ Resize(TheEnd)
  /\ Forget

(* the process dies *)
Crash ==
  /\ Persistent
  /\ open
  /\ Forget
  /\ UNCHANGED <<mem, fileLen>>

Next ==
  \/ \E n \in 0..fileLen : New(n)
  \/ \E ext \in Exts : GrowFirst(ext) \/ GrowInPlace(ext) \/ GrowNext(ext)
                         \/ CreateFails(ext)
  \/ \E tag \in Tags : Apply(tag)
  \/ Finish
  \/ Shrink \/ Crash

Spec == Init /\ [][Next]_vars

-----------------------------------------------------------------------------
(* make_read_only of the replaced map fails: its bounds are in the index   *)
(* already, its map is not in the list                                     *)
ProtectFails(ext) ==
  LET size == NewMmapSize(ext, Min)
      start == GlobalEnd(active.bounds)
  IN
  /\ Idle
  /\ active.len > 0
  /\ ~Fits(ext)
  /\ CreateMmap(size, start)
  /\ chunks' = WithChunk(chunks, active.bounds)
  /\ active' = ActiveOn(size, start, ext)
  /\ UNCHANGED <<open, maps, write, actual, stored>>

ProtectSpec == Init /\ [][Next \/ \E ext \in Exts : ProtectFails(ext)]_vars

-----------------------------------------------------------------------------
(* Properties *)

(* Every variable keeps its type, and the index never refuses the chunk of *)
(* the active map when that is replaced.                                   *)
TypeOK ==
  /\ \A o \in DOMAIN mem : \A a \in Address : mem[o][a] \in Byte
  /\ fileLen \in 0..Cap /\ objects \in 0..Cap
  /\ open \in BOOLEAN
  /\ \A i \in 1..Len(chunks) : chunks[i] \in Chunk
  /\ \A i \in 1..Len(maps) : maps[i] \in Map
  /\ active.len \in Nat /\ active.map \in Map /\ active.bounds \in Chunk
  /\ active.len > 0 => Follows(active.bounds)
  /\ write \in [stage : {"none", "apply", "flush"}, from : Nat, ext : Nat]
  /\ actual \in Nat

(* A read at any address below the actual size is given the bytes that     *)
(* were appended there, at least one and no byte more than was appended:   *)
(* in whichever map they are by now, however often the active map was      *)
(* replaced and the inactive ones merged.                                  *)
ReadsWhatWasStored ==
  /\ TypeOK
  /\ Idle =>
       \A a \in 0..actual - 1 :
         LET s == ReadSlice(a) IN
         /\ Len(s) > 0
         /\ a + Len(s) <= Len(stored)
         /\ s = SubSeq(stored, a + 1, a + Len(s))

(* "If inactive_mmaps has more than MAX_MMAPS_COUNT mmaps we remap the     *)
(* existing data and create a single mmap for that data" (README): between *)
(* two appends there are never more.                                       *)
MapsAreFew == write.stage = "none" => Len(maps) <= MaxMaps

(* "Represents raw data bounds: number of mmap, offset in particular mmap, *)
(* data length" (IndexDescriptor): the map whose number the index gives    *)
(* for an address is there and as long as the index says.                  *)
IndexDescribesMaps ==
  \A n \in 1..Len(chunks) :
    n <= Len(maps) /\ maps[n].len = SizeOf(chunks[n])

-----------------------------------------------------------------------------
(* What this file looks like as a store *)

EndsOf(c) == {c.start + c.ends[i] : i \in 1..Len(c.ends)}

CellAt(a) ==
  IF Persistent THEN mem[0][a]
  ELSE IF a < InactiveLen
       THEN LET n == FindMap(a)
            IN mem[maps[n].object][maps[n].at + a - chunks[n].start]
  ELSE IF a < active.bounds.start + active.len
       THEN mem[active.map.object][active.map.at + a - active.bounds.start]
  ELSE Zero

View ==
  [len |-> IF Persistent THEN fileLen ELSE active.bounds.start + active.len,
   cell |-> [a \in Address |-> CellAt(a)],
   end |-> TheEnd,
   bounds |-> (UNION {EndsOf(chunks[i]) : i \in 1..Len(chunks)})
                \cup EndsOf(active.bounds),
   maps |-> Len(maps),
   mapStart |-> active.bounds.start,
   mapLen |-> active.len,
   size |-> actual]

AsStore == INSTANCE StoreSpec WITH
             m <- View, Bytes <- Tags \X Address

(* The lists of maps and bounds, with their searches, are a store: every   *)
(* step of the file is one of the steps Fraos is built from.               *)
ImplementsStore == AsStore!StoreLife
=============================================================================
