----------------------------- MODULE MmapStore -----------------------------
(***************************************************************************)
(* One growable, memory-mapped file of fraos, as its clients see it: what  *)
(* GrowableMmap and Appender do to the file, to the end of the appended    *)
(* data and to the boundaries at which a read slice stops.  The vectors of *)
(* maps and bounds behind it are the subject of GrowableMmap, which        *)
(* implements the store specified here.                                    *)
(*                                                                         *)
(* A store is a record                                                     *)
(*   len       length of the file                                          *)
(*   cell      its content, one value per address; the addresses at and    *)
(*             after len hold whatever a mapping longer than the file holds *)
(*   end       end of the appended data (the global end of the bounds)     *)
(*   bounds    the addresses where one appended range ends                 *)
(*   maps      number of inactive maps                                     *)
(*   mapStart, mapLen   the active map; mapLen = 0 is active_map = None    *)
(*   size      Appender::actual_size                                       *)
(*                                                                         *)
(* The unit of the address is chosen by the user of the module: a byte for *)
(* the data file, a (offset, length) pair for the seqno file.              *)
(***************************************************************************)
EXTENDS Integers, FiniteSets

CONSTANTS
  MaxMaps,    \* MAX_MMAPS_COUNT
  Persistent  \* TRUE: backed by a file; FALSE: Database::memory

ASSUME StoreAssumption == MaxMaps \in Nat \ {0} /\ Persistent \in BOOLEAN

Store(Address, Cell) ==
  [len : Nat, cell : [Address -> Cell], end : Nat, bounds : SUBSET Nat,
   maps : Nat, mapStart : Nat, mapLen : Nat, size : Nat]

(* a file that was just created: no content, nothing mapped *)
EmptyStore(Address, zero) ==
  [len |-> 0, cell |-> [a \in Address |-> zero], end |-> 0, bounds |-> {},
   maps |-> 0, mapStart |-> 0, mapLen |-> 0, size |-> 0]

-----------------------------------------------------------------------------
(* File::set_len: a longer file is filled with zeros, a shorter one drops  *)
(* its tail; what a mapping held outside of the file is gone either way.   *)
SetLen(m, n, zero) ==
  [m EXCEPT !.len = n,
            !.cell = [a \in DOMAIN m.cell |->
                        IF a < n /\ a < m.len THEN m.cell[a] ELSE zero]]

(* GrowableMmap::new and Appender::new on the first n cells of the file *)
Attach(m, n) ==
  [m EXCEPT !.end = n, !.bounds = IF n > 0 THEN {n} ELSE {},
            !.maps = IF n > 0 THEN 1 ELSE 0,
            !.mapStart = 0, !.mapLen = 0, !.size = n]

(* the process is gone or the handle is dropped: only the file is left *)
Detach(m) ==
  [m EXCEPT !.end = 0, !.bounds = {}, !.maps = 0,
            !.mapStart = 0, !.mapLen = 0, !.size = 0]

ShrinkToSize(m, zero) == SetLen(m, m.end, zero)

-----------------------------------------------------------------------------
(* grow_and_apply: the active map is used when it is strictly larger than  *)
(* what it would hold, otherwise a new one is created at the end.          *)
HasRoom(m, ext) == m.end + ext < m.mapStart + m.mapLen

NewMmapSize(ext, min) == IF Persistent /\ min > ext THEN min ELSE ext

(* create_mmap, its set_len *)
Extend(m, ext, min, zero) == SetLen(m, m.end + NewMmapSize(ext, min), zero)

(* append_relative_end of the active map *)
AppendBound(m, e) == m.bounds \cup {e}

Grow(m, ext, min, zero) ==
  IF HasRoom(m, ext)
  THEN [m EXCEPT !.end = m.end + ext, !.bounds = AppendBound(m, m.end + ext)]
  ELSE [Extend(m, ext, min, zero) EXCEPT
          !.end = m.end + ext,
          !.bounds = AppendBound(m, m.end + ext),
          !.maps = IF m.mapLen = 0 THEN m.maps ELSE m.maps + 1,
          !.mapStart = m.end,
          !.mapLen = NewMmapSize(ext, min)]

(* mutant: the end is taken from the merged map, without the active one *)
RearrangeForgetsActive(m) ==
  IF Persistent /\ m.maps > MaxMaps
  THEN [m EXCEPT !.maps = 1, !.end = m.mapStart]
  ELSE m

(* rearrange_mmaps: too many inactive maps of a file become a single one *)
RearrangeMmaps(m) ==
  IF Persistent /\ m.maps > MaxMaps
  THEN [m EXCEPT !.maps = 1, !.bounds = {b \in m.bounds : b >= m.mapStart}]
  ELSE m

-----------------------------------------------------------------------------
(* get_ref_and_apply: a read at an address before the end is given the     *)
(* cells up to the next bound, and it succeeds when the n cells it wants   *)
(* are among them.                                                         *)
Mapped(m, a) == a < m.end

InOneSlice(m, a, n) ==
  /\ a + n <= m.end
  /\ \A b \in m.bounds : b <= a \/ a + n <= b
=============================================================================
