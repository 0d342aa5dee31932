----------------------------- MODULE StoreSpec -----------------------------
(***************************************************************************)
(* The life of one store of MmapStore: the steps Fraos puts together to    *)
(* make its own.  GrowableMmap is shown to take no other.                  *)
(***************************************************************************)
EXTENDS MmapStore

CONSTANTS
  Address,  \* the addresses of the file
  Bytes,    \* what the owner of the file writes to it
  Zero,     \* a byte of the file nobody wrote
  Exts,     \* numbers of bytes an append may add
  Min       \* MIN_MMAP_BYTES

VARIABLE m

StoreInit == m = EmptyStore(Address, Zero)

(* a write goes to the addresses between what was published and the end *)
Write ==
  /\ m' = [m EXCEPT !.cell = m'.cell]
  /\ \A a \in Address :
       \/ m'.cell[a] = m.cell[a]
       \/ m.size <= a /\ a < m.end /\ m'.cell[a] \in Bytes

StoreNext ==
  \/ \E n \in 0..m.len : m' = Attach(m, n)
  \/ \E ext \in Exts : m' = Grow(m, ext, Min, Zero)
  \/ \E ext \in Exts : m' = Extend(m, ext, Min, Zero)
  \/ Write
  \/ m' = [RearrangeMmaps(m) EXCEPT !.size = m.end]
  \/ m' = Detach(ShrinkToSize(m, Zero))
  \/ m' = Detach(m)

StoreLife == StoreInit /\ [][StoreNext]_m
=============================================================================
