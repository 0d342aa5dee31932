---------------------------- MODULE FraosFaults ----------------------------
(***************************************************************************)
(* Steps that Fraos leaves out because it does not survive them: a clone   *)
(* of the database is dropped while another is in use, and a flush fails   *)
(* after the bounds of the file were moved.  Each has a specification of   *)
(* its own, so that a counterexample has one cause; both break             *)
(* AckedIsStored.                                                          *)
(***************************************************************************)
EXTENDS Fraos

-----------------------------------------------------------------------------
(* Database is Clone, and the Drop of every clone shrinks the two files    *)
(* the others have mapped.  The maps stay as they are; up to the end of    *)
(* the last page the kernel accepts what is written behind the end of the  *)
(* file and forgets it (behind that page the process is killed).  The      *)
(* comment on Database says: "Can be safely cloned and used from different *)
(* threads."                                                               *)
DropClone ==
  /\ Persistent
  /\ db = "open"
  /\ ~DataBusy /\ ~IndexBusy
  /\ index' = ShrinkToSize(index, NoPair)
  /\ data' = ShrinkToSize(data, NoByte)
  /\ UNCHANGED <<db, search, lock, pc, job, rd, log, acked>>

CloneSpec == Init /\ [][Next \/ DropClone]_vars

-----------------------------------------------------------------------------
(* the flush of the data file or the remapping of its inactive maps fails: *)
(* append_relative_end has moved the end of the file, actual_size is not   *)
(* stored.  The README says: "changes are dumped to the disk at the moment *)
(* of insertion or the insertion is failed".                               *)
FlushDataFails(w) ==
  /\ pc[w] = "data"
  /\ job[w].k > Len(job[w].batch)
  /\ Release(w)
  /\ UNCHANGED <<data, index, db, search, rd, log, acked>>

(* the same in the seqno file; the pairs are complete *)
FlushIndexFails(w) ==
  /\ pc[w] = "offset"
  /\ job[w].k > Len(job[w].batch)
  /\ Release(w)
  /\ UNCHANGED <<data, index, db, search, rd, log, acked>>

FlushSpec ==
  Init /\ [][Next \/ \E w \in Writers : FlushDataFails(w) \/ FlushIndexFails(w)]_vars

=============================================================================
