----------------------------- MODULE FraosCopy -----------------------------
(***************************************************************************)
(* "A user should be able to copy the storage data (for example, over the  *)
(* network) while still being able to use the database for both reads and  *)
(* writes" (README of fraos).  The user's program reads the seqno file     *)
(* first, one pair after the other, and the data file after it: in the     *)
(* other order the pairs would name bytes that are not in the copy.        *)
(***************************************************************************)
EXTENDS Fraos

VARIABLE copy  \* the files copied so far

copyVars == <<vars, copy>>

NoCopy ==
  [stage |-> "none", at |-> 0,
   pairs |-> [s \in IndexAddress |-> NoPair],
   len |-> 0, bytes |-> [a \in DataAddress |-> NoByte]]

CopyInit == Init /\ copy = NoCopy

(* the next pair of the seqno file; its end is where read returns 0 *)
CopyPair ==
  /\ copy.stage = "none"
  /\ copy.at < index.len
  /\ copy' = [copy EXCEPT !.pairs[copy.at] = index.cell[copy.at],
                          !.at = copy.at + 1]
  /\ UNCHANGED vars

EndOfIndex ==
  /\ copy.stage = "none"
  /\ copy.at >= index.len
  /\ copy' = [copy EXCEPT !.stage = "data"]
  /\ UNCHANGED vars

CopyData ==
  /\ copy.stage = "data"
  /\ copy' = [copy EXCEPT !.stage = "done", !.len = data.len,
                          !.bytes = data.cell]
  /\ UNCHANGED vars

UseDatabase == Next /\ UNCHANGED copy

CopySpec ==
  CopyInit /\ [][UseDatabase \/ CopyPair \/ EndOfIndex \/ CopyData]_copyVars

-----------------------------------------------------------------------------
CopyHolds(p, r) ==
  /\ p.length = RecLen[r]
  /\ p.offset + p.length <= copy.len
  /\ \A a \in DataAddress :
       p.offset <= a /\ a < p.offset + p.length =>
         copy.bytes[a] = <<r, a - p.offset>>

(* The copy is a database: its complete pairs come first, which is what    *)
(* find_actual_end expects of a seqno file, and each of them has its       *)
(* record in the copied data file.                                         *)
CopyIsUsable ==
  copy.stage = "done" =>
    \A s \in IndexAddress :
      copy.pairs[s].length > 0 =>
        /\ \A t \in 0..s : copy.pairs[t].length > 0
        /\ s < Len(log)
        /\ CopyHolds(copy.pairs[s], log[s + 1])
=============================================================================
