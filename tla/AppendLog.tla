----------------------------- MODULE AppendLog -----------------------------
(***************************************************************************)
(* What an append-only database promises: records are put one after the    *)
(* other at consecutive sequence numbers, none of them is ever changed,    *)
(* moved or taken back, and a sequence number is given to a client only    *)
(* for the record that is stored under it.                                 *)
(***************************************************************************)
EXTENDS Naturals, Sequences

CONSTANT Records

VARIABLES
  log,    \* the records stored, in the order of insertion
  acked   \* the pairs <<sequence number, record>> reported to clients

logVars == <<log, acked>>

LogInit == log = << >> /\ acked = {}

Put(r) == log' = Append(log, r) /\ UNCHANGED acked

Acknowledge(i, j) ==
  /\ acked' = acked \cup {<<s, log[s + 1]>> : s \in i..j}
  /\ UNCHANGED log

LogNext ==
  \/ \E r \in Records : Put(r)
  \/ \E i, j \in 0..Len(log) - 1 : i <= j /\ Acknowledge(i, j)

LogSpec == LogInit /\ [][LogNext]_logVars
=============================================================================
