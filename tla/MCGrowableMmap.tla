-------------------------- MODULE MCGrowableMmap --------------------------
(* Small instances of GrowableMmap for TLC: appends of one and two bytes,  *)
(* and one that is larger than the smallest map.                           *)
EXTENDS GrowableMmap, TLC

McExts == {1, 2, 4}
=============================================================================
