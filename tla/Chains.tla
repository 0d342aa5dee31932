------------------------------- MODULE Chains -------------------------------
(***************************************************************************)
(* Chains of blocks: every block has a parent with a smaller number, down  *)
(* to Start, which stands for the block that nobody pulls.                 *)
(***************************************************************************)
EXTENDS Naturals

CONSTANTS Blocks, Parent, Number, Start

(* the blocks 0, 1, 2... steps below b, down to Start *)
Below(b) ==
  LET down[n \in 0..Number[b]] == IF n = 0 THEN b ELSE Parent[down[n - 1]]
  IN [n \in 0..Number[b] - Number[Start] |-> down[n]]

(* the chain that ends in b *)
Chain(b) == {Below(b)[n] : n \in DOMAIN Below(b)}

(* the blocks of a chain above one of them, lowest first *)
RangeOf(low, high) ==
  LET n == Number[high] - Number[low]
  IN [i \in 1..n |-> Below(high)[n - i]]

(* the points of a set that are on the chain, and the highest of them *)
Known(points, tip) == points \cap Chain(tip)

BestKnown(points, tip) ==
  {p \in Known(points, tip) :
     \A q \in Known(points, tip) : Number[q] <= Number[p]}
=============================================================================
