---------------------------- MODULE SourcesProofs ----------------------------
(***************************************************************************)
(* Proofs about the two sources for any blocks, depth and bounds.          *)
(***************************************************************************)
EXTENDS SourceProcess, ForestProofs, SequenceTheorems

-----------------------------------------------------------------------------
(* Chains.  Place is a block or the start of all chains.                   *)
Places == Blocks \cup {Start}

(* No block is below the start.                                            *)
LEMMA NumberFacts ==
  /\ Start \in Places /\ Start \notin Blocks /\ Number[Start] \in Nat
  /\ \A b \in Places : Number[b] \in Nat /\ Number[Start] <= Number[b]
  /\ \A b \in Blocks : /\ Number[Start] < Number[b]
                       /\ Parent[b] \in Places
                       /\ Number[b] = Number[Parent[b]] + 1
<1>1. \A b \in Blocks : /\ Number[b] \in Nat
                        /\ Parent[b] \in Places
                        /\ Number[b] = Number[Parent[b]] + 1
  BY SourcesAssumption, BlockForestAssumption DEF Places
<1>2. Number[Start] \in Nat /\ Start \notin Blocks
  BY SourcesAssumption
<1>3. ASSUME NEW c \in Blocks
      PROVE  Number[Start] < Number[c]
  <2> DEFINE S == {k \in 0..Number[c] :
                     \A b \in Blocks : Number[b] <= k
                                         => Number[Start] < Number[b]}
  <2>1. 0 \in S
    <3>1. ASSUME NEW b \in Blocks, Number[b] <= 0
          PROVE  FALSE
      <4>1. Number[b] = Number[Parent[b]] + 1 /\ Number[b] = 0
        BY <1>1, <3>1
      <4>2. Number[Parent[b]] \in Nat
        BY <1>1, <1>2 DEF Places
      <4>3. QED
        BY <4>1, <4>2
    <3>2. QED
      BY <1>1, <3>1
  <2>2. ASSUME NEW k \in 0..Number[c] - 1, k \in S
        PROVE  k + 1 \in S
    <3>1. ASSUME NEW b \in Blocks, Number[b] <= k + 1
          PROVE  Number[Start] < Number[b]
      <4>1. Number[b] = Number[Parent[b]] + 1 /\ Parent[b] \in Places
        BY <1>1
      <4>2. CASE Parent[b] = Start
        BY <1>2, <4>1, <4>2
      <4>3. CASE Parent[b] \in Blocks
        <5>1. Number[Parent[b]] \in Nat
          BY <1>1, <4>3
        <5>2. Number[Parent[b]] <= k
          BY <3>1, <4>1, <5>1
        <5>3. Number[Start] < Number[Parent[b]]
          BY <2>2, <4>3, <5>2
        <5>4. QED
          BY <1>2, <4>1, <5>1, <5>3
      <4>4. QED
        BY <4>1, <4>2, <4>3 DEF Places
    <3>2. k + 1 \in 0..Number[c]
      BY <1>1
    <3>3. QED
      BY <3>1, <3>2
  <2>3. Number[c] \in Nat
    BY <1>1
  <2>. HIDE DEF S
  <2>4. \A k \in 0..Number[c] : k \in S
    BY <2>1, <2>2, <2>3, Induct
  <2>5. Number[c] \in S
    BY <2>3, <2>4
  <2>6. QED
    BY <2>3, <2>5 DEF S
<1>4. QED
  BY <1>1, <1>2, <1>3 DEF Places

IsDescent(b, d, down) ==
  down = [n \in 0..d |-> IF n = 0 THEN b ELSE Parent[down[n - 1]]]

(* The recursion of Below has a solution.                                  *)
LEMMA DescentExists ==
  ASSUME NEW b, NEW d \in Nat
  PROVE  \E down : IsDescent(b, d, down)
<1> DEFINE S == {n \in 0..d : \E g : IsDescent(b, n, g)}
<1>1. 0 \in S
  <2> DEFINE g == [n \in 0..0 |-> b]
  <2>1. IsDescent(b, 0, g)
    BY DEF IsDescent
  <2>2. QED
    BY <2>1
<1>2. ASSUME NEW n \in 0..d - 1, n \in S
      PROVE  n + 1 \in S
  <2>1. PICK g : IsDescent(b, n, g)
    BY <1>2
  <2> DEFINE h == [k \in 0..n + 1 |-> IF k = n + 1 THEN Parent[g[n]] ELSE g[k]]
  <2>2. ASSUME NEW k \in 0..n + 1
        PROVE  h[k] = IF k = 0 THEN b ELSE Parent[h[k - 1]]
    <3>1. CASE k = n + 1
      <4>1. k # 0 /\ k - 1 = n /\ n \in 0..n + 1 /\ n # n + 1
        BY <3>1
      <4>2. h[n] = g[n]
        BY <4>1
      <4>3. h[k] = Parent[g[n]]
        BY <3>1
      <4>. HIDE DEF h
      <4>4. QED
        BY <4>1, <4>2, <4>3
    <3>2. CASE k # n + 1
      <4>1. k \in 0..n
        BY <3>2
      <4>2. h[k] = g[k]
        BY <3>2
      <4>3. g[k] = IF k = 0 THEN b ELSE Parent[g[k - 1]]
        BY <2>1, <4>1, Zenon DEF IsDescent
      <4>4. k # 0 => h[k - 1] = g[k - 1]
        BY <4>1
      <4>. HIDE DEF h
      <4>5. QED
        BY <4>2, <4>3, <4>4
    <3>3. QED
      BY <3>1, <3>2
  <2>3. h = [k \in 0..n + 1 |-> h[k]]
    OBVIOUS
  <2>. HIDE DEF h
  <2>4. IsDescent(b, n + 1, h)
    BY <2>2, <2>3, Zenon DEF IsDescent
  <2>5. QED
    BY <2>4
<1>. HIDE DEF S
<1>3. \A n \in 0..d : n \in S
  BY <1>1, <1>2, Induct
<1>4. d \in S
  BY <1>3
<1>5. QED
  BY <1>4 DEF S

(* How far it is down to the start.                                        *)
Above(b) == Number[b] - Number[Start]

(* Below goes from parent to parent, one number less at a time, and ends   *)
(* in the start.                                                           *)
LEMMA BelowSteps ==
  ASSUME NEW b \in Places
  PROVE  /\ Above(b) \in Nat /\ DOMAIN Below(b) = 0..Above(b)
         /\ Below(b)[0] = b
         /\ \A n \in 0..Above(b) - 1 : Below(b)[n + 1] = Parent[Below(b)[n]]
<1> DEFINE d == Number[b]
           g == CHOOSE down : IsDescent(b, d, down)
<1>1. d \in Nat /\ Number[Start] \in Nat /\ Number[Start] <= d
  BY NumberFacts
<1>2. IsDescent(b, d, g)
  BY <1>1, DescentExists, Zenon
<1>3. Below(b) = [n \in 0..d - Number[Start] |-> g[n]]
  BY Zenon DEF Below, IsDescent
<1>. HIDE DEF g, d
<1>4. \A n \in 0..d : g[n] = IF n = 0 THEN b ELSE Parent[g[n - 1]]
  BY <1>2, Zenon DEF IsDescent
<1>5. Above(b) \in Nat /\ Above(b) = d - Number[Start] /\ Above(b) <= d
  BY <1>1 DEF Above, d
<1>6. DOMAIN Below(b) = 0..Above(b)
  BY <1>3, <1>5
<1>7. Below(b)[0] = b
  BY <1>1, <1>3, <1>4, <1>5
<1>8. ASSUME NEW n \in 0..Above(b) - 1
      PROVE  Below(b)[n + 1] = Parent[Below(b)[n]]
  <2>1. n \in 0..Above(b) /\ n + 1 \in 0..Above(b) /\ n + 1 \in 0..d
        /\ n + 1 # 0 /\ (n + 1) - 1 = n
    BY <1>1, <1>5
  <2>2. Below(b)[n] = g[n] /\ Below(b)[n + 1] = g[n + 1]
    BY <1>3, <1>5, <2>1
  <2>3. g[n + 1] = Parent[g[n]]
    BY <1>4, <2>1
  <2>4. QED
    BY <2>2, <2>3
<1>9. QED
  BY <1>5, <1>6, <1>7, <1>8

(* On the way down every place has its number.                            *)
LEMMA BelowIn ==
  ASSUME NEW b \in Places
  PROVE  /\ \A n \in 0..Above(b) : /\ Below(b)[n] \in Places
                                   /\ Number[Below(b)[n]] = Number[b] - n
         /\ \A n \in 0..Above(b) - 1 : Below(b)[n] \in Blocks
         /\ Below(b)[Above(b)] = Start
<1> DEFINE D == Above(b)
           S == {n \in 0..D : /\ Below(b)[n] \in Places
                              /\ Number[Below(b)[n]] = Number[b] - n}
<1>1. /\ D \in Nat /\ Below(b)[0] = b
      /\ \A n \in 0..D - 1 : Below(b)[n + 1] = Parent[Below(b)[n]]
  BY BelowSteps
<1>2. Number[b] \in Nat /\ Number[Start] \in Nat
      /\ D = Number[b] - Number[Start]
  BY NumberFacts DEF Above
<1>. HIDE DEF D
<1>3. 0 \in S
  BY <1>1, <1>2
<1>4. ASSUME NEW x \in Places, NEW n \in 0..D - 1, Number[x] = Number[b] - n
      PROVE  x \in Blocks
  <2>1. Number[x] # Number[Start]
    BY <1>1, <1>2, <1>4
  <2>2. QED
    BY <2>1 DEF Places
<1>5. ASSUME NEW n \in 0..D - 1, n \in S
      PROVE  n + 1 \in S
  <2> DEFINE x == Below(b)[n]
  <2>1. x \in Places /\ Number[x] = Number[b] - n
    BY <1>5
  <2>2. Below(b)[n + 1] = Parent[x] /\ n + 1 \in 0..D
    BY <1>1
  <2>. HIDE DEF x
  <2>3. x \in Blocks
    BY <1>4, <2>1
  <2>4. Parent[x] \in Places /\ Number[x] = Number[Parent[x]] + 1
    BY <2>3, NumberFacts
  <2>5. Number[Parent[x]] \in Nat
    BY <2>4, NumberFacts
  <2>6. Number[Parent[x]] = Number[b] - (n + 1)
    BY <1>1, <1>2, <2>1, <2>4, <2>5
  <2>7. QED
    BY <2>2, <2>4, <2>6
<1>. HIDE DEF S
<1>6. \A n \in 0..D : n \in S
  BY <1>1, <1>3, <1>5, Induct
<1>7. \A n \in 0..D : /\ Below(b)[n] \in Places
                      /\ Number[Below(b)[n]] = Number[b] - n
  BY <1>6 DEF S
<1>8. ASSUME NEW n \in 0..D - 1
      PROVE  Below(b)[n] \in Blocks
  <2>1. n \in 0..D
    BY <1>1
  <2>2. QED
    BY <1>4, <1>7, <2>1
<1>9. Below(b)[D] = Start
  <2>1. D \in 0..D
    BY <1>1
  <2>2. Number[Below(b)[D]] = Number[Start] /\ Below(b)[D] \in Places
    BY <1>2, <1>7, <2>1
  <2>3. Below(b)[D] \notin Blocks
    BY <1>2, <2>2, NumberFacts
  <2>4. QED
    BY <2>2, <2>3 DEF Places
<1>10. QED
  BY <1>7, <1>8, <1>9 DEF D

(* A chain consists of places, has one of each number, and goes from its   *)
(* tip to the start.                                                       *)
LEMMA ChainFacts ==
  ASSUME NEW b \in Places
  PROVE  /\ Chain(b) \subseteq Places /\ b \in Chain(b) /\ Start \in Chain(b)
         /\ \A n \in 0..Above(b) : Below(b)[n] \in Chain(b)
         /\ \A x \in Chain(b) :
              /\ Number[x] \in Nat /\ Number[b] \in Nat
              /\ Number[x] <= Number[b]
              /\ Number[b] - Number[x] \in 0..Above(b)
              /\ Below(b)[Number[b] - Number[x]] = x
<1>1. Above(b) \in Nat /\ DOMAIN Below(b) = 0..Above(b) /\ Below(b)[0] = b
  BY BelowSteps
<1>2. Number[b] \in Nat /\ Number[Start] \in Nat
  BY NumberFacts
<1>3. Chain(b) = {Below(b)[n] : n \in 0..Above(b)}
  BY <1>1 DEF Chain
<1>4. ASSUME NEW x \in Chain(b)
      PROVE  /\ x \in Places
             /\ Number[x] \in Nat /\ Number[x] <= Number[b]
             /\ Number[b] - Number[x] \in 0..Above(b)
             /\ Below(b)[Number[b] - Number[x]] = x
  <2>1. PICK n \in 0..Above(b) : x = Below(b)[n]
    BY <1>3
  <2>2. x \in Places /\ Number[x] = Number[b] - n
    BY <2>1, BelowIn
  <2>3. Number[x] \in Nat
    BY <2>2, NumberFacts
  <2>4. Number[b] - Number[x] = n /\ Number[x] <= Number[b]
    BY <1>1, <1>2, <2>2, <2>3
  <2>5. QED
    BY <2>1, <2>2, <2>3, <2>4
<1>5. b \in Chain(b)
  <2>1. 0 \in 0..Above(b)
    BY <1>1
  <2>2. QED
    BY <1>1, <1>3, <2>1
<1>6. Start \in Chain(b)
  <2>1. Above(b) \in 0..Above(b) /\ Below(b)[Above(b)] = Start
    BY <1>1, BelowIn
  <2>2. QED
    BY <1>3, <2>1
<1>7. QED
  BY <1>2, <1>3, <1>4, <1>5, <1>6

(* Two places of one number on one chain are the same.                     *)
LEMMA ChainUnique ==
  ASSUME NEW b \in Places, NEW x \in Chain(b), NEW y \in Chain(b),
         Number[x] = Number[y]
  PROVE  x = y
<1>1. Below(b)[Number[b] - Number[x]] = x
  BY ChainFacts
<1>2. Below(b)[Number[b] - Number[y]] = y
  BY ChainFacts
<1>3. QED
  BY <1>1, <1>2

(* What is below a place of a chain is the rest of that chain.             *)
LEMMA BelowBelow ==
  ASSUME NEW b \in Places, NEW k \in 0..Above(b)
  PROVE  /\ Below(b)[k] \in Places /\ Above(Below(b)[k]) = Above(b) - k
         /\ \A n \in 0..Above(b) - k : Below(Below(b)[k])[n] = Below(b)[k + n]
<1> DEFINE y == Below(b)[k]
           E == Above(b) - k
           S == {n \in 0..E : Below(y)[n] = Below(b)[k + n]}
<1>1. y \in Places /\ Number[y] = Number[b] - k
  BY BelowIn
<1>2. /\ Above(b) \in Nat
      /\ \A n \in 0..Above(b) - 1 : Below(b)[n + 1] = Parent[Below(b)[n]]
  BY BelowSteps
<1>3. Number[b] \in Nat /\ Number[Start] \in Nat
  BY NumberFacts
<1>4. E \in Nat /\ Above(y) = E
  BY <1>1, <1>2, <1>3 DEF Above
<1>5. Below(y)[0] = y /\ \A n \in 0..E - 1 : Below(y)[n + 1] = Parent[Below(y)[n]]
  BY <1>1, <1>4, BelowSteps
<1>6. 0 \in S
  <2>1. k + 0 = k /\ 0 \in 0..E
    BY <1>4
  <2>2. QED
    BY <1>5, <2>1
<1>7. ASSUME NEW n \in 0..E - 1, n \in S
      PROVE  n + 1 \in S
  <2>1. k + n \in 0..Above(b) - 1 /\ k + (n + 1) = (k + n) + 1
        /\ n + 1 \in 0..E
    BY <1>2, <1>4
  <2>2. Below(b)[(k + n) + 1] = Parent[Below(b)[k + n]]
    BY <1>2, <2>1
  <2>3. Below(y)[n + 1] = Parent[Below(y)[n]]
    BY <1>5
  <2>4. Below(y)[n] = Below(b)[k + n]
    BY <1>7
  <2>. HIDE DEF y, E
  <2>5. QED
    BY <2>1, <2>2, <2>3, <2>4
<1>. HIDE DEF S, y
<1>8. \A n \in 0..E : n \in S
  BY <1>4, <1>6, <1>7, Induct
<1>9. QED
  BY <1>1, <1>4, <1>8 DEF S, y

(* The chain of a place of a chain is the part of it that is as low.       *)
LEMMA ChainOrder ==
  ASSUME NEW b \in Places, NEW y \in Chain(b)
  PROVE  /\ y \in Places /\ Chain(y) \subseteq Chain(b)
         /\ \A x \in Chain(b) : Number[x] <= Number[y] => x \in Chain(y)
<1> DEFINE k == Number[b] - Number[y]
<1>1. k \in 0..Above(b) /\ Below(b)[k] = y /\ Number[y] <= Number[b]
      /\ Number[b] \in Nat /\ Number[y] \in Nat /\ y \in Places
  BY ChainFacts
<1>2. Above(y) = Above(b) - k /\ Above(b) \in Nat
      /\ \A n \in 0..Above(b) - k : Below(y)[n] = Below(b)[k + n]
  BY <1>1, BelowBelow, BelowSteps, SMTT(40)
<1>3. ASSUME NEW x \in Chain(y)
      PROVE  x \in Chain(b)
  <2> DEFINE n == Number[y] - Number[x]
  <2>1. n \in 0..Above(y) /\ Below(y)[n] = x
    BY <1>1, ChainFacts
  <2>. HIDE DEF n, k
  <2>2. k + n \in 0..Above(b) /\ Below(b)[k + n] = x
    BY <1>1, <1>2, <2>1
  <2>3. QED
    BY <2>2, ChainFacts
<1>4. ASSUME NEW x \in Chain(b), Number[x] <= Number[y]
      PROVE  x \in Chain(y)
  <2> DEFINE n == Number[y] - Number[x]
  <2>1. Number[b] - Number[x] \in 0..Above(b) /\ Number[x] \in Nat
        /\ Below(b)[Number[b] - Number[x]] = x
    BY ChainFacts
  <2>2. n \in 0..Above(b) - k /\ k + n = Number[b] - Number[x]
    BY <1>1, <1>2, <1>4, <2>1
  <2>3. Below(y)[n] = x
    BY <1>2, <2>1, <2>2
  <2>4. n \in 0..Above(y)
    BY <1>2, <2>2
  <2>5. QED
    BY <1>1, <2>3, <2>4, ChainFacts
<1>5. QED
  BY <1>1, <1>3, <1>4

(* The chain of a block is the block on top of its parent's chain.         *)
LEMMA ChainOfParent ==
  ASSUME NEW b \in Blocks
  PROVE  /\ b \in Places /\ Parent[b] \in Places
         /\ Parent[b] \in Chain(b) /\ Chain(b) = Chain(Parent[b]) \cup {b}
         /\ b \notin Chain(Parent[b])
<1>1. /\ b \in Places /\ Number[Start] < Number[b] /\ Number[b] \in Nat
      /\ Number[Start] \in Nat /\ Parent[b] \in Places
      /\ Number[b] = Number[Parent[b]] + 1 /\ Number[Parent[b]] \in Nat
  BY NumberFacts DEF Places
<1>2. 0 \in 0..Above(b) - 1 /\ 1 \in 0..Above(b) /\ 0 + 1 = 1
  BY <1>1 DEF Above
<1>3. Below(b)[1] = Parent[b]
  BY <1>1, <1>2, BelowSteps
<1>4. Parent[b] \in Chain(b)
  BY <1>1, <1>2, <1>3, ChainFacts
<1>5. Chain(Parent[b]) \subseteq Chain(b) /\ b \in Chain(b)
  BY <1>1, <1>4, ChainOrder, ChainFacts
<1>6. ASSUME NEW x \in Chain(b), x # b
      PROVE  x \in Chain(Parent[b])
  <2>1. Number[x] <= Number[b] /\ Number[x] \in Nat
    BY <1>1, ChainFacts
  <2>2. Number[x] # Number[b]
    BY <1>1, <1>5, <1>6, ChainUnique
  <2>3. Number[x] <= Number[Parent[b]]
    BY <1>1, <2>1, <2>2
  <2>4. QED
    BY <1>1, <1>4, <2>3, ChainOrder
<1>7. b \notin Chain(Parent[b])
  <2>1. \A x \in Chain(Parent[b]) : Number[x] <= Number[Parent[b]]
    BY <1>1, ChainFacts
  <2>2. QED
    BY <1>1, <2>1
<1>8. QED
  BY <1>1, <1>4, <1>5, <1>6, <1>7

(* Nothing but the start is below the start.                               *)
LEMMA ChainOfStart == Chain(Start) = {Start}
<1>1. Start \in Places
  BY NumberFacts
<1>2. ASSUME NEW x \in Chain(Start)
      PROVE  x = Start
  <2>1. x \in Places /\ Number[x] <= Number[Start]
    BY <1>1, ChainFacts
  <2>2. Number[x] \in Nat /\ Number[Start] \in Nat
    BY <2>1, NumberFacts
  <2>3. QED
    BY <2>1, <2>2, NumberFacts DEF Places
<1>3. QED
  BY <1>1, <1>2, ChainFacts

(* The blocks between two places of a chain come one on top of the other:  *)
(* the first is above the lower place, and the others are those above it.  *)
LEMMA RangeFacts ==
  ASSUME NEW high \in Places, NEW low \in Chain(high), NEW s,
         s = RangeOf(low, high)
  PROVE  /\ s \in Seq(Blocks) /\ ToSet(s) \subseteq Chain(high)
         /\ \A b \in ToSet(s) : Number[low] < Number[b]
         /\ s # << >> =>
              /\ Head(s) \in Blocks /\ Head(s) \in Chain(high)
              /\ Head(s) \in ToSet(s) /\ Parent[Head(s)] = low
              /\ Tail(s) = RangeOf(Head(s), high)
              /\ Tail(s) # << >> => high \in Blocks
              /\ ToSet(Tail(s)) \subseteq ToSet(s)
<1> DEFINE n == Number[high] - Number[low]
<1>1. n \in 0..Above(high) /\ n \in Nat /\ low \in Places
      /\ Number[high] \in Nat /\ Number[low] \in Nat
      /\ Above(high) \in Nat /\ Below(high)[n] = low
      /\ Number[Start] \in Nat /\ Number[Start] <= Number[low]
  BY ChainFacts, BelowSteps, NumberFacts
<1>2. s = [i \in 1..n |-> Below(high)[n - i]]
  BY DEF RangeOf
<1>. HIDE DEF n
<1>3. ASSUME NEW i \in 1..n
      PROVE  /\ s[i] \in Blocks /\ s[i] \in Chain(high)
             /\ Number[s[i]] = Number[low] + i
  <2>1. n - i \in 0..Above(high) - 1 /\ n - i \in 0..Above(high)
    BY <1>1
  <2>2. s[i] = Below(high)[n - i]
    BY <1>2
  <2>3. s[i] \in Blocks /\ Number[s[i]] = Number[high] - (n - i)
    BY <2>1, <2>2, BelowIn
  <2>4. s[i] \in Chain(high)
    BY <2>1, <2>2, ChainFacts
  <2>5. QED
    BY <1>1, <2>3, <2>4 DEF n
<1>4. s \in Seq(Blocks) /\ Len(s) = n
  BY <1>1, <1>2, <1>3, SMTT(40)
<1>5. ToSet(s) = {s[i] : i \in 1..n}
  BY <1>2 DEF ToSet
<1>6. \A b \in ToSet(s) : b \in Chain(high) /\ Number[low] < Number[b]
  BY <1>1, <1>3, <1>5
<1>7. ASSUME s # << >>
      PROVE  /\ Head(s) \in Blocks /\ Head(s) \in Chain(high)
             /\ Head(s) \in ToSet(s) /\ Parent[Head(s)] = low
             /\ Tail(s) = RangeOf(Head(s), high)
             /\ high \in Blocks
             /\ ToSet(Tail(s)) \subseteq ToSet(s)
  <2>1. n >= 1 /\ 1 \in 1..n
    BY <1>1, <1>4, <1>7
  <2>2. Head(s) = s[1] /\ Head(s) \in Blocks /\ Head(s) \in Chain(high)
        /\ Number[Head(s)] = Number[low] + 1
    BY <1>3, <1>4, <2>1
  <2>3. Head(s) \in ToSet(s)
    BY <1>5, <2>1, <2>2
  <2>4. Parent[Head(s)] = low
    <3>1. n - 1 \in 0..Above(high) - 1 /\ (n - 1) + 1 = n
      BY <1>1, <2>1
    <3>2. Below(high)[n] = Parent[Below(high)[n - 1]]
      BY <3>1, BelowSteps
    <3>3. s[1] = Below(high)[n - 1]
      BY <1>2, <2>1
    <3>4. QED
      BY <1>1, <2>2, <3>2, <3>3
  <2>5. Tail(s) = RangeOf(Head(s), high)
    <3>1. Number[high] - Number[Head(s)] = n - 1
      BY <1>1, <2>2 DEF n
    <3>2. RangeOf(Head(s), high) = [i \in 1..n - 1 |-> Below(high)[(n - 1) - i]]
      BY <3>1 DEF RangeOf
    <3>3. Tail(s) = [i \in 1..n - 1 |-> s[i + 1]]
      <4>1. /\ Tail(s) \in Seq(Blocks) /\ Len(Tail(s)) = n - 1
            /\ \A i \in 1..n - 1 : Tail(s)[i] = s[i + 1]
        BY <1>4, <2>1
      <4>2. Tail(s) \in [1..n - 1 -> Blocks]
        BY <4>1, LenProperties
      <4>. HIDE DEF n
      <4>3. QED
        BY <4>1, <4>2, Zenon
    <3>4. ASSUME NEW i \in 1..n - 1
          PROVE  s[i + 1] = Below(high)[(n - 1) - i]
      <4>1. i + 1 \in 1..n /\ n - (i + 1) = (n - 1) - i
        BY <1>1, <2>1
      <4>2. s[i + 1] = Below(high)[n - (i + 1)]
        BY <1>2, <4>1
      <4>3. QED
        BY <4>1, <4>2
    <3>5. [i \in 1..n - 1 |-> s[i + 1]]
            = [i \in 1..n - 1 |-> Below(high)[(n - 1) - i]]
      BY <3>4
    <3>6. QED
      BY <3>2, <3>3, <3>5
  <2>6. high \in Blocks
    <3>1. high # Start
      BY <2>2, ChainOfStart, NumberFacts
    <3>2. QED
      BY <3>1 DEF Places
  <2>7. ToSet(Tail(s)) \subseteq ToSet(s)
    <3>1. Tail(s) \in Seq(Blocks) /\ Len(Tail(s)) = n - 1
          /\ \A i \in 1..n - 1 : Tail(s)[i] = s[i + 1]
      BY <1>4, <2>1
    <3>2. DOMAIN Tail(s) = 1..n - 1
      BY <3>1
    <3>3. ToSet(Tail(s)) = {Tail(s)[i] : i \in 1..n - 1}
      BY <3>2 DEF ToSet
    <3>4. \A i \in 1..n - 1 : i + 1 \in 1..n
      BY <1>1, <2>1
    <3>5. QED
      BY <1>5, <3>1, <3>3, <3>4
  <2>8. QED
    BY <2>2, <2>3, <2>4, <2>5, <2>6, <2>7
<1>8. QED
  BY <1>4, <1>6, <1>7

-----------------------------------------------------------------------------
(* The collection after an insertion, one block after the other.           *)
Gathered(selected, start, order, s, iter) ==
  IF s = {} THEN start
  ELSE CollectOne(selected, iter[s \ {Max(s)}], order[Max(s)])

IsGather(selected, start, order, n, iter) ==
  iter = [s \in SUBSET (1..n) |-> Gathered(selected, start, order, s, iter)]

(* The recursion of the fold has a solution.                               *)
LEMMA GatherExists ==
  ASSUME NEW selected, NEW start, NEW order, NEW L \in Nat
  PROVE  \E iter : IsGather(selected, start, order, L, iter)
<1> DEFINE S == {n \in 0..L : \E g : IsGather(selected, start, order, n, g)}
<1>1. L \in Nat
  OBVIOUS
<1>2. 0 \in S
  <2>1. IsGather(selected, start, order, 0, [s \in SUBSET (1..0) |-> start])
    <3>1. ASSUME NEW s \in SUBSET (1..0)
          PROVE  s = {}
      OBVIOUS
    <3>2. QED
      BY <3>1 DEF IsGather, Gathered
  <2>2. QED
    BY <1>1, <2>1
<1>3. ASSUME NEW n \in 0..L - 1, n \in S
      PROVE  n + 1 \in S
  <2>1. PICK g : IsGather(selected, start, order, n, g)
    BY <1>3
  <2> DEFINE h == [s \in SUBSET (1..n + 1) |->
                     IF n + 1 \in s
                     THEN CollectOne(selected, g[s \ {n + 1}], order[n + 1])
                     ELSE g[s]]
  <2>2. ASSUME NEW s \in SUBSET (1..n + 1)
        PROVE  h[s] = Gathered(selected, start, order, s, h)
    <3>1. CASE n + 1 \in s
      <4>1. Max(s) = n + 1
        <5>1. s \in SUBSET Nat /\ \A y \in s : n + 1 >= y
          BY <1>1
        <5>2. QED
          BY <3>1, <5>1, MaxIs
      <4>2. s \ {n + 1} \in SUBSET (1..n + 1) /\ n + 1 \notin s \ {n + 1}
        OBVIOUS
      <4>3. h[s \ {n + 1}] = g[s \ {n + 1}]
        BY <4>2
      <4>4. h[s] = CollectOne(selected, g[s \ {n + 1}], order[n + 1])
        BY <3>1
      <4>5. s # {}
        BY <3>1
      <4>. HIDE DEF h
      <4>6. QED
        BY <4>1, <4>3, <4>4, <4>5 DEF Gathered
    <3>2. CASE n + 1 \notin s
      <4>1. s \in SUBSET (1..n)
        BY <1>1, <3>2
      <4>2. h[s] = g[s]
        BY <3>2
      <4>3. g[s] = Gathered(selected, start, order, s, g)
        BY <2>1, <4>1, Zenon DEF IsGather
      <4>4. h[s \ {Max(s)}] = g[s \ {Max(s)}]
        BY <3>2
      <4>. HIDE DEF h
      <4>5. Gathered(selected, start, order, s, g)
              = Gathered(selected, start, order, s, h)
        BY <4>4 DEF Gathered
      <4>6. QED
        BY <4>2, <4>3, <4>5
    <3>3. QED
      BY <3>1, <3>2
  <2>3. h = [s \in SUBSET (1..n + 1) |-> h[s]]
    OBVIOUS
  <2>. HIDE DEF h
  <2>4. IsGather(selected, start, order, n + 1, h)
    BY <2>2, <2>3 DEF IsGather
  <2>5. n + 1 \in 0..L
    BY <1>1
  <2>6. QED
    BY <2>4, <2>5
<1>. HIDE DEF S
<1>4. \A n \in 0..L : n \in S
  BY <1>1, <1>2, <1>3, Induct
<1>5. L \in S
  BY <1>1, <1>4
<1>6. QED
  BY <1>5 DEF S

(* What is discarded is removed one block after the other, in the order.   *)
LEMMA GatherSteps ==
  ASSUME NEW selected, NEW start, NEW order, NEW L \in Nat,
         DOMAIN order = 1..L
  PROVE  \E at :
           /\ at[0] = start
           /\ \A n \in 0..L - 1 :
                at[n + 1] = CollectOne(selected, at[n], order[n + 1])
           /\ at[L] = CollectAll(selected, start, order)
<1> DEFINE iter == CHOOSE g : IsGather(selected, start, order, L, g)
           at == [n \in 0..L |-> iter[1..n]]
           Final == CollectAll(selected, start, order)
<1>1. L \in Nat /\ DOMAIN order = 1..L
  OBVIOUS
<1>2. IsGather(selected, start, order, L, iter)
  BY GatherExists, Zenon
<1>3. Final = iter[1..L]
  <2>1. Final = (CHOOSE g : g = [s \in SUBSET (DOMAIN order) |->
                              Gathered(selected, start, order, s, g)])
                [DOMAIN order]
    BY Zenon DEF CollectAll, FoldLeft, MapThenFoldSet, Gathered
  <2>2. QED
    BY <1>1, <2>1, Zenon DEF IsGather
<1>. HIDE DEF iter, Final
<1>4. \A s \in SUBSET (1..L) : iter[s] = Gathered(selected, start, order, s, iter)
  BY <1>2, Zenon DEF IsGather
<1>5. at[0] = start
  <2>1. 1..0 = {} /\ {} \in SUBSET (1..L)
    OBVIOUS
  <2>2. iter[{}] = start
    BY <1>4, <2>1, Zenon DEF Gathered
  <2>3. QED
    BY <1>1, <2>1, <2>2
<1>6. ASSUME NEW n \in 0..L - 1
      PROVE  at[n + 1] = CollectOne(selected, at[n], order[n + 1])
  <2>1. n \in 0..L /\ n + 1 \in 0..L
    BY <1>1
  <2>2. (1..n + 1) \in SUBSET (1..L) /\ 1..n + 1 # {}
    <3>1. n + 1 \in 1..n + 1 /\ n \in Nat /\ n + 1 <= L
      BY <1>1
    <3>2. \A y \in 1..n + 1 : y \in 1..L
      BY <1>1, <3>1
    <3>3. QED
      BY <3>1, <3>2
  <2>3. Max(1..n + 1) = n + 1
    <3>1. 1..n + 1 \in SUBSET Nat /\ n + 1 \in 1..n + 1
      BY <1>1
    <3>2. \A y \in 1..n + 1 : n + 1 >= y
      BY <1>1
    <3>3. QED
      BY <3>1, <3>2, MaxIs
  <2>4. (1..n + 1) \ {n + 1} = 1..n
    <3>1. n \in Nat
      BY <1>1
    <3>2. \A x : x \in (1..n + 1) \ {n + 1} <=> x \in 1..n
      BY <3>1
    <3>3. QED
      BY <3>2, Zenon
  <2>5. iter[1..n + 1] = Gathered(selected, start, order, 1..n + 1, iter)
    BY <1>4, <2>2
  <2>6. iter[1..n + 1] = CollectOne(selected, iter[1..n], order[n + 1])
    BY <2>2, <2>3, <2>4, <2>5 DEF Gathered
  <2>7. QED
    BY <2>1, <2>6
<1>7. at[L] = Final
  BY <1>1, <1>3
<1>. HIDE DEF at
<1>8. QED
  BY <1>5, <1>6, <1>7 DEF Final

(* The references and the links of two forests are the same, as far as the *)
(* blocks of the smaller one go.                                           *)
SameEntries(m, M) ==
  \A c \in DOMAIN M.all : /\ M.all[c].ref = m.all[c].ref
                          /\ M.all[c].parent = m.all[c].parent

(* An enumeration of a finite set without repetitions meets every element. *)
LEMMA SeqsAreOnto ==
  ASSUME NEW D, IsFiniteSet(D), NEW order \in SetToSeqs(D)
  PROVE  /\ Cardinality(D) \in Nat
         /\ order \in [1..Cardinality(D) -> D]
         /\ \A i, j \in 1..Cardinality(D) : i # j => order[i] # order[j]
         /\ \A x \in D : \E i \in 1..Cardinality(D) : order[i] = x
<1> DEFINE L == Cardinality(D)
<1>1. L \in Nat
  BY FS_CardinalityType
<1>2. order \in [1..L -> D] /\ \A i, j \in 1..L : i # j => order[i] # order[j]
  BY DEF SetToSeqs
<1>3. IsFiniteSet(1..L) /\ Cardinality(1..L) = L
  <2>1. 1 \in Int /\ L \in Int
    BY <1>1
  <2>2. Cardinality(1..L) = IF 1 > L THEN 0 ELSE L - 1 + 1
    BY <2>1, FS_Interval
  <2>3. QED
    BY <1>1, <2>1, <2>2, FS_Interval
<1>. HIDE DEF L
<1>4. order \in Injection(1..L, D)
  BY <1>2 DEF Injection, IsInjective
<1>5. order \in Surjection(1..L, D)
  BY <1>3, <1>4, FS_Injection DEF L
<1>6. \A x \in D : \E i \in 1..L : order[i] = x
  BY <1>5 DEF Surjection
<1>7. QED
  BY <1>1, <1>2, <1>6 DEF L

(* Whatever the order, the collection removes what was discarded, leaves   *)
(* the other entries as they are, and fails no assertion.                  *)
LEMMA CollectedIs ==
  ASSUME NEW m, Forest(m), NEW selected, selected \subseteq Refs(m),
         NEW refs, refs \subseteq Refs(m),
         NEW M \in Collected(m, selected, refs)
  PROVE  /\ Forest(M) /\ SameEntries(m, M)
         /\ DOMAIN M.all = DOMAIN m.all \ Names(refs)
<1> DEFINE D == Names(refs)
           L == Cardinality(D)
           start == [mem |-> m, refs |-> refs]
<1>1. PICK order \in SetToSeqs(D) :
        M = CollectAll(selected, start, order).mem
  BY Zenon DEF Collected
<1>2. /\ \A r \in Refs(m) : r[1] \in DOMAIN m.all /\ m.all[r[1]].ref = r
      /\ D \subseteq DOMAIN m.all /\ DOMAIN m.all \subseteq Blocks
  BY RefNames DEF Forest, Entries, Names
<1>3. IsFiniteSet(D)
  BY <1>2, KeyOrderFacts, FS_Subset
<1>4. /\ L \in Nat /\ order \in [1..L -> D]
      /\ \A i, j \in 1..L : i # j => order[i] # order[j]
      /\ \A x \in D : \E i \in 1..L : order[i] = x
  BY <1>3, SeqsAreOnto
<1>. HIDE DEF L, D, start
<1>5. PICK at :
        /\ at[0] = start
        /\ \A n \in 0..L - 1 :
             at[n + 1] = CollectOne(selected, at[n], order[n + 1])
        /\ M = at[L].mem
  <2>1. DOMAIN order = 1..L
    BY <1>4
  <2>2. PICK at : /\ at[0] = start
                  /\ \A n \in 0..L - 1 :
                       at[n + 1] = CollectOne(selected, at[n], order[n + 1])
                  /\ at[L] = CollectAll(selected, start, order)
    BY <1>4, <2>1, GatherSteps
  <2>3. QED
    BY <1>1, <2>2
<1> DEFINE Taken(n) == {order[i] : i \in 1..n}
           Right(n) == /\ Forest(at[n].mem) /\ SameEntries(m, at[n].mem)
                       /\ at[n].refs \subseteq refs
                       /\ DOMAIN at[n].mem.all = DOMAIN m.all \ Taken(n)
           S == {n \in 0..L : Right(n)}
<1>6. 0 \in S
  <2>1. at[0].mem = m /\ at[0].refs = refs /\ Taken(0) = {}
    BY <1>5 DEF start
  <2>2. QED
    BY <1>4, <2>1 DEF SameEntries
<1>7. ASSUME NEW n \in 0..L - 1, n \in S
      PROVE  n + 1 \in S
  <2> DEFINE a == at[n].mem
             b == order[n + 1]
             held == selected \cup at[n].refs
  <2>1. /\ Forest(a) /\ SameEntries(m, a) /\ at[n].refs \subseteq refs
        /\ DOMAIN a.all = DOMAIN m.all \ Taken(n)
    BY <1>7
  <2>2. n + 1 \in 1..L /\ n \in Nat /\ n + 1 \in 0..L
    BY <1>4
  <2>3. b \in DOMAIN a.all
    <3>1. b \in DOMAIN m.all
      BY <1>2, <1>4, <2>2
    <3>2. \A i \in 1..n : i \in 1..L /\ i # n + 1
      BY <1>4, <2>2
    <3>3. b \notin Taken(n)
      BY <1>4, <2>2, <3>2
    <3>4. QED
      BY <2>1, <3>1, <3>3
  <2>4. \A r \in held : Has(a, r[1]) => a.all[r[1]].ref = r
    <3>1. \A r \in held : r \in Refs(m)
      BY <2>1
    <3>2. QED
      BY <1>2, <2>1, <3>1 DEF SameEntries, Has
  <2>5. at[n + 1].mem = RemoveFrom(a, held, b)
        /\ at[n + 1].refs = Without(at[n].refs, b)
    <3>1. at[n + 1] = CollectOne(selected, at[n], order[n + 1])
      BY <1>5
    <3>2. at[n + 1] = [mem |-> RemoveFrom(a, held, b),
                       refs |-> Without(at[n].refs, b)]
      BY <3>1, Zenon DEF CollectOne
    <3>. HIDE DEF a, b, held
    <3>3. QED
      BY <3>2
  <2>. HIDE DEF Taken
  <2>6. /\ Forest(at[n + 1].mem)
        /\ DOMAIN at[n + 1].mem.all = DOMAIN a.all \ {b}
        /\ SameEntries(a, at[n + 1].mem)
    <3>. HIDE DEF a, held, b
    <3>1. LET N == RemoveFrom(a, held, b)
          IN  /\ Forest(N)
              /\ DOMAIN N.all = DOMAIN a.all \ {b}
              /\ \A c \in DOMAIN N.all : /\ N.all[c].ref = a.all[c].ref
                                         /\ N.all[c].parent = a.all[c].parent
      BY <2>1, <2>3, <2>4, RemoveKeepsForest
    <3>2. QED
      BY <2>5, <3>1 DEF SameEntries
  <2>7. SameEntries(m, at[n + 1].mem)
    BY <2>1, <2>6 DEF SameEntries
  <2>8. Taken(n + 1) = Taken(n) \cup {b}
    <3>1. \A i : i \in 1..n + 1 <=> i \in 1..n \/ i = n + 1
      BY <2>2
    <3>2. QED
      BY <3>1 DEF Taken
  <2>9. at[n + 1].refs \subseteq refs
    BY <2>1, <2>5 DEF Without
  <2>10. DOMAIN at[n + 1].mem.all = DOMAIN m.all \ Taken(n + 1)
    BY <2>1, <2>6, <2>8
  <2>. HIDE DEF a, b
  <2>11. QED
    BY <2>2, <2>6, <2>7, <2>9, <2>10
<1>. HIDE DEF S
<1>8. \A n \in 0..L : n \in S
  BY <1>4, <1>6, <1>7, Induct
<1>9. Right(L)
  <2>1. L \in S
    BY <1>4, <1>8
  <2>2. QED
    BY <2>1 DEF S
<1>10. Taken(L) = D
  BY <1>4
<1>11. QED
  BY <1>5, <1>9, <1>10 DEF D

-----------------------------------------------------------------------------
(* Selection.  Memory is linked if every block is below its parent as soon *)
(* as the parent is there.                                                 *)
Linked(m) ==
  \A b \in DOMAIN m.all :
    Has(m, Parent[b]) => m.all[b].parent = m.all[Parent[b]].ref

(* From a number on, the parent of every block is there.                   *)
CompleteFrom(S, f) ==
  \A b \in S : f <= Number[b] => Parent[b] \in S \cup {Start}

(* If memory is complete from a number on, it has every block of the chain *)
(* of one of its blocks down to the parent of the block of that number.    *)
LEMMA ChainIsHeld ==
  ASSUME NEW S \in SUBSET Blocks, NEW f \in Nat, CompleteFrom(S, f),
         NEW t \in S, NEW x \in Chain(t), x # Start, f <= Number[x] + 1
  PROVE  x \in S
<1> DEFINE d == Number[t] - Number[x]
           T == {n \in 0..d : Below(t)[n] \in S}
<1>1. /\ t \in Places /\ d \in 0..Above(t) /\ Below(t)[d] = x /\ d \in Nat
      /\ Number[x] \in Nat /\ Number[t] \in Nat
      /\ x \in Places /\ Number[Start] < Number[x] /\ Number[Start] \in Nat
      /\ Above(t) \in Nat
  <2>1. t \in Places
    BY DEF Places
  <2>2. x \in Places /\ x \in Blocks
    BY <2>1, ChainFacts DEF Places
  <2>3. QED
    BY <2>1, <2>2, ChainFacts, NumberFacts, BelowSteps
<1>2. 0 \in T
  BY <1>1, BelowSteps
<1>3. ASSUME NEW n \in 0..d - 1, n \in T
      PROVE  n + 1 \in T
  <2> DEFINE y == Below(t)[n]
  <2>1. y \in S /\ n \in 0..Above(t) - 1 /\ n + 1 \in 0..Above(t)
        /\ n \in 0..Above(t) /\ n + 1 \in 0..d
    BY <1>1, <1>3
  <2>2. Below(t)[n + 1] = Parent[y] /\ Number[y] = Number[t] - n
        /\ Number[Below(t)[n + 1]] = Number[t] - (n + 1)
    BY <1>1, <2>1, BelowSteps, BelowIn
  <2>. HIDE DEF y
  <2>3. f <= Number[y] /\ Number[Parent[y]] >= Number[x]
    BY <1>1, <2>1, <2>2
  <2>4. Parent[y] # Start
    BY <1>1, <2>3
  <2>5. Parent[y] \in S
    BY <2>1, <2>3, <2>4 DEF CompleteFrom
  <2>6. QED
    BY <2>1, <2>2, <2>5
<1>4. \A n \in 0..d : n \in T
  <2>1. d \in Nat
    BY <1>1
  <2>. HIDE DEF T, d
  <2>2. QED
    BY <1>2, <1>3, <2>1, Induct
<1>5. d \in T
  BY <1>1, <1>4
<1>6. QED
  BY <1>1, <1>5

(* Along a way of links the numbers fall by one.                           *)
LEMMA WayNumbers ==
  ASSUME NEW m, Forest(m), NEW d \in Nat, NEW p, Way(m, p, d)
  PROVE  \A n \in 0..d : /\ p[n][1] \in DOMAIN m.all
                         /\ Number[p[n][1]] = Number[p[0][1]] - n
<1> DEFINE S == {n \in 0..d : Number[p[n][1]] = Number[p[0][1]] - n}
<1>1. ASSUME NEW n \in 0..d
      PROVE  p[n] \in Refs(m) /\ p[n][1] \in DOMAIN m.all
             /\ p[n][1] \in Blocks /\ Number[p[n][1]] \in Nat
             /\ p[n] # Nowhere
  <2>1. p[n] \in Refs(m)
    BY DEF Way
  <2>2. p[n][1] \in DOMAIN m.all /\ p[n] \in Ref
    BY <2>1, RefNames DEF Forest
  <2>3. p[n][1] \in Blocks
    BY <2>2 DEF Forest, Entries
  <2>4. QED
    BY <2>1, <2>2, <2>3, BlockForestAssumption, NowhereIsNoRef
<1>2. 0 \in S
  <2>1. 0 \in 0..d
    OBVIOUS
  <2>2. Number[p[0][1]] \in Nat
    BY <1>1, <2>1
  <2>3. QED
    BY <2>1, <2>2
<1>3. ASSUME NEW n \in 0..d - 1, n \in S
      PROVE  n + 1 \in S
  <2>1. n \in 0..d /\ n + 1 \in 0..d /\ 0 \in 0..d
    OBVIOUS
  <2>2. m.all[p[n][1]].parent = p[n + 1]
    BY DEF Way
  <2>3. p[n][1] \in DOMAIN m.all /\ p[n + 1] # Nowhere /\ p[n][1] \in Blocks
    BY <1>1, <2>1
  <2>4. p[n + 1][1] = Parent[p[n][1]]
    BY <2>2, <2>3 DEF Forest, Entries
  <2>5. Number[p[n][1]] = Number[p[n + 1][1]] + 1
    BY <2>3, <2>4, NumberFacts
  <2>6. Number[p[n][1]] = Number[p[0][1]] - n
    BY <1>3
  <2>7. Number[p[n + 1][1]] \in Nat /\ Number[p[0][1]] \in Nat
    BY <1>1, <2>1
  <2>8. Number[p[n + 1][1]] = Number[p[0][1]] - (n + 1)
    BY <2>5, <2>6, <2>7
  <2>9. QED
    BY <2>1, <2>8
<1>. HIDE DEF S
<1>4. \A n \in 0..d : n \in S
  BY <1>2, <1>3, Induct
<1>5. QED
  BY <1>1, <1>4 DEF S

(* Where memory holds the chain of a block, ancestor goes down the chain.  *)
LEMMA AncestorOnChain ==
  ASSUME NEW m, Forest(m), Linked(m), NEW t \in DOMAIN m.all,
         NEW d \in 0..Above(t),
         \A n \in 0..d : Below(t)[n] \in DOMAIN m.all
  PROVE  Ancestor(m, {}, m.all[t].ref, d) = {m.all[Below(t)[d]].ref}
<1> DEFINE p == [n \in 0..d |-> m.all[Below(t)[n]].ref]
<1>1. t \in Places /\ DOMAIN m.all \subseteq Blocks
  BY DEF Forest, Entries, Places
<1>2. Above(t) \in Nat /\ Below(t)[0] = t
      /\ \A n \in 0..Above(t) - 1 : Below(t)[n + 1] = Parent[Below(t)[n]]
  BY <1>1, BelowSteps
<1>3. d \in Nat /\ 0 \in 0..d /\ d \in 0..d
  BY <1>2
<1>4. Way(m, p, d)
  <2>1. \A n \in 0..d : p[n] \in Refs(m)
    BY DEF Refs
  <2>2. ASSUME NEW n \in 0..d - 1
        PROVE  m.all[p[n][1]].parent = p[n + 1]
    <3>1. n \in 0..d /\ n + 1 \in 0..d /\ n \in 0..Above(t) - 1
      BY <1>2, <1>3
    <3>2. p[n] = m.all[Below(t)[n]].ref
          /\ p[n + 1] = m.all[Parent[Below(t)[n]]].ref
      BY <1>2, <3>1
    <3>3. Below(t)[n] \in DOMAIN m.all /\ Parent[Below(t)[n]] \in DOMAIN m.all
      BY <1>2, <3>1
    <3>4. p[n][1] = Below(t)[n]
      BY <3>2, <3>3 DEF Forest, Entries
    <3>5. QED
      BY <3>2, <3>3, <3>4 DEF Linked, Has
  <2>3. p \in [0..d -> Refs(m)]
    BY <2>1
  <2>4. QED
    BY <2>2, <2>3 DEF Way
<1>5. p[0] = m.all[t].ref /\ p[d] = m.all[Below(t)[d]].ref
  BY <1>2, <1>3
<1>. HIDE DEF p
<1>6. Ancestor(m, {}, p[0], d) = {p[d]}
  <2>1. d \in Nat
    BY <1>3
  <2>2. ASSUME NEW refs
        PROVE  \A n \in 0..d : Ancestor(m, refs, p[0], n) = {p[n]}
    BY <1>4, <2>1, AncestorOnWay
  <2>3. QED
    BY <1>3, <2>2
<1>7. QED
  BY <1>5, <1>6

(* A tip that is selected from is an entry that no other exceeds.          *)
LEMMA BestTipIs ==
  ASSUME NEW m, Forest(m), NEW tip \in BestTips(m)
  PROVE  /\ tip \in Refs(m) /\ tip[1] \in DOMAIN m.all /\ tip[1] \in Blocks
         /\ m.all[tip[1]].ref = tip
         /\ \A b \in DOMAIN m.all : Number[b] <= Number[tip[1]]
<1>1. m.ordered = Refs(m)
  BY DEF Forest, Tables
<1>2. tip \in Refs(m) /\ \A s \in Refs(m) : Number[s[1]] <= Number[tip[1]]
  BY <1>1 DEF BestTips, Highest
<1>3. tip[1] \in DOMAIN m.all /\ m.all[tip[1]].ref = tip
  BY <1>2, RefNames DEF Forest
<1>4. ASSUME NEW b \in DOMAIN m.all
      PROVE  Number[b] <= Number[tip[1]]
  <2>1. m.all[b].ref \in Refs(m) /\ m.all[b].ref[1] = b
    BY DEF Refs, Forest, Entries
  <2>2. QED
    BY <1>2, <2>1
<1>5. QED
  BY <1>2, <1>3, <1>4 DEF Forest, Entries

(* The block from which on memory is complete: the confirmed one, or the   *)
(* start of all chains.                                                    *)
BaseOf(c) == IF c = NoBlock THEN Start ELSE c

(* Memory holds the Depth blocks above the base, one below it at most, and *)
(* a chain of that height above the confirmed block.                       *)
Window(S, c) ==
  /\ \A b \in S : /\ Number[BaseOf(c)] <= Number[b] + 1
                  /\ Number[b] <= Number[BaseOf(c)] + Depth
  /\ CompleteFrom(S, Number[BaseOf(c)])
  /\ c # NoBlock =>
       /\ c \in S
       /\ \E t \in S : Number[t] = Number[c] + Depth /\ c \in Chain(t)

(* What is Depth blocks below a block is on the chain of the node.         *)
SettledOn(b, tip) ==
  \A x \in Chain(b) : Number[x] + Depth <= Number[b] => x \in Chain(tip)

(* The base is a place.                                                    *)
LEMMA BaseFacts ==
  ASSUME NEW c \in Blocks \cup {NoBlock}
  PROVE  /\ BaseOf(c) \in Places /\ Number[BaseOf(c)] \in Nat
         /\ c # NoBlock => c \in Blocks /\ BaseOf(c) = c
         /\ c = NoBlock => BaseOf(c) = Start
         /\ Depth \in Nat /\ Depth > 0 /\ NoBlock \notin Places
BY NumberFacts, SourcesAssumption DEF BaseOf, Places

(* While no block is higher than Depth above the base, the confirmed block *)
(* is selected, whichever of the highest blocks the selection starts from. *)
LEMMA SelectionStays ==
  ASSUME NEW m, Forest(m), Linked(m), NEW c \in Blocks \cup {NoBlock},
         Window(DOMAIN m.all, c), NEW n \in Places,
         \A b \in DOMAIN m.all : SettledOn(b, n),
         NEW tip \in BestTips(m)
  PROVE  /\ Ancestor(m, {}, tip, Depth)
              = IF c = NoBlock THEN {} ELSE {m.all[c].ref}
         /\ c # NoBlock => c \in DOMAIN m.all /\ c \in Chain(tip[1])
<1> DEFINE t == tip[1]
           S == DOMAIN m.all
<1>1. /\ tip \in Refs(m) /\ t \in S /\ t \in Blocks /\ m.all[t].ref = tip
      /\ \A b \in S : Number[b] <= Number[t]
  BY BestTipIs
<1>2. S \subseteq Blocks /\ t \in Places
  BY <1>1 DEF Forest, Entries, Places
<1>3. Depth \in Nat /\ Number[t] \in Nat /\ Number[Start] \in Nat
  BY <1>2, BaseFacts, NumberFacts
<1>. HIDE DEF t
<1>4. CASE c = NoBlock
  <2>1. Number[t] <= Number[Start] + Depth
    BY <1>1, <1>4 DEF Window, BaseOf
  <2>2. ASSUME NEW a \in Ancestor(m, {}, tip, Depth)
        PROVE  FALSE
    <3>1. PICK p : Way(m, p, Depth) /\ p[0] = tip
      BY <1>1, <1>3, AncestorHasWay
    <3>2. \A k \in 0..Depth : /\ p[k][1] \in S
                              /\ Number[p[k][1]] = Number[p[0][1]] - k
      BY <1>3, <3>1, WayNumbers
    <3>3. Depth \in 0..Depth
      BY <1>3
    <3>4. p[Depth][1] \in Blocks /\ Number[p[Depth][1]] = Number[t] - Depth
      BY <1>2, <3>1, <3>2, <3>3 DEF t
    <3>5. Number[Start] < Number[p[Depth][1]]
      BY <3>4, NumberFacts
    <3>6. QED
      BY <1>3, <2>1, <3>4, <3>5
  <2>3. QED
    BY <1>4, <2>2
<1>5. CASE c # NoBlock
  <2>1. c \in Blocks /\ c \in S /\ Number[c] \in Nat
        /\ Number[Start] < Number[c] /\ c \in Places
    BY <1>5, NumberFacts DEF Window, Places
  <2>2. PICK u \in S : Number[u] = Number[c] + Depth /\ c \in Chain(u)
    BY <1>5 DEF Window
  <2>3. Number[t] <= Number[c] + Depth
    BY <1>1, <1>5 DEF Window, BaseOf
  <2>4. Number[t] = Number[c] + Depth
    BY <1>1, <1>3, <2>1, <2>2, <2>3
  <2>5. c \in Chain(n)
    BY <2>1, <2>2, <1>3 DEF SettledOn
  <2> DEFINE x == Below(t)[Depth]
  <2>6. Depth \in 0..Above(t) /\ Above(t) \in Nat
    BY <1>3, <2>1, <2>4 DEF Above
  <2>7. x \in Chain(t) /\ Number[x] = Number[c]
    <3>1. Number[x] = Number[t] - Depth
      BY <1>2, <2>6, BelowIn
    <3>2. QED
      BY <1>2, <1>3, <2>1, <2>4, <2>6, <3>1, ChainFacts
  <2>. HIDE DEF x
  <2>8. x \in Chain(n)
    <3>1. Number[x] + Depth <= Number[t]
      BY <1>3, <2>1, <2>4, <2>7
    <3>2. QED
      BY <1>1, <2>7, <3>1 DEF SettledOn
  <2>9. x = c
    BY <2>5, <2>7, <2>8, ChainUnique
  <2>10. ASSUME NEW k \in 0..Depth
         PROVE  Below(t)[k] \in S
    <3> DEFINE y == Below(t)[k]
    <3>1. k \in 0..Above(t)
      BY <1>3, <2>6
    <3>2. y \in Chain(t) /\ Number[y] = Number[t] - k
      BY <1>2, <3>1, ChainFacts, BelowIn
    <3>. HIDE DEF y
    <3>3. Number[c] <= Number[y] + 1 /\ y # Start
      BY <1>3, <2>1, <2>4, <3>2
    <3>4. CompleteFrom(S, Number[c])
      BY <1>5 DEF Window, BaseOf
    <3>5. y \in S
      BY <1>1, <1>2, <2>1, <3>2, <3>3, <3>4, ChainIsHeld
    <3>6. QED
      BY <3>5 DEF y
  <2>11. Ancestor(m, {}, m.all[t].ref, Depth) = {m.all[x].ref}
    BY <1>1, <2>6, <2>10, AncestorOnChain DEF x
  <2>12. QED
    BY <1>1, <1>5, <2>1, <2>7, <2>9, <2>11 DEF t
<1>6. QED
  BY <1>4, <1>5

(* The first block that is higher than Depth above the base is selected    *)
(* from, and what is selected is the next block on its chain.              *)
LEMMA SelectionMoves ==
  ASSUME NEW m, Forest(m), Linked(m), NEW base \in Places,
         CompleteFrom(DOMAIN m.all, Number[base]),
         NEW b \in DOMAIN m.all, Number[b] = Number[base] + Depth + 1,
         base \in Chain(b),
         \A x \in DOMAIN m.all : x # b => Number[x] <= Number[base] + Depth,
         NEW tip \in BestTips(m)
  PROVE  \E s \in DOMAIN m.all :
           /\ Ancestor(m, {}, tip, Depth) = {m.all[s].ref}
           /\ s \in Chain(b) /\ s \in Blocks
           /\ Parent[s] = base /\ Number[s] = Number[base] + 1
<1> DEFINE S == DOMAIN m.all
           s == Below(b)[Depth]
<1>1. /\ tip[1] \in S /\ m.all[tip[1]].ref = tip
      /\ \A x \in S : Number[x] <= Number[tip[1]]
  BY BestTipIs
<1>2. S \subseteq Blocks /\ b \in Places /\ b \in Blocks
  BY DEF Forest, Entries, Places
<1>3. Depth \in Nat /\ Number[b] \in Nat /\ Number[Start] \in Nat
      /\ Number[base] \in Nat /\ Number[Start] <= Number[base]
  BY <1>2, BaseFacts, NumberFacts
<1>4. tip[1] = b
  <2>1. Number[tip[1]] \in Nat
    BY <1>1, <1>2, NumberFacts DEF Places
  <2>2. Number[b] <= Number[tip[1]]
    BY <1>1
  <2>3. tip[1] # b => Number[tip[1]] <= Number[base] + Depth
    BY <1>1
  <2>4. QED
    BY <1>3, <2>1, <2>2, <2>3
<1>5. Depth + 1 \in 0..Above(b) /\ Depth \in 0..Above(b) - 1
      /\ Depth \in 0..Above(b) /\ Above(b) \in Nat
  BY <1>3 DEF Above
<1>6. /\ s \in Chain(b) /\ Number[s] = Number[base] + 1 /\ s \in Blocks
      /\ Below(b)[Depth + 1] = Parent[s]
  <2>1. Number[s] = Number[b] - Depth
    BY <1>2, <1>5, BelowIn
  <2>2. s \in Chain(b) /\ s \in Blocks
    BY <1>2, <1>5, ChainFacts, BelowIn
  <2>3. Below(b)[Depth + 1] = Parent[s]
    BY <1>2, <1>5, BelowSteps
  <2>4. QED
    BY <1>3, <2>1, <2>2, <2>3
<1>7. Parent[s] = base
  <2>1. Parent[s] \in Chain(b)
    BY <1>2, <1>5, <1>6, ChainFacts
  <2>2. Number[Parent[s]] = Number[base]
    <3>1. Number[s] = Number[Parent[s]] + 1 /\ Parent[s] \in Places
      BY <1>6, NumberFacts
    <3>2. Number[Parent[s]] \in Nat
      BY <3>1, NumberFacts
    <3>. HIDE DEF s
    <3>3. QED
      BY <1>3, <1>6, <3>1, <3>2
  <2>3. QED
    BY <1>2, <2>1, <2>2, ChainUnique
<1>8. ASSUME NEW k \in 0..Depth
      PROVE  Below(b)[k] \in S
  <2> DEFINE y == Below(b)[k]
  <2>1. k \in 0..Above(b)
    BY <1>3, <1>5
  <2>2. y \in Chain(b) /\ Number[y] = Number[b] - k
    BY <1>2, <2>1, ChainFacts, BelowIn
  <2>. HIDE DEF y
  <2>3. Number[base] <= Number[y] + 1 /\ y # Start
    BY <1>3, <2>2
  <2>4. y \in S
    BY <1>2, <1>3, <2>2, <2>3, ChainIsHeld
  <2>5. QED
    BY <2>4 DEF y
<1>9. Ancestor(m, {}, m.all[b].ref, Depth) = {m.all[s].ref}
  <2>. HIDE DEF S
  <2>1. \A k \in 0..Depth : Below(b)[k] \in DOMAIN m.all
    BY <1>8 DEF S
  <2>. HIDE DEF s
  <2>2. Ancestor(m, {}, m.all[b].ref, Depth) = {m.all[Below(b)[Depth]].ref}
    BY SMTT(60), <1>5, <2>1, AncestorOnChain
  <2>3. QED
    BY <2>2 DEF s
<1>10. s \in S
  BY <1>3, <1>8
<1>11. QED
  BY <1>1, <1>4, <1>6, <1>7, <1>9, <1>10

-----------------------------------------------------------------------------
(* What both sources keep of memory.                                       *)
Memory(m, c, tip) ==
  /\ Forest(m) /\ Linked(m)
  /\ c \in Blocks \cup {NoBlock}
  /\ Window(DOMAIN m.all, c)
  /\ \A b \in DOMAIN m.all : SettledOn(b, tip)

(* A block that comes in on top of the base is linked like the others: no  *)
(* block in memory has it as its parent.                                   *)
LEMMA InsertIsLinked ==
  ASSUME NEW m, NEW c, NEW n, Memory(m, c, n),
         NEW b \in Blocks, b \notin DOMAIN m.all,
         Parent[b] \in DOMAIN m.all \cup {Start},
         BaseOf(c) \in Chain(Parent[b])
  PROVE  LET M == InsertInMemory(m, {}, b)
         IN  /\ Forest(M) /\ Linked(M)
             /\ DOMAIN M.all = DOMAIN m.all \cup {b}
             /\ CompleteFrom(DOMAIN M.all, Number[BaseOf(c)])
             /\ Number[BaseOf(c)] < Number[b]
             /\ Number[b] <= Number[BaseOf(c)] + Depth + 1
<1> DEFINE M == InsertInMemory(m, {}, b)
           S == DOMAIN m.all
           f == Number[BaseOf(c)]
<1>1. /\ Forest(m) /\ Linked(m) /\ c \in Blocks \cup {NoBlock}
      /\ Window(S, c) /\ S \subseteq Blocks
  BY DEF Memory, Forest, Entries
<1>2. /\ BaseOf(c) \in Places /\ f \in Nat /\ Depth \in Nat
      /\ Number[Start] \in Nat /\ Number[Start] <= f
  BY <1>1, BaseFacts, NumberFacts
<1>3. /\ Parent[b] \in Places /\ Number[b] = Number[Parent[b]] + 1
      /\ Number[b] \in Nat /\ Number[Parent[b]] \in Nat /\ Parent[b] # b
  BY NumberFacts DEF Places
<1>4. f <= Number[Parent[b]] /\ f < Number[b]
  BY <1>2, <1>3, ChainFacts
<1>5. Number[b] <= f + Depth + 1
  <2>1. CASE Parent[b] \in S
    <3>1. Number[Parent[b]] <= f + Depth
      BY <1>1, <2>1 DEF Window
    <3>2. QED
      BY <1>2, <1>3, <3>1
  <2>2. CASE Parent[b] = Start
    BY <1>2, <1>3, <2>2
  <2>3. QED
    BY <2>1, <2>2
<1>6. /\ Forest(M) /\ DOMAIN M.all = S \cup {b}
      /\ \A x \in S : /\ M.all[x].ref = m.all[x].ref
                      /\ M.all[x].parent = m.all[x].parent
      /\ Has(m, Parent[b]) => M.all[b].parent = m.all[Parent[b]].ref
  BY <1>1, FS_EmptySet, InsertKeepsForest
<1>7. ASSUME NEW x \in S
      PROVE  Parent[x] # b
  <2>1. x \in Blocks /\ Number[x] \in Nat /\ Number[x] = Number[Parent[x]] + 1
    BY <1>1, NumberFacts DEF Places
  <2>2. CASE f <= Number[x]
    <3>1. Parent[x] \in S \cup {Start}
      BY <1>1, <2>2 DEF Window, CompleteFrom
    <3>2. QED
      BY <3>1, NumberFacts
  <2>3. CASE ~(f <= Number[x])
    BY <1>2, <1>3, <1>4, <2>1, <2>3
  <2>4. QED
    BY <2>2, <2>3
<1>. HIDE DEF M
<1>8. Linked(M)
  <2>1. ASSUME NEW x \in DOMAIN M.all, Has(M, Parent[x])
        PROVE  M.all[x].parent = M.all[Parent[x]].ref
    <3>1. CASE x = b
      BY <1>3, <1>6, <2>1, <3>1 DEF Has
    <3>2. CASE x \in S
      <4>1. Parent[x] \in S
        BY <1>6, <1>7, <2>1, <3>2 DEF Has
      <4>2. m.all[x].parent = m.all[Parent[x]].ref
        BY <1>1, <3>2, <4>1 DEF Linked, Has
      <4>3. QED
        BY <1>6, <3>2, <4>1, <4>2
    <3>3. QED
      BY <1>6, <2>1, <3>1, <3>2
  <2>2. QED
    BY <2>1 DEF Linked
<1>9. CompleteFrom(DOMAIN M.all, f)
  <2>1. CompleteFrom(S, f)
    BY <1>1 DEF Window
  <2>2. QED
    BY <1>6, <2>1 DEF CompleteFrom
<1>10. QED
  BY <1>4, <1>5, <1>6, <1>8, <1>9 DEF M

(* What multiverse_insert_and_gc makes of memory and of the confirmed      *)
(* block c with one block b that comes in on top of the base of c: b stays *)
(* and so does what is not more than one below the base of the confirmed   *)
(* block then, d, which is c or the next block on the chain of b.          *)
Collection(m, c, b, M, d, tip) ==
  /\ Memory(M, d, tip)
  /\ DOMAIN M.all \subseteq DOMAIN m.all \cup {b}
  /\ b \in DOMAIN M.all
  /\ BaseOf(d) \in Chain(b)
  /\ d = c \/ (d # NoBlock /\ Parent[d] = BaseOf(c))
  /\ \A x \in DOMAIN m.all \cup {b} :
       Number[BaseOf(d)] <= Number[x] + 1 => x \in DOMAIN M.all

(* Removing nothing.                                                       *)
LEMMA NothingCollected ==
  ASSUME NEW m, Forest(m), NEW selected, selected \subseteq Refs(m),
         NEW M \in Collected(m, selected, {})
  PROVE  Forest(M) /\ SameEntries(m, M) /\ DOMAIN M.all = DOMAIN m.all
<1>1. {} \subseteq Refs(m) /\ Names({}) = {}
  BY DEF Names
<1>2. DOMAIN M.all = DOMAIN m.all \ Names({}) /\ Forest(M) /\ SameEntries(m, M)
  BY <1>1, CollectedIs
<1>3. QED
  BY <1>1, <1>2

(* Links stay with the entries.                                            *)
LEMMA SameIsLinked ==
  ASSUME NEW m, Linked(m), NEW M, SameEntries(m, M),
         DOMAIN M.all \subseteq DOMAIN m.all
  PROVE  Linked(M)
BY DEF Linked, SameEntries, Has

(* The references that are discarded for one selected block: those of a    *)
(* number more than one below it.                                          *)
LEMMA DiscardedFor ==
  ASSUME NEW m, Forest(m), NEW s \in DOMAIN m.all
  PROVE  LET refs == Discarded(m, {m.all[s].ref}, AgeGap)
         IN  /\ refs \subseteq Refs(m)
             /\ Names(refs) = {x \in DOMAIN m.all : Number[x] + 1 < Number[s]}
<1> DEFINE r == m.all[s].ref
           refs == Discarded(m, {r}, AgeGap)
<1>1. m.ordered = Refs(m) /\ r[1] = s /\ DOMAIN m.all \subseteq Blocks
  BY DEF Forest, Tables, Entries
<1>2. {x \in {r} : Has(m, x[1])} = {r}
  BY <1>1 DEF Has
<1>3. refs = {q \in Refs(m) : Number[q[1]] < Minus(Number[s], 1)}
  <2>1. refs = UNION {{q \in m.ordered : Number[q[1]] < Keep(Number[x[1]], AgeGap)} :
                        x \in {y \in {r} : Has(m, y[1])}}
    BY Zenon DEF Discarded
  <2>. HIDE DEF refs, r
  <2>2. refs = {q \in m.ordered : Number[q[1]] < Keep(Number[r[1]], AgeGap)}
    BY <1>2, <2>1
  <2>3. QED
    BY <1>1, <2>2 DEF Keep, AgeGap
<1>. HIDE DEF refs
<1>4. ASSUME NEW x \in DOMAIN m.all
      PROVE  /\ m.all[x].ref \in Refs(m) /\ m.all[x].ref[1] = x
             /\ Number[x] < Minus(Number[s], 1) <=> Number[x] + 1 < Number[s]
  <2>1. m.all[x].ref \in Refs(m) /\ m.all[x].ref[1] = x
    BY DEF Refs, Forest, Entries
  <2>2. Number[x] \in Nat /\ Number[s] \in Nat
    BY <1>1, BlockForestAssumption
  <2>3. QED
    BY <2>1, <2>2 DEF Minus
<1>5. \A q \in Refs(m) : q[1] \in DOMAIN m.all
  BY RefNames DEF Forest
<1>6. Names(refs) = {x \in DOMAIN m.all : Number[x] + 1 < Number[s]}
  <2>1. ASSUME NEW x \in Names(refs)
        PROVE  x \in DOMAIN m.all /\ Number[x] + 1 < Number[s]
    BY <1>3, <1>4, <1>5 DEF Names
  <2>2. ASSUME NEW x \in DOMAIN m.all, Number[x] + 1 < Number[s]
        PROVE  x \in Names(refs)
    <3>1. m.all[x].ref \in refs
      BY <1>3, <1>4, <2>2
    <3>2. QED
      BY <1>4, <3>1 DEF Names
  <2>3. QED
    BY <2>1, <2>2
<1>7. QED
  BY <1>3, <1>6 DEF refs

(* The selection leaves the confirmed block as it is while the new block   *)
(* is not higher than Depth above the base, and nothing is discarded.      *)
LEMMA CollectLow ==
  ASSUME NEW m, NEW c, NEW n \in Places, Memory(m, c, n),
         NEW b \in Blocks, b \notin DOMAIN m.all,
         Parent[b] \in DOMAIN m.all \cup {Start},
         BaseOf(c) \in Chain(Parent[b]), SettledOn(b, n),
         Number[b] <= Number[BaseOf(c)] + Depth,
         NEW i, i = InsertInMemory(m, {}, b),
         NEW tip \in BestTips(i),
         NEW sel, sel = Ancestor(i, {}, tip, Depth),
         NEW refs, refs = Discarded(i, sel, AgeGap),
         NEW M \in Collected(i, sel, refs)
  PROVE  /\ Collection(m, c, b, M, c, n) /\ refs = {}
         /\ DOMAIN M.all = DOMAIN m.all \cup {b}
         /\ Chosen(Names(sel), c) = c
<1> DEFINE f == Number[BaseOf(c)]
<1>1. /\ Forest(i) /\ Linked(i) /\ DOMAIN i.all = DOMAIN m.all \cup {b}
      /\ CompleteFrom(DOMAIN i.all, f) /\ f < Number[b]
  BY InsertIsLinked
<1>2. /\ c \in Blocks \cup {NoBlock} /\ Window(DOMAIN m.all, c)
      /\ \A x \in DOMAIN m.all : SettledOn(x, n)
      /\ DOMAIN m.all \subseteq Blocks
  BY DEF Memory, Forest, Entries
<1>3. f \in Nat /\ Number[b] \in Nat
  BY <1>2, BaseFacts, NumberFacts DEF Places
<1>4. Window(DOMAIN i.all, c)
  <2>1. \A x \in DOMAIN i.all : f <= Number[x] + 1 /\ Number[x] <= f + Depth
    <3>1. \A x \in DOMAIN m.all : f <= Number[x] + 1 /\ Number[x] <= f + Depth
      BY <1>2 DEF Window
    <3>2. f <= Number[b] + 1
      BY <1>1, <1>3
    <3>3. QED
      BY <1>1, <3>1, <3>2
  <2>2. c # NoBlock => /\ c \in DOMAIN i.all
                       /\ \E t \in DOMAIN i.all :
                            Number[t] = Number[c] + Depth /\ c \in Chain(t)
    BY <1>1, <1>2 DEF Window
  <2>3. QED
    BY <1>1, <2>1, <2>2 DEF Window
<1>5. \A x \in DOMAIN i.all : SettledOn(x, n)
  BY <1>1, <1>2
<1>6. /\ sel = IF c = NoBlock THEN {} ELSE {i.all[c].ref}
      /\ c # NoBlock => c \in DOMAIN i.all
  BY <1>1, <1>2, <1>4, <1>5, SelectionStays
<1>7. refs = {} /\ sel \subseteq Refs(i) /\ Chosen(Names(sel), c) = c
  <2>1. CASE c = NoBlock
    <3>1. sel = {}
      BY <1>6, <2>1
    <3>2. QED
      BY <3>1 DEF Discarded, Names, Chosen
  <2>2. CASE c # NoBlock
    <3>1. sel = {i.all[c].ref} /\ c \in DOMAIN i.all
      BY <1>6, <2>2
    <3>2. Names(refs) = {x \in DOMAIN i.all : Number[x] + 1 < Number[c]}
      BY <1>1, <3>1, DiscardedFor
    <3>3. Names(refs) = {}
      <4>1. \A x \in DOMAIN i.all : Number[c] <= Number[x] + 1
        BY <1>4, <2>2 DEF Window, BaseOf
      <4>2. \A x \in DOMAIN i.all : Number[x] \in Nat /\ Number[c] \in Nat
        BY <1>1, <1>2, <2>2, BlockForestAssumption
      <4>3. QED
        BY <3>2, <4>1, <4>2
    <3>4. refs = {}
      <4>1. \A r \in refs : r[1] \in Names(refs)
        BY DEF Names
      <4>2. QED
        BY <3>3, <4>1
    <3>5. sel \subseteq Refs(i)
      BY <3>1 DEF Refs
    <3>6. Names(sel) = {c}
      BY <1>1, <3>1 DEF Names, Forest, Entries
    <3>7. Chosen(Names(sel), c) = c
      BY <3>6 DEF Chosen
    <3>8. QED
      BY <3>4, <3>5, <3>7
  <2>3. QED
    BY <2>1, <2>2
<1>8. Forest(M) /\ SameEntries(i, M) /\ DOMAIN M.all = DOMAIN i.all
  BY <1>1, <1>7, NothingCollected
<1>9. Linked(M)
  BY <1>1, <1>8, SameIsLinked
<1>10. Memory(M, c, n)
  BY <1>2, <1>4, <1>5, <1>8, <1>9 DEF Memory
<1>11. BaseOf(c) \in Chain(b)
  BY ChainOfParent
<1>12. QED
  BY <1>1, <1>7, <1>8, <1>10, <1>11 DEF Collection

(* The first block that is higher moves the confirmed block up by one, and *)
(* what is more than one below that is removed.                            *)
LEMMA CollectHigh ==
  ASSUME NEW m, NEW c, NEW n \in Places, Memory(m, c, n),
         NEW b \in Blocks, b \notin DOMAIN m.all,
         Parent[b] \in DOMAIN m.all \cup {Start},
         BaseOf(c) \in Chain(Parent[b]), SettledOn(b, n),
         Number[b] = Number[BaseOf(c)] + Depth + 1,
         NEW i, i = InsertInMemory(m, {}, b),
         NEW tip \in BestTips(i),
         NEW sel, sel = Ancestor(i, {}, tip, Depth),
         NEW refs, refs = Discarded(i, sel, AgeGap),
         NEW M \in Collected(i, sel, refs)
  PROVE  \E s \in Blocks :
           /\ Collection(m, c, b, M, s, n) /\ Chosen(Names(sel), c) = s
           /\ DOMAIN M.all = (DOMAIN m.all \cup {b}) \ Names(refs)
<1> DEFINE base == BaseOf(c)
           f == Number[BaseOf(c)]
<1>1. /\ Forest(i) /\ Linked(i) /\ DOMAIN i.all = DOMAIN m.all \cup {b}
      /\ CompleteFrom(DOMAIN i.all, f) /\ f < Number[b]
  BY InsertIsLinked
<1>2. /\ c \in Blocks \cup {NoBlock} /\ Window(DOMAIN m.all, c)
      /\ \A x \in DOMAIN m.all : SettledOn(x, n)
      /\ DOMAIN m.all \subseteq Blocks
  BY DEF Memory, Forest, Entries
<1>3. f \in Nat /\ Number[b] \in Nat /\ base \in Places /\ Depth \in Nat
      /\ NoBlock \notin Blocks /\ Number[Start] \in Nat /\ Number[Start] <= f
  BY <1>2, BaseFacts, NumberFacts DEF Places
<1>4. base \in Chain(b)
  BY ChainOfParent
<1>5. \A x \in DOMAIN i.all : x # b => Number[x] <= f + Depth
  BY <1>1, <1>2 DEF Window
<1>6. PICK s \in DOMAIN i.all :
        /\ sel = {i.all[s].ref} /\ s \in Chain(b) /\ s \in Blocks
        /\ Parent[s] = base /\ Number[s] = f + 1
  BY <1>1, <1>3, <1>4, <1>5, SelectionMoves
<1>7. /\ refs \subseteq Refs(i) /\ sel \subseteq Refs(i)
      /\ Names(refs) = {x \in DOMAIN i.all : Number[x] + 1 < Number[s]}
  <2>1. sel \subseteq Refs(i)
    BY <1>6 DEF Refs
  <2>2. refs = Discarded(i, {i.all[s].ref}, AgeGap)
    BY <1>6
  <2>3. LET r == Discarded(i, {i.all[s].ref}, AgeGap)
        IN  /\ r \subseteq Refs(i)
            /\ Names(r) = {x \in DOMAIN i.all : Number[x] + 1 < Number[s]}
    BY <1>1, <1>6, DiscardedFor, SMTT(40)
  <2>4. QED
    BY <2>1, <2>2, <2>3
<1>8. /\ Forest(M) /\ SameEntries(i, M)
      /\ DOMAIN M.all = DOMAIN i.all \ Names(refs)
  BY <1>1, <1>7, CollectedIs
<1>9. Chosen(Names(sel), c) = s
  <2>1. Names(sel) = {s}
    BY <1>1, <1>6 DEF Names, Forest, Entries
  <2>2. QED
    BY <2>1 DEF Chosen
<1>10. \A x \in DOMAIN i.all : Number[x] \in Nat /\ x \in Blocks
  BY <1>1, <1>2, BlockForestAssumption
<1>11. DOMAIN M.all = {x \in DOMAIN i.all : f <= Number[x]}
  <2>1. \A x \in DOMAIN i.all : ~(Number[x] + 1 < Number[s]) <=> f <= Number[x]
    BY <1>3, <1>6, <1>10
  <2>2. QED
    BY <1>7, <1>8, <2>1
<1>12. BaseOf(s) = s /\ s # NoBlock
  BY <1>3, <1>6 DEF BaseOf
<1>13. s \in DOMAIN M.all /\ b \in DOMAIN M.all
  BY <1>1, <1>3, <1>6, <1>11
<1>14. Window(DOMAIN M.all, s)
  <2>1. \A x \in DOMAIN M.all : /\ Number[s] <= Number[x] + 1
                                /\ Number[x] <= Number[s] + Depth
    <3>1. ASSUME NEW x \in DOMAIN M.all
          PROVE  Number[s] <= Number[x] + 1 /\ Number[x] <= Number[s] + Depth
      <4>1. x \in DOMAIN i.all /\ f <= Number[x] /\ Number[x] \in Nat
        BY <1>10, <1>11
      <4>2. Number[x] <= f + Depth + 1
        BY <1>3, <1>5, <4>1
      <4>3. QED
        BY <1>3, <1>6, <4>1, <4>2
    <3>2. QED
      BY <3>1
  <2>2. CompleteFrom(DOMAIN M.all, Number[s])
    <3>1. ASSUME NEW x \in DOMAIN M.all, Number[s] <= Number[x],
                 Parent[x] # Start
          PROVE  Parent[x] \in DOMAIN M.all
      <4>1. x \in DOMAIN i.all /\ x \in Blocks /\ f <= Number[x]
        BY <1>10, <1>11
      <4>2. Parent[x] \in DOMAIN i.all
        BY <1>1, <3>1, <4>1 DEF CompleteFrom
      <4>3. Number[x] = Number[Parent[x]] + 1 /\ Number[Parent[x]] \in Nat
        BY <1>10, <4>1, <4>2, NumberFacts
      <4>4. f <= Number[Parent[x]]
        BY <1>3, <1>6, <3>1, <4>3
      <4>5. QED
        BY <1>11, <4>2, <4>4
    <3>2. QED
      BY <3>1 DEF CompleteFrom
  <2>3. Number[b] = Number[s] + Depth
    BY <1>3, <1>6
  <2>4. QED
    BY <1>6, <1>12, <1>13, <2>1, <2>2, <2>3 DEF Window
<1>15. Linked(M)
  BY <1>1, <1>8, SameIsLinked
<1>16. Memory(M, s, n)
  BY <1>1, <1>2, <1>6, <1>8, <1>11, <1>14, <1>15 DEF Memory
<1>17. \A x \in DOMAIN m.all \cup {b} :
         Number[BaseOf(s)] <= Number[x] + 1 => x \in DOMAIN M.all
  BY <1>1, <1>3, <1>6, <1>10, <1>11, <1>12
<1>18. Collection(m, c, b, M, s, n)
  BY <1>1, <1>6, <1>8, <1>12, <1>13, <1>16, <1>17 DEF Collection
<1>19. QED
  BY <1>1, <1>6, <1>8, <1>9, <1>18

(* The same of the state: the database follows memory.                     *)
LEMMA InsertAndGcIs ==
  ASSUME NEW n \in Places, Memory(mem, confirmed, n), db = DOMAIN mem.all,
         NEW b \in Blocks, ~Has(mem, b),
         Parent[b] \in DOMAIN mem.all \cup {Start},
         BaseOf(confirmed) \in Chain(Parent[b]), SettledOn(b, n),
         NEW o \in InsertAndGc(b)
  PROVE  /\ Collection(mem, confirmed, b, o.mem, Confirm(o), n)
         /\ o.db = DOMAIN o.mem.all
<1> DEFINE i == InsertInMemory(mem, {}, b)
<1>1. InsertInto(mem, {}, db, b) = i
  BY DEF InsertInto
<1>. HIDE DEF i
<1>2. PICK tip \in BestTips(i) :
        o \in Outcomes(i, b, SelectBest(i, {}, tip, Depth, AgeGap))
  BY <1>1, Zenon DEF InsertAndGc
<1> DEFINE sel == Ancestor(i, {}, tip, Depth)
           refs == Discarded(i, sel, AgeGap)
<1>3. SelectBest(i, {}, tip, Depth, AgeGap) = [selected |-> sel, discarded |-> refs]
  BY Zenon DEF SelectBest
<1>. HIDE DEF sel, refs
<1>4. PICK M \in Collected(i, sel, refs) :
        o = [mem |-> M, stable |-> Names(sel), db |-> DbInsert(db, b) \ Names(refs)]
  <2>1. o \in Outcomes(i, b, [selected |-> sel, discarded |-> refs])
    BY <1>2, <1>3, Zenon
  <2>2. QED
    BY <2>1 DEF Outcomes
<1>5. o.mem = M /\ o.db = (DOMAIN mem.all \cup {b}) \ Names(refs)
      /\ Confirm(o) = Chosen(Names(sel), confirmed)
  <2>1. Stored(b)
    BY SourcesAssumption
  <2>2. QED
    BY <1>4, <2>1 DEF DbInsert, Confirm
<1>6. Names({}) = {}
  BY DEF Names
<1>7. b \notin DOMAIN mem.all
  BY DEF Has
<1>8. CASE Number[b] <= Number[BaseOf(confirmed)] + Depth
  <2>1. /\ Collection(mem, confirmed, b, M, confirmed, n) /\ refs = {}
        /\ DOMAIN M.all = DOMAIN mem.all \cup {b}
        /\ Chosen(Names(sel), confirmed) = confirmed
    BY <1>4, <1>7, <1>8, CollectLow DEF i, sel, refs
  <2>2. QED
    BY <1>5, <1>6, <2>1
<1>9. CASE ~(Number[b] <= Number[BaseOf(confirmed)] + Depth)
  <2>1. Number[b] = Number[BaseOf(confirmed)] + Depth + 1
    <3>1. LET N == InsertInMemory(mem, {}, b)
          IN  /\ Forest(N) /\ Linked(N)
              /\ DOMAIN N.all = DOMAIN mem.all \cup {b}
              /\ CompleteFrom(DOMAIN N.all, Number[BaseOf(confirmed)])
              /\ Number[BaseOf(confirmed)] < Number[b]
              /\ Number[b] <= Number[BaseOf(confirmed)] + Depth + 1
      BY <1>7, InsertIsLinked
    <3>2. confirmed \in Blocks \cup {NoBlock}
      BY DEF Memory
    <3>3. Number[BaseOf(confirmed)] \in Nat /\ Depth \in Nat /\ Number[b] \in Nat
      BY <3>2, BaseFacts, NumberFacts DEF Places
    <3>4. QED
      BY <1>9, <3>1, <3>3
  <2>2. PICK s \in Blocks :
          /\ Collection(mem, confirmed, b, M, s, n)
          /\ Chosen(Names(sel), confirmed) = s
          /\ DOMAIN M.all = (DOMAIN mem.all \cup {b}) \ Names(refs)
    BY <1>4, <1>7, <2>1, CollectHigh DEF i, sel, refs
  <2>3. QED
    BY <1>5, <2>2
<1>10. QED
  BY <1>8, <1>9

(* A database that is loaded again gives what memory had, and the same     *)
(* block is confirmed.                                                     *)
LEMMA LoadKeeps ==
  ASSUME NEW n \in Places, NEW m, NEW c, Memory(m, c, n), NEW S, S = DOMAIN m.all
  PROVE  /\ Memory(Load(S), c, n) /\ DOMAIN Load(S).all = S
         /\ S = {} => c = NoBlock
         /\ \A tip \in BestTips(Load(S)) :
              /\ Chosen(Names(Ancestor(Load(S), {}, tip, Depth)), NoBlock) = c
              /\ c # NoBlock => c \in Chain(tip[1])
         /\ LastOfIter(Load(S)) \subseteq S
         /\ \A t \in LastOfIter(Load(S)) : c # NoBlock => c \in Chain(t)
<1>1. /\ Forest(m) /\ c \in Blocks \cup {NoBlock} /\ Window(S, c)
      /\ \A x \in S : SettledOn(x, n)
      /\ S \subseteq Blocks
  BY DEF Memory, Forest, Entries
<1> DEFINE M == Load(S)
<1>2. /\ Forest(M) /\ DOMAIN M.all = S
      /\ \A b \in S : Parent[b] \in S /\ Number[Parent[b]] < Number[b]
                        => M.all[b].parent = M.all[Parent[b]].ref
  <2>1. S \in SUBSET Blocks
    BY <1>1
  <2>2. QED
    BY <2>1, LoadIsForest
<1>. HIDE DEF M
<1>3. Linked(M)
  <2>1. ASSUME NEW b \in S, Parent[b] \in S
        PROVE  Number[Parent[b]] < Number[b]
    <3>1. b \in Blocks /\ Parent[b] \in Blocks
      BY <1>1, <2>1
    <3>2. Number[b] = Number[Parent[b]] + 1 /\ Number[Parent[b]] \in Nat
      BY <3>1, NumberFacts DEF Places
    <3>3. QED
      BY <3>2
  <2>2. QED
    BY <1>2, <2>1 DEF Linked, Has
<1>4. Memory(M, c, n)
  BY <1>1, <1>2, <1>3 DEF Memory
<1>5. S = {} => c = NoBlock
  BY <1>1 DEF Window
<1>6. ASSUME NEW tip \in BestTips(M)
      PROVE  /\ Chosen(Names(Ancestor(M, {}, tip, Depth)), NoBlock) = c
             /\ c # NoBlock => c \in Chain(tip[1])
  <2> DEFINE a == Ancestor(M, {}, tip, Depth)
  <2>1. /\ a = IF c = NoBlock THEN {} ELSE {M.all[c].ref}
        /\ c # NoBlock => c \in DOMAIN M.all /\ c \in Chain(tip[1])
    BY <1>1, <1>2, <1>3, SelectionStays
  <2>. HIDE DEF a
  <2>2. c # NoBlock => M.all[c].ref[1] = c
    BY <1>2, <2>1 DEF Forest, Entries
  <2>3. Names(a) = IF c = NoBlock THEN {} ELSE {c}
    BY <2>1, <2>2 DEF Names
  <2>4. QED
    BY <2>1, <2>3 DEF Chosen, a
<1>7. \A t \in LastOfIter(M) : \E tip \in BestTips(M) : t = tip[1]
  BY DEF LastOfIter, Names
<1>8. \A t \in LastOfIter(M) : c # NoBlock => c \in Chain(t)
  BY <1>6, <1>7
<1>9. LastOfIter(M) \subseteq S
  BY <1>2 DEF LastOfIter
<1>10. QED
  BY <1>2, <1>4, <1>5, <1>6, <1>8, <1>9 DEF M

(* The base is on the node's chain.                                        *)
LEMMA BaseIsOnNode ==
  ASSUME NEW n \in Places, NEW m, NEW c, Memory(m, c, n)
  PROVE  BaseOf(c) \in Chain(n)
<1>1. CASE c = NoBlock
  BY <1>1, ChainFacts DEF BaseOf
<1>2. CASE c # NoBlock
  <2>1. PICK t \in DOMAIN m.all : Number[t] = Number[c] + Depth /\ c \in Chain(t)
    BY <1>2 DEF Memory, Window
  <2>2. SettledOn(t, n)
    BY DEF Memory
  <2>3. Number[c] + Depth <= Number[t]
    <3>1. c \in Blocks
      BY <1>2 DEF Memory
    <3>2. Number[c] \in Nat /\ Depth \in Nat
      BY <3>1, NumberFacts, SourcesAssumption DEF Places
    <3>3. QED
      BY <2>1, <3>2
  <2>4. QED
    BY <1>2, <2>1, <2>2, <2>3 DEF SettledOn, BaseOf
<1>3. QED
  BY <1>1, <1>2

-----------------------------------------------------------------------------
(* A requested range goes up from a block in memory, or from the start, on *)
(* top of the base, and was on the node's chain when it was requested.     *)
OnStream(s, S, c, n, t) ==
  /\ \E high \in Places, low \in S \cup {Start} :
       /\ low \in Chain(high)
       /\ s = RangeOf(low, high)
       /\ BaseOf(c) \in Chain(low)
  /\ \A b \in ToSet(s) : SettledOn(b, n) /\ Number[b] <= t

(* What is settled stays settled when the node moves, since it never gives *)
(* up a block that is Depth below the longest chain it had.                *)
LEMMA MovesKeepSettled ==
  ASSUME NEW n \in Places, NEW u \in Places, NEW t \in Nat,
         NEW z \in Chain(n) \cap Chain(u), Number[z] + Depth >= t,
         NEW b \in Places, SettledOn(b, n), Number[b] <= t
  PROVE  SettledOn(b, u)
<1>1. z \in Places /\ Chain(z) \subseteq Chain(u)
      /\ \A x \in Chain(n) : Number[x] <= Number[z] => x \in Chain(z)
  BY ChainOrder
<1>2. ASSUME NEW x \in Chain(b), Number[x] + Depth <= Number[b]
      PROVE  x \in Chain(u)
  <2>1. x \in Chain(n)
    BY <1>2 DEF SettledOn
  <2>2. /\ Number[x] \in Nat /\ Number[z] \in Nat /\ Number[b] \in Nat
        /\ Depth \in Nat
    BY <1>1, ChainFacts, NumberFacts, SourcesAssumption
  <2>3. Number[x] <= Number[z]
    BY <1>2, <2>2
  <2>4. QED
    BY <1>1, <2>1, <2>3
<1>3. QED
  BY <1>2 DEF SettledOn

(* What a source pulls comes from such a range, whether it was requested   *)
(* before or is now, if the base is among the points.                      *)
LEMMA StreamIs ==
  ASSUME NEW n \in Places, n = node, NEW t \in Nat, Number[n] <= t,
         NEW m, NEW c, Memory(m, c, n),
         stream # << >> => OnStream(stream, DOMAIN m.all, c, n, t),
         NEW points, points \subseteq DOMAIN m.all \cup {Start},
         c # NoBlock => c \in points,
         NEW s \in Streams(points)
  PROVE  /\ OnStream(s, DOMAIN m.all, c, n, t) /\ s # << >>
         /\ \/ s = stream
            \/ points = {}
            \/ \E p \in points : p \in Places /\ Parent[Head(s)] = p
<1>1. CASE stream # << >>
  BY <1>1 DEF Streams
<1>2. CASE stream = << >>
  <2> DEFINE pts == IF points = {} THEN {Start} ELSE points
  <2>1. PICK p \in BestKnown(pts, n) : s = RangeOf(p, n) /\ s # << >>
    BY <1>2 DEF Streams, Ranges
  <2>2. /\ p \in pts /\ p \in Chain(n) /\ p \in Places
        /\ \A q \in pts \cap Chain(n) : Number[q] <= Number[p]
    BY <2>1, ChainFacts DEF BestKnown, Known
  <2>3. /\ ToSet(s) \subseteq Chain(n) /\ Parent[Head(s)] = p
    BY <2>1, <2>2, RangeFacts
  <2>4. BaseOf(c) \in Chain(p)
    <3>1. CASE c = NoBlock
      BY <2>2, <3>1, ChainFacts DEF BaseOf
    <3>2. CASE c # NoBlock
      <4>1. BaseOf(c) = c /\ c \in pts
        BY <3>2 DEF BaseOf
      <4>2. c \in Chain(n)
        BY <4>1, BaseIsOnNode
      <4>3. QED
        BY <2>2, <4>1, <4>2, ChainOrder
    <3>3. QED
      BY <3>1, <3>2
  <2>5. ASSUME NEW b \in ToSet(s)
        PROVE  SettledOn(b, n) /\ Number[b] <= t
    <3>1. b \in Chain(n) /\ Chain(b) \subseteq Chain(n)
      BY <2>3, ChainOrder
    <3>2. Number[b] <= Number[n] /\ Number[b] \in Nat /\ Number[n] \in Nat
      BY <3>1, ChainFacts
    <3>3. QED
      BY <3>1, <3>2 DEF SettledOn
  <2>6. p \in DOMAIN m.all \cup {Start}
    BY <2>2
  <2>7. OnStream(s, DOMAIN m.all, c, n, t)
    BY <2>1, <2>2, <2>4, <2>5, <2>6 DEF OnStream
  <2>8. QED
    BY <2>1, <2>2, <2>3, <2>7
<1>3. QED
  BY <1>1, <1>2

(* The first block of a range, and what remains of the range when memory   *)
(* has that block.                                                         *)
LEMMA HeadOfStream ==
  ASSUME NEW n, NEW t, NEW S \in SUBSET Blocks, NEW c, NEW s,
         OnStream(s, S, c, n, t), s # << >>
  PROVE  /\ Head(s) \in Blocks
         /\ Parent[Head(s)] \in S \cup {Start}
         /\ BaseOf(c) \in Chain(Parent[Head(s)])
         /\ SettledOn(Head(s), n) /\ Number[Head(s)] <= t
         /\ Tail(s) # << >> => Parent[Head(Tail(s))] = Head(s)
         /\ \A T, d : Head(s) \in T /\ BaseOf(d) \in Chain(Head(s))
                      => OnStream(Tail(s), T, d, n, t)
<1>1. PICK high \in Places, low \in S \cup {Start} :
        low \in Chain(high) /\ s = RangeOf(low, high) /\ BaseOf(c) \in Chain(low)
  BY DEF OnStream
<1>2. \A b \in ToSet(s) : SettledOn(b, n) /\ Number[b] <= t
  BY DEF OnStream
<1>3. /\ Head(s) \in Blocks /\ Head(s) \in Chain(high)
      /\ Head(s) \in ToSet(s) /\ Parent[Head(s)] = low
      /\ Tail(s) = RangeOf(Head(s), high)
      /\ ToSet(Tail(s)) \subseteq ToSet(s)
  BY <1>1, RangeFacts
<1>4. Tail(s) # << >> => Parent[Head(Tail(s))] = Head(s)
  BY <1>3, RangeFacts
<1>5. ASSUME NEW T, Head(s) \in T, NEW d, BaseOf(d) \in Chain(Head(s))
      PROVE  OnStream(Tail(s), T, d, n, t)
  BY <1>2, <1>3, <1>5 DEF OnStream
<1>6. QED
  BY <1>1, <1>2, <1>3, <1>4, <1>5

-----------------------------------------------------------------------------
(* What both sources keep.                                                 *)
Nodes ==
  /\ node \in Places /\ top \in Nat /\ Number[node] <= top
  /\ moves \in 0..MaxMoves /\ breaks \in 0..MaxBreaks

Kept ==
  /\ Memory(mem, confirmed, node) /\ db = DOMAIN mem.all
  /\ \A b \in DOMAIN mem.all : Number[b] <= top

Requested ==
  stream # << >> => OnStream(stream, DOMAIN mem.all, confirmed, node, top)

Shared == Nodes /\ Kept /\ Requested

(* Types that are used again and again.                                    *)
LEMMA KeptFacts ==
  ASSUME Shared
  PROVE  /\ DOMAIN mem.all \in SUBSET Blocks /\ Forest(mem)
         /\ confirmed \in Blocks \cup {NoBlock}
         /\ confirmed = NoBlock \/ confirmed \in DOMAIN mem.all
         /\ DOMAIN mem.all = {} => confirmed = NoBlock
         /\ NoBlock \notin DOMAIN mem.all /\ Start \notin DOMAIN mem.all
         /\ Tips(mem) \subseteq DOMAIN mem.all
<1>1. /\ Forest(mem) /\ DOMAIN mem.all \in SUBSET Blocks
      /\ confirmed \in Blocks \cup {NoBlock}
      /\ confirmed # NoBlock => confirmed \in DOMAIN mem.all
  BY DEF Shared, Kept, Memory, Window, Forest, Entries
<1>2. NoBlock \notin Blocks /\ Start \notin Blocks
  BY SourcesAssumption
<1>3. Tips(mem) \subseteq DOMAIN mem.all
  <2>1. mem.tips = {mem.all[b].ref : b \in Leaves(mem)}
    BY <1>1 DEF Forest, Tables
  <2>2. \A b \in Leaves(mem) : b \in DOMAIN mem.all /\ mem.all[b].ref[1] = b
    BY <1>1 DEF Forest, Entries, Leaves
  <2>3. QED
    BY <2>1, <2>2 DEF Tips, Names
<1>4. QED
  BY <1>1, <1>2, <1>3

(* In the beginning there is nothing.                                      *)
LEMMA InitIsShared == Init => Shared
<1> SUFFICES ASSUME Init PROVE Shared
  OBVIOUS
<1>1. Nodes
  BY NumberFacts, SourcesAssumption DEF Init, Nodes
<1>2. DOMAIN mem.all = {} /\ Forest(mem)
  <2>1. mem = EmptyForest
    BY DEF Init
  <2>2. DOMAIN EmptyForest.all = {}
    BY DEF EmptyForest
  <2>3. QED
    BY <2>1, <2>2, EmptyIsForest
<1>3. Memory(mem, confirmed, node)
  BY <1>2, Zenon DEF Init, Memory, Linked, Window, CompleteFrom
<1>4. Kept
  BY <1>2, <1>3 DEF Init, Kept
<1>5. Requested
  BY DEF Init, Requested
<1>6. QED
  BY <1>1, <1>4, <1>5 DEF Shared

(* The node moves.                                                         *)
LEMMA NodeMovesShared ==
  ASSUME Shared, NEW t \in Blocks, NodeMoves(t)
  PROVE  Shared'
<1>1. /\ node \in Places /\ top \in Nat /\ Number[node] <= top
      /\ moves \in 0..MaxMoves /\ moves < MaxMoves
      /\ node' = t /\ t \in Places /\ Number[t] \in Nat
      /\ top' = IF Number[t] > top THEN Number[t] ELSE top
      /\ moves' = moves + 1 /\ breaks' = breaks
      /\ MaxMoves \in Nat
      /\ mem' = mem /\ db' = db /\ confirmed' = confirmed /\ stream' = stream
  BY NumberFacts, SourcesAssumption
     DEF Shared, Nodes, NodeMoves, sourceVars, Places
<1>2. top' \in Nat /\ Number[t] <= top' /\ top <= top'
  BY <1>1
<1>3. Nodes'
  BY <1>1, <1>2, SourcesAssumption DEF Shared, Nodes
<1>4. PICK z \in Chain(node) \cap Chain(t) : Number[z] + Depth >= top
  BY DEF NodeMoves
<1>5. ASSUME NEW b \in Places, SettledOn(b, node), Number[b] <= top
      PROVE  SettledOn(b, t) /\ Number[b] <= top'
  <2>1. SettledOn(b, t)
    BY <1>1, <1>4, <1>5, MovesKeepSettled
  <2>2. Number[b] \in Nat
    BY NumberFacts
  <2>3. QED
    BY <1>1, <1>2, <1>5, <2>1, <2>2
<1>6. ASSUME NEW b \in DOMAIN mem.all
      PROVE  SettledOn(b, t) /\ Number[b] <= top'
  <2>1. b \in Places
    BY KeptFacts DEF Places
  <2>2. SettledOn(b, node) /\ Number[b] <= top
    BY DEF Shared, Kept, Memory
  <2>3. QED
    BY <1>5, <2>1, <2>2
<1>7. Memory(mem, confirmed, t)
  BY <1>6 DEF Shared, Kept, Memory
<1>8. Kept'
  BY <1>1, <1>6, <1>7 DEF Shared, Kept
<1>9. ASSUME stream # << >>
      PROVE  OnStream(stream, DOMAIN mem.all, confirmed, t, top')
  <2>1. OnStream(stream, DOMAIN mem.all, confirmed, node, top)
    BY <1>9 DEF Shared, Requested
  <2>2. PICK high \in Places, low \in DOMAIN mem.all \cup {Start} :
          /\ low \in Chain(high) /\ stream = RangeOf(low, high)
          /\ BaseOf(confirmed) \in Chain(low)
    BY <2>1 DEF OnStream
  <2>3. ToSet(stream) \subseteq Places
    BY <2>2, RangeFacts, ChainFacts
  <2>4. \A b \in ToSet(stream) : SettledOn(b, t) /\ Number[b] <= top'
    BY <1>5, <2>1, <2>3 DEF OnStream
  <2>5. QED
    BY <2>2, <2>4 DEF OnStream
<1>10. Requested'
  BY <1>1, <1>9 DEF Requested
<1>11. QED
  BY <1>3, <1>8, <1>10 DEF Shared

(* A pull takes the first block of a range into memory.                    *)
TakesIn(s) ==
  /\ stream' = Tail(s)
  /\ \/ Has(mem, Head(s)) /\ UNCHANGED <<mem, db, confirmed>>
     \/ /\ ~Has(mem, Head(s))
        /\ \E o \in InsertAndGc(Head(s)) :
             mem' = o.mem /\ db' = o.db /\ confirmed' = Confirm(o)
  /\ UNCHANGED <<nodeVars, breaks>>

(* The block that is taken in.                                             *)
LEMMA TakenBlock ==
  ASSUME Shared,
         NEW points, points \subseteq DOMAIN mem.all \cup {Start},
         confirmed # NoBlock => confirmed \in points,
         NEW s \in Streams(points)
  PROVE  /\ OnStream(s, DOMAIN mem.all, confirmed, node, top) /\ s # << >>
         /\ \/ s = stream
            \/ points = {}
            \/ Parent[Head(s)] \in points
         /\ Head(s) \in Blocks
         /\ Parent[Head(s)] \in DOMAIN mem.all \cup {Start}
         /\ BaseOf(confirmed) \in Chain(Parent[Head(s)])
         /\ SettledOn(Head(s), node) /\ Number[Head(s)] <= top
         /\ Tail(s) # << >> => Parent[Head(Tail(s))] = Head(s)
<1>1. /\ node \in Places /\ top \in Nat /\ Number[node] <= top
      /\ Memory(mem, confirmed, node) /\ DOMAIN mem.all \in SUBSET Blocks
      /\ stream # << >> => OnStream(stream, DOMAIN mem.all, confirmed, node, top)
  BY KeptFacts DEF Shared, Nodes, Kept, Requested
<1>2. /\ OnStream(s, DOMAIN mem.all, confirmed, node, top) /\ s # << >>
      /\ \/ s = stream
         \/ points = {}
         \/ Parent[Head(s)] \in points
  BY <1>1, StreamIs
<1> DEFINE S == DOMAIN mem.all
<1>3. S \in SUBSET Blocks /\ OnStream(s, S, confirmed, node, top) /\ s # << >>
  BY <1>1, <1>2
<1>. HIDE DEF S
<1>4. /\ Head(s) \in Blocks
      /\ Parent[Head(s)] \in S \cup {Start}
      /\ BaseOf(confirmed) \in Chain(Parent[Head(s)])
      /\ SettledOn(Head(s), node) /\ Number[Head(s)] <= top
      /\ Tail(s) # << >> => Parent[Head(Tail(s))] = Head(s)
  <2>1. /\ Head(s) \in Blocks
        /\ Parent[Head(s)] \in S \cup {Start}
        /\ BaseOf(confirmed) \in Chain(Parent[Head(s)])
    BY <1>3, HeadOfStream
  <2>2. SettledOn(Head(s), node) /\ Number[Head(s)] <= top
    BY <1>3, HeadOfStream
  <2>3. Tail(s) # << >> => Parent[Head(Tail(s))] = Head(s)
    BY <1>3, HeadOfStream
  <2>4. QED
    BY <2>1, <2>2, <2>3
<1>5. QED
  BY <1>2, <1>4 DEF S

(* It is inserted as described.                                            *)
LEMMA TakenIsCollected ==
  ASSUME Shared,
         NEW points, points \subseteq DOMAIN mem.all \cup {Start},
         confirmed # NoBlock => confirmed \in points,
         NEW s \in Streams(points), TakesIn(s), ~Has(mem, Head(s))
  PROVE  /\ Collection(mem, confirmed, Head(s), mem', confirmed', node)
         /\ db' = DOMAIN mem'.all
<1>1. PICK o \in InsertAndGc(Head(s)) :
        mem' = o.mem /\ db' = o.db /\ confirmed' = Confirm(o)
  BY DEF TakesIn
<1>2. /\ Head(s) \in Blocks
      /\ Parent[Head(s)] \in DOMAIN mem.all \cup {Start}
      /\ BaseOf(confirmed) \in Chain(Parent[Head(s)])
      /\ SettledOn(Head(s), node)
  BY TakenBlock
<1>3. node \in Places /\ Memory(mem, confirmed, node) /\ db = DOMAIN mem.all
  BY DEF Shared, Nodes, Kept
<1>4. QED
  BY <1>1, <1>2, <1>3, InsertAndGcIs

(* A pull keeps what both sources keep.                                    *)
LEMMA TakesInShared ==
  ASSUME Shared,
         NEW points, points \subseteq DOMAIN mem.all \cup {Start},
         confirmed # NoBlock => confirmed \in points,
         NEW s \in Streams(points), TakesIn(s)
  PROVE  Shared'
<1> DEFINE b == Head(s)
<1>1. /\ OnStream(s, DOMAIN mem.all, confirmed, node, top) /\ s # << >>
      /\ b \in Blocks /\ BaseOf(confirmed) \in Chain(Parent[b])
      /\ SettledOn(b, node) /\ Number[b] <= top
  BY TakenBlock
<1>2. Nodes'
  BY DEF TakesIn, nodeVars, Shared, Nodes
<1>3. node' = node /\ top' = top /\ stream' = Tail(s)
  BY DEF TakesIn, nodeVars
<1>4. /\ \A T, d : b \in T /\ BaseOf(d) \in Chain(b)
                   => OnStream(Tail(s), T, d, node, top)
      /\ DOMAIN mem.all \in SUBSET Blocks
  BY <1>1, KeptFacts, HeadOfStream
<1>5. CASE Has(mem, b)
  <2>1. mem' = mem /\ db' = db /\ confirmed' = confirmed
    BY <1>5 DEF TakesIn
  <2>2. Kept'
    BY <1>3, <2>1 DEF Shared, Kept
  <2>3. BaseOf(confirmed) \in Chain(b)
    BY <1>1, ChainOfParent
  <2>4. OnStream(Tail(s), DOMAIN mem.all, confirmed, node, top)
    BY <1>4, <1>5, <2>3 DEF Has
  <2>5. Requested'
    BY <1>3, <2>1, <2>4 DEF Requested
  <2>6. QED
    BY <1>2, <2>2, <2>5 DEF Shared
<1>6. CASE ~Has(mem, b)
  <2>1. /\ Collection(mem, confirmed, b, mem', confirmed', node)
        /\ db' = DOMAIN mem'.all
    BY <1>6, TakenIsCollected
  <2>2. /\ Memory(mem', confirmed', node)
        /\ DOMAIN mem'.all \subseteq DOMAIN mem.all \cup {b}
        /\ b \in DOMAIN mem'.all /\ BaseOf(confirmed') \in Chain(b)
    BY <2>1 DEF Collection
  <2>3. \A x \in DOMAIN mem'.all : Number[x] <= top
    BY <1>1, <2>2 DEF Shared, Kept
  <2>4. Kept'
    BY <1>3, <2>1, <2>2, <2>3 DEF Kept
  <2>5. OnStream(Tail(s), DOMAIN mem'.all, confirmed', node, top)
    BY <1>4, <2>2
  <2>6. Requested'
    BY <1>3, <2>5 DEF Requested
  <2>7. QED
    BY <1>2, <2>4, <2>6 DEF Shared
<1>7. QED
  BY <1>5, <1>6

(* So does a lost connection.                                              *)
LEMMA StreamEndsShared ==
  ASSUME Shared, StreamEnds
  PROVE  Shared'
<1>1. /\ stream' = << >> /\ breaks' = breaks + 1 /\ breaks < MaxBreaks
      /\ node' = node /\ top' = top /\ moves' = moves
      /\ mem' = mem /\ db' = db /\ confirmed' = confirmed
  BY DEF StreamEnds, nodeVars
<1>2. MaxBreaks \in Nat
  BY SourcesAssumption
<1>3. QED
  BY <1>1, <1>2 DEF Shared, Nodes, Kept, Requested

(* And a restart, after which the same block is confirmed.                 *)
LEMMA RestartShared ==
  ASSUME Shared, Restart
  PROVE  /\ Shared' /\ confirmed' = confirmed
         /\ DOMAIN mem'.all = DOMAIN mem.all
         /\ IF db = {} THEN last' = NoBlock ELSE last' \in LastOfIter(mem')
         /\ last' \in DOMAIN mem.all \cup {NoBlock}
<1>1. /\ stream' = << >> /\ breaks' = breaks + 1 /\ breaks < MaxBreaks
      /\ node' = node /\ top' = top /\ moves' = moves
      /\ mem' = Load(db) /\ db' = db
      /\ IF db = {} THEN last' = NoBlock ELSE last' \in LastOfIter(mem')
  BY DEF Restart, nodeVars
<1>2. node \in Places /\ Memory(mem, confirmed, node) /\ db = DOMAIN mem.all
  BY DEF Shared, Nodes, Kept
<1>3. /\ Memory(mem', confirmed, node) /\ DOMAIN mem'.all = db
      /\ db = {} => confirmed = NoBlock
      /\ \A tip \in BestTips(mem') :
           Chosen(Names(Ancestor(mem', {}, tip, Depth)), NoBlock) = confirmed
      /\ LastOfIter(mem') \subseteq db
  BY <1>1, <1>2, LoadKeeps
<1>4. confirmed' = confirmed
  BY <1>3 DEF Restart
<1>5. Nodes'
  <2>1. MaxBreaks \in Nat
    BY SourcesAssumption
  <2>2. QED
    BY <1>1, <2>1 DEF Shared, Nodes
<1>6. Kept'
  BY <1>1, <1>2, <1>3, <1>4 DEF Shared, Kept
<1>7. Requested'
  BY <1>1 DEF Requested
<1>8. QED
  BY <1>1, <1>2, <1>3, <1>4, <1>5, <1>6, <1>7 DEF Shared

(* The consumer does not touch it.                                         *)
LEMMA SharedStays ==
  ASSUME Shared, UNCHANGED <<nodeVars, stream, mem, db, confirmed, breaks>>
  PROVE  Shared'
BY DEF Shared, Nodes, Kept, Requested, nodeVars

-----------------------------------------------------------------------------
(* MultiverseSource: the consumer has the confirmed block, or its parent,  *)
(* or has nothing and that parent is the start.                            *)
Given ==
  /\ events = << >> /\ last \in Blocks \cup {NoBlock}
  /\ event # NoEvent =>
       /\ confirmed # NoBlock /\ event = InnerEvent(confirmed)
       /\ from # confirmed
  /\ IF confirmed = NoBlock THEN from \in {NoBlock, Start}
     ELSE \/ from \in {confirmed, Parent[confirmed]}
          \/ from = NoBlock /\ Parent[confirmed] = Start

(* The parent of the confirmed block is in memory, unless it is the start. *)
LEMMA ParentOfConfirmed ==
  ASSUME Shared, confirmed # NoBlock
  PROVE  /\ confirmed \in Blocks /\ Has(mem, confirmed)
         /\ Parent[confirmed] \in DOMAIN mem.all \cup {Start}
         /\ Parent[confirmed] # confirmed
         /\ Parent[confirmed] \in Blocks \cup {Start}
         /\ Parent[confirmed] # NoBlock
<1>1. confirmed \in Blocks /\ confirmed \in DOMAIN mem.all
  BY KeptFacts
<1>2. BaseOf(confirmed) = confirmed /\ Number[confirmed] \in Nat
  BY <1>1, NumberFacts DEF BaseOf, Places
<1>3. CompleteFrom(DOMAIN mem.all, Number[confirmed])
  BY <1>2 DEF Shared, Kept, Memory, Window
<1>4. Parent[confirmed] \in DOMAIN mem.all \cup {Start}
  BY <1>1, <1>2, <1>3 DEF CompleteFrom
<1>5. Parent[confirmed] # confirmed /\ Parent[confirmed] \in Blocks \cup {Start}
  BY <1>1, BlockForestAssumption, SourcesAssumption
<1>6. QED
  BY <1>1, <1>4, <1>5, SourcesAssumption DEF Has

(* A consumer that may pull a new block has the confirmed one.             *)
LEMMA PullsFromConfirmed ==
  ASSUME Shared, Given, ~GiveAgain, ~NonContinuous
  PROVE  IF confirmed = NoBlock THEN from \in {NoBlock, Start}
         ELSE from = confirmed
<1>1. CASE confirmed = NoBlock
  BY <1>1 DEF Given
<1>2. CASE confirmed # NoBlock
  <2>1. Has(mem, confirmed)
    BY <1>2, ParentOfConfirmed
  <2>2. from # KnownParent /\ from \in {NoBlock, confirmed}
    BY <1>2, <2>1 DEF GiveAgain, NonContinuous
  <2>3. ASSUME from = NoBlock
        PROVE  FALSE
    <3>1. Parent[confirmed] = Start /\ ~Has(mem, Start)
      BY <1>2, <2>3, ParentOfConfirmed, KeptFacts DEF Given, Has
    <3>2. QED
      BY <2>2, <2>3, <3>1 DEF KnownParent
  <2>4. QED
    BY <1>2, <2>2, <2>3
<1>3. QED
  BY <1>1, <1>2

(* A pull of a MultiverseSource.                                           *)
LEMMA PullInnerKeeps ==
  ASSUME Shared, Given, PullInner
  PROVE  Shared' /\ Given'
<1>1. /\ IF confirmed = NoBlock THEN from \in {NoBlock, Start}
         ELSE from = confirmed
      /\ event = NoEvent
  BY PullsFromConfirmed DEF PullInner
<1>2. StablePoints \subseteq DOMAIN mem.all \cup {Start}
  BY <1>1, KeptFacts DEF StablePoints, TipPoints, Optional
<1>3. confirmed # NoBlock => confirmed \in StablePoints
  BY <1>1 DEF StablePoints, Optional
<1>4. PICK s \in Streams(StablePoints) :
        /\ stream' = Tail(s)
        /\ IF Has(mem, Head(s))
           THEN UNCHANGED <<mem, db, confirmed, event>>
           ELSE \E o \in InsertAndGc(Head(s)) :
                  /\ mem' = o.mem
                  /\ db' = o.db
                  /\ confirmed' = Confirm(o)
                  /\ event' = IF confirmed' = confirmed THEN NoEvent
                              ELSE InnerEvent(confirmed')
  BY DEF PullInner
<1>5. TakesIn(s)
  <2>1. UNCHANGED <<nodeVars, breaks>>
    BY DEF PullInner
  <2>2. QED
    BY <1>4, <2>1 DEF TakesIn
<1>6. Shared'
  BY <1>2, <1>3, <1>5, TakesInShared
<1>7. last' = last /\ events' = events /\ from' = from
  BY DEF PullInner
<1>8. CASE Has(mem, Head(s))
  BY <1>4, <1>6, <1>7, <1>8 DEF Given
<1>9. CASE ~Has(mem, Head(s))
  <2>1. Collection(mem, confirmed, Head(s), mem', confirmed', node)
    BY <1>2, <1>3, <1>5, <1>9, TakenIsCollected
  <2>2. \/ confirmed' = confirmed
        \/ confirmed' # NoBlock /\ Parent[confirmed'] = BaseOf(confirmed)
    BY <2>1 DEF Collection
  <2>3. event' = IF confirmed' = confirmed THEN NoEvent ELSE InnerEvent(confirmed')
    BY <1>4, <1>9
  <2>4. CASE confirmed' = confirmed
    BY <1>6, <1>7, <2>3, <2>4 DEF Given
  <2>5. CASE confirmed' # confirmed
    <3>1. confirmed' \in Blocks /\ confirmed' # NoBlock
      BY <2>1, <2>2, <2>5 DEF Collection, Memory
    <3>2. Parent[confirmed'] = IF confirmed = NoBlock THEN Start ELSE confirmed
      BY <2>2, <2>5 DEF BaseOf
    <3>3. Parent[confirmed'] # confirmed' /\ NoBlock \notin Blocks
      BY <3>1, BlockForestAssumption, SourcesAssumption
    <3>4. \/ from' = Parent[confirmed']
          \/ from' = NoBlock /\ Parent[confirmed'] = Start
      BY <1>1, <1>7, <3>2
    <3>5. event' = InnerEvent(confirmed') /\ from' # confirmed'
      BY <2>3, <2>5, <3>1, <3>3, <3>4
    <3>6. last' \in Blocks \cup {NoBlock} /\ events' = << >>
      BY <1>7 DEF Given
    <3>7. QED
      BY <1>6, <3>1, <3>4, <3>5, <3>6 DEF Given
  <2>6. QED
    BY <2>4, <2>5
<1>10. QED
  BY <1>8, <1>9

(* A MultiverseSource keeps its consumer at the confirmed block.           *)
LEMMA StableKeeps ==
  ASSUME Shared, Given, StablePull \/ StableOther
  PROVE  Shared' /\ Given'
<1>1. CASE PullConfirmed
  <2>1. /\ UNCHANGED <<nodeVars, stream, mem, db, confirmed, breaks>>
        /\ last' = last /\ events' = events /\ from' = from
        /\ event' = InnerEvent(confirmed)
        /\ confirmed # NoBlock /\ from = KnownParent
    BY <1>1 DEF PullConfirmed, sourceVars, GiveAgain
  <2>2. from # confirmed
    BY <2>1, ParentOfConfirmed DEF KnownParent
  <2>3. Given'
    BY <2>1, <2>2 DEF Given
  <2>4. QED
    BY <2>1, <2>3, SharedStays
<1>2. CASE PullInner
  BY <1>2, PullInnerKeeps
<1>3. ASSUME NEW t \in Blocks, NodeMoves(t)
      PROVE  Shared' /\ Given'
  <2>1. /\ confirmed' = confirmed /\ last' = last /\ events' = events
        /\ event' = event /\ from' = from
    BY <1>3 DEF NodeMoves, sourceVars
  <2>2. QED
    BY <1>3, <2>1, NodeMovesShared DEF Given
<1>4. CASE Consume
  <2>1. /\ UNCHANGED <<nodeVars, stream, mem, db, confirmed, breaks>>
        /\ last' = last /\ events' = events
        /\ event # NoEvent /\ from' = event.block /\ event' = NoEvent
    BY <1>4 DEF Consume, sourceVars
  <2>2. from' = confirmed /\ confirmed # NoBlock
    BY <2>1 DEF Given, InnerEvent
  <2>3. QED
    BY <2>1, <2>2, SharedStays DEF Given
<1>5. CASE StreamEnds
  <2>1. /\ confirmed' = confirmed /\ last' = last /\ events' = events
        /\ event' = event /\ from' = from
    BY <1>5 DEF StreamEnds
  <2>2. QED
    BY <1>5, <2>1, StreamEndsShared DEF Given
<1>6. CASE Restart
  <2>1. /\ Shared' /\ confirmed' = confirmed
        /\ last' \in DOMAIN mem.all \cup {NoBlock}
    BY <1>6, RestartShared
  <2>2. events' = << >> /\ event' = NoEvent /\ from' = from
    BY <1>6 DEF Restart
  <2>3. last' \in Blocks \cup {NoBlock}
    BY <2>1, KeptFacts
  <2>4. QED
    BY <2>1, <2>2, <2>3 DEF Given
<1>7. QED
  BY <1>1, <1>2, <1>3, <1>4, <1>5, <1>6 DEF StablePull, StableOther

(* What it gives follows from that.                                        *)
LEMMA StableGives ==
  ASSUME Shared, Given
  PROVE  StableChainIsUnbroken /\ ConsumerCanContinue
<1>1. ASSUME event # NoEvent
      PROVE  \/ Parent[event.block] = from
             \/ from = NoBlock /\ Parent[event.block] = Start
  <2>1. confirmed # NoBlock /\ event.block = confirmed /\ from # confirmed
    BY <1>1 DEF Given, InnerEvent
  <2>2. QED
    BY <2>1 DEF Given
<1>2. ASSUME NonContinuous
      PROVE  from = Start
  <2>1. /\ confirmed # NoBlock /\ from # KnownParent
        /\ from # NoBlock /\ from # confirmed
    BY <1>2 DEF NonContinuous, GiveAgain
  <2>2. from = Parent[confirmed]
    BY <2>1 DEF Given
  <2>3. QED
    BY <2>1, <2>2, ParentOfConfirmed DEF KnownParent, Has
<1>3. QED
  BY <1>1, <1>2 DEF StableChainIsUnbroken, ConsumerCanContinue

-----------------------------------------------------------------------------
(* ForkHandlingSource: what each event does to the place of the consumer.  *)
ForkEvent == [kind : {"inner", "rollback"}, block : Places]

Good(place, e) ==
  \/ \E b \in Blocks : e = InnerEvent(b) /\ Parent[b] = place
  \/ \E b \in Chain(place) : e = Rollback(b)

PlaceOf(f, e) == IF e = NoEvent THEN f ELSE e.block
PlaceBefore(p, s, i) == IF i = Len(s) THEN p ELSE s[i + 1].block
FinalPlace(p, s) == IF s = << >> THEN p ELSE s[1].block

(* An event and the stack below it lead from one block to another.         *)
LeadsTo(f, e, s, l) ==
  /\ f \in Places
  /\ e = NoEvent \/ Good(f, e)
  /\ s \in Seq(ForkEvent)
  /\ \A i \in 1..Len(s) : Good(PlaceBefore(PlaceOf(f, e), s, i), s[i])
  /\ FinalPlace(PlaceOf(f, e), s) = l

(* The branch of a block is where its chain is held without a gap.         *)
LEMMA BranchIs ==
  ASSUME NEW m, NEW b \in Places
  PROVE  \E L \in 0..Above(b) + 1 :
           /\ Branch(m, b) = [i \in 1..L |-> Below(b)[i - 1]]
           /\ \A n \in 0..Above(b) : n < L <=> \A k \in 0..n : Has(m, Below(b)[k])
<1> DEFINE S == {n \in 0..Above(b) : \A k \in 0..n : Has(m, Below(b)[k])}
<1>1. Above(b) \in Nat /\ DOMAIN Below(b) = 0..Above(b)
  BY BelowSteps
<1>2. BranchLen(m, b) = Cardinality(S)
  BY <1>1 DEF BranchLen
<1>3. \E L \in 0..Above(b) + 1 : S = 0..L - 1
  <2> DEFINE T == {n \in 0..Above(b) + 1 : n \notin S}
  <2>1. T \in SUBSET (0..Above(b) + 1) /\ Above(b) + 1 \in T
    BY <1>1
  <2>2. PICK L \in T : \A y \in T : L <= y
    <3>1. Above(b) + 1 \in Nat /\ T # {}
      BY <1>1, <2>1
    <3>. HIDE DEF T
    <3>2. QED
      BY <2>1, <3>1, LeastNumber
  <2>3. L \in 0..Above(b) + 1 /\ L \notin S
    BY <2>2
  <2>4. ASSUME NEW n \in 0..L - 1
        PROVE  n \in S
    <3>1. n \in 0..Above(b) + 1 /\ n < L
      BY <1>1, <2>3, <2>4
    <3>2. n \notin T
      BY <1>1, <2>2, <2>3, <3>1
    <3>3. QED
      BY <3>1, <3>2
  <2>5. ASSUME NEW n \in S
        PROVE  n \in 0..L - 1
    <3>1. SUFFICES ASSUME L <= n PROVE FALSE
      BY <1>1, <2>3
    <3>2. L \in 0..Above(b) /\ \A k \in 0..L : k \in 0..n
      BY <1>1, <2>3, <2>5, <3>1
    <3>3. L \in S
      BY <2>5, <3>2
    <3>4. QED
      BY <2>3, <3>3
  <2>. HIDE DEF S, T
  <2>6. S = 0..L - 1
    BY <2>4, <2>5
  <2>7. QED
    BY <2>3, <2>6
<1>4. PICK L \in 0..Above(b) + 1 : S = 0..L - 1
  BY <1>3
<1>5. Cardinality(S) = L
  <2>1. 0 \in Int /\ L - 1 \in Int
    BY <1>1
  <2>2. Cardinality(0..L - 1) = IF 0 > L - 1 THEN 0 ELSE (L - 1) - 0 + 1
    BY <2>1, FS_Interval
  <2>3. (IF 0 > L - 1 THEN 0 ELSE (L - 1) - 0 + 1) = L
    BY <1>1
  <2>. HIDE DEF S
  <2>4. QED
    BY <1>4, <2>2, <2>3
<1>6. ASSUME NEW n \in 0..Above(b)
      PROVE  n < L <=> \A k \in 0..n : Has(m, Below(b)[k])
  <2>1. n \in S <=> n < L
    BY <1>1, <1>4
  <2>2. QED
    BY <2>1
<1>. HIDE DEF S
<1>7. Branch(m, b) = [i \in 1..L |-> Below(b)[i - 1]]
  BY <1>2, <1>5 DEF Branch
<1>8. QED
  BY <1>6, <1>7

(* The events that lead from one block to another, if their branches meet. *)
LEMMA SwitchIs ==
  ASSUME NEW m, NEW x \in Places, NEW b \in Places,
         NEW z \in Chain(x) \cap Chain(b),
         \A y \in Chain(x) \cup Chain(b) :
           Number[z] <= Number[y] => y \in DOMAIN m.all
  PROVE  \E n \in 0..Above(b) :
           /\ Switch(m, x, b) = [i \in 1..n |-> InnerEvent(Below(b)[i - 1])]
                                  \o <<Rollback(Below(b)[n])>>
           /\ Below(b)[n] \in Chain(x)
<1>1. PICK Lx \in 0..Above(x) + 1 :
        /\ Branch(m, x) = [i \in 1..Lx |-> Below(x)[i - 1]]
        /\ \A n \in 0..Above(x) : n < Lx <=> \A k \in 0..n : Has(m, Below(x)[k])
  BY BranchIs
<1>2. PICK L \in 0..Above(b) + 1 :
        /\ Branch(m, b) = [i \in 1..L |-> Below(b)[i - 1]]
        /\ \A n \in 0..Above(b) : n < L <=> \A k \in 0..n : Has(m, Below(b)[k])
  BY BranchIs
<1> DEFINE old == ToSet(Branch(m, x))
           new == Branch(m, b)
           common == {i \in DOMAIN new : new[i] \in old}
<1>3. /\ Above(x) \in Nat /\ Above(b) \in Nat
      /\ \A k \in 0..Above(x) : Below(x)[k] \in Chain(x)
      /\ \A k \in 0..Above(b) : Below(b)[k] \in Chain(b)
      /\ \A k \in 0..Above(x) : Number[Below(x)[k]] = Number[x] - k
      /\ \A k \in 0..Above(b) : Number[Below(b)[k]] = Number[b] - k
  BY BelowSteps, BelowIn, ChainFacts
<1> DEFINE i0 == Number[x] - Number[z]
           j0 == Number[b] - Number[z]
<1>4. /\ Number[z] \in Nat /\ Number[x] \in Nat /\ Number[b] \in Nat
      /\ i0 \in 0..Above(x) /\ Below(x)[i0] = z
      /\ j0 \in 0..Above(b) /\ Below(b)[j0] = z
  BY ChainFacts
<1>5. i0 < Lx
  <2>1. ASSUME NEW k \in 0..i0
        PROVE  Has(m, Below(x)[k])
    <3>1. k \in 0..Above(x)
      BY <1>3, <1>4
    <3>2. Below(x)[k] \in Chain(x) /\ Number[z] <= Number[Below(x)[k]]
      BY <1>3, <1>4, <3>1
    <3>3. QED
      BY <3>2 DEF Has
  <2>2. QED
    BY <1>1, <1>4, <2>1
<1>6. j0 < L
  <2>1. ASSUME NEW k \in 0..j0
        PROVE  Has(m, Below(b)[k])
    <3>1. k \in 0..Above(b)
      BY <1>3, <1>4
    <3>2. Below(b)[k] \in Chain(b) /\ Number[z] <= Number[Below(b)[k]]
      BY <1>3, <1>4, <3>1
    <3>3. QED
      BY <3>2 DEF Has
  <2>2. QED
    BY <1>2, <1>4, <2>1
<1>. HIDE DEF i0, j0
<1>7. z \in old /\ old \subseteq Chain(x)
  <2>1. i0 + 1 \in 1..Lx /\ Branch(m, x)[i0 + 1] = z
    BY <1>1, <1>3, <1>4, <1>5
  <2>2. DOMAIN Branch(m, x) = 1..Lx
    BY <1>1
  <2>3. z \in old
    BY <2>1, <2>2 DEF ToSet
  <2>4. ASSUME NEW y \in old
        PROVE  y \in Chain(x)
    <3>1. PICK i \in 1..Lx : y = Branch(m, x)[i]
      BY <2>2 DEF ToSet
    <3>2. y = Below(x)[i - 1] /\ i - 1 \in 0..Above(x)
      BY <1>1, <1>3, <3>1
    <3>3. QED
      BY <1>3, <3>2
  <2>5. QED
    BY <2>3, <2>4
<1>8. j0 + 1 \in common
  <2>1. j0 + 1 \in 1..L /\ new[j0 + 1] = z
    BY <1>2, <1>3, <1>4, <1>6
  <2>2. DOMAIN new = 1..L
    BY <1>2
  <2>3. QED
    BY <1>7, <2>1, <2>2
<1>9. common \subseteq 1..L /\ common # {} /\ L \in Nat
  BY <1>2, <1>8
<1> DEFINE mn == Min(common)
<1>10. mn \in common
  <2>1. common \in SUBSET (0..L) /\ common # {} /\ L \in Nat
    BY <1>9
  <2>. HIDE DEF common
  <2>2. \E y \in common : \A w \in common : y <= w
    BY <2>1, LeastNumber
  <2>3. QED
    BY <2>2, Zenon DEF Min
<1>11. mn \in 1..L /\ new[mn] \in old
  BY <1>9, <1>10
<1> DEFINE n == mn - 1
<1>12. /\ n \in 0..Above(b) /\ n + 1 = mn /\ n < L
       /\ new[n + 1] = Below(b)[n]
       /\ \A i \in 1..n : i \in 1..L
  <2>. HIDE DEF new, old, mn
  <2>1. /\ n \in 0..Above(b) /\ n + 1 = mn /\ n < L
        /\ \A i \in 1..n : i \in 1..L
    BY <1>2, <1>3, <1>11
  <2>2. new[mn] = Below(b)[mn - 1]
    BY <1>2, <1>11 DEF new
  <2>3. QED
    BY <2>1, <2>2
<1>13. Switch(m, x, b)
         = [i \in 1..n |-> InnerEvent(new[i])] \o <<Rollback(new[n + 1])>>
  <2>. HIDE DEF old
  <2>1. common # {}
    BY <1>9
  <2>2. QED
    BY <2>1 DEF Switch, old
<1>14. [i \in 1..n |-> InnerEvent(new[i])]
         = [i \in 1..n |-> InnerEvent(Below(b)[i - 1])]
  <2>1. \A i \in 1..n : new[i] = Below(b)[i - 1]
    BY <1>2, <1>12
  <2>2. QED
    BY <2>1
<1>15. Below(b)[n] \in Chain(x)
  BY <1>7, <1>11, <1>12
<1>. HIDE DEF old, new, common, mn, n
<1>16. QED
  BY <1>12, <1>13, <1>14, <1>15

(* The last element of a sequence and the others.                          *)
LEMMA FrontOfConcat ==
  ASSUME NEW T, NEW s \in Seq(T), NEW e \in T
  PROVE  /\ Last(s \o <<e>>) = e /\ Front(s \o <<e>>) = s
         /\ s \o <<e>> # << >>
<1> DEFINE u == s \o <<e>>
<1>1. /\ u \in Seq(T) /\ Len(u) = Len(s) + 1 /\ Len(s) \in Nat
      /\ \A i \in 1..Len(s) : u[i] = s[i]
      /\ u[Len(s) + 1] = e
  OBVIOUS
<1>. HIDE DEF u
<1>2. Last(u) = e
  BY <1>1 DEF Last
<1>3. Front(u) = s
  <2>1. Front(u) = SubSeq(u, 1, Len(s))
    BY <1>1 DEF Front
  <2>2. SubSeq(u, 1, Len(s)) = s
    BY <1>1
  <2>3. QED
    BY <2>1, <2>2
<1>4. u # << >>
  BY <1>1
<1>5. QED
  BY <1>2, <1>3, <1>4 DEF u

(* A good event leads from a place to a place.                             *)
LEMMA GoodEvent ==
  ASSUME NEW p \in Places, NEW e, Good(p, e)
  PROVE  /\ e \in ForkEvent /\ e # NoEvent /\ e.block \in Places
         /\ e.kind = "inner" => e.block \in Blocks /\ Parent[e.block] = p
         /\ e.kind = "rollback" => e.block \in Chain(p)
         /\ e = InnerEvent(e.block) \/ e = Rollback(e.block)
<1>1. ASSUME NEW b \in Blocks, e = InnerEvent(b), Parent[b] = p
      PROVE  /\ e \in ForkEvent /\ e # NoEvent /\ e.block = b
             /\ e.kind = "inner"
  BY <1>1 DEF InnerEvent, NoEvent, ForkEvent, Places
<1>2. ASSUME NEW b \in Chain(p), e = Rollback(b)
      PROVE  /\ e \in ForkEvent /\ e # NoEvent /\ e.block = b
             /\ e.kind = "rollback" /\ b \in Places
  <2>1. b \in Places
    BY ChainFacts
  <2>2. QED
    BY <1>2, <2>1 DEF Rollback, NoEvent, ForkEvent
<1>3. CASE \E b \in Blocks : e = InnerEvent(b) /\ Parent[b] = p
  BY <1>1, <1>3 DEF Places
<1>4. CASE \E b \in Chain(p) : e = Rollback(b)
  BY <1>2, <1>4
<1>5. QED
  BY <1>3, <1>4 DEF Good

(* The consumer takes the event.                                           *)
LEMMA ConsumeLeads ==
  ASSUME NEW f, NEW e, NEW s, NEW l, LeadsTo(f, e, s, l), e # NoEvent
  PROVE  LeadsTo(e.block, NoEvent, s, l)
<1>1. e.block \in Places
  BY GoodEvent DEF LeadsTo
<1>2. PlaceOf(f, e) = e.block /\ PlaceOf(e.block, NoEvent) = e.block
  BY DEF PlaceOf
<1>3. QED
  BY <1>1, <1>2, Zenon DEF LeadsTo

(* The next event comes from the stack.                                    *)
LEMMA PendingLeads ==
  ASSUME NEW f, NEW s, NEW l, LeadsTo(f, NoEvent, s, l), s # << >>
  PROVE  LeadsTo(f, Last(s), Front(s), l)
<1>1. /\ f \in Places /\ s \in Seq(ForkEvent)
      /\ \A i \in 1..Len(s) : Good(PlaceBefore(f, s, i), s[i])
      /\ s # << >> => s[1].block = l
  BY DEF LeadsTo, PlaceOf, FinalPlace
<1> DEFINE u == Front(s)
           e == Last(s)
<1>2. /\ Len(s) \in Nat /\ Len(s) > 0 /\ e = s[Len(s)]
      /\ u \in Seq(ForkEvent) /\ Len(u) = Len(s) - 1
      /\ \A i \in 1..Len(s) - 1 : u[i] = s[i]
  <2>1. Len(s) \in Nat /\ Len(s) > 0
    BY <1>1, LenProperties
  <2>2. u = SubSeq(s, 1, Len(s) - 1) /\ e = s[Len(s)]
    BY DEF Front, Last
  <2>3. /\ SubSeq(s, 1, Len(s) - 1) \in Seq(ForkEvent)
        /\ Len(SubSeq(s, 1, Len(s) - 1)) = Len(s) - 1
        /\ \A i \in 1..Len(s) - 1 : SubSeq(s, 1, Len(s) - 1)[i] = s[i]
    <3> DEFINE k == Len(s) - 1
    <3>1. k \in Int /\ 1 \in Int /\ k >= 0 /\ \A i \in 1..k : s[i] \in ForkEvent
      BY <1>1, <2>1
    <3>2. \A i \in 1..k - 1 + 1 : 1 + i - 1 = i
      OBVIOUS
    <3>. HIDE DEF k
    <3>3. k - 1 + 1 = k /\ (IF 1 <= k THEN k - 1 + 1 ELSE 0) = k
      BY <3>1
    <3>4. /\ SubSeq(s, 1, k) \in Seq(ForkEvent)
          /\ Len(SubSeq(s, 1, k)) = IF 1 <= k THEN k - 1 + 1 ELSE 0
          /\ \A i \in 1..k - 1 + 1 : SubSeq(s, 1, k)[i] = s[1 + i - 1]
      BY <3>1, SubSeqProperties
    <3>5. QED
      BY <3>2, <3>3, <3>4 DEF k
  <2>4. QED
    BY <2>1, <2>2, <2>3
<1>. HIDE DEF u, e
<1>3. Good(f, e)
  BY <1>1, <1>2 DEF PlaceBefore
<1>4. PlaceOf(f, e) = e.block
  BY <1>1, <1>3, GoodEvent DEF PlaceOf
<1>5. ASSUME NEW i \in 1..Len(u)
      PROVE  Good(PlaceBefore(e.block, u, i), u[i])
  <2>1. /\ i \in 1..Len(s) /\ i # Len(s) /\ u[i] = s[i]
        /\ PlaceBefore(f, s, i) = s[i + 1].block
    BY <1>2 DEF PlaceBefore
  <2>2. PlaceBefore(e.block, u, i) = s[i + 1].block
    <3>1. CASE i = Len(u)
      <4>1. i + 1 = Len(s)
        BY <1>2, <3>1
      <4>2. QED
        BY <1>2, <3>1, <4>1 DEF PlaceBefore
    <3>2. CASE i # Len(u)
      <4>1. i + 1 \in 1..Len(s) - 1
        BY <1>2, <3>2
      <4>2. QED
        BY <1>2, <3>2, <4>1 DEF PlaceBefore
    <3>3. QED
      BY <3>1, <3>2
  <2>3. QED
    BY <1>1, <2>1, <2>2
<1>6. FinalPlace(e.block, u) = l
  <2>1. CASE u = << >>
    <3>1. Len(s) = 1
      BY <1>2, <2>1
    <3>2. QED
      BY <1>1, <1>2, <2>1, <3>1 DEF FinalPlace
  <2>2. CASE u # << >>
    <3>1. u[1] = s[1]
      BY <1>2, <2>2
    <3>2. QED
      BY <1>1, <2>2, <3>1 DEF FinalPlace
  <2>3. QED
    BY <2>1, <2>2
<1>7. LeadsTo(f, e, u, l)
  BY <1>1, <1>2, <1>3, <1>4, <1>5, <1>6 DEF LeadsTo
<1>8. QED
  BY <1>7 DEF e, u

(* The events of a switch lead to the new block, a rollback first.         *)
LEMMA SwitchLeads ==
  ASSUME NEW m, NEW x \in Places, NEW b \in Places,
         NEW z \in Chain(x) \cap Chain(b),
         \A y \in Chain(x) \cup Chain(b) :
           Number[z] <= Number[y] => y \in DOMAIN m.all
  PROVE  LeadsTo(x, Last(Switch(m, x, b)), Front(Switch(m, x, b)), b)
<1>1. PICK n \in 0..Above(b) :
        /\ Switch(m, x, b) = [i \in 1..n |-> InnerEvent(Below(b)[i - 1])]
                               \o <<Rollback(Below(b)[n])>>
        /\ Below(b)[n] \in Chain(x)
  BY SwitchIs
<1> DEFINE s == [i \in 1..n |-> InnerEvent(Below(b)[i - 1])]
           e == Rollback(Below(b)[n])
<1>2. /\ Above(b) \in Nat /\ Below(b)[0] = b
      /\ \A k \in 0..Above(b) - 1 :
           Below(b)[k] \in Blocks /\ Below(b)[k + 1] = Parent[Below(b)[k]]
      /\ \A k \in 0..Above(b) : Below(b)[k] \in Places
  BY BelowSteps, BelowIn
<1>3. /\ Len(s) = n /\ n \in Nat
      /\ \A i \in 1..n : /\ s[i] = InnerEvent(Below(b)[i - 1])
                         /\ Below(b)[i - 1] \in Blocks
                         /\ Below(b)[i] = Parent[Below(b)[i - 1]]
  <2>1. n \in Nat /\ \A i \in 1..n : i - 1 \in 0..Above(b) - 1 /\ (i - 1) + 1 = i
    BY <1>2
  <2>2. \A i \in 1..n : /\ s[i] = InnerEvent(Below(b)[i - 1])
                        /\ Below(b)[i - 1] \in Blocks
                        /\ Below(b)[i] = Parent[Below(b)[i - 1]]
    BY <1>2, <2>1
  <2>3. QED
    BY <2>1, <2>2
<1>4. s \in Seq(ForkEvent)
  <2>1. \A i \in 1..n : InnerEvent(Below(b)[i - 1]) \in ForkEvent
    BY <1>3 DEF InnerEvent, ForkEvent, Places
  <2>2. QED
    BY <1>3, <2>1
<1>5. e \in ForkEvent /\ e # NoEvent /\ e.block = Below(b)[n]
  BY <1>2 DEF ForkEvent, Rollback, NoEvent
<1>6. Last(s \o <<e>>) = e /\ Front(s \o <<e>>) = s
  <2>. HIDE DEF s, e
  <2>1. QED
    BY <1>4, <1>5, FrontOfConcat
<1>7. Good(x, e)
  BY <1>1 DEF Good
<1>8. PlaceOf(x, e) = Below(b)[n]
  BY <1>5 DEF PlaceOf
<1>9. Switch(m, x, b) = s \o <<e>>
  BY <1>1
<1>. HIDE DEF s, e
<1>10. ASSUME NEW i \in 1..Len(s)
       PROVE  Good(PlaceBefore(Below(b)[n], s, i), s[i])
  <2>1. i \in 1..n /\ s[i] = InnerEvent(Below(b)[i - 1])
        /\ Below(b)[i - 1] \in Blocks /\ Parent[Below(b)[i - 1]] = Below(b)[i]
    BY <1>3
  <2>2. PlaceBefore(Below(b)[n], s, i) = Below(b)[i]
    <3>1. CASE i = n
      BY <1>3, <3>1 DEF PlaceBefore
    <3>2. CASE i # n
      <4>1. i + 1 \in 1..n /\ (i + 1) - 1 = i
        BY <1>3, <3>2
      <4>2. s[i + 1].block = Below(b)[i]
        BY <1>3, <4>1 DEF InnerEvent
      <4>3. QED
        BY <1>3, <3>2, <4>2 DEF PlaceBefore
    <3>3. QED
      BY <3>1, <3>2
  <2>3. QED
    BY <2>1, <2>2 DEF Good
<1>11. FinalPlace(Below(b)[n], s) = b
  <2>1. CASE n = 0
    BY <1>2, <1>3, <1>4, <2>1 DEF FinalPlace
  <2>2. CASE n # 0
    <3>1. 1 \in 1..n /\ s # << >>
      BY <1>3, <2>2
    <3>2. s[1].block = Below(b)[1 - 1]
      BY <1>3, <3>1 DEF InnerEvent
    <3>3. QED
      BY <1>2, <3>1, <3>2 DEF FinalPlace
  <2>3. QED
    BY <2>1, <2>2
<1>12. LeadsTo(x, e, s, b)
  BY <1>4, <1>7, <1>8, <1>10, <1>11 DEF LeadsTo
<1>13. QED
  BY <1>6, <1>9, <1>12

(* One block on top of another.                                            *)
LEMMA OneLeads ==
  ASSUME NEW b \in Blocks
  PROVE  LeadsTo(Parent[b], Last(<<InnerEvent(b)>>), Front(<<InnerEvent(b)>>), b)
<1>1. Parent[b] \in Places /\ InnerEvent(b) # NoEvent /\ InnerEvent(b).block = b
  BY NumberFacts DEF InnerEvent, NoEvent
<1>2. Last(<<InnerEvent(b)>>) = InnerEvent(b)
      /\ Front(<<InnerEvent(b)>>) = << >>
  <2>1. InnerEvent(b) \in ForkEvent /\ << >> \in Seq(ForkEvent)
    BY DEF InnerEvent, ForkEvent, Places
  <2>2. << >> \o <<InnerEvent(b)>> = <<InnerEvent(b)>>
    BY <2>1
  <2>3. QED
    BY <2>1, <2>2, FrontOfConcat
<1>3. Good(Parent[b], InnerEvent(b))
  BY DEF Good
<1>4. QED
  BY <1>1, <1>2, <1>3 DEF LeadsTo, PlaceOf, FinalPlace

(* The first block, after a rollback to the start.                         *)
LEMMA FirstLeads ==
  ASSUME NEW b \in Blocks, Parent[b] = Start
  PROVE  LET s == <<InnerEvent(b), Rollback(Start)>>
         IN LeadsTo(Start, Last(s), Front(s), b)
<1> DEFINE s == <<InnerEvent(b), Rollback(Start)>>
<1>1. /\ Start \in Places /\ b \in Places
      /\ Rollback(Start) # NoEvent /\ Rollback(Start).block = Start
      /\ InnerEvent(b) \in ForkEvent /\ InnerEvent(b).block = b
  BY NumberFacts DEF Rollback, NoEvent, ForkEvent, InnerEvent, Places
<1>2. Last(s) = Rollback(Start) /\ Front(s) = <<InnerEvent(b)>>
  <2>1. /\ Rollback(Start) \in ForkEvent
        /\ <<InnerEvent(b)>> \in Seq(ForkEvent)
        /\ s = <<InnerEvent(b)>> \o <<Rollback(Start)>>
    BY <1>1 DEF Rollback, ForkEvent
  <2>. HIDE DEF s
  <2>2. QED
    BY <2>1, FrontOfConcat
<1>3. Good(Start, Rollback(Start)) /\ Good(Start, InnerEvent(b))
  BY <1>1, ChainFacts DEF Good
<1>4. \A i \in 1..Len(<<InnerEvent(b)>>) :
        Good(PlaceBefore(Start, <<InnerEvent(b)>>, i), <<InnerEvent(b)>>[i])
  BY <1>3 DEF PlaceBefore
<1>5. FinalPlace(Start, <<InnerEvent(b)>>) = b
  BY <1>1 DEF FinalPlace
<1>6. PlaceOf(Start, Rollback(Start)) = Start
  BY <1>1 DEF PlaceOf
<1>7. <<InnerEvent(b)>> \in Seq(ForkEvent)
  BY <1>1
<1>8. LeadsTo(Start, Rollback(Start), <<InnerEvent(b)>>, b)
  BY <1>1, <1>3, <1>4, <1>5, <1>6, <1>7 DEF LeadsTo
<1>9. QED
  BY <1>2, <1>8

-----------------------------------------------------------------------------
(* A block in memory that every branch goes through: the confirmed block,  *)
(* or, as long as there is none, the block on top of the start.            *)
Anchored(r, S, c, l, s) ==
  /\ r \in S /\ r \in Chain(l)
  /\ s # << >> => r \in Chain(Parent[Head(s)])
  /\ IF c # NoBlock THEN r = c
     ELSE Parent[r] = Start /\ \A b \in S : r \in Chain(b)

Branches ==
  IF last = NoBlock
  THEN /\ DOMAIN mem.all = {} /\ from = Start
       /\ event = NoEvent /\ events = << >>
  ELSE /\ last \in DOMAIN mem.all
       /\ LeadsTo(from, event, events, last)
       /\ \E r : Anchored(r, DOMAIN mem.all, confirmed, last, stream)

(* The next block is on top of it, too.                                    *)
LEMMA AnchorBelowHead ==
  ASSUME Shared, NEW r, Anchored(r, DOMAIN mem.all, confirmed, last, stream),
         NEW points, points \subseteq DOMAIN mem.all, points # {},
         confirmed # NoBlock => confirmed \in points,
         NEW s \in Streams(points)
  PROVE  r \in Chain(Parent[Head(s)])
<1>1. /\ s # << >>
      /\ s = stream \/ points = {} \/ Parent[Head(s)] \in points
      /\ BaseOf(confirmed) \in Chain(Parent[Head(s)])
  BY TakenBlock
<1>2. CASE confirmed # NoBlock
  BY <1>1, <1>2 DEF Anchored, BaseOf
<1>3. CASE confirmed = NoBlock
  BY <1>1, <1>3 DEF Anchored
<1>4. QED
  BY <1>2, <1>3

(* It is a block, not below the base.                                      *)
LEMMA AnchorFacts ==
  ASSUME Shared, NEW r, NEW l, NEW s,
         Anchored(r, DOMAIN mem.all, confirmed, l, s)
  PROVE  /\ r \in Blocks /\ r \in DOMAIN mem.all
         /\ Number[Start] < Number[r] /\ Number[r] \in Nat
         /\ Number[Start] \in Nat /\ Number[BaseOf(confirmed)] \in Nat
         /\ Number[BaseOf(confirmed)] <= Number[r]
<1>1. r \in DOMAIN mem.all /\ r \in Blocks /\ r \in Places
  BY KeptFacts DEF Anchored, Places
<1>2. /\ Number[Start] < Number[r] /\ Number[r] \in Nat
      /\ Number[Start] \in Nat
  BY <1>1, NumberFacts
<1>3. BaseOf(confirmed) = IF confirmed = NoBlock THEN Start ELSE r
  BY DEF Anchored, BaseOf
<1>4. QED
  BY <1>1, <1>2, <1>3

(* Down to it every branch is in memory, and stays there.                  *)
LEMMA HeldAbove ==
  ASSUME Shared, NEW r, NEW l \in DOMAIN mem.all, NEW s,
         Anchored(r, DOMAIN mem.all, confirmed, l, s),
         NEW b \in Blocks, b \notin DOMAIN mem.all,
         Parent[b] \in DOMAIN mem.all \cup {Start},
         BaseOf(confirmed) \in Chain(Parent[b]),
         NEW M, NEW d, Collection(mem, confirmed, b, M, d, node)
  PROVE  \A y \in Chain(l) \cup Chain(b) :
           Number[r] <= Number[y] => y \in DOMAIN M.all
<1> DEFINE S == DOMAIN mem.all \cup {b}
           f == Number[BaseOf(confirmed)]
<1>1. /\ r \in Blocks /\ f \in Nat /\ f <= Number[r] /\ Number[r] \in Nat
      /\ Number[Start] < Number[r] /\ Number[Start] \in Nat
  BY AnchorFacts
<1>2. S \in SUBSET Blocks /\ l \in S /\ b \in S
  BY KeptFacts
<1>3. CompleteFrom(S, f)
  <2>1. Memory(mem, confirmed, node)
    BY DEF Shared, Kept
  <2>2. LET N == InsertInMemory(mem, {}, b)
        IN  /\ Forest(N) /\ Linked(N)
            /\ DOMAIN N.all = DOMAIN mem.all \cup {b}
            /\ CompleteFrom(DOMAIN N.all, Number[BaseOf(confirmed)])
            /\ Number[BaseOf(confirmed)] < Number[b]
            /\ Number[b] <= Number[BaseOf(confirmed)] + Depth + 1
    BY <2>1, InsertIsLinked
  <2>3. QED
    BY <2>2
<1>4. /\ d = confirmed \/ (d # NoBlock /\ Parent[d] = BaseOf(confirmed))
      /\ d \in Blocks \cup {NoBlock}
      /\ \A x \in S : Number[BaseOf(d)] <= Number[x] + 1 => x \in DOMAIN M.all
  BY DEF Collection, Memory
<1>5. Number[BaseOf(d)] \in Nat /\ Number[BaseOf(d)] <= f + 1
  <2>1. CASE d = confirmed
    BY <1>1, <2>1
  <2>2. CASE d # NoBlock /\ Parent[d] = BaseOf(confirmed)
    <3>1. d \in Blocks /\ BaseOf(d) = d
      BY <1>4, <2>2 DEF BaseOf
    <3>2. Number[d] = Number[Parent[d]] + 1
      BY <3>1, NumberFacts
    <3>3. QED
      BY <1>1, <2>2, <3>1, <3>2
  <2>3. QED
    BY <1>4, <2>1, <2>2
<1>. HIDE DEF S, f
<1>6. ASSUME NEW t \in S, NEW y \in Chain(t), Number[r] <= Number[y]
      PROVE  y \in DOMAIN M.all
  <2>1. t \in Places
    BY <1>2 DEF Places
  <2>2. Number[y] \in Nat
    BY <2>1, ChainFacts
  <2>3. y # Start /\ f <= Number[y] + 1 /\ Number[BaseOf(d)] <= Number[y] + 1
    BY <1>1, <1>5, <1>6, <2>2
  <2>4. y \in S
    BY <1>1, <1>2, <1>3, <2>3, ChainIsHeld
  <2>5. QED
    BY <1>4, <2>3, <2>4
<1>7. QED
  BY <1>2, <1>6

(* Once the new block is the last there is such a block again.             *)
LEMMA AnchorAfter ==
  ASSUME Shared, NEW r, NEW l \in DOMAIN mem.all, NEW s,
         Anchored(r, DOMAIN mem.all, confirmed, l, s),
         NEW b \in Blocks, r \in Chain(Parent[b]),
         NEW M, NEW d, Collection(mem, confirmed, b, M, d, node),
         NEW u, u # << >> => Parent[Head(u)] = b
  PROVE  \E q : Anchored(q, DOMAIN M.all, d, b, u)
<1>1. /\ Memory(M, d, node)
      /\ DOMAIN M.all \subseteq DOMAIN mem.all \cup {b}
      /\ BaseOf(d) \in Chain(b)
      /\ d = confirmed \/ (d # NoBlock /\ Parent[d] = BaseOf(confirmed))
      /\ \A x \in DOMAIN mem.all \cup {b} :
           Number[BaseOf(d)] <= Number[x] + 1 => x \in DOMAIN M.all
  BY DEF Collection
<1>2. r \in Chain(b)
  BY ChainOfParent
<1>3. CASE d # NoBlock
  <2>1. d \in DOMAIN M.all /\ d \in Chain(b)
    BY <1>1, <1>3 DEF Memory, Window, BaseOf
  <2>2. Anchored(d, DOMAIN M.all, d, b, u)
    BY <1>3, <2>1 DEF Anchored
  <2>3. QED
    BY <2>2
<1>4. CASE d = NoBlock
  <2>1. confirmed = NoBlock
    BY <1>1, <1>4
  <2>2. /\ r \in DOMAIN mem.all /\ Parent[r] = Start
        /\ \A x \in DOMAIN mem.all : r \in Chain(x)
    BY <2>1 DEF Anchored
  <2>3. r \in DOMAIN M.all
    <3>1. BaseOf(d) = Start
      BY <1>4 DEF BaseOf
    <3>2. Number[Start] <= Number[r] + 1
      BY AnchorFacts
    <3>3. QED
      BY <1>1, <2>2, <3>1, <3>2
  <2>4. Anchored(r, DOMAIN M.all, d, b, u)
    BY <1>1, <1>2, <1>4, <2>2, <2>3 DEF Anchored
  <2>5. QED
    BY <2>4
<1>5. QED
  BY <1>3, <1>4

(* The first block of all.                                                 *)
LEMMA FirstAnchor ==
  ASSUME DOMAIN mem.all = {}, NEW b \in Blocks, Parent[b] = Start,
         NEW c, NEW M, NEW d, Collection(mem, c, b, M, d, node),
         NEW u, u # << >> => Parent[Head(u)] = b
  PROVE  Anchored(b, DOMAIN M.all, d, b, u)
<1>1. b \in Chain(b)
  BY ChainFacts DEF Places
<1>2. DOMAIN M.all = {b} /\ (d # NoBlock => d \in DOMAIN M.all)
  BY DEF Collection, Memory, Window
<1>3. QED
  BY <1>1, <1>2 DEF Anchored

(* Where a consumer stands that has had all events.                        *)
LEMMA AtLast ==
  ASSUME NEW f, NEW l, LeadsTo(f, NoEvent, << >>, l)
  PROVE  f = l /\ f \in Places
BY DEF LeadsTo, PlaceOf, FinalPlace

(* The points of a request that a ForkHandlingSource makes.                *)
LEMMA ForkPointsAre ==
  ASSUME Shared, Branches, event = NoEvent, events = << >>
  PROVE  /\ ForkPoints \subseteq DOMAIN mem.all \cup {Start}
         /\ confirmed # NoBlock => confirmed \in ForkPoints
         /\ last # NoBlock => /\ from = last /\ from \in Places
                              /\ ForkPoints \subseteq DOMAIN mem.all
                              /\ ForkPoints # {}
<1>1. confirmed # NoBlock => confirmed \in ForkPoints
  BY DEF ForkPoints, Optional
<1>2. CASE last = NoBlock
  <2>1. from = Start /\ confirmed = NoBlock
    BY <1>2, KeptFacts DEF Branches
  <2>2. QED
    BY <1>1, <1>2, <2>1, KeptFacts DEF ForkPoints, TipPoints, Optional
<1>3. CASE last # NoBlock
  <2>1. last \in DOMAIN mem.all /\ from = last /\ from \in Places
    BY <1>3, AtLast DEF Branches
  <2>2. from \in ForkPoints /\ ForkPoints \subseteq DOMAIN mem.all
    BY <1>3, <2>1, KeptFacts DEF ForkPoints, TipPoints, Optional
  <2>3. QED
    BY <1>1, <2>1, <2>2
<1>4. QED
  BY <1>2, <1>3

(* The events of a new block lead to it from the last one.                 *)
LEMMA EventsLead ==
  ASSUME Shared, Branches, event = NoEvent, events = << >>,
         NEW s \in Streams(ForkPoints), TakesIn(s), ~Has(mem, Head(s))
  PROVE  LET stack == EventsFor(mem', Head(s))
         IN LeadsTo(from, Last(stack), Front(stack), Head(s))
<1> DEFINE b == Head(s)
<1>1. /\ ForkPoints \subseteq DOMAIN mem.all \cup {Start}
      /\ confirmed # NoBlock => confirmed \in ForkPoints
      /\ last # NoBlock => /\ from = last /\ from \in Places
                           /\ ForkPoints \subseteq DOMAIN mem.all
                           /\ ForkPoints # {}
  BY ForkPointsAre
<1>2. /\ b \in Blocks /\ Parent[b] \in DOMAIN mem.all \cup {Start}
      /\ BaseOf(confirmed) \in Chain(Parent[b])
  BY <1>1, TakenBlock
<1>3. Collection(mem, confirmed, b, mem', confirmed', node)
  BY <1>1, TakenIsCollected
<1>4. b \notin DOMAIN mem.all
  BY DEF Has
<1>. HIDE DEF b
<1>5. CASE last = Parent[b]
  <2>1. EventsFor(mem', b) = <<InnerEvent(b)>>
    BY <1>5 DEF EventsFor
  <2>2. from = Parent[b]
    <3>1. Parent[b] # NoBlock
      BY <1>2, KeptFacts, SourcesAssumption
    <3>2. QED
      BY <1>1, <1>5, <3>1
  <2>3. QED
    BY <1>2, <2>1, <2>2, OneLeads DEF b
<1>6. CASE last # Parent[b] /\ last = NoBlock
  <2>1. from = Start /\ DOMAIN mem.all = {}
    BY <1>6 DEF Branches
  <2>2. EventsFor(mem', b) = <<InnerEvent(b), Rollback(Start)>>
    BY <1>6, <2>1 DEF EventsFor
  <2>3. Parent[b] = Start
    BY <1>2, <2>1
  <2>4. QED
    BY <1>2, <2>1, <2>2, <2>3, FirstLeads DEF b
<1>7. CASE last # Parent[b] /\ last # NoBlock
  <2>1. EventsFor(mem', b) = Switch(mem', last, b)
    BY <1>7 DEF EventsFor
  <2>2. last \in DOMAIN mem.all
    BY <1>7 DEF Branches
  <2>3. PICK r : Anchored(r, DOMAIN mem.all, confirmed, last, stream)
    BY <1>7 DEF Branches
  <2>4. \A y \in Chain(last) \cup Chain(b) :
          Number[r] <= Number[y] => y \in DOMAIN mem'.all
    BY <1>2, <1>3, <1>4, <2>2, <2>3, HeldAbove
  <2>5. r \in Chain(last)
    BY <2>3 DEF Anchored
  <2>6. r \in Chain(b)
    <3>1. r \in Chain(Parent[b])
      BY <1>1, <1>7, <2>3, AnchorBelowHead DEF b
    <3>2. QED
      BY <1>2, <3>1, ChainOfParent
  <2>7. last \in Places /\ b \in Places /\ from = last
    BY <1>1, <1>2, <1>7 DEF Places
  <2>8. LeadsTo(last, Last(Switch(mem', last, b)), Front(Switch(mem', last, b)), b)
    BY <2>4, <2>5, <2>6, <2>7, SwitchLeads
  <2>9. QED
    BY <2>1, <2>7, <2>8 DEF b
<1>8. QED
  BY <1>5, <1>6, <1>7

(* A pull of a ForkHandlingSource.                                         *)
LEMMA PullBlockKeeps ==
  ASSUME Shared, Branches, PullBlock
  PROVE  Shared' /\ Branches'
<1>1. event = NoEvent /\ events = << >> /\ from' = from
      /\ UNCHANGED <<nodeVars, breaks>>
  BY DEF PullBlock
<1>2. PICK s \in Streams(ForkPoints) :
        /\ stream' = Tail(s)
        /\ IF Has(mem, Head(s))
           THEN UNCHANGED <<mem, db, confirmed, last, events, event>>
           ELSE \E o \in InsertAndGc(Head(s)) :
                  LET stack == EventsFor(o.mem, Head(s))
                  IN /\ mem' = o.mem
                     /\ db' = o.db
                     /\ confirmed' = Confirm(o)
                     /\ last' = Head(s)
                     /\ event' = Last(stack)
                     /\ events' = Front(stack)
  BY DEF PullBlock
<1>3. TakesIn(s)
  BY <1>1, <1>2 DEF TakesIn
<1>4. /\ ForkPoints \subseteq DOMAIN mem.all \cup {Start}
      /\ confirmed # NoBlock => confirmed \in ForkPoints
      /\ last # NoBlock => /\ from = last /\ from \in Places
                           /\ ForkPoints \subseteq DOMAIN mem.all
                           /\ ForkPoints # {}
  BY <1>1, ForkPointsAre
<1>5. Shared'
  BY <1>3, <1>4, TakesInShared
<1>6. /\ Head(s) \in Blocks /\ Parent[Head(s)] \in DOMAIN mem.all \cup {Start}
      /\ Tail(s) # << >> => Parent[Head(Tail(s))] = Head(s)
  BY <1>4, TakenBlock
<1>7. CASE last = NoBlock
  <2>1. DOMAIN mem.all = {} /\ Parent[Head(s)] = Start /\ ~Has(mem, Head(s))
    BY <1>6, <1>7 DEF Branches, Has
  <2>2. /\ event' = Last(EventsFor(mem', Head(s)))
        /\ events' = Front(EventsFor(mem', Head(s)))
        /\ last' = Head(s) /\ stream' = Tail(s)
    BY <1>2, <2>1
  <2>3. LeadsTo(from', event', events', last')
    BY <1>1, <1>3, <2>1, <2>2, EventsLead
  <2>4. Collection(mem, confirmed, Head(s), mem', confirmed', node)
    BY <1>3, <1>4, <2>1, TakenIsCollected
  <2>5. Anchored(Head(s), DOMAIN mem'.all, confirmed', Head(s), Tail(s))
    BY <1>6, <2>1, <2>4, FirstAnchor
  <2>6. Head(s) \in DOMAIN mem'.all /\ Head(s) # NoBlock
    BY <1>6, <2>4, SourcesAssumption DEF Collection
  <2>7. Branches'
    BY <2>2, <2>3, <2>5, <2>6 DEF Branches
  <2>8. QED
    BY <1>5, <2>7
<1>8. CASE last # NoBlock
  <2>1. PICK r : Anchored(r, DOMAIN mem.all, confirmed, last, stream)
    BY <1>8 DEF Branches
  <2>2. last \in DOMAIN mem.all /\ LeadsTo(from, event, events, last)
    BY <1>8 DEF Branches
  <2>3. r \in Chain(Parent[Head(s)])
    BY <1>4, <1>8, <2>1, AnchorBelowHead
  <2>4. CASE Has(mem, Head(s))
    <3>1. UNCHANGED <<mem, confirmed, last, events, event>> /\ stream' = Tail(s)
      BY <1>2, <2>4
    <3>2. Tail(s) # << >> => r \in Chain(Parent[Head(Tail(s))])
      BY <1>6, <2>3, ChainOfParent
    <3>3. Anchored(r, DOMAIN mem.all, confirmed, last, Tail(s))
      BY <2>1, <3>2 DEF Anchored
    <3>4. Branches'
      BY <1>1, <1>8, <2>2, <3>1, <3>3 DEF Branches
    <3>5. QED
      BY <1>5, <3>4
  <2>5. CASE ~Has(mem, Head(s))
    <3>1. /\ event' = Last(EventsFor(mem', Head(s)))
          /\ events' = Front(EventsFor(mem', Head(s)))
          /\ last' = Head(s) /\ stream' = Tail(s)
      BY <1>2, <2>5
    <3>2. LeadsTo(from', event', events', last')
      BY <1>1, <1>3, <2>5, <3>1, EventsLead
    <3>3. Collection(mem, confirmed, Head(s), mem', confirmed', node)
      BY <1>3, <1>4, <2>5, TakenIsCollected
    <3>4. \E q : Anchored(q, DOMAIN mem'.all, confirmed', Head(s), Tail(s))
      BY <1>6, <2>1, <2>2, <2>3, <3>3, AnchorAfter
    <3>5. Head(s) \in DOMAIN mem'.all /\ Head(s) # NoBlock
      BY <1>6, <3>3, SourcesAssumption DEF Collection
    <3>6. Branches'
      BY <3>1, <3>2, <3>4, <3>5 DEF Branches
    <3>7. QED
      BY <1>5, <3>6
  <2>6. QED
    BY <2>4, <2>5
<1>9. QED
  BY <1>7, <1>8

(* Blocks of one number are alike to the search for the best tips.         *)
LEMMA BestNames ==
  ASSUME NEW m, Forest(m), NEW w, Forest(w), DOMAIN m.all = DOMAIN w.all
  PROVE  Names(BestTips(m)) = Names(BestTips(w))
<1>1. ASSUME NEW u, Forest(u)
      PROVE  Names(BestTips(u)) = {b \in DOMAIN u.all :
                                     \A x \in DOMAIN u.all : Number[x] <= Number[b]}
  <2>1. u.ordered = Refs(u) /\ \A b \in DOMAIN u.all : u.all[b].ref[1] = b
    BY <1>1 DEF Forest, Tables, Entries
  <2>2. ASSUME NEW b \in Names(BestTips(u))
        PROVE  b \in DOMAIN u.all
               /\ \A x \in DOMAIN u.all : Number[x] <= Number[b]
    <3>1. PICK tip \in BestTips(u) : b = tip[1]
      BY <2>2 DEF Names
    <3>2. QED
      BY <1>1, <3>1, BestTipIs
  <2>3. ASSUME NEW b \in DOMAIN u.all,
               \A x \in DOMAIN u.all : Number[x] <= Number[b]
        PROVE  b \in Names(BestTips(u))
    <3>1. u.all[b].ref \in BestTips(u)
      BY <2>1, <2>3 DEF BestTips, Highest, Refs
    <3>2. QED
      BY <2>1, <3>1 DEF Names
  <2>4. QED
    BY <2>2, <2>3
<1>2. QED
  BY <1>1

(* A ForkHandlingSource keeps its events and its branches.                 *)
LEMMA ForkKeeps ==
  ASSUME Shared, Branches, ForkPull \/ ForkOther
  PROVE  Shared' /\ Branches'
<1>1. CASE PullPending
  <2>1. /\ UNCHANGED <<nodeVars, stream, mem, db, confirmed, breaks>>
        /\ last' = last /\ from' = from /\ event = NoEvent /\ events # << >>
        /\ event' = Last(events) /\ events' = Front(events)
    BY <1>1 DEF PullPending
  <2>2. last # NoBlock
    BY <2>1 DEF Branches
  <2>3. LeadsTo(from, Last(events), Front(events), last)
    BY <2>1, <2>2, PendingLeads DEF Branches
  <2>4. Branches'
    BY <2>1, <2>2, <2>3 DEF Branches
  <2>5. QED
    BY <2>1, <2>4, SharedStays
<1>2. CASE PullBlock
  BY <1>2, PullBlockKeeps
<1>3. ASSUME NEW t \in Blocks, NodeMoves(t)
      PROVE  Shared' /\ Branches'
  <2>1. UNCHANGED <<stream, mem, confirmed, last, events, event, from>>
    BY <1>3 DEF NodeMoves, sourceVars
  <2>2. Branches'
    BY <2>1 DEF Branches
  <2>3. QED
    BY <1>3, <2>2, NodeMovesShared
<1>4. CASE Consume
  <2>1. /\ UNCHANGED <<nodeVars, stream, mem, db, confirmed, breaks>>
        /\ last' = last /\ events' = events
        /\ event # NoEvent /\ from' = event.block /\ event' = NoEvent
    BY <1>4 DEF Consume, sourceVars
  <2>2. last # NoBlock
    BY <2>1 DEF Branches
  <2>3. LeadsTo(event.block, NoEvent, events, last)
    BY <2>1, <2>2, ConsumeLeads DEF Branches
  <2>4. Branches'
    BY <2>1, <2>2, <2>3 DEF Branches
  <2>5. QED
    BY <2>1, <2>4, SharedStays
<1>5. CASE StreamEnds
  <2>1. /\ UNCHANGED <<mem, confirmed, last, events, event, from>>
        /\ stream' = << >>
    BY <1>5 DEF StreamEnds
  <2>2. \A r : Anchored(r, DOMAIN mem.all, confirmed, last, stream)
                 => Anchored(r, DOMAIN mem.all, confirmed, last, << >>)
    BY DEF Anchored
  <2>3. Branches'
    BY <2>1, <2>2 DEF Branches
  <2>4. QED
    BY <1>5, <2>3, StreamEndsShared
<1>6. CASE CleanStop /\ Restart
  <2>1. /\ event = NoEvent /\ events = << >>
        /\ last # NoBlock /\ Names(BestTips(mem)) = {last}
    BY <1>6 DEF CleanStop
  <2>2. /\ Shared' /\ confirmed' = confirmed
        /\ DOMAIN mem'.all = DOMAIN mem.all
        /\ IF db = {} THEN last' = NoBlock ELSE last' \in LastOfIter(mem')
    BY <1>6, RestartShared
  <2>3. from' = from /\ event' = NoEvent /\ events' = << >> /\ stream' = << >>
    BY <1>6 DEF Restart
  <2>4. last \in DOMAIN mem.all /\ db = DOMAIN mem.all
    BY <2>1 DEF Branches, Shared, Kept
  <2>5. last' = last
    <3>1. Forest(mem) /\ Forest(mem')
      BY <2>2, KeptFacts DEF Shared, Kept, Memory
    <3>2. Names(BestTips(mem')) = {last}
      BY <2>1, <2>2, <3>1, BestNames
    <3>3. QED
      BY <2>2, <2>4, <3>2 DEF LastOfIter
  <2>6. \A r : Anchored(r, DOMAIN mem.all, confirmed, last, stream)
                 => Anchored(r, DOMAIN mem.all, confirmed, last, << >>)
    BY DEF Anchored
  <2>7. Branches'
    BY <2>1, <2>2, <2>3, <2>5, <2>6 DEF Branches
  <2>8. QED
    BY <2>2, <2>7
<1>7. QED
  BY <1>1, <1>2, <1>3, <1>4, <1>5, <1>6 DEF ForkPull, ForkOther

(* What it gives follows from that.                                        *)
LEMMA ForkGives ==
  ASSUME Shared, Branches
  PROVE  EventsAreAChain
<1>1. CASE event = NoEvent
  BY <1>1 DEF EventsAreAChain, NoEvent
<1>2. CASE event # NoEvent
  <2>1. from \in Places /\ Good(from, event)
    BY <1>2 DEF Branches, LeadsTo
  <2>2. QED
    BY <2>1, GoodEvent DEF EventsAreAChain
<1>3. QED
  BY <1>1, <1>2

-----------------------------------------------------------------------------
(* The inductive invariant of the process.                                 *)
IInv ==
  /\ Shared
  /\ kind \in {"multiverse", "fork"}
  /\ kind = "multiverse" => Given
  /\ kind = "fork" => Branches

(* The processes start in it.                                              *)
LEMMA InitIInv == ProcessInit => IInv
<1> SUFFICES ASSUME ProcessInit PROVE IInv
  OBVIOUS
<1>1. Init /\ kind \in {"multiverse", "fork"} /\ (kind = "fork" => from = Start)
  BY DEF ProcessInit
<1>2. Shared
  BY <1>1, InitIsShared
<1>3. Given
  BY <1>1 DEF Init, Given
<1>4. kind = "fork" => Branches
  <2>1. DOMAIN mem.all = {}
    BY <1>1 DEF Init, EmptyForest
  <2>2. QED
    BY <1>1, <2>1 DEF Init, Branches
<1>5. QED
  BY <1>1, <1>2, <1>3, <1>4 DEF IInv

(* And every step keeps it.                                                *)
LEMMA NextIInv == IInv /\ [ProcessNext]_processVars => IInv'
<1> SUFFICES ASSUME IInv, [ProcessNext]_processVars PROVE IInv'
  OBVIOUS
<1>1. CASE UNCHANGED processVars
  <2>1. UNCHANGED <<nodeVars, stream, mem, db, confirmed, breaks>>
        /\ UNCHANGED <<last, events, event, from, kind>>
    BY <1>1 DEF processVars, vars, sourceVars
  <2>2. Shared'
    BY <2>1, SharedStays DEF IInv
  <2>3. (Given => Given') /\ (Branches => Branches')
    BY <2>1 DEF Given, Branches
  <2>4. QED
    BY <2>1, <2>2, <2>3 DEF IInv
<1>2. CASE ProcessNext
  <2>1. kind' = kind /\ Shared
    BY <1>2 DEF ProcessNext, IInv
  <2>2. CASE kind = "multiverse"
    <3>1. Given /\ (StablePull \/ StableOther)
      BY <1>2, <2>2 DEF ProcessNext, Pull, Other, IInv
    <3>2. QED
      BY <2>1, <2>2, <3>1, StableKeeps DEF IInv
  <2>3. CASE kind = "fork"
    <3>1. Branches /\ (ForkPull \/ ForkOther)
      BY <1>2, <2>3 DEF ProcessNext, Pull, Other, IInv
    <3>2. QED
      BY <2>1, <2>3, <3>1, ForkKeeps DEF IInv
  <2>4. QED
    BY <2>2, <2>3 DEF IInv
<1>3. QED
  BY <1>1, <1>2

(* The invariant of the two sources: memory is the Depth blocks above the  *)
(* confirmed block and linked without a gap, what is below them is settled *)
(* on the node's chain, a requested range goes on from memory, and the     *)
(* events of the consumer lead to the last block.                          *)
THEOREM IInvInvariance == ProcessSpec => []IInv
<1>1. ProcessInit => IInv
  BY InitIInv
<1>2. IInv /\ [ProcessNext]_processVars => IInv'
  BY NextIInv
<1>3. QED
  BY <1>1, <1>2, PTL DEF ProcessSpec

(* Neither source panics: the confirmed block is in the multiverse.        *)
THEOREM NoPanic == ProcessSpec => []SourceNeverPanics
<1>1. IInv => SourceNeverPanics
  <2> SUFFICES ASSUME IInv PROVE SourceNeverPanics
    OBVIOUS
  <2>1. /\ DOMAIN mem.all \in SUBSET Blocks /\ db \subseteq Blocks
        /\ confirmed \in Blocks \cup {NoBlock} /\ mem.panic = FALSE
        /\ confirmed # NoBlock => Has(mem, confirmed)
    BY KeptFacts DEF IInv, Shared, Kept, Forest, Has
  <2>2. /\ node \in Blocks \cup {Start} /\ top \in Nat
        /\ moves \in 0..MaxMoves /\ breaks \in 0..MaxBreaks
    BY DEF IInv, Shared, Nodes, Places
  <2>3. ToSet(stream) \subseteq Blocks
    <3>1. CASE stream = << >>
      BY <3>1 DEF ToSet
    <3>2. CASE stream # << >>
      <4>1. OnStream(stream, DOMAIN mem.all, confirmed, node, top)
        BY <3>2 DEF IInv, Shared, Requested
      <4>2. PICK high \in Places, low \in DOMAIN mem.all \cup {Start} :
              low \in Chain(high) /\ stream = RangeOf(low, high)
        BY <4>1 DEF OnStream
      <4>3. stream \in Seq(Blocks)
        BY <4>2, RangeFacts
      <4>4. QED
        BY <4>3 DEF ToSet
    <3>3. QED
      BY <3>1, <3>2
  <2>4. CASE kind = "multiverse"
    <3>1. Given
      BY <2>4 DEF IInv
    <3>2. last \in Blocks \cup {NoBlock} /\ DOMAIN events = {}
      BY <3>1 DEF Given
    <3>3. event \in {NoEvent} \cup {InnerEvent(b) : b \in Blocks}
      BY <2>1, <3>1 DEF Given
    <3>4. from \in Blocks \cup {Start, NoBlock}
      <4>1. CASE confirmed = NoBlock
        BY <3>1, <4>1 DEF Given
      <4>2. CASE confirmed # NoBlock
        <5>1. Parent[confirmed] \in Blocks \cup {Start}
          BY <4>2, ParentOfConfirmed DEF IInv
        <5>2. QED
          BY <2>1, <3>1, <4>2, <5>1 DEF Given
      <4>3. QED
        BY <4>1, <4>2
    <3>5. TypeOK
      BY <2>1, <2>2, <2>3, <3>2, <3>3, <3>4 DEF TypeOK
    <3>6. QED
      BY <2>1, <3>5 DEF SourceNeverPanics
  <2>5. CASE kind = "fork"
    <3>1. Branches
      BY <2>5 DEF IInv
    <3>2. /\ last \in Blocks \cup {NoBlock} /\ from \in Places
          /\ events \in Seq(ForkEvent)
          /\ event = NoEvent \/ Good(from, event)
      <4>1. CASE last = NoBlock
        <5>1. from = Start /\ events = << >> /\ event = NoEvent
          BY <3>1, <4>1 DEF Branches
        <5>2. QED
          BY <4>1, <5>1 DEF Places
      <4>2. CASE last # NoBlock
        BY <2>1, <3>1, <4>2 DEF Branches, LeadsTo
      <4>3. QED
        BY <4>1, <4>2
    <3>3. \A i \in DOMAIN events :
            /\ events[i].kind \in {"inner", "rollback"}
            /\ events[i].block \in Blocks \cup {Start}
      <4>1. \A i \in DOMAIN events : events[i] \in ForkEvent
        BY <3>2
      <4>2. QED
        BY <4>1 DEF ForkEvent, Places
    <3>4. event \in {NoEvent} \cup {InnerEvent(b) : b \in Blocks}
                      \cup {Rollback(b) : b \in Blocks \cup {Start}}
      <4>1. \A x \in Chain(from) : x \in Blocks \cup {Start}
        BY <3>2, ChainFacts DEF Places
      <4>2. QED
        BY <3>2, <4>1 DEF Good
    <3>5. TypeOK
      BY <2>1, <2>2, <2>3, <3>2, <3>3, <3>4 DEF TypeOK, Places
    <3>6. QED
      BY <2>1, <3>5 DEF SourceNeverPanics
  <2>6. QED
    BY <2>4, <2>5 DEF IInv
<1>2. QED
  BY <1>1, IInvInvariance, PTL

(* The consumer of a MultiverseSource gets one chain, block by block.      *)
THEOREM ChainIsUnbroken == ProcessSpec => []StableChain
<1>1. IInv => StableChain
  BY StableGives DEF IInv, StableChain
<1>2. QED
  BY <1>1, IInvInvariance, PTL

(* It is refused after a restart only if it never had a block.             *)
THEOREM RestartsContinue == ProcessSpec => []Continues
<1>1. IInv => Continues
  BY StableGives DEF IInv, Continues
<1>2. QED
  BY <1>1, IInvInvariance, PTL

(* The consumer of a ForkHandlingSource can follow every event: a block    *)
(* comes on top of the one it is at, a rollback goes to one it has.        *)
THEOREM EventsLeadOn == ProcessSpec => []ForkEvents
<1>1. IInv => ForkEvents
  BY ForkGives DEF IInv, ForkEvents
<1>2. QED
  BY <1>1, IInvInvariance, PTL
=============================================================================
