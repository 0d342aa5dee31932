--------------------------- MODULE CardanoProofs ---------------------------
(***************************************************************************)
(* Proof that CardanoSource implements BlockStream: whatever the node, the *)
(* connection and the caller do, what pull returns is one unbroken range   *)
(* after the other.                                                        *)
(***************************************************************************)
EXTENDS CardanoSource, FiniteSetTheorems, TLAPS

-----------------------------------------------------------------------------
(* Induction                                                               *)

(* A family of subsets of a finite set has a smallest one.                 *)
LEMMA LeastSet ==
  ASSUME NEW S, IsFiniteSet(S), NEW F, F \subseteq SUBSET S, F # {}
  PROVE  \E T \in F : \A U \in F : U \subseteq T => U = T
<1> DEFINE R == StrictSubsetOrdering(S)
<1>1. IsWellFoundedOn(R, SUBSET S)
  BY FS_FiniteSubsetsOfFinite, FS_StrictSubsetOrderingWellFounded, Zenon
<1> HIDE DEF R
<1>2. PICK T \in F : \A U \in F : ~(<<U, T>> \in R)
  BY <1>1, WFMin
<1>3. QED
  BY <1>2 DEF R, StrictSubsetOrdering

(* So has a set of natural numbers below a bound.                           *)
LEMMA LeastNumber ==
  ASSUME NEW L \in Nat, NEW T \in SUBSET (0..L), T # {}
  PROVE  \E x \in T : \A y \in T : x <= y
<1> DEFINE F == {0..x : x \in T}
<1>1. F \subseteq SUBSET (0..L)
  <2>1. ASSUME NEW X \in F
        PROVE  X \subseteq 0..L
    <3>1. PICK x \in T : X = 0..x
      OBVIOUS
    <3>2. QED
      BY <3>1
  <2>. HIDE DEF F
  <2>2. QED
    BY <2>1
<1>0. F # {}
  OBVIOUS
<1>2. IsFiniteSet(0..L)
  BY FS_Interval
<1>. HIDE DEF F
<1> DEFINE I == 0..L
<1>. HIDE DEF I
<1>9. IsFiniteSet(I) /\ F \subseteq SUBSET I
  BY <1>1, <1>2 DEF I
<1>3. PICK X \in F : \A U \in F : U \subseteq X => U = X
  BY <1>0, <1>9, LeastSet
<1>4. PICK x \in T : X = 0..x
  BY DEF F
<1>5. ASSUME NEW y \in T, y < x
      PROVE  FALSE
  <2>1. 0..y \in F /\ 0..y \subseteq 0..x /\ x \in 0..x /\ x \notin 0..y
    BY <1>5 DEF F
  <2>2. QED
    BY <1>3, <1>4, <2>1
<1>6. QED
  BY <1>5

(* Induction up to a bound, on the set of the numbers that are reached.    *)
LEMMA Induct ==
  ASSUME NEW L \in Nat, NEW S, 0 \in S,
         \A n \in 0..L - 1 : n \in S => n + 1 \in S
  PROVE  \A n \in 0..L : n \in S
<1> SUFFICES ASSUME NEW n \in 0..L, n \notin S PROVE FALSE
  OBVIOUS
<1> DEFINE T == {x \in 0..L : x \notin S}
<1>1. T \in SUBSET (0..L) /\ T # {}
  OBVIOUS
<1>2. PICK x \in T : \A y \in T : x <= y
  BY <1>1, LeastNumber
<1>3. x # 0 /\ x - 1 \in 0..L - 1 /\ (x - 1) + 1 = x
  OBVIOUS
<1>4. x - 1 \in S
  BY <1>2, <1>3
<1>5. QED
  BY <1>3, <1>4

-----------------------------------------------------------------------------
(* Chains                                                                  *)

Places == Blocks \cup {Start}

(* No block is below the start.                                            *)
LEMMA NumberFacts ==
  /\ Start \in Places /\ Start \notin Blocks /\ Number[Start] \in Nat
  /\ \A b \in Places : Number[b] \in Nat /\ Number[Start] <= Number[b]
  /\ \A b \in Blocks : /\ Number[Start] < Number[b]
                       /\ Parent[b] \in Places
                       /\ Number[b] = Number[Parent[b]] + 1
<1>1. \A b \in Blocks : /\ Number[b] \in Nat
                        /\ Parent[b] \in Places
                        /\ Number[b] = Number[Parent[b]] + 1
  BY CardanoAssumption DEF Places
<1>2. Number[Start] \in Nat /\ Start \notin Blocks
  BY CardanoAssumption
<1>3. ASSUME NEW c \in Blocks
      PROVE  Number[Start] < Number[c]
  <2> DEFINE S == {k \in 0..Number[c] :
                     \A b \in Blocks : Number[b] <= k
                                         => Number[Start] < Number[b]}
  <2>1. 0 \in S
    <3>1. ASSUME NEW b \in Blocks, Number[b] <= 0
          PROVE  FALSE
      <4>1. Number[b] = Number[Parent[b]] + 1 /\ Number[b] = 0
        BY <1>1, <3>1
      <4>2. Number[Parent[b]] \in Nat
        BY <1>1, <1>2 DEF Places
      <4>3. QED
        BY <4>1, <4>2
    <3>2. QED
      BY <1>1, <3>1
  <2>2. ASSUME NEW k \in 0..Number[c] - 1, k \in S
        PROVE  k + 1 \in S
    <3>1. ASSUME NEW b \in Blocks, Number[b] <= k + 1
          PROVE  Number[Start] < Number[b]
      <4>1. Number[b] = Number[Parent[b]] + 1 /\ Parent[b] \in Places
        BY <1>1
      <4>2. CASE Parent[b] = Start
        BY <1>2, <4>1, <4>2
      <4>3. CASE Parent[b] \in Blocks
        <5>1. Number[Parent[b]] \in Nat
          BY <1>1, <4>3
        <5>2. Number[Parent[b]] <= k
          BY <3>1, <4>1, <5>1
        <5>3. Number[Start] < Number[Parent[b]]
          BY <2>2, <4>3, <5>2
        <5>4. QED
          BY <1>2, <4>1, <5>1, <5>3
      <4>4. QED
        BY <4>1, <4>2, <4>3 DEF Places
    <3>2. k + 1 \in 0..Number[c]
      BY <1>1
    <3>3. QED
      BY <3>1, <3>2
  <2>3. Number[c] \in Nat
    BY <1>1
  <2>. HIDE DEF S
  <2>4. \A k \in 0..Number[c] : k \in S
    BY <2>1, <2>2, <2>3, Induct
  <2>5. Number[c] \in S
    BY <2>3, <2>4
  <2>6. QED
    BY <2>3, <2>5 DEF S
<1>4. QED
  BY <1>1, <1>2, <1>3 DEF Places

IsDescent(b, d, down) ==
  down = [n \in 0..d |-> IF n = 0 THEN b ELSE Parent[down[n - 1]]]

(* The recursion of Below has a solution.                                  *)
LEMMA DescentExists ==
  ASSUME NEW b, NEW d \in Nat
  PROVE  \E down : IsDescent(b, d, down)
<1> DEFINE S == {n \in 0..d : \E g : IsDescent(b, n, g)}
<1>1. 0 \in S
  <2> DEFINE g == [n \in 0..0 |-> b]
  <2>1. IsDescent(b, 0, g)
    BY DEF IsDescent
  <2>2. QED
    BY <2>1
<1>2. ASSUME NEW n \in 0..d - 1, n \in S
      PROVE  n + 1 \in S
  <2>1. PICK g : IsDescent(b, n, g)
    BY <1>2
  <2> DEFINE h == [k \in 0..n + 1 |-> IF k = n + 1 THEN Parent[g[n]] ELSE g[k]]
  <2>2. ASSUME NEW k \in 0..n + 1
        PROVE  h[k] = IF k = 0 THEN b ELSE Parent[h[k - 1]]
    <3>1. CASE k = n + 1
      <4>1. k # 0 /\ k - 1 = n /\ n \in 0..n + 1 /\ n # n + 1
        BY <3>1
      <4>2. h[n] = g[n]
        BY <4>1
      <4>3. h[k] = Parent[g[n]]
        BY <3>1
      <4>. HIDE DEF h
      <4>4. QED
        BY <4>1, <4>2, <4>3
    <3>2. CASE k # n + 1
      <4>1. k \in 0..n
        BY <3>2
      <4>2. h[k] = g[k]
        BY <3>2
      <4>3. g[k] = IF k = 0 THEN b ELSE Parent[g[k - 1]]
        BY <2>1, <4>1, Zenon DEF IsDescent
      <4>4. k # 0 => h[k - 1] = g[k - 1]
        BY <4>1
      <4>. HIDE DEF h
      <4>5. QED
        BY <4>2, <4>3, <4>4
    <3>3. QED
      BY <3>1, <3>2
  <2>3. h = [k \in 0..n + 1 |-> h[k]]
    OBVIOUS
  <2>. HIDE DEF h
  <2>4. IsDescent(b, n + 1, h)
    BY <2>2, <2>3, Zenon DEF IsDescent
  <2>5. QED
    BY <2>4
<1>. HIDE DEF S
<1>3. \A n \in 0..d : n \in S
  BY <1>1, <1>2, Induct
<1>4. d \in S
  BY <1>3
<1>5. QED
  BY <1>4 DEF S

(* How far it is down to the start.                                        *)
Above(b) == Number[b] - Number[Start]

(* Below goes from parent to parent, one number less at a time, and ends   *)
(* in the start.                                                           *)
LEMMA BelowSteps ==
  ASSUME NEW b \in Places
  PROVE  /\ Above(b) \in Nat /\ DOMAIN Below(b) = 0..Above(b)
         /\ Below(b)[0] = b
         /\ \A n \in 0..Above(b) - 1 : Below(b)[n + 1] = Parent[Below(b)[n]]
<1> DEFINE d == Number[b]
           g == CHOOSE down : IsDescent(b, d, down)
<1>1. d \in Nat /\ Number[Start] \in Nat /\ Number[Start] <= d
  BY NumberFacts
<1>2. IsDescent(b, d, g)
  BY <1>1, DescentExists, Zenon
<1>3. Below(b) = [n \in 0..d - Number[Start] |-> g[n]]
  BY Zenon DEF Below, IsDescent
<1>. HIDE DEF g, d
<1>4. \A n \in 0..d : g[n] = IF n = 0 THEN b ELSE Parent[g[n - 1]]
  BY <1>2, Zenon DEF IsDescent
<1>5. Above(b) \in Nat /\ Above(b) = d - Number[Start] /\ Above(b) <= d
  BY <1>1 DEF Above, d
<1>6. DOMAIN Below(b) = 0..Above(b)
  BY <1>3, <1>5
<1>7. Below(b)[0] = b
  BY <1>1, <1>3, <1>4, <1>5
<1>8. ASSUME NEW n \in 0..Above(b) - 1
      PROVE  Below(b)[n + 1] = Parent[Below(b)[n]]
  <2>1. n \in 0..Above(b) /\ n + 1 \in 0..Above(b) /\ n + 1 \in 0..d
        /\ n + 1 # 0 /\ (n + 1) - 1 = n
    BY <1>1, <1>5
  <2>2. Below(b)[n] = g[n] /\ Below(b)[n + 1] = g[n + 1]
    BY <1>3, <1>5, <2>1
  <2>3. g[n + 1] = Parent[g[n]]
    BY <1>4, <2>1
  <2>4. QED
    BY <2>2, <2>3
<1>9. QED
  BY <1>5, <1>6, <1>7, <1>8

(* On the way down every place has its number.                            *)
LEMMA BelowIn ==
  ASSUME NEW b \in Places
  PROVE  /\ \A n \in 0..Above(b) : /\ Below(b)[n] \in Places
                                   /\ Number[Below(b)[n]] = Number[b] - n
         /\ \A n \in 0..Above(b) - 1 : Below(b)[n] \in Blocks
         /\ Below(b)[Above(b)] = Start
<1> DEFINE D == Above(b)
           S == {n \in 0..D : /\ Below(b)[n] \in Places
                              /\ Number[Below(b)[n]] = Number[b] - n}
<1>1. /\ D \in Nat /\ Below(b)[0] = b
      /\ \A n \in 0..D - 1 : Below(b)[n + 1] = Parent[Below(b)[n]]
  BY BelowSteps
<1>2. Number[b] \in Nat /\ Number[Start] \in Nat
      /\ D = Number[b] - Number[Start]
  BY NumberFacts DEF Above
<1>. HIDE DEF D
<1>3. 0 \in S
  BY <1>1, <1>2
<1>4. ASSUME NEW x \in Places, NEW n \in 0..D - 1, Number[x] = Number[b] - n
      PROVE  x \in Blocks
  <2>1. Number[x] # Number[Start]
    BY <1>1, <1>2, <1>4
  <2>2. QED
    BY <2>1 DEF Places
<1>5. ASSUME NEW n \in 0..D - 1, n \in S
      PROVE  n + 1 \in S
  <2> DEFINE x == Below(b)[n]
  <2>1. x \in Places /\ Number[x] = Number[b] - n
    BY <1>5
  <2>2. Below(b)[n + 1] = Parent[x] /\ n + 1 \in 0..D
    BY <1>1
  <2>. HIDE DEF x
  <2>3. x \in Blocks
    BY <1>4, <2>1
  <2>4. Parent[x] \in Places /\ Number[x] = Number[Parent[x]] + 1
    BY <2>3, NumberFacts
  <2>5. Number[Parent[x]] \in Nat
    BY <2>4, NumberFacts
  <2>6. Number[Parent[x]] = Number[b] - (n + 1)
    BY <1>1, <1>2, <2>1, <2>4, <2>5
  <2>7. QED
    BY <2>2, <2>4, <2>6
<1>. HIDE DEF S
<1>6. \A n \in 0..D : n \in S
  BY <1>1, <1>3, <1>5, Induct
<1>7. \A n \in 0..D : /\ Below(b)[n] \in Places
                      /\ Number[Below(b)[n]] = Number[b] - n
  BY <1>6 DEF S
<1>8. ASSUME NEW n \in 0..D - 1
      PROVE  Below(b)[n] \in Blocks
  <2>1. n \in 0..D
    BY <1>1
  <2>2. QED
    BY <1>4, <1>7, <2>1
<1>9. Below(b)[D] = Start
  <2>1. D \in 0..D
    BY <1>1
  <2>2. Number[Below(b)[D]] = Number[Start] /\ Below(b)[D] \in Places
    BY <1>2, <1>7, <2>1
  <2>3. Below(b)[D] \notin Blocks
    BY <1>2, <2>2, NumberFacts
  <2>4. QED
    BY <2>2, <2>3 DEF Places
<1>10. QED
  BY <1>7, <1>8, <1>9 DEF D

(* A chain consists of places, has one of each number, and goes from its   *)
(* tip to the start.                                                       *)
LEMMA ChainFacts ==
  ASSUME NEW b \in Places
  PROVE  /\ Chain(b) \subseteq Places /\ b \in Chain(b) /\ Start \in Chain(b)
         /\ \A n \in 0..Above(b) : Below(b)[n] \in Chain(b)
         /\ \A x \in Chain(b) :
              /\ Number[x] \in Nat /\ Number[b] \in Nat
              /\ Number[x] <= Number[b]
              /\ Number[b] - Number[x] \in 0..Above(b)
              /\ Below(b)[Number[b] - Number[x]] = x
<1>1. Above(b) \in Nat /\ DOMAIN Below(b) = 0..Above(b) /\ Below(b)[0] = b
  BY BelowSteps
<1>2. Number[b] \in Nat /\ Number[Start] \in Nat
  BY NumberFacts
<1>3. Chain(b) = {Below(b)[n] : n \in 0..Above(b)}
  BY <1>1 DEF Chain
<1>4. ASSUME NEW x \in Chain(b)
      PROVE  /\ x \in Places
             /\ Number[x] \in Nat /\ Number[x] <= Number[b]
             /\ Number[b] - Number[x] \in 0..Above(b)
             /\ Below(b)[Number[b] - Number[x]] = x
  <2>1. PICK n \in 0..Above(b) : x = Below(b)[n]
    BY <1>3
  <2>2. x \in Places /\ Number[x] = Number[b] - n
    BY <2>1, BelowIn
  <2>3. Number[x] \in Nat
    BY <2>2, NumberFacts
  <2>4. Number[b] - Number[x] = n /\ Number[x] <= Number[b]
    BY <1>1, <1>2, <2>2, <2>3
  <2>5. QED
    BY <2>1, <2>2, <2>3, <2>4
<1>5. b \in Chain(b)
  <2>1. 0 \in 0..Above(b)
    BY <1>1
  <2>2. QED
    BY <1>1, <1>3, <2>1
<1>6. Start \in Chain(b)
  <2>1. Above(b) \in 0..Above(b) /\ Below(b)[Above(b)] = Start
    BY <1>1, BelowIn
  <2>2. QED
    BY <1>3, <2>1
<1>7. QED
  BY <1>2, <1>3, <1>4, <1>5, <1>6


-----------------------------------------------------------------------------
(* The inductive invariant                                                 *)

Busy   == {"connect", "intersect", "tip", "range", "skip", "fetch", "send"}
Early  == {"connect", "intersect", "tip"}

TipAnswer    == OtherAnswer("tip")
BlockAnswers == {BlockAnswer(b) : b \in Blocks}

(* what is in a channel: the tip may come first, and then there are blocks  *)
Content(s) ==
  /\ s \in Seq(BlockAnswers \cup {TipAnswer})
  /\ \A i \in DOMAIN s : i # 1 => s[i] \in BlockAnswers

RequestOk(r) == r.from \subseteq Places /\ r.channel \in Channels

CallerOk ==
  /\ current \in Channels \cup {NoChannel}
  /\ caller \in {"first", "send", "wait"} => points \in PointSets
  /\ caller \in {"first", "wait"} => current \in Channels
  /\ caller = "send" => \/ current = NoChannel
                        \/ buffer[current] = << >> /\ ~Open(current)

(* a channel nobody receives from is empty, and so is that of a request     *)
(* until its range is known                                                *)
ChannelsOk ==
  /\ DOMAIN buffer = Channels
  /\ \A c \in Channels : Content(buffer[c])
  /\ \A c \in Channels : c # current => buffer[c] = << >>

RequestsOk ==
  \/ requests = << >>
  \/ \E r : /\ requests = <<r>> /\ RequestOk(r)
            /\ r.channel # job.channel /\ buffer[r.channel] = << >>

HandlerOk ==
  /\ handler \in Busy => RequestOk(job)
  /\ handler \notin Busy => job = NoJob
  /\ handler \in Early => buffer[job.channel] = << >>
  /\ handler = "range" => buffer[job.channel] \in {<< >>, <<TipAnswer>>}
  /\ handler \in {"tip", "range"}
       => /\ range.tip \in Places
          /\ range.from \in BestKnown(Points(job.from), range.tip)

RestOk ==
  /\ rest \in Seq(Blocks)
  /\ handler \notin {"skip", "fetch", "send"} => rest = << >>
  /\ handler \in {"skip", "send"} => rest # << >>

IInv == node \in Places /\ CallerOk /\ ChannelsOk /\ RequestsOk /\ HandlerOk /\ RestOk

-----------------------------------------------------------------------------
(* Ranges                                                                  *)

LEMMA RangeFacts ==
  ASSUME NEW tip \in Places, NEW p \in Chain(tip)
  PROVE  LET n == Number[tip] - Number[p] IN
         /\ n \in Nat /\ n \in 0..Above(tip)
         /\ RangeOf(p, tip) = [i \in 1..n |-> Below(tip)[n - i]]
         /\ \A i \in 1..n : Below(tip)[n - i] \in Blocks
         /\ RangeOf(p, tip) \in Seq(Blocks)
<1> DEFINE n == Number[tip] - Number[p]
<1>1. /\ Number[tip] \in Nat /\ Number[p] \in Nat /\ Number[p] <= Number[tip]
      /\ n \in 0..Above(tip) /\ Above(tip) \in Nat
  BY ChainFacts, BelowSteps
<1>2. n \in Nat
  BY <1>1
<1>3. RangeOf(p, tip) = [i \in 1..n |-> Below(tip)[n - i]]
  BY DEF RangeOf
<1> HIDE DEF n
<1>4. \A i \in 1..n : n - i \in 0..Above(tip) - 1
  BY <1>1, <1>2
<1>5. \A i \in 1..n : Below(tip)[n - i] \in Blocks
  BY <1>4, BelowIn
<1> DEFINE f == [i \in 1..n |-> Below(tip)[n - i]]
<1>6. f \in Seq(Blocks)
  BY <1>2, <1>5
<1>7. QED
  BY <1>1, <1>2, <1>3, <1>5, <1>6 DEF n

LEMMA PointsAreBlocks ==
  ASSUME NEW from, from \subseteq Places
  PROVE  Points(from) \subseteq Blocks
BY CardanoAssumption DEF Points, Places

(* Who asks for the start gets the genesis block, and what is above it.    *)
LEMMA GenesisRange ==
  ASSUME NEW tip \in Places, Genesis \in Chain(tip)
  PROVE  <<Genesis>> \o RangeOf(Genesis, tip) = RangeOf(Start, tip)
<1> DEFINE m == Number[tip] - Number[Genesis]
           n == Number[tip] - Number[Start]
           g == RangeOf(Genesis, tip)
           s == RangeOf(Start, tip)
<1>1. Start \in Chain(tip) /\ Number[Start] \in Nat /\ Number[Genesis] \in Nat
      /\ Number[tip] \in Nat /\ Number[Genesis] = Number[Start] + 1
  BY ChainFacts, NumberFacts, CardanoAssumption
<1>2. m \in Nat /\ n = m + 1
  BY <1>1, RangeFacts
<1>3. Below(tip)[m] = Genesis
  BY ChainFacts
<1>4. /\ g = [i \in 1..m |-> Below(tip)[m - i]] /\ g \in Seq(Blocks)
      /\ s = [i \in 1..n |-> Below(tip)[n - i]] /\ s \in Seq(Blocks)
  BY <1>1, RangeFacts
<1> HIDE DEF m, n, g, s
<1>5. Len(g) = m /\ Len(s) = m + 1
  BY <1>2, <1>4
<1>6. /\ <<Genesis>> \o g \in Seq(Blocks) /\ Len(<<Genesis>> \o g) = m + 1
      /\ (<<Genesis>> \o g)[1] = Genesis
      /\ \A i \in 1..m : (<<Genesis>> \o g)[i + 1] = g[i]
  BY <1>2, <1>4, <1>5, CardanoAssumption
<1>7. ASSUME NEW i \in 1..m + 1
      PROVE  (<<Genesis>> \o g)[i] = s[i]
  <2>1. s[i] = Below(tip)[(m + 1) - i]
    BY <1>2, <1>4
  <2>2. CASE i = 1
    <3>1. (m + 1) - i = m
      BY <1>2, <2>2
    <3>2. QED
      BY <1>3, <1>6, <2>1, <2>2, <3>1
  <2>3. CASE i # 1
    <3>1. i - 1 \in 1..m /\ i = (i - 1) + 1 /\ m - (i - 1) = (m + 1) - i
      BY <1>2, <2>3
    <3>2. (<<Genesis>> \o g)[i] = g[i - 1]
      BY <1>6, <3>1
    <3>3. g[i - 1] = Below(tip)[m - (i - 1)]
      BY <1>4, <3>1
    <3>4. QED
      BY <2>1, <3>1, <3>2, <3>3
  <2>4. QED
    BY <2>2, <2>3
<1>8. QED
  <2> DEFINE a == <<Genesis>> \o g
  <2>1. a \in Seq(Blocks) /\ Len(a) = Len(s) /\ s \in Seq(Blocks)
    BY <1>4, <1>5, <1>6
  <2>2. \A i \in 1..Len(s) : a[i] = s[i]
    BY <1>5, <1>7
  <2> HIDE DEF a
  <2>3. a = s
    BY <2>1, <2>2
  <2>4. QED
    BY <2>3 DEF a, g, s

(* What the node sends for a request, the first block skipped or not, is   *)
(* the range above the best of the points that were asked for.             *)
FirstSkipped(from, s) == IF IgnoresFirst(from) THEN Tail(s) ELSE s

LEMMA RangeAnswers ==
  ASSUME NEW from, from \subseteq Places, NEW tip \in Places,
         NEW p \in BestKnown(Points(from), tip)
  PROVE  /\ p \in Chain(tip)
         /\ <<p>> \o RangeOf(p, tip) \in Seq(Blocks) /\ <<p>> \o RangeOf(p, tip) # << >>
         /\ \E q \in BestKnown(from, tip) :
              FirstSkipped(from, <<p>> \o RangeOf(p, tip)) = RangeOf(q, tip)
<1> DEFINE r == RangeOf(p, tip)
<1>1. p \in Points(from) /\ p \in Chain(tip) /\ p \in Blocks
  BY PointsAreBlocks DEF BestKnown, Known
<1>2. r \in Seq(Blocks)
  BY <1>1, RangeFacts
<1> HIDE DEF r
<1>3. <<p>> \o r \in Seq(Blocks) /\ <<p>> \o r # << >> /\ Tail(<<p>> \o r) = r
  BY <1>1, <1>2
<1>4. CASE from = {Start}
  <2>1. p = Genesis
    BY <1>1, <1>4 DEF Points
  <2>2. <<p>> \o r = RangeOf(Start, tip)
    BY <1>1, <2>1, GenesisRange DEF r
  <2>3. Start \in BestKnown(from, tip)
    <3>1. Start \in Chain(tip) /\ Number[Start] \in Nat
      BY ChainFacts, NumberFacts
    <3>2. QED
      BY <1>4, <3>1 DEF BestKnown, Known
  <2>4. FirstSkipped(from, <<p>> \o r) = RangeOf(Start, tip)
    BY <1>4, <2>2 DEF FirstSkipped, IgnoresFirst
  <2>5. QED
    BY <1>1, <1>3, <2>3, <2>4 DEF r
<1>5. CASE from # {Start}
  <2>1. FirstSkipped(from, <<p>> \o r) = r
    BY <1>3, <1>5 DEF FirstSkipped, IgnoresFirst
  <2>2. Points(from) = from \ {Start}
    BY <1>5 DEF Points
  <2>3. \A q \in Chain(tip) : Number[Start] <= Number[q]
    BY ChainFacts, NumberFacts
  <2>4. ASSUME NEW q \in Known(from, tip)
        PROVE  Number[q] <= Number[p]
    <3>1. CASE q = Start
      BY <1>1, <2>3, <3>1
    <3>2. CASE q # Start
      <4>1. q \in Known(Points(from), tip)
        BY <2>2, <3>2 DEF Known
      <4>2. QED
        BY <4>1 DEF BestKnown
    <3>3. QED
      BY <3>1, <3>2
  <2>5. p \in BestKnown(from, tip)
    BY <1>1, <2>2, <2>4 DEF BestKnown, Known
  <2>6. QED
    BY <1>1, <1>3, <2>1, <2>5 DEF r
<1>6. QED
  BY <1>4, <1>5

-----------------------------------------------------------------------------
(* What is in a channel                                                    *)

LEMMA AnswersDiffer ==
  /\ TipAnswer.kind = "tip"
  /\ \A b \in Blocks : /\ BlockAnswer(b) \in BlockAnswers
                       /\ BlockAnswer(b).kind # "tip" /\ BlockAnswer(b).block = b
  /\ \A a \in BlockAnswers : a.block \in Blocks /\ a = BlockAnswer(a.block)
                             /\ a.kind # "tip"
<1>1. TipAnswer.kind = "tip"
  BY DEF TipAnswer, OtherAnswer
<1>2. \A b : BlockAnswer(b).kind # "tip" /\ BlockAnswer(b).block = b
  BY DEF BlockAnswer
<1>3. \A b \in Blocks : BlockAnswer(b) \in BlockAnswers
  BY DEF BlockAnswers
<1>4. \A a \in BlockAnswers : \E b \in Blocks : a = BlockAnswer(b)
  BY DEF BlockAnswers
<1>5. QED
  BY <1>1, <1>2, <1>3, <1>4

LEMMA SentOfNothing ==
  /\ Sent(<< >>) = << >> /\ Sent(<<TipAnswer>>) = << >>
  /\ Content(<< >>) /\ Content(<<TipAnswer>>)
<1>1. WithoutTip(<< >>) = << >>
  BY DEF WithoutTip
<1>2. WithoutTip(<<TipAnswer>>) = << >>
  BY AnswersDiffer DEF WithoutTip
<1>3. QED
  BY <1>1, <1>2 DEF Sent, Content

(* the blocks are a list of blocks, or their answers are                   *)
LEMMA SentIs ==
  ASSUME NEW s, Content(s)
  PROVE  /\ WithoutTip(s) \in Seq(BlockAnswers)
         /\ Len(Sent(s)) = Len(WithoutTip(s))
         /\ \A i \in 1..Len(Sent(s)) : Sent(s)[i] = WithoutTip(s)[i].block
         /\ Sent(s) \in Seq(Blocks)
<1> DEFINE w == WithoutTip(s)
<1>1. s \in Seq(BlockAnswers \cup {TipAnswer}) /\ \A i \in DOMAIN s : i # 1 => s[i] \in BlockAnswers
  BY DEF Content
<1>2. w \in Seq(BlockAnswers)
  <2>1. CASE s # << >> /\ Head(s).kind = "tip"
    <3>1. w = Tail(s) /\ Len(s) \in Nat /\ Len(s) # 0 /\ DOMAIN s = 1..Len(s)
      BY <1>1, <2>1 DEF WithoutTip
    <3>2. /\ Tail(s) \in Seq(BlockAnswers \cup {TipAnswer}) /\ Len(Tail(s)) = Len(s) - 1
          /\ \A i \in 1..Len(s) - 1 : Tail(s)[i] = s[i + 1]
      BY <1>1, <2>1
    <3>3. \A i \in 1..Len(Tail(s)) : Tail(s)[i] \in BlockAnswers
      BY <1>1, <3>1, <3>2
    <3> DEFINE u == Tail(s)
    <3>4. u \in Seq(BlockAnswers \cup {TipAnswer}) /\ \A i \in 1..Len(u) : u[i] \in BlockAnswers
      BY <3>2, <3>3
    <3> HIDE DEF u
    <3>5. u \in Seq(BlockAnswers)
      BY <3>4
    <3>6. QED
      BY <3>1, <3>5 DEF u
  <2>2. CASE ~(s # << >> /\ Head(s).kind = "tip")
    <3>1. w = s
      BY <2>2 DEF WithoutTip
    <3>2. \A i \in 1..Len(s) : s[i] \in BlockAnswers
      BY <1>1, <2>2, AnswersDiffer
    <3>3. QED
      BY <1>1, <3>1, <3>2
  <2>3. QED
    BY <2>1, <2>2
<1>3. Sent(s) = [i \in DOMAIN w |-> w[i].block]
  BY DEF Sent
<1> HIDE DEF w
<1>4. Sent(s) = [i \in 1..Len(w) |-> w[i].block] /\ Len(w) \in Nat
  BY <1>2, <1>3
<1>5. \A i \in 1..Len(w) : w[i].block \in Blocks
  BY <1>2, AnswersDiffer
<1>6. Sent(s) \in Seq(Blocks) /\ Len(Sent(s)) = Len(w)
  BY <1>4, <1>5
<1>7. QED
  BY <1>2, <1>4, <1>6 DEF w

LEMMA SentAppend ==
  ASSUME NEW s, Content(s), NEW b \in Blocks
  PROVE  /\ Content(Append(s, BlockAnswer(b)))
         /\ Sent(Append(s, BlockAnswer(b))) = Append(Sent(s), b)
<1> DEFINE x == BlockAnswer(b)
           t == Append(s, x)
<1>1. x \in BlockAnswers /\ x.kind # "tip" /\ x.block = b
  BY AnswersDiffer
<1>2. s \in Seq(BlockAnswers \cup {TipAnswer}) /\ \A i \in DOMAIN s : i # 1 => s[i] \in BlockAnswers
  BY DEF Content
<1> HIDE DEF x
<1>3. /\ t \in Seq(BlockAnswers \cup {TipAnswer}) /\ Len(t) = Len(s) + 1 /\ Len(s) \in Nat
      /\ (\A i \in 1..Len(s) : t[i] = s[i]) /\ t[Len(s) + 1] = x
      /\ DOMAIN t = 1..Len(s) + 1 /\ DOMAIN s = 1..Len(s)
      /\ (s = << >> <=> Len(s) = 0)
  BY <1>1, <1>2
<1>4. Content(t)
  <2>1. \A i \in DOMAIN t : i # 1 => t[i] \in BlockAnswers
    BY <1>1, <1>2, <1>3
  <2>2. QED
    BY <1>3, <2>1 DEF Content
<1>5. WithoutTip(t) = Append(WithoutTip(s), x)
  <2>1. CASE s = << >>
    <3>1. t = <<x>> /\ Head(<<x>>) = x
      BY <2>1
    <3>2. QED
      BY <1>1, <2>1, <3>1 DEF WithoutTip
  <2>2. CASE s # << >>
    <3>1. t # << >> /\ Head(t) = Head(s) /\ Tail(t) = Append(Tail(s), x)
      BY <1>2, <2>2
    <3>2. QED
      BY <2>2, <3>1 DEF WithoutTip
  <2>3. QED
    BY <2>1, <2>2
<1> HIDE DEF t
<1> DEFINE w == WithoutTip(s)
           v == WithoutTip(t)
           p == Sent(s)
           q == Sent(t)
<1>6. /\ w \in Seq(BlockAnswers) /\ p \in Seq(Blocks) /\ Len(p) = Len(w)
      /\ \A i \in 1..Len(p) : p[i] = w[i].block
      /\ q \in Seq(Blocks) /\ Len(q) = Len(v)
      /\ \A i \in 1..Len(q) : q[i] = v[i].block
  BY <1>4, SentIs
<1>7. v = Append(w, x)
  BY <1>5
<1> HIDE DEF w, v, p, q
<1>8. /\ Len(v) = Len(w) + 1 /\ Len(w) \in Nat
      /\ (\A i \in 1..Len(w) : v[i] = w[i]) /\ v[Len(w) + 1] = x
  BY <1>1, <1>6, <1>7
<1>9. /\ Append(p, b) \in Seq(Blocks) /\ Len(Append(p, b)) = Len(p) + 1
      /\ (\A i \in 1..Len(p) : Append(p, b)[i] = p[i]) /\ Append(p, b)[Len(p) + 1] = b
  BY <1>6
<1>10. \A i \in 1..Len(q) : Append(p, b)[i] = q[i]
  BY <1>1, <1>6, <1>8, <1>9
<1>11. q = Append(p, b)
  <2> DEFINE a == Append(p, b)
  <2>1. a \in Seq(Blocks) /\ Len(a) = Len(q) /\ \A i \in 1..Len(q) : a[i] = q[i]
    BY <1>6, <1>8, <1>9, <1>10
  <2> HIDE DEF a
  <2>2. a = q
    BY <1>6, <2>1
  <2>3. QED
    BY <2>2 DEF a
<1>12. QED
  BY <1>4, <1>11 DEF p, q, t, x

LEMMA SentTail ==
  ASSUME NEW s, Content(s), s # << >>
  PROVE  /\ Content(Tail(s))
         /\ \/ Head(s) = TipAnswer /\ Sent(Tail(s)) = Sent(s)
            \/ /\ Sent(s) # << >> /\ Head(Sent(s)) \in Blocks
               /\ Head(s) = BlockAnswer(Head(Sent(s)))
               /\ Sent(Tail(s)) = Tail(Sent(s))
<1> DEFINE T == BlockAnswers \cup {TipAnswer}
           t == Tail(s)
<1>1. s \in Seq(T) /\ \A i \in DOMAIN s : i # 1 => s[i] \in BlockAnswers
  BY DEF Content
<1> HIDE DEF T
<1>2. /\ t \in Seq(T) /\ Len(t) = Len(s) - 1 /\ Len(s) \in Nat \ {0}
      /\ (\A i \in 1..Len(s) - 1 : t[i] = s[i + 1]) /\ DOMAIN s = 1..Len(s)
      /\ DOMAIN t = 1..Len(s) - 1 /\ Head(s) = s[1] /\ Head(s) \in T
  BY <1>1
<1> HIDE DEF t
<1>3. \A i \in DOMAIN t : t[i] \in BlockAnswers
  BY <1>1, <1>2
<1>4. Content(t)
  BY <1>2, <1>3 DEF Content, T
<1>5. WithoutTip(t) = t
  <2>1. t # << >> => Head(t) = t[1] /\ 1 \in DOMAIN t
    BY <1>2
  <2>2. t # << >> => Head(t).kind # "tip"
    BY <1>3, <2>1, AnswersDiffer
  <2>3. QED
    BY <2>2 DEF WithoutTip
<1>6. CASE Head(s) = TipAnswer
  <2>1. WithoutTip(s) = t
    BY <1>6, AnswersDiffer DEF WithoutTip, t
  <2>2. Sent(t) = Sent(s)
    BY <1>5, <2>1 DEF Sent
  <2>3. QED
    BY <1>4, <1>6, <2>2 DEF t
<1>7. CASE Head(s) # TipAnswer
  <2>1. Head(s) \in BlockAnswers
    BY <1>2, <1>7 DEF T
  <2>2. WithoutTip(s) = s
    BY <2>1, AnswersDiffer DEF WithoutTip
  <2> DEFINE p == Sent(s)
             q == Sent(t)
  <2>3. /\ p \in Seq(Blocks) /\ Len(p) = Len(s) /\ \A i \in 1..Len(p) : p[i] = s[i].block
        /\ q \in Seq(Blocks) /\ Len(q) = Len(t) /\ \A i \in 1..Len(q) : q[i] = t[i].block
    BY <1>4, <1>5, <2>2, SentIs
  <2> HIDE DEF p, q
  <2>4. /\ p # << >> /\ Head(p) = p[1] /\ p[1] = s[1].block
        /\ Tail(p) \in Seq(Blocks) /\ Len(Tail(p)) = Len(p) - 1
        /\ \A i \in 1..Len(p) - 1 : Tail(p)[i] = p[i + 1]
    BY <1>2, <2>3
  <2>5. \A i \in 1..Len(q) : q[i] = Tail(p)[i]
    BY <1>2, <2>3, <2>4
  <2>6. q = Tail(p)
    <3> DEFINE a == Tail(p)
    <3>1. a \in Seq(Blocks) /\ Len(a) = Len(q) /\ \A i \in 1..Len(q) : a[i] = q[i]
      BY <1>2, <2>3, <2>4, <2>5
    <3> HIDE DEF a
    <3>2. a = q
      BY <2>3, <3>1
    <3>3. QED
      BY <3>2 DEF a
  <2>7. Head(p) \in Blocks /\ Head(s) = BlockAnswer(Head(p))
    BY <1>2, <2>1, <2>4, AnswersDiffer
  <2>8. QED
    BY <1>4, <2>4, <2>6, <2>7 DEF p, q, t
<1>8. QED
  BY <1>6, <1>7

-----------------------------------------------------------------------------
(* The invariant is inductive                                              *)

LEMMA ChannelFacts == NoChannel \notin Channels /\ NoJob.channel = NoChannel /\ NoJob.from = {}
BY DEF NoChannel, Channels, NoJob

LEMMA InitIInv == ASSUME Init PROVE IInv
<1>1. /\ node = Start /\ caller = "idle" /\ current = NoChannel /\ requests = << >>
      /\ buffer = [c \in Channels |-> << >>] /\ handler = "recv" /\ job = NoJob
      /\ rest = << >>
  BY DEF Init
<1>2. node \in Places /\ CallerOk
  BY <1>1 DEF Places, CallerOk
<1>3. ChannelsOk /\ RequestsOk
  BY <1>1, SentOfNothing DEF ChannelsOk, RequestsOk
<1>4. HandlerOk /\ RestOk
  BY <1>1 DEF HandlerOk, RestOk, Busy, Early
<1>5. QED
  BY <1>2, <1>3, <1>4 DEF IInv

LEMMA NodeMovesKeeps == ASSUME IInv, NodeMoves PROVE IInv'
<1>1. node' \in Places /\ UNCHANGED <<callerVars, requests, buffer, handlerVars>>
  BY DEF NodeMoves, Places
<1>2. UNCHANGED <<caller, points, current, requests, buffer, handler, job, range, rest>>
  BY <1>1 DEF callerVars, handlerVars
<1>3. QED
  BY <1>1, <1>2 DEF IInv, CallerOk, ChannelsOk, RequestsOk, HandlerOk, RestOk, Open

(* The caller.                                                             *)
LEMMA CallerOnly ==
  ASSUME IInv, CallerOk', UNCHANGED <<node, current, requests, buffer, handlerVars>>
  PROVE  IInv'
<1>1. UNCHANGED <<current, requests, buffer, handler, job, range, rest>>
  BY DEF handlerVars
<1>2. QED
  BY <1>1 DEF IInv, ChannelsOk, RequestsOk, HandlerOk, RestOk

LEMMA CallerMovesKeeps ==
  ASSUME IInv, Pull \/ FirstIsOver \/ WaitIsOver \/ SendFails \/ Cancel \/ Stopped
  PROVE  IInv'
<1>1. UNCHANGED <<node, current, requests, buffer, handlerVars>>
  BY DEF Pull, FirstIsOver, WaitIsOver, SendFails, Cancel, Stopped
<1>2. UNCHANGED job
  BY <1>1 DEF handlerVars
<1>3. ASSUME Pull PROVE CallerOk'
  BY <1>1, <1>3 DEF Pull, IInv, CallerOk
<1>4. ASSUME FirstIsOver PROVE CallerOk'
  BY <1>1, <1>2, <1>4 DEF FirstIsOver, IInv, CallerOk, Open
<1>5. ASSUME WaitIsOver \/ SendFails \/ Cancel \/ Stopped PROVE CallerOk'
  BY <1>1, <1>5 DEF WaitIsOver, SendFails, Cancel, Stopped, IInv, CallerOk
<1>6. QED
  BY <1>1, <1>3, <1>4, <1>5, CallerOnly

LEMMA ReceiveKeeps == ASSUME IInv, Receive PROVE IInv'
<1>1. /\ current \in Channels /\ buffer[current] # << >>
      /\ buffer' = [buffer EXCEPT ![current] = Tail(@)]
      /\ caller' = "idle"
      /\ UNCHANGED <<node, current, requests, handler, job, range, rest>>
  BY DEF Receive, IInv, CallerOk, handlerVars
<1>2. ChannelsOk
  BY DEF IInv
<1>3. /\ buffer'[current] = Tail(buffer[current]) /\ DOMAIN buffer' = Channels
      /\ \A c \in Channels : c # current => buffer'[c] = buffer[c]
  BY <1>1, <1>2 DEF ChannelsOk
<1>4. Content(buffer'[current])
  BY <1>1, <1>2, <1>3, SentTail DEF ChannelsOk
<1>5. ChannelsOk'
  BY <1>1, <1>2, <1>3, <1>4 DEF ChannelsOk
<1>6. CallerOk'
  BY <1>1 DEF IInv, CallerOk
<1>7. RequestsOk'
  BY <1>1, <1>3 DEF IInv, RequestsOk, RequestOk
<1>8. HandlerOk'
  <2>1. handler \in Busy => job.channel \in Channels
    BY DEF IInv, HandlerOk, RequestOk
  <2>2. handler \in Early => buffer'[job.channel] = << >>
    BY <1>1, <1>3, <2>1 DEF IInv, HandlerOk, Early, Busy
  <2>3. Tail(<<TipAnswer>>) = << >>
    OBVIOUS
  <2>4. handler = "range" => buffer'[job.channel] \in {<< >>, <<TipAnswer>>}
    BY <1>1, <1>3, <2>1, <2>3 DEF IInv, HandlerOk, Busy
  <2>5. QED
    BY <1>1, <2>2, <2>4 DEF IInv, HandlerOk
<1>9. QED
  BY <1>1, <1>5, <1>6, <1>7, <1>8 DEF IInv, RestOk

(* Nobody receives from a channel any more: it is emptied, with no harm to *)
(* the others.                                                             *)
Emptied(c) == [d \in Channels |-> IF d = c THEN << >> ELSE buffer[d]]

LEMMA EmptiedKeeps ==
  ASSUME IInv, NEW new \in Channels \cup {NoChannel}, current' = new,
         buffer' = Emptied(current), new # current, UNCHANGED <<handler, job, range, rest>>
  PROVE  ChannelsOk' /\ HandlerOk' /\ \A c \in Channels : buffer'[c] = << >>
<1>1. DOMAIN buffer' = Channels /\ \A c \in Channels : buffer'[c] = << >>
  BY DEF Emptied, IInv, ChannelsOk
<1>2. ChannelsOk'
  BY <1>1, SentOfNothing DEF ChannelsOk
<1>3. HandlerOk'
  BY <1>1 DEF IInv, HandlerOk, RequestOk, Busy, Early
<1>4. QED
  BY <1>1, <1>2, <1>3

LEMMA DroppedKeeps == ASSUME IInv, ClearBuffers \/ Stop PROVE IInv'
<1>1. /\ current' = NoChannel /\ buffer' = Emptied(current) /\ caller' \in {"idle", "stopping"}
      /\ UNCHANGED <<node, requests, handler, job, range, rest>>
  BY DEF ClearBuffers, Stop, DropCurrent, Emptied, handlerVars, IInv
<1>2. CallerOk'
  BY <1>1 DEF CallerOk
<1>3. ChannelsOk' /\ HandlerOk' /\ \A c \in Channels : buffer'[c] = << >>
  <2>1. CASE current = NoChannel
    <3>1. \A c \in Channels : c # NoChannel
      BY ChannelFacts
    <3>2. DOMAIN buffer' = Channels /\ \A c \in Channels : buffer'[c] = << >>
      BY <1>1, <2>1, <3>1 DEF Emptied, IInv, ChannelsOk
    <3>3. QED
      BY <1>1, <2>1, <3>2, SentOfNothing DEF IInv, ChannelsOk, HandlerOk, RequestOk, Busy, Early
  <2>2. CASE current # NoChannel
    BY <1>1, <2>2, EmptiedKeeps
  <2>3. QED
    BY <2>1, <2>2
<1>4. RequestsOk'
  BY <1>1, <1>3 DEF IInv, RequestsOk, RequestOk
<1>5. QED
  BY <1>1, <1>2, <1>3, <1>4 DEF IInv, RestOk

(* the channel of a new request is nobody's                                *)
Asks(new, from) ==
  /\ new \in Channels /\ new # current /\ new # job.channel
  /\ from = IF points = {} THEN {DefaultFrom} ELSE points
  /\ requests' = <<[from |-> from, channel |-> new]>>
  /\ current' = new /\ from \subseteq Places

LEMMA SendAsks ==
  ASSUME IInv, Send
  PROVE  \E new, from : Asks(new, from)
<1> DEFINE new == CHOOSE c \in Channels : c # current /\ ~Open(c)
           from == IF points = {} THEN {DefaultFrom} ELSE points
<1>1. requests = << >> /\ points \in PointSets
  BY DEF Send, IInv, CallerOk
<1>2. \E c \in Channels : c # current /\ c # job.channel
  BY DEF Channels
<1>3. \A c : Open(c) <=> c = job.channel
  BY <1>1 DEF Open
<1>4. new \in Channels /\ new # current /\ new # job.channel
  <2>1. \E c \in Channels : c # current /\ ~Open(c)
    BY <1>2, <1>3
  <2>2. new \in Channels /\ new # current /\ ~Open(new)
    BY <2>1
  <2>3. QED
    BY <1>3, <2>2
<1>5. requests' = <<[from |-> from, channel |-> new]>> /\ current' = new
  BY Zenon DEF Send
<1>6. from \subseteq Places
  BY <1>1, CardanoAssumption DEF Places
<1> HIDE DEF new
<1>7. QED
  BY <1>4, <1>5, <1>6 DEF Asks

LEMMA SendKeeps == ASSUME IInv, Send PROVE IInv'
<1>1. PICK new, from : Asks(new, from)
  BY SendAsks
<1>2. /\ buffer' = Emptied(current) /\ caller' = "wait"
      /\ UNCHANGED <<node, points, handler, job, range, rest>>
  BY Zenon DEF Send, Emptied, handlerVars
<1>3. ChannelsOk' /\ HandlerOk' /\ \A c \in Channels : buffer'[c] = << >>
  BY <1>1, <1>2, EmptiedKeeps DEF Asks
<1>4. CallerOk'
  BY <1>1, <1>2 DEF Asks, CallerOk, IInv, Send
<1>5. RequestsOk'
  <2> DEFINE r == [from |-> from, channel |-> new]
  <2>1. requests' = <<r>> /\ r.channel = new /\ r.from = from
    BY <1>1 DEF Asks
  <2> HIDE DEF r
  <2>2. RequestOk(r) /\ r.channel # job'.channel /\ buffer'[r.channel] = << >>
    BY <1>1, <1>2, <1>3, <2>1 DEF Asks, RequestOk
  <2>3. QED
    BY <2>1, <2>2 DEF RequestsOk
<1>6. QED
  BY <1>2, <1>3, <1>4, <1>5 DEF IInv, RestOk

(* The handler.                                                            *)
LEMMA OverKeeps == ASSUME IInv, NEW keep, Over(keep) PROVE IInv'
<1>1. /\ handler' = "recv" /\ job' = NoJob /\ rest' = << >>
      /\ UNCHANGED <<node, caller, points, current, requests, buffer>>
  BY DEF Over, Released, callerVars
<1>2. \A c \in Channels : ~Open(c) => ~Open(c)'
  BY <1>1, ChannelFacts DEF Open
<1>3. CallerOk'
  BY <1>1, <1>2 DEF IInv, CallerOk
<1>4. ChannelsOk'
  BY <1>1 DEF IInv, ChannelsOk
<1>5. RequestsOk'
  BY <1>1, ChannelFacts DEF IInv, RequestsOk, RequestOk
<1>6. HandlerOk' /\ RestOk'
  BY <1>1 DEF HandlerOk, RestOk, Busy, Early
<1>7. QED
  BY <1>1, <1>3, <1>4, <1>5, <1>6 DEF IInv

LEMMA TakeRequestKeeps == ASSUME IInv, TakeRequest PROVE IInv'
<1>1. /\ requests # << >> /\ job' = Head(requests) /\ requests' = << >>
      /\ handler' \in {"intersect", "connect"} /\ handler = "recv"
      /\ UNCHANGED <<node, caller, points, current, buffer, range, rest>>
  BY DEF TakeRequest, callerVars
<1>2. PICK r : /\ requests = <<r>> /\ RequestOk(r) /\ buffer[r.channel] = << >>
  BY <1>1 DEF IInv, RequestsOk
<1>3. job' = r
  BY <1>1, <1>2
<1>4. \A c : ~Open(c) => ~Open(c)'
  BY <1>1, <1>2, <1>3 DEF Open
<1>5. CallerOk'
  BY <1>1, <1>4 DEF IInv, CallerOk
<1>6. ChannelsOk' /\ RequestsOk'
  BY <1>1 DEF IInv, ChannelsOk, RequestsOk
<1>7. HandlerOk'
  BY <1>1, <1>2, <1>3 DEF HandlerOk, Busy, Early
<1>8. RestOk'
  BY <1>1 DEF IInv, RestOk
<1>9. QED
  BY <1>1, <1>5, <1>6, <1>7, <1>8 DEF IInv

(* a step of the handler alone                                             *)
LEMMA HandlerOnly ==
  ASSUME IInv, HandlerOk', RestOk', UNCHANGED <<node, callerVars, requests, buffer, job>>
  PROVE  IInv'
<1>1. UNCHANGED <<caller, points, current, requests, buffer, job>>
  BY DEF callerVars
<1>2. QED
  BY <1>1 DEF IInv, CallerOk, ChannelsOk, RequestsOk, Open

LEMMA HandlerMovesKeeps ==
  ASSUME IInv, LastRequestWasHandled \/ Connect \/ Fetch
  PROVE  IInv'
<1>1. UNCHANGED <<node, callerVars, requests, buffer, job>>
  BY DEF LastRequestWasHandled, Connect, Fetch
<1>2. HandlerOk'
  BY DEF LastRequestWasHandled, Connect, Fetch, IInv, HandlerOk, Busy, Early
<1>3. RestOk'
  BY DEF LastRequestWasHandled, Connect, Fetch, IInv, RestOk
<1>4. QED
  BY <1>1, <1>2, <1>3, HandlerOnly

LEMMA IntersectKeeps == ASSUME IInv, Intersect PROVE IInv'
<1>1. /\ handler = "intersect" /\ handler' = "tip"
      /\ UNCHANGED <<node, callerVars, requests, buffer, job, rest>>
  BY DEF Intersect
<1>2. PICK p \in BestKnown(Points(job.from), node) : range' = [from |-> p, tip |-> node]
  BY DEF Intersect, Found
<1>3. HandlerOk'
  BY <1>1, <1>2 DEF IInv, HandlerOk, Busy, Early
<1>4. RestOk'
  BY <1>1 DEF IInv, RestOk
<1>5. QED
  BY <1>1, <1>3, <1>4, HandlerOnly

LEMMA RequestRangeKeeps == ASSUME IInv, RequestRange PROVE IInv'
<1>1. /\ handler = "range" /\ handler' \in {"skip", "fetch"}
      /\ rest' = <<range.from>> \o RangeOf(range.from, range.tip)
      /\ UNCHANGED <<node, callerVars, requests, buffer, job>>
  BY DEF RequestRange
<1>2. /\ RequestOk(job) /\ range.tip \in Places
      /\ range.from \in BestKnown(Points(job.from), range.tip)
  BY <1>1 DEF IInv, HandlerOk, Busy
<1>3. rest' \in Seq(Blocks) /\ rest' # << >>
  BY <1>1, <1>2, RangeAnswers DEF RequestOk
<1>4. HandlerOk' /\ RestOk'
  BY <1>1, <1>2, <1>3 DEF HandlerOk, RestOk, Busy, Early
<1>5. QED
  BY <1>1, <1>4, HandlerOnly

LEMMA SkipFirstKeeps == ASSUME IInv, SkipFirst PROVE IInv'
<1>1. /\ handler = "skip" /\ handler' = "fetch" /\ rest' = Tail(rest)
      /\ UNCHANGED <<node, callerVars, requests, buffer, job>>
  BY DEF SkipFirst
<1>2. rest \in Seq(Blocks) /\ rest # << >>
  BY <1>1 DEF IInv, RestOk
<1>3. HandlerOk' /\ RestOk'
  BY <1>1, <1>2 DEF IInv, HandlerOk, RestOk, Busy, Early
<1>4. QED
  BY <1>1, <1>3, HandlerOnly

(* what the handler appends to its channel                                 *)
LEMMA AppendedKeeps ==
  ASSUME IInv, handler \in {"tip", "send"}, Listened, NEW a,
         Content(Append(buffer[current], a)),
         buffer' = [buffer EXCEPT ![current] = Append(@, a)],
         UNCHANGED <<node, callerVars, requests, job>>,
         HandlerOk', RestOk'
  PROVE  IInv'
<1>1. UNCHANGED <<caller, points, current, requests, job, node>>
  BY DEF callerVars
<1>2. job.channel = current /\ current \in Channels /\ current # NoChannel
  BY ChannelFacts DEF Listened, IInv, HandlerOk, RequestOk, Busy
<1>3. /\ DOMAIN buffer' = Channels /\ buffer'[current] = Append(buffer[current], a)
      /\ \A c \in Channels : c # current => buffer'[c] = buffer[c]
  BY <1>2 DEF IInv, ChannelsOk
<1>4. ChannelsOk'
  BY <1>1, <1>2, <1>3 DEF IInv, ChannelsOk
<1>5. CallerOk'
  <2>1. Open(current)
    BY <1>2 DEF Open
  <2>2. QED
    BY <1>1, <1>2, <2>1 DEF IInv, CallerOk
<1>6. RequestsOk'
  BY <1>1, <1>2, <1>3 DEF IInv, RequestsOk, RequestOk
<1>7. QED
  BY <1>1, <1>4, <1>5, <1>6 DEF IInv

LEMMA SendTipKeeps == ASSUME IInv, SendTip PROVE IInv'
<1>1. /\ handler = "tip" /\ handler' = "range"
      /\ UNCHANGED <<node, callerVars, requests, job, range, rest>>
  BY DEF SendTip
<1>2. /\ RequestOk(job) /\ buffer[job.channel] = << >> /\ RestOk'
  BY <1>1 DEF IInv, HandlerOk, RestOk, Busy, Early
<1>3. CASE buffer' = buffer
  <2>1. HandlerOk'
    BY <1>1, <1>2, <1>3 DEF IInv, HandlerOk, Busy, Early
  <2>2. QED
    BY <1>1, <1>2, <1>3, <2>1, HandlerOnly
<1>4. CASE Listened /\ buffer' = [buffer EXCEPT ![current] = Append(@, TipAnswer)]
  <2>1. buffer[current] = << >> /\ current = job.channel /\ current \in DOMAIN buffer
    BY <1>2, <1>4 DEF Listened, RequestOk, IInv, ChannelsOk
  <2>2. Append(<< >>, TipAnswer) = <<TipAnswer>>
    OBVIOUS
  <2>3. buffer'[job.channel] = <<TipAnswer>>
    BY <1>4, <2>1, <2>2
  <2>4. HandlerOk'
    BY <1>1, <1>2, <2>3 DEF IInv, HandlerOk, Busy, Early
  <2>5. Content(Append(buffer[current], TipAnswer))
    BY <2>1, <2>2, SentOfNothing
  <2>6. QED
    BY <1>1, <1>2, <1>4, <2>4, <2>5, AppendedKeeps
<1>5. QED
  BY <1>3, <1>4 DEF SendTip, TipAnswer

LEMMA SendBlockKeeps == ASSUME IInv, SendBlock PROVE IInv'
<1>1. /\ handler = "send" /\ handler' = "fetch" /\ Listened /\ rest' = Tail(rest)
      /\ buffer' = [buffer EXCEPT ![current] = Append(@, BlockAnswer(Head(rest)))]
      /\ UNCHANGED <<node, callerVars, requests, job, range>>
  BY DEF SendBlock
<1>2. rest \in Seq(Blocks) /\ rest # << >>
  BY <1>1 DEF IInv, RestOk
<1>3. Head(rest) \in Blocks /\ Tail(rest) \in Seq(Blocks)
  BY <1>2
<1>4. HandlerOk' /\ RestOk'
  BY <1>1, <1>3 DEF IInv, HandlerOk, RestOk, Busy, Early
<1>5. Content(buffer[current])
  BY <1>1 DEF Listened, IInv, HandlerOk, RequestOk, ChannelsOk, Busy
<1>6. Content(Append(buffer[current], BlockAnswer(Head(rest))))
  BY <1>3, <1>5, SentAppend
<1>7. QED
  BY <1>1, <1>4, <1>6, AppendedKeeps

LEMMA FetchPanicsKeeps == ASSUME IInv, FetchPanics PROVE IInv'
<1>1. /\ handler' = "dead" /\ job' = NoJob /\ rest' = << >> /\ requests' = << >>
      /\ UNCHANGED <<node, caller, points, current, buffer>>
  BY DEF FetchPanics, callerVars
<1>2. \A c \in Channels : ~Open(c)'
  BY <1>1, ChannelFacts DEF Open
<1>3. CallerOk'
  BY <1>1, <1>2 DEF IInv, CallerOk
<1>4. ChannelsOk' /\ RequestsOk'
  BY <1>1 DEF IInv, ChannelsOk, RequestsOk
<1>5. HandlerOk' /\ RestOk'
  BY <1>1 DEF HandlerOk, RestOk, Busy, Early
<1>6. QED
  BY <1>1, <1>3, <1>4, <1>5 DEF IInv

LEMMA StepKeeps == ASSUME IInv, [Next]_vars PROVE IInv'
<1>1. CASE NodeMoves
  BY <1>1, NodeMovesKeeps
<1>2. CASE Pull \/ Cancel \/ ClearBuffers \/ Stop
  BY <1>2, CallerMovesKeeps, DroppedKeeps
<1>3. CASE CallerStep
  BY <1>3, CallerMovesKeeps, ReceiveKeeps, SendKeeps DEF CallerStep
<1>4. CASE HandlerStep
  <2>1. CASE ConnectFails \/ NothingToPull \/ NoBlocksInRange \/ NotListened
             \/ RangeIsOver \/ ConnectionFails
    BY <2>1, OverKeeps DEF ConnectFails, NothingToPull, NoBlocksInRange, NotListened,
       RangeIsOver, ConnectionFails
  <2>2. CASE TakeRequest \/ LastRequestWasHandled \/ Connect \/ Fetch
    BY <2>2, TakeRequestKeeps, HandlerMovesKeeps
  <2>3. CASE Intersect \/ SendTip \/ RequestRange \/ SkipFirst
    BY <2>3, IntersectKeeps, SendTipKeeps, RequestRangeKeeps, SkipFirstKeeps
  <2>4. CASE FetchPanics \/ SendBlock
    BY <2>4, FetchPanicsKeeps, SendBlockKeeps
  <2>5. QED
    BY <1>4, <2>1, <2>2, <2>3, <2>4 DEF HandlerStep
<1>5. CASE UNCHANGED vars
  BY <1>5 DEF vars, callerVars, handlerVars, IInv, CallerOk, ChannelsOk, RequestsOk,
     HandlerOk, RestOk, Open
<1>6. QED
  BY <1>1, <1>2, <1>3, <1>4, <1>5 DEF Next

-----------------------------------------------------------------------------
(* The epoch of a slot                                                     *)

LEMMA TimesIsMonotone ==
  ASSUME NEW x \in Int, NEW y \in Int, x <= y, NEW n \in Nat
  PROVE  x * n \in Int /\ y * n \in Int /\ x * n <= y * n
<1> DEFINE d == y - x
<1>1. d \in Nat /\ y = x + d
  OBVIOUS
<1> HIDE DEF d
<1>2. d * n \in Nat /\ x * n \in Int /\ (x + d) * n = x * n + d * n
  BY <1>1
<1>3. QED
  BY <1>1, <1>2

LEMMA DivisionIs ==
  ASSUME NEW a \in Nat, NEW n \in Nat \ {0}
  PROVE  /\ a \div n \in Nat /\ (a \div n) * n <= a /\ a < (a \div n + 1) * n
         /\ \A d \in Nat : d * n <= a /\ a < (d + 1) * n => d = a \div n
<1> DEFINE q == a \div n
           r == a % n
<1>1. q \in Nat /\ r \in 0..n - 1 /\ a = n * q + r
  OBVIOUS
<1> HIDE DEF q, r
<1>2. q * n \in Nat /\ n * q = q * n /\ (q + 1) * n = q * n + n
  BY <1>1
<1>3. q * n <= a /\ a < (q + 1) * n
  BY <1>1, <1>2
<1>4. ASSUME NEW d \in Nat, d * n <= a, a < (d + 1) * n
      PROVE  d = q
  <2>1. CASE d < q
    <3>1. d + 1 \in Int /\ q \in Int /\ d + 1 <= q /\ n \in Nat
      BY <1>1, <2>1
    <3>2. (d + 1) * n <= q * n /\ (d + 1) * n \in Int
      BY <3>1, TimesIsMonotone
    <3>3. QED
      BY <1>2, <1>3, <1>4, <3>2
  <2>2. CASE q < d
    <3>1. q + 1 \in Int /\ d \in Int /\ q + 1 <= d /\ n \in Nat
      BY <1>1, <2>2
    <3>2. (q + 1) * n <= d * n /\ d * n \in Int /\ (q + 1) * n \in Int
      BY <3>1, TimesIsMonotone
    <3>3. QED
      BY <1>3, <1>4, <3>2
  <2>3. QED
    BY <1>1, <2>1, <2>2
<1>5. QED
  BY <1>1, <1>3, <1>4 DEF q

(* absolute_slot_to_epoch is the epoch the slot is in.                     *)
LEMMA EpochIs ==
  ASSUME NEW s \in Nat
  PROVE  AbsoluteSlotToEpoch(s) = EpochsAt(s)
<1> DEFINE F == Era.first_slot
           E == Era.start_epoch
           L == Era.epoch_length_seconds
           a == s - F
           q == a \div L
<1>1. F \in Nat /\ E \in Nat /\ L \in Nat \ {0}
  BY CardanoAssumption
<1>2. \A e : EpochStart(e) = F + (e - E) * L
  BY DEF EpochStart
<1>3. \A e : e \in EpochsAt(s) <=> /\ e \in E..E + s
                                   /\ F + (e - E) * L <= s
                                   /\ s < F + ((e + 1) - E) * L
  BY <1>2 DEF EpochsAt
<1>4. AbsoluteSlotToEpoch(s) = IF s < F THEN {} ELSE {E + q}
  BY DEF AbsoluteSlotToEpoch
<1> HIDE DEF F, E, L, q
<1>5. CASE s < F
  <2>1. ASSUME NEW e \in EpochsAt(s)
        PROVE  FALSE
    <3>1. e \in E..E + s /\ F + (e - E) * L <= s
      BY <1>3, <2>1
    <3>2. 0 \in Int /\ e - E \in Int /\ 0 <= e - E /\ L \in Nat
      BY <1>1, <3>1
    <3>3. 0 * L <= (e - E) * L /\ (e - E) * L \in Int
      BY <3>2, TimesIsMonotone
    <3>4. 0 * L = 0
      BY <1>1
    <3>5. QED
      BY <1>1, <1>5, <3>1, <3>3, <3>4
  <2>2. QED
    BY <1>4, <1>5, <2>1
<1>6. CASE ~(s < F)
  <2>1. a \in Nat /\ s = F + a /\ a <= s
    BY <1>1, <1>6
  <2> HIDE DEF a
  <2>2. /\ q \in Nat /\ q * L <= a /\ a < (q + 1) * L
        /\ \A d \in Nat : d * L <= a /\ a < (d + 1) * L => d = q
    BY <1>1, <2>1, DivisionIs DEF q
  <2>3. q * L \in Int /\ (q + 1) * L \in Int
    BY <1>1, <2>2
  <2>4. E + q \in EpochsAt(s)
    <3>1. q <= s
      <4>1. 1 * q <= L * q /\ L * q \in Int
        BY <1>1, <2>2, TimesIsMonotone
      <4>2. 1 * q = q /\ L * q = q * L
        BY <1>1, <2>2
      <4>3. QED
        BY <2>1, <2>2, <4>1, <4>2
    <3>2. E + q \in E..E + s /\ (E + q) - E = q /\ ((E + q) + 1) - E = q + 1
      BY <1>1, <2>2, <3>1
    <3>3. F + q * L <= s /\ s < F + (q + 1) * L
      BY <1>1, <2>1, <2>2, <2>3
    <3>4. QED
      BY <1>3, <3>2, <3>3
  <2>5. ASSUME NEW e \in EpochsAt(s)
        PROVE  e = E + q
    <3> DEFINE d == e - E
    <3>1. e \in E..E + s /\ F + d * L <= s /\ s < F + ((e + 1) - E) * L
      BY <1>3, <2>5
    <3>2. d \in Nat /\ (e + 1) - E = d + 1 /\ e = E + d
      BY <1>1, <3>1
    <3> HIDE DEF d
    <3>3. d * L \in Int /\ (d + 1) * L \in Int
      BY <1>1, <3>2
    <3>4. d * L <= a /\ a < (d + 1) * L
      BY <1>1, <2>1, <3>1, <3>2, <3>3
    <3>5. d = q
      BY <2>2, <3>2, <3>4
    <3>6. QED
      BY <3>2, <3>5
  <2>6. QED
    BY <1>4, <1>6, <2>4, <2>5
<1>7. QED
  BY <1>5, <1>6

-----------------------------------------------------------------------------
(* The source is a stream of blocks                                        *)

LEMMA StreamOperators ==
  /\ \A t : Stream!Chain(t) = Chain(t)
  /\ \A p, t : Stream!RangeOf(p, t) = RangeOf(p, t)
  /\ \A s, t : Stream!BestKnown(s, t) = BestKnown(s, t)
  /\ \A k : Stream!OtherAnswer(k) = OtherAnswer(k)
<1>1. \A t : Stream!Below(t) = Below(t)
  BY Zenon DEF Stream!Below, Below
<1>2. \A t : Stream!Chain(t) = Chain(t)
  BY <1>1, Zenon DEF Stream!Chain, Chain
<1>3. \A p, t : Stream!RangeOf(p, t) = RangeOf(p, t)
  BY <1>1, Zenon DEF Stream!RangeOf, RangeOf
<1>4. \A s, t : Stream!Known(s, t) = Known(s, t)
  BY <1>2, Zenon DEF Stream!Known, Known
<1>5. \A s, t : Stream!BestKnown(s, t) = BestKnown(s, t)
  BY <1>4, Zenon DEF Stream!BestKnown, BestKnown
<1>6. QED
  BY <1>2, <1>3, <1>5, Zenon DEF Stream!OtherAnswer, OtherAnswer

(* A block comes with the epoch its slot is in.                            *)
LEMMA StreamAnswers ==
  ASSUME NEW b \in Blocks
  PROVE  Stream!BlockAnswer(b) = BlockAnswer(b)
<1> DEFINE E == [c \in Blocks |-> IF c \in DOMAIN ByronEpoch
                                  THEN {ByronEpoch[c]} ELSE EpochsAt(Slot[c])]
<1>1. Slot[b] \in Nat
  BY CardanoAssumption
<1>2. E[b] = EpochOf(b)
  BY <1>1, EpochIs DEF EpochOf
<1>3. Stream!BlockAnswer(b) =
        [kind |-> IF E[b] = {} THEN "error" ELSE "block", block |-> b, epoch |-> E[b]]
  BY Zenon DEF Stream!BlockAnswer
<1>. HIDE DEF E
<1>4. QED
  BY <1>2, <1>3 DEF BlockAnswer

LEMMA SeqEqual ==
  ASSUME NEW s \in Seq(Blocks), NEW t \in Seq(Blocks), Len(s) = Len(t),
         \A i \in 1..Len(s) : s[i] = t[i]
  PROVE  s = t
OBVIOUS

LEMMA JoinIs ==
  ASSUME NEW s \in Seq(Blocks), NEW t \in Seq(Blocks)
  PROVE  /\ s \o t \in Seq(Blocks) /\ Len(s \o t) = Len(s) + Len(t)
         /\ \A i \in 1..Len(s \o t) : (s \o t)[i] = IF i <= Len(s) THEN s[i] ELSE t[i - Len(s)]
OBVIOUS

(* Lists of blocks, one after the other.                                   *)
LEMMA Joined ==
  ASSUME NEW s \in Seq(Blocks), NEW t \in Seq(Blocks)
  PROVE  /\ s \o t \in Seq(Blocks)
         /\ SubSeq(s \o t, 1, Len(s)) = s /\ Len(s) \in 0..Len(s \o t)
         /\ s \o << >> = s /\ << >> \o s = s
         /\ s # << >> => /\ s \o t # << >> /\ Head(s \o t) = Head(s)
                         /\ Tail(s \o t) = Tail(s) \o t
         /\ t # << >> => Append(s, Head(t)) \o Tail(t) = s \o t
<1> DEFINE j == s \o t
<1>1. /\ j \in Seq(Blocks) /\ Len(j) = Len(s) + Len(t) /\ Len(s) \in Nat /\ Len(t) \in Nat
      /\ \A i \in 1..Len(j) : j[i] = IF i <= Len(s) THEN s[i] ELSE t[i - Len(s)]
  OBVIOUS
<1>2. s \o << >> = s /\ << >> \o s = s
  OBVIOUS
<1>. HIDE DEF j
<1>3. SubSeq(j, 1, Len(s)) = s /\ Len(s) \in 0..Len(j)
  <2> DEFINE h == SubSeq(j, 1, Len(s))
  <2>1. h \in Seq(Blocks) /\ Len(h) = Len(s) /\ \A i \in 1..Len(s) : h[i] = j[i]
    BY <1>1
  <2>. HIDE DEF h
  <2>2. \A i \in 1..Len(s) : h[i] = s[i]
    BY <1>1, <2>1
  <2>3. h = s
    BY <2>1, <2>2, SeqEqual
  <2>4. QED
    BY <1>1, <2>3 DEF h
<1>4. ASSUME s # << >>
      PROVE  j # << >> /\ Head(j) = Head(s) /\ Tail(j) = Tail(s) \o t
  <2> DEFINE l == Tail(j)
             r == Tail(s) \o t
  <2>1. /\ Len(s) # 0 /\ Tail(s) \in Seq(Blocks) /\ Len(Tail(s)) = Len(s) - 1
        /\ \A i \in 1..Len(s) - 1 : Tail(s)[i] = s[i + 1]
    BY <1>4
  <2>2. j # << >> /\ Head(j) = Head(s)
    BY <1>1, <2>1
  <2>3. /\ l \in Seq(Blocks) /\ Len(l) = Len(j) - 1
        /\ \A i \in 1..Len(j) - 1 : l[i] = j[i + 1]
    BY <1>1, <2>2
  <2>4. /\ r \in Seq(Blocks) /\ Len(r) = Len(Tail(s)) + Len(t)
        /\ \A i \in 1..Len(r) : r[i] = IF i <= Len(Tail(s)) THEN Tail(s)[i]
                                        ELSE t[i - Len(Tail(s))]
    BY <2>1
  <2>. HIDE DEF l, r
  <2>5. Len(l) = Len(r)
    BY <1>1, <2>1, <2>3, <2>4
  <2>6. ASSUME NEW i \in 1..Len(l)
        PROVE  l[i] = r[i]
    <3>1. /\ i \in 1..Len(j) - 1 /\ i + 1 \in 1..Len(j) /\ i \in 1..Len(r) /\ i \in Int
          /\ Len(Tail(s)) = Len(s) - 1
      BY <1>1, <2>1, <2>3, <2>5
    <3>2. l[i] = IF i + 1 <= Len(s) THEN s[i + 1] ELSE t[(i + 1) - Len(s)]
      BY <1>1, <2>3, <3>1
    <3>3. r[i] = IF i <= Len(s) - 1 THEN Tail(s)[i] ELSE t[i - (Len(s) - 1)]
      BY <2>4, <3>1
    <3>4. CASE i <= Len(s) - 1
      <4>1. i \in 1..Len(s) - 1 /\ i + 1 <= Len(s)
        BY <1>1, <3>1, <3>4
      <4>2. Tail(s)[i] = s[i + 1]
        BY <2>1, <4>1
      <4>3. QED
        BY <3>2, <3>3, <4>1, <4>2
    <3>5. CASE ~(i <= Len(s) - 1)
      <4>1. ~(i + 1 <= Len(s)) /\ (i + 1) - Len(s) = i - (Len(s) - 1)
        BY <1>1, <3>1, <3>5
      <4>2. QED
        BY <3>2, <3>3, <3>5, <4>1
    <3>6. QED
      BY <3>4, <3>5
  <2>7. l = r
    BY <2>3, <2>4, <2>5, <2>6, SeqEqual
  <2>8. QED
    BY <2>2, <2>7 DEF l, r
<1>5. ASSUME t # << >>
      PROVE  Append(s, Head(t)) \o Tail(t) = j
  <2> DEFINE a == Append(s, Head(t))
             u == Tail(t)
             r == a \o u
  <2>1. /\ Len(t) # 0 /\ u \in Seq(Blocks) /\ Len(u) = Len(t) - 1 /\ Head(t) = t[1]
        /\ Head(t) \in Blocks /\ \A i \in 1..Len(t) - 1 : u[i] = t[i + 1]
    BY <1>5
  <2>2. /\ a \in Seq(Blocks) /\ Len(a) = Len(s) + 1
        /\ \A i \in 1..Len(s) : a[i] = s[i]
        /\ a[Len(s) + 1] = t[1]
    <3>1. \A x \in Blocks : /\ Append(s, x) \in Seq(Blocks) /\ Len(Append(s, x)) = Len(s) + 1
                            /\ \A i \in 1..Len(s) : Append(s, x)[i] = s[i]
                            /\ Append(s, x)[Len(s) + 1] = x
      OBVIOUS
    <3> DEFINE x == Head(t)
    <3>2. x \in Blocks /\ x = t[1] /\ a = Append(s, x)
      BY <2>1
    <3>. HIDE DEF x, a
    <3>3. QED
      BY <3>1, <3>2
  <2>. HIDE DEF a, u
  <2>3. /\ r \in Seq(Blocks) /\ Len(r) = Len(a) + Len(u)
        /\ \A i \in 1..Len(r) : r[i] = IF i <= Len(a) THEN a[i] ELSE u[i - Len(a)]
    BY <2>1, <2>2, JoinIs
  <2>. HIDE DEF r
  <2>4. Len(r) = Len(j)
    BY <1>1, <2>1, <2>2, <2>3
  <2>5. ASSUME NEW i \in 1..Len(r)
        PROVE  r[i] = j[i]
    <3>1. i \in 1..Len(j) /\ i \in Int /\ 1 <= i /\ i <= Len(s) + Len(t)
      BY <1>1, <2>4
    <3>2. CASE i <= Len(s)
      <4>1. r[i] = a[i] /\ a[i] = s[i] /\ j[i] = s[i]
        BY <1>1, <2>2, <2>3, <3>1, <3>2
      <4>2. QED
        BY <4>1
    <3>3. CASE i = Len(s) + 1
      <4>1. r[i] = a[i] /\ a[i] = t[1]
        BY <1>1, <2>2, <2>3, <3>1, <3>3
      <4>2. j[i] = t[1]
        BY <1>1, <3>1, <3>3
      <4>3. QED
        BY <4>1, <4>2
    <3>4. CASE i > Len(s) + 1
      <4> DEFINE k == i - (Len(s) + 1)
      <4>1. k \in 1..Len(t) - 1 /\ i - Len(s) = k + 1
        BY <1>1, <3>1, <3>4
      <4>2. r[i] = u[k]
        BY <1>1, <2>2, <2>3, <3>1, <3>4
      <4>3. u[k] = t[k + 1]
        BY <2>1, <4>1
      <4>4. j[i] = t[i - Len(s)]
        BY <1>1, <3>1, <3>4
      <4>5. QED
        BY <4>1, <4>2, <4>3, <4>4
    <3>5. QED
      BY <1>1, <3>1, <3>2, <3>3, <3>4
  <2>6. r = j
    BY <1>1, <2>3, <2>4, <2>5, SeqEqual
  <2>7. QED
    BY <2>6 DEF r, a, u
<1>6. QED
  BY <1>1, <1>2, <1>3, <1>4, <1>5 DEF j

(* What the mapping stands for.                                            *)
LEMMA PromisedIs ==
  ASSUME IInv
  PROVE  /\ current = NoChannel => Promised = << >>
         /\ current # NoChannel
              => /\ current \in Channels /\ Content(buffer[current])
                 /\ Sent(buffer[current]) \in Seq(Blocks)
                 /\ Promised = Sent(buffer[current]) \o ToBeSent
         /\ ToBeSent \in Seq(Blocks) /\ Promised \in Seq(Blocks)
<1>1. ToBeSent \in Seq(Blocks)
  BY DEF ToBeSent, IInv, RestOk
<1>2. ASSUME current # NoChannel
      PROVE  /\ current \in Channels /\ Content(buffer[current])
             /\ Sent(buffer[current]) \in Seq(Blocks)
  <2>1. current \in Channels /\ Content(buffer[current])
    BY <1>2 DEF IInv, CallerOk, ChannelsOk
  <2>2. QED
    BY <2>1, SentIs
<1>3. QED
  BY <1>1, <1>2, Joined DEF Promised

LEMMA InitIsStreamInit == ASSUME Init PROVE Stream!Init
<1>1. node = Start /\ current = NoChannel /\ answer = OtherAnswer("nothing")
  BY DEF Init
<1>2. QED
  BY <1>1, StreamOperators DEF Stream!Init, Asked, Promised

StreamStutters == UNCHANGED <<node, Asked, Promised, answer>>

(* The caller.                                                             *)
LEMMA Unseen ==
  ASSUME UNCHANGED <<current, requests, buffer, handler, job, rest>>
  PROVE  UNCHANGED <<Asked, Promised>>
BY DEF Asked, Promised, ToBeSent, Sent, WithoutTip

LEMMA NodeMovesIsStreamStep == ASSUME NodeMoves PROVE Stream!NodeMoves
<1>1. node' \in Blocks /\ UNCHANGED <<current, requests, buffer, handler, job, rest, answer>>
  BY DEF NodeMoves, callerVars, handlerVars
<1>2. QED
  BY <1>1, Unseen DEF Stream!NodeMoves

LEMMA CallerMovesStutter ==
  ASSUME Pull \/ Cancel \/ FirstIsOver \/ Stopped
  PROVE  StreamStutters
<1>1. UNCHANGED <<node, answer, current, requests, buffer, handler, job, rest>>
  BY DEF Pull, Cancel, FirstIsOver, Stopped, handlerVars
<1>2. QED
  BY <1>1, Unseen DEF StreamStutters

LEMMA ReceiveIsStreamStep ==
  ASSUME IInv, Receive
  PROVE  Stream!Give \/ Stream!GiveTip
<1>1. /\ current \in Channels /\ buffer[current] # << >>
      /\ answer' = Head(buffer[current])
      /\ buffer' = [buffer EXCEPT ![current] = Tail(@)]
      /\ UNCHANGED <<node, current, requests, handler, job, rest>>
  BY DEF Receive, IInv, CallerOk, handlerVars
<1> DEFINE s == buffer[current]
           q == ToBeSent
<1>2. current # NoChannel /\ Content(s) /\ Sent(s) \in Seq(Blocks) /\ q \in Seq(Blocks)
      /\ Promised = Sent(s) \o q
  BY <1>1, ChannelFacts, PromisedIs
<1>3. buffer'[current] = Tail(s)
  BY <1>1 DEF IInv, ChannelsOk
<1>4. Asked' = Asked /\ ToBeSent' = q
  BY <1>1 DEF Asked, ToBeSent
<1>5. Promised' = Sent(Tail(s)) \o q
  <2>1. Promised' = Sent(buffer[current])' \o q
    BY <1>1, <1>2, <1>4 DEF Promised
  <2>2. buffer[current]' = Tail(s)
    BY <1>1, <1>3
  <2>3. Sent(buffer[current])' = Sent(Tail(s))
    BY <2>2, Zenon DEF Sent, WithoutTip
  <2>4. QED
    BY <2>1, <2>3
<1> HIDE DEF s, q
<1>6. CASE Head(s) = TipAnswer /\ Sent(Tail(s)) = Sent(s)
  BY <1>1, <1>2, <1>4, <1>5, <1>6, StreamOperators DEF Stream!GiveTip, TipAnswer, s
<1>7. CASE /\ Sent(s) # << >> /\ Head(Sent(s)) \in Blocks
           /\ Head(s) = BlockAnswer(Head(Sent(s))) /\ Sent(Tail(s)) = Tail(Sent(s))
  <2>1. /\ Promised # << >> /\ Head(Promised) = Head(Sent(s))
        /\ Promised' = Tail(Promised)
    BY <1>2, <1>5, <1>7, Joined
  <2>2. answer' = Stream!BlockAnswer(Head(Promised))
    BY <1>1, <1>7, <2>1, StreamAnswers DEF s
  <2>3. QED
    BY <1>1, <1>4, <2>1, <2>2 DEF Stream!Give
<1>8. s # << >>
  BY <1>1 DEF s
<1>9. QED
  BY <1>2, <1>6, <1>7, <1>8, SentTail

(* A caller that is about to ask, or gets nothing, has received all there is. *)
LEMMA NothingPromised ==
  ASSUME IInv, caller = "send" \/ (buffer[current] = << >> /\ ~Open(current))
  PROVE  Promised = << >>
<1>1. CASE current = NoChannel
  BY <1>1 DEF Promised
<1>2. CASE current # NoChannel
  <2>1. buffer[current] = << >> /\ ~Open(current)
    BY <1>2 DEF IInv, CallerOk
  <2>2. ToBeSent = << >> /\ Sent(buffer[current]) = << >>
    BY <2>1, SentOfNothing DEF Open, ToBeSent
  <2>3. QED
    BY <1>2, <2>2, PromisedIs, Joined
<1>3. QED
  BY <1>1, <1>2

LEMMA EmptyAnswersAreStreamSteps ==
  ASSUME IInv, WaitIsOver \/ SendFails
  PROVE  Stream!GiveNothing
<1>1. /\ caller = "send" \/ (buffer[current] = << >> /\ ~Open(current))
      /\ answer' = OtherAnswer("none") \/ answer' = OtherAnswer("error")
      /\ UNCHANGED <<node, current, requests, buffer, handler, job, rest>>
  BY DEF WaitIsOver, SendFails, handlerVars
<1>2. Promised = << >> /\ UNCHANGED <<Asked, Promised>>
  BY <1>1, NothingPromised, Unseen
<1>3. \E k \in {"none", "error"} : answer' = Stream!OtherAnswer(k)
  BY <1>1, StreamOperators
<1>4. QED
  BY <1>1, <1>2, <1>3 DEF Stream!GiveNothing

LEMMA SendIsStreamStep ==
  ASSUME IInv, Send
  PROVE  Stream!Ask
<1>1. PICK new, from : Asks(new, from)
  BY SendAsks
<1>2. /\ buffer' = Emptied(current) /\ caller = "send" /\ points \in PointSets
      /\ UNCHANGED <<node, answer, job, handler>>
  BY Zenon DEF Send, Emptied, handlerVars, IInv, CallerOk
<1>3. Promised = << >>
  BY <1>2, NothingPromised
<1>4. /\ current' = new /\ new \in Channels /\ new # NoChannel /\ new # current
      /\ job'.channel # new
  BY <1>1, <1>2, ChannelFacts DEF Asks
<1>5. Asked' = from
  <2> DEFINE r == [from |-> from, channel |-> new]
  <2>1. requests' = <<r>> /\ r.channel = new /\ r.from = from
    BY <1>1 DEF Asks
  <2> HIDE DEF r
  <2>2. requests' # << >> /\ Head(requests') = r
    BY <2>1
  <2>3. QED
    BY <1>4, <2>1, <2>2 DEF Asked
<1>6. Promised' = << >>
  <2>1. IInv'
    BY SendKeeps
  <2>2. \A c \in Channels : c # current => buffer[c] = << >>
    BY DEF IInv, ChannelsOk
  <2>3. buffer'[current'] = << >>
    BY <1>2, <1>4, <2>2 DEF Emptied
  <2>4. Sent(buffer[current])' = << >> /\ ToBeSent' = << >>
    BY <1>4, <2>3, SentOfNothing DEF Sent, WithoutTip, ToBeSent
  <2>5. QED
    BY <1>4, <2>4, Joined DEF Promised
<1>7. from \in {IF p = {} THEN {DefaultFrom} ELSE p : p \in PointSets}
  BY <1>1, <1>2 DEF Asks
<1>8. QED
  BY <1>2, <1>3, <1>5, <1>6, <1>7 DEF Stream!Ask

LEMMA DropsAreStreamSteps ==
  ASSUME IInv, ClearBuffers \/ Stop
  PROVE  Stream!Lose
<1>1. current' = NoChannel /\ UNCHANGED <<node, answer>>
  BY DEF ClearBuffers, Stop, DropCurrent
<1>2. Asked' = {} /\ Promised' = << >>
  BY <1>1 DEF Asked, Promised
<1>3. Promised \in Seq(Blocks)
  BY PromisedIs
<1>4. 0 \in 0..Len(Promised) /\ SubSeq(Promised, 1, 0) = << >>
  BY <1>3
<1>5. QED
  BY <1>1, <1>2, <1>4 DEF Stream!Lose

(* The handler.                                                            *)
LEMMA HandlerMovesStutter ==
  ASSUME IInv, LastRequestWasHandled \/ Connect \/ Intersect \/ Fetch
  PROVE  StreamStutters
<1>1. /\ UNCHANGED <<node, answer, current, requests, buffer, job, rest>>
      /\ handler # "skip" /\ handler' # "skip"
      /\ \/ handler \in {"recv", "fetch"} /\ handler' \notin Early \cup {"range"}
         \/ handler \in Early /\ handler' \in Early
  BY DEF LastRequestWasHandled, Connect, Intersect, Fetch, callerVars, Early
<1>2. Asked' = Asked
  BY <1>1 DEF Asked, Early
<1>3. Promised' = Promised
  BY <1>1 DEF Promised, ToBeSent, Sent, WithoutTip
<1>4. QED
  BY <1>1, <1>2, <1>3 DEF StreamStutters

LEMMA TakeRequestStutters ==
  ASSUME IInv, TakeRequest
  PROVE  StreamStutters
<1>1. /\ requests # << >> /\ job' = Head(requests) /\ requests' = << >>
      /\ handler' \in {"intersect", "connect"} /\ handler = "recv"
      /\ UNCHANGED <<node, answer, current, buffer, rest>>
  BY DEF TakeRequest, callerVars
<1>2. PICK r : requests = <<r>> /\ r.channel \in Channels
  BY <1>1 DEF IInv, RequestsOk, RequestOk
<1>3. Head(requests) = r /\ job' = r
  BY <1>1, <1>2
<1>4. job = NoJob /\ rest = << >>
  BY <1>1 DEF IInv, HandlerOk, RestOk, Busy
<1>5. Asked' = Asked
  BY <1>1, <1>3, <1>4, ChannelFacts DEF Asked
<1>6. Promised' = Promised
  BY <1>1, <1>4 DEF Promised, ToBeSent, Sent, WithoutTip
<1>7. QED
  BY <1>1, <1>5, <1>6 DEF StreamStutters

LEMMA SendTipStutters ==
  ASSUME IInv, SendTip
  PROVE  StreamStutters
<1>1. /\ handler = "tip" /\ handler' = "range"
      /\ UNCHANGED <<node, answer, current, requests, job, rest>>
  BY DEF SendTip, callerVars
<1>2. Asked' = Asked
  BY <1>1 DEF Asked
<1>3. CASE buffer' = buffer
  <2>1. Promised' = Promised
    BY <1>1, <1>3 DEF Promised, ToBeSent, Sent, WithoutTip
  <2>2. QED
    BY <1>1, <1>2, <2>1 DEF StreamStutters
<1>4. CASE Listened /\ buffer' = [buffer EXCEPT ![current] = Append(@, TipAnswer)]
  <2>1. buffer[current] = << >> /\ current \in DOMAIN buffer
    BY <1>1, <1>4 DEF Listened, IInv, ChannelsOk, HandlerOk, RequestOk, Busy, Early
  <2>2. Append(<< >>, TipAnswer) = <<TipAnswer>>
    OBVIOUS
  <2>3. buffer[current]' = <<TipAnswer>>
    BY <1>1, <1>4, <2>1, <2>2
  <2>4. Sent(buffer[current])' = Sent(<<TipAnswer>>)
    BY <2>3, Zenon DEF Sent, WithoutTip
  <2>5. Sent(buffer[current])' = Sent(buffer[current])
    BY <2>1, <2>4, SentOfNothing
  <2>6. ToBeSent' = ToBeSent
    BY <1>1 DEF ToBeSent
  <2>7. Promised' = Promised
    BY <1>1, <2>5, <2>6 DEF Promised
  <2>8. QED
    BY <1>1, <1>2, <2>7 DEF StreamStutters
<1>5. QED
  BY <1>3, <1>4 DEF SendTip, TipAnswer

LEMMA SkipFirstStutters ==
  ASSUME SkipFirst
  PROVE  StreamStutters
<1>1. /\ handler = "skip" /\ handler' = "fetch" /\ rest' = Tail(rest)
      /\ UNCHANGED <<node, answer, current, requests, buffer, job>>
  BY DEF SkipFirst, callerVars
<1>2. Asked' = Asked
  BY <1>1 DEF Asked
<1>3. Promised' = Promised
  BY <1>1 DEF Promised, ToBeSent, Sent, WithoutTip
<1>4. QED
  BY <1>1, <1>2, <1>3 DEF StreamStutters

LEMMA SendBlockStutters ==
  ASSUME IInv, SendBlock
  PROVE  StreamStutters
<1> DEFINE s == buffer[current]
           b == Head(rest)
<1>1. /\ handler = "send" /\ handler' = "fetch" /\ job.channel = current
      /\ buffer' = [buffer EXCEPT ![current] = Append(@, BlockAnswer(b))]
      /\ rest' = Tail(rest) /\ UNCHANGED <<node, answer, current, requests, job>>
  BY DEF SendBlock, Listened, callerVars
<1>2. rest \in Seq(Blocks) /\ rest # << >> /\ b \in Blocks /\ current \in Channels
  BY <1>1 DEF IInv, RestOk, HandlerOk, RequestOk, Busy
<1>3. current # NoChannel /\ Content(s) /\ Sent(s) \in Seq(Blocks)
      /\ Promised = Sent(s) \o ToBeSent
  BY <1>2, ChannelFacts, PromisedIs
<1>4. ToBeSent = rest /\ ToBeSent' = Tail(rest)
  BY <1>1 DEF ToBeSent
<1>5. buffer[current]' = Append(s, BlockAnswer(b))
  BY <1>1, <1>2 DEF IInv, ChannelsOk
<1>6. Sent(buffer[current])' = Sent(Append(s, BlockAnswer(b)))
  BY <1>5, Zenon DEF Sent, WithoutTip
<1>7. Promised' = Sent(buffer[current])' \o Tail(rest)
  BY <1>1, <1>3, <1>4 DEF Promised
<1> HIDE DEF s
<1>8. Promised' = Append(Sent(s), b) \o Tail(rest)
  BY <1>2, <1>3, <1>6, <1>7, SentAppend
<1>9. Promised' = Promised
  BY <1>2, <1>3, <1>4, <1>8, Joined
<1>10. Asked' = Asked
  BY <1>1 DEF Asked
<1>11. QED
  BY <1>1, <1>9, <1>10 DEF StreamStutters

(* the request is over, or the handler: what is in the channel remains     *)
LEMMA OverIsStreamStep ==
  ASSUME IInv, (\E keep : Over(keep)) \/ FetchPanics
  PROVE  Stream!Lose
<1>1. /\ handler' \in {"recv", "dead"} /\ job' = NoJob
      /\ requests' \in {requests, << >>}
      /\ UNCHANGED <<node, answer, current, buffer>>
  BY DEF Over, Released, FetchPanics, callerVars
<1>2. CASE current = NoChannel
  <2>1. Promised = << >> /\ Promised' = << >> /\ Asked' = {}
    BY <1>1, <1>2 DEF Promised, Asked
  <2>2. 0 \in 0..Len(<< >>) /\ SubSeq(<< >>, 1, 0) = << >>
    OBVIOUS
  <2>3. QED
    BY <1>1, <2>1, <2>2 DEF Stream!Lose
<1>3. CASE current # NoChannel
  <2> DEFINE s == Sent(buffer[current])
  <2>1. s \in Seq(Blocks) /\ ToBeSent \in Seq(Blocks) /\ Promised = s \o ToBeSent
    BY <1>3, PromisedIs
  <2>2. ToBeSent' = << >>
    BY <1>1, <1>3, ChannelFacts DEF ToBeSent
  <2>3. Sent(buffer[current])' = s
    BY <1>1 DEF Sent, WithoutTip
  <2>4. Promised' = s \o << >>
    BY <1>1, <1>3, <2>2, <2>3 DEF Promised
  <2> HIDE DEF s
  <2>5. Len(s) \in 0..Len(Promised) /\ Promised' = SubSeq(Promised, 1, Len(s))
    BY <2>1, <2>4, Joined
  <2>6. Asked' \in {Asked, {}}
    <3>1. CASE requests' = << >>
      BY <1>1, <1>3, <3>1, ChannelFacts DEF Asked
    <3>2. CASE requests' = requests /\ requests # << >>
      <4>1. PICK r : requests = <<r>> /\ r.channel # job.channel
        BY <3>2 DEF IInv, RequestsOk
      <4>2. Head(requests) = r
        BY <4>1
      <4>3. QED
        BY <1>1, <1>3, <3>2, <4>1, <4>2, ChannelFacts DEF Asked
    <3>3. QED
      BY <1>1, <3>1, <3>2
  <2>7. QED
    BY <1>1, <2>5, <2>6 DEF Stream!Lose
<1>4. QED
  BY <1>2, <1>3

(* The range is known: the blocks above the highest of the points.         *)
LEMMA RequestRangeIsStreamStep ==
  ASSUME IInv, RequestRange
  PROVE  Stream!Promise \/ StreamStutters
<1> DEFINE l == <<range.from>> \o RangeOf(range.from, range.tip)
<1>1. /\ handler = "range" /\ rest' = l /\ range.tip \in Chain(node)
      /\ handler' = IF IgnoresFirst(job.from) THEN "skip" ELSE "fetch"
      /\ UNCHANGED <<node, answer, current, requests, buffer, job>>
  BY DEF RequestRange, InRange, callerVars
<1>2. /\ RequestOk(job) /\ range.tip \in Places
      /\ range.from \in BestKnown(Points(job.from), range.tip)
      /\ buffer[job.channel] \in {<< >>, <<TipAnswer>>}
  BY <1>1 DEF IInv, HandlerOk, Busy
<1>3. PICK q \in BestKnown(job.from, range.tip) :
        FirstSkipped(job.from, l) = RangeOf(q, range.tip)
  BY <1>2, RangeAnswers DEF RequestOk
<1>4. l \in Seq(Blocks) /\ l # << >>
  BY <1>2, RangeAnswers DEF RequestOk
<1> HIDE DEF l
<1>5. CASE current = NoChannel \/ job.channel # current
  <2>1. Asked' = Asked
    BY <1>1, <1>5 DEF Asked
  <2>2. Promised' = Promised
    BY <1>1, <1>5 DEF Promised, ToBeSent, Sent, WithoutTip
  <2>3. QED
    BY <1>1, <2>1, <2>2 DEF StreamStutters
<1>6. CASE current # NoChannel /\ job.channel = current
  <2>1. Asked = job.from
    BY <1>1, <1>6 DEF Asked
  <2>2. Asked' = {}
    <3>1. CASE requests = << >>
      BY <1>1, <3>1 DEF Asked
    <3>2. CASE requests # << >>
      <4>1. PICK r : requests = <<r>> /\ r.channel # job.channel
        BY <3>2 DEF IInv, RequestsOk
      <4>2. Head(requests) = r
        BY <4>1
      <4>3. QED
        BY <1>1, <1>6, <4>1, <4>2 DEF Asked
    <3>3. QED
      BY <3>1, <3>2
  <2>3. ToBeSent' = FirstSkipped(job.from, l)
    BY <1>1, <1>6 DEF ToBeSent, FirstSkipped
  <2>4. Sent(buffer[current])' = << >>
    <3>1. Sent(buffer[current])' = Sent(buffer[current])
      BY <1>1 DEF Sent, WithoutTip
    <3>2. QED
      BY <1>2, <1>6, <3>1, SentOfNothing
  <2>5. Promised' = << >> \o RangeOf(q, range.tip)
    BY <1>1, <1>3, <1>6, <2>3, <2>4 DEF Promised
  <2>6. RangeOf(q, range.tip) \in Seq(Blocks)
    BY <1>2, <1>3, RangeFacts DEF BestKnown, Known
  <2>7. Promised' = RangeOf(q, range.tip)
    BY <2>5, <2>6, Joined
  <2>8. QED
    BY <1>1, <1>3, <2>1, <2>2, <2>7, StreamOperators DEF Stream!Promise
<1>7. QED
  BY <1>5, <1>6

LEMMA StepIsStreamStep ==
  ASSUME IInv, [Next]_vars
  PROVE  [Stream!Next]_(Stream!vars)
<1> SUFFICES Stream!Next \/ StreamStutters
  BY DEF StreamStutters, Stream!vars
<1>1. CASE NodeMoves
  BY <1>1, NodeMovesIsStreamStep DEF Stream!Next
<1>2. CASE Pull \/ Cancel \/ ClearBuffers \/ Stop
  BY <1>2, CallerMovesStutter, DropsAreStreamSteps DEF Stream!Next
<1>3. CASE CallerStep
  BY <1>3, ReceiveIsStreamStep, CallerMovesStutter, EmptyAnswersAreStreamSteps,
     SendIsStreamStep DEF CallerStep, Stream!Next
<1>4. CASE HandlerStep
  <2>1. CASE ConnectFails \/ NothingToPull \/ NoBlocksInRange \/ NotListened
             \/ RangeIsOver \/ ConnectionFails \/ FetchPanics
    <3>1. (\E keep : Over(keep)) \/ FetchPanics
      BY <2>1 DEF ConnectFails, NothingToPull, NoBlocksInRange, NotListened,
         RangeIsOver, ConnectionFails
    <3>2. QED
      BY <3>1, OverIsStreamStep DEF Stream!Next
  <2>2. CASE TakeRequest \/ LastRequestWasHandled \/ Connect \/ Intersect \/ Fetch
    BY <2>2, TakeRequestStutters, HandlerMovesStutter
  <2>3. CASE SendTip \/ SkipFirst \/ SendBlock
    BY <2>3, SendTipStutters, SkipFirstStutters, SendBlockStutters
  <2>4. CASE RequestRange
    BY <2>4, RequestRangeIsStreamStep DEF Stream!Next
  <2>5. QED
    BY <1>4, <2>1, <2>2, <2>3, <2>4 DEF HandlerStep
<1>5. CASE UNCHANGED vars
  <2>1. UNCHANGED <<node, answer, current, requests, buffer, handler, job, rest>>
    BY <1>5 DEF vars, callerVars, handlerVars
  <2>2. QED
    BY <2>1, Unseen DEF StreamStutters
<1>6. QED
  BY <1>1, <1>2, <1>3, <1>4, <1>5 DEF Next

-----------------------------------------------------------------------------
(* Whatever is in a channel is for the caller who receives from it: no     *)
(* answer to a request that was dropped or cleared is left in any other,   *)
(* at most one tip comes, before the blocks, and the handler knows the     *)
(* point and the tip of the range that it is about to ask the node for.    *)
THEOREM CardanoInvariance == Spec => []IInv
<1>1. Init => IInv
  BY InitIInv
<1>2. IInv /\ [Next]_vars => IInv'
  BY StepKeeps
<1>3. QED
  BY <1>1, <1>2, PTL DEF Spec

(* What pull returns is one unbroken range of the node's chain after the   *)
(* other, each from the highest point that was asked for, and every block  *)
(* with the epoch of its slot: for every chain, every set of points, every *)
(* capacity of the channel and however often the node moves.               *)
THEOREM SourceIsABlockStream == Spec => IsABlockStream
<1>1. Init => Stream!Init
  BY InitIsStreamInit
<1>2. IInv /\ [Next]_vars => [Stream!Next]_(Stream!vars)
  BY StepIsStreamStep
<1>3. QED
  BY <1>1, <1>2, CardanoInvariance, PTL DEF Spec, IsABlockStream, Stream!Spec
=============================================================================
