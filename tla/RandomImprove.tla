--------------------------- MODULE RandomImprove ---------------------------
(***************************************************************************)
(* RandomImprove: one phase per token of the outputs and one for the main  *)
(* token.  A phase covers each output, the largest first, with random      *)
(* inputs, then tries to replace each of them by one that is closer to     *)
(* twice the value of its output, and counts what it ended with.  At last  *)
(* random inputs are added while the inputs are worth less than the        *)
(* outputs.                                                                *)
(*                                                                         *)
(* The object is a list of inputs and the set of the indices that are      *)
(* available; a failed call has already taken indices out of that set.     *)
(***************************************************************************)
EXTENDS Selection

\* the tokens whose fingerprint is the text "policy:name"; the fingerprints of
\* cardano-utils are hashes, for which the phases of the assets find nothing
CONSTANT Named

NewRandom(inputs) == [inputs |-> inputs, indices |-> 1..Len(inputs)]

\* set_available_inputs: the indices of the new inputs are computed and dropped
SetAvailableInputs(r, inputs) == [r EXCEPT !.inputs = inputs]

\* available_inputs
AvailableOf(r) == {r.inputs[i] : i \in r.indices}

IsThere(i) == i \in 1..Len(random.inputs)

RiBegin(setup, r, e) ==
  [algo     |-> "random",
   stage    |-> "phase",
   setup    |-> setup,
   given    |-> {r.inputs[i] : i \in r.indices \cap 1..Len(r.inputs)},
   chosen   |-> {},
   inMain   |-> setup.inMain,
   inAssets |-> setup.inAssets,
   fee      |-> MinRequiredFee(e),
   again    |-> <<>>,
   todo     |-> DOMAIN setup.outAssets \cup {Main}]

Outputs     == call.setup.fixedOut
Counts(u, t) == t = Main \/ (t \in Named /\ t \in DOMAIN u.assets)
Need(p)     == Quantity(Outputs[p], call.token)
Associated(p) ==
  IF Outputs[p] \in DOMAIN call.associated THEN call.associated[Outputs[p]] ELSE <<>>

\* the assets come before the main token, sorted by names that are left out
RiPhase ==
  /\ call.algo = "random" /\ call.stage = "phase" /\ call.todo # {}
  /\ \E t \in IF call.todo = {Main} THEN {Main} ELSE call.todo \ {Main} :
       IF \E i \in random.indices : ~IsThere(i)
       THEN Panic
       ELSE /\ call' = Merged([relevant   |-> {i \in random.indices :
                                                 Counts(random.inputs[i], t)},
                               queue      |-> {p \in DOMAIN Outputs : Counts(Outputs[p], t)},
                               outputs    |-> {p \in DOMAIN Outputs : Counts(Outputs[p], t)},
                               token      |-> t,
                               at         |-> 0,
                               added      |-> 0,
                               associated |-> <<>>],
                              [call EXCEPT !.todo = @ \ {t}, !.stage = "cover"])
            /\ UNCHANGED result
  /\ UNCHANGED <<available, random, estimator>>

Covered == call.at # 0 => call.added >= Need(call.at)

\* the next output in descending order; equal ones in any order
RiNextOutput ==
  /\ call.algo = "random" /\ call.stage = "cover" /\ Covered
  /\ \E p \in call.queue :
       /\ \A q \in call.queue : Need(q) <= Need(p)
       /\ call' = [call EXCEPT !.at = p, !.added = 0, !.queue = @ \ {p}]
  /\ UNCHANGED <<available, random, estimator, result>>

RiTake ==
  /\ call.algo = "random" /\ call.stage = "cover" /\ ~Covered
  /\ \E i \in call.relevant :
       /\ call' = [call EXCEPT !.relevant   = @ \ {i},
                               !.added      = @ + Quantity(random.inputs[i], call.token),
                               !.associated = Put(@, Outputs[call.at],
                                                  Append(Associated(call.at), i))]
       /\ random' = [random EXCEPT !.indices = @ \ {i}]
  /\ UNCHANGED <<available, estimator, result>>

RiInsufficient ==
  /\ call.algo = "random" /\ call.stage = "cover" /\ ~Covered /\ call.relevant = {}
  /\ Fail
  /\ UNCHANGED <<available, random, estimator>>

RiAllCovered ==
  /\ call.algo = "random" /\ call.stage = "cover" /\ Covered /\ call.queue = {}
  /\ call' = [call EXCEPT !.stage = IF call.relevant = {} THEN "collect" ELSE "improve",
                          !.queue = call.outputs, !.at = 0, !.added = 0]
  /\ UNCHANGED <<available, random, estimator, result>>

\* replacing the input i by j comes closer to twice the value of the output, and
\* stays under three times that value; all of this in the main token
Abs(n) == IF n < 0 THEN -n ELSE n

Improves(p, i, j) ==
  LET least == Outputs[p].value
      old   == random.inputs[i].value
      new   == random.inputs[j].value IN
  Abs(2 * least - new) < Abs(2 * least - old) /\ new < 3 * least

\* mutant: the input that was replaced stays unavailable
SwappedOut(i, j) == random.indices \ {j}

Swapped(i, j) == (random.indices \cup {i}) \ {j}

\* "at" is the output being improved and "added" how many of its inputs were
RiImprove ==
  /\ call.algo = "random" /\ call.stage = "improve" /\ call.at # 0
  /\ call.added < Len(Associated(call.at))
  /\ \E j \in call.relevant :
       LET k == call.added + 1
           i == Associated(call.at)[k] IN
       IF Improves(call.at, i, j)
       THEN /\ call' = [call EXCEPT !.added = k, !.relevant = (@ \ {j}) \cup {i},
                                    !.associated[Outputs[call.at]][k] = j]
            /\ random' = [random EXCEPT !.indices = Swapped(i, j)]
       ELSE /\ call' = [call EXCEPT !.added = k]
            /\ UNCHANGED random
  /\ UNCHANGED <<available, estimator, result>>

Improved == call.at # 0 => call.added = Len(Associated(call.at))

\* the next output in ascending order; one that needed nothing is an error
RiNextToImprove ==
  /\ call.algo = "random" /\ call.stage = "improve" /\ Improved
  /\ \E p \in call.queue :
       /\ \A q \in call.queue : Need(p) <= Need(q)
       /\ IF Associated(p) = <<>>
          THEN Fail
          ELSE /\ call' = [call EXCEPT !.at = p, !.added = 0, !.queue = @ \ {p}]
               /\ UNCHANGED result
  /\ UNCHANGED <<available, random, estimator>>

RiAllImproved ==
  /\ call.algo = "random" /\ call.stage = "improve" /\ Improved /\ call.queue = {}
  /\ call' = [call EXCEPT !.stage = "collect"]
  /\ UNCHANGED <<available, random, estimator, result>>

\* the inputs of all the outputs in P, and the inputs at the indices in I, in an
\* order that nothing depends on
GatheredFor(P) == FoldSet(LAMBDA p, s : s \o Associated(p), <<>>, P)
InputsAt(I)    == FoldSet(LAMBDA i, s : Append(s, random.inputs[i]), <<>>, I)
InputsFor(P)   == LET got == GatheredFor(P) IN [k \in DOMAIN got |-> random.inputs[got[k]]]

\* the outputs of the phase that equal another one, and share its list
Repeated == {p \in call.outputs : \E q \in call.outputs : q < p /\ Outputs[q] = Outputs[p]}

\* the inputs of every output of the phase are counted
RiCollect ==
  /\ call.algo = "random" /\ call.stage = "collect"
  /\ LET ins == InputsFor(call.outputs) IN
     IF \E p \in call.outputs : Associated(p) = <<>>
     THEN Fail /\ UNCHANGED estimator
     ELSE /\ call' = [call EXCEPT !.stage    = "phase",
                                  !.chosen   = @ \cup Range(GatheredFor(call.outputs)),
                                  !.again    = @ \o InputsFor(Repeated),
                                  !.inMain   = @ + MainOf(ins),
                                  !.inAssets = Together(@, AssetsOf(ins)),
                                  !.fee      = @ + FeeForInputs(estimator, Len(ins))]
          /\ estimator' = AddInputs(estimator, Len(ins))
          /\ UNCHANGED result
  /\ UNCHANGED <<available, random>>

\* the inputs for the fees, as the code says: but it does not count the fee
RiShort == /\ call.algo = "random" /\ call.stage = "phase" /\ call.todo = {}
           /\ call.inMain < call.setup.outMain

RiExtra ==
  /\ RiShort
  /\ IF random.indices = {}
     THEN Fail /\ UNCHANGED <<random, estimator>>
     ELSE /\ \E i \in random.indices :
               /\ random' = [random EXCEPT !.indices = @ \ {i}]
               /\ call' = [call EXCEPT !.chosen   = @ \cup {i},
                                       !.inMain   = @ + random.inputs[i].value,
                                       !.inAssets = Together(@, random.inputs[i].assets),
                                       !.fee      = @ + FeeForInput(estimator)]
          /\ estimator' = AddInputs(estimator, 1)
          /\ UNCHANGED result
  /\ UNCHANGED available

RiReturn ==
  /\ call.algo = "random" /\ call.stage = "phase" /\ call.todo = {} /\ ~RiShort
  /\ Return("random", [fixedIn |-> call.setup.fixedIn, fixedOut |-> call.setup.fixedOut,
             chosen |-> InputsAt(call.chosen),
             changes |-> <<>>, fee |-> call.fee,
             inMain |-> call.inMain, inAssets |-> call.inAssets,
             outMain |-> call.setup.outMain, outAssets |-> call.setup.outAssets,
             again |-> call.again, lost |-> <<>>])
  /\ UNCHANGED <<available, random, estimator>>

RiStep ==
  \/ RiPhase \/ RiNextOutput \/ RiTake \/ RiInsufficient \/ RiAllCovered
  \/ RiImprove \/ RiNextToImprove \/ RiAllImproved \/ RiCollect
  \/ RiExtra \/ RiReturn
=============================================================================
