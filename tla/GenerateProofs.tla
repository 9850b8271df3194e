--------------------------- MODULE GenerateProofs ---------------------------
(***************************************************************************)
(* Proofs about Generate, for any hosts, models, prices, policies and      *)
(* limits.  The inductive invariant reads the trail a generation has left  *)
(* in the table of answers: hard failures of the first model up to its     *)
(* first soft one, answers of the model that took over from then on.       *)
(***************************************************************************)
EXTENDS Generate, TLAPS

Result == {"record", "unusable", "exceeded", "error", "failed"}

\* Types of the variables of Generate; the attempts of a policy bound the loop.
TypeOK ==
  /\ retry \in 0..MaxRetry
  /\ fallback \in Model \cup {None}
  /\ limit \in Limit \cup {NoLimit}
  /\ answers \in [1..(MaxRetry + 1) -> [Model -> Answer \cup {None}]]
  /\ attempt \in [Host -> 1..(retry + 2)]
  /\ model \in [Host -> Model]
  /\ outcome \in [Host -> Result \cup {None}]
  /\ spent \in [Host -> Nat] /\ billed \in [Host -> Nat] /\ unpriced \in [Host -> Nat]
  /\ soft \in [Host -> SUBSET Model]

\* The provider was asked for attempt k on model m, and said a.
Said(k, m, a) == answers[k][m] = a /\ a \in Answer

\* The first j - 1 attempts on the first model failed hard.
HardUpto(j) == \A i \in 1..(j - 1) : Said(i, Primary, "transient")

\* Attempt j is the one in which the first model failed softly; the model in use now
\* was asked ever after.
SwitchedAt(h, j) ==
  /\ HardUpto(j)
  /\ Said(j, Primary, "malformed") \/ Said(j, Primary, "refused")
  /\ \A i \in (j + 1)..(attempt[h] - 1) : answers[i][model[h]] # None

Trail(h) ==
  IF Primary \in soft[h]
  THEN \E j \in 1..(attempt[h] - 1) : SwitchedAt(h, j)
  ELSE HardUpto(attempt[h])

Trails == \A h \in Host : Trail(h)

\* A generation fails when its attempts are used up.
FailedAtEnd == \A h \in Host : outcome[h] = "failed" => attempt[h] > retry + 1

IInv ==
  /\ TypeOK
  /\ ModelFollowsSoftFailure
  /\ BilledIsCharged
  /\ Trails
  /\ FailedAtEnd
-----------------------------------------------------------------------------
\* Answers of the table that are there stay as they are.
AnswersStay ==
  \A k \in 1..(MaxRetry + 1), m \in Model : answers[k][m] # None => answers'[k][m] = answers[k][m]

\* An attempt is within the table; its answer is there afterwards.
LEMMA AsksFacts ==
  ASSUME TypeOK, NEW h \in Host, NEW a \in Answer, Asks(h, a)
  PROVE  /\ attempt[h] \in 1..(retry + 1) /\ attempt[h] \in 1..(MaxRetry + 1)
         /\ outcome[h] = None
         /\ answers' \in [1..(MaxRetry + 1) -> [Model -> Answer \cup {None}]]
         /\ answers'[attempt[h]][model[h]] = a
         /\ AnswersStay
<1>1. /\ attempt[h] \in 1..(retry + 1) /\ attempt[h] \in 1..(MaxRetry + 1)
      /\ model[h] \in Model /\ outcome[h] = None
  BY GenerateAssumption DEF TypeOK, Asks
<1>2. answers' = [answers EXCEPT ![attempt[h]][model[h]] = a]
  BY DEF Asks
<1>3. answers[attempt[h]][model[h]] \in {None, a}
  BY DEF Asks
<1>4. AnswersStay
  BY <1>1, <1>2, <1>3 DEF TypeOK, AnswersStay
<1> QED BY <1>1, <1>2, <1>4 DEF TypeOK

\* What the provider said stays said.
LEMMA SaidStays ==
  ASSUME AnswersStay, NEW k \in 1..(MaxRetry + 1), NEW m \in Model, NEW a, Said(k, m, a)
  PROVE  Said(k, m, a)'
BY GenerateAssumption DEF AnswersStay, Said

\* The initial state satisfies the inductive invariant.
LEMMA InitIInv == Init => IInv
<1> SUFFICES ASSUME Init PROVE IInv
  OBVIOUS
<1>1. TypeOK
  BY GenerateAssumption DEF Init, TypeOK
<1>2. ModelFollowsSoftFailure /\ BilledIsCharged
  BY DEF Init, ModelFollowsSoftFailure, BilledIsCharged
<1>3. Trails
  <2>1. \A h \in Host : attempt[h] = 1 /\ soft[h] = {}
    BY DEF Init
  <2>2. HardUpto(1)
    BY DEF HardUpto
  <2> QED BY <2>1, <2>2 DEF Trails, Trail
<1>4. FailedAtEnd
  BY GenerateAssumption DEF Init, FailedAtEnd
<1> QED BY <1>1, <1>2, <1>3, <1>4 DEF IInv

\* Prices are amounts.
LEMMA PricesAreAmounts ==
  ASSUME TypeOK, NEW h \in Host, NEW a
  PROVE  PriceOf(h, a) \in Nat /\ Cost[model[h]] \in Nat
BY GenerateAssumption DEF TypeOK, PriceOf

\* The model after a soft failure is one that has a name.
LEMMA SoftFailureTypes ==
  ASSUME TypeOK, NEW h \in Host, attempt[h] \in 1..(retry + 1), SoftFailure(h)
  PROVE  /\ model' \in [Host -> Model]
         /\ soft' \in [Host -> SUBSET Model]
         /\ attempt' \in [Host -> 1..(retry + 2)]
<1>1. attempt[h] + 1 \in 1..(retry + 2)
  BY GenerateAssumption DEF TypeOK
<1> QED BY <1>1 DEF TypeOK, SoftFailure

\* A step keeps the types.
LEMMA StepTypeOK ==
  ASSUME TypeOK, NEW h \in Host, Step(h)
  PROVE  TypeOK'
<1> USE DEF given
<1>1. ASSUME NEW a \in Answer, Return(h, a) PROVE TypeOK'
  <2>1. answers' \in [1..(MaxRetry + 1) -> [Model -> Answer \cup {None}]] /\ PriceOf(h, a) \in Nat
    BY <1>1, AsksFacts, PricesAreAmounts DEF Return
  <2> QED BY <1>1, <2>1 DEF Return, Charge, End, TypeOK, Result
<1>2. ASSUME NEW a \in Answer, Overdraw(h, a) PROVE TypeOK'
  <2>1. answers' \in [1..(MaxRetry + 1) -> [Model -> Answer \cup {None}]] /\ PriceOf(h, a) \in Nat
    BY <1>2, AsksFacts, PricesAreAmounts DEF Overdraw
  <2> QED BY <1>2, <2>1 DEF Overdraw, End, TypeOK, Result
<1>3. ASSUME "malformed" \in Answer, Malformed(h) PROVE TypeOK'
  <2>1. /\ answers' \in [1..(MaxRetry + 1) -> [Model -> Answer \cup {None}]]
        /\ attempt[h] \in 1..(retry + 1) /\ PriceOf(h, "malformed") \in Nat
    BY <1>3, AsksFacts, PricesAreAmounts DEF Malformed
  <2>2. /\ model' \in [Host -> Model] /\ soft' \in [Host -> SUBSET Model]
        /\ attempt' \in [Host -> 1..(retry + 2)]
    BY <1>3, <2>1, SoftFailureTypes DEF Malformed
  <2>3. /\ spent' \in [Host -> Nat] /\ billed' \in [Host -> Nat] /\ unpriced' \in [Host -> Nat]
        /\ outcome' \in [Host -> Result \cup {None}] /\ UNCHANGED given
    BY <1>3, <2>1 DEF Malformed, Charge, TypeOK
  <2> QED BY <2>1, <2>2, <2>3 DEF TypeOK
<1>4. ASSUME "refused" \in Answer, Refused(h) PROVE TypeOK'
  <2>1. /\ answers' \in [1..(MaxRetry + 1) -> [Model -> Answer \cup {None}]]
        /\ attempt[h] \in 1..(retry + 1) /\ Cost[model[h]] \in Nat
    BY <1>4, AsksFacts, PricesAreAmounts DEF Refused
  <2>2. /\ model' \in [Host -> Model] /\ soft' \in [Host -> SUBSET Model]
        /\ attempt' \in [Host -> 1..(retry + 2)]
    BY <1>4, <2>1, SoftFailureTypes DEF Refused
  <2>3. /\ spent' \in [Host -> Nat] /\ billed' \in [Host -> Nat] /\ unpriced' \in [Host -> Nat]
        /\ outcome' \in [Host -> Result \cup {None}] /\ UNCHANGED given
    BY <1>4, <2>1 DEF Refused, TypeOK
  <2> QED BY <2>1, <2>2, <2>3 DEF TypeOK
<1>5. ASSUME "transient" \in Answer, Transient(h) PROVE TypeOK'
  <2>1. /\ answers' \in [1..(MaxRetry + 1) -> [Model -> Answer \cup {None}]]
        /\ attempt[h] \in 1..(retry + 1)
    BY <1>5, AsksFacts DEF Transient
  <2>2. attempt[h] + 1 \in 1..(retry + 2)
    BY <2>1, GenerateAssumption DEF TypeOK
  <2> QED BY <1>5, <2>1, <2>2 DEF Transient, TypeOK
<1>6. ASSUME "other" \in Answer, Other(h) PROVE TypeOK'
  <2>1. answers' \in [1..(MaxRetry + 1) -> [Model -> Answer \cup {None}]]
    BY <1>6, AsksFacts DEF Other
  <2> QED BY <1>6, <2>1 DEF Other, End, TypeOK, Result
<1>7. ASSUME GiveUp(h) PROVE TypeOK'
  BY <1>7 DEF GiveUp, End, TypeOK, Result
<1> QED BY <1>1, <1>2, <1>3, <1>4, <1>5, <1>6, <1>7 DEF Step

-----------------------------------------------------------------------------
\* The kinds of steps: a generation ends where it is, asks again, or asks for a change.
LEMMA StepKinds ==
  ASSUME TypeOK, NEW h \in Host, Step(h)
  PROVE  /\ UNCHANGED given
         /\ AnswersStay
         /\ outcome[h] = None
         /\ \/ UNCHANGED <<attempt, model, soft>>
            \/ Transient(h) /\ "transient" \in Answer
            \/ \E a \in Answer \cap {"malformed", "refused"} : Asks(h, a) /\ SoftFailure(h)
<1>1. AnswersStay
  <2>1. (\E a \in Answer : Asks(h, a)) \/ UNCHANGED answers
    BY DEF Step, Return, Overdraw, Malformed, Refused, Transient, Other, GiveUp
  <2> QED BY <2>1, AsksFacts DEF AnswersStay
<1>2. UNCHANGED given /\ outcome[h] = None
  BY DEF Step, Return, Overdraw, Malformed, Refused, Transient, Other, GiveUp, Asks
<1>3. \/ UNCHANGED <<attempt, model, soft>>
      \/ Transient(h) /\ "transient" \in Answer
      \/ \E a \in Answer \cap {"malformed", "refused"} : Asks(h, a) /\ SoftFailure(h)
  BY DEF Step, Return, Overdraw, Malformed, Refused, Other, GiveUp
<1> QED BY <1>1, <1>2, <1>3

\* The model changes with a soft failure of the first one, and not back.
LEMMA StepFollows ==
  ASSUME TypeOK, ModelFollowsSoftFailure, NEW h \in Host, Step(h)
  PROVE  ModelFollowsSoftFailure'
<1>1. CASE UNCHANGED <<model, soft>>
  BY <1>1, StepKinds DEF ModelFollowsSoftFailure, given
<1>2. CASE SoftFailure(h)
  BY <1>2, StepKinds, GenerateAssumption DEF TypeOK, ModelFollowsSoftFailure, SoftFailure, given
<1> QED BY <1>1, <1>2, StepKinds DEF Transient

\* What is billed is charged, or came with an exception.
LEMMA StepBills ==
  ASSUME TypeOK, BilledIsCharged, NEW h \in Host, Step(h)
  PROVE  BilledIsCharged'
<1>1. ASSUME NEW g \in Host, outcome'[g] # "exceeded"
      PROVE  billed'[g] = spent'[g] + unpriced'[g]
  <2>1. CASE g = h
    <3>1. billed[h] = spent[h] + unpriced[h]
      BY StepKinds, GenerateAssumption DEF BilledIsCharged
    <3>2. \A a : PriceOf(h, a) \in Nat /\ Cost[model[h]] \in Nat
      BY PricesAreAmounts
    <3>3. ASSUME NEW a, Charge(h, a), UNCHANGED unpriced PROVE billed'[h] = spent'[h] + unpriced'[h]
      BY <3>1, <3>2, <3>3 DEF Charge, TypeOK
    <3>4. CASE Refused(h)
      <4>1. /\ billed'[h] = billed[h] + Cost[model[h]] /\ spent'[h] = spent[h]
            /\ unpriced'[h] = unpriced[h] + Cost[model[h]]
        BY <3>4 DEF Refused, TypeOK
      <4>2. /\ spent[h] \in Nat /\ unpriced[h] \in Nat /\ Cost[model[h]] \in Nat
        BY PricesAreAmounts DEF TypeOK
      <4> QED BY <2>1, <3>1, <4>1, <4>2
    <3>5. ASSUME NEW a \in Answer, Overdraw(h, a) PROVE outcome'[h] = "exceeded"
      BY <3>5 DEF Overdraw, End, TypeOK
    <3>6. CASE UNCHANGED <<billed, spent, unpriced>>
      BY <2>1, <3>1, <3>6
    <3> QED BY <1>1, <2>1, <3>3, <3>4, <3>5, <3>6 DEF Step, Return, Malformed, Transient, Other, GiveUp
  <2>2. CASE g # h
    <3>1. /\ billed'[g] = billed[g] /\ spent'[g] = spent[g] /\ unpriced'[g] = unpriced[g]
          /\ outcome'[g] = outcome[g]
      BY <2>2 DEF TypeOK, Step, Return, Overdraw, Malformed, Refused, Transient, Other, GiveUp,
                  Charge, End
    <3> QED BY <1>1, <3>1 DEF BilledIsCharged
  <2> QED BY <2>1, <2>2
<1> QED BY <1>1 DEF BilledIsCharged

-----------------------------------------------------------------------------
\* A trail of a generation that stands still does not change when others ask.
LEMMA TrailStays ==
  ASSUME TypeOK, AnswersStay, NEW h \in Host, Trail(h),
         attempt'[h] = attempt[h], model'[h] = model[h], soft'[h] = soft[h]
  PROVE  Trail(h)'
<1>1. ASSUME NEW j \in 1..(MaxRetry + 2), HardUpto(j) PROVE HardUpto(j)'
  <2>1. ASSUME NEW i \in 1..(j - 1) PROVE Said(i, Primary, "transient")'
    <3>1. i \in 1..(MaxRetry + 1)
      BY GenerateAssumption
    <3> QED BY <1>1, <3>1, SaidStays, GenerateAssumption DEF HardUpto
  <2> QED BY <2>1 DEF HardUpto
<1>2. attempt[h] \in 1..(MaxRetry + 2) /\ model[h] \in Model /\ MaxRetry \in Nat /\ Primary \in Model
  BY GenerateAssumption DEF TypeOK
<1>3. CASE Primary \notin soft[h]
  BY <1>1, <1>2, <1>3 DEF Trail
<1>4. CASE Primary \in soft[h]
  <2>1. PICK j \in 1..(attempt[h] - 1) : SwitchedAt(h, j)
    BY <1>4 DEF Trail
  <2>2. j \in 1..(MaxRetry + 1) /\ j \in 1..(MaxRetry + 2)
    BY <1>2
  <2>3. HardUpto(j)'
    BY <1>1, <2>1, <2>2 DEF SwitchedAt
  <2>4. Said(j, Primary, "malformed")' \/ Said(j, Primary, "refused")'
    BY <1>2, <2>1, <2>2, SaidStays DEF SwitchedAt
  <2>5. ASSUME NEW i \in (j + 1)..(attempt[h] - 1) PROVE answers'[i][model[h]] # None
    <3>1. i \in 1..(MaxRetry + 1) /\ answers[i][model[h]] # None
      BY <1>2, <2>1 DEF SwitchedAt
    <3> QED BY <1>2, <3>1 DEF AnswersStay
  <2>6. SwitchedAt(h, j)'
    BY <2>3, <2>4, <2>5 DEF SwitchedAt
  <2> QED BY <1>4, <2>6 DEF Trail
<1> QED BY <1>3, <1>4

\* Attempt k on the model in use gets an answer a and is followed by the next.
LEMMA TrailGrows ==
  ASSUME TypeOK, TypeOK', AnswersStay, ModelFollowsSoftFailure, NEW h \in Host, Trail(h),
         NEW a \in Answer \cap {"transient", "malformed", "refused"}, Asks(h, a),
         attempt'[h] = attempt[h] + 1,
         a = "transient" => model'[h] = model[h] /\ soft'[h] = soft[h],
         a # "transient" => SoftFailure(h),
         UNCHANGED given
  PROVE  Trail(h)'
<1>k. PICK k : k = attempt[h]
  OBVIOUS
<1>0. /\ k \in 1..(MaxRetry + 1) /\ model[h] \in Model /\ MaxRetry \in Nat /\ Primary \in Model
      /\ answers'[k][model[h]] = a
  BY <1>k, AsksFacts, GenerateAssumption DEF TypeOK
<1>1. ASSUME NEW j \in 1..k, HardUpto(j) PROVE HardUpto(j)'
  <2>1. ASSUME NEW i \in 1..(j - 1) PROVE Said(i, Primary, "transient")'
    <3>1. i \in 1..(MaxRetry + 1)
      BY <1>0
    <3> QED BY <1>0, <1>1, <3>1, SaidStays DEF HardUpto
  <2> QED BY <2>1 DEF HardUpto
<1>2. CASE Primary \notin soft[h]
  <2>1. model[h] = Primary /\ HardUpto(k)
    BY <1>k, <1>2 DEF ModelFollowsSoftFailure, Trail
  <2>2. HardUpto(k)' /\ Said(k, Primary, a)'
    BY <1>0, <1>1, <2>1 DEF Said
  <2>3. CASE a = "transient"
    <3>1. \A i \in 1..((k + 1) - 1) : i \in 1..(k - 1) \/ i = k
      BY <1>0
    <3>2. \A i \in 1..((k + 1) - 1) : Said(i, Primary, "transient")'
      BY <2>2, <2>3, <3>1 DEF HardUpto
    <3> QED BY <1>k, <1>2, <2>3, <3>2 DEF Trail, HardUpto
  <2>4. CASE a # "transient"
    <3>1. Primary \in soft'[h]
      BY <2>1, <2>4 DEF SoftFailure, TypeOK
    <3>2. SwitchedAt(h, k)'
      <4>1. \A i \in (k + 1)..((k + 1) - 1) : FALSE
        BY <1>0
      <4> QED BY <1>k, <2>2, <2>4, <4>1 DEF SwitchedAt
    <3>3. k \in 1..((k + 1) - 1)
      BY <1>0
    <3> QED BY <1>k, <3>1, <3>2, <3>3 DEF Trail
  <2> QED BY <2>3, <2>4
<1>3. CASE Primary \in soft[h]
  <2>1. PICK j \in 1..(k - 1) : SwitchedAt(h, j)
    BY <1>k, <1>3 DEF Trail
  <2>2. Primary \in soft'[h] /\ model'[h] = model[h]
    BY <1>3 DEF SoftFailure, TypeOK, ModelFollowsSoftFailure
  <2>3. j \in 1..(MaxRetry + 1) /\ j \in 1..k /\ j \in 1..((k + 1) - 1)
    BY <1>0
  <2>4. HardUpto(j)' /\ (Said(j, Primary, "malformed")' \/ Said(j, Primary, "refused")')
    BY <1>0, <1>1, <2>1, <2>3, SaidStays DEF SwitchedAt
  <2>5. ASSUME NEW i \in (j + 1)..((k + 1) - 1) PROVE answers'[i][model[h]] # None
    <3>1. CASE i = k
      BY <1>0, <3>1, GenerateAssumption
    <3>2. CASE i # k
      <4>1. i \in 1..(MaxRetry + 1) /\ i \in (j + 1)..(k - 1)
        BY <1>0, <3>2
      <4> QED BY <1>k, <1>0, <2>1, <4>1 DEF SwitchedAt, AnswersStay
    <3> QED BY <3>1, <3>2
  <2>6. SwitchedAt(h, j)'
    BY <1>k, <2>2, <2>4, <2>5 DEF SwitchedAt
  <2> QED BY <1>k, <2>2, <2>3, <2>6 DEF Trail
<1> QED BY <1>2, <1>3
\* A step keeps every trail.
LEMMA StepTrails ==
  ASSUME TypeOK, TypeOK', ModelFollowsSoftFailure, Trails, NEW h \in Host, Step(h)
  PROVE  Trails'
<1>1. ASSUME NEW g \in Host,
             attempt'[g] = attempt[g], model'[g] = model[g], soft'[g] = soft[g]
      PROVE  Trail(g)'
  BY <1>1, TrailStays, StepKinds DEF Trails
<1>2. ASSUME NEW g \in Host, g # h
      PROVE  attempt'[g] = attempt[g] /\ model'[g] = model[g] /\ soft'[g] = soft[g]
  <2>1. CASE Transient(h)
    BY <1>2, <2>1 DEF TypeOK, Transient
  <2>2. CASE SoftFailure(h)
    BY <1>2, <2>2 DEF TypeOK, SoftFailure
  <2> QED BY <2>1, <2>2, StepKinds
<1>3. Trail(h)'
  <2>1. CASE UNCHANGED <<attempt, model, soft>>
    BY <1>1, <2>1
  <2>2. ASSUME Transient(h), "transient" \in Answer PROVE Trail(h)'
    <3>1. attempt'[h] = attempt[h] + 1 /\ UNCHANGED <<model, soft>> /\ Asks(h, "transient")
      BY <2>2 DEF Transient, TypeOK
    <3>2. Trail(h) /\ UNCHANGED given /\ AnswersStay
      BY StepKinds DEF Trails
    <3> QED BY <2>2, <3>1, <3>2, TrailGrows
  <2>3. ASSUME NEW a \in Answer \cap {"malformed", "refused"}, Asks(h, a), SoftFailure(h)
        PROVE  Trail(h)'
    <3>1. attempt'[h] = attempt[h] + 1
      BY <2>3 DEF SoftFailure, TypeOK
    <3>2. Trail(h) /\ UNCHANGED given /\ AnswersStay
      BY StepKinds DEF Trails
    <3> QED BY <2>3, <3>1, <3>2, TrailGrows
  <2> QED BY <2>1, <2>2, <2>3, StepKinds
<1> QED BY <1>1, <1>2, <1>3 DEF Trails

\* A generation fails at the end of its attempts only.
LEMMA StepFailed ==
  ASSUME TypeOK, FailedAtEnd, NEW h \in Host, Step(h)
  PROVE  FailedAtEnd'
<1>1. ASSUME NEW g \in Host, outcome'[g] = "failed" PROVE attempt'[g] > retry' + 1
  <2>1. CASE outcome[g] = "failed"
    <3>1. g # h
      BY <2>1, StepKinds, GenerateAssumption
    <3>2. attempt'[g] = attempt[g] /\ retry' = retry
      BY <3>1, StepKinds DEF TypeOK, Transient, SoftFailure, given
    <3> QED BY <2>1, <3>2 DEF FailedAtEnd
  <2>2. CASE outcome[g] # "failed"
    <3>1. GiveUp(h) /\ g = h
      BY <1>1, <2>2 DEF Step, Return, Overdraw, Malformed, Refused, Transient, Other, GiveUp,
                        End, TypeOK
    <3> QED BY <3>1 DEF GiveUp, given
  <2> QED BY <2>1, <2>2
<1> QED BY <1>1 DEF FailedAtEnd

-----------------------------------------------------------------------------
\* The inductive invariant is inductive.
LEMMA NextIInv == IInv /\ [Next]_vars => IInv'
<1>1. ASSUME IInv, NEW h \in Host, Step(h) PROVE IInv'
  <2>1. TypeOK'
    BY <1>1, StepTypeOK DEF IInv
  <2> QED BY <1>1, <2>1, StepFollows, StepBills, StepTrails, StepFailed DEF IInv
<1>2. ASSUME IInv, UNCHANGED vars PROVE IInv'
  <2>1. TypeOK' /\ ModelFollowsSoftFailure' /\ BilledIsCharged' /\ FailedAtEnd'
    BY <1>2 DEF IInv, vars, given, TypeOK, ModelFollowsSoftFailure, BilledIsCharged, FailedAtEnd
  <2>2. Trails'
    BY <1>2 DEF IInv, vars, given, Trails, Trail, HardUpto, SwitchedAt, Said
  <2> QED BY <2>1, <2>2 DEF IInv
<1> QED BY <1>1, <1>2 DEF Next, Finished

\* The inductive invariant holds in every behaviour.
LEMMA Inductive == Spec => []IInv
BY InitIInv, NextIInv, PTL DEF Spec

\* A host changes model only after a soft failure of the first one, and then stays.
THEOREM SoftFailureSwitches == Spec => []ModelFollowsSoftFailure
<1>1. IInv => ModelFollowsSoftFailure
  BY DEF IInv
<1> QED BY <1>1, Inductive, PTL

\* Failed generations are charged like others, as far as the provider gives a price.
THEOREM FailuresAreCharged == Spec => []BilledIsCharged
<1>1. IInv => BilledIsCharged
  BY DEF IInv
<1> QED BY <1>1, Inductive, PTL

\* The trail of a failed generation shows the fallback being asked.
LEMMA TrailShowsFallback == IInv => FallbackIsTried
<1> SUFFICES ASSUME IInv, NEW h \in Host, NEW k \in 1..retry,
                    outcome[h] = "failed", fallback \notin {None, Primary},
                    answers[k][Primary] = "malformed",
                    \A i \in 1..(k - 1) : answers[i][Primary] = "transient"
             PROVE  answers[k + 1][fallback] # None
  BY DEF FallbackIsTried
<1>1. /\ attempt[h] > retry + 1 /\ attempt[h] \in Nat /\ retry \in Nat /\ Trail(h)
      /\ TypeOK /\ ModelFollowsSoftFailure
  BY GenerateAssumption DEF IInv, TypeOK, FailedAtEnd, Trails
<1>2. k \in 1..(attempt[h] - 1)
  BY <1>1
<1>3. Primary \in soft[h]
  BY <1>1, <1>2 DEF Trail, HardUpto, Said
<1>4. PICK j \in 1..(attempt[h] - 1) : SwitchedAt(h, j)
  BY <1>1, <1>3 DEF Trail
<1>5. j = k
  <2>1. ~(j < k)
    BY <1>4 DEF SwitchedAt, Said
  <2>2. ~(k < j)
    BY <1>2, <1>4 DEF SwitchedAt, HardUpto, Said
  <2> QED BY <1>1, <2>1, <2>2
<1>6. model[h] = fallback
  BY <1>1, <1>3 DEF ModelFollowsSoftFailure
<1>7. k + 1 \in (j + 1)..(attempt[h] - 1)
  BY <1>1, <1>5
<1> QED BY <1>4, <1>6, <1>7 DEF SwitchedAt

\* A generation that fails has tried the fallback, unless its last attempt was the
\* first to fail softly, for any number of attempts.
THEOREM FallbackTried == Spec => []FallbackIsTried
BY TrailShowsFallback, Inductive, PTL
=============================================================================
