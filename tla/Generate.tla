------------------------------ MODULE Generate ------------------------------
(***************************************************************************)
(* One `gen<T>` under a policy, executed by each host of the language for  *)
(* the same program and against the same provider: the tree interpreter    *)
(* (humbaba/runtime.py), the closures (humbaba/compile.py), the HBX        *)
(* machine in Python (humbaba/hbxvm.py) and the one in Go (go/vm.go).  The *)
(* provider's answers are a table, one per attempt and model, filled in as *)
(* the hosts ask.                                                          *)
(***************************************************************************)
EXTENDS Integers

CONSTANTS Host, Coerces,  \* the hosts, and those that check the answer against T
          Model, Primary, \* names of models, and the one a generation starts with
          Cost,           \* Cost[m]: price of an answer of model m
          Answer,         \* what a provider may answer
          Limit, NoLimit, \* limits of the frame that is charged
          MaxRetry,       \* bound of `retry` in a policy
          None

ASSUME GenerateAssumption ==
  /\ Coerces \subseteq Host
  /\ Primary \in Model
  /\ Cost \in [Model -> Nat]
  /\ Answer \subseteq {"good", "cached", "malformed", "refused", "transient", "other"}
  /\ Limit \subseteq Nat /\ NoLimit \notin Nat
  /\ MaxRetry \in Nat
  /\ None \notin Model \cup Answer \cup {"record", "unusable", "exceeded", "error", "failed"}

VARIABLES
  retry, fallback, limit,  \* the policy and the budget around the generation
  answers,   \* answers[k][m]: what the provider says to attempt k on model m
  attempt,   \* attempt[h]: the loop's counter, from 1
  model,     \* model[h]: model_name
  spent,     \* spent[h]: Budget.spent
  outcome,   \* outcome[h]: what the generation came to
  \* history variables
  billed,    \* billed[h]: what the provider charges for
  unpriced,  \* unpriced[h]: the part of it that came with an exception
  soft       \* soft[h]: models that gave an unusable answer

given == <<retry, fallback, limit>>
vars == <<given, answers, attempt, model, spent, outcome, billed, unpriced, soft>>

Init ==
  /\ retry \in 0..MaxRetry
  /\ fallback \in Model \cup {None}
  /\ limit \in Limit \cup {NoLimit}
  /\ answers = [k \in 1..(MaxRetry + 1) |-> [m \in Model |-> None]]
  /\ attempt = [h \in Host |-> 1]
  /\ model = [h \in Host |-> Primary]
  /\ spent = [h \in Host |-> 0]
  /\ outcome = [h \in Host |-> None]
  /\ billed = [h \in Host |-> 0]
  /\ unpriced = [h \in Host |-> 0]
  /\ soft = [h \in Host |-> {}]

-----------------------------------------------------------------------------
\* Host h makes an attempt and the provider's answer is a.
Asks(h, a) ==
  /\ outcome[h] = None
  /\ attempt[h] <= retry + 1
  /\ answers[attempt[h]][model[h]] \in {None, a}
  /\ answers' = [answers EXCEPT ![attempt[h]][model[h]] = a]

\* Answers that come with a price, and what they cost.
Priced == {"good", "cached", "malformed"}
PriceOf(h, a) == IF a = "cached" THEN 0 ELSE Cost[model[h]]

Fits(h, a) == limit # NoLimit => spent[h] + PriceOf(h, a) <= limit

\* The answer is charged.
Charge(h, a) ==
  /\ Fits(h, a)
  /\ spent' = [spent EXCEPT ![h] = @ + PriceOf(h, a)]
  /\ billed' = [billed EXCEPT ![h] = @ + PriceOf(h, a)]

End(h, result) == outcome' = [outcome EXCEPT ![h] = result]

\* Mutant: changing the model costs an attempt of its own.
SoftFailureTwice(h) ==
  /\ model' = [model EXCEPT ![h] = IF fallback # None THEN fallback ELSE @]
  /\ soft' = [soft EXCEPT ![h] = @ \cup {model[h]}]
  /\ attempt' = [attempt EXCEPT ![h] = @ + 2]

\* A soft failure goes to the fallback model if there is one and it is not in use.
SoftFailure(h) ==
  /\ model' = [model EXCEPT ![h] = IF fallback # None THEN fallback ELSE @]
  /\ soft' = [soft EXCEPT ![h] = @ \cup {model[h]}]
  /\ attempt' = [attempt EXCEPT ![h] = @ + 1]

\* The answer has the shape of T, or the host does not look.
Return(h, a) ==
  /\ a \in Priced
  /\ a = "malformed" => h \notin Coerces
  /\ Asks(h, a)
  /\ Charge(h, a)
  /\ End(h, IF a = "malformed" THEN "unusable" ELSE "record")
  /\ UNCHANGED <<given, unpriced, attempt, model, soft>>

\* Mutant: the answer is coerced first.
MalformedFirst(h) ==
  /\ h \in Coerces
  /\ Asks(h, "malformed")
  /\ billed' = [billed EXCEPT ![h] = @ + PriceOf(h, "malformed")]
  /\ SoftFailure(h)
  /\ UNCHANGED <<given, unpriced, spent, outcome>>

\* The answer is charged first and coerced then.
Malformed(h) ==
  /\ h \in Coerces
  /\ Asks(h, "malformed")
  /\ Charge(h, "malformed")
  /\ SoftFailure(h)
  /\ UNCHANGED <<given, unpriced, outcome>>

\* BudgetExceeded: the answer is there, it is billed and it is given up.
Overdraw(h, a) ==
  /\ a \in Priced
  /\ Asks(h, a)
  /\ ~Fits(h, a)
  /\ billed' = [billed EXCEPT ![h] = @ + PriceOf(h, a)]
  /\ End(h, "exceeded")
  /\ UNCHANGED <<given, unpriced, attempt, model, spent, soft>>

\* generate() itself raises RefusalError: providers.py does after the provider has
\* answered, and no price comes with an exception.
Refused(h) ==
  /\ Asks(h, "refused")
  /\ billed' = [billed EXCEPT ![h] = @ + Cost[model[h]]]
  /\ unpriced' = [unpriced EXCEPT ![h] = @ + Cost[model[h]]]
  /\ SoftFailure(h)
  /\ UNCHANGED <<given, spent, outcome>>

\* Mutant: a hard failure changes the model as a soft one does.
TransientSwitches(h) ==
  /\ Asks(h, "transient")
  /\ attempt' = [attempt EXCEPT ![h] = @ + 1]
  /\ model' = [model EXCEPT ![h] = IF fallback # None THEN fallback ELSE @]
  /\ UNCHANGED <<given, unpriced, spent, outcome, billed, soft>>

\* Mutant: a hard failure does not use up an attempt.
TransientForever(h) ==
  /\ Asks(h, "transient")
  /\ UNCHANGED <<given, unpriced, attempt, model, spent, outcome, billed, soft>>

\* A hard failure: the same request again.
Transient(h) ==
  /\ Asks(h, "transient")
  /\ attempt' = [attempt EXCEPT ![h] = @ + 1]
  /\ UNCHANGED <<given, unpriced, model, spent, outcome, billed, soft>>

\* Any other exception leaves the loop.
Other(h) ==
  /\ Asks(h, "other")
  /\ End(h, "error")
  /\ UNCHANGED <<given, unpriced, attempt, model, spent, billed, soft>>

\* "failed after retry + 1 attempt(s)"
GiveUp(h) ==
  /\ outcome[h] = None
  /\ attempt[h] > retry + 1
  /\ End(h, "failed")
  /\ UNCHANGED <<given, unpriced, answers, attempt, model, spent, billed, soft>>

Step(h) ==
  \/ \E a \in Answer : Return(h, a) \/ Overdraw(h, a)
  \/ "malformed" \in Answer /\ Malformed(h)
  \/ "refused" \in Answer /\ Refused(h)
  \/ "transient" \in Answer /\ Transient(h)
  \/ "other" \in Answer /\ Other(h)
  \/ GiveUp(h)

Finished == (\A h \in Host : outcome[h] # None) /\ UNCHANGED vars

Next == (\E h \in Host : Step(h)) \/ Finished

\* Every provider call ends, by answer, error or time-out.
Fairness == \A h \in Host : WF_vars(Step(h))

Spec == Init /\ [][Next]_vars /\ Fairness
-----------------------------------------------------------------------------
\* docs/LANGUAGE.md 7.4: a hard failure asks for the identical request, a soft one
\* for a change.  A host changes model only after a soft failure of the first one,
\* and never asks the first one again once it has failed softly and there is
\* another to ask.
ModelFollowsSoftFailure ==
  \A h \in Host :
    /\ model[h] # Primary => model[h] = fallback /\ Primary \in soft[h]
    /\ Primary \in soft[h] /\ fallback # None => model[h] = fallback

\* docs/LANGUAGE.md 7.3: "Failed generations are still charged".  Until the budget
\* runs out, the frame holds what the provider bills, usable answer or not, but for
\* answers that the provider turned into an exception.
BilledIsCharged ==
  \A h \in Host : outcome[h] # "exceeded" => billed[h] = spent[h] + unpriced[h]

\* docs/LANGUAGE.md 7.4: "on the first soft failure the runtime switches model and
\* tries once more".  A generation that ends as failed has asked the fallback after a
\* soft failure, unless that failure took the last attempt.
FallbackIsTried ==
  \A h \in Host : \A k \in 1..retry :
    /\ outcome[h] = "failed"
    /\ fallback \notin {None, Primary}
    /\ h \in Coerces /\ answers[k][Primary] = "malformed"
    /\ \A i \in 1..(k - 1) : answers[i][Primary] = "transient"
    => answers[k + 1][fallback] # None

\* A generation ends whatever the provider does.
GenerationEnds == \A h \in Host : <>(outcome[h] # None)
=============================================================================
