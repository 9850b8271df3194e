----------------------------- MODULE Checkpoint -----------------------------
(***************************************************************************)
(* What a durable function promises, with no file, no lines and no money:  *)
(* which steps an execution knows, which ones whoever starts next will     *)
(* know, and which ones a loss of power cannot take back.  A step that is  *)
(* known is not done again; none is known that was never done.  Module     *)
(* Durable, which follows the code, implements this specification.         *)
(***************************************************************************)
EXTENDS Integers, Sequences

CONSTANTS Label,   \* names of steps
          Power,   \* may the machine lose power?
          Tear     \* may a write be interrupted half-way?

VARIABLES
  names,     \* the names of the steps, in the order control reaches them
  mode, at,  \* where the execution is: the phase of the step at `at`
  known,     \* steps that this execution does not do
  seen,      \* steps whose results the next execution finds
  saved,     \* those that are safe from a loss of power
  unsynced,  \* something that was written is not
  damaged,   \* a write was interrupted: from now on nothing more is kept
  done       \* steps that were ever done

checkpointVars == <<names, mode, at, known, seen, saved, unsynced, damaged, done>>

Step == DOMAIN names

\* Results are found by the name of their step.
Same(S) == {i \in Step : \E j \in S : names[i] = names[j]}

\* What may be found behind an interrupted write: the steps of before, those and the one
\* that was being written, or none if it was the end mark.
Ragged(S) == {S, {}} \cup {S \cup {i} : i \in done}

Init ==
  /\ names \in Seq(Label)
  /\ mode = "down" /\ at = 1
  /\ known = {} /\ seen = {} /\ saved = {} /\ done = {}
  /\ unsynced = FALSE /\ damaged = FALSE

Start ==
  /\ mode = "down"
  /\ mode' = "steps" /\ at' = 1
  /\ known' = Same(seen)
  /\ UNCHANGED <<names, seen, saved, unsynced, damaged, done>>

\* A step that is known is passed over.
Pass ==
  /\ mode = "steps" /\ at \in known
  /\ at' = at + 1
  /\ UNCHANGED <<names, mode, known, seen, saved, unsynced, damaged, done>>

\* Any other is done.
Do ==
  /\ mode = "steps" /\ at \in Step \ known
  /\ mode' = "body"
  /\ UNCHANGED <<names, at, known, seen, saved, unsynced, damaged, done>>

\* Its result is being written.
Write ==
  /\ mode = "body"
  /\ mode' = "recording"
  /\ done' = done \cup {at}
  /\ unsynced' = TRUE
  /\ UNCHANGED <<names, at, known, seen, saved, damaged>>

\* The result is safe, unless it continues an interrupted write, which is lost with it.
\* The step may have been the last.
Save ==
  /\ mode = "recording"
  /\ mode' \in {"steps", "returned"} /\ at' = at + 1
  /\ known' = known \cup Same({at})
  /\ seen' = IF damaged THEN saved ELSE seen \cup {at}
  /\ saved' = seen'
  /\ unsynced' = FALSE
  /\ UNCHANGED <<names, damaged, done>>

\* The execution gives up.
Stop ==
  /\ mode \in {"steps", "body"}
  /\ mode' = "down"
  /\ UNCHANGED <<names, at, known, seen, saved, unsynced, damaged, done>>

\* The function has returned: the next execution starts from nothing.
Complete ==
  /\ mode = "returned" \/ (mode = "steps" /\ at \notin Step)
  /\ mode' = "down"
  /\ seen' = IF damaged THEN saved ELSE {}
  /\ unsynced' = TRUE
  /\ UNCHANGED <<names, at, known, saved, damaged, done>>

\* What is left of what was written, when nothing was cut in half.
Left ==
  {seen} \cup (IF mode = "recording" THEN {seen \cup {at}} ELSE {})
         \cup (IF Power THEN {saved} ELSE {})

Down ==
  /\ mode # "down" \/ unsynced
  /\ mode' = "down" /\ unsynced' = FALSE
  /\ UNCHANGED <<names, at, known, done>>

Crash ==
  /\ Down
  /\ ~damaged /\ damaged' = FALSE
  /\ saved' \in Left /\ seen' = saved'

CrashInWrite ==
  /\ Down
  /\ Tear /\ unsynced
  /\ ~damaged /\ damaged' = TRUE
  /\ saved' \in (IF Power THEN {seen, saved} ELSE {seen})
  /\ seen' \in Ragged(saved')

\* What was safe stays so, whatever else is damaged.
CrashAgain ==
  /\ Down
  /\ damaged /\ damaged' = TRUE
  /\ saved' = saved
  /\ seen' \in Ragged(saved)

Next ==
  \/ Start \/ Pass \/ Do \/ Write \/ Save \/ Stop \/ Complete
  \/ Crash \/ CrashInWrite \/ CrashAgain

Spec == Init /\ [][Next]_checkpointVars

-----------------------------------------------------------------------------
\* A step is passed over only if one of its name was done, in whatever execution.
Honest == known \subseteq Same(done)
=============================================================================
