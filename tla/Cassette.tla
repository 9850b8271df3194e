------------------------------ MODULE Cassette ------------------------------
(***************************************************************************)
(* `humbaba run FILE --cassette PATH` (humbaba/cli.py) again and again     *)
(* over one cassette of MockModel (humbaba/model.py).  A run loads the     *)
(* file, the iterations of its program generate, and when the program      *)
(* returns or ends by an error of the language the file is rewritten in    *)
(* place.  A key is a model and the inputs of a prompt, and an answer is   *)
(* known by its key and the run in which the model gave it: within one     *)
(* process MockModel says the same to the same request, across processes   *)
(* it need not (fabricate hashes text).                                    *)
(***************************************************************************)
EXTENDS Integers, Sequences

CONSTANTS Worker,     \* iterations of the program's parallel block
          Work,       \* Work[w]: the inputs of its generations, in order
          Input,
          Injected,   \* inputs that carry an instruction outside the fence
          Model, Primary, Fallback,
          Retry,      \* `retry` of the policy
          Holds,      \* does the function hold the capability db.dump?
          Limit,      \* limits of the frame
          NoLimit,
          Torn,       \* a file whose text is no JSON, or that is empty
          MaxRuns     \* bound

ASSUME CassetteAssumption ==
  /\ Work \in [Worker -> Seq(Input) \ {<< >>}]
  /\ Injected \subseteq Input
  /\ {Primary, Fallback} \subseteq Model
  /\ Retry \in Nat
  /\ Holds \in BOOLEAN
  /\ NoLimit \notin Nat /\ Limit \subseteq Nat \cup {NoLimit}
  /\ MaxRuns \in Nat

Key == Model \X Input
Run == 1..MaxRuns
Blank == [k \in Key |-> 0]

VARIABLES
  file,        \* what PATH holds: answers by key (0: none), or Torn; Blank if absent
  mode,        \* where the process is
  run,         \* runs so far
  async,       \* m.scheduler = "asyncio" and a block wide enough for it
  overloaded,  \* models with malformed output (--overloaded)
  tape,        \* MockModel.cassette
  at,          \* at[w]: where iteration w is
  pos,         \* pos[w]: the generation it is at
  model, tries,  \* of that generation
  got,         \* got[w]: the answers of its generations
  limit, spent,  \* the frame
  \* history variables
  recorded,    \* tape at the moment the file was opened for writing
  kept,        \* keys whose answers were on a tape that was written and not lost
  shown,       \* what the last completed run over them got, if every run saved since
               \* had the same models overloaded
  dumped       \* requests on whose behalf the model dumped the database

flags   == <<async, overloaded, limit>>
threads == <<at, pos, model, tries, got, spent>>
past    == <<kept, shown>>
vars == <<file, mode, run, flags, tape, threads, recorded, past, dumped>>

Nothing == [flags |-> {}, got |-> << >>]

Init ==
  /\ file = Blank
  /\ mode = "down"
  /\ run = 0
  /\ async \in BOOLEAN /\ limit \in Limit
  /\ overloaded = {}
  /\ tape = Blank /\ recorded = Blank
  /\ at = [w \in Worker |-> "new"]
  /\ pos = [w \in Worker |-> 1]
  /\ model = [w \in Worker |-> Primary]
  /\ tries = [w \in Worker |-> 0]
  /\ got = [w \in Worker |-> << >>]
  /\ spent = 0
  /\ kept = {} /\ shown = Nothing
  /\ dumped = {}

-----------------------------------------------------------------------------
\* The process.

\* MockModel.__init__, then the program.
Start(o) ==
  /\ mode = "down" /\ run < MaxRuns
  /\ file # Torn
  /\ mode' = "running"
  /\ run' = run + 1
  /\ overloaded' = o
  /\ tape' = file
  /\ at' = [w \in Worker |-> "new"]
  /\ pos' = [w \in Worker |-> 1]
  /\ model' = [w \in Worker |-> Primary]
  /\ tries' = [w \in Worker |-> 0]
  /\ got' = [w \in Worker |-> << >>]
  /\ spent' = 0
  /\ dumped' = {}
  /\ UNCHANGED <<file, async, limit, recorded, past>>

\* json.load raises: the run ends before it has begun.
StartTorn ==
  /\ mode = "down" /\ run < MaxRuns
  /\ file = Torn
  /\ run' = run + 1
  /\ UNCHANGED <<file, mode, flags, tape, threads, recorded, past, dumped>>

\* The user removes the cassette.
Remove ==
  /\ mode = "down"
  /\ file # Blank
  /\ file' = Blank
  /\ kept' = {} /\ shown' = Nothing
  /\ UNCHANGED <<mode, run, flags, tape, threads, recorded, dumped>>

Busy == {w \in Worker : at[w] \in {"ready", "asking"}}

\* Mutant: only a run that succeeds is saved.
CloseUnsaved ==
  /\ mode = "running"
  /\ \/ \A w \in Worker : at[w] = "done"
     \/ (\E w \in Worker : at[w] = "failed") /\ (async \/ Busy = {})
  /\ mode' = IF \A w \in Worker : at[w] = "done" THEN "saving" ELSE "exiting"
  /\ recorded' = tape
  /\ UNCHANGED <<file, run, flags, tape, threads, past, dumped>>

\* interp.run is over: it returned, or a HumbabaError came out of the block, which
\* under asyncio does not wait for the iterations that are still going.
Close ==
  /\ mode = "running"
  /\ \/ \A w \in Worker : at[w] = "done"
     \/ (\E w \in Worker : at[w] = "failed") /\ (async \/ Busy = {})
  /\ mode' = "saving"
  /\ UNCHANGED <<file, run, flags, tape, threads, recorded, past, dumped>>

\* model.save: open(path, "w") empties the file, json.dump takes the items.
SaveOpen ==
  /\ mode = "saving"
  /\ file' = Torn
  /\ recorded' = tape
  /\ mode' = "writing"
  /\ UNCHANGED <<run, flags, tape, threads, past, dumped>>

SaveClose ==
  /\ mode = "writing"
  /\ file' = recorded
  /\ mode' = "exiting"
  /\ UNCHANGED <<run, flags, tape, threads, recorded, past, dumped>>

\* A process that is over leaves a file that was written, one that was not, or half of one.
Leaves ==
  /\ kept' = IF file = Torn THEN {}
             ELSE IF mode = "exiting" THEN {k \in Key : recorded[k] # 0} ELSE kept
  /\ shown' =
       IF file = Torn THEN Nothing
       ELSE IF mode # "exiting" THEN shown
       ELSE IF \A w \in Worker : at[w] = "done" THEN [flags |-> overloaded, got |-> got]
       ELSE IF overloaded = shown.flags THEN shown
       ELSE Nothing
  /\ mode' = "down"
  /\ UNCHANGED <<file, run, flags, tape, threads, recorded, dumped>>

\* The interpreter waits for the threads of the pool, whose answers come too late.
Exit == mode = "exiting" /\ Busy = {} /\ Leaves

\* Any exception that is no HumbabaError, Ctrl-C, a kill.
Die == mode # "down" /\ Leaves

-----------------------------------------------------------------------------
\* Generations: MockModel.generate inside the attempt loop of do_gen.

Text(w) == Work[w][pos[w]]
Asked(w) == <<model[w], Text(w)>>

Set(f, w, x) == [f EXCEPT ![w] = x]

\* A thread of the pool takes the iteration up; nothing is once the block is closing.
Begin(w) ==
  /\ mode = "running"
  /\ at[w] = "new"
  /\ at' = Set(at, w, "ready")
  /\ UNCHANGED <<file, mode, run, flags, tape, pos, model, tries, got, spent,
                 recorded, past, dumped>>

\* The generation of w has the answer of run r: on to the next one.
Proceed(w, r) ==
  /\ got' = Set(got, w, Append(got[w], <<Asked(w), r>>))
  /\ pos' = Set(pos, w, pos[w] + 1)
  /\ model' = Set(model, w, Primary)
  /\ tries' = Set(tries, w, 0)
  /\ at' = Set(at, w, IF pos[w] = Len(Work[w]) THEN "done" ELSE "ready")

\* Mutant: a lost attempt does not count.
AgainUncounted(w, m) ==
  /\ model' = Set(model, w, m)
  /\ at' = Set(at, w, "ready")
  /\ UNCHANGED <<pos, tries, got>>

\* Attempt lost; the loop goes on with model m, or raises.
Again(w, m) ==
  /\ tries' = Set(tries, w, tries[w] + 1)
  /\ model' = Set(model, w, m)
  /\ at' = Set(at, w, IF tries[w] = Retry THEN "failed" ELSE "ready")
  /\ UNCHANGED <<pos, got>>

Fails(w) ==
  /\ at' = Set(at, w, "failed")
  /\ UNCHANGED <<pos, model, tries, got>>

Alive == mode # "down"

\* Mutant: the key leaves the model out.
HitAnyModel(w) ==
  /\ Alive /\ at[w] = "ready"
  /\ \E m \in Model :
       /\ tape[<<m, Text(w)>>] # 0
       /\ got' = Set(got, w, Append(got[w], <<<<m, Text(w)>>, tape[<<m, Text(w)>>]>>))
  /\ pos' = Set(pos, w, pos[w] + 1)
  /\ model' = Set(model, w, Primary)
  /\ tries' = Set(tries, w, 0)
  /\ at' = Set(at, w, IF pos[w] = Len(Work[w]) THEN "done" ELSE "ready")
  /\ UNCHANGED <<file, mode, run, flags, tape, spent, recorded, past, dumped>>

\* The key is on the tape: replay is free.
Hit(w) ==
  /\ Alive /\ at[w] = "ready"
  /\ tape[Asked(w)] # 0
  /\ Proceed(w, tape[Asked(w)])
  /\ UNCHANGED <<file, mode, run, flags, tape, spent, recorded, past, dumped>>

\* It is not: the request goes out, and other threads run until the model answers.
Miss(w) ==
  /\ Alive /\ at[w] = "ready"
  /\ tape[Asked(w)] = 0
  /\ at' = Set(at, w, "asking")
  /\ UNCHANGED <<file, mode, run, flags, tape, pos, model, tries, got, spent,
                 recorded, past, dumped>>

\* "upstream 503"
Transient(w) ==
  /\ Alive /\ at[w] = "asking"
  /\ Again(w, model[w])
  /\ UNCHANGED <<file, mode, run, flags, tape, spent, recorded, past, dumped>>

\* model_tool_call: the model obeys, and the function's capabilities decide.
Obeys(w) ==
  dumped' = IF Text(w) \in Injected /\ Holds THEN dumped \cup {Asked(w)} ELSE dumped

\* One unit for any answer.
Fits == limit # NoLimit => spent + 1 <= limit
Charge == spent' = IF Fits THEN spent + 1 ELSE spent

\* An overloaded model truncates: charged, not recorded, and a soft failure.
Partial(w) ==
  /\ Alive /\ at[w] = "asking"
  /\ model[w] \in overloaded
  /\ Obeys(w)
  /\ Charge
  /\ IF Fits THEN Again(w, Fallback) ELSE Fails(w)
  /\ UNCHANGED <<file, mode, run, flags, tape, recorded, past>>

\* A usable answer is recorded and then charged; BudgetExceeded leaves the recording.
Answer(w) ==
  /\ Alive /\ at[w] = "asking"
  /\ model[w] \notin overloaded
  /\ Obeys(w)
  /\ tape' = Set(tape, Asked(w), run)
  /\ Charge
  /\ IF Fits THEN Proceed(w, run) ELSE Fails(w)
  /\ UNCHANGED <<file, mode, run, flags, recorded, past>>

Generate(w) ==
  \/ Begin(w) \/ Hit(w) \/ Miss(w)
  \/ Transient(w) \/ Partial(w) \/ Answer(w)

Process == Close \/ SaveOpen \/ SaveClose \/ Exit

Finished == mode = "down" /\ run = MaxRuns /\ UNCHANGED vars

Next ==
  \/ \E o \in SUBSET {Primary} : Start(o)
  \/ StartTorn \/ Remove
  \/ Process \/ Die
  \/ \E w \in Worker : Generate(w)
  \/ Finished

\* Threads run, requests end, and the main thread goes on.
Fairness == WF_vars(Process) /\ \A w \in Worker : WF_vars(Generate(w))

Spec == Init /\ [][Next]_vars /\ Fairness
-----------------------------------------------------------------------------
\* docs/LANGUAGE.md 7.7: "On a later run, a matching key is replayed: no network, no
\* latency, no charge".  A request that an earlier run had answered when it ended, in
\* whatever way it ended by itself, goes out to the model no more and makes it dump
\* nothing more, until the file is lost: while it is being rewritten, or removed.
AnsweredOnce ==
  [][\A w \in Worker : at[w] \in {"ready", "asking"} =>
       (Miss(w) \/ Asked(w) \in dumped' \ dumped => Asked(w) \notin kept)]_vars

\* tests/test_humbaba.py TestReplay: "replayed, free, byte-identical".  A run that
\* completes over the recording of a completed run, with the same models overloaded,
\* gets the same answer for every generation, although its threads run in another
\* order and other requests of it fail.
ReplayIsIdentical ==
  /\ mode = "exiting" /\ (\A w \in Worker : at[w] = "done")
  /\ shown # Nothing /\ shown.flags = overloaded
  => got = shown.got

\* A run ends, unless a request in it stays unanswered: whatever fails, and also when
\* the block was left with threads still at work.
RunEnds == mode = "running" ~> mode = "down"
=============================================================================
