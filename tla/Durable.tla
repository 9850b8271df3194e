------------------------------ MODULE Durable -------------------------------
(***************************************************************************)
(* Executions of a durable function of humbaba/compile.py with its         *)
(* journal: every execution opens the file, steps with an entry are        *)
(* replayed and the others run and are recorded, the end mark is written   *)
(* when the function returns.  The process may be killed and the machine   *)
(* may lose power between any two steps, and the user starts the program   *)
(* again.  The function is a list of steps, in the order control reaches   *)
(* them; only steps may spend.                                             *)
(***************************************************************************)
EXTENDS Journal

CONSTANTS Programs,  \* durable functions: sequences of [label, gens, own, returns]
          Calls,     \* "own": the function has a frame of its own, as the entry
                     \* point or because it declares a budget; "shared": it is
                     \* called and spends from its caller's frame; "host": it is
                     \* the entry function of an HBX machine, go/vm.go or
                     \* hbxvm.py, which records what the whole run has spent
          Limit,     \* limit of the frame the function runs in, or NoLimit
          NoLimit,
          Price,     \* what a generation may cost
          Power,     \* may the machine lose power?
          Tear,      \* may an append be interrupted half-way?
          MaxStarts, MaxCrashes   \* bounds

ASSUME DurableAssumption ==
  /\ Programs \subseteq
       Seq([label : Label, gens : Nat, own : BOOLEAN, returns : BOOLEAN])
  /\ Calls \subseteq {"own", "shared", "host"}
  /\ NoLimit \notin Nat
  /\ Limit \in Nat \cup {NoLimit}
  /\ Price \subseteq Nat
  /\ Power \in BOOLEAN /\ Tear \in BOOLEAN
  /\ MaxStarts \in Nat /\ MaxCrashes \in Nat

VARIABLES
  program,   \* the steps of the function
  call,      \* how it is called
  file,      \* the journal on stable storage
  cache,     \* lines appended to it since
  mode,      \* where the process is
  pos,       \* the step control is at
  left,      \* generations the running step has still to do
  entries,   \* Journal.entries
  replayed,  \* Journal._replayed
  spent,     \* Budget.spent of the frame the durable function runs in
  inner,     \* Budget.spent of the frame of the helper that contains the step
  starts, crashes,
  \* history variables
  complete,  \* "marked": the function has returned and no execution has begun
             \* since; "lost": a loss of power has taken its end mark back
  finished,  \* the safe steps of the run that is complete
  acked,     \* steps recorded since the function last completed
  safe,      \* those of them recorded behind readable lines only
  kept,      \* money the safe steps were charged
  ended,     \* steps whose body has ended, ever
  live       \* money this process charged in the function and did not record

given   == <<program, call>>
process == <<mode, pos, left, entries, replayed>>
money   == <<spent, inner, live>>
history == <<complete, finished, acked, safe, kept, ended>>
disk    == <<file, cache>>
vars == <<given, disk, process, money, history, starts, crashes>>

-----------------------------------------------------------------------------
Here == program[pos]

\* What the file holds for whoever opens it while the machine is up.
Visible == PutAll(file, cache)

\* Every line that is there can be read, and another one can be appended to it.
Intact(f) == ~f.cut /\ \A k \in DOMAIN f.lines : f.lines[k].op # "bad"

Init ==
  /\ program \in Programs
  /\ call \in Calls
  /\ file = EmptyFile
  /\ cache = << >>
  /\ mode = "down"
  /\ pos = 1
  /\ left = 0
  /\ entries = [l \in Label |-> NoStep]
  /\ replayed = {}
  /\ spent = 0 /\ inner = 0 /\ live = 0
  /\ starts = 0 /\ crashes = 0
  /\ complete = "no" /\ finished = {} /\ acked = {} /\ safe = {} /\ kept = 0 /\ ended = {}

\* The program starts.  A caller has spent p before it calls the durable function;
\* that one opens the journal and, if it finds entries, takes their spend over.
Begin(p) ==
  /\ mode = "down"
  /\ starts < MaxStarts
  /\ p = 0 \/ call = "shared"
  /\ starts' = starts + 1
  /\ mode' = "steps"
  /\ pos' = 1
  /\ replayed' = {}
  /\ entries' = Entries(Visible)
  /\ spent' = IF entries' # [l \in Label |-> NoStep] THEN SpentIn(Visible)
              ELSE p
  /\ live' = 0
  /\ inner' = 0
  /\ complete' = "no" /\ finished' = {}
  /\ UNCHANGED <<given, disk, left, acked, safe, kept, ended, crashes>>

AtStep == mode = "steps" /\ pos <= Len(program)

\* A recorded step: its value is returned, its body is not executed.
Replay ==
  /\ AtStep
  /\ entries[Here.label] # NoStep
  /\ Here.label \notin replayed
  /\ replayed' = replayed \cup {Here.label}
  /\ pos' = pos + 1
  /\ UNCHANGED <<given, disk, mode, left, entries, money, history, starts, crashes>>

\* The process ends by an exception; the journal stays as it is.
Die ==
  /\ mode' = "down"
  /\ live' = 0
  /\ UNCHANGED <<given, disk, pos, left, entries, replayed, spent, inner,
                 history, starts, crashes>>

\* "step ran twice in one execution"
ReplayTwice ==
  /\ AtStep
  /\ entries[Here.label] # NoStep
  /\ Here.label \in replayed
  /\ Die

Execute ==
  /\ AtStep
  /\ entries[Here.label] = NoStep
  /\ mode' = "body"
  /\ left' = Here.gens
  /\ inner' = 0
  /\ UNCHANGED <<given, disk, pos, entries, replayed, spent, live,
                 history, starts, crashes>>

\* A generation is charged to every frame from the step's to the function's and above.
Spend(p) ==
  /\ mode = "body"
  /\ left > 0
  /\ Limit # NoLimit => spent + p <= Limit
  /\ left' = left - 1
  /\ spent' = spent + p
  /\ inner' = inner + p
  /\ live' = live + p
  /\ UNCHANGED <<given, disk, mode, pos, entries, replayed, history, starts,
                 crashes>>

\* The step's body raises: BudgetExceeded, a generation that failed, any error.
Raise ==
  /\ mode = "body"
  /\ Die

\* What is recorded with a step: c.budget.spent of the function it is written in, or
\* the total of the machine.
Billed == IF Here.own /\ call # "host" THEN inner ELSE spent

\* Journal.record
Record ==
  /\ mode = "body"
  /\ left = 0
  /\ cache' = Append(cache, StepLine(Here.label, pos, Billed))
  /\ mode' = "recording"
  /\ ended' = ended \cup {pos}
  /\ UNCHANGED <<given, file, pos, left, entries, replayed, money, complete, finished,
                 acked, safe, kept, starts, crashes>>

\* A step that returned makes the function return.  In HBX its body is a function of its
\* own, and only that one returns.
Leaves == Here.returns /\ call # "host"

\* What becomes of the step and of its money in the histories.
SafelyRecorded ==
  /\ acked' = acked \cup {pos}
  /\ safe' = IF Intact(Visible) THEN safe \cup {pos} ELSE safe
  /\ kept' = IF Intact(Visible) THEN kept + live ELSE kept
  /\ live' = 0

\* Mutant: flush without fsync.
SyncFlushOnly ==
  /\ mode = "recording"
  /\ entries' = [entries EXCEPT ![Here.label] = Last(cache)]
  /\ mode' = IF Leaves THEN "returned" ELSE "steps"
  /\ pos' = pos + 1
  /\ SafelyRecorded
  /\ UNCHANGED <<given, disk, left, replayed, spent, inner, complete, finished,
                 ended, starts, crashes>>

\* Mutant: what was recorded is not among the entries until the next start.
SyncUnentered ==
  /\ mode = "recording"
  /\ file' = Visible
  /\ cache' = << >>
  /\ mode' = IF Leaves THEN "returned" ELSE "steps"
  /\ pos' = pos + 1
  /\ SafelyRecorded
  /\ UNCHANGED <<given, left, entries, replayed, spent, inner, complete, finished,
                 ended, starts, crashes>>

\* fsync returns.
Sync ==
  /\ mode = "recording"
  /\ file' = Visible
  /\ cache' = << >>
  /\ entries' = [entries EXCEPT ![Here.label] = Last(cache)]
  /\ mode' = IF Leaves THEN "returned" ELSE "steps"
  /\ pos' = pos + 1
  /\ SafelyRecorded
  /\ UNCHANGED <<given, left, replayed, spent, inner, complete, finished,
                 ended, starts, crashes>>

\* Journal.finish: the end mark is written and not synced, whatever the file holds.
Finish ==
  /\ mode = "returned" \/ (mode = "steps" /\ pos > Len(program))
  /\ cache' = Append(cache, Done)
  /\ mode' = "down"
  /\ complete' = "marked" /\ finished' = safe
  /\ acked' = {} /\ safe' = {}
  /\ kept' = 0 /\ live' = 0
  /\ UNCHANGED <<given, file, pos, left, entries, replayed, spent, inner, ended,
                 starts, crashes>>

-----------------------------------------------------------------------------
\* What a crash leaves of the appends that were not synced: the first k of them, and
\* perhaps a part of the next.
Remains(k) ==
  LET whole == PutAll(file, SubSeq(cache, 1, k))
  IN  {whole} \cup IF Tear /\ k < Len(cache) THEN Cut(whole, cache[k + 1]) ELSE {}

\* A process that is killed loses at most the append it is in.
Survives(k) ==
  \/ Power
  \/ k = Len(cache)
  \/ mode = "recording" /\ k = Len(cache) - 1

Crash(k) ==
  /\ crashes < MaxCrashes
  /\ mode # "down" \/ cache # << >>
  /\ crashes' = crashes + 1
  /\ k \in 0..Len(cache)
  /\ Survives(k)
  /\ file' \in Remains(k)
  /\ cache' = << >>
  /\ mode' = "down"
  /\ complete' = IF complete = "marked" /\ k < Len(cache) THEN "lost" ELSE complete
  /\ live' = 0
  /\ UNCHANGED <<given, pos, left, entries, replayed, spent, inner, finished,
                 acked, safe, kept, ended, starts>>

Run ==
  \/ Replay \/ ReplayTwice \/ Execute \/ Record \/ Sync \/ Finish \/ Raise
  \/ \E p \in Price : Spend(p)

Finished == mode = "down" /\ starts = MaxStarts /\ UNCHANGED vars

Next ==
  \/ \E p \in Price \cup {0} : Begin(p)
  \/ Run
  \/ \E k \in 0..Len(cache) : Crash(k)
  \/ Finished

Spec == Init /\ [][Next]_vars

-----------------------------------------------------------------------------
\* Types of the variables of this module.
Line == {Done, Unreadable}
          \cup [op : {"step"}, label : Label, at : DOMAIN program, spent : Nat]

TypeOK ==
  /\ program \in Programs /\ call \in Calls
  /\ file.lines \in Seq(Line) /\ file.cut \in BOOLEAN
  /\ cache \in Seq(Line)
  /\ mode \in {"down", "steps", "body", "recording", "returned"}
  /\ pos \in 1..(Len(program) + 1)
  /\ left \in Nat
  /\ entries \in [Label -> Line \cup {NoStep}]
  /\ replayed \subseteq Label
  /\ spent \in Nat /\ inner \in Nat
  /\ live \in Nat /\ kept \in Nat
  /\ starts \in 0..MaxStarts /\ crashes \in 0..MaxCrashes
  /\ complete \in {"no", "marked", "lost"} /\ finished \subseteq DOMAIN program
  /\ safe \subseteq acked /\ acked \subseteq DOMAIN program
  /\ ended \subseteq DOMAIN program

\* Whatever crashes left of the file, opening it restores the steps after the last
\* end mark and before the first unreadable line, which is what the loop of
\* Journal.open computes line by line.
OpenReadsLiveSteps ==
  /\ Entries(Visible) = Loop(Visible).entries
  /\ SpentIn(Visible) = Loop(Visible).spent

\* A step whose record reached stable storage behind readable lines is not executed
\* again before the function completes, through any number of crashes, power losses
\* and torn appends.
StepsRunOnce == [][Execute => pos \notin safe]_vars

\* docs/LIMITATIONS.md 2.2: "completed steps replay from the journal without
\* executing" and "a torn final line from a crash mid-write is tolerated": no
\* recorded step is executed again, whatever the file looked like.
RecordedStepsRunOnce == [][Execute => pos \notin acked]_vars

\* docs/LIMITATIONS.md 2.2: "A completed run is marked done, so a rerun starts fresh
\* rather than resuming".  That is so while the file can be read and no loss of power has
\* taken the end mark back, which is not synced.  Otherwise, behind a torn line that a
\* kill has left, or without its mark, the completed run is resumed after all: then with
\* each of its safe steps and never with a part of them.
FreshAfterDone ==
  [][\A p \in Price \cup {0} :
       Begin(p) /\ complete # "no" =>
         \/ entries' = [l \in Label |-> NoStep]
         \/ /\ complete = "lost" \/ ~Intact(Visible)
            /\ \A i \in finished : entries'[program[i].label] # NoStep]_vars

\* What an execution knows under a label was computed by the first step of that label,
\* also where a label is used again and the later step has replayed it, in this
\* execution or in any earlier one: it is never the result of another step, and the
\* same one in every execution.
OwnRecord ==
  \A l \in Label :
    entries[l] # NoStep =>
      /\ program[entries[l].at].label = l
      /\ \A i \in DOMAIN program : program[i].label = l => entries[l].at <= i

\* The frame of a durable function accounts for the money of every safely recorded
\* step and for all it has been charged itself: journal.py, "Budget spend is
\* restored, so a resumed run cannot silently spend twice".  Steps in a helper that
\* has a frame of its own are recorded with that frame's spend and are excepted, unless
\* the host records its total.
MoneyIsCounted ==
  mode # "down" /\ (call = "host" \/ \A i \in DOMAIN program : ~program[i].own) =>
    spent >= kept + live

-----------------------------------------------------------------------------
\* The steps whose records count in a file, by their places in the function.
Places(f) == {f.lines[k].at : k \in Live(f)}

\* The file without a last line that the next append would make unreadable.
Uncut(f) == IF f.cut THEN [lines |-> Front(f.lines), cut |-> FALSE] ELSE f

\* What is appended to the file, but for the record that is being written.
Marks == IF mode = "recording" THEN Front(cache) ELSE cache
Settled == PutAll(file, Marks)

Names == [i \in DOMAIN program |-> program[i].label]
Known == {i \in DOMAIN program : entries[program[i].label] # NoStep}
Seen == Places(Settled)
Saved == Places(Uncut(file))

\* What the file, its lines and its end marks come to is the promise of Checkpoint:
\* every step of the code is a step of that specification, or changes none of it.
C == INSTANCE Checkpoint
     WITH names <- Names, at <- pos, known <- Known, seen <- Seen, saved <- Saved,
          unsynced <- (cache # << >>), damaged <- ~Intact(file), done <- ended
CheckpointSpec == C!Spec
=============================================================================
