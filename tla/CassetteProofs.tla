-------------------------- MODULE CassetteProofs ----------------------------
(***************************************************************************)
(* Proofs about Cassette, for any program of iterations, any retries and   *)
(* limits, and any number of runs.  A tape fixes, for every text it can    *)
(* answer, which model answers and with what (Answers); the invariant says *)
(* that what a run got is what its tape fixes, and that a tape under which *)
(* a completed run is repeated changes no more.                            *)
(***************************************************************************)
EXTENDS Cassette, SequenceTheorems, TLAPS

Types ==
  /\ mode \in {"down", "running", "saving", "writing", "exiting"}
  /\ run \in 0..MaxRuns /\ (mode # "down" => run # 0)
  /\ tape \in [Key -> 0..MaxRuns]
  /\ recorded \in [Key -> 0..MaxRuns]
  /\ file \in [Key -> 0..MaxRuns] \cup {Torn}
  /\ overloaded \subseteq {Primary}
  /\ at \in [Worker -> {"new", "ready", "asking", "done", "failed"}]
  /\ pos \in [Worker -> Nat]
  /\ model \in [Worker -> {Primary, Fallback}]
  /\ got \in [Worker -> Seq(Key \X (1..MaxRuns))]

\* An iteration is at one of its generations until it is done.
Placed ==
  \A w \in Worker :
    /\ at[w] \in {"new", "ready", "asking"} => pos[w] \in 1..Len(Work[w])
    /\ at[w] = "done" => pos[w] = Len(Work[w]) + 1
    /\ at[w] # "failed" => Len(got[w]) = pos[w] - 1
    /\ at[w] = "failed" => Len(got[w]) <= Len(Work[w])

\* The file while it is rewritten.
Saved ==
  /\ mode = "writing" => file = Torn
  /\ mode = "exiting" => file = recorded
  /\ mode \in {"saving", "writing", "exiting"} =>
       (\A w \in Worker : at[w] = "done") \/ (\E w \in Worker : at[w] = "failed")
  /\ mode \in {"writing", "exiting"} /\ (\A w \in Worker : at[w] = "done") => recorded = tape

\* What was answered when a run ended stays on the file, the tape and the copy that is
\* written, until the file is lost.
KeptStays ==
  /\ kept \subseteq Key
  /\ file # Torn => \A k \in kept : file[k] # 0
  /\ mode # "down" => \A k \in kept : tape[k] # 0
  /\ mode \in {"writing", "exiting"} => \A k \in kept : recorded[k] # 0

\* A request that is out was on the tape neither when the run began nor, since, from
\* anybody else than this run; only a model that is not overloaded puts it there.
AskedIsNew ==
  mode # "down" =>
    \A w \in Worker : at[w] = "asking" =>
      /\ Asked(w) \notin kept
      /\ tape[Asked(w)] = 0 \/ (tape[Asked(w)] = run /\ model[w] \notin overloaded)

\* The fallback is asked when the primary model is overloaded and has no recording.
FallbackIsNeeded ==
  mode # "down" =>
    \A w \in Worker : at[w] \in {"new", "ready", "asking"} /\ model[w] # Primary =>
      Primary \in overloaded /\ tape[<<Primary, Text(w)>>] = 0

\* The answer that tape f fixes for text t, and whether it fixes one for models o.
Chosen(f, t) == IF f[<<Primary, t>>] # 0 THEN <<Primary, t>> ELSE <<Fallback, t>>
Fixed(f, o, t) == f[Chosen(f, t)] # 0 /\ (f[<<Primary, t>>] = 0 => Primary \in o)
Answers(f, o, t, a) == Fixed(f, o, t) /\ a = <<Chosen(f, t), f[Chosen(f, t)]>>

\* Results g are those that tape f fixes for the whole program.
Replays(f, o, g) ==
  \A w \in Worker :
    /\ Len(g[w]) = Len(Work[w])
    /\ \A i \in 1..Len(Work[w]) : Answers(f, o, Work[w][i], g[w][i])

\* What a run got so far is what its tape fixes.
GotIsFixed ==
  mode # "down" =>
    \A w \in Worker : \A i \in 1..Len(got[w]) : Answers(tape, overloaded, Work[w][i], got[w][i])

\* What a completed run got is fixed by the file it left, and by the tape of every
\* later run with the same models overloaded.
ShownIsFixed ==
  shown # Nothing =>
    /\ shown.got \in [Worker -> Seq(Key \X (1..MaxRuns))]
    /\ file # Torn /\ mode \in {"down", "running", "saving"} => Replays(file, shown.flags, shown.got)
    /\ mode # "down" /\ shown.flags = overloaded => Replays(tape, shown.flags, shown.got)
    /\ mode \in {"writing", "exiting"} /\ shown.flags = overloaded =>
         Replays(recorded, shown.flags, shown.got)

IInv ==
  /\ Types
  /\ Placed
  /\ Saved
  /\ KeptStays
  /\ AskedIsNew
  /\ FallbackIsNeeded
  /\ GotIsFixed
  /\ ShownIsFixed
-----------------------------------------------------------------------------
\* Every iteration has something to ask.
LEMMA WorkLengths == \A w \in Worker : Len(Work[w]) \in Nat /\ Len(Work[w]) > 0
<1> SUFFICES ASSUME NEW w \in Worker PROVE Len(Work[w]) \in Nat /\ Len(Work[w]) > 0
  OBVIOUS
<1>1. Work[w] \in Seq(Input) \ {<< >>}
  BY CassetteAssumption
<1> QED BY <1>1, LenProperties, EmptySeq

\* Iteration w asks a text of the program.
LEMMA AskedIsKey ==
  ASSUME Types, Placed, NEW w \in Worker, at[w] \in {"new", "ready", "asking"}
  PROVE  Text(w) \in Input /\ Asked(w) \in Key /\ <<Primary, Text(w)>> \in Key /\ pos[w] \in 1..Len(Work[w])
<1>1. Work[w] \in Seq(Input) /\ pos[w] \in 1..Len(Work[w])
  BY CassetteAssumption DEF Placed
<1>2. Text(w) \in Input
  BY <1>1, ElementOfSeq DEF Text
<1>3. model[w] \in Model /\ Primary \in Model
  BY CassetteAssumption DEF Types
<1> QED BY <1>1, <1>2, <1>3 DEF Asked, Key

\* What a step of iteration w may do to it: it begins, asks, gets an answer, or loses
\* an attempt.
OwnMove(w) ==
  \/ /\ at[w] = "new" /\ at'[w] = "ready"
     /\ pos'[w] = pos[w] /\ model'[w] = model[w] /\ got'[w] = got[w] /\ tape' = tape
  \/ /\ at[w] = "ready" /\ at'[w] = "asking" /\ tape[Asked(w)] = 0
     /\ pos'[w] = pos[w] /\ model'[w] = model[w] /\ got'[w] = got[w] /\ tape' = tape
  \/ /\ at[w] \in {"ready", "asking"}
     /\ at'[w] = IF pos[w] = Len(Work[w]) THEN "done" ELSE "ready"
     /\ pos'[w] = pos[w] + 1 /\ model'[w] = Primary
     /\ tape'[Asked(w)] # 0
     /\ got'[w] = Append(got[w], <<Asked(w), tape'[Asked(w)]>>)
  \/ /\ at[w] = "asking" /\ at'[w] \in {"ready", "failed"}
     /\ pos'[w] = pos[w] /\ got'[w] = got[w]
     /\ model'[w] = model[w] \/ (model[w] \in overloaded /\ model'[w] = Fallback)
     /\ at'[w] = "ready" => tape' = tape

\* What it may do to the tape.
TapeMove(w) ==
  \/ tape' = tape
  \/ /\ at[w] = "asking" /\ model[w] \notin overloaded
     /\ tape' = [tape EXCEPT ![Asked(w)] = run]

\* What it leaves alone.
Local(w) ==
  /\ mode # "down"
  /\ UNCHANGED <<file, mode, run, overloaded, recorded, kept, shown>>
  /\ at' = [at EXCEPT ![w] = at'[w]] /\ pos' = [pos EXCEPT ![w] = pos'[w]]
  /\ model' = [model EXCEPT ![w] = model'[w]] /\ got' = [got EXCEPT ![w] = got'[w]]

LEMMA GenerateMoves ==
  ASSUME IInv, NEW w \in Worker, Generate(w)
  PROVE  OwnMove(w) /\ TapeMove(w) /\ Local(w)
<1>0. Types /\ Placed
  BY DEF IInv
<1> USE DEF Alive, flags, past, Set
<1>1. CASE Begin(w)
  <2>1. OwnMove(w) /\ TapeMove(w)
    BY <1>0, <1>1 DEF Begin, Types, OwnMove, TapeMove
  <2>2. Local(w)
    BY <1>0, <1>1 DEF Begin, Types, Local
  <2> QED BY <2>1, <2>2
<1>2. CASE Miss(w)
  <2>1. OwnMove(w) /\ TapeMove(w)
    BY <1>0, <1>2 DEF Miss, Types, OwnMove, TapeMove
  <2>2. Local(w)
    BY <1>0, <1>2 DEF Miss, Types, Local
  <2> QED BY <2>1, <2>2
<1>3. CASE Hit(w)
  <2>1. OwnMove(w) /\ TapeMove(w)
    BY <1>0, <1>3 DEF Hit, Proceed, Types, OwnMove, TapeMove
  <2>2. Local(w)
    BY <1>0, <1>3 DEF Hit, Proceed, Types, Local
  <2> QED BY <2>1, <2>2
<1>4. CASE Transient(w)
  <2>1. OwnMove(w) /\ TapeMove(w)
    BY <1>0, <1>4 DEF Transient, Again, Types, OwnMove, TapeMove
  <2>2. Local(w)
    BY <1>0, <1>4 DEF Transient, Again, Types, Local
  <2> QED BY <2>1, <2>2
<1>5. CASE Partial(w)
  <2>1. OwnMove(w) /\ TapeMove(w)
    BY <1>0, <1>5 DEF Partial, Again, Fails, Types, OwnMove, TapeMove
  <2>2. Local(w)
    BY <1>0, <1>5 DEF Partial, Again, Fails, Types, Local
  <2> QED BY <2>1, <2>2
<1>6. CASE Answer(w)
  <2>1. tape'[Asked(w)] = run /\ run # 0
    BY <1>0, <1>6, AskedIsKey DEF Answer, Types
  <2>2. OwnMove(w) /\ TapeMove(w)
    BY <1>0, <1>6, <2>1 DEF Answer, Proceed, Fails, Types, OwnMove, TapeMove
  <2>3. Local(w)
    BY <1>0, <1>6 DEF Answer, Proceed, Fails, Types, Local
  <2> QED BY <2>2, <2>3
<1> QED BY <1>1, <1>2, <1>3, <1>4, <1>5, <1>6 DEF Generate

\* The other iterations stay where they are.
LEMMA OthersStay ==
  ASSUME Types, NEW w \in Worker, Local(w), NEW v \in Worker, v # w
  PROVE  /\ at'[v] = at[v] /\ pos'[v] = pos[v] /\ model'[v] = model[v] /\ got'[v] = got[v]
         /\ Text(v)' = Text(v) /\ Asked(v)' = Asked(v)
<1>1. at'[v] = at[v] /\ pos'[v] = pos[v] /\ model'[v] = model[v] /\ got'[v] = got[v]
  BY DEF Types, Local
<1> QED BY <1>1 DEF Text, Asked

\* An answer goes to a key that was free or had this run's own answer: every value of
\* the tape stays, and no model that is overloaded gets one.
LEMMA TapeStays ==
  ASSUME IInv, NEW w \in Worker, TapeMove(w), mode # "down"
  PROVE  /\ tape' \in [Key -> 0..MaxRuns]
         /\ \A k \in Key : tape[k] # 0 => tape'[k] = tape[k]
         /\ \A k \in Key : tape'[k] # tape[k] => k = Asked(w) /\ tape'[k] = run /\ model[w] \notin overloaded
<1>1. Types /\ Placed /\ AskedIsNew
  BY DEF IInv
<1>2. CASE tape' = tape
  BY <1>1, <1>2 DEF Types
<1>3. CASE at[w] = "asking" /\ model[w] \notin overloaded /\ tape' = [tape EXCEPT ![Asked(w)] = run]
  <2>1. Asked(w) \in Key /\ tape[Asked(w)] \in {0, run}
    BY <1>1, <1>3, AskedIsKey DEF AskedIsNew
  <2> QED BY <1>1, <1>3, <2>1 DEF Types
<1> QED BY <1>2, <1>3 DEF TapeMove

\* So what a tape fixes, it fixes for the rest of the run.
LEMMA AnswersStay ==
  ASSUME IInv, NEW w \in Worker, TapeMove(w), Local(w), NEW t \in Input, NEW a,
         Answers(tape, overloaded, t, a)
  PROVE  Answers(tape', overloaded', t, a)
<1> DEFINE p == <<Primary, t>>
           q == <<Fallback, t>>
<1>1. p \in Key /\ q \in Key
  BY CassetteAssumption DEF Key
<1>2. /\ \A k \in Key : tape[k] # 0 => tape'[k] = tape[k]
      /\ \A k \in Key : tape'[k] # tape[k] => k = Asked(w) /\ tape'[k] = run /\ model[w] \notin overloaded
  BY TapeStays DEF Local
<1>3. overloaded' = overloaded
  BY DEF Local
<1>4. CASE tape[p] # 0
  BY <1>1, <1>2, <1>3, <1>4 DEF Answers, Fixed, Chosen
<1>5. CASE tape[p] = 0
  <2>1. Primary \in overloaded /\ tape[q] # 0 /\ a = <<q, tape[q]>>
    BY <1>5 DEF Answers, Fixed, Chosen
  <2>2. tape'[p] = 0
    <3>1. p = Asked(w) => model[w] = Primary
      BY DEF Asked
    <3> QED BY <1>1, <1>2, <1>5, <2>1, <3>1
  <2> QED BY <1>1, <1>2, <1>3, <2>1, <2>2 DEF Answers, Fixed, Chosen
<1> QED BY <1>4, <1>5

LEMMA ReplaysStay ==
  ASSUME IInv, NEW w \in Worker, TapeMove(w), Local(w), NEW g, Replays(tape, overloaded, g)
  PROVE  Replays(tape', overloaded', g)
<1>1. ASSUME NEW v \in Worker, NEW i \in 1..Len(Work[v])
      PROVE  Answers(tape', overloaded', Work[v][i], g[v][i])
  <2>1. Work[v] \in Seq(Input)
    BY CassetteAssumption
  <2>2. Work[v][i] \in Input
    BY <2>1, ElementOfSeq
  <2>3. Answers(tape, overloaded, Work[v][i], g[v][i])
    BY DEF Replays
  <2> QED BY <2>2, <2>3, AnswersStay
<1> QED BY <1>1 DEF Replays
-----------------------------------------------------------------------------
\* A step of an iteration keeps the types and where iterations are.
LEMMA GenerateTypes ==
  ASSUME IInv, NEW w \in Worker, Generate(w)
  PROVE  Types' /\ Placed'
<1>0. Types /\ Placed /\ OwnMove(w) /\ TapeMove(w) /\ Local(w)
  BY GenerateMoves DEF IInv
<1>1. tape' \in [Key -> 0..MaxRuns]
  BY <1>0, TapeStays DEF Local
<1>2. Len(Work[w]) \in Nat /\ Len(Work[w]) > 0
  BY WorkLengths
<1>3. /\ at[w] \in {"new", "ready", "asking"} /\ pos[w] \in 1..Len(Work[w]) /\ Asked(w) \in Key
      /\ got[w] \in Seq(Key \X (1..MaxRuns)) /\ Len(got[w]) = pos[w] - 1
  BY <1>0, AskedIsKey DEF OwnMove, Types, Placed
<1>4. /\ at'[w] \in {"new", "ready", "asking", "done", "failed"} /\ pos'[w] \in Nat
      /\ model'[w] \in {Primary, Fallback}
      /\ at'[w] \in {"new", "ready", "asking"} => pos'[w] \in 1..Len(Work[w])
      /\ at'[w] = "done" => pos'[w] = Len(Work[w]) + 1
  <2>1. /\ at'[w] \in {"new", "ready", "asking", "done", "failed"}
        /\ model[w] \in {Primary, Fallback} /\ model'[w] \in {model[w], Primary, Fallback}
    BY <1>0 DEF OwnMove, Types
  <2>2. CASE pos'[w] = pos[w] /\ at'[w] # "done"
    BY <1>2, <1>3, <2>1, <2>2
  <2>3. CASE pos'[w] = pos[w] + 1 /\ at'[w] = IF pos[w] = Len(Work[w]) THEN "done" ELSE "ready"
    BY <1>2, <1>3, <2>1, <2>3
  <2> QED BY <1>0, <2>2, <2>3 DEF OwnMove
<1>5. got'[w] \in Seq(Key \X (1..MaxRuns)) /\ Len(got'[w]) = pos'[w] - 1
  <2>1. CASE got'[w] = got[w] /\ pos'[w] = pos[w]
    BY <1>3, <2>1
  <2>2. CASE /\ tape'[Asked(w)] # 0 /\ pos'[w] = pos[w] + 1
             /\ got'[w] = Append(got[w], <<Asked(w), tape'[Asked(w)]>>)
    <3>1. tape'[Asked(w)] \in 0..MaxRuns /\ MaxRuns \in Nat
      BY <1>1, <1>3, CassetteAssumption
    <3>2. <<Asked(w), tape'[Asked(w)]>> \in Key \X (1..MaxRuns)
      BY <1>3, <2>2, <3>1
    <3>3. PICK x \in Key \X (1..MaxRuns) : x = <<Asked(w), tape'[Asked(w)]>>
      BY <3>2
    <3>4. got'[w] \in Seq(Key \X (1..MaxRuns)) /\ Len(got'[w]) = Len(got[w]) + 1
      BY <1>3, <2>2, <3>3, AppendProperties
    <3> QED BY <1>3, <2>2, <3>4
  <2> QED BY <1>0, <2>1, <2>2 DEF OwnMove
<1>6. at'[w] = "failed" => Len(got'[w]) <= Len(Work[w])
  <2>1. at'[w] = "failed" => pos'[w] = pos[w]
    BY <1>0 DEF OwnMove
  <2> QED BY <1>2, <1>3, <1>5, <2>1
<1>7. Types'
  BY <1>0, <1>1, <1>4, <1>5 DEF Types, Local
<1>8. Placed'
  <2> SUFFICES ASSUME NEW v \in Worker
               PROVE  /\ at'[v] \in {"new", "ready", "asking"} => pos'[v] \in 1..Len(Work[v])
                      /\ at'[v] = "done" => pos'[v] = Len(Work[v]) + 1
                      /\ at'[v] # "failed" => Len(got'[v]) = pos'[v] - 1
                      /\ at'[v] = "failed" => Len(got'[v]) <= Len(Work[v])
    BY DEF Placed
  <2>1. CASE v = w
    BY <1>4, <1>5, <1>6, <2>1
  <2>2. CASE v # w
    BY <1>0, <2>2, OthersStay DEF Placed
  <2> QED BY <2>1, <2>2
<1> QED BY <1>7, <1>8

\* It leaves the file and what is to be written alone, and what was kept on the tape.
LEMMA GenerateKept ==
  ASSUME IInv, NEW w \in Worker, Generate(w)
  PROVE  Saved' /\ KeptStays'
<1>0. Types /\ Saved /\ KeptStays /\ OwnMove(w) /\ TapeMove(w) /\ Local(w)
  BY GenerateMoves DEF IInv
<1>1. \A v \in Worker : at[v] = "failed" => at'[v] = "failed"
  BY <1>0, OthersStay DEF OwnMove
<1>2. ~\A v \in Worker : at[v] = "done"
  BY <1>0 DEF OwnMove
<1>3. Saved'
  <2>1. mode \in {"saving", "writing", "exiting"} => \E v \in Worker : at'[v] = "failed"
    BY <1>0, <1>1, <1>2 DEF Saved
  <2>2. mode \in {"saving", "writing", "exiting"} => ~\A v \in Worker : at'[v] = "done"
    BY <2>1
  <2> QED BY <1>0, <2>1, <2>2 DEF Saved, Local
<1>4. KeptStays'
  <2>1. \A k \in Key : tape[k] # 0 => tape'[k] = tape[k]
    BY <1>0, TapeStays DEF Local
  <2> QED BY <1>0, <2>1 DEF KeptStays, Local
<1> QED BY <1>3, <1>4

LEMMA GenerateAsked ==
  ASSUME IInv, NEW w \in Worker, Generate(w)
  PROVE  AskedIsNew' /\ FallbackIsNeeded'
<1>0. /\ Types /\ Placed /\ KeptStays /\ AskedIsNew /\ FallbackIsNeeded
      /\ OwnMove(w) /\ TapeMove(w) /\ Local(w)
  BY GenerateMoves DEF IInv
<1>1. /\ \A k \in Key : tape[k] # 0 => tape'[k] = tape[k]
      /\ \A k \in Key : tape'[k] # tape[k] => k = Asked(w) /\ tape'[k] = run /\ model[w] \notin overloaded
  BY <1>0, TapeStays DEF Local
<1>2. mode # "down" /\ mode' = mode /\ kept' = kept /\ run' = run /\ overloaded' = overloaded
  BY <1>0 DEF Local
<1>3. ASSUME NEW v \in Worker, at'[v] = "asking"
      PROVE  /\ Asked(v)' \notin kept
             /\ tape'[Asked(v)'] = 0 \/ (tape'[Asked(v)'] = run /\ model'[v] \notin overloaded)
  <2>1. CASE v = w
    <3>1. at[w] = "ready" /\ tape[Asked(w)] = 0 /\ tape' = tape /\ pos'[w] = pos[w] /\ model'[w] = model[w]
      BY <1>0, <1>3, <2>1 DEF OwnMove
    <3>2. Asked(w)' = Asked(w) /\ Asked(w) \in Key
      BY <1>0, <3>1, AskedIsKey DEF Asked, Text
    <3> QED BY <1>0, <1>2, <2>1, <3>1, <3>2 DEF KeptStays
  <2>2. CASE v # w
    <3>1. at[v] = "asking" /\ Asked(v)' = Asked(v) /\ model'[v] = model[v]
      BY <1>0, <1>3, <2>2, OthersStay
    <3>2. Asked(v) \in Key
      BY <1>0, <3>1, AskedIsKey
    <3>3. Asked(v) = Asked(w) => model[v] = model[w]
      BY DEF Asked
    <3>4. Asked(v) \notin kept /\ (tape[Asked(v)] = 0 \/ (tape[Asked(v)] = run /\ model[v] \notin overloaded))
      BY <1>0, <1>2, <3>1 DEF AskedIsNew
    <3> QED BY <1>1, <3>1, <3>2, <3>3, <3>4
  <2> QED BY <2>1, <2>2
<1>4. ASSUME NEW v \in Worker, at'[v] \in {"new", "ready", "asking"}, model'[v] # Primary
      PROVE  Primary \in overloaded /\ tape'[<<Primary, Text(v)'>>] = 0
  <2>1. at[v] \in {"new", "ready", "asking"} /\ Text(v)' = Text(v) /\ Primary \in overloaded
        /\ tape[<<Primary, Text(v)>>] = 0
    <3>1. CASE v = w
      <4>1. at[w] \in {"new", "ready", "asking"} /\ pos'[w] = pos[w]
            /\ (model'[w] = model[w] \/ (at[w] = "asking" /\ model[w] \in overloaded))
        BY <1>0, <1>4, <3>1 DEF OwnMove
      <4>2. Text(w)' = Text(w)
        BY <4>1 DEF Text
      <4>3. CASE model'[w] = model[w]
        BY <1>0, <1>2, <1>4, <3>1, <4>1, <4>2, <4>3 DEF FallbackIsNeeded
      <4>4. CASE at[w] = "asking" /\ model[w] \in overloaded
        <5>1. model[w] = Primary
          BY <1>0, <4>4 DEF Types
        <5>2. tape[Asked(w)] = 0
          BY <1>0, <1>2, <4>4 DEF AskedIsNew
        <5> QED BY <3>1, <4>1, <4>2, <4>4, <5>1, <5>2 DEF Asked
      <4> QED BY <4>1, <4>3, <4>4
    <3>2. CASE v # w
      BY <1>0, <1>2, <1>4, <3>2, OthersStay DEF FallbackIsNeeded
    <3> QED BY <3>1, <3>2
  <2>2. <<Primary, Text(v)>> \in Key
    BY <1>0, <2>1, AskedIsKey
  <2>3. <<Primary, Text(v)>> = Asked(w) => model[w] = Primary
    BY DEF Asked
  <2> QED BY <1>1, <2>1, <2>2, <2>3
<1>5. AskedIsNew'
  BY <1>2, <1>3 DEF AskedIsNew
<1>6. FallbackIsNeeded'
  BY <1>2, <1>4 DEF FallbackIsNeeded
<1> QED BY <1>5, <1>6

\* What an iteration gets is what the tape fixes, then and for the rest of the run.
LEMMA GenerateGot ==
  ASSUME IInv, NEW w \in Worker, Generate(w)
  PROVE  GotIsFixed' /\ ShownIsFixed'
<1>0. /\ Types /\ Placed /\ FallbackIsNeeded /\ GotIsFixed /\ ShownIsFixed
      /\ OwnMove(w) /\ TapeMove(w) /\ Local(w)
  BY GenerateMoves DEF IInv
<1>2. mode # "down" /\ UNCHANGED <<file, mode, run, overloaded, recorded, kept, shown>>
  BY <1>0 DEF Local
<1>3. ASSUME NEW v \in Worker, NEW i \in 1..Len(got[v])
      PROVE  Answers(tape', overloaded', Work[v][i], got[v][i])
  <2>1. Work[v] \in Seq(Input) /\ got[v] \in Seq(Key \X (1..MaxRuns))
    BY <1>0, CassetteAssumption DEF Types
  <2>2. i \in 1..Len(Work[v])
    <3>1. Len(Work[v]) \in Nat /\ Len(got[v]) \in Nat
      BY <2>1, LenProperties
    <3>2. Len(got[v]) <= Len(Work[v])
      <4>1. at[v] \in {"new", "ready", "asking", "done", "failed"} /\ pos[v] \in Nat
        BY <1>0 DEF Types
      <4>2. CASE at[v] \in {"new", "ready", "asking"}
        BY <1>0, <3>1, <4>1, <4>2 DEF Placed
      <4>3. CASE at[v] \in {"done", "failed"}
        BY <1>0, <3>1, <4>1, <4>3 DEF Placed
      <4> QED BY <4>1, <4>2, <4>3
    <3> QED BY <3>1, <3>2
  <2>3. Work[v][i] \in Input
    BY <2>1, <2>2, ElementOfSeq
  <2> QED BY <1>0, <1>2, <2>3, AnswersStay DEF GotIsFixed
<1>4. ASSUME NEW v \in Worker, NEW i \in 1..Len(got'[v])
      PROVE  Answers(tape', overloaded', Work[v][i], got'[v][i])
  <2>1. CASE got'[v] = got[v]
    BY <1>3, <1>4, <2>1
  <2>2. CASE v = w /\ got'[w] # got[w]
    <3>1. /\ at[w] \in {"ready", "asking"} /\ tape'[Asked(w)] # 0
          /\ got'[w] = Append(got[w], <<Asked(w), tape'[Asked(w)]>>)
      BY <1>0, <2>2 DEF OwnMove
    <3>2. Len(got[w]) = pos[w] - 1 /\ pos[w] \in Nat /\ Asked(w) \in Key /\ <<Primary, Text(w)>> \in Key
      BY <1>0, <3>1, AskedIsKey DEF Placed, Types
    <3>3. PICK x \in Key \X (1..MaxRuns) : x = <<Asked(w), tape'[Asked(w)]>>
      <4>1. tape'[Asked(w)] \in 0..MaxRuns /\ MaxRuns \in Nat
        BY <1>0, <3>2, TapeStays, CassetteAssumption DEF Local
      <4> QED BY <3>1, <3>2, <4>1
    <3>4. /\ Len(got'[w]) = Len(got[w]) + 1
          /\ \A k \in 1..Len(got[w]) : got'[w][k] = got[w][k]
          /\ got'[w][Len(got[w]) + 1] = <<Asked(w), tape'[Asked(w)]>>
      <4>1. got[w] \in Seq(Key \X (1..MaxRuns))
        BY <1>0 DEF Types
      <4> QED BY <3>1, <3>3, <4>1, AppendProperties
    <3>5. Answers(tape', overloaded', Text(w), <<Asked(w), tape'[Asked(w)]>>)
      <4>1. CASE model[w] = Primary
        BY <3>1, <4>1 DEF Answers, Fixed, Chosen, Asked
      <4>2. CASE model[w] # Primary
        <5>1. Primary \in overloaded /\ tape[<<Primary, Text(w)>>] = 0 /\ model[w] = Fallback
          BY <1>0, <1>2, <3>1, <4>2 DEF FallbackIsNeeded, Types
        <5>2. tape'[<<Primary, Text(w)>>] = 0
          BY <1>0, <1>2, <3>2, <4>2, <5>1, TapeStays DEF Asked
        <5> QED BY <1>2, <3>1, <5>1, <5>2 DEF Answers, Fixed, Chosen, Asked
      <4> QED BY <4>1, <4>2
    <3>9. Len(got[w]) \in Nat
      BY <1>0, LenProperties DEF Types
    <3>6. CASE i \in 1..Len(got[w])
      BY <1>3, <2>2, <3>4, <3>6
    <3>7. CASE i = pos[w]
      <4>1. Work[w][i] = Text(w)
        BY <3>7 DEF Text
      <4>2. Len(got[w]) + 1 = i
        BY <3>2, <3>7, <3>9
      <4> QED BY <2>2, <3>4, <3>5, <4>1, <4>2
    <3>8. i \in 1..Len(got[w]) \/ i = pos[w]
      BY <1>4, <2>2, <3>2, <3>4, <3>9
    <3> QED BY <3>6, <3>7, <3>8
  <2> QED BY <1>0, <2>1, <2>2, OthersStay
<1>5. GotIsFixed'
  BY <1>4 DEF GotIsFixed
<1>6. ShownIsFixed'
  <2>1. shown # Nothing /\ shown.flags = overloaded => Replays(tape', shown.flags, shown.got)
    BY <1>0, <1>2, ReplaysStay DEF ShownIsFixed
  <2> QED BY <1>0, <1>2, <2>1 DEF ShownIsFixed, Replays, Answers, Fixed, Chosen, Nothing
<1> QED BY <1>5, <1>6
-----------------------------------------------------------------------------
\* The steps of the process.
LEMMA InitIInv == Init => IInv
<1> SUFFICES ASSUME Init PROVE IInv
  OBVIOUS
<1> USE DEF Init
<1>1. Types
  BY CassetteAssumption, EmptySeq DEF Types, Blank
<1>2. Placed
  <2>1. ASSUME NEW w \in Worker PROVE 1 \in 1..Len(Work[w])
    BY WorkLengths
  <2>2. Len(<< >>) = 1 - 1
    BY EmptySeq
  <2> QED BY <2>1, <2>2 DEF Placed
<1>3. Saved /\ KeptStays /\ AskedIsNew /\ FallbackIsNeeded /\ GotIsFixed /\ ShownIsFixed
  BY DEF Saved, KeptStays, AskedIsNew, FallbackIsNeeded, GotIsFixed, ShownIsFixed
<1> QED BY <1>1, <1>2, <1>3 DEF IInv

LEMMA StartIInv ==
  ASSUME IInv, NEW o \in SUBSET {Primary}, Start(o)
  PROVE  IInv'
<1>0. Types /\ KeptStays /\ ShownIsFixed
  BY DEF IInv
<1> USE DEF Start, flags, past
<1>1. Types'
  BY <1>0, CassetteAssumption, EmptySeq DEF Types
<1>2. Placed'
  <2>1. ASSUME NEW w \in Worker PROVE 1 \in 1..Len(Work[w])
    BY WorkLengths
  <2>2. Len(<< >>) = 1 - 1
    BY EmptySeq
  <2> QED BY <2>1, <2>2 DEF Placed
<1>3. Saved' /\ KeptStays' /\ AskedIsNew' /\ FallbackIsNeeded'
  BY <1>0 DEF Saved, KeptStays, AskedIsNew, FallbackIsNeeded
<1>4. GotIsFixed'
  BY EmptySeq DEF GotIsFixed
<1>5. ShownIsFixed'
  BY <1>0 DEF ShownIsFixed, Replays, Answers, Fixed, Chosen, Nothing
<1> QED BY <1>1, <1>2, <1>3, <1>4, <1>5 DEF IInv

\* A step that leaves the iterations and the tape alone.
LEMMA QuietIInv ==
  ASSUME IInv, UNCHANGED <<overloaded, tape, threads>>,
         mode' # "down" => mode # "down" /\ run' = run /\ kept' = kept,
         Types', Saved', KeptStays', ShownIsFixed'
  PROVE  IInv'
<1> USE DEF threads
<1>1. Placed'
  BY DEF IInv, Placed
<1>2. AskedIsNew' /\ FallbackIsNeeded'
  <2>1. \A w \in Worker : Asked(w)' = Asked(w) /\ Text(w)' = Text(w)
    BY DEF Asked, Text
  <2> QED BY <2>1 DEF IInv, AskedIsNew, FallbackIsNeeded
<1>3. GotIsFixed'
  BY DEF IInv, GotIsFixed, Answers, Fixed, Chosen
<1> QED BY <1>1, <1>2, <1>3 DEF IInv

LEMMA SaveIInv ==
  ASSUME IInv, Close \/ SaveOpen \/ SaveClose
  PROVE  IInv'
<1>0. Types /\ Saved /\ KeptStays /\ ShownIsFixed
  BY DEF IInv
<1> USE DEF flags, past, threads
<1>1. CASE Close
  <2>1. Types' /\ Saved' /\ KeptStays'
    BY <1>0, <1>1 DEF Close, Types, Saved, KeptStays
  <2>2. ShownIsFixed'
    BY <1>0, <1>1 DEF Close, ShownIsFixed, Replays, Answers, Fixed, Chosen, Nothing
  <2> QED BY <1>1, <2>1, <2>2, QuietIInv DEF Close
<1>2. CASE SaveOpen
  <2>1. Types' /\ Saved' /\ KeptStays'
    BY <1>0, <1>2 DEF SaveOpen, Types, Saved, KeptStays
  <2>2. ShownIsFixed'
    BY <1>0, <1>2 DEF SaveOpen, ShownIsFixed, Replays, Answers, Fixed, Chosen, Nothing
  <2> QED BY <1>2, <2>1, <2>2, QuietIInv DEF SaveOpen
<1>3. CASE SaveClose
  <2>1. Types' /\ Saved' /\ KeptStays'
    BY <1>0, <1>3 DEF SaveClose, Types, Saved, KeptStays
  <2>2. ShownIsFixed'
    BY <1>0, <1>3 DEF SaveClose, ShownIsFixed, Replays, Answers, Fixed, Chosen, Nothing
  <2> QED BY <1>3, <2>1, <2>2, QuietIInv DEF SaveClose
<1> QED BY <1>1, <1>2, <1>3

LEMMA LeavesIInv ==
  ASSUME IInv, mode # "down", Leaves
  PROVE  IInv'
<1>0. Types /\ Placed /\ Saved /\ KeptStays /\ GotIsFixed /\ ShownIsFixed
  BY DEF IInv
<1> USE DEF flags, threads
<1>1. UNCHANGED <<file, run, overloaded, tape, recorded, at, pos, model, got>> /\ mode' = "down"
  BY DEF Leaves
<1>2. Types' /\ Saved'
  BY <1>0, <1>1 DEF Types, Saved
<1>3. KeptStays'
  BY <1>0, <1>1 DEF Leaves, KeptStays, Saved
<1>4. ASSUME \A w \in Worker : at[w] = "done"
      PROVE  Replays(tape, overloaded, got)
  <2>2. ASSUME NEW w \in Worker PROVE Len(got[w]) = Len(Work[w])
    <3>1. Len(got[w]) = pos[w] - 1 /\ pos[w] = Len(Work[w]) + 1
      BY <1>0, <1>4 DEF Placed
    <3> QED BY <3>1, WorkLengths
  <2> QED BY <1>0, <2>2 DEF GotIsFixed, Replays
<1>5. ASSUME shown' # Nothing
      PROVE  /\ shown'.got \in [Worker -> Seq(Key \X (1..MaxRuns))]
             /\ file # Torn => Replays(file, shown'.flags, shown'.got)
  <2>1. file # Torn
    BY <1>5 DEF Leaves
  <2>2. CASE mode # "exiting"
    <3>1. shown' = shown /\ mode \in {"running", "saving"}
      BY <1>0, <2>1, <2>2 DEF Leaves, Saved, Types
    <3> QED BY <1>0, <1>5, <2>1, <3>1 DEF ShownIsFixed
  <2>3. CASE mode = "exiting" /\ \A w \in Worker : at[w] = "done"
    <3>1. shown' = [flags |-> overloaded, got |-> got] /\ file = tape
      BY <1>0, <2>1, <2>3 DEF Leaves, Saved
    <3> QED BY <1>0, <1>4, <2>3, <3>1 DEF Types
  <2>4. CASE mode = "exiting" /\ ~\A w \in Worker : at[w] = "done"
    <3>1. shown' = shown /\ overloaded = shown.flags /\ file = recorded
      BY <1>0, <1>5, <2>1, <2>4 DEF Leaves, Saved
    <3> QED BY <1>0, <1>5, <2>4, <3>1 DEF ShownIsFixed
  <2> QED BY <2>2, <2>3, <2>4
<1>6. ShownIsFixed'
  BY <1>1, <1>5 DEF ShownIsFixed, Replays, Answers, Fixed, Chosen, Nothing
<1> QED BY <1>1, <1>2, <1>3, <1>6, QuietIInv DEF Leaves

LEMMA NextIInv ==
  ASSUME IInv, Next
  PROVE  IInv'
<1>0. Types /\ Saved /\ KeptStays /\ ShownIsFixed
  BY DEF IInv
<1> USE DEF flags, past, threads, vars
<1>1. CASE StartTorn
  <2>1. Types' /\ Saved' /\ KeptStays' /\ mode' = "down"
    BY <1>0, <1>1, CassetteAssumption DEF StartTorn, Types, Saved, KeptStays
  <2>2. ShownIsFixed'
    BY <1>0, <1>1 DEF StartTorn, ShownIsFixed, Replays, Answers, Fixed, Chosen, Nothing
  <2> QED BY <1>1, <2>1, <2>2, QuietIInv DEF StartTorn
<1>2. CASE Remove
  <2>1. Types' /\ Saved' /\ KeptStays' /\ mode' = "down"
    BY <1>0, <1>2, CassetteAssumption DEF Remove, Types, Saved, KeptStays, Blank
  <2>2. ShownIsFixed'
    BY <1>2 DEF Remove, ShownIsFixed, Nothing
  <2> QED BY <1>2, <2>1, <2>2, QuietIInv DEF Remove
<1>3. CASE Exit \/ Die
  BY <1>3, LeavesIInv DEF Exit, Die
<1>4. ASSUME NEW w \in Worker, Generate(w) PROVE IInv'
  BY <1>4, GenerateTypes, GenerateKept, GenerateAsked, GenerateGot DEF IInv
<1>5. CASE UNCHANGED vars
  <2>1. Types' /\ Saved' /\ KeptStays' /\ mode' = mode
    BY <1>0, <1>5 DEF Types, Saved, KeptStays
  <2>2. ShownIsFixed'
    BY <1>0, <1>5 DEF ShownIsFixed, Replays, Answers, Fixed, Chosen, Nothing
  <2> QED BY <1>5, <2>1, <2>2, QuietIInv
<1> QED BY <1>1, <1>2, <1>3, <1>4, <1>5, StartIInv, SaveIInv DEF Next, Process, Finished

LEMMA StutterIInv ==
  ASSUME IInv, UNCHANGED vars
  PROVE  IInv'
<1>0. Types /\ Saved /\ KeptStays /\ ShownIsFixed
  BY DEF IInv
<1> USE DEF flags, past, threads, vars
<1>1. Types' /\ Saved' /\ KeptStays' /\ mode' = mode
  BY <1>0 DEF Types, Saved, KeptStays
<1>2. ShownIsFixed'
  BY <1>0 DEF ShownIsFixed, Replays, Answers, Fixed, Chosen, Nothing
<1> QED BY <1>1, <1>2, QuietIInv

LEMMA Inductive == Spec => []IInv
<1>1. IInv /\ [Next]_vars => IInv'
  BY NextIInv, StutterIInv
<1> QED BY <1>1, InitIInv, PTL DEF Spec

-----------------------------------------------------------------------------
\* tests/test_humbaba.py TestReplay, "byte-identical": a run that completes over the
\* recording of a completed run, with the same models overloaded, gets for every
\* generation what that run got, in whatever order its threads run, which of its
\* requests fail, and which runs failed or died over the file in between.
THEOREM ReplaysAreIdentical == Spec => []ReplayIsIdentical
<1>1. IInv => ReplayIsIdentical
  <2> SUFFICES ASSUME IInv, mode = "exiting", \A w \in Worker : at[w] = "done",
                      shown # Nothing, shown.flags = overloaded
               PROVE  got = shown.got
    BY DEF ReplayIsIdentical
  <2>1. /\ got \in [Worker -> Seq(Key \X (1..MaxRuns))]
        /\ shown.got \in [Worker -> Seq(Key \X (1..MaxRuns))]
        /\ Replays(tape, overloaded, shown.got)
    BY DEF IInv, Types, ShownIsFixed
  <2>2. ASSUME NEW w \in Worker PROVE got[w] = shown.got[w]
    <3>1. got[w] \in Seq(Key \X (1..MaxRuns)) /\ shown.got[w] \in Seq(Key \X (1..MaxRuns))
      BY <2>1
    <3>2. Len(Work[w]) \in Nat
      BY WorkLengths
    <3>3. Len(got[w]) = Len(Work[w]) /\ Len(shown.got[w]) = Len(Work[w])
      BY <2>1, <3>2 DEF IInv, Placed, Replays
    <3>4. \A i \in 1..Len(Work[w]) : got[w][i] = shown.got[w][i]
      BY <2>1, <3>3 DEF IInv, GotIsFixed, Replays, Answers
    <3> QED BY <3>1, <3>3, <3>4, SeqEqual
  <2> QED BY <2>1, <2>2
<1> QED BY <1>1, Inductive, PTL

\* docs/LANGUAGE.md 7.7: a request that a run had answered when it ended by itself is
\* replayed: it goes out no more and makes the model dump nothing more, while threads of
\* the same or of other requests race it, until the file is lost.
THEOREM RequestsAreAnsweredOnce == Spec => AnsweredOnce
<1> DEFINE Once == \A w \in Worker : at[w] \in {"ready", "asking"} =>
                     (Miss(w) \/ Asked(w) \in dumped' \ dumped => Asked(w) \notin kept)
<1>1. ASSUME IInv, Next PROVE Once
  <2>0. Types /\ Placed /\ KeptStays /\ AskedIsNew
    BY <1>1 DEF IInv
  <2>1. ASSUME NEW w \in Worker, Miss(w) PROVE Asked(w) \notin kept
    <3>1. tape[Asked(w)] = 0 /\ mode # "down" /\ at[w] = "ready"
      BY <2>1 DEF Miss, Alive
    <3>2. Asked(w) \in Key
      BY <2>0, <3>1, AskedIsKey
    <3> QED BY <2>0, <3>1, <3>2 DEF KeptStays
  <2>2. ASSUME NEW k \in dumped' \ dumped PROVE k \notin kept
    <3>1. PICK v \in Worker : Partial(v) \/ Answer(v)
      BY <1>1, <2>2 DEF Next, Start, StartTorn, Remove, Process, Close, SaveOpen, SaveClose, Exit, Die,
                        Leaves, Generate, Begin, Hit, Miss, Transient, Finished, vars
    <3>2. k = Asked(v) /\ at[v] = "asking" /\ mode # "down"
      BY <2>2, <3>1 DEF Partial, Answer, Obeys, Alive
    <3> QED BY <2>0, <3>2 DEF AskedIsNew
  <2> QED BY <2>1, <2>2
<1>2. IInv /\ [Next]_vars => [Once]_vars
  BY <1>1
<1>3. QED BY <1>2, Inductive, PTL DEF Spec, AnsweredOnce
=============================================================================
