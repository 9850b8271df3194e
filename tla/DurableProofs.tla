--------------------------- MODULE DurableProofs ----------------------------
(***************************************************************************)
(* Proofs about Durable, for any durable functions, prices, limits and any *)
(* number of crashes.  The inductive invariant says where the money and    *)
(* the records of safe steps are: behind every readable line of the file   *)
(* that counts, and in the memory of an execution since it has begun.      *)
(***************************************************************************)
EXTENDS Durable, JournalProofs

\* Recorded steps of this function: the label is that of the place, which is the first
\* one with this label, and whose body has ended.
Recorded ==
  {x \in Steps : /\ x.at \in ended /\ x.label = program[x.at].label
                 /\ \A i \in DOMAIN program : program[i].label = x.label => x.at <= i}
OwnLine == {Done, Unreadable} \cup Recorded

\* Control has passed steps only that are known, and executes one that is not: so it is
\* the first one with its label.
PassedAreKnown ==
  /\ mode # "down" => \A i \in 1..(pos - 1) : entries[program[i].label] # NoStep
  /\ mode \in {"body", "recording"} => entries[Here.label] = NoStep

\* Every variable has its type, files are well-formed, and steps are recorded and
\* restored under their own label.
Types ==
  /\ TypeOK
  /\ file \in File(OwnLine) /\ cache \in Seq(OwnLine)
  /\ mode \in {"body", "recording"} => pos \in DOMAIN program
  /\ mode = "recording" => pos \in ended
  /\ \A l \in Label :
       entries[l] # NoStep => entries[l] \in Recorded /\ entries[l].label = l
  /\ PassedAreKnown

\* While safe steps are recorded, the cache holds the line that is being synced at most.
CacheIsOne ==
  safe # {} =>
    IF mode = "recording" THEN Len(cache) = 1 ELSE cache = << >>

\* What is being recorded.
LineInCache ==
  mode = "recording" =>
    /\ cache # << >>
    /\ Last(cache) = StepLine(Here.label, pos, Billed)

\* The record of a safe step counts, whatever is appended next.
SafeIsHeld ==
  \A i \in safe : \E k \in Live(file) :
    file.lines[k].label = program[i].label /\ Whole(file, k)

\* An execution that runs knows the safe steps.
SafeIsKnown == mode # "down" => \A i \in safe : entries[program[i].label] # NoStep

\* Between a completion and the next execution no step counts, where the end mark is
\* there and can be read; else none counts or all that were safe do, because there is
\* only the end mark in the cache, behind their records.
AllOrNone ==
  complete # "no" =>
    /\ mode = "down"
    /\ complete = "marked" /\ Intact(Visible) => Live(Visible) = {}
    /\ \/ Live(Visible) = {}
       \/ \A i \in finished : \E k \in Live(Visible) :
            Visible.lines[k].label = program[i].label
    /\ finished # {} /\ cache # << >> =>
         /\ cache = <<Done>>
         /\ \A i \in finished : \E k \in Live(file) :
              file.lines[k].label = program[i].label /\ Whole(file, k)

\* Every step is recorded with the spend of the function's frame.
FrameIsBilled == call = "host" \/ \A i \in DOMAIN program : ~ program[i].own

\* The money of the safe steps is in a record that counts, and that of this execution
\* in its frame.
MoneyIsHeld ==
  /\ safe = {} => kept = 0
  /\ FrameIsBilled /\ safe # {} =>
       \E k \in Live(file) : file.lines[k].spent >= kept /\ Whole(file, k)
  /\ FrameIsBilled /\ mode # "down" => spent >= kept + live

IInv == /\ Types /\ CacheIsOne /\ LineInCache /\ SafeIsHeld
        /\ SafeIsKnown /\ AllOrNone /\ MoneyIsHeld

-----------------------------------------------------------------------------
\* The steps of the function are what its assumption says.
LEMMA Function ==
  ASSUME TypeOK
  PROVE  /\ Len(program) \in Nat /\ DOMAIN program = 1..Len(program)
         /\ \A i \in DOMAIN program :
              program[i].label \in Label /\ program[i].gens \in Nat
              /\ program[i].own \in BOOLEAN /\ program[i].returns \in BOOLEAN
<1> DEFINE S == [label : Label, gens : Nat, own : BOOLEAN, returns : BOOLEAN]
<1>1. program \in Seq(S)
  BY DurableAssumption DEF TypeOK
<1>2. Len(program) \in Nat /\ DOMAIN program = 1..Len(program)
  BY <1>1, LenProperties
<1>3. \A i \in DOMAIN program : program[i] \in S
  BY <1>1, <1>2, ElementOfSeq
<1> QED
  BY <1>2, <1>3

\* The lines of this function are lines.
LEMMA OwnLines ==
  ASSUME TypeOK
  PROVE  /\ OwnLine \subseteq Text /\ OwnLine \subseteq Line
         /\ Done \in OwnLine /\ Unreadable \in OwnLine
         /\ \A x \in OwnLine : x.op = "step" => x \in Recorded
         /\ NoStep \notin Recorded
<1>1. Recorded \subseteq [op : {"step"}, label : Label, at : DOMAIN program, spent : Nat]
  <2> SUFFICES ASSUME NEW x \in Recorded
               PROVE  x \in [op : {"step"}, label : Label, at : DOMAIN program, spent : Nat]
    OBVIOUS
  <2>1. x \in Steps /\ x.at \in DOMAIN program
    BY DEF Recorded, TypeOK
  <2> QED
    BY <2>1 DEF Steps
<1>2. Recorded \subseteq Steps
  BY DEF Recorded
<1>3. NoStep \notin Recorded
  BY <1>2, JournalAssumption
<1> QED
  BY <1>1, <1>2, <1>3 DEF OwnLine, Text, Line, Done, Unreadable

\* A file of such lines can be read.
LEMMA OwnFile ==
  ASSUME TypeOK, NEW f \in File(OwnLine)
  PROVE  /\ f \in File(Text) /\ f.lines \in Seq(Text) /\ f.lines \in Seq(Line)
         /\ f.cut \in BOOLEAN
         /\ \A k \in Live(f) : k \in 1..Len(f.lines) /\ f.lines[k] \in Recorded
<1>1. f.lines \in Seq(OwnLine) /\ f.cut \in BOOLEAN
  BY DEF File
<1>2. f.lines \in Seq(Text) /\ f.lines \in Seq(Line)
  BY <1>1, OwnLines, SeqMonotonic
<1>3. f \in File(Text)
  BY <1>2 DEF File
<1>4. ASSUME NEW k \in Live(f) PROVE k \in 1..Len(f.lines) /\ f.lines[k] \in Recorded
  <2>1. k \in 1..Len(f.lines) /\ f.lines[k] \in Steps
    BY <1>2, LiveAreSteps
  <2>2. f.lines[k] \in OwnLine
    BY <2>1, <1>1, ElementOfSeq
  <2>3. f.lines[k].op = "step"
    BY <2>1 DEF Steps
  <2> QED
    BY <2>1, <2>2, <2>3, OwnLines
<1> QED
  BY <1>1, <1>2, <1>3, <1>4

\* What is on the file for whoever opens it is a file.
LEMMA VisibleIsFile ==
  ASSUME Types
  PROVE  Visible \in File(OwnLine)
BY OwnLines, PutAllFile DEF Types, Visible

\* A label with a step that counts has an entry.
LEMMA HeldIsEntered ==
  ASSUME TypeOK, NEW f \in File(OwnLine), NEW k \in Live(f)
  PROVE  EntryOf(f, f.lines[k].label) # NoStep
<1>1. f.lines \in Seq(Text) /\ \A i \in Live(f) : f.lines[i] \in Recorded
  BY OwnFile
<1>2. \E i \in Live(f) : EntryOf(f, f.lines[k].label) = f.lines[i]
  BY <1>1, EntryIsLive
<1> QED
  BY <1>1, <1>2, OwnLines

\* The entries that are read have their labels.
LEMMA EntriesRead ==
  ASSUME TypeOK, NEW f \in File(OwnLine)
  PROVE  /\ Entries(f) \in [Label -> Line \cup {NoStep}]
         /\ \A l \in Label : Entries(f)[l] # NoStep =>
              Entries(f)[l] \in Recorded /\ Entries(f)[l].label = l
<1>1. f.lines \in Seq(Text) /\ \A i \in Live(f) : f.lines[i] \in Recorded
  BY OwnFile
<1>2. ASSUME NEW l \in Label
      PROVE  \/ EntryOf(f, l) = NoStep
             \/ EntryOf(f, l) \in Recorded /\ EntryOf(f, l).label = l
  BY <1>1, EntryIsLive
<1>3. Recorded \subseteq Line
  BY OwnLines DEF OwnLine
<1> QED
  BY <1>2, <1>3 DEF Entries

\* So has the spend.
LEMMA SpentRead ==
  ASSUME TypeOK, NEW f \in File(OwnLine)
  PROVE  SpentIn(f) \in Nat
<1>1. f.lines \in Seq(Text) /\ \A i \in Live(f) : f.lines[i] \in Recorded
  BY OwnFile
<1>2. CASE Live(f) = {}
  BY <1>2 DEF SpentIn
<1>3. CASE Live(f) # {}
  <2>1. \E k \in Live(f) : SpentIn(f) = f.lines[k].spent
    BY <1>1, <1>3, SpentIsGreatest
  <2> QED
    BY <2>1, <1>1 DEF Recorded, Steps
<1> QED
  BY <1>2, <1>3

\* A step that is executed is the first one with its label.
LEMMA FirstOfLabel ==
  ASSUME Types, mode \in {"body", "recording"}
  PROVE  \A i \in DOMAIN program : program[i].label = Here.label => pos <= i
<1> SUFFICES ASSUME NEW i \in DOMAIN program, program[i].label = Here.label, ~ (pos <= i)
             PROVE  FALSE
  OBVIOUS
<1>1. i \in 1..(pos - 1)
  BY Function DEF Types, TypeOK
<1> QED
  BY <1>1 DEF Types, PassedAreKnown

\* The line that a step records.
LEMMA RecordedLine ==
  ASSUME Types, mode \in {"body", "recording"}
  PROVE  /\ StepLine(Here.label, pos, Billed) \in Steps
         /\ StepLine(Here.label, pos, Billed) \in Text
         /\ pos \in ended =>
              StepLine(Here.label, pos, Billed) \in Recorded
<1>1. /\ Here.label \in Label /\ pos \in Nat
      /\ Billed \in Nat
  BY Function DEF Types, TypeOK, Here, Billed
<1>2. StepLine(Here.label, pos, Billed) \in Steps
  BY <1>1 DEF StepLine, Steps
<1>3. /\ StepLine(Here.label, pos, Billed).at = pos
      /\ StepLine(Here.label, pos, Billed).label = Here.label
  BY DEF StepLine
<1> QED
  BY <1>2, <1>3, FirstOfLabel DEF Recorded, Here, Text

\* What is appended is a sequence of lines.
LEMMA CacheIsText ==
  ASSUME Types
  PROVE  cache \in Seq(Text)
BY OwnLines, SeqMonotonic DEF Types

\* What is being recorded is the last line of the cache.
LEMMA LastInCache ==
  ASSUME Types, LineInCache, mode = "recording"
  PROVE  /\ Last(cache) \in Recorded /\ Last(cache).op = "step"
         /\ Last(cache).label = Here.label
         /\ Last(cache).spent = Billed
         /\ \E front \in Seq(OwnLine) : cache = Append(front, Last(cache))
<1>1. /\ cache # << >> /\ cache \in Seq(OwnLine)
      /\ Last(cache) = StepLine(Here.label, pos, Billed)
  BY DEF LineInCache, Types
<1>2. Last(cache) \in Recorded
  BY <1>1, RecordedLine DEF Types
<1>3. PICK front \in Seq(OwnLine), x \in OwnLine : cache = Append(front, x)
  BY <1>1, SequenceEmptyOrAppend
<1>4. Last(cache) = x
  BY <1>3, AppendProperties DEF Last
<1> QED
  BY <1>1, <1>2, <1>3, <1>4 DEF StepLine

-----------------------------------------------------------------------------
\* A crash leaves a file.
LEMMA CrashFile ==
  ASSUME Types, NEW k \in 0..Len(cache)
  PROVE  Remains(k) \subseteq File(OwnLine)
<1> DEFINE whole == PutAll(file, SubSeq(cache, 1, k))
<1>1. cache \in Seq(OwnLine) /\ file \in File(OwnLine) /\ Len(cache) \in Nat
  BY LenProperties DEF Types
<1>2. SubSeq(cache, 1, k) \in Seq(OwnLine)
  <2>1. \A i \in 1..k : i \in 1..Len(cache)
    BY <1>1
  <2>2. \A i \in 1..k : cache[i] \in OwnLine
    BY <1>1, <2>1, ElementOfSeq
  <2> QED
    BY <2>2, <1>1, SubSeqProperties
<1>3. whole \in File(OwnLine)
  BY <1>1, <1>2, OwnLines, PutAllFile DEF Types
<1>4. ASSUME k < Len(cache) PROVE Cut(whole, cache[k + 1]) \subseteq File(OwnLine)
  <2>1. cache[k + 1] \in OwnLine
    BY <1>1, <1>4, ElementOfSeq
  <2> QED
    BY <2>1, <1>3, OwnLines, WrittenFiles DEF Types
<1> QED
  BY <1>3, <1>4 DEF Remains

\* At the start.
LEMMA InitTypes == Init => Types
<1> SUFFICES ASSUME Init PROVE Types
  OBVIOUS
<1>1. EmptyFile \in File(OwnLine) /\ << >> \in Seq(OwnLine)
  BY EmptySeq DEF EmptyFile, File
<1>2. Len(program) \in Nat
  BY DurableAssumption, LenProperties DEF Init
<1>3. file.lines \in Seq(Line) /\ file.cut \in BOOLEAN /\ cache \in Seq(Line)
  BY EmptySeq DEF Init, EmptyFile
<1>4. /\ pos \in 1..(Len(program) + 1)
      /\ starts \in 0..MaxStarts /\ crashes \in 0..MaxCrashes
  BY <1>2, DurableAssumption DEF Init
<1>5. entries \in [Label -> Line \cup {NoStep}] /\ \A l \in Label : entries[l] = NoStep
  BY DEF Init
<1>6. TypeOK
  BY <1>3, <1>4, <1>5 DEF Init, TypeOK
<1> QED
  BY <1>1, <1>5, <1>6 DEF Init, Types, PassedAreKnown

\* What a step must show to keep the types, when the disk is in order.
LEMMA TypesFromParts ==
  ASSUME program' = program, call' = call, Types,
         ended \subseteq ended', ended' \subseteq DOMAIN program,
         file' \in File(OwnLine'), cache' \in Seq(OwnLine'),
         mode' \in {"down", "steps", "body", "recording", "returned"},
         pos' \in 1..(Len(program) + 1), left' \in Nat,
         mode' \in {"body", "recording"} => pos' \in DOMAIN program,
         mode' = "recording" => pos' \in ended',
         entries' \in [Label -> Line \cup {NoStep}],
         \A l \in Label :
           entries'[l] # NoStep => entries'[l] \in Recorded' /\ entries'[l].label = l,
         replayed' \subseteq Label,
         spent' \in Nat, inner' \in Nat, live' \in Nat, kept' \in Nat,
         starts' \in 0..MaxStarts, crashes' \in 0..MaxCrashes,
         complete' \in {"no", "marked", "lost"}, finished' \subseteq DOMAIN program,
         PassedAreKnown',
         safe' \subseteq acked', acked' \subseteq DOMAIN program
  PROVE  Types'
<1>1. Line' = Line
  BY DEF Line
<1>2. OwnLine' \subseteq Line
  <2>1. Recorded' \subseteq [op : {"step"}, label : Label, at : DOMAIN program, spent : Nat]
    <3> SUFFICES ASSUME NEW x \in Recorded'
                 PROVE  x \in [op : {"step"}, label : Label, at : DOMAIN program, spent : Nat]
      OBVIOUS
    <3>1. x \in Steps /\ x.at \in DOMAIN program
      BY DEF Recorded
    <3> QED
      BY <3>1 DEF Steps
  <2> QED
    BY <2>1 DEF OwnLine, Line
<1>3. file'.lines \in Seq(Line) /\ file'.cut \in BOOLEAN
  <2>1. file'.lines \in Seq(OwnLine') /\ file'.cut \in BOOLEAN
    BY DEF File
  <2> QED
    BY <2>1, <1>2, SeqMonotonic
<1>4. cache' \in Seq(Line)
  BY <1>2, SeqMonotonic
<1>5. program' \in Programs /\ call' \in Calls
  BY DEF Types, TypeOK
<1>6. TypeOK'
  BY <1>1, <1>3, <1>4, <1>5 DEF TypeOK
<1>7. File(OwnLine)' = File(OwnLine')
  BY DEF File
<1> QED
  BY <1>6, <1>7 DEF Types

\* While no other body ends, the lines of this function are the same.
LEMMA SameLines ==
  ASSUME program' = program, ended' = ended
  PROVE  Recorded' = Recorded /\ OwnLine' = OwnLine
BY DEF Recorded, OwnLine

\* A step is passed by when it has an entry, and gets one when it is recorded.
LEMMA NextPassedAreKnown ==
  ASSUME Types, LineInCache, [Next]_vars
  PROVE  PassedAreKnown'
<1> USE DEF given, disk, process, money, history, vars
<1>0. pos \in Nat /\ \A i \in DOMAIN program : program[i].label \in Label
  BY Function DEF Types, TypeOK
<1>1. ASSUME UNCHANGED <<program, pos, entries>>,
             mode' = "down" \/ mode' = mode
             \/ (mode = "body" /\ mode' = "recording")
      PROVE  PassedAreKnown'
  BY <1>1 DEF Types, PassedAreKnown, Here
<1>2. CASE Replay
  <2>1. /\ program' = program /\ entries' = entries /\ pos' = pos + 1
        /\ mode = "steps" /\ mode' = "steps" /\ entries[program[pos].label] # NoStep
    BY <1>2 DEF Replay, AtStep, Here
  <2>2. 1..(pos' - 1) \subseteq 1..(pos - 1) \cup {pos}
    BY <1>0, <2>1
  <2> QED
    BY <2>1, <2>2 DEF Types, PassedAreKnown
<1>3. CASE Execute
  BY <1>3 DEF Execute, AtStep, Types, PassedAreKnown, Here
<1>4. ASSUME NEW p \in Price \cup {0}, Begin(p) PROVE PassedAreKnown'
  BY <1>4 DEF Begin, PassedAreKnown
<1>5. CASE Sync
  <2>1. /\ program' = program /\ entries' = [entries EXCEPT ![Here.label] = Last(cache)]
        /\ pos' = pos + 1 /\ mode = "recording" /\ mode' \in {"steps", "returned"}
    BY <1>5 DEF Sync
  <2>2. Last(cache) # NoStep
    BY <2>1, LastInCache, OwnLines DEF Types
  <2>3. /\ entries \in [Label -> Line \cup {NoStep}] /\ pos \in DOMAIN program
        /\ Here.label \in Label
    BY <2>1, <1>0 DEF Types, TypeOK, Here
  <2>4. entries'[Here.label] # NoStep
    BY <2>1, <2>2, <2>3
  <2>5. ASSUME NEW i \in 1..(pos - 1) PROVE entries'[program[i].label] # NoStep
    <3>1. entries[program[i].label] # NoStep
      BY <2>1 DEF Types, PassedAreKnown
    <3>2. entries'[program[i].label] \in {entries[program[i].label], Last(cache)}
      <4>1. i \in DOMAIN program
        BY <2>3, <1>0, Function DEF Types
      <4> QED
        BY <4>1, <2>1, <2>3, <1>0
    <3> QED
      BY <3>1, <3>2, <2>2
  <2>6. 1..(pos' - 1) \subseteq 1..(pos - 1) \cup {pos}
    BY <1>0, <2>1
  <2> QED
    BY <2>1, <2>4, <2>5, <2>6 DEF PassedAreKnown, Here
<1>6. CASE ReplayTwice \/ Raise
  BY <1>1, <1>6 DEF ReplayTwice, Raise, Die
<1>7. CASE Record \/ Finish
  BY <1>1, <1>7 DEF Record, Finish
<1>8. ASSUME NEW p \in Price, Spend(p) PROVE PassedAreKnown'
  BY <1>1, <1>8 DEF Spend
<1>9. ASSUME NEW k \in 0..Len(cache), Crash(k) PROVE PassedAreKnown'
  BY <1>1, <1>9 DEF Crash
<1>10. CASE UNCHANGED vars
  BY <1>1, <1>10
<1> QED
  BY <1>2, <1>3, <1>4, <1>5, <1>6, <1>7, <1>8, <1>9, <1>10 DEF Next, Run, Finished

\* Every step keeps the types.
LEMMA NextTypes ==
  ASSUME Types, LineInCache, [Next]_vars
  PROVE  Types'
<1>0. /\ Len(program) \in Nat /\ DOMAIN program = 1..Len(program)
      /\ \A i \in DOMAIN program : program[i].label \in Label /\ program[i].gens \in Nat
  BY Function DEF Types
<1> USE DEF given, disk, process, money, history, vars
<1>1. ASSUME NEW p \in Price \cup {0}, Begin(p) PROVE Types'
  <2>1. /\ Entries(Visible) \in [Label -> Line \cup {NoStep}]
        /\ \A l \in Label : Entries(Visible)[l] # NoStep =>
             Entries(Visible)[l] \in Recorded /\ Entries(Visible)[l].label = l
        /\ SpentIn(Visible) \in Nat
    BY VisibleIsFile, EntriesRead, SpentRead DEF Types
  <2>2. p \in Nat /\ starts + 1 \in 0..MaxStarts
    BY <1>1, DurableAssumption DEF Begin, Types, TypeOK
  <2>3. spent' \in Nat /\ starts' \in 0..MaxStarts /\ 1 \in 1..(Len(program) + 1)
    BY <2>1, <2>2, <1>0, <1>1 DEF Begin
  <2> QED
    BY <2>1, <2>3, <1>1, TypesFromParts, NextPassedAreKnown, SameLines DEF Begin, Types, TypeOK
<1>2. CASE Replay
  <2>1. pos \in DOMAIN program /\ pos + 1 \in 1..(Len(program) + 1)
    BY <1>0, <1>2 DEF Replay, AtStep, Types, TypeOK
  <2>2. Here.label \in Label
    BY <2>1, <1>0 DEF Here
  <2> QED
    BY <2>1, <2>2, <1>2, TypesFromParts, NextPassedAreKnown, SameLines DEF Replay, AtStep, Types, TypeOK
<1>3. CASE ReplayTwice
  BY <1>3, TypesFromParts, NextPassedAreKnown, SameLines DEF ReplayTwice, Die, Types, TypeOK
<1>4. CASE Execute
  <2>1. pos \in DOMAIN program
    BY <1>0, <1>4 DEF Execute, AtStep, Types, TypeOK
  <2>2. Here.gens \in Nat
    BY <2>1, <1>0 DEF Here
  <2> QED
    BY <2>1, <2>2, <1>4, TypesFromParts, NextPassedAreKnown, SameLines DEF Execute, Types, TypeOK
<1>5. ASSUME NEW p \in Price, Spend(p) PROVE Types'
  <2>1. p \in Nat /\ left - 1 \in Nat /\ spent + p \in Nat /\ inner + p \in Nat /\ live + p \in Nat
    BY <1>5, DurableAssumption DEF Spend, Types, TypeOK
  <2> QED
    BY <2>1, <1>5, TypesFromParts, NextPassedAreKnown, SameLines DEF Spend, Types, TypeOK
<1>6. CASE Raise
  BY <1>6, TypesFromParts, NextPassedAreKnown, SameLines DEF Raise, Die, Types, TypeOK
<1>7. CASE Record
  <2> DEFINE line == StepLine(Here.label, pos, Billed)
  <2>1. /\ program' = program /\ ended' = ended \cup {pos} /\ pos \in DOMAIN program
        /\ mode = "body"
    BY <1>7 DEF Record, Types
  <2>2. Recorded \subseteq Recorded' /\ OwnLine \subseteq OwnLine'
    BY <2>1 DEF Recorded, OwnLine
  <2>3. line \in OwnLine'
    <3>1. line \in Steps
      BY <2>1, RecordedLine
    <3>2. line.at = pos /\ line.label = program[pos].label
      BY DEF StepLine, Here
    <3>3. \A i \in DOMAIN program : program[i].label = line.label => line.at <= i
      BY <2>1, <3>2, FirstOfLabel DEF Here
    <3> QED
      BY <2>1, <3>1, <3>2, <3>3 DEF Recorded, OwnLine
  <2>4. cache' \in Seq(OwnLine')
    <3>1. cache \in Seq(OwnLine')
      BY <2>2, SeqMonotonic DEF Types
    <3> QED
      BY <3>1, <2>3, <1>7, AppendProperties DEF Record
  <2>5. file' \in File(OwnLine')
    <3>1. file' = file /\ file \in File(OwnLine)
      BY <1>7 DEF Record, Types
    <3>2. file.lines \in Seq(OwnLine')
      BY <3>1, <2>2, SeqMonotonic DEF File
    <3> QED
      BY <3>1, <3>2 DEF File
  <2>6. ended \subseteq ended' /\ ended' \subseteq DOMAIN program
    BY <2>1 DEF Types, TypeOK
  <2>7. \A l \in Label :
          entries'[l] # NoStep => entries'[l] \in Recorded' /\ entries'[l].label = l
    BY <2>2, <1>7 DEF Record, Types
  <2> QED
    BY <2>1, <2>4, <2>5, <2>6, <2>7, <1>7, TypesFromParts, NextPassedAreKnown DEF Record, Types, TypeOK
<1>8. CASE Sync
  <2>1. pos \in DOMAIN program /\ pos + 1 \in 1..(Len(program) + 1)
    BY <1>0, <1>8 DEF Sync, Types
  <2>2. /\ Last(cache) \in Recorded /\ Last(cache).label = Here.label
        /\ Last(cache) \in Line /\ Here.label \in Label
    BY <2>1, <1>0, <1>8, LastInCache, OwnLines DEF Sync, OwnLine, Types, Here
  <2>3. /\ entries' \in [Label -> Line \cup {NoStep}]
        /\ \A l \in Label :
             entries'[l] # NoStep => entries'[l] \in Recorded /\ entries'[l].label = l
    BY <2>2, <1>8 DEF Sync, Types, TypeOK
  <2>4. file' \in File(OwnLine) /\ cache' \in Seq(OwnLine)
    BY <1>8, VisibleIsFile, EmptySeq DEF Sync
  <2>5. /\ safe' \subseteq acked' /\ acked' \subseteq DOMAIN program
        /\ kept' \in Nat /\ live' \in Nat
    BY <2>1, <1>8 DEF Sync, SafelyRecorded, Types, TypeOK
  <2> QED
    BY <2>1, <2>3, <2>4, <2>5, <1>8, TypesFromParts, NextPassedAreKnown, SameLines DEF Sync, Types, TypeOK
<1>9. CASE Finish
  <2>1. Append(cache, Done) \in Seq(OwnLine)
    BY OwnLines, AppendProperties DEF Types
  <2>2. safe \subseteq DOMAIN program
    BY DEF Types, TypeOK
  <2> QED
    BY <2>1, <2>2, <1>9, TypesFromParts, NextPassedAreKnown, SameLines DEF Finish, Types, TypeOK
<1>10. ASSUME NEW k \in 0..Len(cache), Crash(k) PROVE Types'
  <2>1. file' \in File(OwnLine) /\ cache' \in Seq(OwnLine)
    BY <1>10, CrashFile, EmptySeq DEF Crash
  <2>2. crashes' \in 0..MaxCrashes /\ complete' \in {"no", "marked", "lost"}
    BY <1>10, DurableAssumption DEF Crash, Types, TypeOK
  <2> QED
    BY <2>1, <2>2, <1>10, TypesFromParts, NextPassedAreKnown, SameLines DEF Crash, Types, TypeOK
<1>11. CASE UNCHANGED vars
  BY <1>11, TypesFromParts, NextPassedAreKnown, SameLines DEF Types, TypeOK
<1> QED
  BY <1>1, <1>2, <1>3, <1>4, <1>5, <1>6, <1>7, <1>8, <1>9, <1>10, <1>11
     DEF Next, Run, Finished

-----------------------------------------------------------------------------
\* An append that is completed, or torn, keeps the whole steps that count.
LEMMA WriteKeeps ==
  ASSUME TypeOK, NEW f \in File(OwnLine), NEW x \in Recorded,
         NEW g, g = Put(f, x) \/ g \in Cut(f, x),
         NEW k \in Live(f), Whole(f, k)
  PROVE  k \in Live(g) /\ g.lines[k] = f.lines[k] /\ Whole(g, k)
<1>1. f \in File(Text)
  BY OwnFile
<1>2. /\ x \in Text /\ x.op # "done"
      /\ Unreadable \in Text /\ Unreadable.op # "done"
  BY Kinds DEF Recorded, Steps, Text
<1>3. PICK y \in {x, Unreadable} : g.lines = Appended(f, y)
  BY DEF Put, Cut
<1>4. y \in Text /\ y.op # "done"
  BY <1>2
<1> QED
  BY <1>1, <1>3, <1>4, AppendKeepsStep DEF Whole

\* With safe steps, a record that is being written is the only line in the cache.
LEMMA OnlyLine ==
  ASSUME Types, LineInCache, CacheIsOne, safe # {}
  PROVE  \/ cache = << >> /\ Visible = file
         \/ /\ mode = "recording" /\ cache = <<Last(cache)>>
            /\ Last(cache) \in Recorded /\ Visible = Put(file, Last(cache))
<1>1. CASE mode = "recording"
  <2>1. PICK front \in Seq(OwnLine) : cache = Append(front, Last(cache))
    BY <1>1, LastInCache
  <2>2. Last(cache) \in Recorded /\ Last(cache) \in OwnLine
    BY <1>1, LastInCache DEF OwnLine
  <2>3. Len(cache) = Len(front) + 1 /\ Len(front) \in Nat
    BY <2>1, <2>2, AppendProperties, LenProperties
  <2>4. front = << >>
    BY <2>3, <1>1, EmptySeq DEF CacheIsOne
  <2>5. Visible = Put(PutAll(file, << >>), Last(cache))
    <3>1. file \in File(OwnLine) /\ Unreadable \in OwnLine
      BY OwnLines DEF Types
    <3>2. PutAll(file, Append(front, Last(cache))) = Put(PutAll(file, front), Last(cache))
      BY <3>1, <2>2, PutOneMore
    <3> QED
      BY <3>2, <2>1, <2>4 DEF Visible
  <2> QED
    BY <2>1, <2>2, <2>4, <2>5, <1>1, PutNothing
<1>2. CASE mode # "recording"
  BY <1>2, PutNothing DEF CacheIsOne, Visible
<1> QED
  BY <1>1, <1>2

\* The return of fsync keeps the records of safe steps.
LEMMA SyncKeeps ==
  ASSUME Types, LineInCache, CacheIsOne, safe # {},
         NEW k \in Live(file), Whole(file, k)
  PROVE  k \in Live(Visible) /\ Visible.lines[k] = file.lines[k] /\ Whole(Visible, k)
BY OnlyLine, WriteKeeps DEF Types

\* A crash keeps them too, whatever it leaves of the line that is being written.
LEMMA CrashKeeps ==
  ASSUME Types, LineInCache, CacheIsOne, safe # {},
         NEW j \in 0..Len(cache), NEW g \in Remains(j),
         NEW k \in Live(file), Whole(file, k)
  PROVE  k \in Live(g) /\ g.lines[k] = file.lines[k] /\ Whole(g, k)
<1>1. CASE cache = << >>
  <2>1. j = 0 /\ ~ (j < Len(cache))
    BY <1>1
  <2>2. SubSeq(cache, 1, j) = << >>
    BY <2>1, SubSeqEmpty
  <2>3. g = file
    BY <2>1, <2>2, PutNothing DEF Remains
  <2> QED
    BY <2>3
<1>2. CASE cache # << >>
  <2> DEFINE x == Last(cache)
  <2>1. cache = <<x>> /\ x \in Recorded
    BY <1>2, OnlyLine
  <2>2. Len(cache) = 1 /\ cache[1] = x
    BY <2>1
  <2> DEFINE whole == PutAll(file, SubSeq(cache, 1, j))
  <2>3. \/ g = whole
        \/ j < Len(cache) /\ g \in Cut(whole, cache[j + 1])
    BY DEF Remains
  <2>4. CASE j = 0
    <3>1. whole = file
      <4>1. SubSeq(cache, 1, j) = << >>
        BY <2>4, SubSeqEmpty
      <4> QED
        BY <4>1, PutNothing
    <3>2. g = file \/ g \in Cut(file, cache[j + 1])
      BY <3>1, <2>3
    <3>3. cache[j + 1] = x
      BY <2>2, <2>4
    <3> QED
      BY <3>2, <3>3, <2>1, WriteKeeps DEF Types
  <2>5. CASE j = 1
    <3>1. SubSeq(cache, 1, j) = cache
      BY <2>2, <2>5, SubSeqFull DEF Types
    <3>2. whole = Visible
      BY <3>1 DEF Visible
    <3>3. g = Visible
      BY <3>2, <2>2, <2>3, <2>5
    <3> QED
      BY <3>3, SyncKeeps
  <2> QED
    BY <2>2, <2>4, <2>5
<1> QED
  BY <1>1, <1>2

\* A record written behind readable lines counts.
LEMMA SyncHolds ==
  ASSUME Types, LineInCache, mode = "recording", Intact(Visible)
  PROVE  \E k \in Live(Visible) : Visible.lines[k] = Last(cache) /\ Whole(Visible, k)
<1> DEFINE x == Last(cache)
<1>1. PICK front \in Seq(OwnLine) : cache = Append(front, x)
  BY LastInCache
<1>2. x \in Recorded /\ x \in OwnLine /\ x.op = "step"
  BY LastInCache DEF OwnLine
<1>3. PICK w \in File(OwnLine) : w = PutAll(file, front)
  BY OwnLines, PutAllFile DEF Types
<1>4. Visible = Put(w, x)
  <2>1. PutAll(file, Append(front, x)) = Put(PutAll(file, front), x)
    BY <1>2, OwnLines, PutOneMore DEF Types
  <2> QED
    BY <2>1, <1>1, <1>3 DEF Visible
<1>5. /\ w.lines \in Seq(Text) /\ Len(w.lines) \in Nat /\ x \in Text
      /\ DOMAIN w.lines = 1..Len(w.lines)
  BY <1>2, OwnFile, OwnLines, LenProperties DEF Types
<1>6. ~ w.cut
  <2> SUFFICES ASSUME w.cut PROVE FALSE
    OBVIOUS
  <2>1. w.lines # << >> /\ Len(w.lines) \in 1..Len(w.lines)
    BY <1>5, EmptySeq DEF File
  <2>2. Visible.lines = [w.lines EXCEPT ![Len(w.lines)] = Unreadable]
    BY <1>4 DEF Put, Appended
  <2>3. Len(w.lines) \in DOMAIN Visible.lines /\ Visible.lines[Len(w.lines)] = Unreadable
    BY <2>1, <2>2, <1>5
  <2> QED
    BY <2>3, Kinds DEF Intact
<1>7. Visible.lines = Append(w.lines, x) /\ ~ Visible.cut
  BY <1>4, <1>6 DEF Put, Appended
<1>8. Unbroken(w.lines)
  <2>1. ASSUME NEW i \in 1..Len(w.lines) PROVE w.lines[i].op # "bad"
    <3>1. i \in DOMAIN Visible.lines /\ Visible.lines[i] = w.lines[i]
      BY <1>5, <1>7, AppendProperties, LenProperties
    <3> QED
      BY <3>1 DEF Intact
  <2> QED
    BY <2>1 DEF Unbroken
<1>9. Len(w.lines) + 1 \in Live(Visible) /\ Visible.lines[Len(w.lines) + 1] = x
  BY <1>2, <1>5, <1>7, <1>8, LiveAfterStep, AppendProperties
<1> QED
  BY <1>7, <1>9 DEF Whole

-----------------------------------------------------------------------------
\* Which steps count in a file.

\* It is the lines that decide.
LEMMA PlacesDecide ==
  ASSUME NEW f, NEW g, f.lines = g.lines
  PROVE  Places(f) = Places(g)
BY LinesDecide DEF Places

\* One line more: nothing, the end of all steps, or a step that counts.
LEMMA PlacesOfAppend ==
  ASSUME NEW s \in Seq(Text), NEW x \in Text, NEW f, f.lines = s,
         NEW g, g.lines = Append(s, x)
  PROVE  Places(g) = IF ~ Unbroken(s) \/ x.op = "bad" THEN Places(f)
                     ELSE IF x.op = "done" THEN {} ELSE Places(f) \cup {x.at}
<1> DEFINE n == Len(s)
<1>1. /\ n \in Nat /\ g.lines[n + 1] = x /\ \A i \in 1..n : g.lines[i] = f.lines[i]
  BY AppendProperties, LenProperties
<1>2. \A k \in Live(f) : k \in 1..n
  BY LiveAreSteps
<1>3. CASE ~ Unbroken(s) \/ x.op = "bad"
  <2>1. Live(g) = Live(f)
    BY <1>3, LiveAfterBad
  <2> QED
    BY <2>1, <1>1, <1>2, <1>3 DEF Places
<1>4. CASE Unbroken(s) /\ x.op = "done"
  <2>1. Live(g) = {}
    BY <1>4, Kinds, LiveAfterDone
  <2> QED
    BY <2>1, <1>4 DEF Places
<1>5. CASE Unbroken(s) /\ x.op = "step"
  <2>1. Live(g) = Live(f) \cup {n + 1}
    BY <1>5, LiveAfterStep
  <2>2. \A k \in Live(f) : g.lines[k] = f.lines[k]
    BY <1>1, <1>2
  <2>3. Places(g) = Places(f) \cup {x.at}
    BY <2>1, <2>2, <1>1 DEF Places
  <2> QED
    BY <2>3, <1>5
<1> QED
  BY <1>3, <1>4, <1>5, Kinds

\* A file is intact when its lines can be read and the last one is whole.
LEMMA IntactLines ==
  ASSUME NEW f \in File(Text)
  PROVE  /\ f.lines \in Seq(Text) /\ f.cut \in BOOLEAN
         /\ Intact(f) <=> ~ f.cut /\ Unbroken(f.lines)
         /\ f.cut => f.lines # << >>
<1>1. f.lines \in Seq(Text) /\ DOMAIN f.lines = 1..Len(f.lines)
  BY LenProperties DEF File
<1> QED
  BY <1>1 DEF File, Intact, Unbroken

\* A file without its cut line has the lines before that one.
LEMMA UncutLines ==
  ASSUME NEW f \in File(Text)
  PROVE  /\ Uncut(f).lines \in Seq(Text)
         /\ ~ f.cut => Uncut(f) = f
         /\ f.cut => /\ Uncut(f).lines = Front(f.lines)
                     /\ f.lines = Append(Front(f.lines), Last(f.lines))
                     /\ Last(f.lines) \in Text
<1>1. f.lines \in Seq(Text) /\ (f.cut => f.lines # << >>)
  BY IntactLines
<1> QED
  BY <1>1, FrontAndLast DEF Uncut

\* The lines after an append: the front, or all, of those before and one that is there now.
LEMMA LinesOfAppended ==
  ASSUME NEW f \in File(Text), NEW x \in Text
  PROVE  \E y \in Text :
           /\ Appended(f, x) = Append(Uncut(f).lines, y)
           /\ f.cut => y.op = "bad"
           /\ ~ f.cut => y = x
<1>1. CASE ~ f.cut
  BY <1>1, UncutLines DEF Appended
<1>2. CASE f.cut
  <2> DEFINE s == Front(f.lines)
             n == Len(f.lines)
             t == [f.lines EXCEPT ![n] = Unreadable]
  <2>1. /\ f.lines \in Seq(Text) /\ f.lines # << >>
        /\ s \in Seq(Text) /\ f.lines = Append(s, Last(f.lines)) /\ n = Len(s) + 1
        /\ Last(f.lines) \in Text
    BY <1>2, IntactLines, FrontAndLast
  <2>2. n \in 1..n /\ Len(s) \in Nat /\ \A i \in 1..Len(s) : f.lines[i] = s[i]
    BY <2>1, LenProperties, AppendProperties
  <2>3. /\ t \in Seq(Text) /\ Len(t) = n
        /\ \A i \in 1..n : t[i] = IF i = n THEN Unreadable ELSE f.lines[i]
    BY <2>1, <2>2, Kinds, ExceptSeq
  <2>4. /\ Append(s, Unreadable) \in Seq(Text) /\ Len(Append(s, Unreadable)) = n
        /\ \A i \in 1..Len(s) : Append(s, Unreadable)[i] = s[i]
        /\ Append(s, Unreadable)[n] = Unreadable
    BY <2>1, Kinds, AppendProperties
  <2>5. \A i \in 1..n : t[i] = Append(s, Unreadable)[i]
    <3> SUFFICES ASSUME NEW i \in 1..n PROVE t[i] = Append(s, Unreadable)[i]
      OBVIOUS
    <3>1. i = n \/ i \in 1..Len(s)
      BY <2>1, <2>2
    <3> QED
      BY <3>1, <2>1, <2>2, <2>3, <2>4
  <2>6. t = Append(s, Unreadable)
    BY <2>3, <2>4, <2>5, SeqEqual
  <2>7. Uncut(f).lines = s /\ Appended(f, x) = t
    BY <1>2 DEF Uncut, Appended
  <2> QED
    BY <2>6, <2>7, <1>2, Kinds
<1> QED
  BY <1>1, <1>2

\* An append to an intact file.
LEMMA AppendToIntact ==
  ASSUME NEW f \in File(Text), NEW x \in Text, Intact(f),
         NEW g, g.lines = Appended(f, x)
  PROVE  /\ g.lines = Append(f.lines, x)
         /\ Places(g) = IF x.op = "bad" THEN Places(f)
                        ELSE IF x.op = "done" THEN {} ELSE Places(f) \cup {x.at}
         /\ Unbroken(g.lines) <=> x.op # "bad"
<1>1. f.lines \in Seq(Text) /\ ~ f.cut /\ Unbroken(f.lines)
  BY IntactLines
<1>2. g.lines = Append(f.lines, x)
  BY <1>1 DEF Appended
<1>3. Places(g) = IF x.op = "bad" THEN Places(f)
                  ELSE IF x.op = "done" THEN {} ELSE Places(f) \cup {x.at}
  BY <1>1, <1>2, PlacesOfAppend
<1>4. /\ Len(f.lines) \in Nat /\ Len(g.lines) = Len(f.lines) + 1
      /\ g.lines[Len(f.lines) + 1] = x
      /\ \A i \in 1..Len(f.lines) : g.lines[i] = f.lines[i]
  BY <1>1, <1>2, AppendProperties, LenProperties
<1>5. 1..Len(g.lines) = 1..Len(f.lines) \cup {Len(f.lines) + 1}
  BY <1>4
<1> QED
  BY <1>1, <1>2, <1>3, <1>4, <1>5 DEF Unbroken

\* An append to a damaged file changes nothing but that a cut line is lost.
LEMMA AppendToDamaged ==
  ASSUME NEW f \in File(Text), NEW x \in Text, ~ Intact(f),
         NEW g, g.lines = Appended(f, x)
  PROVE  Places(g) = Places(Uncut(f)) /\ ~ Unbroken(g.lines)
<1>1. PICK y \in Text : /\ g.lines = Append(Uncut(f).lines, y)
                        /\ f.cut => y.op = "bad"
                        /\ ~ f.cut => y = x
  BY LinesOfAppended
<1> DEFINE s == Uncut(f).lines
<1>2. s \in Seq(Text) /\ (~ Unbroken(s) \/ y.op = "bad")
  <2>1. CASE f.cut
    BY <2>1, <1>1, UncutLines
  <2>2. CASE ~ f.cut
    BY <2>2, UncutLines, IntactLines
  <2> QED
    BY <2>1, <2>2
<1>3. Places(g) = Places(Uncut(f))
  BY <1>1, <1>2, PlacesOfAppend
<1>4. /\ Len(s) \in Nat /\ Len(g.lines) = Len(s) + 1 /\ g.lines[Len(s) + 1] = y
      /\ \A i \in 1..Len(s) : g.lines[i] = s[i]
  BY <1>1, <1>2, AppendProperties, LenProperties
<1>5. 1..Len(s) \subseteq 1..Len(g.lines) /\ Len(s) + 1 \in 1..Len(g.lines)
  BY <1>4
<1> QED
  BY <1>2, <1>3, <1>4, <1>5 DEF Unbroken

\* The end mark ends all steps of a file that can be read, and needs no fsync for it.
LEMMA DoneEmpties ==
  ASSUME Types, Intact(Visible), cache' = Append(cache, Done), file' = file
  PROVE  Live(Visible') = {}
<1>1. Visible' = Put(Visible, Done)
  BY OwnLines, PutOneMore DEF Visible, Types
<1>2. Visible.lines \in Seq(Text)
  BY VisibleIsFile, OwnFile DEF Types
<1>3. Visible'.lines = Append(Visible.lines, Done)
  BY <1>1 DEF Intact, Put, Appended
<1>4. Unbroken(Visible.lines)
  BY <1>2, LenProperties DEF Intact, Unbroken
<1> QED
  BY <1>2, <1>3, <1>4, LiveAfterDone

\* An end mark, whole or torn, ends all steps or keeps every one that is whole.
LEMMA MarkKeepsOrEnds ==
  ASSUME NEW f \in File(Text), NEW x \in {Done, Unreadable},
         NEW g, g.lines = Appended(f, x),
         NEW k \in Live(f), Whole(f, k)
  PROVE  Live(g) = {} \/ (k \in Live(g) /\ g.lines[k] = f.lines[k])
<1>1. f.lines \in Seq(Text) /\ f.cut \in BOOLEAN
  BY DEF File
<1>2. CASE f.cut
  <2>1. g.lines = Appended(f, Unreadable)
    BY <1>2 DEF Appended
  <2> QED
    BY <2>1, Kinds, AppendKeepsStep
<1>3. CASE ~ f.cut /\ x = Unreadable
  BY <1>3, Kinds, AppendKeepsStep
<1>4. CASE ~ f.cut /\ x = Done
  <2>1. g.lines = Append(f.lines, Done)
    BY <1>4 DEF Appended
  <2>2. CASE Unbroken(f.lines)
    BY <2>1, <2>2, <1>1, LiveAfterDone
  <2>3. CASE ~ Unbroken(f.lines)
    <3>1. Live(g) = Live(f)
      BY <2>1, <2>3, <1>1, Kinds, LiveAfterBad
    <3>2. k \in 1..Len(f.lines)
      BY <1>1, LiveAreSteps
    <3> QED
      BY <3>1, <3>2, <2>1, <1>1, Kinds, AppendProperties
  <2> QED
    BY <2>2, <2>3
<1> QED
  BY <1>1, <1>2, <1>3, <1>4

-----------------------------------------------------------------------------
\* Steps of the execution that leave the disk and the records of safe steps alone.
Quiet == UNCHANGED <<given, disk, history>>

\* What a step does to the disk and to the records of safe steps, and where it goes.
LEMMA Moves ==
  ASSUME [Next]_vars
  PROVE  \/ Quiet /\ UNCHANGED <<mode, pos, entries, spent, inner, live>>
         \/ Quiet /\ mode' = "down" /\ mode \in {"steps", "body"}
            /\ UNCHANGED entries /\ live' = 0
         \/ Quiet /\ mode = "steps" /\ mode' \in {"steps", "body"}
            /\ UNCHANGED <<entries, spent, live>>
         \/ \E p \in Price : Spend(p)
         \/ \E p \in Price \cup {0} : Begin(p)
         \/ Record
         \/ Sync
         \/ Finish
         \/ \E k \in 0..Len(cache) : Crash(k)
<1> USE DEF Quiet, given, disk, process, money, history, vars
<1>1. CASE Replay
  BY <1>1 DEF Replay, AtStep
<1>2. CASE ReplayTwice
  BY <1>2 DEF ReplayTwice, AtStep, Die
<1>3. CASE Execute
  BY <1>3 DEF Execute, AtStep
<1>4. CASE Raise
  BY <1>4 DEF Raise, Die
<1>5. CASE UNCHANGED vars
  BY <1>5
<1> QED
  BY <1>1, <1>2, <1>3, <1>4, <1>5 DEF Next, Run, Finished

\* With safe steps at most the line that is being synced is in the cache.
LEMMA NextCacheIsOne ==
  ASSUME Types, CacheIsOne, [Next]_vars
  PROVE  CacheIsOne'
<1> USE DEF Quiet, given, disk, process, money, history, vars
<1>1. CASE Quiet /\ UNCHANGED mode
  BY <1>1 DEF CacheIsOne
<1>2. CASE Quiet /\ mode \in {"steps", "body"} /\ mode' \in {"down", "steps", "body"}
  BY <1>2 DEF CacheIsOne
<1>3. ASSUME NEW p \in Price, Spend(p) PROVE CacheIsOne'
  BY <1>3 DEF Spend, CacheIsOne
<1>4. ASSUME NEW p \in Price \cup {0}, Begin(p) PROVE CacheIsOne'
  BY <1>4 DEF Begin, CacheIsOne
<1>5. CASE Record
  <2> DEFINE line == StepLine(Here.label, pos, Billed)
  <2>1. line \in Text /\ cache \in Seq(Text)
    BY <1>5, RecordedLine, CacheIsText DEF Record, Types
  <2>2. safe # {} => cache = << >>
    BY <1>5 DEF Record, CacheIsOne
  <2>3. cache = << >> => Len(cache') = 1
    BY <1>5, <2>1, AppendProperties, EmptySeq DEF Record
  <2> QED
    BY <1>5, <2>2, <2>3 DEF Record, CacheIsOne
<1>6. CASE Sync
  BY <1>6 DEF Sync, CacheIsOne
<1>7. CASE Finish
  BY <1>7 DEF Finish, CacheIsOne
<1>8. ASSUME NEW k \in 0..Len(cache), Crash(k) PROVE CacheIsOne'
  BY <1>8 DEF Crash, CacheIsOne
<1> QED
  BY Moves, <1>1, <1>2, <1>3, <1>4, <1>5, <1>6, <1>7, <1>8

\* A line that is being synced says what its step has spent.
LEMMA NextLineInCache ==
  ASSUME Types, LineInCache, [Next]_vars
  PROVE  LineInCache'
<1> USE DEF Quiet, given, disk, process, money, history, vars
<1>1. CASE Quiet /\ UNCHANGED <<mode, pos, entries, spent, inner, live>>
  BY <1>1 DEF LineInCache, Here, Billed, Last
<1>2. CASE mode' # "recording"
  BY <1>2 DEF LineInCache
<1>3. CASE Record
  <2> DEFINE line == StepLine(Here.label, pos, Billed)
  <2>1. line \in Text /\ cache \in Seq(Text)
    BY <1>3, RecordedLine, CacheIsText DEF Record, Types
  <2>2. cache' # << >> /\ cache'[Len(cache')] = line
    BY <1>3, <2>1, AppendProperties DEF Record
  <2>3. line' = line
    BY <1>3 DEF Record, Here, Billed, StepLine
  <2> QED
    BY <2>2, <2>3 DEF LineInCache, Last
<1>4. ASSUME NEW p \in Price, Spend(p) PROVE mode' # "recording"
  BY <1>4 DEF Spend
<1>5. ASSUME NEW p \in Price \cup {0}, Begin(p) PROVE mode' # "recording"
  BY <1>5 DEF Begin
<1>6. Sync \/ Finish => mode' # "recording"
  BY DEF Sync, Finish
<1>7. ASSUME NEW k \in 0..Len(cache), Crash(k) PROVE mode' # "recording"
  BY <1>7 DEF Crash
<1> QED
  BY Moves, <1>1, <1>2, <1>3, <1>4, <1>5, <1>6, <1>7

\* Safe steps keep a record that counts.
LEMMA NextSafeIsHeld ==
  ASSUME Types, CacheIsOne, LineInCache, SafeIsHeld, [Next]_vars
  PROVE  SafeIsHeld'
<1> USE DEF given, disk, process, money, history, vars
<1>1. ASSUME UNCHANGED <<given, file, safe>> PROVE SafeIsHeld'
  BY <1>1 DEF SafeIsHeld, Live, Readable, Whole
<1>2. CASE Sync
  <2>1. program' = program /\ file' = Visible
    BY <1>2 DEF Sync
  <2> SUFFICES ASSUME NEW i \in safe'
               PROVE  \E k \in Live(Visible) :
                        Visible.lines[k].label = program[i].label /\ Whole(Visible, k)
    BY <2>1 DEF SafeIsHeld, Live, Readable, Whole
  <2>2. CASE i \in safe
    <3>1. PICK k \in Live(file) :
            file.lines[k].label = program[i].label /\ Whole(file, k)
      BY <2>2 DEF SafeIsHeld
    <3> QED
      BY <2>2, <3>1, SyncKeeps
  <2>3. CASE i \notin safe
    <3>1. i = pos /\ Intact(Visible) /\ mode = "recording"
      BY <1>2, <2>3 DEF Sync, SafelyRecorded
    <3>2. Last(cache).label = program[i].label
      BY <3>1, LastInCache DEF Here
    <3> QED
      BY <3>1, <3>2, SyncHolds
  <2> QED
    BY <2>2, <2>3
<1>3. CASE Finish
  BY <1>3 DEF Finish, SafeIsHeld
<1>4. ASSUME NEW j \in 0..Len(cache), Crash(j) PROVE SafeIsHeld'
  <2>1. program' = program /\ safe' = safe /\ file' \in Remains(j)
    BY <1>4 DEF Crash
  <2>2. PICK g : g = file'
    OBVIOUS
  <2>3. ASSUME NEW i \in safe
        PROVE  \E k \in Live(g) : g.lines[k].label = program[i].label /\ Whole(g, k)
    <3>1. PICK k \in Live(file) :
            file.lines[k].label = program[i].label /\ Whole(file, k)
      BY DEF SafeIsHeld
    <3> QED
      BY <2>1, <2>2, <3>1, CrashKeeps
  <2> QED
    BY <2>1, <2>2, <2>3 DEF SafeIsHeld, Live, Readable, Whole
<1>5. ASSUME NEW p \in Price, Spend(p) PROVE UNCHANGED <<given, file, safe>>
  BY <1>5 DEF Spend
<1>6. ASSUME NEW p \in Price \cup {0}, Begin(p) PROVE UNCHANGED <<given, file, safe>>
  BY <1>6 DEF Begin
<1>7. Record => UNCHANGED <<given, file, safe>>
  BY DEF Record
<1>8. Quiet => UNCHANGED <<given, file, safe>>
  BY DEF Quiet
<1> QED
  BY Moves, <1>1, <1>2, <1>3, <1>4, <1>5, <1>6, <1>7, <1>8

\* An execution that begins with safe steps reads their records.
LEMMA BeginReads ==
  ASSUME Types, CacheIsOne, LineInCache, SafeIsHeld, mode = "down", safe # {}
  PROVE  Visible = file /\ \A i \in safe : EntryOf(file, program[i].label) # NoStep
<1>1. Visible = file
  BY OnlyLine
<1>2. ASSUME NEW i \in safe PROVE EntryOf(file, program[i].label) # NoStep
  <2>1. PICK k \in Live(file) : file.lines[k].label = program[i].label
    BY DEF SafeIsHeld
  <2>2. EntryOf(file, file.lines[k].label) # NoStep
    BY HeldIsEntered DEF Types
  <2> QED
    BY <2>1, <2>2
<1> QED
  BY <1>1, <1>2

\* An execution knows the safe steps, from its beginning or since it has recorded them.
LEMMA NextSafeIsKnown ==
  ASSUME Types, CacheIsOne, LineInCache, SafeIsHeld, SafeIsKnown, [Next]_vars
  PROVE  SafeIsKnown'
<1> USE DEF given, disk, process, money, history, vars
<1>0. \A i \in safe : program[i].label \in Label
  BY Function DEF Types, TypeOK
<1>1. ASSUME UNCHANGED <<given, entries, safe>>, mode # "down" \/ mode' = "down"
      PROVE  SafeIsKnown'
  BY <1>1 DEF SafeIsKnown
<1>2. ASSUME NEW p \in Price \cup {0}, Begin(p) PROVE SafeIsKnown'
  <2>1. program' = program /\ safe' = safe /\ entries' = Entries(Visible) /\ mode = "down"
    BY <1>2 DEF Begin
  <2>2. ASSUME NEW i \in safe PROVE entries'[program[i].label] # NoStep
    BY <2>1, <1>0, BeginReads DEF Entries
  <2> QED
    BY <2>1, <2>2 DEF SafeIsKnown
<1>3. CASE Sync
  <2>1. /\ program' = program /\ safe' \subseteq safe \cup {pos}
        /\ entries' = [entries EXCEPT ![Here.label] = Last(cache)]
        /\ mode = "recording"
    BY <1>3 DEF Sync, SafelyRecorded
  <2>2. /\ Last(cache) # NoStep
        /\ entries \in [Label -> Line \cup {NoStep}] /\ Here.label \in Label
    BY <2>1, LastInCache, OwnLines, Function DEF Types, TypeOK, Here
  <2>3. ASSUME NEW i \in safe \cup {pos} PROVE entries'[program[i].label] # NoStep
    <3>1. CASE program[i].label = Here.label
      BY <3>1, <2>1, <2>2
    <3>2. CASE program[i].label # Here.label
      <4>1. i \in safe
        BY <3>2 DEF Here
      <4>2. entries'[program[i].label] = entries[program[i].label]
        BY <4>1, <3>2, <2>1, <2>2, <1>0
      <4> QED
        BY <4>1, <4>2, <2>1 DEF SafeIsKnown
    <3> QED
      BY <3>1, <3>2
  <2> QED
    BY <2>1, <2>3 DEF SafeIsKnown
<1>4. CASE Finish
  BY <1>4 DEF Finish, SafeIsKnown
<1>5. ASSUME NEW k \in 0..Len(cache), Crash(k) PROVE SafeIsKnown'
  BY <1>5 DEF Crash, SafeIsKnown
<1>6. ASSUME NEW p \in Price, Spend(p) PROVE SafeIsKnown'
  BY <1>6, <1>1 DEF Spend
<1>7. CASE Record
  BY <1>7, <1>1 DEF Record
<1>8. CASE Quiet /\ UNCHANGED entries /\ (mode # "down" \/ mode' = "down")
  BY <1>8, <1>1 DEF Quiet
<1> QED
  BY Moves, <1>2, <1>3, <1>4, <1>5, <1>6, <1>7, <1>8

\* The end mark of Finish: either it can be read, or nothing is taken from the safe steps.
LEMMA FinishAllOrNone ==
  ASSUME IInv, Finish
  PROVE  AllOrNone'
<1>1. /\ program' = program /\ file' = file /\ cache' = Append(cache, Done)
      /\ mode' = "down" /\ complete' = "marked" /\ finished' = safe
      /\ mode # "recording"
  BY DEF Finish, given
<1>2. Types
  BY DEF IInv
<1>3. file \in File(Text) /\ Visible \in File(Text)
  BY <1>2, VisibleIsFile, OwnFile DEF Types
<1>4. Visible' = Put(Visible, Done)
  BY <1>1, <1>2, OwnLines, PutOneMore DEF Visible, Types
<1>5. PICK g : g = Visible'
  OBVIOUS
<1>6. g.lines = Appended(Visible, Done)
  BY <1>4, <1>5 DEF Put
<1>7. Intact(Visible) => Live(g) = {}
  BY <1>1, <1>2, <1>5, DoneEmpties
<1>8. ~ Intact(Visible) => ~ Intact(g)
  <2>1. g \in File(Text)
    BY <1>3, <1>4, <1>5, Kinds, WrittenFiles
  <2> QED
    BY <2>1, <1>3, <1>6, Kinds, AppendToDamaged, IntactLines
<1>9. safe # {} => Visible = file /\ cache = << >>
  BY <1>1, <1>2, OnlyLine DEF IInv
<1>10. \A i \in safe : \E k \in Live(file) :
         file.lines[k].label = program[i].label /\ Whole(file, k)
  BY DEF IInv, SafeIsHeld
<1>11. Live(g) = {} \/ \A i \in safe : \E k \in Live(g) : g.lines[k].label = program[i].label
  <2> SUFFICES ASSUME Live(g) # {}, NEW i \in safe
               PROVE  \E k \in Live(g) : g.lines[k].label = program[i].label
    OBVIOUS
  <2>1. PICK k \in Live(file) : file.lines[k].label = program[i].label /\ Whole(file, k)
    BY <1>10
  <2>2. g.lines = Appended(file, Done)
    BY <1>6, <1>9
  <2>3. k \in Live(g) /\ g.lines[k] = file.lines[k]
    BY <2>1, <2>2, <1>3, MarkKeepsOrEnds
  <2> QED
    BY <2>1, <2>3
<1>12. safe # {} => cache' = <<Done>>
  <2>1. << >> \in Seq({Done}) /\ <<Done>> \in Seq({Done})
    BY EmptySeq
  <2>2. Append(<< >>, Done) = << >> \o <<Done>>
    BY <2>1, AppendIsConcat
  <2>3. << >> \o <<Done>> = <<Done>>
    BY <2>1, ConcatEmptySeq
  <2> QED
    BY <2>2, <2>3, <1>1, <1>9
<1> QED
  BY <1>1, <1>5, <1>7, <1>8, <1>10, <1>11, <1>12
     DEF AllOrNone, Live, Readable, Intact, Whole

\* A crash takes the end mark back, tears it or leaves it.
LEMMA CrashAllOrNone ==
  ASSUME Types, AllOrNone, NEW j \in 0..Len(cache), Crash(j)
  PROVE  AllOrNone'
<1>1. /\ program' = program /\ file' \in Remains(j) /\ cache' = << >>
      /\ mode' = "down" /\ finished' = finished
      /\ complete' = IF complete = "marked" /\ j < Len(cache) THEN "lost" ELSE complete
  BY DEF Crash, given
<1>2. PICK g : g = file'
  OBVIOUS
<1>3. Visible' = g
  BY <1>1, <1>2, PutNothing DEF Visible
<1>4. /\ Len(cache) \in Nat /\ (cache # << >> => Len(cache) # 0)
      /\ complete \in {"no", "marked", "lost"}
  BY LenProperties, EmptySeq DEF Types, TypeOK
<1>5. CASE complete = "no"
  BY <1>1, <1>5 DEF AllOrNone
<1>6. CASE complete # "no" /\ j = Len(cache)
  <2>1. ~ (j < Len(cache)) /\ SubSeq(cache, 1, j) = cache
    BY <1>4, <1>6, SubSeqFull DEF Types
  <2>2. g = Visible
    BY <2>1, <1>1, <1>2 DEF Remains, Visible
  <2>3. complete' = complete
    BY <2>1, <1>1
  <2> QED
    BY <2>2, <2>3, <1>1, <1>3, <1>6 DEF AllOrNone, Live, Readable, Intact
<1>7. CASE complete # "no" /\ j # Len(cache)
  <2>1. j < Len(cache) /\ cache # << >> /\ complete' = "lost"
    <3>1. j < Len(cache)
      BY <1>4, <1>7
    <3> QED
      BY <3>1, <1>1, <1>4, <1>7
  <2>2. Live(g) = {} \/ \A i \in finished : \E k \in Live(g) : g.lines[k].label = program[i].label
    <3> SUFFICES ASSUME Live(g) # {}, NEW i \in finished
                 PROVE  \E k \in Live(g) : g.lines[k].label = program[i].label
      OBVIOUS
    <3>1. cache = <<Done>>
      BY <2>1, <1>7 DEF AllOrNone
    <3>2. PICK k \in Live(file) : file.lines[k].label = program[i].label /\ Whole(file, k)
      BY <2>1, <1>7 DEF AllOrNone
    <3>3. Len(cache) = 1 /\ j = 0 /\ cache[j + 1] = Done
      BY <3>1, <2>1
    <3>4. SubSeq(cache, 1, j) = << >>
      BY <3>3, SubSeqEmpty
    <3>5. g = file \/ g \in Cut(file, Done)
      <4> DEFINE whole == PutAll(file, SubSeq(cache, 1, j))
      <4>1. whole = file
        BY <3>4, PutNothing
      <4>2. g = whole \/ g \in Cut(whole, cache[j + 1])
        BY <1>1, <1>2 DEF Remains
      <4> QED
        BY <4>1, <4>2, <3>3
    <3>6. CASE g = file
      BY <3>2, <3>6
    <3>7. CASE g \in Cut(file, Done)
      <4>1. PICK x \in {Done, Unreadable} : g.lines = Appended(file, x)
        BY <3>7 DEF Cut
      <4>2. file \in File(Text)
        BY OwnFile DEF Types
      <4>3. k \in Live(g) /\ g.lines[k] = file.lines[k]
        BY <4>1, <4>2, <3>2, MarkKeepsOrEnds
      <4> QED
        BY <4>3, <3>2
    <3> QED
      BY <3>5, <3>6, <3>7
  <2> QED
    BY <2>1, <2>2, <1>1, <1>3 DEF AllOrNone, Live, Readable
<1> QED
  BY <1>5, <1>6, <1>7

\* Between a completion and the next execution nothing else is written.
LEMMA NextAllOrNone ==
  ASSUME IInv, [Next]_vars
  PROVE  AllOrNone'
<1> USE DEF given, disk, process, money, history, vars
<1>0. Types /\ AllOrNone
  BY DEF IInv
<1>1. CASE Quiet /\ (mode # "down" \/ mode' = "down")
  <2>1. Visible' = Visible
    BY <1>1 DEF Quiet, Visible, PutAll, Appended
  <2> QED
    BY <2>1, <1>0, <1>1 DEF Quiet, AllOrNone, Live, Readable, Intact, Whole
<1>2. CASE complete' = "no"
  BY <1>2 DEF AllOrNone
<1>3. CASE Finish
  BY <1>3, FinishAllOrNone
<1>4. ASSUME NEW k \in 0..Len(cache), Crash(k) PROVE AllOrNone'
  BY <1>0, <1>4, CrashAllOrNone
<1>5. ASSUME NEW p \in Price \cup {0}, Begin(p) PROVE complete' = "no"
  BY <1>5 DEF Begin
<1>6. ASSUME complete' = complete, mode # "down" PROVE complete' = "no"
  BY <1>0, <1>6 DEF AllOrNone
<1>7. ASSUME Record \/ Sync \/ \E p \in Price : Spend(p) PROVE complete' = "no"
  BY <1>6, <1>7 DEF Record, Sync, Spend
<1> QED
  BY Moves, <1>1, <1>2, <1>3, <1>4, <1>5, <1>7

\* A step without a frame of its own is recorded with the frame's spend.
LEMMA LineHasSpent ==
  ASSUME Types, LineInCache, FrameIsBilled, mode = "recording"
  PROVE  Last(cache).spent = spent
<1>1. Billed = spent
  BY DEF FrameIsBilled, Types, Here, Billed
<1> QED
  BY <1>1, LastInCache

\* The record that holds the money of the safe steps holds it after a crash.
LEMMA CrashKeepsMoney ==
  ASSUME Types, CacheIsOne, LineInCache, MoneyIsHeld, FrameIsBilled, safe # {},
         NEW j \in 0..Len(cache), NEW g \in Remains(j)
  PROVE  \E k \in Live(g) : g.lines[k].spent >= kept /\ Whole(g, k)
<1>1. PICK k \in Live(file) : file.lines[k].spent >= kept /\ Whole(file, k)
  BY DEF MoneyIsHeld
<1> QED
  BY <1>1, CrashKeeps

\* The money of safe steps is recorded, and that of this execution is in its frame.
LEMMA NextMoneyIsHeld ==
  ASSUME Types, CacheIsOne, LineInCache, SafeIsHeld, MoneyIsHeld, [Next]_vars
  PROVE  MoneyIsHeld'
<1> USE DEF given, disk, process, money, history, vars
<1>0. spent \in Nat /\ live \in Nat /\ kept \in Nat
  BY DEF Types, TypeOK
<1>1. ASSUME UNCHANGED <<given, file, safe, kept>>,
             (mode' = "down") \/ (mode # "down" /\ spent' = spent /\ live' = live)
      PROVE  MoneyIsHeld'
  BY <1>1 DEF MoneyIsHeld, FrameIsBilled, Live, Readable, Whole
<1>2. ASSUME NEW p \in Price, Spend(p) PROVE MoneyIsHeld'
  <2>1. /\ UNCHANGED <<given, file, safe, kept>> /\ mode = "body"
        /\ spent' = spent + p /\ live' = live + p /\ p \in Nat
    BY <1>2, DurableAssumption DEF Spend
  <2>2. FrameIsBilled => spent' >= kept + live'
    BY <2>1, <1>0 DEF MoneyIsHeld
  <2> QED
    BY <2>1, <2>2 DEF MoneyIsHeld, FrameIsBilled, Live, Readable, Whole
<1>3. ASSUME NEW p \in Price \cup {0}, Begin(p) PROVE MoneyIsHeld'
  <2>1. /\ UNCHANGED <<given, file, safe, kept>> /\ mode = "down" /\ live' = 0
        /\ entries' = Entries(Visible)
        /\ spent' = IF entries' # [l \in Label |-> NoStep] THEN SpentIn(Visible) ELSE p
    BY <1>3 DEF Begin
  <2>2. spent' \in Nat
    BY <2>1, <1>3, VisibleIsFile, SpentRead, DurableAssumption DEF Types
  <2>3. ASSUME FrameIsBilled PROVE spent' >= kept
    <3>1. CASE safe = {}
      BY <3>1, <2>2 DEF MoneyIsHeld
    <3>2. CASE safe # {}
      <4>1. Visible = file
        BY <2>1, <3>2, BeginReads
      <4>2. PICK k \in Live(file) : file.lines[k].spent >= kept
        BY <2>3, <3>2 DEF MoneyIsHeld
      <4>3. file.lines[k] \in Recorded /\ EntryOf(file, file.lines[k].label) # NoStep
        BY OwnFile, HeldIsEntered DEF Types
      <4>4. file.lines[k].label \in Label /\ file.lines[k].spent \in Nat
        BY <4>3 DEF Recorded, Steps
      <4>5. entries' # [l \in Label |-> NoStep]
        BY <2>1, <4>1, <4>3, <4>4 DEF Entries
      <4>6. file.lines[k].spent <= SpentIn(file) /\ SpentIn(file) \in Nat
        BY OwnFile, SpentIsGreatest, SpentRead DEF Types
      <4> QED
        BY <2>1, <4>1, <4>2, <4>4, <4>5, <4>6, <1>0
    <3> QED
      BY <3>1, <3>2
  <2>4. FrameIsBilled => spent' >= kept + live'
    BY <2>1, <2>2, <2>3, <1>0
  <2> QED
    BY <2>1, <2>4 DEF MoneyIsHeld, FrameIsBilled, Live, Readable, Whole
<1>4. CASE Sync
  <2>1. /\ program' = program /\ call' = call /\ file' = Visible /\ spent' = spent /\ live' = 0
        /\ mode = "recording"
        /\ safe' = IF Intact(Visible) THEN safe \cup {pos} ELSE safe
        /\ kept' = IF Intact(Visible) THEN kept + live ELSE kept
    BY <1>4 DEF Sync, SafelyRecorded
  <2>2. safe' = {} => kept' = 0
    BY <2>1 DEF MoneyIsHeld
  <2>3. FrameIsBilled => spent' >= kept' + live'
    BY <2>1, <1>0 DEF MoneyIsHeld
  <2>4. ASSUME FrameIsBilled, safe' # {}
        PROVE  \E k \in Live(Visible) : Visible.lines[k].spent >= kept' /\ Whole(Visible, k)
    <3>1. CASE Intact(Visible)
      <4>1. PICK k \in Live(Visible) :
              Visible.lines[k] = Last(cache) /\ Whole(Visible, k)
        BY <2>1, <3>1, SyncHolds
      <4>2. Visible.lines[k].spent = spent
        BY <4>1, <2>1, <2>4, LineHasSpent
      <4>3. spent >= kept'
        BY <2>1, <2>3, <2>4, <1>0
      <4> QED
        BY <4>1, <4>2, <4>3
    <3>2. CASE ~ Intact(Visible)
      <4>1. safe # {} /\ kept' = kept
        BY <2>1, <2>4, <3>2
      <4>2. PICK k \in Live(file) : file.lines[k].spent >= kept /\ Whole(file, k)
        BY <4>1, <2>4 DEF MoneyIsHeld
      <4> QED
        BY <4>1, <4>2, SyncKeeps
    <3> QED
      BY <3>1, <3>2
  <2>5. PICK g : g = file'
    OBVIOUS
  <2>6. ASSUME FrameIsBilled, safe' # {}
        PROVE  \E k \in Live(g) : g.lines[k].spent >= kept' /\ Whole(g, k)
    BY <2>1, <2>4, <2>5, <2>6
  <2> QED
    BY <2>1, <2>2, <2>3, <2>5, <2>6 DEF MoneyIsHeld, FrameIsBilled, Live, Readable, Whole
<1>5. CASE Finish
  BY <1>5 DEF Finish, MoneyIsHeld
<1>6. ASSUME NEW j \in 0..Len(cache), Crash(j) PROVE MoneyIsHeld'
  <2>1. /\ program' = program /\ call' = call /\ UNCHANGED <<safe, kept>> /\ file' \in Remains(j)
        /\ mode' = "down"
    BY <1>6 DEF Crash
  <2>2. PICK g : g = file'
    OBVIOUS
  <2>3. ASSUME FrameIsBilled, safe # {}
        PROVE  \E k \in Live(g) : g.lines[k].spent >= kept /\ Whole(g, k)
    BY <2>1, <2>2, <2>3, CrashKeepsMoney
  <2> QED
    BY <2>1, <2>2, <2>3 DEF MoneyIsHeld, FrameIsBilled, Live, Readable, Whole
<1>7. CASE Record
  <2>1. UNCHANGED <<given, file, safe, kept, spent, live>> /\ mode # "down"
    BY <1>7 DEF Record
  <2> QED
    BY <2>1, <1>1
<1>8. CASE Quiet /\ (mode' = "down" \/ (mode # "down" /\ spent' = spent /\ live' = live))
  BY <1>8, <1>1 DEF Quiet
<1>9. CASE Quiet /\ UNCHANGED <<mode, spent, live>>
  BY <1>9, <1>8
<1> QED
  BY Moves, <1>2, <1>3, <1>4, <1>5, <1>6, <1>7, <1>8, <1>9

-----------------------------------------------------------------------------
\* The inductive invariant holds at the start.
LEMMA InitIInv == Init => IInv
<1> SUFFICES ASSUME Init PROVE IInv
  OBVIOUS
<1>1. Types
  BY InitTypes
<1>2. CacheIsOne /\ LineInCache /\ SafeIsHeld /\ SafeIsKnown /\ AllOrNone
  BY DEF Init, CacheIsOne, LineInCache, SafeIsHeld, SafeIsKnown, AllOrNone
<1>3. MoneyIsHeld
  BY DEF Init, MoneyIsHeld
<1> QED
  BY <1>1, <1>2, <1>3 DEF IInv

\* Every step keeps it.
LEMMA NextIInv == IInv /\ [Next]_vars => IInv'
BY NextTypes, NextCacheIsOne, NextLineInCache, NextSafeIsHeld, NextSafeIsKnown,
   NextAllOrNone, NextMoneyIsHeld DEF IInv

\* The inductive invariant holds in every behaviour.
LEMMA Inductive == Spec => []IInv
BY InitIInv, NextIInv, PTL DEF Spec

-----------------------------------------------------------------------------
(***************************************************************************)
(* The promise of Checkpoint.  First, what marks make of a file.           *)
(***************************************************************************)

\* Lines appended to a damaged file change no more.
LEMMA PutAllOnDamaged ==
  ASSUME NEW f \in File(Text), ~ Intact(f), NEW s \in Seq(Text), s # << >>
  PROVE  /\ Places(PutAll(f, s)) = Places(Uncut(f))
         /\ ~ Intact(PutAll(f, s)) /\ ~ PutAll(f, s).cut
         /\ PutAll(f, s) \in File(Text)
<1> DEFINE g == PutAll(f, s)
           h == Put(f, Head(s))
<1>1. Head(s) \in Text /\ Tail(s) \in Seq(Text)
  BY HeadTailProperties
<1>2. h.lines = Appended(f, Head(s))
  BY DEF Put
<1>3. Places(h) = Places(Uncut(f)) /\ ~ Unbroken(h.lines)
  BY <1>1, <1>2, AppendToDamaged
<1>4. h.lines \in Seq(Text)
  BY <1>1, <1>2, Kinds, AppendedLines
<1>5. g.lines = h.lines \o Tail(s) /\ g.cut = FALSE
  BY <1>2 DEF PutAll
<1>6. Live(g) = Live(h) /\ \A k \in Live(h) : g.lines[k] = h.lines[k]
  <2>1. PICK a, b : a = g /\ b = h
    OBVIOUS
  <2>2. /\ b.lines \in Seq(Text) /\ ~ Unbroken(b.lines)
        /\ a.lines = b.lines \o Tail(s) /\ Tail(s) \in Seq(Text)
    BY <2>1, <1>1, <1>3, <1>4, <1>5
  <2>3. Live(a) = Live(b) /\ \A k \in Live(b) : a.lines[k] = b.lines[k]
    BY <2>2, LiveBehindBad
  <2> QED
    BY <2>1, <2>3
<1>7. Places(g) = Places(h)
  BY <1>6 DEF Places
<1>8. g \in File(Text)
  BY Kinds, PutAllFile
<1>9. ~ Unbroken(g.lines)
  <2>1. PICK b \in 1..Len(h.lines) : h.lines[b].op = "bad"
    BY <1>3 DEF Unbroken
  <2>2. Len(h.lines) \in Nat /\ Len(Tail(s)) \in Nat
    BY <1>1, <1>4, LenProperties
  <2>3. b \in 1..(Len(h.lines) + Len(Tail(s)))
    BY <2>1, <2>2
  <2>4. Len(g.lines) = Len(h.lines) + Len(Tail(s)) /\ g.lines[b] = h.lines[b]
    BY <2>1, <2>2, <2>3, <1>1, <1>4, <1>5, ConcatProperties
  <2> QED
    BY <2>1, <2>3, <2>4 DEF Unbroken
<1> QED
  BY <1>3, <1>5, <1>7, <1>8, <1>9, IntactLines

\* End marks appended to an intact file leave no steps, and leave it intact.
LEMMA PutMarksOnIntact ==
  ASSUME NEW f \in File(Text), Intact(f), NEW s \in Seq({Done}), s # << >>
  PROVE  Places(PutAll(f, s)) = {} /\ Intact(PutAll(f, s))
<1> DEFINE g == PutAll(f, s)
<1>1. f.lines \in Seq(Text) /\ ~ f.cut /\ Unbroken(f.lines)
  BY IntactLines
<1>2. /\ s \in Seq(Text) /\ Head(s) \in {Done} /\ Tail(s) \in Seq({Done})
      /\ Tail(s) \in Seq(Text) /\ Head(s) \in Text
  BY HeadTailProperties, SeqMonotonic, Kinds
<1>3. g.lines = Append(f.lines, Head(s)) \o Tail(s) /\ ~ g.cut
  BY <1>1 DEF PutAll, Appended
<1>4. s = <<Head(s)>> \o Tail(s)
  <2>1. Len(s) \in Nat /\ 1 \in 1..Len(s) /\ Len(s) \in 1..Len(s)
    BY <1>2, EmptySeq
  <2>2. SubSeq(s, 1, Len(s)) = <<s[1]>> \o SubSeq(s, 1 + 1, Len(s))
    BY <2>1, <1>2, SubSeqRecursiveFirst
  <2>3. SubSeq(s, 1, Len(s)) = s
    BY <1>2, SubSeqFull
  <2>4. Head(s) = s[1] /\ Tail(s) = SubSeq(s, 1 + 1, Len(s))
    BY <2>1, <2>3, <1>2, HeadTailOfSubSeq
  <2> QED
    BY <2>2, <2>3, <2>4
<1>5. g.lines = f.lines \o s
  <2>1. <<Head(s)>> \in Seq(Text)
    BY <1>2
  <2>2. Append(f.lines, Head(s)) = f.lines \o <<Head(s)>>
    BY <1>1, <1>2, AppendIsConcat
  <2>3. (f.lines \o <<Head(s)>>) \o Tail(s) = f.lines \o (<<Head(s)>> \o Tail(s))
    BY <2>1, <1>1, <1>2, ConcatAssociative
  <2> QED
    BY <2>2, <2>3, <1>3, <1>4
<1>6. Live(g) = {} /\ Unbroken(g.lines)
  <2> HIDE DEF g
  <2> QED
    BY <1>1, <1>5, MarksEmpty
<1>7. g \in File(Text)
  BY <1>2, Kinds, PutAllFile
<1> QED
  BY <1>3, <1>6, <1>7, IntactLines DEF Places

-----------------------------------------------------------------------------
\* What is in the cache besides a record that is being written.
OnlyMarks == Marks \in Seq({Done})

\* Steps of the execution that leave the disk alone keep what is known of it.
LEMMA SameDisk ==
  ASSUME UNCHANGED disk, mode' = "recording" <=> mode = "recording"
  PROVE  /\ Marks' = Marks /\ Seen' = Seen /\ Saved' = Saved
         /\ (cache # << >>)' = (cache # << >>) /\ (~ Intact(file))' = (~ Intact(file))
BY DEF disk, Marks, Settled, Seen, Saved

\* At the start there are no marks.
LEMMA InitOnlyMarks == Init => OnlyMarks
BY EmptySeq DEF Init, OnlyMarks, Marks

\* Every step appends a record, or an end mark, or empties the cache.
LEMMA NextOnlyMarks ==
  ASSUME Types, OnlyMarks, [Next]_vars
  PROVE  OnlyMarks'
<1> USE DEF given, disk, process, money, history, vars
<1>1. CASE Quiet /\ UNCHANGED mode
  BY <1>1, SameDisk DEF Quiet, OnlyMarks
<1>2. CASE Quiet /\ mode \in {"steps", "body"} /\ mode' \in {"down", "steps", "body"}
  BY <1>2, SameDisk DEF Quiet, OnlyMarks
<1>3. ASSUME NEW p \in Price, Spend(p) PROVE OnlyMarks'
  BY <1>3, SameDisk DEF Spend, OnlyMarks
<1>4. ASSUME NEW p \in Price \cup {0}, Begin(p) PROVE OnlyMarks'
  BY <1>4, SameDisk DEF Begin, OnlyMarks
<1>5. CASE Record
  <2> DEFINE line == StepLine(Here.label, pos, Billed)
  <2>1. line \in Text /\ cache \in Seq(Text)
    BY <1>5, RecordedLine, CacheIsText DEF Record, Types
  <2>2. cache' = Append(cache, line) /\ mode' = "recording" /\ mode # "recording"
    BY <1>5 DEF Record
  <2>3. cache' \in Seq(Text) /\ cache' # << >>
    BY <2>1, <2>2, AppendProperties
  <2>4. cache' = Append(Front(cache'), Last(cache')) /\ Front(cache') \in Seq(Text)
        /\ Last(cache') \in Text
    BY <2>3, FrontAndLast
  <2>5. Front(cache') = cache
    BY <2>1, <2>2, <2>4, AppendInjective
  <2> QED
    BY <2>2, <2>5 DEF OnlyMarks, Marks
<1>6. CASE Sync
  BY <1>6, EmptySeq DEF Sync, OnlyMarks, Marks
<1>7. CASE Finish
  <2>1. cache \in Seq({Done}) /\ cache' = Append(cache, Done) /\ mode' = "down"
    BY <1>7 DEF Finish, OnlyMarks, Marks
  <2>2. Append(cache, Done) \in Seq({Done})
    BY <2>1, AppendProperties
  <2> QED
    BY <2>1, <2>2 DEF OnlyMarks, Marks
<1>8. ASSUME NEW k \in 0..Len(cache), Crash(k) PROVE OnlyMarks'
  BY <1>8, EmptySeq DEF Crash, OnlyMarks, Marks
<1> QED
  BY Moves, <1>1, <1>2, <1>3, <1>4, <1>5, <1>6, <1>7, <1>8

\* With the marks, the file is as intact as it was; they take all steps from it, and from
\* a damaged file a cut line.
LEMMA FileWithMarks ==
  ASSUME NEW f \in File(Text), NEW s \in Seq({Done}), NEW g, g = PutAll(f, s)
  PROVE  /\ g \in File(Text)
         /\ Intact(g) <=> Intact(f)
         /\ s = << >> => g = f
         /\ s # << >> => ~ g.cut
         /\ s # << >> => Places(g) = IF Intact(f) THEN {} ELSE Places(Uncut(f))
         /\ Places(Uncut(g)) = IF s # << >> /\ Intact(f) THEN {} ELSE Places(Uncut(f))
<1>1. CASE s = << >>
  BY <1>1, PutNothing
<1>2. CASE s # << >>
  <2>1. s \in Seq(Text)
    BY Kinds, SeqMonotonic
  <2>2. g \in File(Text)
    BY <2>1, Kinds, PutAllFile
  <2>3. Intact(g) <=> Intact(f)
    BY <1>2, <2>1, PutMarksOnIntact, PutAllOnDamaged
  <2>4. Places(g) = IF Intact(f) THEN {} ELSE Places(Uncut(f))
    BY <1>2, <2>1, PutMarksOnIntact, PutAllOnDamaged
  <2>5. ~ g.cut
    <3>1. CASE Intact(f)
      BY <3>1, <2>2, <2>3, IntactLines
    <3>2. CASE ~ Intact(f)
      BY <3>2, <1>2, <2>1, PutAllOnDamaged
    <3> QED
      BY <3>1, <3>2
  <2>6. Uncut(g) = g
    BY <2>2, <2>5, UncutLines
  <2> QED
    BY <1>2, <2>2, <2>3, <2>4, <2>5, <2>6
<1> QED
  BY <1>1, <1>2

\* What the next execution finds, but for a record that is being written.
LEMMA SettledFile ==
  ASSUME Types, OnlyMarks
  PROVE  /\ file \in File(Text) /\ Settled \in File(Text)
         /\ Intact(Settled) <=> Intact(file)
         /\ Marks = << >> => Settled = file
         /\ Marks # << >> => Seen = IF Intact(file) THEN {} ELSE Saved
         /\ ~ Intact(file) => Places(Uncut(Settled)) = Saved
         /\ Intact(file) => Saved = Places(file)
         /\ mode # "recording" => Settled = Visible
<1>1. file \in File(Text)
  BY OwnFile DEF Types
<1>2. Settled = PutAll(file, Marks)
  BY DEF Settled
<1>3. /\ Settled \in File(Text)
      /\ Intact(Settled) <=> Intact(file)
      /\ Marks = << >> => Settled = file
      /\ Marks # << >> => Places(Settled) = IF Intact(file) THEN {} ELSE Places(Uncut(file))
      /\ Places(Uncut(Settled)) =
           IF Marks # << >> /\ Intact(file) THEN {} ELSE Places(Uncut(file))
  BY <1>1, <1>2, FileWithMarks DEF OnlyMarks
<1>4. Intact(file) => Uncut(file) = file
  BY <1>1, IntactLines, UncutLines
<1> QED
  BY <1>1, <1>3, <1>4 DEF Seen, Saved, Visible, Settled, Marks

\* What it will find when the record is written.
LEMMA RecordedFile ==
  ASSUME Types, LineInCache, OnlyMarks, mode = "recording"
  PROVE  /\ Visible \in File(Text) /\ ~ Visible.cut
         /\ Intact(Visible) <=> Intact(file)
         /\ Places(Visible) = IF Intact(file) THEN Seen \cup {pos} ELSE Saved
         /\ Marks = Front(cache) /\ Len(cache) = Len(Marks) + 1
         /\ Last(cache).at = pos
<1> DEFINE x == Last(cache)
<1>1. cache \in Seq(Text) /\ cache # << >>
  BY CacheIsText DEF LineInCache
<1>2. /\ Front(cache) \in Seq(Text) /\ x \in Text
      /\ cache = Append(Front(cache), x) /\ Len(cache) = Len(Front(cache)) + 1
  BY <1>1, FrontAndLast
<1>3. x \in Recorded /\ x.op = "step" /\ x.at = pos
  BY LastInCache DEF LineInCache, StepLine
<1>4. Marks = Front(cache)
  BY DEF Marks
<1>5. /\ file \in File(Text) /\ Settled \in File(Text)
      /\ Intact(Settled) <=> Intact(file)
      /\ ~ Intact(file) => Places(Uncut(Settled)) = Saved
  BY SettledFile
<1>6. Visible = Put(Settled, x)
  <2>1. PutAll(file, Append(Front(cache), x)) = Put(PutAll(file, Front(cache)), x)
    BY <1>2, <1>5, Kinds, PutOneMore
  <2> QED
    BY <2>1, <1>2, <1>4 DEF Visible, Settled
<1>7. Visible.lines = Appended(Settled, x) /\ Visible.cut = FALSE
  BY <1>6 DEF Put
<1>8. Visible \in File(Text)
  BY <1>2, <1>5, <1>6, Kinds, WrittenFiles
<1>9. CASE Intact(file)
  <2>1. Places(Visible) = Places(Settled) \cup {x.at} /\ Unbroken(Visible.lines)
    BY <1>2, <1>3, <1>5, <1>7, <1>9, AppendToIntact
  <2>2. Intact(Visible)
    BY <2>1, <1>7, <1>8, IntactLines
  <2> QED
    BY <2>1, <2>2, <1>2, <1>3, <1>4, <1>7, <1>8, <1>9 DEF Seen
<1>10. CASE ~ Intact(file)
  <2>1. Places(Visible) = Places(Uncut(Settled)) /\ ~ Unbroken(Visible.lines)
    BY <1>2, <1>5, <1>7, <1>10, AppendToDamaged
  <2>2. ~ Intact(Visible)
    BY <2>1, <1>8, IntactLines
  <2> QED
    BY <2>1, <2>2, <1>2, <1>3, <1>4, <1>5, <1>7, <1>8, <1>10
<1> QED
  BY <1>9, <1>10

\* A cut line may count for nothing, for the end of all steps, or for a step that was done.
LEMMA CutIsRagged ==
  ASSUME TypeOK, NEW f \in File(OwnLine)
  PROVE  Places(f) \in C!Ragged(Places(Uncut(f)))
<1>1. f \in File(Text)
  BY OwnFile
<1>2. CASE ~ f.cut
  BY <1>1, <1>2, UncutLines DEF C!Ragged
<1>3. CASE f.cut
  <2> DEFINE u == Uncut(f)
             x == Last(f.lines)
  <2>1. /\ u.lines \in Seq(Text) /\ x \in Text /\ f.lines = Append(u.lines, x)
    BY <1>1, <1>3, UncutLines
  <2>2. f.lines \in Seq(OwnLine) /\ f.lines # << >>
    BY <1>3 DEF File
  <2>3. x \in OwnLine
    BY <2>2, FrontAndLast
  <2>4. x.op = "step" => x.at \in ended
    BY <2>3, OwnLines DEF Recorded
  <2>5. Places(f) = IF ~ Unbroken(u.lines) \/ x.op = "bad" THEN Places(u)
                    ELSE IF x.op = "done" THEN {} ELSE Places(u) \cup {x.at}
    BY <2>1, PlacesOfAppend
  <2> QED
    BY <2>1, <2>4, <2>5, Kinds DEF C!Ragged
<1> QED
  BY <1>2, <1>3

\* A line that is cut in half leaves the whole lines.
LEMMA CutKeeps ==
  ASSUME NEW w \in File(Text), NEW x \in Text, NEW g \in Cut(w, x)
  PROVE  /\ g \in File(Text) /\ ~ Intact(g)
         /\ Places(Uncut(g)) = Places(Uncut(w))
<1>1. PICK y \in {x, Unreadable} : g = [lines |-> Appended(w, y), cut |-> TRUE]
  BY DEF Cut
<1>2. y \in Text /\ g \in File(Text) /\ g.cut
  BY <1>1, Kinds, WrittenFiles
<1>3. PICK z \in Text : g.lines = Append(Uncut(w).lines, z)
  BY <1>1, <1>2, LinesOfAppended
<1>4. /\ g.lines \in Seq(Text) /\ g.lines # << >>
      /\ Uncut(w).lines \in Seq(Text) /\ Uncut(g).lines = Front(g.lines)
  BY <1>2, IntactLines, UncutLines
<1>5. /\ Front(g.lines) \in Seq(Text) /\ Last(g.lines) \in Text
      /\ g.lines = Append(Front(g.lines), Last(g.lines))
  BY <1>4, FrontAndLast
<1>6. Front(g.lines) = Uncut(w).lines
  <2>1. PICK a, e, b : a = Front(g.lines) /\ e = Last(g.lines) /\ b = Uncut(w).lines
    OBVIOUS
  <2>2. a \in Seq(Text) /\ b \in Seq(Text) /\ e \in Text /\ Append(b, z) = Append(a, e)
    BY <2>1, <1>3, <1>4, <1>5
  <2>3. a = b
    BY <2>2, AppendInjective
  <2> QED
    BY <2>1, <2>3
<1> QED
  BY <1>2, <1>4, <1>6, PlacesDecide, IntactLines

-----------------------------------------------------------------------------
(***************************************************************************)
(* The steps of the code are steps of Checkpoint.                          *)
(***************************************************************************)

\* At the start nothing is done, known or saved.
LEMMA InitImplements == Init => C!Init
<1> SUFFICES ASSUME Init PROVE C!Init
  OBVIOUS
<1>1. Types /\ OnlyMarks
  BY InitTypes, InitOnlyMarks
<1>2. Names \in Seq(Label)
  <2>1. /\ Len(program) \in Nat /\ DOMAIN program = 1..Len(program)
        /\ \A i \in DOMAIN program : program[i].label \in Label
    BY <1>1, Function DEF Types
  <2>2. Names = [i \in 1..Len(program) |-> program[i].label]
    BY <2>1 DEF Names
  <2>3. Names \in [1..Len(program) -> Label]
    BY <2>1, <2>2
  <2> QED
    BY <2>1, <2>3
<1>3. Known = {}
  <2>1. \A i \in DOMAIN program : program[i].label \in Label
    BY <1>1, Function DEF Types
  <2> QED
    BY <2>1 DEF Init, Known
<1>4. Live(file) = {} /\ Intact(file) /\ Marks = << >>
  BY DEF Init, EmptyFile, Live, Readable, Intact, Marks
<1>5. Saved = {} /\ Seen = {}
  BY <1>1, <1>4, SettledFile DEF Seen, Places
<1> QED
  BY <1>2, <1>3, <1>4, <1>5 DEF Init, C!Init

\* The steps of the function do not change.
LEMMA SameNames ==
  ASSUME program' = program
  PROVE  Names' = Names
BY DEF Names

\* What is known goes with the entries.
LEMMA SameKnown ==
  ASSUME program' = program, entries' = entries
  PROVE  Known' = Known
BY DEF Known

\* A step is known when its label has an entry.
LEMMA KnownSteps ==
  ASSUME TypeOK
  PROVE  /\ C!Step = DOMAIN program
         /\ pos \in C!Step <=> pos <= Len(program)
         /\ AtStep => (pos \in Known <=> entries[Here.label] # NoStep)
<1>1. DOMAIN program = 1..Len(program) /\ Len(program) \in Nat /\ pos \in 1..(Len(program) + 1)
  BY Function DEF TypeOK
<1>2. C!Step = DOMAIN program
  BY DEF C!Step, Names
<1>3. pos \in C!Step <=> pos <= Len(program)
  BY <1>1, <1>2
<1> QED
  BY <1>2, <1>3 DEF AtStep, Known, Here

\* A step that counts in a file makes every step of its name known.
LEMMA ReadIsSame ==
  ASSUME TypeOK, NEW f \in File(OwnLine)
  PROVE  {i \in DOMAIN program : EntryOf(f, program[i].label) # NoStep}
           = C!Same(Places(f))
<1>1. /\ f.lines \in Seq(Text) /\ \A k \in Live(f) : f.lines[k] \in Recorded
  BY OwnFile
<1>2. \A k \in Live(f) : /\ f.lines[k].at \in DOMAIN program
                         /\ f.lines[k].label = program[f.lines[k].at].label
  BY <1>1 DEF Recorded, TypeOK
<1>3. ASSUME NEW i \in DOMAIN program, EntryOf(f, program[i].label) # NoStep
      PROVE  \E j \in Places(f) : Names[i] = Names[j]
  <2>1. PICK k \in Live(f) : f.lines[k].label = program[i].label
    BY <1>1, <1>3, EntryIsLive
  <2>2. f.lines[k].at \in Places(f)
    BY DEF Places
  <2> QED
    BY <2>1, <2>2, <1>2 DEF Names
<1>4. ASSUME NEW i \in DOMAIN program, NEW j \in Places(f), Names[i] = Names[j]
      PROVE  EntryOf(f, program[i].label) # NoStep
  <2>1. PICK k \in Live(f) : j = f.lines[k].at
    BY DEF Places
  <2>2. f.lines[k].label = program[i].label
    BY <2>1, <1>2, <1>4 DEF Names
  <2> QED
    BY <2>2, HeldIsEntered
<1>5. C!Step = DOMAIN program
  BY KnownSteps
<1> QED
  BY <1>3, <1>4, <1>5 DEF C!Same

\* Begin: the execution knows what was found.
LEMMA BeginImplements ==
  ASSUME IInv, OnlyMarks, NEW p \in Price \cup {0}, Begin(p)
  PROVE  C!Start
<1> USE DEF given, disk, process, money, history, vars
<1>1. Types
  BY DEF IInv
<1>2. mode = "down" /\ program' = program /\ entries' = Entries(Visible)
      /\ mode' = "steps" /\ pos' = 1 /\ ended' = ended /\ UNCHANGED disk
  BY DEF Begin
<1>3. Settled = Visible
  BY <1>1, <1>2, SettledFile
<1>4. \A i \in DOMAIN program : program[i].label \in Label
  BY <1>1, Function DEF Types
<1>5. Known' = {i \in DOMAIN program : EntryOf(Visible, program[i].label) # NoStep}
  BY <1>2, <1>4 DEF Known, Entries
<1>6. Known' = C!Same(Seen)
  BY <1>1, <1>3, <1>5, VisibleIsFile, ReadIsSame DEF Types, Seen
<1> QED
  BY <1>2, <1>6, SameDisk, SameNames DEF C!Start

\* Replay passes the step over.
LEMMA ReplayImplements ==
  ASSUME IInv, OnlyMarks, Replay
  PROVE  C!Pass
<1> USE DEF given, disk, process, money, history, vars
<1>1. /\ program' = program /\ entries' = entries /\ ended' = ended /\ UNCHANGED disk
      /\ mode = "steps" /\ mode' = mode /\ pos' = pos + 1
      /\ AtStep /\ entries[Here.label] # NoStep
  BY DEF Replay, AtStep
<1>2. pos \in Known
  BY <1>1, KnownSteps DEF IInv, Types
<1> QED
  BY <1>1, <1>2, SameDisk, SameNames, SameKnown DEF C!Pass

\* Execute does it.
LEMMA ExecuteImplements ==
  ASSUME IInv, OnlyMarks, Execute
  PROVE  C!Do
<1> USE DEF given, disk, process, money, history, vars
<1>1. /\ program' = program /\ entries' = entries /\ ended' = ended /\ UNCHANGED disk
      /\ mode = "steps" /\ mode' = "body" /\ pos' = pos
      /\ AtStep /\ entries[Here.label] = NoStep /\ pos <= Len(program)
  BY DEF Execute, AtStep
<1>2. pos \in C!Step \ Known
  BY <1>1, KnownSteps DEF IInv, Types
<1> QED
  BY <1>1, <1>2, SameDisk, SameNames, SameKnown DEF C!Do

\* A second replay, and any error of the body, end the execution.
LEMMA DieImplements ==
  ASSUME ReplayTwice \/ Raise
  PROVE  C!Stop
<1> USE DEF given, disk, process, money, history, vars
<1>1. /\ program' = program /\ entries' = entries /\ ended' = ended /\ UNCHANGED disk
      /\ mode \in {"steps", "body"} /\ mode' = "down" /\ pos' = pos
  BY DEF ReplayTwice, Raise, Die, AtStep
<1> QED
  BY <1>1, SameDisk, SameNames, SameKnown DEF C!Stop

\* Record: the line that is being written is not a mark.
LEMMA RecordImplements ==
  ASSUME IInv, OnlyMarks, Record
  PROVE  C!Write
<1> USE DEF given, disk, process, money, history, vars
<1> DEFINE line == StepLine(Here.label, pos, Billed)
<1>1. /\ program' = program /\ entries' = entries /\ ended' = ended \cup {pos}
      /\ file' = file /\ cache' = Append(cache, line)
      /\ mode = "body" /\ mode' = "recording" /\ pos' = pos
  BY DEF Record
<1>2. line \in Text /\ cache \in Seq(Text)
  BY <1>1, RecordedLine, CacheIsText DEF IInv, Types
<1>3. cache' \in Seq(Text) /\ cache' # << >>
  BY <1>1, <1>2, AppendProperties
<1>4. /\ cache' = Append(Front(cache'), Last(cache'))
      /\ Front(cache') \in Seq(Text) /\ Last(cache') \in Text
  BY <1>3, FrontAndLast
<1>5. Front(cache') = cache
  BY <1>1, <1>2, <1>4, AppendInjective
<1>6. Marks' = Marks
  BY <1>1, <1>5 DEF Marks
<1>7. Seen' = Seen /\ Saved' = Saved /\ (~ Intact(file))' = (~ Intact(file))
  BY <1>1, <1>6 DEF Settled, Seen, Saved
<1> QED
  BY <1>1, <1>3, <1>7, SameNames, SameKnown DEF C!Write

\* Sync: what was written is safe.
LEMMA SyncImplements ==
  ASSUME IInv, OnlyMarks, Sync
  PROVE  C!Save
<1> USE DEF given, disk, process, money, history, vars
<1>0. Types /\ LineInCache
  BY DEF IInv
<1>1. /\ program' = program /\ ended' = ended /\ file' = Visible /\ cache' = << >>
      /\ entries' = [entries EXCEPT ![Here.label] = Last(cache)]
      /\ mode = "recording" /\ mode' \in {"steps", "returned"} /\ pos' = pos + 1
  BY DEF Sync
<1>2. /\ Visible \in File(Text) /\ ~ Visible.cut
      /\ Intact(Visible) <=> Intact(file)
      /\ Places(Visible) = IF Intact(file) THEN Seen \cup {pos} ELSE Saved
  BY <1>0, <1>1, RecordedFile
<1>3. Marks' = << >> /\ Settled' = Visible
  BY <1>1, PutNothing DEF Marks, Settled
<1>4. Seen' = Places(Visible) /\ Saved' = Places(Visible)
  <2>1. Uncut(Visible) = Visible
    BY <1>2, UncutLines
  <2> QED
    BY <2>1, <1>1, <1>3 DEF Seen, Saved
<1>5. Known' = Known \cup C!Same({pos})
  <2>1. /\ pos \in DOMAIN program /\ Here.label \in Label
        /\ \A i \in DOMAIN program : program[i].label \in Label
    BY <1>0, <1>1, Function DEF Types, Here
  <2>2. Last(cache) # NoStep
    BY <1>0, <1>1, LastInCache, OwnLines DEF Types
  <2>3. entries \in [Label -> Line \cup {NoStep}]
    BY <1>0 DEF Types, TypeOK
  <2>4. \A i \in DOMAIN program :
          entries'[program[i].label] # NoStep <=>
            entries[program[i].label] # NoStep \/ program[i].label = program[pos].label
    BY <1>1, <2>1, <2>2, <2>3 DEF Here
  <2>5. C!Same({pos}) = {i \in DOMAIN program : program[i].label = program[pos].label}
    BY <1>0, <2>1, KnownSteps DEF C!Same, Names, Types
  <2> QED
    BY <1>1, <2>4, <2>5 DEF Known
<1>6. (~ Intact(file))' = (~ Intact(file))
  BY <1>1, <1>2
<1>7. (cache # << >>)' = FALSE
  BY <1>1
<1>8. Seen' = IF ~ Intact(file) THEN Saved ELSE Seen \cup {pos}
  BY <1>2, <1>4
<1> QED
  BY <1>1, <1>4, <1>5, <1>6, <1>7, <1>8, SameNames DEF C!Save

\* Finish: an end mark is written.
LEMMA FinishImplements ==
  ASSUME IInv, OnlyMarks, Finish
  PROVE  C!Complete
<1> USE DEF given, disk, process, money, history, vars
<1>0. Types /\ TypeOK
  BY DEF IInv, Types
<1>1. /\ program' = program /\ entries' = entries /\ ended' = ended /\ file' = file
      /\ cache' = Append(cache, Done)
      /\ mode = "returned" \/ (mode = "steps" /\ pos > Len(program))
      /\ mode' = "down" /\ pos' = pos
  BY DEF Finish
<1>2. cache' \in Seq({Done}) /\ cache' # << >> /\ Marks' = cache'
  <2>1. cache \in Seq({Done})
    BY <1>1 DEF OnlyMarks, Marks
  <2> QED
    BY <2>1, <1>1, AppendProperties DEF Marks
<1>3. file \in File(Text) /\ Settled' = PutAll(file, cache')
  BY <1>0, <1>1, <1>2, SettledFile DEF Settled
<1>4. Places(Settled') = IF Intact(file) THEN {} ELSE Places(Uncut(file))
  BY <1>2, <1>3, FileWithMarks
<1>5. Seen' = IF ~ Intact(file) THEN Saved ELSE {}
  BY <1>4 DEF Seen, Saved
<1>6. Saved' = Saved /\ (~ Intact(file))' = (~ Intact(file))
  BY <1>1 DEF Saved
<1>7. mode = "steps" => pos \notin C!Step
  BY <1>0, <1>1, Function, KnownSteps DEF TypeOK
<1>8. (cache # << >>)' = TRUE
  BY <1>2
<1> QED
  BY <1>1, <1>5, <1>6, <1>7, <1>8, SameNames, SameKnown DEF C!Complete

\* What is on stable storage when the first k lines of the cache got there.
LEMMA KeptFile ==
  ASSUME Types, LineInCache, OnlyMarks, NEW k \in 0..Len(cache), Survives(k),
         NEW w, w = PutAll(file, SubSeq(cache, 1, k))
  PROVE  /\ w \in File(Text)
         /\ Intact(w) <=> Intact(file)
         /\ ~ Intact(file) => Places(Uncut(w)) = Saved
         /\ Intact(file) =>
              \/ mode = "recording" /\ k = Len(cache) /\ Places(w) = Seen \cup {pos}
              \/ Places(w) = Seen
              \/ Power /\ Places(w) = Saved
<1> DEFINE d == SubSeq(cache, 1, k)
<1>1. cache \in Seq(Text) /\ Len(cache) \in Nat /\ k \in Nat /\ k <= Len(cache)
  BY CacheIsText, LenProperties
<1>2. CASE mode = "recording" /\ k = Len(cache)
  <2>1. w = Visible
    BY <1>1, <1>2, SubSeqFull DEF Visible
  <2>2. /\ Visible \in File(Text) /\ ~ Visible.cut
        /\ Intact(Visible) <=> Intact(file)
        /\ Places(Visible) = IF Intact(file) THEN Seen \cup {pos} ELSE Saved
    BY <1>2, RecordedFile
  <2>3. Uncut(Visible) = Visible
    BY <2>2, UncutLines
  <2> QED
    BY <1>2, <2>1, <2>2, <2>3
<1>3. CASE ~ (mode = "recording" /\ k = Len(cache))
  <2>1. \A i \in 1..k : cache[i] \in {Done}
    <3>1. CASE mode = "recording"
      <4>1. /\ cache # << >> /\ Front(cache) \in Seq({Done}) /\ Front(cache) \in Seq(Text)
            /\ cache = Append(Front(cache), Last(cache)) /\ Last(cache) \in Text
            /\ Len(cache) = Len(Front(cache)) + 1
        BY <3>1, <1>1, FrontAndLast DEF LineInCache, OnlyMarks, Marks
      <4>2. Len(Front(cache)) \in Nat /\ k <= Len(Front(cache))
        BY <4>1, <3>1, <1>1, <1>3, LenProperties
      <4>3. \A i \in 1..k : i \in 1..Len(Front(cache))
        BY <4>2, <1>1
      <4>4. \A i \in 1..Len(Front(cache)) : cache[i] = Front(cache)[i]
        BY <4>1, AppendProperties
      <4>5. \A i \in 1..Len(Front(cache)) : Front(cache)[i] \in {Done}
        BY <4>1, ElementOfSeq
      <4> QED
        BY <4>3, <4>4, <4>5
    <3>2. CASE mode # "recording"
      <4>1. cache \in Seq({Done}) /\ \A i \in 1..k : i \in 1..Len(cache)
        BY <3>2, <1>1 DEF OnlyMarks, Marks
      <4> QED
        BY <4>1, ElementOfSeq
    <3> QED
      BY <3>1, <3>2
  <2>2. d \in Seq({Done}) /\ Len(d) = IF 1 <= k THEN k ELSE 0
    <3>1. Len(d) = IF 1 <= k THEN k - 1 + 1 ELSE 0
      BY <2>1, <1>1, SubSeqProperties
    <3> QED
      BY <2>1, <3>1, <1>1, SubSeqProperties
  <2>3. d = << >> <=> k = 0
    BY <2>2, <1>1, EmptySeq
  <2>4. file \in File(Text)
    BY SettledFile
  <2>5. /\ w \in File(Text)
        /\ Intact(w) <=> Intact(file)
        /\ d = << >> => w = file
        /\ d # << >> => Places(w) = IF Intact(file) THEN {} ELSE Places(Uncut(file))
        /\ Places(Uncut(w)) = IF d # << >> /\ Intact(file) THEN {} ELSE Places(Uncut(file))
    <3>1. PICK f, s, g : f = file /\ s = d /\ g = w
      OBVIOUS
    <3>2. f \in File(Text) /\ s \in Seq({Done})
      BY <3>1, <2>2, <2>4
    <3>3. g = PutAll(f, s)
      BY <3>1
    <3>4. /\ g \in File(Text)
          /\ Intact(g) <=> Intact(f)
          /\ s = << >> => g = f
          /\ s # << >> => Places(g) = IF Intact(f) THEN {} ELSE Places(Uncut(f))
          /\ Places(Uncut(g)) = IF s # << >> /\ Intact(f) THEN {} ELSE Places(Uncut(f))
      BY <3>2, <3>3, FileWithMarks
    <3> QED
      BY <3>1, <3>4
  <2>6. CASE k = 0
    <3>1. w = file /\ (Intact(file) => Places(w) = Saved)
      BY <2>3, <2>5, <2>6, SettledFile
    <3>2. ASSUME ~ Power PROVE Marks = << >>
      <4>1. CASE mode = "recording"
        <5>1. Marks = Front(cache) /\ Len(cache) = Len(Marks) + 1 /\ k = Len(cache) - 1
          BY <4>1, <3>2, <1>3, RecordedFile DEF Survives
        <5>2. Marks \in Seq({Done}) /\ Len(Marks) \in Nat
          BY LenProperties DEF OnlyMarks
        <5> QED
          BY <5>1, <5>2, <2>6, EmptySeq
      <4>2. CASE mode # "recording"
        <5>1. Len(cache) = 0 /\ Marks = cache
          BY <4>2, <3>2, <2>6 DEF Survives, Marks
        <5> QED
          BY <5>1, <1>1, EmptySeq
      <4> QED
        BY <4>1, <4>2
    <3>3. ~ Power => Places(w) = Seen
      BY <3>1, <3>2, SettledFile DEF Seen
    <3>4. Power \/ ~ Power
      OBVIOUS
    <3> QED
      BY <2>5, <3>1, <3>3, <3>4 DEF Saved
  <2>7. CASE k # 0
    <3>1. Marks # << >>
      <4>1. CASE mode = "recording"
        <5>1. Len(cache) = Len(Marks) + 1 /\ Marks \in Seq({Done})
          BY <4>1, RecordedFile DEF OnlyMarks
        <5>2. Len(Marks) \in Nat /\ Len(Marks) # 0
          BY <5>1, <4>1, <1>1, <1>3, <2>7, LenProperties
        <5> QED
          BY <5>2, EmptySeq
      <4>2. CASE mode # "recording"
        <5>1. Marks = cache /\ Len(cache) # 0
          BY <4>2, <1>1, <2>7 DEF Marks
        <5> QED
          BY <5>1, EmptySeq
      <4> QED
        BY <4>1, <4>2
    <3>2. Intact(file) => Seen = {} /\ Places(w) = {}
      BY <3>1, <2>3, <2>5, <2>7, SettledFile
    <3>3. ~ Intact(file) => Places(Uncut(w)) = Saved
      BY <2>5 DEF Saved
    <3> QED
      BY <2>5, <3>2, <3>3
  <2> QED
    BY <2>6, <2>7
<1> QED
  BY <1>2, <1>3

\* A crash keeps what it may keep.
LEMMA CrashImplements ==
  ASSUME IInv, OnlyMarks, NEW k \in 0..Len(cache), Crash(k)
  PROVE  C!Crash \/ C!CrashInWrite \/ C!CrashAgain
<1> USE DEF given, disk, process, money, history, vars
<1>0. Types /\ LineInCache /\ TypeOK
  BY DEF IInv, Types
<1>1. /\ program' = program /\ entries' = entries /\ ended' = ended
      /\ mode # "down" \/ cache # << >>
      /\ cache' = << >> /\ mode' = "down" /\ pos' = pos
      /\ file' \in Remains(k) /\ Survives(k)
  BY DEF Crash
<1>2. PICK w : w = PutAll(file, SubSeq(cache, 1, k))
  OBVIOUS
<1>3. PICK g : g = file'
  OBVIOUS
<1>4. g \in File(OwnLine) /\ g \in File(Text)
  BY <1>0, <1>1, <1>3, CrashFile, OwnFile
<1>5. /\ Seen' = Places(g) /\ Saved' = Places(Uncut(g))
      /\ (~ Intact(file))' = ~ Intact(g)
      /\ (cache # << >>)' = FALSE
  BY <1>1, <1>3, PutNothing DEF Seen, Saved, Settled, Marks
<1>6. C!Down
  BY <1>1, <1>5, SameNames, SameKnown DEF C!Down
<1>7. /\ w \in File(Text)
      /\ Intact(w) <=> Intact(file)
      /\ ~ Intact(file) => Places(Uncut(w)) = Saved
      /\ Intact(file) =>
           \/ mode = "recording" /\ k = Len(cache) /\ Places(w) = Seen \cup {pos}
           \/ Places(w) = Seen
           \/ Power /\ Places(w) = Saved
  BY <1>0, <1>1, <1>2, KeptFile
<1>8. \/ g = w
      \/ Tear /\ k < Len(cache) /\ g \in Cut(w, cache[k + 1])
  BY <1>1, <1>2, <1>3 DEF Remains
<1>9. Seen' \in C!Ragged(Saved')
  BY <1>0, <1>4, <1>5, CutIsRagged
<1>10. k < Len(cache) =>
         /\ cache # << >>
         /\ g \in Cut(w, cache[k + 1]) => ~ Intact(g) /\ Places(Uncut(g)) = Places(Uncut(w))
  <2> SUFFICES ASSUME k < Len(cache)
               PROVE  /\ cache # << >>
                      /\ g \in Cut(w, cache[k + 1]) =>
                           ~ Intact(g) /\ Places(Uncut(g)) = Places(Uncut(w))
    OBVIOUS
  <2>1. cache \in Seq(Text) /\ k + 1 \in 1..Len(cache)
    BY <1>0, CacheIsText, LenProperties
  <2>2. cache[k + 1] \in Text
    BY <2>1, ElementOfSeq
  <2>3. cache # << >>
    BY <2>1, EmptySeq
  <2> QED
    BY <2>2, <2>3, <1>7, CutKeeps
<1>11. CASE Intact(file)
  <2>1. Uncut(w) = w
    BY <1>7, <1>11, IntactLines, UncutLines
  <2>2. CASE g = w
    <3>1. Seen' = Places(w) /\ Saved' = Places(w)
      BY <1>5, <2>1, <2>2
    <3>2. Places(w) \in C!Left
      BY <1>7, <1>11 DEF C!Left
    <3>3. (~ Intact(file))' = FALSE /\ ~ ~ Intact(file)
      BY <1>5, <1>7, <1>11, <2>2
    <3> QED
      BY <1>6, <3>1, <3>2, <3>3 DEF C!Crash
  <2>3. CASE Tear /\ k < Len(cache) /\ g \in Cut(w, cache[k + 1])
    <3>1. Saved' = Places(w) /\ (~ Intact(file))' = TRUE /\ cache # << >>
      BY <1>5, <1>10, <2>1, <2>3
    <3>2. Saved' \in (IF Power THEN {Seen, Saved} ELSE {Seen})
      <4>1. k # Len(cache)
        BY <2>3, <1>0, CacheIsText, LenProperties
      <4> QED
        BY <4>1, <3>1, <1>7, <1>11
    <3> QED
      BY <1>6, <1>9, <1>11, <2>3, <3>1, <3>2 DEF C!CrashInWrite
  <2> QED
    BY <1>8, <2>2, <2>3
<1>12. CASE ~ Intact(file)
  <2>1. (~ Intact(file))' = TRUE /\ Saved' = Saved
    BY <1>5, <1>7, <1>8, <1>10, <1>12
  <2> QED
    BY <1>6, <1>9, <1>12, <2>1 DEF C!CrashAgain
<1> QED
  BY <1>11, <1>12

\* Every step of the code is a step of the promise, or changes nothing of it.
LEMMA NextImplements ==
  ASSUME IInv, OnlyMarks, [Next]_vars
  PROVE  [C!Next]_(C!checkpointVars)
<1>1. ASSUME NEW p \in Price \cup {0}, Begin(p) PROVE C!Next
  BY <1>1, BeginImplements DEF C!Next
<1>2. CASE Replay
  BY <1>2, ReplayImplements DEF C!Next
<1>3. CASE ReplayTwice \/ Raise
  BY <1>3, DieImplements DEF C!Next
<1>4. CASE Execute
  BY <1>4, ExecuteImplements DEF C!Next
<1>5. CASE Record
  BY <1>5, RecordImplements DEF C!Next
<1>6. CASE Sync
  BY <1>6, SyncImplements DEF C!Next
<1>7. CASE Finish
  BY <1>7, FinishImplements DEF C!Next
<1>8. ASSUME NEW k \in 0..Len(cache), Crash(k) PROVE C!Next
  BY <1>8, CrashImplements DEF C!Next
<1>9. ASSUME program' = program, entries' = entries, ended' = ended, UNCHANGED disk,
             mode' = mode, pos' = pos
      PROVE  UNCHANGED C!checkpointVars
  BY <1>9, SameDisk, SameNames, SameKnown DEF C!checkpointVars
<1>10. ASSUME NEW p \in Price, Spend(p) PROVE UNCHANGED C!checkpointVars
  BY <1>9, <1>10 DEF Spend, given, disk, history
<1>11. CASE UNCHANGED vars
  BY <1>9, <1>11 DEF vars, given, disk, process, money, history
<1> QED
  BY <1>1, <1>2, <1>3, <1>4, <1>5, <1>6, <1>7, <1>8, <1>10, <1>11
     DEF Next, Run, Finished

-----------------------------------------------------------------------------
\* The variables keep their types, and what crashes leave of the file is lines.
THEOREM DurableTypes == Spec => []TypeOK
<1>1. IInv => TypeOK
  BY DEF IInv, Types
<1> QED
  BY <1>1, Inductive, PTL

\* Whatever crashes left of the file, the loop of Journal.open restores from it the
\* steps after the last end mark and before the first unreadable line.
THEOREM OpenRestores == Spec => []OpenReadsLiveSteps
<1>1. ASSUME IInv PROVE OpenReadsLiveSteps
  <2>1. Visible.lines \in Seq(Text)
    BY <1>1, VisibleIsFile, OwnFile DEF IInv, Types
  <2> DEFINE s == Visible.lines
  <2>2. Loop(Visible) = Gathered(s)
    BY <2>1, LoopReadsLive
  <2>3. Entries(Read(s)) = Entries(Visible) /\ SpentIn(Read(s)) = SpentIn(Visible)
    <3>1. Read(s).lines = s
      BY DEF Read
    <3> QED
      BY <3>1, LinesDecide
  <2> QED
    BY <2>2, <2>3 DEF Gathered, OpenReadsLiveSteps
<1> QED
  BY <1>1, Inductive, PTL

\* What an execution knows under a label was computed by the first step of that label,
\* also where the label is used again, in this execution or in any earlier one.
THEOREM OwnRecords == Spec => []OwnRecord
<1>1. ASSUME IInv PROVE OwnRecord
  <2> SUFFICES ASSUME NEW l \in Label, entries[l] # NoStep
               PROVE  /\ program[entries[l].at].label = l
                      /\ \A i \in DOMAIN program :
                           program[i].label = l => entries[l].at <= i
    BY DEF OwnRecord
  <2>1. entries[l] \in Recorded /\ entries[l].label = l
    BY <1>1 DEF IInv, Types
  <2> QED
    BY <2>1 DEF Recorded
<1> QED
  BY <1>1, Inductive, PTL

\* The frame of a durable function accounts for the money of every safely recorded step
\* and for all that it has been charged itself, through any number of crashes.
THEOREM MoneyCounted == Spec => []MoneyIsCounted
<1>1. IInv => MoneyIsCounted
  BY DEF IInv, MoneyIsHeld, FrameIsBilled, MoneyIsCounted
<1> QED
  BY <1>1, Inductive, PTL

\* A step recorded on stable storage behind readable lines is not executed again before
\* the function completes, through any number of crashes, power losses and torn appends.
THEOREM SafeStepsRunOnce == Spec => StepsRunOnce
<1>1. IInv /\ [Next]_vars => [Execute => pos \notin safe]_vars
  BY DEF IInv, SafeIsKnown, Execute, AtStep, Here
<1> QED
  BY <1>1, Inductive, PTL DEF Spec, StepsRunOnce

\* A rerun of a completed function starts fresh, or, where the end mark is lost or behind
\* a line that is no JSON, with all the steps that were safe: never with a part of them.
THEOREM CompletedRunsStartFresh == Spec => FreshAfterDone
<1> DEFINE Fresh(p) ==
      Begin(p) /\ complete # "no" =>
        \/ entries' = [l \in Label |-> NoStep]
        \/ /\ complete = "lost" \/ ~ Intact(Visible)
           /\ \A i \in finished : entries'[program[i].label] # NoStep
<1>1. ASSUME IInv, NEW p \in Price \cup {0} PROVE Fresh(p)
  <2> SUFFICES ASSUME Begin(p), complete # "no"
               PROVE  \/ entries' = [l \in Label |-> NoStep]
                      \/ /\ complete = "lost" \/ ~ Intact(Visible)
                         /\ \A i \in finished : entries'[program[i].label] # NoStep
    OBVIOUS
  <2>1. entries' = Entries(Visible) /\ Types /\ complete \in {"no", "marked", "lost"}
    BY <1>1 DEF Begin, IInv, Types, TypeOK
  <2>2. CASE Live(Visible) = {}
    BY <2>1, <2>2 DEF Entries, EntryOf
  <2>3. CASE Live(Visible) # {}
    <3>1. complete = "lost" \/ ~ Intact(Visible)
      BY <1>1, <2>1, <2>3 DEF IInv, AllOrNone
    <3>2. ASSUME NEW i \in finished PROVE entries'[program[i].label] # NoStep
      <4>1. PICK k \in Live(Visible) : Visible.lines[k].label = program[i].label
        BY <1>1, <2>3 DEF IInv, AllOrNone
      <4>2. EntryOf(Visible, Visible.lines[k].label) # NoStep
        BY <2>1, VisibleIsFile, HeldIsEntered DEF Types
      <4>3. program[i].label \in Label
        BY <2>1, Function DEF Types, TypeOK
      <4> QED
        BY <4>1, <4>2, <4>3, <2>1 DEF Entries
    <3> QED
      BY <3>1, <3>2
  <2> QED
    BY <2>2, <2>3
<1>2. IInv /\ [Next]_vars => [\A p \in Price \cup {0} : Fresh(p)]_vars
  BY <1>1
<1> QED
  BY <1>2, Inductive, PTL DEF Spec, FreshAfterDone

\* The journal keeps the promise of Checkpoint: a step that is known is not done again, one
\* that is saved is known to whoever starts next, and a damaged file takes nothing back.
THEOREM DurableImplementsCheckpoint == Spec => CheckpointSpec
<1>1. Init => C!Init
  BY InitImplements
<1>2. IInv /\ OnlyMarks /\ [Next]_vars => [C!Next]_(C!checkpointVars)
  BY NextImplements
<1>3. Spec => []OnlyMarks
  <2>1. IInv /\ OnlyMarks /\ [Next]_vars => OnlyMarks'
    BY NextOnlyMarks DEF IInv
  <2> QED
    BY <2>1, InitOnlyMarks, Inductive, PTL DEF Spec
<1> QED
  BY <1>1, <1>2, <1>3, Inductive, PTL DEF Spec, CheckpointSpec, C!Spec

\* No execution passes over a step unless one of its name was done, whatever crashes and
\* torn lines have made of the file.
THEOREM NothingIsInvented == Spec => []C!Honest
<1>1. ASSUME IInv PROVE C!Honest
  <2> SUFFICES ASSUME NEW i \in Known PROVE i \in C!Same(ended)
    BY DEF C!Honest
  <2>1. i \in DOMAIN program /\ program[i].label \in Label
    BY <1>1, Function DEF Known, IInv, Types
  <2>2. /\ entries[program[i].label] \in Recorded
        /\ entries[program[i].label].label = program[i].label
    BY <1>1, <2>1 DEF Known, IInv, Types
  <2> DEFINE j == entries[program[i].label].at
  <2>3. j \in ended /\ program[j].label = program[i].label /\ j \in DOMAIN program
    BY <1>1, <2>2 DEF Recorded, IInv, Types, TypeOK
  <2>4. Names[i] = Names[j]
    BY <2>1, <2>3 DEF Names
  <2>5. C!Step = DOMAIN program
    BY DEF C!Step, Names
  <2> QED
    BY <2>1, <2>3, <2>4, <2>5 DEF C!Same
<1> QED
  BY <1>1, Inductive, PTL
=============================================================================
