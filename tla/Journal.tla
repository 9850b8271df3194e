------------------------------ MODULE Journal -------------------------------
(***************************************************************************)
(* The file of humbaba/journal.py and what Journal.open reads from it; the *)
(* Go host keeps the same file (go/journal.go).  A file is its lines and   *)
(* whether the last one still lacks its newline, which is what a crash in  *)
(* the middle of an append leaves behind.  A line is a step, the end mark, *)
(* or text that is no JSON.  Of a step's value the model keeps which place *)
(* in the program computed it.                                             *)
(***************************************************************************)
EXTENDS Integers, SequencesExt

CONSTANTS Label,   \* labels of steps
          NoStep   \* a label without an entry

Steps == [op : {"step"}, label : Label, at : Nat, spent : Nat]

ASSUME JournalAssumption == NoStep \notin Steps

StepLine(label, at, spent) ==
  [op |-> "step", label |-> label, at |-> at, spent |-> spent]
Done == [op |-> "done"]
Unreadable == [op |-> "bad"]

EmptyFile == [lines |-> << >>, cut |-> FALSE]

-----------------------------------------------------------------------------
\* Writing.

\* The lines after an append to a file whose last line may be cut: what follows a
\* cut line becomes part of it, and two JSON texts in a row are none.
Appended(file, line) ==
  IF file.cut
  THEN [file.lines EXCEPT ![Len(file.lines)] = Unreadable]
  ELSE Append(file.lines, line)

\* open(path, "a").write(line + newline)
Put(file, line) == [lines |-> Appended(file, line), cut |-> FALSE]

\* One after the other: only the first may meet a cut line.
PutAll(file, lines) ==
  IF lines = << >> THEN file
  ELSE [lines |-> Appended(file, Head(lines)) \o Tail(lines), cut |-> FALSE]

\* What an interrupted append leaves: all of the line but its newline, or less.
Cut(file, line) ==
  {[lines |-> Appended(file, x), cut |-> TRUE] : x \in {line, Unreadable}}

-----------------------------------------------------------------------------
\* Reading: Journal.open.

\* Mutant: lines that are no JSON are skipped.
ReadableSkipping(file) == {k \in DOMAIN file.lines : file.lines[k].op # "bad"}

\* The lines before the first one that is no JSON.
Readable(file) ==
  {k \in DOMAIN file.lines : \A i \in 1..k : file.lines[i].op # "bad"}

\* Mutant: end marks are ignored.
LiveForever(file) == {k \in Readable(file) : file.lines[k].op = "step"}

\* The steps after the last end mark.
Live(file) ==
  {k \in Readable(file) :
     \A i \in Readable(file) : i >= k => file.lines[i].op = "step"}

EntryOf(file, label) ==
  LET ks == {k \in Live(file) : file.lines[k].label = label}
  IN  IF ks = {} THEN NoStep
      ELSE file.lines[CHOOSE k \in ks : \A i \in ks : i <= k]

Entries(file) == [l \in Label |-> EntryOf(file, l)]

\* Mutant: the spend is not restored.
SpentNotRestored(file) == 0

SpentIn(file) ==
  IF Live(file) = {} THEN 0
  ELSE LET k == CHOOSE k \in Live(file) :
                  \A i \in Live(file) : file.lines[i].spent <= file.lines[k].spent
       IN  file.lines[k].spent

-----------------------------------------------------------------------------
\* The same as the loop of the code, one line after the other.
Start == [entries |-> [l \in Label |-> NoStep], spent |-> 0, broken |-> FALSE]

Scan(seen, line) ==
  IF seen.broken \/ line.op = "bad" THEN [seen EXCEPT !.broken = TRUE]
  ELSE IF line.op = "done" THEN Start
  ELSE [seen EXCEPT !.entries[line.label] = line,
                    !.spent = IF line.spent > @ THEN line.spent ELSE @]

Loop(file) ==
  LET seen[k \in 0..Len(file.lines)] ==
        IF k = 0 THEN Start ELSE Scan(seen[k - 1], file.lines[k])
  IN  seen[Len(file.lines)]
=============================================================================
