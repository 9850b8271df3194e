--------------------------- MODULE JournalProofs ----------------------------
(***************************************************************************)
(* Facts about the file of module Journal, for every file of lines: what   *)
(* an append leaves of the steps that count, and that the loop of          *)
(* Journal.open reads them, line by line.                                  *)
(***************************************************************************)
EXTENDS Journal, SequenceTheorems, WellFoundedInduction, TLAPS

\* What a line may be.
Text == {Done, Unreadable} \cup Steps

\* A set of natural numbers has a least member.
LEMMA LeastNumber ==
  ASSUME NEW T \in SUBSET Nat, T # {}
  PROVE  \E n \in T : \A m \in T : n <= m
<1>1. PICK n \in T : \A m \in T : ~ (<<m, n>> \in OpToRel(<, Nat))
  BY NatLessThanWellFounded, WFMin
<1>2. \A m \in T : ~ (m < n)
  BY <1>1 DEF OpToRel
<1> QED
  BY <1>2

\* Of finitely many numbers one is the greatest: what the CHOOSEs of Journal lean on.
LEMMA GreatestExists ==
  ASSUME NEW n \in Nat, NEW f \in [1..n -> Nat], NEW S \in SUBSET (1..n), S # {}
  PROVE  \E k \in S : \A i \in S : f[i] <= f[k]
<1> DEFINE Fails(m) == \E g \in [1..m -> Nat], U \in SUBSET (1..m) :
                          U # {} /\ ~ \E k \in U : \A i \in U : g[i] <= g[k]
           T == {m \in Nat : Fails(m)}
<1>1. SUFFICES ASSUME T # {} PROVE FALSE
  OBVIOUS
<1>2. PICK m \in T : \A o \in T : m <= o
  BY <1>1, LeastNumber
<1>3. PICK g \in [1..m -> Nat], U \in SUBSET (1..m) :
        U # {} /\ ~ \E k \in U : \A i \in U : g[i] <= g[k]
  BY <1>2
<1>4. m \in Nat /\ m # 0
  <2>1. m \in Nat
    BY <1>2
  <2>2. \E k \in 1..m : TRUE
    BY <1>3
  <2> QED
    BY <2>1, <2>2
<1>5. m - 1 \in Nat /\ ~ Fails(m - 1)
  <2>1. m - 1 \in Nat /\ ~ (m <= m - 1)
    BY <1>4
  <2>2. m - 1 \notin T
    BY <2>1, <1>2
  <2> QED
    BY <2>1, <2>2
<1> DEFINE V == U \ {m}
           h == [i \in 1..(m - 1) |-> g[i]]
<1>6. h \in [1..(m - 1) -> Nat] /\ V \in SUBSET (1..(m - 1))
  BY <1>4
<1>7. CASE V = {}
  <2>1. U = {m}
    BY <1>7, <1>3
  <2>2. g[m] \in Nat
    BY <1>4
  <2> QED
    BY <2>1, <2>2, <1>3
<1>8. CASE V # {}
  <2>1. PICK k \in V : \A i \in V : h[i] <= h[k]
    BY <1>5, <1>6, <1>8
  <2>2. \A i \in V : g[i] <= g[k]
    BY <2>1, <1>6
  <2>3. g[k] \in Nat /\ (m \in U => g[m] \in Nat)
    BY <1>4, <2>1
  <2>4. CASE m \in U /\ g[k] < g[m]
    <3>1. ASSUME NEW i \in V PROVE g[i] <= g[m]
      <4>1. g[i] \in Nat /\ g[i] <= g[k]
        BY <2>2, <1>3
      <4> QED
        BY <4>1, <2>3, <2>4
    <3> QED
      BY <3>1, <2>3, <2>4, <1>3
  <2>5. CASE ~ (m \in U /\ g[k] < g[m])
    BY <2>1, <2>2, <2>3, <2>5, <1>3
  <2> QED
    BY <2>4, <2>5
<1> QED
  BY <1>7, <1>8

-----------------------------------------------------------------------------
\* Lines are told apart by their kind.
LEMMA Kinds ==
  /\ Done \in Text /\ Done.op = "done"
  /\ Unreadable \in Text /\ Unreadable.op = "bad"
  /\ \A x \in Text : x.op \in {"step", "done", "bad"}
  /\ \A x \in Text : x.op = "step" => x \in Steps
  /\ \A x \in Text : x.op = "done" => x = Done
BY DEF Text, Steps, Done, Unreadable

\* The steps that count are readable lines, and steps.
LEMMA LiveAreSteps ==
  ASSUME NEW file, file.lines \in Seq(Text), NEW k \in Live(file)
  PROVE  /\ k \in Readable(file) /\ k \in 1..Len(file.lines)
         /\ file.lines[k] \in Steps
<1>1. k \in Readable(file) /\ k \in 1..Len(file.lines)
  BY LenProperties DEF Live, Readable
<1>2. file.lines[k].op = "step"
  BY <1>1 DEF Live
<1>3. file.lines[k] \in Text
  BY <1>1, ElementOfSeq
<1> QED
  BY <1>1, <1>2, <1>3, Kinds

\* Every line of the file can be read.
Unbroken(s) == \A i \in 1..Len(s) : s[i].op # "bad"

\* One line more: the readable lines stay, the new one is readable behind readable
\* ones only.
LEMMA ReadableOfAppend ==
  ASSUME NEW s \in Seq(Text), NEW x \in Text,
         NEW f, f.lines = s, NEW g, g.lines = Append(s, x)
  PROVE  Readable(g) = IF Unbroken(s) /\ x.op # "bad"
                       THEN Readable(f) \cup {Len(s) + 1} ELSE Readable(f)
<1> DEFINE n == Len(s)
<1>1. /\ n \in Nat /\ DOMAIN s = 1..n /\ DOMAIN Append(s, x) = 1..(n + 1)
      /\ Append(s, x)[n + 1] = x /\ \A i \in 1..n : Append(s, x)[i] = s[i]
  BY AppendProperties, LenProperties
<1>2. \A k \in 1..n : k \in Readable(g) <=> k \in Readable(f)
  <2> SUFFICES ASSUME NEW k \in 1..n PROVE k \in Readable(g) <=> k \in Readable(f)
    OBVIOUS
  <2>1. 1..k \subseteq 1..n /\ k \in 1..(n + 1)
    BY <1>1
  <2> QED
    BY <1>1, <2>1 DEF Readable
<1>3. n + 1 \in Readable(g) <=> Unbroken(s) /\ x.op # "bad"
  <2>1. n + 1 \in 1..(n + 1) /\ 1..(n + 1) = 1..n \cup {n + 1}
    BY <1>1
  <2> QED
    BY <1>1, <2>1 DEF Readable, Unbroken
<1>4. Readable(f) \subseteq 1..n /\ Readable(g) \subseteq 1..n \cup {n + 1}
  <2>1. 1..(n + 1) = 1..n \cup {n + 1}
    BY <1>1
  <2> QED
    BY <1>1, <2>1 DEF Readable
<1>5. n + 1 \notin 1..n
  BY <1>1
<1>6. CASE Unbroken(s) /\ x.op # "bad"
  <2>1. Readable(g) = Readable(f) \cup {n + 1}
    BY <1>2, <1>3, <1>4, <1>6
  <2> QED
    BY <2>1, <1>6
<1>7. CASE ~ (Unbroken(s) /\ x.op # "bad")
  <2>1. Readable(g) = Readable(f)
    BY <1>2, <1>3, <1>4, <1>7
  <2> QED
    BY <2>1, <1>7
<1> QED
  BY <1>6, <1>7

\* Text that is no JSON, and whatever comes after it, changes nothing.
LEMMA LiveAfterBad ==
  ASSUME NEW s \in Seq(Text), NEW x \in Text, ~ Unbroken(s) \/ x.op = "bad",
         NEW f, f.lines = s, NEW g, g.lines = Append(s, x)
  PROVE  Live(g) = Live(f)
<1>1. Readable(g) = Readable(f) /\ Readable(f) \subseteq 1..Len(s)
  <2>1. Readable(f) \subseteq 1..Len(s)
    BY LenProperties DEF Readable
  <2> QED
    BY <2>1, ReadableOfAppend
<1>2. \A i \in Readable(f) : g.lines[i] = f.lines[i]
  BY <1>1, AppendProperties
<1> QED
  BY <1>1, <1>2 DEF Live

\* An end mark behind readable lines ends all steps.
LEMMA LiveAfterDone ==
  ASSUME NEW s \in Seq(Text), Unbroken(s),
         NEW g, g.lines = Append(s, Done)
  PROVE  Live(g) = {}
<1> DEFINE f == [lines |-> s]
           n == Len(s)
<1>1. f.lines = s /\ n \in Nat
  BY LenProperties
<1>2. Readable(g) = Readable(f) \cup {n + 1} /\ Readable(f) \subseteq 1..n
  <2>1. Readable(f) \subseteq 1..n
    BY <1>1, LenProperties DEF Readable
  <2> QED
    BY <2>1, <1>1, ReadableOfAppend, Kinds
<1>3. g.lines[n + 1].op = "done"
  BY AppendProperties, Kinds
<1>4. \A k \in Readable(g) : n + 1 >= k
  BY <1>1, <1>2
<1> QED
  BY <1>2, <1>3, <1>4 DEF Live

\* A step behind readable lines counts, and so do the steps that did.
LEMMA LiveAfterStep ==
  ASSUME NEW s \in Seq(Text), NEW x \in Text, x.op = "step", Unbroken(s),
         NEW f, f.lines = s, NEW g, g.lines = Append(s, x)
  PROVE  Live(g) = Live(f) \cup {Len(s) + 1}
<1> DEFINE n == Len(s)
<1>1. Readable(g) = Readable(f) \cup {n + 1} /\ Readable(f) \subseteq 1..n /\ n \in Nat
  <2>1. Readable(f) \subseteq 1..n /\ n \in Nat
    BY LenProperties DEF Readable
  <2> QED
    BY <2>1, ReadableOfAppend
<1>2. g.lines[n + 1].op = "step" /\ \A i \in Readable(f) : g.lines[i] = f.lines[i]
  BY <1>1, AppendProperties
<1>3. \A k \in Readable(f) : k \in Live(g) <=> k \in Live(f)
  BY <1>1, <1>2 DEF Live
<1>4. n + 1 \in Live(g)
  BY <1>1, <1>2 DEF Live
<1> QED
  BY <1>1, <1>3, <1>4 DEF Live

-----------------------------------------------------------------------------
\* A file whose lines these are: the operators that read ask for no more.
Read(s) == [lines |-> s]

\* What the loop has gathered when it has read these lines.
Gathered(s) ==
  [entries |-> Entries(Read(s)), spent |-> SpentIn(Read(s)), broken |-> ~ Unbroken(s)]

\* What is read depends on the lines only.
LEMMA LinesDecide ==
  ASSUME NEW f, NEW g, f.lines = g.lines
  PROVE  /\ Live(f) = Live(g)
         /\ \A l : EntryOf(f, l) = EntryOf(g, l)
         /\ Entries(f) = Entries(g)
         /\ SpentIn(f) = SpentIn(g)
<1>1. Live(f) = Live(g)
  BY DEF Live, Readable
<1>2. \A l : EntryOf(f, l) = EntryOf(g, l)
  BY <1>1 DEF EntryOf
<1>3. SpentIn(f) = SpentIn(g)
  BY <1>1 DEF SpentIn
<1> QED
  BY <1>1, <1>2, <1>3 DEF Entries

\* The steps that count, by index: a set of which the greatest is chosen.
LEMMA LastOf ==
  ASSUME NEW file, file.lines \in Seq(Text), NEW S \in SUBSET Live(file), S # {}
  PROVE  \E k \in S : \A i \in S : i <= k
<1> DEFINE n == Len(file.lines)
           f == [i \in 1..n |-> i]
<1>1. n \in Nat /\ S \in SUBSET (1..n)
  BY LiveAreSteps, LenProperties
<1>2. f \in [1..n -> Nat]
  BY <1>1
<1>3. PICK k \in S : \A i \in S : f[i] <= f[k]
  BY <1>1, <1>2, GreatestExists
<1> QED
  BY <1>1, <1>3

\* The entry of a label is the last step that counts with this label, if there is one.
LEMMA EntryIsLast ==
  ASSUME NEW file, file.lines \in Seq(Text), NEW l,
         NEW k \in Live(file), file.lines[k].label = l,
         \A i \in Live(file) : file.lines[i].label = l => i <= k
  PROVE  EntryOf(file, l) = file.lines[k]
<1> DEFINE ks == {i \in Live(file) : file.lines[i].label = l}
           c == CHOOSE i \in ks : \A j \in ks : j <= i
<1>1. k \in ks /\ \A i \in ks : i <= k
  OBVIOUS
<1>2. c \in ks /\ \A j \in ks : j <= c
  BY <1>1
<1>3. c = k
  <2>1. c <= k /\ k <= c
    BY <1>1, <1>2
  <2>2. c \in Int /\ k \in Int
    BY <1>2, LiveAreSteps
  <2> QED
    BY <2>1, <2>2
<1> QED
  BY <1>1, <1>3 DEF EntryOf

\* An entry is a step that counts and has the label, or there is none.
LEMMA EntryIsLive ==
  ASSUME NEW file, file.lines \in Seq(Text), NEW l
  PROVE  \/ /\ EntryOf(file, l) = NoStep
            /\ \A k \in Live(file) : file.lines[k].label # l
         \/ \E k \in Live(file) :
              file.lines[k].label = l /\ EntryOf(file, l) = file.lines[k]
<1> DEFINE ks == {i \in Live(file) : file.lines[i].label = l}
<1>1. CASE ks = {}
  BY <1>1 DEF EntryOf
<1>2. CASE ks # {}
  <2>1. PICK k \in ks : \A i \in ks : i <= k
    BY <1>2, LastOf
  <2>2. EntryOf(file, l) = file.lines[k]
    BY <2>1, EntryIsLast
  <2> QED
    BY <2>1, <2>2
<1> QED
  BY <1>1, <1>2

\* The spend that is restored is the greatest of the steps that count.
LEMMA SpentIsGreatest ==
  ASSUME NEW file, file.lines \in Seq(Text), Live(file) # {}
  PROVE  /\ \E k \in Live(file) : SpentIn(file) = file.lines[k].spent
         /\ \A i \in Live(file) : file.lines[i].spent <= SpentIn(file)
<1> DEFINE n == Len(file.lines)
           L == Live(file)
           f == [i \in 1..n |-> IF i \in L THEN file.lines[i].spent ELSE 0]
           c == CHOOSE k \in L : \A i \in L : file.lines[i].spent <= file.lines[k].spent
<1>1. n \in Nat /\ L \in SUBSET (1..n) /\ \A i \in L : file.lines[i] \in Steps
  BY LiveAreSteps, LenProperties
<1>2. \A i \in L : file.lines[i].spent \in Nat
  BY <1>1 DEF Steps
<1>3. f \in [1..n -> Nat]
  BY <1>2
<1>4. \E k \in L : \A i \in L : f[i] <= f[k]
  BY <1>1, <1>3, GreatestExists
<1>5. \A i \in L : f[i] = file.lines[i].spent
  BY <1>1
<1>6. \E k \in L : \A i \in L : file.lines[i].spent <= file.lines[k].spent
  BY <1>4, <1>5
<1>7. c \in L /\ \A i \in L : file.lines[i].spent <= file.lines[c].spent
  BY <1>6
<1>8. SpentIn(file) = file.lines[c].spent
  BY DEF SpentIn
<1> QED
  BY <1>7, <1>8

-----------------------------------------------------------------------------
\* Before the first line nothing is gathered.
LEMMA NothingGathered == Gathered(<< >>) = Start
<1>1. Live(Read(<< >>)) = {} /\ Unbroken(<< >>)
  BY DEF Live, Readable, Unbroken, Read
<1>2. \A l : EntryOf(Read(<< >>), l) = NoStep
  BY <1>1 DEF EntryOf
<1>3. SpentIn(Read(<< >>)) = 0
  BY <1>1 DEF SpentIn
<1> QED
  BY <1>1, <1>2, <1>3 DEF Gathered, Start, Entries

\* A step behind readable lines becomes the entry of its label, and no other's.
LEMMA EntryAfterStep ==
  ASSUME NEW s \in Seq(Text), NEW x \in Text, x.op = "step", Unbroken(s)
  PROVE  Entries(Read(Append(s, x))) = [Entries(Read(s)) EXCEPT ![x.label] = x]
<1> DEFINE n == Len(s)
           f == Read(s)
           g == Read(Append(s, x))
<1>1. f.lines = s /\ g.lines = Append(s, x) /\ Append(s, x) \in Seq(Text)
  BY AppendProperties DEF Read
<1>2. Live(g) = Live(f) \cup {n + 1}
  BY <1>1, LiveAfterStep
<1>3. Live(f) \subseteq 1..n /\ n \in Nat
  BY <1>1, LiveAreSteps, LenProperties
<1>4. g.lines[n + 1] = x /\ \A i \in Live(f) : g.lines[i] = f.lines[i]
  BY <1>1, <1>3, AppendProperties
<1>5. EntryOf(g, x.label) = x
  <2>1. n + 1 \in Live(g) /\ \A i \in Live(g) : i <= n + 1
    BY <1>2, <1>3
  <2>2. EntryOf(g, x.label) = g.lines[n + 1]
    BY <2>1, <1>1, <1>4, EntryIsLast
  <2> QED
    BY <2>2, <1>4
<1>6. ASSUME NEW l \in Label, l # x.label PROVE EntryOf(g, l) = EntryOf(f, l)
  <2> DEFINE ks == {i \in Live(f) : f.lines[i].label = l}
  <2>1. ks = {i \in Live(g) : g.lines[i].label = l}
    BY <1>2, <1>4, <1>6
  <2>2. CASE ks = {}
    BY <2>1, <2>2 DEF EntryOf
  <2>3. CASE ks # {}
    <3>1. PICK k \in ks : \A i \in ks : i <= k
      BY <2>3, <1>1, LastOf
    <3>2. EntryOf(f, l) = f.lines[k]
      BY <3>1, <1>1, EntryIsLast
    <3>3. k \in Live(g) /\ g.lines[k].label = l
          /\ \A i \in Live(g) : g.lines[i].label = l => i <= k
      BY <3>1, <2>1
    <3>4. EntryOf(g, l) = g.lines[k]
      BY <3>3, <1>1, EntryIsLast
    <3> QED
      BY <3>1, <3>2, <3>4, <1>4
  <2> QED
    BY <2>2, <2>3
<1> QED
  BY <1>5, <1>6 DEF Entries

\* The greatest spend after one more step.
LEMMA SpentAfterStep ==
  ASSUME NEW s \in Seq(Text), NEW x \in Text, x.op = "step", Unbroken(s)
  PROVE  SpentIn(Read(Append(s, x))) =
           IF x.spent > SpentIn(Read(s)) THEN x.spent ELSE SpentIn(Read(s))
<1> DEFINE n == Len(s)
           f == Read(s)
           g == Read(Append(s, x))
<1>1. f.lines = s /\ g.lines = Append(s, x) /\ Append(s, x) \in Seq(Text)
  BY AppendProperties DEF Read
<1>2. Live(g) = Live(f) \cup {n + 1}
  BY <1>1, LiveAfterStep
<1>3. Live(f) \subseteq 1..n /\ n \in Nat
  BY <1>1, LiveAreSteps, LenProperties
<1>4. g.lines[n + 1] = x /\ \A i \in Live(f) : g.lines[i] = f.lines[i]
  BY <1>1, <1>3, AppendProperties
<1>5. /\ \E k \in Live(g) : SpentIn(g) = g.lines[k].spent
      /\ \A i \in Live(g) : g.lines[i].spent <= SpentIn(g)
  BY <1>1, <1>2, SpentIsGreatest
<1>6. x.spent \in Nat /\ \A i \in Live(f) : f.lines[i].spent \in Nat
  <2>1. x \in Steps /\ \A i \in Live(f) : f.lines[i] \in Steps
    BY <1>1, LiveAreSteps, Kinds
  <2> QED
    BY <2>1 DEF Steps
<1>7. CASE Live(f) = {}
  <2>1. SpentIn(f) = 0
    BY <1>7 DEF SpentIn
  <2>2. SpentIn(g) = x.spent
    BY <1>2, <1>4, <1>5, <1>7
  <2> QED
    BY <2>1, <2>2, <1>6
<1>8. CASE Live(f) # {}
  <2>1. /\ \E k \in Live(f) : SpentIn(f) = f.lines[k].spent
        /\ \A i \in Live(f) : f.lines[i].spent <= SpentIn(f)
    BY <1>1, <1>8, SpentIsGreatest
  <2>2. SpentIn(f) \in Nat /\ SpentIn(f) <= SpentIn(g) /\ x.spent <= SpentIn(g)
    BY <2>1, <1>2, <1>4, <1>5, <1>6
  <2>3. SpentIn(g) = x.spent \/ SpentIn(g) <= SpentIn(f)
    BY <2>1, <1>2, <1>4, <1>5
  <2>4. SpentIn(g) \in Nat
    BY <1>2, <1>4, <1>5, <1>6
  <2> QED
    BY <2>2, <2>3, <2>4, <1>6
<1> QED
  BY <1>7, <1>8

\* One turn of the loop: from what the lines before gave to what they and one more give.
LEMMA OneMoreLine ==
  ASSUME NEW s \in Seq(Text), NEW x \in Text
  PROVE  Gathered(Append(s, x)) = Scan(Gathered(s), x)
<1> DEFINE n == Len(s)
           t == Append(s, x)
<1>1. /\ Read(s).lines = s /\ Read(t).lines = t /\ t \in Seq(Text)
      /\ n \in Nat /\ Len(t) = n + 1 /\ t[n + 1] = x /\ \A i \in 1..n : t[i] = s[i]
  BY AppendProperties, LenProperties DEF Read
<1>2. Unbroken(t) <=> Unbroken(s) /\ x.op # "bad"
  <2>1. 1..(n + 1) = 1..n \cup {n + 1}
    BY <1>1
  <2> QED
    BY <1>1, <2>1 DEF Unbroken
<1>3. CASE ~ Unbroken(s) \/ x.op = "bad"
  <2>1. Live(Read(t)) = Live(Read(s)) /\ Live(Read(s)) \subseteq 1..n
    BY <1>1, <1>3, LiveAfterBad, LiveAreSteps
  <2>2. \A k \in Live(Read(s)) : t[k] = s[k]
    BY <2>1, <1>1
  <2>3. ASSUME NEW l \in Label PROVE EntryOf(Read(t), l) = EntryOf(Read(s), l)
    <3>1. CASE \A k \in Live(Read(s)) : s[k].label # l
      BY <3>1, <2>1, <2>2, <1>1 DEF EntryOf
    <3>2. CASE \E k \in Live(Read(s)) : s[k].label = l
      <4> DEFINE ks == {i \in Live(Read(s)) : s[i].label = l}
      <4>1. PICK k \in ks : \A i \in ks : i <= k
        BY <3>2, <1>1, LastOf
      <4>2. EntryOf(Read(s), l) = s[k]
        BY <4>1, <1>1, EntryIsLast
      <4>3. EntryOf(Read(t), l) = t[k]
        <5> DEFINE f == Read(t)
        <5>1. f.lines = t /\ f.lines \in Seq(Text)
          BY <1>1
        <5>2. k \in Live(f) /\ f.lines[k].label = l
          BY <4>1, <2>1, <2>2, <5>1
        <5>3. \A i \in Live(f) : f.lines[i].label = l => i <= k
          BY <4>1, <2>1, <2>2, <5>1
        <5>4. EntryOf(f, l) = f.lines[k]
          <6> HIDE DEF f
          <6> QED
            BY <5>1, <5>2, <5>3, EntryIsLast
        <5> QED
          BY <5>1, <5>4
      <4> QED
        BY <4>1, <4>2, <4>3, <2>2
    <3> QED
      BY <3>1, <3>2
  <2>4. SpentIn(Read(t)) = SpentIn(Read(s))
    <3>1. CASE Live(Read(s)) = {}
      BY <3>1, <2>1 DEF SpentIn
    <3>2. CASE Live(Read(s)) # {}
      <4>1. /\ \E k \in Live(Read(s)) : SpentIn(Read(s)) = s[k].spent
            /\ \A i \in Live(Read(s)) : s[i].spent <= SpentIn(Read(s))
        BY <3>2, <1>1, SpentIsGreatest
      <4>2. /\ \E k \in Live(Read(s)) : SpentIn(Read(t)) = s[k].spent
            /\ \A i \in Live(Read(s)) : s[i].spent <= SpentIn(Read(t))
        <5>1. /\ \E k \in Live(Read(t)) : SpentIn(Read(t)) = t[k].spent
              /\ \A i \in Live(Read(t)) : t[i].spent <= SpentIn(Read(t))
          BY <3>2, <2>1, <1>1, SpentIsGreatest
        <5> QED
          BY <5>1, <2>1, <2>2
      <4>3. \A k \in Live(Read(s)) : s[k].spent \in Nat
        BY <1>1, LiveAreSteps DEF Steps
      <4> QED
        BY <4>1, <4>2, <4>3
    <3> QED
      BY <3>1, <3>2
  <2>5. Scan(Gathered(s), x) = [Gathered(s) EXCEPT !.broken = TRUE]
    BY <1>3 DEF Scan, Gathered
  <2>6. Entries(Read(t)) = Entries(Read(s))
    BY <2>3 DEF Entries
  <2>7. (~ Unbroken(t)) = TRUE
    BY <1>2, <1>3
  <2> QED
    BY <2>4, <2>5, <2>6, <2>7 DEF Gathered
<1>4. CASE Unbroken(s) /\ x.op = "done"
  <2>1. x = Done
    BY <1>4, Kinds
  <2>2. Live(Read(t)) = {}
    BY <1>1, <1>4, <2>1, LiveAfterDone
  <2>3. SpentIn(Read(t)) = 0 /\ \A l : EntryOf(Read(t), l) = NoStep
    BY <2>2 DEF SpentIn, EntryOf
  <2>4. Scan(Gathered(s), x) = Start
    BY <1>4 DEF Scan, Gathered
  <2> QED
    BY <2>3, <2>4, <1>2, <1>4 DEF Gathered, Start, Entries
<1>5. CASE Unbroken(s) /\ x.op = "step"
  <2>1. Entries(Read(t)) = [Entries(Read(s)) EXCEPT ![x.label] = x]
    BY <1>5, EntryAfterStep
  <2>2. SpentIn(Read(t)) = IF x.spent > SpentIn(Read(s)) THEN x.spent ELSE SpentIn(Read(s))
    BY <1>5, SpentAfterStep
  <2>3. Scan(Gathered(s), x) =
          [entries |-> [Entries(Read(s)) EXCEPT ![x.label] = x],
           spent |-> IF x.spent > SpentIn(Read(s)) THEN x.spent ELSE SpentIn(Read(s)),
           broken |-> FALSE]
    BY <1>5 DEF Scan, Gathered
  <2> QED
    BY <2>1, <2>2, <2>3, <1>2, <1>5 DEF Gathered
<1> QED
  BY <1>3, <1>4, <1>5, Kinds

\* Whatever crashes have left of it, the loop of Journal.open makes of a file what its
\* steps after the last end mark and before the first unreadable line say.
LEMMA LoopReadsLive ==
  ASSUME NEW file, file.lines \in Seq(Text)
  PROVE  Loop(file) = Gathered(file.lines)
<1> DEFINE s == file.lines
           n == Len(s)
           Turn(f, k) == IF k = 0 THEN Start ELSE Scan(f[k - 1], s[k])
           Turns(f) == f = [k \in 0..n |-> Turn(f, k)]
           g == [k \in 0..n |-> Gathered(SubSeq(s, 1, k))]
           loop == CHOOSE f : Turns(f)
<1>1. n \in Nat
  BY LenProperties
<1>2. ASSUME NEW k \in 0..n PROVE g[k] = Turn(g, k)
  <2>1. CASE k = 0
    <3>1. SubSeq(s, 1, 0) = << >>
      BY SubSeqProperties, EmptySeq
    <3> QED
      BY <2>1, <3>1, NothingGathered
  <2>2. CASE k # 0
    <3> DEFINE t == SubSeq(s, 1, k - 1)
    <3>1. k - 1 \in 0..n /\ k \in 1..n
      BY <1>1, <2>2
    <3>2. t \in Seq(Text) /\ s[k] \in Text
      BY <3>1, SubSeqProperties, ElementOfSeq
    <3>3. SubSeq(s, 1, k) = Append(t, s[k])
      BY <3>1, <1>1, SubSeqProperties, AppendProperties
    <3>4. Gathered(SubSeq(s, 1, k)) = Scan(Gathered(t), s[k])
      BY <3>2, <3>3, OneMoreLine
    <3> QED
      BY <3>1, <3>4, <2>2
  <2> QED
    BY <2>1, <2>2
<1>3. Turns(g)
  BY <1>2
<1>4. Turns(loop)
  BY <1>3
<1>5. ASSUME NEW k \in 0..n PROVE loop[k] = g[k]
  <2> DEFINE T == {m \in 0..n : loop[m] # g[m]}
  <2> SUFFICES ASSUME T # {} PROVE FALSE
    OBVIOUS
  <2>1. T \in SUBSET Nat
    BY <1>1
  <2>2. PICK m \in T : \A o \in T : m <= o
    BY <2>1, LeastNumber
  <2>3. loop[m] = Turn(loop, m) /\ g[m] = Turn(g, m)
    BY <1>2, <1>4
  <2>4. CASE m = 0
    BY <2>3, <2>4
  <2>5. CASE m # 0
    <3>1. m - 1 \in 0..n /\ ~ (m <= m - 1)
      BY <2>2, <2>5, <1>1
    <3>2. loop[m - 1] = g[m - 1]
      BY <3>1, <2>2
    <3> QED
      BY <3>2, <2>3, <2>5
  <2> QED
    BY <2>4, <2>5
<1>6. n \in 0..n /\ SubSeq(s, 1, n) = s
  BY <1>1, SubSeqProperties
<1>7. Loop(file) = loop[n]
  BY DEF Loop
<1> QED
  BY <1>5, <1>6, <1>7

-----------------------------------------------------------------------------
\* A journal on disk: a line that lacks its newline is a line.
File(S) == {f \in [lines : Seq(S), cut : BOOLEAN] : f.cut => f.lines # << >>}

\* What a last line without newline may be followed by.
Whole(f, k) == f.cut => k < Len(f.lines)

\* An append leaves a file of lines, and not an empty one.
LEMMA AppendedLines ==
  ASSUME NEW S, Unreadable \in S, NEW f \in File(S), NEW x \in S
  PROVE  Appended(f, x) \in Seq(S) /\ Appended(f, x) # << >>
<1>1. f.lines \in Seq(S) /\ Len(f.lines) \in Nat
  BY LenProperties DEF File
<1>2. CASE f.cut
  <2>1. f.lines # << >> /\ Len(f.lines) \in 1..Len(f.lines)
    BY <1>1, <1>2, EmptySeq DEF File
  <2>2. /\ [f.lines EXCEPT ![Len(f.lines)] = Unreadable] \in Seq(S)
        /\ Len([f.lines EXCEPT ![Len(f.lines)] = Unreadable]) = Len(f.lines)
    BY <1>1, <2>1, ExceptSeq
  <2> QED
    BY <1>1, <1>2, <2>1, <2>2, EmptySeq DEF Appended
<1>3. CASE ~ f.cut
  BY <1>1, <1>3, AppendProperties DEF Appended
<1> QED
  BY <1>2, <1>3

\* So do an append that is completed and one that is interrupted.
LEMMA WrittenFiles ==
  ASSUME NEW S, Unreadable \in S, NEW f \in File(S), NEW x \in S
  PROVE  Put(f, x) \in File(S) /\ Cut(f, x) \subseteq File(S)
<1>1. \A y \in {x, Unreadable} : Appended(f, y) \in Seq(S) /\ Appended(f, y) # << >>
  BY AppendedLines
<1>2. \A y \in {x, Unreadable}, b \in BOOLEAN :
        [lines |-> Appended(f, y), cut |-> b] \in File(S)
  BY <1>1 DEF File
<1> QED
  BY <1>2 DEF Put, Cut

\* Appending nothing, and one line more.
LEMMA PutNothing ==
  ASSUME NEW f
  PROVE  PutAll(f, << >>) = f
BY DEF PutAll

LEMMA PutOneMore ==
  ASSUME NEW S, Unreadable \in S, NEW f \in File(S), NEW s \in Seq(S), NEW x \in S
  PROVE  PutAll(f, Append(s, x)) = Put(PutAll(f, s), x)
<1>1. Append(s, x) \in Seq(S) /\ Append(s, x) # << >>
  BY AppendProperties
<1>2. CASE s = << >>
  <2>1. Head(Append(s, x)) = x /\ Tail(Append(s, x)) = << >>
    BY <1>2, HeadTailProperties, AppendProperties, EmptySeq
  <2>2. Appended(f, x) \o << >> = Appended(f, x)
    BY AppendedLines, ConcatEmptySeq
  <2> QED
    BY <1>1, <1>2, <2>1, <2>2 DEF PutAll, Put
<1>3. CASE s # << >>
  <2> DEFINE A == Appended(f, Head(s))
  <2>1. Head(s) \in S /\ Tail(s) \in Seq(S)
    BY <1>3, HeadTailProperties
  <2>2. A \in Seq(S)
    BY <2>1, AppendedLines
  <2>3. Head(Append(s, x)) = Head(s) /\ Tail(Append(s, x)) = Append(Tail(s), x)
    BY <1>3, HeadTailAppend
  <2>4. A \o Append(Tail(s), x) = Append(A \o Tail(s), x)
    <3>1. Append(Tail(s), x) = Tail(s) \o <<x>> /\ <<x>> \in Seq(S)
      BY <2>1, AppendIsConcat
    <3>2. Append(A \o Tail(s), x) = (A \o Tail(s)) \o <<x>>
      BY <2>1, <2>2, ConcatProperties, AppendIsConcat
    <3> QED
      BY <3>1, <3>2, <2>1, <2>2, ConcatAssociative
  <2>5. PutAll(f, s) = [lines |-> A \o Tail(s), cut |-> FALSE]
    BY <1>3 DEF PutAll
  <2>6. PutAll(f, Append(s, x)) = [lines |-> A \o Append(Tail(s), x), cut |-> FALSE]
    BY <1>1, <2>3 DEF PutAll
  <2>7. Put(PutAll(f, s), x) = [lines |-> Append(A \o Tail(s), x), cut |-> FALSE]
    BY <2>5 DEF Put, Appended
  <2> QED
    BY <2>4, <2>6, <2>7
<1> QED
  BY <1>2, <1>3

\* Appending lines leaves a file.
LEMMA PutAllFile ==
  ASSUME NEW S, Unreadable \in S, NEW f \in File(S), NEW s \in Seq(S)
  PROVE  PutAll(f, s) \in File(S)
<1>1. CASE s = << >>
  BY <1>1, PutNothing
<1>2. CASE s # << >>
  <2>1. Head(s) \in S /\ Tail(s) \in Seq(S)
    BY <1>2, HeadTailProperties
  <2>2. Appended(f, Head(s)) \o Tail(s) \in Seq(S)
    BY <2>1, AppendedLines, ConcatProperties
  <2> QED
    BY <1>2, <2>2 DEF PutAll, File
<1> QED
  BY <1>1, <1>2

\* A step that counts, and is whole, still counts after an append that is no end mark,
\* also when that one is torn, and it is not the last line then.
LEMMA AppendKeepsStep ==
  ASSUME NEW f \in File(Text), NEW x \in Text, x.op # "done",
         NEW g, g.lines = Appended(f, x),
         NEW k \in Live(f), Whole(f, k)
  PROVE  /\ k \in Live(g) /\ g.lines[k] = f.lines[k] /\ k < Len(g.lines)
<1> DEFINE n == Len(f.lines)
<1>1. f.lines \in Seq(Text) /\ n \in Nat /\ k \in 1..n /\ k \in Readable(f)
  BY LiveAreSteps, LenProperties DEF File
<1>2. CASE ~ f.cut
  <2>1. g.lines = Append(f.lines, x)
    BY <1>2 DEF Appended
  <2>2. Live(f) \subseteq Live(g)
    <3>1. CASE ~ Unbroken(f.lines) \/ x.op = "bad"
      BY <3>1, <2>1, <1>1, LiveAfterBad
    <3>2. CASE Unbroken(f.lines) /\ x.op = "step"
      BY <3>2, <2>1, <1>1, LiveAfterStep
    <3> QED
      BY <3>1, <3>2, Kinds
  <2>3. Len(g.lines) = n + 1 /\ g.lines[k] = f.lines[k]
    BY <2>1, <1>1, AppendProperties
  <2> QED
    BY <2>2, <2>3, <1>1
<1>3. CASE f.cut
  <2>1. k < n
    BY <1>3 DEF Whole
  <2>2. g.lines = [f.lines EXCEPT ![n] = Unreadable]
    BY <1>3 DEF Appended
  <2>3. n \in 1..n /\ DOMAIN f.lines = 1..n
    BY <2>1, <1>1, LenProperties
  <2>4. /\ Len(g.lines) = n /\ DOMAIN g.lines = 1..n
        /\ g.lines[n].op = "bad"
        /\ \A i \in 1..n : i # n => g.lines[i] = f.lines[i]
    BY <2>2, <2>3, <1>1, ExceptSeq, Kinds, LenProperties
  <2>5. \A i \in Readable(g) : i < n /\ i \in Readable(f)
    <3> SUFFICES ASSUME NEW i \in Readable(g) PROVE i < n /\ i \in Readable(f)
      OBVIOUS
    <3>1. i \in 1..n /\ \A j \in 1..i : g.lines[j].op # "bad"
      BY <2>4 DEF Readable
    <3>2. i # n
      BY <3>1, <2>4
    <3>3. \A j \in 1..i : j \in 1..n /\ j # n
      BY <3>1, <3>2, <1>1
    <3> QED
      BY <3>1, <3>2, <3>3, <2>3, <2>4, <1>1 DEF Readable
  <2>6. k \in Readable(g)
    <3>1. \A j \in 1..k : j \in 1..n /\ j # n
      BY <2>1, <1>1
    <3> QED
      BY <3>1, <2>3, <2>4, <1>1 DEF Readable
  <2>7. k \in Live(g)
    BY <2>4, <2>5, <2>6, <1>1 DEF Live
  <2> QED
    BY <2>1, <2>4, <2>7, <1>1
<1> QED
  BY <1>2, <1>3

\* A sequence is its front and its last member.
LEMMA FrontAndLast ==
  ASSUME NEW S, NEW s \in Seq(S), s # << >>
  PROVE  /\ Front(s) \in Seq(S) /\ Last(s) \in S
         /\ s = Append(Front(s), Last(s)) /\ Len(s) = Len(Front(s)) + 1
<1>1. PICK t \in Seq(S), x \in S : s = Append(t, x)
  BY SequenceEmptyOrAppend
<1>2. /\ Len(t) \in Nat /\ Len(s) = Len(t) + 1 /\ s[Len(t) + 1] = x
      /\ \A i \in 1..Len(t) : s[i] = t[i] /\ t[i] \in S
  BY <1>1, AppendProperties, LenProperties, ElementOfSeq
<1>3. Last(s) = x
  BY <1>2 DEF Last
<1>4. Front(s) = SubSeq(s, 1, Len(t))
  BY <1>2 DEF Front
<1>5. /\ Front(s) \in Seq(S) /\ Len(Front(s)) = Len(t)
      /\ \A i \in 1..Len(t) : Front(s)[i] = s[i]
  <2>1. \A i \in 1..Len(t) : s[i] \in S
    BY <1>2
  <2> QED
    BY <1>2, <1>4, <2>1, SubSeqProperties
<1>6. Front(s) = t
  BY <1>2, <1>5, SeqEqual
<1> QED
  BY <1>1, <1>2, <1>3, <1>6

\* Behind text that is no JSON nothing is read.
LEMMA LiveBehindBad ==
  ASSUME NEW f, f.lines \in Seq(Text), ~ Unbroken(f.lines),
         NEW u \in Seq(Text), NEW g, g.lines = f.lines \o u
  PROVE  Live(g) = Live(f) /\ \A k \in Live(f) : g.lines[k] = f.lines[k]
<1> DEFINE s == f.lines
           n == Len(s)
<1>1. /\ n \in Nat /\ Len(u) \in Nat /\ DOMAIN s = 1..n
      /\ DOMAIN g.lines = 1..(n + Len(u)) /\ \A i \in 1..n : g.lines[i] = s[i]
  <2>1. n \in Nat /\ Len(u) \in Nat /\ DOMAIN s = 1..n
    BY LenProperties
  <2>2. DOMAIN g.lines = 1..(n + Len(u))
    BY <2>1, ConcatProperties, LenProperties
  <2> QED
    BY <2>1, <2>2, ConcatProperties
<1>2. PICK b \in 1..n : s[b].op = "bad"
  BY DEF Unbroken
<1>3. ASSUME NEW k \in Readable(g) PROVE k \in 1..n
  <2>1. k \in 1..(n + Len(u)) /\ \A i \in 1..k : g.lines[i].op # "bad"
    BY <1>1 DEF Readable
  <2>2. ~ (b \in 1..k)
    BY <2>1, <1>1, <1>2
  <2> QED
    BY <2>1, <2>2, <1>1, <1>2
<1>4. \A k \in 1..n : k \in Readable(g) <=> k \in Readable(f)
  <2> SUFFICES ASSUME NEW k \in 1..n PROVE k \in Readable(g) <=> k \in Readable(f)
    OBVIOUS
  <2>1. k \in 1..(n + Len(u)) /\ \A i \in 1..k : i \in 1..n
    BY <1>1
  <2> QED
    BY <1>1, <2>1 DEF Readable
<1>5. Readable(g) = Readable(f) /\ \A k \in Readable(f) : g.lines[k] = f.lines[k]
  <2>1. \A k \in Readable(f) : k \in 1..n
    BY <1>1 DEF Readable
  <2> QED
    BY <2>1, <1>1, <1>3, <1>4
<1> QED
  BY <1>5 DEF Live

\* End marks behind lines that can be read end all steps.
LEMMA MarksEmpty ==
  ASSUME NEW s \in Seq(Text), NEW u \in Seq({Done}), u # << >>, Unbroken(s),
         NEW g, g.lines = s \o u
  PROVE  Live(g) = {} /\ Unbroken(g.lines)
<1> DEFINE n == Len(s)
           m == n + Len(u)
<1>1. /\ n \in Nat /\ Len(u) \in Nat \ {0} /\ m \in Nat /\ u \in Seq(Text)
  BY LenProperties, EmptySeq, SeqMonotonic, Kinds
<1>2. /\ Len(g.lines) = m /\ DOMAIN g.lines = 1..m
      /\ \A i \in 1..m : g.lines[i] = IF i <= n THEN s[i] ELSE u[i - n]
  BY <1>1, ConcatProperties, LenProperties
<1>3. \A i \in 1..Len(u) : u[i] = Done
  <2>1. \A i \in 1..Len(u) : u[i] \in {Done}
    BY ElementOfSeq
  <2> QED
    BY <2>1
<1>4. \A i \in 1..m : g.lines[i].op # "bad"
  <2> SUFFICES ASSUME NEW i \in 1..m PROVE g.lines[i].op # "bad"
    OBVIOUS
  <2>1. CASE i <= n
    <3>1. i \in 1..n /\ g.lines[i] = s[i]
      BY <2>1, <1>1, <1>2
    <3> QED
      BY <3>1 DEF Unbroken
  <2>2. CASE ~ (i <= n)
    <3>1. i - n \in 1..Len(u) /\ g.lines[i] = u[i - n]
      BY <2>2, <1>1, <1>2
    <3> QED
      BY <3>1, <1>3, Kinds
  <2> QED
    BY <2>1, <2>2
<1>5. m \in Readable(g) /\ g.lines[m].op = "done"
  <2>1. m \in 1..m /\ ~ (m <= n) /\ m - n \in 1..Len(u)
    BY <1>1
  <2>2. g.lines[m] = Done
    BY <2>1, <1>2, <1>3
  <2> QED
    BY <2>1, <2>2, <1>2, <1>4, Kinds DEF Readable
<1>6. \A k \in Readable(g) : m >= k
  BY <1>1, <1>2 DEF Readable
<1> QED
  BY <1>2, <1>4, <1>5, <1>6 DEF Live, Unbroken
=============================================================================
