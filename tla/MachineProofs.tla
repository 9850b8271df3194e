---------------------------- MODULE MachineProofs ----------------------------
(***************************************************************************)
(* Proofs about Machine, for any programs.  About authority, for any       *)
(* function tables: what a file may contain is not restricted to what the  *)
(* translation writes.  About marks, for tables that FileAssumption holds  *)
(* of; the values of a program play no part in authority.  A frame is      *)
(* whatever has the fields that matter; the executing one is the last.     *)
(***************************************************************************)
EXTENDS Machine, SequenceTheorems, TLAPS

\* A sequence, of whatever its elements are.
IsSeq(s) == s \in Seq({s[i] : i \in DOMAIN s})

IsFrame(f) == {"fn", "caps", "wait"} \subseteq DOMAIN f

\* The frames below the executing one wait for it.
Waiting == {"call", "try", "par"}

\* A stack of frames in which each holds no more than it declared and than the frame
\* below it holds.
Sound(s) ==
  /\ IsSeq(s)
  /\ \A i \in 1..Len(s) : IsFrame(s[i])
  /\ \A i \in 1..Len(s) : s[i].caps \subseteq s[i].fn.uses
  /\ \A i, j \in 1..Len(s) : i <= j => s[j].caps \subseteq s[i].caps
  /\ \A i \in 1..Len(s) : i # Len(s) => s[i].wait \in Waiting

IInv == Sound(stack)

\* A frame that differs from another in what it computes, not in what it may do.
Like(f, g) == IsFrame(f) /\ f.caps = g.caps /\ f.fn = g.fn

-----------------------------------------------------------------------------
\* Whatever set its elements come from, a sequence is one.
LEMMA SeqIsSeq ==
  ASSUME NEW S, NEW s \in Seq(S)
  PROVE  IsSeq(s) /\ Len(s) \in Nat /\ DOMAIN s = 1..Len(s)
<1> DEFINE T == {s[i] : i \in DOMAIN s}
<1>1. Len(s) \in Nat /\ s \in [1..Len(s) -> S] /\ DOMAIN s = 1..Len(s)
  BY LenProperties
<1>2. s \in [1..Len(s) -> T]
  BY <1>1
<1>3. s \in Seq(T)
  BY <1>1, <1>2, SeqDef
<1> QED
  BY <1>1, <1>3 DEF IsSeq

\* The executing frame goes on with the same authority.
LEMMA TopGoesOn ==
  ASSUME NEW s, Sound(s), s # << >>, NEW f, Like(f, s[Len(s)])
  PROVE  Sound([s EXCEPT ![Len(s)] = f])
<1> DEFINE n == Len(s)
           S == {s[i] : i \in DOMAIN s} \cup {f}
           t == [s EXCEPT ![n] = f]
<1>1. s \in Seq(S) /\ f \in S
  <2>1. s \in Seq({s[i] : i \in DOMAIN s})
    BY DEF Sound, IsSeq
  <2> QED
    BY <2>1, SeqMonotonic
<1>2. n \in Nat /\ n \in 1..n
  BY <1>1, EmptySeq, LenProperties
<1>3. /\ t \in Seq(S) /\ Len(t) = n
      /\ \A j \in 1..n : t[j] = IF j = n THEN f ELSE s[j]
  BY <1>1, <1>2, ExceptSeq
<1>4. IsSeq(t)
  BY <1>3, SeqIsSeq
<1>5. \A j \in 1..n : IsFrame(t[j]) /\ t[j].caps = s[j].caps /\ t[j].fn = s[j].fn
  BY <1>3 DEF Sound, Like
<1>6. \A j \in 1..n : j # n => t[j].wait = s[j].wait
  BY <1>3
<1>7. \A i \in 1..n : t[i].caps \subseteq t[i].fn.uses
  BY <1>5 DEF Sound
<1>8. \A i, j \in 1..n : i <= j => t[j].caps \subseteq t[i].caps
  BY <1>5 DEF Sound
<1>9. \A i \in 1..n : i # n => t[i].wait \in Waiting
  BY <1>6 DEF Sound
<1> HIDE DEF t
<1>10. Sound(t)
  BY <1>3, <1>4, <1>5, <1>7, <1>8, <1>9 DEF Sound
<1> QED
  BY <1>10 DEF t

\* It lends a new frame what it holds, and waits.
LEMMA TopLends ==
  ASSUME NEW s, Sound(s), s # << >>, NEW f, Like(f, s[Len(s)]), f.wait \in Waiting,
         NEW g, IsFrame(g), g.caps = g.fn.uses \cap s[Len(s)].caps
  PROVE  Sound(Append([s EXCEPT ![Len(s)] = f], g))
<1> PICK r : r = [s EXCEPT ![Len(s)] = f]
  OBVIOUS
<1> DEFINE n == Len(r)
           S == {r[i] : i \in DOMAIN r} \cup {g}
           t == Append(r, g)
<1>1. Sound(r)
  BY TopGoesOn
<1>2. n = Len(s) /\ n \in Nat /\ n \in 1..n /\ r[n] = f
  <2>1. s \in Seq({s[i] : i \in DOMAIN s} \cup {f})
    <3>1. s \in Seq({s[i] : i \in DOMAIN s})
      BY DEF Sound, IsSeq
    <3> QED
      BY <3>1, SeqMonotonic
  <2>2. Len(s) \in Nat /\ Len(s) \in 1..Len(s)
    BY <2>1, EmptySeq, LenProperties
  <2> QED
    BY <2>1, <2>2, ExceptSeq
<1>3. r \in Seq(S) /\ g \in S
  <2>1. r \in Seq({r[i] : i \in DOMAIN r})
    BY <1>1 DEF Sound, IsSeq
  <2> QED
    BY <2>1, SeqMonotonic
<1>4. /\ t \in Seq(S) /\ Len(t) = n + 1 /\ t[n + 1] = g
      /\ \A j \in 1..n : t[j] = r[j]
  BY <1>3, AppendProperties
<1>5. IsSeq(t)
  BY <1>4, SeqIsSeq
<1>6. r[n].caps = s[Len(s)].caps /\ r[n].wait \in Waiting
  BY <1>2 DEF Like
<1>7. \A j \in 1..(n + 1) : j = n + 1 \/ j \in 1..n
  BY <1>2
<1>8. \A j \in 1..(n + 1) : IsFrame(t[j]) /\ t[j].caps \subseteq t[j].fn.uses
  BY <1>1, <1>4, <1>7 DEF Sound
<1>9. ASSUME NEW i \in 1..(n + 1), NEW j \in 1..(n + 1), i <= j
      PROVE  t[j].caps \subseteq t[i].caps
  <2>1. CASE j \in 1..n
    <3>1. i \in 1..n
      BY <2>1, <1>9, <1>2
    <3> QED
      BY <3>1, <2>1, <1>1, <1>4, <1>9 DEF Sound
  <2>2. CASE j = n + 1 /\ i \in 1..n
    <3>1. r[n].caps \subseteq r[i].caps
      <4>1. i <= n /\ n \in 1..n
        BY <2>2, <1>2
      <4> QED
        BY <4>1, <2>2, <1>1 DEF Sound
    <3> QED
      BY <3>1, <2>2, <1>4, <1>6
  <2>3. CASE j = n + 1 /\ i = n + 1
    BY <2>3
  <2> QED
    BY <2>1, <2>2, <2>3, <1>7
<1>10. \A j \in 1..(n + 1) : j # n + 1 => t[j].wait \in Waiting
  BY <1>1, <1>4, <1>6, <1>7 DEF Sound
<1>11. Sound(t)
  <2> HIDE DEF t
  <2> QED
    BY <1>4, <1>5, <1>8, <1>9, <1>10 DEF Sound
<1> QED
  BY <1>11

\* It leaves: the frame below is the last.
LEMMA TopLeaves ==
  ASSUME NEW s, Sound(s), s # << >>
  PROVE  /\ Len(s) - 1 \in Nat
         /\ Sound(SubSeq(s, 1, Len(s) - 1))
         /\ Len(SubSeq(s, 1, Len(s) - 1)) = Len(s) - 1
         /\ \A i \in 1..(Len(s) - 1) : SubSeq(s, 1, Len(s) - 1)[i] = s[i]
<1> DEFINE S == {s[i] : i \in DOMAIN s}
           m == Len(s) - 1
           t == SubSeq(s, 1, m)
<1>1. s \in Seq(S)
  BY DEF Sound, IsSeq
<1>2. Len(s) \in Nat /\ m \in Nat /\ 1..m \subseteq 1..Len(s) /\ Len(s) \notin 1..m
  BY <1>1, EmptySeq, LenProperties
<1>3. \A i \in 1..m : s[i] \in S
  BY <1>1, <1>2, ElementOfSeq
<1>4. t \in Seq(S) /\ Len(t) = m /\ \A i \in 1..m : t[i] = s[i]
  <2>1. /\ t \in Seq(S)
        /\ Len(t) = IF 1 <= m THEN m - 1 + 1 ELSE 0
        /\ \A i \in 1 .. m - 1 + 1 : t[i] = s[1 + i - 1]
    BY <1>2, <1>3, SubSeqProperties
  <2>2. m - 1 + 1 = m /\ \A i \in 1..m : 1 + i - 1 = i
    BY <1>2
  <2> QED
    BY <1>2, <2>1, <2>2
<1>5. IsSeq(t)
  BY <1>4, SeqIsSeq
<1> HIDE DEF t
<1>6. Sound(t)
  BY <1>2, <1>4, <1>5 DEF Sound
<1> QED
  BY <1>2, <1>4, <1>6 DEF t

\* A charge reaches every frame and changes no authority.
LEMMA ChargedStack ==
  ASSUME NEW s, Sound(s)
  PROVE  Sound(Charged(s)) /\ Len(Charged(s)) = Len(s) /\ (s # << >> => Charged(s) # << >>)
<1> DEFINE S == {s[i] : i \in DOMAIN s}
           C == {[s[i] EXCEPT !.spent = @ + Price] : i \in DOMAIN s}
           t == Charged(s)
<1>1. s \in Seq(S)
  BY DEF Sound, IsSeq
<1>2. Len(s) \in Nat /\ DOMAIN s = 1..Len(s)
  BY <1>1, LenProperties
<1>3. t \in [1..Len(s) -> C] /\ \A i \in 1..Len(s) : t[i] = [s[i] EXCEPT !.spent = @ + Price]
  BY <1>2 DEF Charged
<1>4. t \in Seq(C)
  BY <1>2, <1>3, SeqDef
<1> HIDE DEF t
<1>5. IsSeq(t) /\ Len(t) = Len(s)
  <2>1. IsSeq(t) /\ Len(t) \in Nat /\ DOMAIN t = 1..Len(t)
    BY <1>4, SeqIsSeq
  <2>2. DOMAIN t = 1..Len(s)
    BY <1>3
  <2>3. PICK a \in Nat, b \in Nat : a = Len(t) /\ b = Len(s)
    BY <2>1, <1>2
  <2>4. 1..a = 1..b
    BY <2>1, <2>2, <2>3
  <2>5. a = b
    <3>1. ~ (a < b) /\ ~ (b < a)
      <4>1. \A i \in 1..a : i \in 1..b
        BY <2>4
      <4>2. \A i \in 1..b : i \in 1..a
        BY <2>4
      <4> QED
        BY <4>1, <4>2
    <3> QED
      BY <3>1
  <2> QED
    BY <2>1, <2>3, <2>5
<1>6. \A i \in 1..Len(s) : /\ IsFrame(t[i]) /\ t[i].caps = s[i].caps /\ t[i].fn = s[i].fn
                           /\ t[i].wait = s[i].wait
  BY <1>3 DEF Sound, IsFrame
<1>7. Sound(t)
  BY <1>5, <1>6 DEF Sound
<1>8. s # << >> => t # << >>
  BY <1>1, <1>4, <1>5, EmptySeq
<1> QED
  BY <1>5, <1>7, <1>8 DEF t

-----------------------------------------------------------------------------
\* What the actions put in the place of a frame.
LEMMA LikeFrame ==
  ASSUME NEW f, NEW g, Like(g, f), NEW v
  PROVE  /\ Like([g EXCEPT !.pc = v], f)
         /\ Like([g EXCEPT !.st = v], f)
         /\ Like([g EXCEPT !.slots = v], f)
         /\ Like([g EXCEPT !.loop = v], f)
         /\ Like([g EXCEPT !.wait = v], f) /\ [g EXCEPT !.wait = v].wait = v
BY DEF Like, IsFrame

\* What they put above it.
LEMMA NewFrame ==
  ASSUME NEW fn, NEW args, NEW caps
  PROVE  /\ IsFrame(Frame(fn, args, caps))
         /\ Frame(fn, args, caps).caps = fn.uses \cap caps
         /\ Frame(fn, args, caps).fn = fn
BY DEF IsFrame, Frame

\* The executing frame is one.
LEMMA TopIsFrame ==
  ASSUME IInv, stack # << >>
  PROVE  /\ Len(stack) \in Nat /\ Len(stack) \in 1..Len(stack)
         /\ IsFrame(Top) /\ Top.caps \subseteq Top.fn.uses
<1>1. stack \in Seq({stack[i] : i \in DOMAIN stack})
  BY DEF IInv, Sound, IsSeq
<1>2. Len(stack) \in Nat /\ Len(stack) \in 1..Len(stack)
  BY <1>1, EmptySeq, LenProperties
<1> QED
  BY <1>2 DEF IInv, Sound, Top

\* A program starts in main, which holds what it declares.
LEMMA InitSound == Init => IInv
<1> SUFFICES ASSUME Init PROVE IInv
  OBVIOUS
<1> DEFINE f == Frame(table["main"], << >>, table["main"].uses)
<1>1. IsFrame(f) /\ f.caps \subseteq f.fn.uses
  BY NewFrame
<1> HIDE DEF f
<1>2. stack = << f >>
  BY DEF Init, f
<1>3. stack \in Seq({f}) /\ Len(stack) = 1 /\ stack[1] = f
  BY <1>2
<1>4. IsSeq(stack)
  BY <1>3, SeqIsSeq
<1> QED
  BY <1>1, <1>3, <1>4 DEF IInv, Sound

\* Past its instruction the executing frame is like itself.
LEMMA PastLike ==
  ASSUME IInv, stack # << >>, NEW st
  PROVE  Like(Past(st), Top)
BY TopIsFrame DEF Past, Like, IsFrame

\* Most instructions change the executing frame alone.
LEMMA TopChanged ==
  ASSUME IInv, stack # << >>, NEW f, Like(f, Top), Become(f)
  PROVE  IInv'
<1>1. Sound([stack EXCEPT ![Len(stack)] = f])
  BY TopGoesOn DEF IInv, Top
<1> QED
  BY <1>1 DEF IInv, Become

\* Moves on the operand stack, slots, operators and prints.
LEMMA StepOperands ==
  ASSUME IInv, Push \/ Store \/ Operate \/ Select \/ PrintTop \/ Permit
  PROVE  IInv'
<1>1. stack # << >>
  BY DEF Push, Store, Operate, Select, PrintTop, Permit, Running
<1>2. ASSUME NEW st, Become(Past(st)) PROVE IInv'
  BY <1>1, <1>2, PastLike, TopChanged
<1>3. CASE Push
  BY <1>2, <1>3 DEF Push
<1>4. CASE Store
  <2>1. CASE Become(Past(Below(1)))
    BY <1>2, <2>1
  <2>2. ASSUME NEW v, Become([Past(Below(1)) EXCEPT !.slots = v]) PROVE IInv'
    <3>1. Like(Past(Below(1)), Top)
      BY <1>1, PastLike
    <3>2. Like([Past(Below(1)) EXCEPT !.slots = v], Top)
      BY <3>1, LikeFrame
    <3> QED
      BY <1>1, <3>2, <2>2, TopChanged
  <2> QED
    BY <1>4, <2>1, <2>2 DEF Store
<1>5. CASE Operate
  BY <1>2, <1>5 DEF Operate
<1>6. CASE Select
  BY <1>2, <1>6 DEF Select
<1>7. CASE PrintTop
  BY <1>2, <1>7 DEF PrintTop
<1>8. CASE Permit
  BY <1>2, <1>8 DEF Permit
<1> QED
  BY <1>3, <1>4, <1>5, <1>6, <1>7, <1>8

\* Jumps.
LEMMA StepBranch ==
  ASSUME IInv, Branch
  PROVE  IInv'
<1>1. stack # << >>
  BY DEF Branch, Running
<1>2. ASSUME NEW st, NEW v, Become([Past(st) EXCEPT !.pc = v]) PROVE IInv'
  <2>1. Like(Past(st), Top)
    BY <1>1, PastLike
  <2>2. Like([Past(st) EXCEPT !.pc = v], Top)
    BY <2>1, LikeFrame
  <2> QED
    BY <1>1, <1>2, <2>2, TopChanged
<1> QED
  BY <1>2 DEF Branch

\* What fails leaves the stack as it is.
LEMMA StepRefused ==
  ASSUME IInv, NothingToSelect \/ Deny \/ RefuseTainted
  PROVE  IInv'
BY DEF IInv, NothingToSelect, Deny, RefuseTainted

\* A generation changes what frames have spent.
LEMMA StepGenerate ==
  ASSUME IInv, Generate
  PROVE  IInv'
<1>1. stack # << >>
  BY DEF Generate, Running
<1>2. CASE UNCHANGED stack
  BY <1>2 DEF IInv
<1>3. ASSUME NEW st,
             stack' = [Charged(stack) EXCEPT ![Len(stack)].pc = @ + 1, ![Len(stack)].st = st]
      PROVE  IInv'
  <2>1. PICK c : c = Charged(stack)
    OBVIOUS
  <2>2. Sound(c) /\ Len(c) = Len(stack) /\ c # << >>
    BY <1>1, <2>1, ChargedStack DEF IInv
  <2>3. Len(c) \in 1..Len(c) /\ DOMAIN c = 1..Len(c)
    <3>1. c \in Seq({c[i] : i \in DOMAIN c})
      BY <2>2 DEF Sound, IsSeq
    <3> QED
      BY <2>2, <3>1, EmptySeq, LenProperties
  <2> DEFINE f == [c[Len(c)] EXCEPT !.pc = @ + 1, !.st = st]
  <2>4. Like(f, c[Len(c)])
    BY <2>2, <2>3 DEF Sound, Like, IsFrame
  <2>5. stack' = [c EXCEPT ![Len(c)] = f]
    BY <1>3, <2>1, <2>2, <2>3
  <2> HIDE DEF f
  <2> QED
    BY <2>2, <2>4, <2>5, TopGoesOn DEF IInv
<1> QED
  BY <1>2, <1>3 DEF Generate

\* A call, a step or a `try` lends the callee what the caller holds.
LEMMA StepEnter ==
  ASSUME IInv, EnterFunction \/ EnterBody
  PROVE  IInv'
<1>1. stack # << >>
  BY DEF EnterFunction, EnterBody, Running
<1>2. ASSUME NEW fn, NEW args, NEW w \in Waiting, NEW n, Above(fn, args, w, n) PROVE IInv'
  <2> DEFINE f == [Past(Below(n)) EXCEPT !.wait = w]
             g == Frame(fn, args, Top.caps)
  <2>1. Like(f, Top) /\ f.wait \in Waiting
    BY <1>1, PastLike, LikeFrame
  <2>2. IsFrame(g) /\ g.caps = g.fn.uses \cap Top.caps
    BY NewFrame
  <2>3. stack' = Append([stack EXCEPT ![Len(stack)] = f], g)
    BY <1>2 DEF Above
  <2> HIDE DEF f, g
  <2> QED
    BY <1>1, <2>1, <2>2, <2>3, TopLends DEF IInv, Top
<1>3. CASE EnterFunction
  BY <1>2, <1>3 DEF EnterFunction, Waiting
<1>4. CASE EnterBody
  BY <1>2, <1>4 DEF EnterBody, Waiting
<1> QED
  BY <1>3, <1>4

\* So does an iteration of a block; entering and leaving the block lend nothing.
LEMMA StepLoop ==
  ASSUME IInv, EnterLoop \/ Iterate \/ LeaveLoop
  PROVE  IInv'
<1>1. stack # << >>
  BY DEF EnterLoop, Iterate, LeaveLoop, Running
<1>2. Len(stack) \in 1..Len(stack) /\ IsFrame(Top)
  BY <1>1, TopIsFrame
<1>3. CASE EnterLoop
  <2>1. ASSUME NEW st, NEW l, Become([Past(st) EXCEPT !.wait = "par", !.loop = l]) PROVE IInv'
    <3>1. Like([Past(st) EXCEPT !.wait = "par", !.loop = l], Top)
      BY <1>1, PastLike DEF Like, IsFrame
    <3> QED
      BY <1>1, <2>1, <3>1, TopChanged
  <2> QED
    BY <1>3, <2>1 DEF EnterLoop
<1>4. CASE LeaveLoop
  <2>1. ASSUME NEW st, Become([Top EXCEPT !.wait = "none", !.st = st]) PROVE IInv'
    <3>1. Like([Top EXCEPT !.wait = "none", !.st = st], Top)
      BY <1>2 DEF Like, IsFrame
    <3> QED
      BY <1>1, <2>1, <3>1, TopChanged
  <2> QED
    BY <1>4, <2>1 DEF LeaveLoop
<1>5. CASE Iterate
  <2> DEFINE f == [Top EXCEPT !.loop.items = Tail(@)]
             g == Frame(Top.loop.body, <<Head(Top.loop.items)>> \o Top.loop.captured, Top.caps)
  <2>1. Like(f, Top) /\ f.wait \in Waiting
    BY <1>2, <1>5 DEF Like, IsFrame, Iterate, Waiting
  <2>2. IsFrame(g) /\ g.caps = g.fn.uses \cap Top.caps
    BY NewFrame
  <2>3. stack' = Append([stack EXCEPT ![Len(stack)] = f], g)
    BY <1>2, <1>5 DEF Iterate, Top
  <2> HIDE DEF f, g
  <2> QED
    BY <1>1, <2>1, <2>2, <2>3, TopLends DEF IInv, Top
<1> QED
  BY <1>3, <1>4, <1>5

\* What has waited goes on with what it held.
LEMMA StepLeave ==
  ASSUME IInv, Leave \/ Unwind \/ Catch
  PROVE  IInv'
<1>1. stack # << >>
  BY DEF Leave, Unwind, Catch, Running
<1> DEFINE n == Len(stack) - 1
<1>2. PICK t : t = SubSeq(stack, 1, n)
  OBVIOUS
<1>3. n \in Nat /\ Sound(t) /\ Len(t) = n /\ \A i \in 1..n : t[i] = stack[i]
  BY <1>1, <1>2, TopLeaves DEF IInv
<1>4. CASE Unwind
  BY <1>2, <1>3, <1>4 DEF Unwind, IInv
<1>5. CASE Catch
  <2>1. ASSUME NEW st, Become([Top EXCEPT !.wait = "none", !.st = st]) PROVE IInv'
    <3>1. Like([Top EXCEPT !.wait = "none", !.st = st], Top)
      BY <1>1, TopIsFrame DEF Like, IsFrame
    <3> QED
      BY <1>1, <2>1, <3>1, TopChanged
  <2> QED
    BY <1>5, <2>1 DEF Catch
<1>6. ASSUME stack' = << >> PROVE IInv'
  <2>1. << >> \in Seq({}) /\ Len(<< >>) = 0
    BY EmptySeq
  <2>2. IsSeq(<< >>)
    BY <2>1, SeqIsSeq
  <2> QED
    BY <1>6, <2>1, <2>2 DEF IInv, Sound
<1>7. ASSUME n # 0, NEW v, stack' = [t EXCEPT ![n] = Resumed(@, v)] PROVE IInv'
  <2>1. n \in 1..n /\ n # Len(stack) /\ n \in 1..Len(stack)
    BY <1>3, <1>7, <1>1, TopIsFrame
  <2>2. t[n].wait \in Waiting /\ IsFrame(t[n])
    BY <2>1, <1>3 DEF IInv, Sound
  <2>3. t # << >> /\ DOMAIN t = 1..n
    <3>1. t \in Seq({t[i] : i \in DOMAIN t})
      BY <1>3 DEF Sound, IsSeq
    <3> QED
      BY <3>1, <1>3, <1>7, EmptySeq, LenProperties
  <2>4. Like(Resumed(t[n], v), t[n])
    BY <2>2 DEF Resumed, Like, IsFrame, Waiting
  <2>5. stack' = [t EXCEPT ![Len(t)] = Resumed(t[n], v)]
    BY <1>3, <1>7, <2>1, <2>3
  <2> QED
    BY <1>3, <2>3, <2>4, <2>5, TopGoesOn DEF IInv
<1>8. CASE Leave
  BY <1>2, <1>6, <1>7, <1>8 DEF Leave
<1> QED
  BY <1>4, <1>5, <1>8

\* The invariant is inductive.
LEMMA NextSound == IInv /\ [Next]_vars => IInv'
<1>1. ASSUME IInv, Next PROVE IInv'
  <2>1. CASE Finished
    BY <1>1, <2>1 DEF Finished, vars, IInv
  <2> QED
    BY <1>1, <2>1, StepOperands, StepBranch, StepRefused, StepGenerate, StepEnter, StepLoop,
       StepLeave DEF Next
<1>2. ASSUME IInv, UNCHANGED vars PROVE IInv'
  BY <1>2 DEF vars, IInv
<1> QED
  BY <1>1, <1>2

\* The inductive invariant holds in every behaviour.
LEMMA Inductive == Spec => []IInv
BY InitSound, NextSound, PTL DEF Spec

\* Whatever program a file holds, and however deep it calls, tries, steps and loops, no
\* frame has a capability that some function below it on the stack did not declare.
THEOREM AuthorityIsLent == Spec => []AuthorityOnlyShrinks
<1>1. IInv => AuthorityOnlyShrinks
  <2> SUFFICES ASSUME IInv, NEW i \in DOMAIN stack, NEW j \in DOMAIN stack, i <= j
               PROVE  stack[j].caps \subseteq stack[i].fn.uses
    BY DEF AuthorityOnlyShrinks
  <2>1. DOMAIN stack = 1..Len(stack)
    <3>1. stack \in Seq({stack[k] : k \in DOMAIN stack})
      BY DEF IInv, Sound, IsSeq
    <3> QED
      BY <3>1, LenProperties
  <2> QED
    BY <2>1 DEF IInv, Sound
<1> QED
  BY <1>1, Inductive, PTL

\* A capability is used only where every function on the stack declares it.
UsesAreDeclared ==
  [][Permit => \A i \in DOMAIN stack : Here.cap \in stack[i].fn.uses]_vars

\* What REQUIRE lets through was declared by each function from main to the one that uses
\* it: a file cannot reach a capability by calling around a function that lacks it.
THEOREM EveryUseIsDeclared == Spec => UsesAreDeclared
<1>1. IInv => (Permit => \A i \in DOMAIN stack : Here.cap \in stack[i].fn.uses)
  <2> SUFFICES ASSUME IInv, Permit, NEW i \in DOMAIN stack
               PROVE  Here.cap \in stack[i].fn.uses
    OBVIOUS
  <2>1. stack # << >> /\ Here.cap \in Top.caps
    BY DEF Permit, Running
  <2>2. i \in 1..Len(stack) /\ Len(stack) \in 1..Len(stack) /\ i <= Len(stack)
    <3>1. stack \in Seq({stack[k] : k \in DOMAIN stack})
      BY DEF IInv, Sound, IsSeq
    <3> QED
      BY <3>1, <2>1, LenProperties, TopIsFrame
  <2>3. Top.caps \subseteq stack[i].caps /\ stack[i].caps \subseteq stack[i].fn.uses
    BY <2>2 DEF IInv, Sound, Top
  <2> QED
    BY <2>1, <2>3
<1> QED
  BY <1>1, Inductive, PTL DEF UsesAreDeclared

-----------------------------------------------------------------------------
(***************************************************************************)
(* Marks.  Origins is a parameter; all that is used of it is that nothing  *)
(* in a value escapes it.  F is the functions of a file.                   *)
(***************************************************************************)
IsValue(v) == {"kind", "data", "items", "from", "mark"} \subseteq DOMAIN v /\ v.mark \in BOOLEAN

\* What is untrusted in a value is what it derives from itself and what its elements do.
OriginsAreDeep ==
  \A v : IsValue(v) =>
    Origins(v) = v.from \cup UNION {Origins(v.items[i]) : i \in DOMAIN v.items}

\* The untrusted parameters of the functions F.
Named(F) == UNION {fn.untrusted : fn \in F}

\* A value that is marked when anything in it is untrusted, and whose elements have none:
\* all there are but for those that LIST, RECORD, PARALLEL and TRY build.
Simple(v) == IsValue(v) /\ v.items = << >>
Good(v, F) ==
  /\ IsValue(v)
  /\ Origins(v) \cap Named(F) # {} => v.mark
  /\ \A i \in DOMAIN v.items : Simple(v.items[i])

\* Operands are good values; so are the slots of a frame, which runs a function of the file
\* and waits for nothing but a call.
Operands(s, F) == IsSeq(s) /\ \A i \in 1..Len(s) : Good(s[i], F)
Tidy(f, F) ==
  /\ {"fn", "st", "slots", "wait"} \subseteq DOMAIN f
  /\ f.fn \in F
  /\ Operands(f.st, F)
  /\ \A x \in DOMAIN f.slots : Good(f.slots[x], F)
  /\ f.wait \in {"none", "call"}
AllTidy(s, F) == IsSeq(s) /\ \A i \in 1..Len(s) : Tidy(s[i], F)

MarksInv ==
  /\ prog \in Programs /\ table = Load(prog)
  /\ KeepsMarks => AllTidy(stack, FnsOf(table))

\* A value without elements is good when it is marked for what it derives from.
LEMMA SimpleIsGood ==
  ASSUME OriginsAreDeep, NEW v, Simple(v), NEW F, v.from \cap Named(F) # {} => v.mark
  PROVE  Good(v, F) /\ Origins(v) = v.from
<1>1. Origins(v) = v.from \cup UNION {Origins(v.items[i]) : i \in DOMAIN v.items}
  BY DEF OriginsAreDeep, Simple
<1>2. DOMAIN v.items = {}
  BY DEF Simple
<1>3. Origins(v) = v.from
  BY <1>1, <1>2
<1> QED
  BY <1>2, <1>3 DEF Good, Simple

\* Constants, nil, what operators and capabilities yield.
LEMMA NewValue ==
  ASSUME OriginsAreDeep, NEW F, NEW k, NEW d, NEW from, NEW m \in BOOLEAN,
         from \cap Named(F) # {} => m
  PROVE  Good(Value(k, d, << >>, from, m), F)
<1> DEFINE v == Value(k, d, << >>, from, m)
<1>1. Simple(v)
  BY DEF Value, Simple, IsValue
<1>2. v.from = from /\ v.mark = m
  BY DEF Value
<1> HIDE DEF v
<1>3. v.from \cap Named(F) # {} => v.mark
  BY <1>2
<1> QED
  BY <1>1, <1>3, SimpleIsGood DEF v

LEMMA NilIsGood ==
  ASSUME OriginsAreDeep, NEW F
  PROVE  Good(Nil, F)
BY NewValue DEF Nil

\* An argument of an untrusted parameter, which is marked.
LEMMA MarkedArgument ==
  ASSUME OriginsAreDeep, NEW F, NEW v, Good(v, F), NEW X
  PROVE  Good([v EXCEPT !.mark = TRUE, !.from = @ \cup X], F)
<1> DEFINE w == [v EXCEPT !.mark = TRUE, !.from = @ \cup X]
<1>1. IsValue(w) /\ w.mark = TRUE /\ w.items = v.items
  BY DEF Good, IsValue
<1>2. \A i \in DOMAIN w.items : Simple(w.items[i])
  BY <1>1 DEF Good
<1> HIDE DEF w
<1>3. Good(w, F)
  BY <1>1, <1>2 DEF Good
<1> QED
  BY <1>3 DEF w

\* Part joins the mark of what something was found in, or by.
LEMMA MarkJoined ==
  ASSUME OriginsAreDeep, NEW F, NEW e, Simple(e), NEW b, Good(b, F),
         e.from \cap Named(F) # {} => e.mark \/ b.mark
  PROVE  Simple(Part(e, b)) /\ Good(Part(e, b), F)
<1> DEFINE v == Part(e, b)
<1>1. IsValue(e) /\ IsValue(b)
  BY DEF Good, Simple
<1>2. v.items = << >> /\ v.mark = (e.mark \/ b.mark) /\ v.from = e.from \cup b.from
      /\ {"kind", "data", "items", "from", "mark"} \subseteq DOMAIN v
  BY <1>1 DEF Part, Marked, Simple, IsValue
<1>3. v.mark \in BOOLEAN /\ (b.mark => v.mark) /\ (e.mark => v.mark)
  BY <1>1, <1>2 DEF IsValue
<1>4. Simple(v)
  BY <1>2, <1>3 DEF Simple, IsValue
<1>5. b.from \subseteq Origins(b)
  <2>1. Origins(b) = b.from \cup UNION {Origins(b.items[j]) : j \in DOMAIN b.items}
    BY <1>1 DEF OriginsAreDeep
  <2> QED
    BY <2>1
<1> HIDE DEF v
<1>6. v.from \cap Named(F) # {} => v.mark
  <2> SUFFICES ASSUME v.from \cap Named(F) # {} PROVE v.mark
    OBVIOUS
  <2>1. e.from \cap Named(F) # {} \/ Origins(b) \cap Named(F) # {}
    BY <1>2, <1>5
  <2>2. e.mark \/ b.mark
    BY <2>1 DEF Good
  <2> QED
    BY <1>3, <2>2
<1>7. Good(v, F)
  BY <1>4, <1>6, SimpleIsGood
<1> QED
  BY <1>4, <1>7 DEF v

\* An element that is taken out is marked when what held it is: what is untrusted in it
\* was in that.
LEMMA GoodPart ==
  ASSUME OriginsAreDeep, NEW F, NEW b, Good(b, F), NEW i \in DOMAIN b.items
  PROVE  Simple(Part(b.items[i], b)) /\ Good(Part(b.items[i], b), F)
<1> DEFINE e == b.items[i]
<1>1. Simple(e) /\ IsValue(e) /\ IsValue(b)
  BY DEF Good, Simple
<1>2. e.from \subseteq Origins(b)
  <2>1. Origins(b) = b.from \cup UNION {Origins(b.items[j]) : j \in DOMAIN b.items}
    BY <1>1 DEF OriginsAreDeep
  <2>2. Origins(e) = e.from \cup UNION {Origins(e.items[j]) : j \in DOMAIN e.items}
    BY <1>1 DEF OriginsAreDeep
  <2> QED
    BY <2>1, <2>2
<1>3. e.from \cap Named(F) # {} => e.mark \/ b.mark
  <2> SUFFICES ASSUME e.from \cap Named(F) # {} PROVE b.mark
    OBVIOUS
  <2>1. Origins(b) \cap Named(F) # {}
    BY <1>2
  <2> QED
    BY <2>1 DEF Good
<1> QED
  BY <1>1, <1>3, MarkJoined

\* The result of an operator is marked when an operand is.
LEMMA GoodCombined ==
  ASSUME OriginsAreDeep, NEW F, NEW v, NEW w, Good(v, F), Good(w, F), NEW o \in {"EQ", "SUB"}
  PROVE  Good(Combined(o, v, w), F)
<1> DEFINE from == Origins(v) \cup Origins(w)
           m == v.mark \/ w.mark
<1>1. m \in BOOLEAN
  BY DEF Good, IsValue
<1>2. from \cap Named(F) # {} => m
  <2> SUFFICES ASSUME from \cap Named(F) # {} PROVE m
    OBVIOUS
  <2>1. Origins(v) \cap Named(F) # {} \/ Origins(w) \cap Named(F) # {}
    OBVIOUS
  <2> QED
    BY <2>1 DEF Good
<1> HIDE DEF from, m
<1>3. \A k, d : Good(Value(k, d, << >>, from, m), F)
  BY <1>1, <1>2, NewValue
<1>4. PICK k, d : Combined(o, v, w) = Value(k, d, << >>, from, m)
  <2>1. CASE o = "EQ"
    BY <2>1 DEF Combined, from, m
  <2>2. CASE o = "SUB"
    BY <2>2 DEF Combined, from, m
  <2> QED
    BY <2>1, <2>2
<1> QED
  BY <1>3, <1>4

LEMMA GoodNegated ==
  ASSUME OriginsAreDeep, NEW F, NEW v, Good(v, F)
  PROVE  Good(Negated(v), F)
<1>1. v.mark \in BOOLEAN /\ (Origins(v) \cap Named(F) # {} => v.mark)
  BY DEF Good, IsValue
<1> QED
  BY <1>1, NewValue DEF Negated

\* A generation answers with a record of one text, which is marked when an argument is.
LEMMA GoodGenerated ==
  ASSUME OriginsAreDeep, NEW F, "prompt" \notin Named(F), NEW vs, Operands(vs, F)
  PROVE  Good(Generated(vs), F)
<1> DEFINE dirty == \E i \in DOMAIN vs : vs[i].mark
           all == UNION {Origins(vs[i]) : i \in DOMAIN vs}
           own == IF Here.untrusted THEN {"prompt"} ELSE {}
           from == all \cup own
           n == Len(acts) + 1
           e == Value("str", n + 1, << >>, from, FALSE)
           v == Value("rec", n, << e >>, from, dirty)
<1>1. DOMAIN vs = 1..Len(vs)
  BY SeqIsSeq DEF Operands, IsSeq
<1>2. v = Generated(vs)
  BY DEF Generated
<1>3. Simple(e) /\ e.from = from
  BY DEF Value, Simple, IsValue
<1>4. IsValue(v) /\ v.from = from /\ v.mark = dirty /\ v.items = << e >>
  BY DEF Value, IsValue
<1>5. dirty \in BOOLEAN
  OBVIOUS
<1>6. own \cap Named(F) = {}
  OBVIOUS
<1>7. from \cap Named(F) # {} => dirty
  <2> SUFFICES ASSUME from \cap Named(F) # {} PROVE dirty
    OBVIOUS
  <2>1. all \cap Named(F) # {}
    <3> HIDE DEF all, own
    <3> QED
      BY <1>6
  <2>2. PICK i \in DOMAIN vs : Origins(vs[i]) \cap Named(F) # {}
    BY <2>1
  <2> QED
    BY <2>2, <1>1 DEF Operands, Good
<1> HIDE DEF all, own, from, dirty, e, v
<1>8. Origins(e) = from
  <2>1. Origins(e) = e.from \cup UNION {Origins(e.items[i]) : i \in DOMAIN e.items}
    BY <1>3 DEF OriginsAreDeep, Simple
  <2>2. DOMAIN e.items = {}
    BY <1>3 DEF Simple
  <2> QED
    BY <1>3, <2>1, <2>2
<1>9. Origins(v) = from
  <2>1. Origins(v) = v.from \cup UNION {Origins(v.items[i]) : i \in DOMAIN v.items}
    BY <1>4 DEF OriginsAreDeep
  <2>2. DOMAIN v.items = {1} /\ v.items[1] = e
    BY <1>4
  <2> QED
    BY <1>4, <1>8, <2>1, <2>2
<1>10. \A i \in DOMAIN v.items : Simple(v.items[i])
  BY <1>3, <1>4
<1>11. Good(v, F)
  BY <1>4, <1>7, <1>9, <1>10 DEF Good
<1> QED
  BY <1>2, <1>11

-----------------------------------------------------------------------------
\* Operand stacks: what is pushed, what is left, what is taken.
LEMMA OperandsPush ==
  ASSUME NEW F, NEW s, Operands(s, F), NEW v, Good(v, F)
  PROVE  Operands(Append(s, v), F)
<1> DEFINE S == {s[i] : i \in DOMAIN s} \cup {v}
           t == Append(s, v)
           n == Len(s)
<1>1. s \in Seq(S) /\ v \in S /\ n \in Nat
  <2>1. s \in Seq({s[i] : i \in DOMAIN s})
    BY DEF Operands, IsSeq
  <2> QED
    BY <2>1, SeqMonotonic, LenProperties
<1>2. t \in Seq(S) /\ Len(t) = n + 1 /\ t[n + 1] = v /\ \A i \in 1..n : t[i] = s[i]
  BY <1>1, AppendProperties
<1>3. IsSeq(t)
  BY <1>2, SeqIsSeq
<1> HIDE DEF t
<1>4. \A i \in 1..(n + 1) : i = n + 1 \/ i \in 1..n
  BY <1>1
<1>5. \A i \in 1..Len(t) : Good(t[i], F)
  BY <1>2, <1>4 DEF Operands
<1> QED
  BY <1>3, <1>5 DEF Operands, t

LEMMA OperandsPart ==
  ASSUME NEW F, NEW s, Operands(s, F), NEW m \in Nat \ {0}, NEW n \in Int, n <= Len(s)
  PROVE  Operands(SubSeq(s, m, n), F) /\ Len(SubSeq(s, m, n)) = IF m <= n THEN n - m + 1 ELSE 0
<1> DEFINE S == {s[i] : i \in DOMAIN s}
           t == SubSeq(s, m, n)
<1>1. s \in Seq(S) /\ Len(s) \in Nat /\ DOMAIN s = 1..Len(s)
  BY LenProperties DEF Operands, IsSeq
<1>2. \A i \in m..n : i \in 1..Len(s)
  BY <1>1
<1>3. \A i \in m..n : s[i] \in S
  BY <1>1, <1>2
<1>4. /\ t \in Seq(S) /\ Len(t) = IF m <= n THEN n - m + 1 ELSE 0
      /\ \A i \in 1..(n - m + 1) : t[i] = s[m + i - 1]
  BY <1>3, SubSeqProperties
<1>5. IsSeq(t)
  BY <1>4, SeqIsSeq
<1> HIDE DEF t
<1>6. \A i \in 1..Len(t) : i \in 1..(n - m + 1) /\ m + i - 1 \in m..n
  BY <1>4
<1>7. \A i \in 1..Len(t) : Good(t[i], F)
  BY <1>2, <1>4, <1>6 DEF Operands
<1> QED
  BY <1>4, <1>5, <1>7 DEF Operands, t

\* No operands.
LEMMA NoOperands == ASSUME NEW F PROVE Operands(<< >>, F)
<1>1. << >> \in Seq({}) /\ Len(<< >>) = 0
  BY EmptySeq
<1>2. IsSeq(<< >>)
  BY <1>1, SeqIsSeq
<1>3. 1..0 = {}
  OBVIOUS
<1> QED
  BY <1>1, <1>2, <1>3 DEF Operands

\* The slots of a new frame: nil, an argument, or a marked argument.
LEMMA GoodEntered ==
  ASSUME OriginsAreDeep, NEW F, NEW fn, NEW args, Operands(args, F)
  PROVE  \A x \in DOMAIN Entered(fn, args) : Good(Entered(fn, args)[x], F)
<1> SUFFICES ASSUME NEW x \in ToSet(fn.params) PROVE Good(Entered(fn, args)[x], F)
  BY DEF Entered
<1> DEFINE i == CHOOSE j \in DOMAIN fn.params : fn.params[j] = x
<1>1. Entered(fn, args)[x] =
        IF i \notin DOMAIN args THEN Nil
        ELSE IF x \in fn.untrusted THEN [args[i] EXCEPT !.mark = TRUE, !.from = @ \cup {x}]
        ELSE args[i]
  BY DEF Entered
<1> HIDE DEF i
<1>2. CASE i \notin DOMAIN args
  BY <1>1, <1>2, NilIsGood
<1>3. CASE i \in DOMAIN args
  <2>1. Good(args[i], F)
    <3>1. DOMAIN args = 1..Len(args)
      BY SeqIsSeq DEF Operands, IsSeq
    <3> QED
      BY <1>3, <3>1 DEF Operands
  <2>2. Good([args[i] EXCEPT !.mark = TRUE, !.from = @ \cup {x}], F)
    BY <2>1, MarkedArgument
  <2> QED
    BY <1>1, <1>3, <2>1, <2>2
<1> QED
  BY <1>2, <1>3

\* A new frame is tidy.
LEMMA TidyFrame ==
  ASSUME OriginsAreDeep, NEW F, NEW fn \in F, NEW args, Operands(args, F), NEW caps
  PROVE  Tidy(Frame(fn, args, caps), F)
<1> DEFINE f == Frame(fn, args, caps)
<1>1. /\ {"fn", "st", "slots", "wait"} \subseteq DOMAIN f
      /\ f.fn = fn /\ f.st = << >> /\ f.slots = Entered(fn, args) /\ f.wait = "none"
  BY DEF Frame
<1> HIDE DEF f
<1>2. Operands(f.st, F)
  BY <1>1, NoOperands
<1>3. \A x \in DOMAIN f.slots : Good(f.slots[x], F)
  BY <1>1, GoodEntered
<1>4. Tidy(f, F)
  BY <1>1, <1>2, <1>3 DEF Tidy
<1> QED
  BY <1>4 DEF f

-----------------------------------------------------------------------------
\* Stacks of tidy frames.
LEMMA TidyTop ==
  ASSUME NEW F, NEW s, AllTidy(s, F), s # << >>
  PROVE  /\ Len(s) \in Nat /\ Len(s) \in 1..Len(s) /\ DOMAIN s = 1..Len(s)
         /\ s \in Seq({s[i] : i \in DOMAIN s}) /\ Tidy(s[Len(s)], F)
<1>1. s \in Seq({s[i] : i \in DOMAIN s})
  BY DEF AllTidy, IsSeq
<1>2. Len(s) \in Nat /\ Len(s) \in 1..Len(s) /\ DOMAIN s = 1..Len(s)
  BY <1>1, EmptySeq, LenProperties
<1> QED
  BY <1>1, <1>2 DEF AllTidy

LEMMA TidyGoesOn ==
  ASSUME NEW F, NEW s, AllTidy(s, F), s # << >>, NEW f, Tidy(f, F)
  PROVE  AllTidy([s EXCEPT ![Len(s)] = f], F) /\ [s EXCEPT ![Len(s)] = f] # << >>
<1> DEFINE n == Len(s)
           S == {s[i] : i \in DOMAIN s} \cup {f}
           t == [s EXCEPT ![n] = f]
<1>1. s \in Seq(S) /\ f \in S /\ n \in Nat /\ n \in 1..n
  <2>1. s \in Seq({s[i] : i \in DOMAIN s}) /\ n \in Nat /\ n \in 1..n
    BY TidyTop
  <2> QED
    BY <2>1, SeqMonotonic
<1>2. t \in Seq(S) /\ Len(t) = n /\ \A j \in 1..n : t[j] = IF j = n THEN f ELSE s[j]
  BY <1>1, ExceptSeq
<1>3. IsSeq(t)
  BY <1>2, SeqIsSeq
<1> HIDE DEF t
<1>4. AllTidy(t, F)
  BY <1>2, <1>3 DEF AllTidy
<1>5. t # << >>
  BY <1>1, <1>2, EmptySeq
<1> QED
  BY <1>4, <1>5 DEF t

LEMMA TidyPush ==
  ASSUME NEW F, NEW s, AllTidy(s, F), NEW g, Tidy(g, F)
  PROVE  AllTidy(Append(s, g), F)
<1> DEFINE S == {s[i] : i \in DOMAIN s} \cup {g}
           t == Append(s, g)
           n == Len(s)
<1>1. s \in Seq(S) /\ g \in S /\ n \in Nat
  <2>1. s \in Seq({s[i] : i \in DOMAIN s})
    BY DEF AllTidy, IsSeq
  <2> QED
    BY <2>1, SeqMonotonic, LenProperties
<1>2. t \in Seq(S) /\ Len(t) = n + 1 /\ t[n + 1] = g /\ \A i \in 1..n : t[i] = s[i]
  BY <1>1, AppendProperties
<1>3. IsSeq(t)
  BY <1>2, SeqIsSeq
<1> HIDE DEF t
<1>4. \A i \in 1..(n + 1) : i = n + 1 \/ i \in 1..n
  BY <1>1
<1>5. \A i \in 1..Len(t) : Tidy(t[i], F)
  BY <1>2, <1>4 DEF AllTidy
<1> QED
  BY <1>3, <1>5 DEF AllTidy, t

LEMMA TidyPop ==
  ASSUME NEW F, NEW s, AllTidy(s, F), s # << >>
  PROVE  /\ Len(s) - 1 \in Nat
         /\ AllTidy(SubSeq(s, 1, Len(s) - 1), F)
         /\ Len(SubSeq(s, 1, Len(s) - 1)) = Len(s) - 1
<1> DEFINE S == {s[i] : i \in DOMAIN s}
           m == Len(s) - 1
           t == SubSeq(s, 1, m)
<1>1. s \in Seq(S) /\ Len(s) \in Nat /\ m \in Nat /\ DOMAIN s = 1..Len(s)
      /\ 1..m \subseteq 1..Len(s)
  BY TidyTop
<1>2. \A i \in 1..m : s[i] \in S
  BY <1>1
<1>3. t \in Seq(S) /\ Len(t) = m /\ \A i \in 1..m : t[i] = s[i]
  <2>1. /\ t \in Seq(S)
        /\ Len(t) = IF 1 <= m THEN m - 1 + 1 ELSE 0
        /\ \A i \in 1 .. m - 1 + 1 : t[i] = s[1 + i - 1]
    BY <1>1, <1>2, SubSeqProperties
  <2>2. m - 1 + 1 = m /\ \A i \in 1..m : 1 + i - 1 = i
    BY <1>1
  <2> QED
    BY <1>1, <2>1, <2>2
<1>4. IsSeq(t)
  BY <1>3, SeqIsSeq
<1> HIDE DEF t
<1>5. AllTidy(t, F)
  BY <1>1, <1>3, <1>4 DEF AllTidy
<1> QED
  BY <1>1, <1>3, <1>5 DEF t

LEMMA TidyCharged ==
  ASSUME NEW F, NEW s, AllTidy(s, F)
  PROVE  AllTidy(Charged(s), F) /\ Len(Charged(s)) = Len(s) /\ (s # << >> => Charged(s) # << >>)
<1> DEFINE S == {s[i] : i \in DOMAIN s}
           C == {[s[i] EXCEPT !.spent = @ + Price] : i \in DOMAIN s}
           t == Charged(s)
<1>1. s \in Seq(S) /\ Len(s) \in Nat /\ DOMAIN s = 1..Len(s)
  BY LenProperties DEF AllTidy, IsSeq
<1>2. t \in [1..Len(s) -> C] /\ \A i \in 1..Len(s) : t[i] = [s[i] EXCEPT !.spent = @ + Price]
  BY <1>1 DEF Charged
<1>3. t \in Seq(C)
  <2>1. Len(s) \in Nat /\ t \in [1..Len(s) -> C]
    BY <1>1, <1>2
  <2> HIDE DEF t, C
  <2> QED
    BY <2>1, SeqDef
<1> HIDE DEF t
<1>4. IsSeq(t) /\ Len(t) \in Nat /\ DOMAIN t = 1..Len(t)
  BY <1>3, SeqIsSeq
<1>5. Len(t) = Len(s)
  <2>1. DOMAIN t = 1..Len(s)
    BY <1>2
  <2>2. PICK a \in Nat, b \in Nat : a = Len(t) /\ b = Len(s)
    BY <1>1, <1>4
  <2>3. 1..a = 1..b
    BY <1>4, <2>1, <2>2
  <2>4. (\A i \in 1..a : i \in 1..b) /\ (\A i \in 1..b : i \in 1..a)
    BY <2>3
  <2>5. a = b
    BY <2>4
  <2> QED
    BY <2>2, <2>5
<1>6. ASSUME NEW i \in 1..Len(s) PROVE Tidy(t[i], F)
  <2>1. /\ {"fn", "st", "slots", "wait"} \subseteq DOMAIN t[i]
        /\ t[i].fn = s[i].fn /\ t[i].st = s[i].st
        /\ t[i].slots = s[i].slots /\ t[i].wait = s[i].wait
    BY <1>2 DEF AllTidy, Tidy
  <2> QED
    BY <2>1 DEF AllTidy, Tidy
<1>7. AllTidy(t, F)
  BY <1>4, <1>5, <1>6 DEF AllTidy
<1>8. s # << >> => t # << >>
  BY <1>1, <1>3, <1>5, EmptySeq
<1> QED
  BY <1>5, <1>7, <1>8 DEF t

-----------------------------------------------------------------------------
\* What the executing frame finds.
\* Its instruction is one of its function, or RETNIL past the end; in a file that keeps
\* marks it is none of those that do not.
LEMMA Fetched ==
  ASSUME MarksInv, KeepsMarks, stack # << >>
  PROVE  LET F == FnsOf(table) IN
         /\ AllTidy(stack, F) /\ Tidy(Top, F)
         /\ "prompt" \notin Named(F)
         /\ Here.op \notin {"LEN", "LIST", "RECORD", "PARALLEL", "TRY"}
         /\ Here.op = "PUSHK" =>
              Here.value = Value(Here.value.kind, Here.value.data, << >>, {}, FALSE)
         /\ Here.op = "CALL" => table[Here.fn] \in F
         /\ Here.op = "STEP" => Here.body \in F
         /\ Here.op \in {"CALL", "STEP", "GEN"} => Here.n \in Nat
<1> DEFINE F == FnsOf(table)
           fn == Top.fn
<1>1. AllTidy(stack, F) /\ Tidy(Top, F)
  BY TidyTop DEF MarksInv, Top
<1>2. fn \in F
  BY <1>1 DEF Tidy
<1>3. /\ \A f \in DOMAIN table : table[f] \in F
      /\ \A g \in F :
           /\ "prompt" \notin g.untrusted
           /\ \A k \in DOMAIN g.code :
                /\ g.code[k].op = "PUSHK" =>
                     g.code[k].value
                       = Value(g.code[k].value.kind, g.code[k].value.data, << >>, {}, FALSE)
                /\ g.code[k].op = "CALL" => g.code[k].fn \in DOMAIN table
                /\ g.code[k].op \in LiftedOps => g.code[k].body \in F
                /\ g.code[k].op \in Counted => g.code[k].n \in Nat
  BY FileAssumption DEF MarksInv
<1>4. "prompt" \notin Named(F)
  BY <1>3 DEF Named
<1>5. CASE Top.pc \in DOMAIN Top.fn.code
  <2>1. Here = Top.fn.code[Top.pc]
    BY <1>5 DEF Here
  <2>2. Here.op \notin {"LEN", "LIST", "RECORD", "PARALLEL", "TRY"}
    BY <1>2, <1>5, <2>1 DEF KeepsMarks
  <2> QED
    BY <1>1, <1>2, <1>3, <1>4, <1>5, <2>1, <2>2 DEF LiftedOps, Counted
<1>6. CASE Top.pc \notin DOMAIN Top.fn.code
  <2>1. Here.op = "RETNIL"
    BY <1>6 DEF Here
  <2> QED
    BY <1>1, <1>4, <2>1
<1> QED
  BY <1>5, <1>6

\* Its operands: those its instruction needs are there.
LEMMA Taken ==
  ASSUME NEW F, Tidy(Top, F), NEW n \in Nat, n <= Len(Top.st)
  PROVE  /\ Operands(Below(n), F) /\ Operands(Popped(n), F) /\ Len(Popped(n)) = n
         /\ n >= 1 => Good(Peek, F)
         /\ n = 2 => Good(Popped(2)[1], F)
<1> DEFINE s == Top.st
<1>1. Operands(s, F)
  BY DEF Tidy
<1>2. Len(s) \in Nat
  BY <1>1, LenProperties DEF Operands, IsSeq
<1>3. Operands(Below(n), F)
  <2>1. 1 \in Nat \ {0} /\ Len(s) - n \in Int /\ Len(s) - n <= Len(s)
    BY <1>2
  <2> QED
    BY <1>1, <2>1, OperandsPart DEF Below
<1>4. Operands(Popped(n), F) /\ Len(Popped(n)) = n
  <2>1. /\ Len(s) - n + 1 \in Nat \ {0} /\ Len(s) \in Int /\ Len(s) <= Len(s)
        /\ (IF Len(s) - n + 1 <= Len(s) THEN Len(s) - (Len(s) - n + 1) + 1 ELSE 0) = n
    BY <1>2
  <2> HIDE DEF s
  <2>2. /\ Operands(SubSeq(s, Len(s) - n + 1, Len(s)), F)
        /\ Len(SubSeq(s, Len(s) - n + 1, Len(s)))
             = IF Len(s) - n + 1 <= Len(s) THEN Len(s) - (Len(s) - n + 1) + 1 ELSE 0
    BY <1>1, <2>1, OperandsPart
  <2> QED
    BY <2>1, <2>2 DEF Popped, s
<1>5. n >= 1 => Good(Peek, F)
  BY <1>1, <1>2 DEF Operands, Peek
<1>6. n = 2 => Good(Popped(2)[1], F)
  BY <1>4 DEF Operands
<1> QED
  BY <1>3, <1>4, <1>5, <1>6

\* The frame goes on with other operands, or other slots.
LEMMA TidyPast ==
  ASSUME NEW F, Tidy(Top, F), NEW st, Operands(st, F)
  PROVE  Tidy(Past(st), F)
<1>1. /\ {"fn", "st", "slots", "wait"} \subseteq DOMAIN Past(st)
      /\ Past(st).fn = Top.fn /\ Past(st).st = st
      /\ Past(st).slots = Top.slots /\ Past(st).wait = Top.wait
  BY DEF Tidy, Past
<1> QED
  BY <1>1 DEF Tidy

LEMMA TidyWith ==
  ASSUME NEW F, NEW f, Tidy(f, F), NEW v
  PROVE  /\ Tidy([f EXCEPT !.pc = v], F)
         /\ v \in {"none", "call"} => Tidy([f EXCEPT !.wait = v], F)
         /\ (\A x \in DOMAIN v : Good(v[x], F)) => Tidy([f EXCEPT !.slots = v], F)
<1>1. Tidy([f EXCEPT !.pc = v], F)
  <2>1. PICK g : g = [f EXCEPT !.pc = v]
    OBVIOUS
  <2>2. /\ {"fn", "st", "slots", "wait"} \subseteq DOMAIN g
        /\ g.fn = f.fn /\ g.st = f.st /\ g.slots = f.slots /\ g.wait = f.wait
    BY <2>1 DEF Tidy
  <2> QED
    BY <2>1, <2>2 DEF Tidy
<1>2. ASSUME v \in {"none", "call"} PROVE Tidy([f EXCEPT !.wait = v], F)
  <2>1. PICK g : g = [f EXCEPT !.wait = v]
    OBVIOUS
  <2>2. /\ {"fn", "st", "slots", "wait"} \subseteq DOMAIN g
        /\ g.fn = f.fn /\ g.st = f.st /\ g.slots = f.slots /\ g.wait = v
    BY <2>1 DEF Tidy
  <2> QED
    BY <1>2, <2>1, <2>2 DEF Tidy
<1>3. ASSUME \A x \in DOMAIN v : Good(v[x], F) PROVE Tidy([f EXCEPT !.slots = v], F)
  <2>1. PICK g : g = [f EXCEPT !.slots = v]
    OBVIOUS
  <2>2. /\ {"fn", "st", "slots", "wait"} \subseteq DOMAIN g
        /\ g.fn = f.fn /\ g.st = f.st /\ g.slots = v /\ g.wait = f.wait
    BY <2>1 DEF Tidy
  <2> QED
    BY <1>3, <2>1, <2>2 DEF Tidy
<1> QED
  BY <1>1, <1>2, <1>3

LEMMA NeedsOf ==
  ASSUME NEW i
  PROVE  /\ i.op \in {"STORE", "POP", "DUP", "JZ", "JNZ", "NOT", "FIELD", "PRINT", "RET"} =>
              Needs(i) = 1
         /\ i.op \in {"EQ", "SUB", "INDEX"} => Needs(i) = 2
         /\ i.op \in {"CALL", "GEN", "STEP"} => Needs(i) = i.n
BY DEF Needs, Counted, LiftedOps

\* A name that is stored holds what was on top, the others what they held.
LEMMA GoodBind ==
  ASSUME NEW F, NEW env, \A y \in DOMAIN env : Good(env[y], F), NEW x, NEW v, Good(v, F)
  PROVE  \A y \in DOMAIN Bind(env, x, v) : Good(Bind(env, x, v)[y], F)
BY DEF Bind

\* The executing frame changes and is tidy.
LEMMA TidyChanged ==
  ASSUME NEW F, AllTidy(stack, F), stack # << >>, NEW f, Tidy(f, F), Become(f)
  PROVE  AllTidy(stack', F)
BY TidyGoesOn DEF Become

\* Constants, variables and copies.
LEMMA MarksPush ==
  ASSUME OriginsAreDeep, MarksInv, KeepsMarks, Push
  PROVE  AllTidy(stack', FnsOf(table))
<1> DEFINE F == FnsOf(table)
<1>1. stack # << >> /\ Needs(Here) <= Len(Top.st)
  BY DEF Push, Running
<1>2. AllTidy(stack, F) /\ Tidy(Top, F)
  BY <1>1, Fetched
<1>3. ASSUME NEW v, Good(v, F), Become(Past(Append(Top.st, v))) PROVE AllTidy(stack', F)
  <2>1. Operands(Append(Top.st, v), F)
    BY <1>2, <1>3, OperandsPush DEF Tidy
  <2>2. Tidy(Past(Append(Top.st, v)), F)
    BY <1>2, <2>1, TidyPast
  <2> QED
    BY <1>1, <1>2, <1>3, <2>2, TidyChanged
<1>4. CASE Here.op = "PUSHK" /\ Become(Past(Append(Top.st, Here.value)))
  <2>1. Here.value = Value(Here.value.kind, Here.value.data, << >>, {}, FALSE)
    BY <1>1, <1>4, Fetched
  <2>2. \A k, d : Good(Value(k, d, << >>, {}, FALSE), F)
    BY NewValue
  <2> QED
    BY <1>3, <1>4, <2>1, <2>2
<1>5. CASE Here.op = "LOAD" /\ Become(Past(Append(Top.st, InSlot(Here.name))))
  <2>1. Good(InSlot(Here.name), F)
    BY <1>2, NilIsGood DEF InSlot, Tidy
  <2> QED
    BY <1>3, <1>5, <2>1
<1>6. CASE Here.op = "DUP" /\ Become(Past(Append(Top.st, Peek)))
  <2>1. Good(Peek, F)
    BY <1>1, <1>2, <1>6, NeedsOf, Taken
  <2> QED
    BY <1>3, <1>6, <2>1
<1> QED
  BY <1>4, <1>5, <1>6 DEF Push

\* What is dropped, branched on, printed or looked at by REQUIRE; nothing new appears.
LEMMA MarksTake ==
  ASSUME OriginsAreDeep, MarksInv, KeepsMarks, Store \/ Branch \/ PrintTop \/ Permit
  PROVE  AllTidy(stack', FnsOf(table))
<1> DEFINE F == FnsOf(table)
<1>1. stack # << >> /\ Needs(Here) <= Len(Top.st)
  BY DEF Store, Branch, PrintTop, Permit, Running
<1>2. AllTidy(stack, F) /\ Tidy(Top, F)
  BY <1>1, Fetched
<1>3. Tidy(Past(Top.st), F)
  BY <1>2, TidyPast DEF Tidy
<1>4. ASSUME Needs(Here) = 1 PROVE Tidy(Past(Below(1)), F) /\ Good(Peek, F)
  <2>1. 1 <= Len(Top.st)
    BY <1>1, <1>4
  <2>2. Operands(Below(1), F) /\ Good(Peek, F)
    BY <1>2, <2>1, Taken
  <2> QED
    BY <1>2, <2>2, TidyPast
<1>5. ASSUME NEW f, Tidy(f, F), NEW v, Become([f EXCEPT !.pc = v]) PROVE AllTidy(stack', F)
  <2>1. Tidy([f EXCEPT !.pc = v], F)
    BY <1>5, TidyWith
  <2> QED
    BY <1>1, <1>2, <1>5, <2>1, TidyChanged
<1>6. ASSUME NEW f, Tidy(f, F), Become(f) PROVE AllTidy(stack', F)
  BY <1>1, <1>2, <1>6, TidyChanged
<1>7. CASE Store
  <2>1. Here.op \in {"STORE", "POP"}
    BY <1>7 DEF Store
  <2>2. Tidy(Past(Below(1)), F) /\ Good(Peek, F)
    BY <1>4, <2>1, NeedsOf
  <2>3. CASE Become(Past(Below(1)))
    BY <1>6, <2>2, <2>3
  <2>4. CASE Become([Past(Below(1)) EXCEPT !.slots = Bind(@, Here.name, Peek)])
    <3> DEFINE f == Past(Below(1))
               b == Bind(f.slots, Here.name, Peek)
    <3>1. \A y \in DOMAIN f.slots : Good(f.slots[y], F)
      BY <2>2 DEF Tidy
    <3>2. \A y \in DOMAIN b : Good(b[y], F)
      <4> HIDE DEF f
      <4> QED
        BY <2>2, <3>1, GoodBind
    <3>3. Become([f EXCEPT !.slots = b])
      BY <2>4
    <3> HIDE DEF f, b
    <3>4. Tidy([f EXCEPT !.slots = b], F)
      BY <2>2, <3>2, TidyWith DEF f
    <3> QED
      BY <1>6, <3>3, <3>4
  <2> QED
    BY <1>7, <2>3, <2>4 DEF Store
<1>8. CASE Branch
  <2>1. CASE Here.op = "JMP" /\ Become([Past(Top.st) EXCEPT !.pc = @ + Here.skip])
    BY <1>3, <1>5, <2>1
  <2>2. CASE /\ Here.op \in {"JZ", "JNZ"}
             /\ \E v : Become([Past(Below(1)) EXCEPT !.pc = v])
    <3>1. Tidy(Past(Below(1)), F)
      BY <1>4, <2>2, NeedsOf
    <3> QED
      BY <1>5, <2>2, <3>1
  <2> QED
    BY <1>8, <2>1, <2>2 DEF Branch
<1>9. CASE PrintTop
  <2>1. Tidy(Past(Below(1)), F)
    BY <1>4, <1>9, NeedsOf DEF PrintTop
  <2> QED
    BY <1>6, <1>9, <2>1 DEF PrintTop
<1>10. CASE Permit
  BY <1>3, <1>6, <1>10 DEF Permit
<1> QED
  BY <1>7, <1>8, <1>9, <1>10

\* The operators there are in a file that keeps marks.
LEMMA MarksOperate ==
  ASSUME OriginsAreDeep, MarksInv, KeepsMarks, Operate
  PROVE  AllTidy(stack', FnsOf(table))
<1> DEFINE F == FnsOf(table)
<1>1. stack # << >> /\ Needs(Here) <= Len(Top.st)
  BY DEF Operate, Running
<1>2. AllTidy(stack, F) /\ Tidy(Top, F) /\ Here.op \in {"EQ", "SUB", "NOT"}
  BY <1>1, Fetched DEF Operate
<1>3. ASSUME NEW v, Good(v, F), NEW n \in Nat, n <= Len(Top.st),
             Become(Past(Append(Below(n), v)))
      PROVE  AllTidy(stack', F)
  <2>1. Operands(Below(n), F)
    BY <1>2, <1>3, Taken
  <2>2. Operands(Append(Below(n), v), F)
    BY <1>3, <2>1, OperandsPush
  <2>3. Tidy(Past(Append(Below(n), v)), F)
    BY <1>2, <2>2, TidyPast
  <2> QED
    BY <1>1, <1>2, <1>3, <2>3, TidyChanged
<1>4. CASE Here.op = "NOT"
  <2>1. 1 <= Len(Top.st)
    BY <1>1, <1>4, NeedsOf
  <2>2. Good(Peek, F)
    BY <1>2, <2>1, Taken
  <2>3. Good(Negated(Peek), F)
    BY <2>2, GoodNegated
  <2>4. Become(Past(Append(Below(1), Negated(Peek))))
    BY <1>4 DEF Operate
  <2> QED
    BY <1>3, <2>1, <2>3, <2>4
<1>5. CASE Here.op \in {"EQ", "SUB"}
  <2>1. 2 <= Len(Top.st)
    BY <1>1, <1>5, NeedsOf
  <2>2. Good(Peek, F) /\ Good(Popped(2)[1], F)
    BY <1>2, <2>1, Taken
  <2>3. Good(Combined(Here.op, Popped(2)[1], Peek), F)
    BY <1>5, <2>2, GoodCombined
  <2>4. Become(Past(Append(Below(2), Combined(Here.op, Popped(2)[1], Peek))))
    BY <1>5 DEF Operate
  <2> QED
    BY <1>3, <2>1, <2>3, <2>4
<1> QED
  BY <1>2, <1>4, <1>5

\* Elements.
LEMMA MarksSelect ==
  ASSUME OriginsAreDeep, MarksInv, KeepsMarks, Select
  PROVE  AllTidy(stack', FnsOf(table))
<1> DEFINE F == FnsOf(table)
<1>1. stack # << >> /\ Needs(Here) <= Len(Top.st) /\ Holds /\ Here.op \in {"INDEX", "FIELD"}
  BY DEF Select, Running
<1>2. AllTidy(stack, F) /\ Tidy(Top, F)
  BY <1>1, Fetched
<1>3. ASSUME NEW n \in 1..2, n <= Len(Top.st), NEW v, Good(v, F),
             Become(Past(Append(Below(n), v)))
      PROVE  AllTidy(stack', F)
  <2>1. Operands(Below(n), F)
    BY <1>2, <1>3, Taken
  <2>2. Operands(Append(Below(n), v), F)
    BY <1>3, <2>1, OperandsPush
  <2>3. Tidy(Past(Append(Below(n), v)), F)
    BY <1>2, <2>2, TidyPast
  <2> QED
    BY <1>1, <1>2, <1>3, <2>3, TidyChanged
<1>4. CASE Here.op = "INDEX"
  <2> DEFINE v == Part(HeldIn.items[1], HeldIn)
             w == Part(v, Peek)
  <2>1. 2 <= Len(Top.st)
    BY <1>1, <1>4, NeedsOf
  <2>2. Good(HeldIn, F) /\ 1 \in DOMAIN HeldIn.items /\ Good(Peek, F)
    BY <1>1, <1>2, <1>4, <2>1, Taken DEF HeldIn, Holds
  <2>3. Simple(v) /\ Good(v, F)
    BY <2>2, GoodPart
  <2>4. Become(Past(Append(Below(2), w)))
    BY <1>4 DEF Select
  <2> HIDE DEF v
  <2>5. v.from \cap Named(F) # {} => v.mark \/ Peek.mark
    <3>1. Origins(v) = v.from
      <4>1. Origins(v) = v.from \cup UNION {Origins(v.items[j]) : j \in DOMAIN v.items}
        BY <2>3 DEF OriginsAreDeep, Simple
      <4>2. DOMAIN v.items = {}
        BY <2>3 DEF Simple
      <4> QED
        BY <4>1, <4>2
    <3> QED
      BY <2>3, <3>1 DEF Good
  <2>6. Good(w, F)
    BY <2>2, <2>3, <2>5, MarkJoined
  <2> HIDE DEF w
  <2> QED
    BY <1>3, <2>1, <2>4, <2>6
<1>5. CASE Here.op = "FIELD"
  <2> DEFINE v == Part(HeldIn.items[Here.place], HeldIn)
  <2>1. 1 <= Len(Top.st)
    BY <1>1, <1>5, NeedsOf
  <2>2. Good(HeldIn, F) /\ Here.place \in DOMAIN HeldIn.items
    BY <1>1, <1>2, <1>5, <2>1, Taken DEF HeldIn, Holds
  <2>3. Good(v, F)
    BY <2>2, GoodPart
  <2>4. Become(Past(Append(Below(1), v)))
    BY <1>5 DEF Select
  <2> HIDE DEF v
  <2> QED
    BY <1>3, <2>1, <2>3, <2>4
<1> QED
  BY <1>1, <1>4, <1>5

\* A generation pushes a good value, or fails.
LEMMA MarksGenerate ==
  ASSUME OriginsAreDeep, MarksInv, KeepsMarks, Generate
  PROVE  AllTidy(stack', FnsOf(table))
<1> DEFINE F == FnsOf(table)
           v == Generated(Popped(Here.n))
           st == Append(Below(Here.n), v)
<1>1. stack # << >> /\ Needs(Here) <= Len(Top.st) /\ Here.op = "GEN"
  BY DEF Generate, Running
<1>2. AllTidy(stack, F) /\ Tidy(Top, F) /\ "prompt" \notin Named(F) /\ Here.n \in Nat
  BY <1>1, Fetched
<1>3. Operands(Below(Here.n), F) /\ Operands(Popped(Here.n), F)
  <2>1. Here.n <= Len(Top.st)
    BY <1>1, NeedsOf
  <2> QED
    BY <1>2, <2>1, Taken
<1>4. Good(v, F)
  BY <1>2, <1>3, GoodGenerated
<1> HIDE DEF v
<1>5. Operands(st, F)
  BY <1>3, <1>4, OperandsPush
<1> USE DEF v
<1>6. \/ UNCHANGED stack
      \/ stack' = [Charged(stack) EXCEPT ![Len(stack)].pc = @ + 1, ![Len(stack)].st = st]
  BY DEF Generate
<1> HIDE DEF v, st
<1>7. CASE UNCHANGED stack
  BY <1>2, <1>7
<1>8. CASE stack' = [Charged(stack) EXCEPT ![Len(stack)].pc = @ + 1, ![Len(stack)].st = st]
  <2>1. PICK c : c = Charged(stack)
    OBVIOUS
  <2>2. AllTidy(c, F) /\ Len(c) = Len(stack) /\ c # << >>
    BY <1>1, <1>2, <2>1, TidyCharged
  <2>3. Len(c) \in 1..Len(c) /\ DOMAIN c = 1..Len(c) /\ Tidy(c[Len(c)], F)
    BY <2>2, TidyTop
  <2>4. PICK g : g = c[Len(c)]
    OBVIOUS
  <2> DEFINE f == [g EXCEPT !.pc = @ + 1, !.st = st]
  <2>5. /\ {"fn", "st", "slots", "wait"} \subseteq DOMAIN f
        /\ f.fn = g.fn /\ f.st = st /\ f.slots = g.slots /\ f.wait = g.wait
    BY <2>3, <2>4 DEF Tidy
  <2>6. stack' = [c EXCEPT ![Len(c)] = f]
    BY <1>8, <2>1, <2>2, <2>3, <2>4
  <2> HIDE DEF f
  <2>7. Tidy(f, F)
    BY <1>5, <2>3, <2>4, <2>5 DEF Tidy
  <2> QED
    BY <2>2, <2>6, <2>7, TidyGoesOn
<1> QED
  BY <1>6, <1>7, <1>8

\* Calls and steps, whose arguments are operands of the caller.
LEMMA MarksEnter ==
  ASSUME OriginsAreDeep, MarksInv, KeepsMarks, EnterFunction \/ EnterBody
  PROVE  AllTidy(stack', FnsOf(table))
<1> DEFINE F == FnsOf(table)
<1>1. stack # << >> /\ Needs(Here) <= Len(Top.st) /\ Here.op \in {"CALL", "STEP", "TRY"}
  BY DEF EnterFunction, EnterBody, Running
<1>2. AllTidy(stack, F) /\ Tidy(Top, F) /\ Here.op # "TRY"
  BY <1>1, Fetched
<1>3. Here.n \in Nat /\ Here.n <= Len(Top.st)
  BY <1>1, <1>2, Fetched, NeedsOf
<1>4. Operands(Below(Here.n), F) /\ Operands(Popped(Here.n), F)
  BY <1>2, <1>3, Taken
<1>5. ASSUME NEW fn \in F, Above(fn, Popped(Here.n), "call", Here.n) PROVE AllTidy(stack', F)
  <2> DEFINE f == [Past(Below(Here.n)) EXCEPT !.wait = "call"]
             g == Frame(fn, Popped(Here.n), Top.caps)
  <2>1. Tidy(f, F)
    <3>1. Tidy(Past(Below(Here.n)), F)
      BY <1>2, <1>4, TidyPast
    <3> QED
      BY <3>1, TidyWith
  <2>2. Tidy(g, F)
    BY <1>4, TidyFrame
  <2>3. stack' = Append([stack EXCEPT ![Len(stack)] = f], g)
    BY <1>5 DEF Above
  <2> HIDE DEF f, g
  <2>4. AllTidy([stack EXCEPT ![Len(stack)] = f], F)
    BY <1>1, <1>2, <2>1, TidyGoesOn
  <2> QED
    BY <2>2, <2>3, <2>4, TidyPush
<1>6. CASE EnterFunction
  BY <1>1, <1>5, <1>6, Fetched DEF EnterFunction
<1>7. CASE EnterBody
  BY <1>1, <1>2, <1>5, <1>7, Fetched DEF EnterBody
<1> QED
  BY <1>6, <1>7

\* What returns is an operand of the callee, or nil; an error drops frames.
LEMMA MarksLeave ==
  ASSUME OriginsAreDeep, IInv, MarksInv, KeepsMarks, Leave \/ Unwind
  PROVE  AllTidy(stack', FnsOf(table))
<1> DEFINE F == FnsOf(table)
           n == Len(stack) - 1
<1>1. stack # << >>
  BY DEF Leave, Unwind, Running
<1>2. AllTidy(stack, F) /\ Tidy(Top, F)
  BY <1>1, Fetched
<1>3. PICK t : t = SubSeq(stack, 1, n)
  OBVIOUS
<1>4. n \in Nat /\ AllTidy(t, F) /\ Len(t) = n
  BY <1>1, <1>2, <1>3, TidyPop
<1>5. CASE Unwind
  BY <1>3, <1>4, <1>5 DEF Unwind
<1>6. CASE Leave
  <2> DEFINE v == IF Here.op = "RET" THEN Peek ELSE Nil
  <2>1. Good(v, F)
    <3>1. CASE Here.op = "RET"
      <4>1. 1 <= Len(Top.st)
        BY <1>6, <3>1, NeedsOf DEF Leave, Running
      <4> QED
        BY <1>2, <3>1, <4>1, Taken
    <3>2. CASE Here.op # "RET"
      BY <3>2, NilIsGood
    <3> QED
      BY <3>1, <3>2
  <2>2. stack' = << >> \/ (n # 0 /\ stack' = [t EXCEPT ![n] = Resumed(@, v)])
    BY <1>3, <1>6 DEF Leave
  <2> HIDE DEF v
  <2>3. CASE stack' = << >>
    <3>1. << >> \in Seq({}) /\ Len(<< >>) = 0 /\ 1..0 = {}
      BY EmptySeq
    <3>2. IsSeq(<< >>)
      BY <3>1, SeqIsSeq
    <3> QED
      BY <2>3, <3>1, <3>2 DEF AllTidy
  <2>4. CASE n # 0 /\ stack' = [t EXCEPT ![n] = Resumed(@, v)]
    <3>1. t # << >> /\ n \in 1..n /\ DOMAIN t = 1..n /\ Tidy(t[n], F)
      <4>1. t \in Seq({t[i] : i \in DOMAIN t})
        BY <1>4 DEF AllTidy, IsSeq
      <4>2. t # << >> /\ DOMAIN t = 1..n
        BY <1>4, <2>4, <4>1, EmptySeq, LenProperties
      <4>3. n \in 1..n
        BY <1>4, <2>4
      <4> QED
        BY <1>4, <4>2, <4>3 DEF AllTidy
    <3>2. t[n].wait = "call"
      <4>1. t[n] = stack[n] /\ n \in 1..Len(stack) /\ n # Len(stack)
        BY <1>1, <1>3, <1>4, <3>1, TopLeaves DEF IInv
      <4>2. stack[n].wait \in Waiting
        BY <4>1 DEF IInv, Sound
      <4> QED
        BY <3>1, <4>1, <4>2 DEF Tidy, Waiting
    <3>3. PICK f : f = t[n]
      OBVIOUS
    <3>4. Resumed(f, v) = [f EXCEPT !.wait = "none", !.st = Append(@, v)]
      BY <3>2, <3>3 DEF Resumed
    <3>5. Operands(Append(f.st, v), F)
      BY <2>1, <3>1, <3>3, OperandsPush DEF Tidy
    <3>6. PICK g : g = Resumed(f, v)
      OBVIOUS
    <3>7. /\ {"fn", "st", "slots", "wait"} \subseteq DOMAIN g
          /\ g.fn = f.fn /\ g.st = Append(f.st, v) /\ g.slots = f.slots /\ g.wait = "none"
      BY <3>1, <3>3, <3>4, <3>6 DEF Tidy
    <3>8. Tidy(g, F)
      BY <3>1, <3>3, <3>5, <3>7 DEF Tidy
    <3>9. stack' = [t EXCEPT ![Len(t)] = g]
      BY <1>4, <2>4, <3>1, <3>3, <3>6
    <3> QED
      BY <1>4, <3>1, <3>8, <3>9, TidyGoesOn
  <2> QED
    BY <2>2, <2>3, <2>4
<1> QED
  BY <1>5, <1>6

-----------------------------------------------------------------------------
\* main starts without operands, its parameters nil.
LEMMA InitMarks == OriginsAreDeep /\ Init => MarksInv
<1> SUFFICES ASSUME OriginsAreDeep, Init PROVE MarksInv
  OBVIOUS
<1> DEFINE F == FnsOf(table)
           f == Frame(table["main"], << >>, table["main"].uses)
<1>1. table["main"] \in F
  BY FileAssumption DEF Init
<1>2. Operands(<< >>, F)
  BY NoOperands
<1>3. Tidy(f, F)
  BY <1>1, <1>2, TidyFrame
<1> HIDE DEF f
<1>4. stack = << f >>
  BY DEF Init, f
<1>5. stack \in Seq({f}) /\ Len(stack) = 1 /\ stack[1] = f
  BY <1>4
<1>6. IsSeq(stack)
  BY <1>5, SeqIsSeq
<1>7. AllTidy(stack, F)
  BY <1>3, <1>5, <1>6 DEF AllTidy
<1> QED
  BY <1>7 DEF MarksInv, Init

\* The invariant is inductive, next to that of authority.
LEMMA NextMarks == OriginsAreDeep /\ IInv /\ MarksInv /\ [Next]_vars => MarksInv'
<1> SUFFICES ASSUME OriginsAreDeep, IInv, MarksInv, [Next]_vars PROVE MarksInv'
  OBVIOUS
<1> DEFINE F == FnsOf(table)
<1>1. prog' = prog /\ table' = table
  BY DEF Next, Push, Store, Operate, Select, NothingToSelect, Branch, PrintTop, Permit, Deny,
         RefuseTainted, Generate, EnterFunction, EnterBody, EnterLoop, Iterate, LeaveLoop,
         Leave, Unwind, Catch, Finished, Untouched, vars
<1>2. ASSUME KeepsMarks PROVE AllTidy(stack', F)
  <2>1. AllTidy(stack, F)
    BY <1>2 DEF MarksInv
  <2>2. CASE UNCHANGED stack
    BY <2>1, <2>2
  <2>3. ASSUME EnterLoop PROVE FALSE
    BY <1>2, <2>3, Fetched DEF EnterLoop, Running
  <2>4. ASSUME Iterate \/ LeaveLoop \/ Catch PROVE FALSE
    <3>1. stack # << >> /\ Top.wait \notin {"none", "call"}
      BY <2>4 DEF Iterate, LeaveLoop, Catch
    <3> QED
      BY <1>2, <3>1, Fetched DEF Tidy
  <2>5. ASSUME NothingToSelect \/ Deny \/ RefuseTainted \/ Finished \/ UNCHANGED vars
        PROVE  UNCHANGED stack
    BY <2>5 DEF NothingToSelect, Deny, RefuseTainted, Finished, vars
  <2> QED
    BY <1>2, <2>2, <2>3, <2>4, <2>5, MarksPush, MarksTake, MarksOperate, MarksSelect,
       MarksGenerate, MarksEnter, MarksLeave DEF Next
<1>3. KeepsMarks' <=> KeepsMarks
  BY <1>1 DEF KeepsMarks
<1> QED
  BY <1>1, <1>2, <1>3 DEF MarksInv

LEMMA MarksInductive == ASSUME OriginsAreDeep PROVE Spec => []MarksInv
<1>1. Init => MarksInv
  BY InitMarks
<1>2. IInv /\ MarksInv /\ [Next]_vars => MarksInv'
  BY NextMarks
<1> QED
  BY <1>1, <1>2, Inductive, PTL DEF Spec

\* Whatever program a file without LEN, LIST, RECORD, PARALLEL and TRY holds, on every
\* operand stack and in every slot what derives from an untrusted parameter is marked:
\* calls, steps, generations, operators, fields and variables carry the mark along.
THEOREM MarksFollow == ASSUME OriginsAreDeep PROVE Spec => []MarksFollowData
<1>1. MarksInv => MarksFollowData
  <2> SUFFICES ASSUME MarksInv, KeepsMarks, NEW i \in DOMAIN stack
               PROVE  /\ \A k \in DOMAIN stack[i].st : Covered(stack[i].st[k])
                      /\ \A x \in DOMAIN stack[i].slots : Covered(stack[i].slots[x])
    BY DEF MarksFollowData
  <2> DEFINE F == FnsOf(table)
  <2>1. AllTidy(stack, F)
    BY DEF MarksInv
  <2>2. DOMAIN stack = 1..Len(stack)
    BY <2>1, SeqIsSeq DEF AllTidy, IsSeq
  <2>3. Tidy(stack[i], F)
    BY <2>1, <2>2 DEF AllTidy
  <2>4. DOMAIN stack[i].st = 1..Len(stack[i].st)
    BY <2>3, SeqIsSeq DEF Tidy, Operands, IsSeq
  <2>5. \A v : Good(v, F) => Covered(v)
    BY DEF Good, Covered, Named, Untrusted
  <2> QED
    BY <2>3, <2>4, <2>5 DEF Tidy, Operands
<1> QED
  BY <1>1, MarksInductive, PTL

\* In such a file nothing that derives from an untrusted parameter passes REQUIRE on top of
\* the stack, through however many functions and variables it came: checking the program
\* is not needed for it.
THEOREM TaintIsStopped == ASSUME OriginsAreDeep PROVE Spec => RequireStopsTaint
<1>1. MarksInv => (KeepsMarks /\ Permit /\ ~Here.allow /\ Top.st # <<>> =>
                     Origins(Peek) \cap Untrusted = {})
  <2> SUFFICES ASSUME MarksInv, KeepsMarks, Permit, ~Here.allow, Top.st # <<>>
               PROVE  Origins(Peek) \cap Untrusted = {}
    OBVIOUS
  <2> DEFINE F == FnsOf(table)
  <2>1. stack # << >> /\ ~Peek.mark
    BY DEF Permit, Running, Refuses
  <2>2. Operands(Top.st, F)
    BY <2>1, Fetched DEF Tidy
  <2>3. Len(Top.st) \in 1..Len(Top.st)
    BY <2>2, EmptySeq, LenProperties DEF Operands, IsSeq
  <2>4. Good(Peek, F)
    BY <2>2, <2>3 DEF Operands, Peek
  <2> QED
    BY <2>1, <2>4 DEF Good, Named, Untrusted
<1> QED
  BY <1>1, MarksInductive, PTL DEF RequireStopsTaint
=============================================================================
