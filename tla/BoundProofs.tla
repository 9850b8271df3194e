---------------------------- MODULE BoundProofs -----------------------------
(***************************************************************************)
(* Proofs about Bound, for any number of activities and frames, any        *)
(* capabilities and any prices.  The inductive invariant says that the     *)
(* frames in the context of an activity are one chain of callers, each     *)
(* once, whichever activity entered them and whether or not it has left    *)
(* them since; the three properties of Bound follow from that.             *)
(***************************************************************************)
EXTENDS Bound, SequenceTheorems, TLAPS

Mode == {"new", "run", "calling", "raise", "end"}

\* Types of the variables of Bound.
TypeOK ==
  /\ stack \in [Activity -> Seq(Frame)]
  /\ base \in [Activity -> Nat]
  /\ mode \in [Activity -> Mode]
  /\ caps \in [Frame -> SUBSET Cap]
  /\ limit \in [Frame -> Limit \cup {NoLimit}]
  /\ chain \in [Frame -> SUBSET Frame]
  /\ spent \in [Frame -> Nat]
  /\ uses \in [Frame -> SUBSET Cap]
  /\ path \in [Activity -> SUBSET Frame]
  /\ paid \in [Frame -> Nat]

\* The frames of s up to the i-th.
Upto(s, i) == {s[j] : j \in 1..i}

\* The stack of an activity holds the functions on whose behalf it runs, each once,
\* and the i-th frame charges itself and the frames below it.
StackIsChain(s) ==
  \A i \in 1..Len(s) :
    /\ chain[s[i]] = Upto(s, i)
    /\ \A j \in 1..Len(s) : s[i] = s[j] => i = j

StacksAreChains ==
  \A a \in Activity :
    /\ StackIsChain(stack[a])
    /\ path[a] = Upto(stack[a], Len(stack[a]))

\* A frame holds only what every frame below it declares.
StackShortens(s) ==
  \A i \in 1..Len(s) : \A j \in 1..i : caps[s[i]] \subseteq uses[s[j]]

StacksShorten == \A a \in Activity : StackShortens(stack[a])

\* Nothing was spent by a frame that does not exist.
FreshFrames == \A f \in Frame : chain[f] = {} => spent[f] = 0

IInv ==
  /\ TypeOK
  /\ StacksAreChains
  /\ StacksShorten
  /\ FreshFrames
  /\ SpendReachesCallers
-----------------------------------------------------------------------------
\* Leaving the current frame keeps the others where they are.
LEMMA FrontFacts ==
  ASSUME NEW S, NEW s \in Seq(S), Len(s) > 0
  PROVE  /\ Front(s) \in Seq(S)
         /\ Len(Front(s)) = Len(s) - 1
         /\ \A i \in 1..(Len(s) - 1) : Front(s)[i] = s[i]
<1>1. Front(s) = SubSeq(s, 1, Len(s) - 1)
  BY DEF Front
<1>2. Len(s) \in Nat /\ \A i \in 1..(Len(s) - 1) : s[i] \in S
  BY LenProperties, ElementOfSeq
<1> DEFINE n == Len(s) - 1
<1>3. n \in Nat /\ 1 \in Int /\ n \in Int
  BY <1>2
<1>4. /\ SubSeq(s, 1, n) \in Seq(S)
      /\ Len(SubSeq(s, 1, n)) = IF 1 <= n THEN n - 1 + 1 ELSE 0
      /\ \A i \in 1..(n - 1 + 1) : SubSeq(s, 1, n)[i] = s[1 + i - 1]
  <2> HIDE DEF n
  <2> QED BY <1>2, <1>3, SubSeqProperties DEF n
<1>5. n - 1 + 1 = n /\ (~(1 <= n) => n = 0) /\ \A i \in 1..n : 1 + i - 1 = i
  <2> HIDE DEF n
  <2> QED BY <1>3
<1>6. Len(SubSeq(s, 1, n)) = n
  BY <1>3, <1>4, <1>5
<1>7. \A i \in 1..n : SubSeq(s, 1, n)[i] = s[i]
  BY <1>4, <1>5
<1> QED BY <1>1, <1>4, <1>6, <1>7

\* Entering a frame puts it on top of the others.
LEMMA AppendFacts ==
  ASSUME NEW S, NEW s \in Seq(S), NEW e \in S
  PROVE  /\ Append(s, e) \in Seq(S)
         /\ Len(Append(s, e)) = Len(s) + 1
         /\ Append(s, e)[Len(s) + 1] = e
         /\ \A i \in 1..Len(s) : Append(s, e)[i] = s[i]
BY AppendProperties, LenProperties

\* A charge goes to the functions on whose behalf the activity runs.
LEMMA ChargedIsPath ==
  ASSUME TypeOK, StacksAreChains, NEW a \in Activity
  PROVE  /\ Charged(a) = path[a]
         /\ Current(a) = NoFrame => stack[a] = << >> /\ path[a] = {}
         /\ Current(a) # NoFrame =>
              /\ Len(stack[a]) > 0
              /\ Current(a) = stack[a][Len(stack[a])]
              /\ Current(a) \in Frame
<1>1. stack[a] \in Seq(Frame) /\ Len(stack[a]) \in Nat
  BY LenProperties DEF TypeOK
<1>2. CASE stack[a] = << >>
  <2>1. Current(a) = NoFrame /\ Charged(a) = {}
    BY <1>2 DEF Current, Charged
  <2>2. path[a] = {}
    BY <1>2 DEF StacksAreChains, Upto
  <2> QED BY <1>2, <2>1, <2>2
<1>3. CASE stack[a] # << >>
  <2>1. Len(stack[a]) > 0
    BY <1>1, <1>3, EmptySeq
  <2>2. Current(a) = stack[a][Len(stack[a])] /\ Current(a) \in Frame
    BY <1>1, <1>3, <2>1, ElementOfSeq DEF Current, Last
  <2>3. Current(a) # NoFrame
    BY <2>2, BoundAssumption DEF Frame, NoFrame
  <2>4. chain[Current(a)] = path[a]
    BY <1>1, <2>1, <2>2 DEF StacksAreChains, StackIsChain
  <2> QED BY <2>1, <2>2, <2>3, <2>4 DEF Charged
<1> QED BY <1>2, <1>3

\* The initial state satisfies the inductive invariant.
LEMMA InitIInv == Init => IInv
<1> SUFFICES ASSUME Init PROVE IInv
  OBVIOUS
<1>1. TypeOK
  BY BoundAssumption, EmptySeq DEF Init, TypeOK, Mode
<1>2. StacksAreChains /\ StacksShorten
  BY DEF Init, StacksAreChains, StackIsChain, StacksShorten, StackShortens, Upto
<1>3. FreshFrames /\ SpendReachesCallers
  BY DEF Init, FreshFrames, SpendReachesCallers
<1> QED BY <1>1, <1>2, <1>3 DEF IInv

\* A step keeps the types.
LEMMA StepTypeOK ==
  ASSUME TypeOK, StacksAreChains, NEW a \in Activity, Step(a)
  PROVE  TypeOK'
<1> USE DEF TypeOK, Mode, frames
<1>1. ASSUME NEW b \in Activity, StartTask(a, b) PROVE TypeOK'
  <2>1. Len(stack[a]) \in Nat
    BY LenProperties
  <2> QED BY <1>1, <2>1 DEF StartTask
<1>2. ASSUME NEW b \in Activity, StartThread(a, b) PROVE TypeOK'
  BY <1>2 DEF StartThread
<1>3. ASSUME NEW f \in Frame, NEW d \in Uses, NEW l \in Limit \cup {NoLimit}, Enter(a, f, d, l)
      PROVE  TypeOK'
  <2>1. Append(stack[a], f) \in Seq(Frame)
    BY AppendFacts
  <2>2. d \in SUBSET Cap /\ Held(a) \in SUBSET Cap /\ Charged(a) \in SUBSET Frame
    BY BoundAssumption, ChargedIsPath DEF Held
  <2> QED BY <1>3, <2>1, <2>2 DEF Enter
<1>4. ASSUME Exit(a) PROVE TypeOK'
  <2>1. Front(stack[a]) \in Seq(Frame)
    BY <1>4, FrontFacts, LenProperties DEF Exit
  <2> QED BY <1>4, <2>1 DEF Exit
<1>5. CASE Catch(a)
  BY <1>5 DEF Catch
<1>6. CASE End(a)
  BY <1>6 DEF End
<1>7. ASSUME NEW c \in Cap, Authorise(a, c) \/ Refuse(a, c) \/ RefuseTainted(a, c) PROVE TypeOK'
  BY <1>7 DEF Authorise, Refuse, RefuseTainted
<1>8. CASE Call(a)
  BY <1>8 DEF Call
<1>9. ASSUME NEW p \in Price, Return(a, p) PROVE TypeOK'
  <2>1. p \in Nat
    BY BoundAssumption
  <2> QED BY <1>9, <2>1 DEF Return
<1>10. ASSUME NEW p \in Price, Overdraw(a, p) PROVE TypeOK'
  BY <1>10 DEF Overdraw
<1>11. CASE Fail(a)
  BY <1>11 DEF Fail
<1> QED BY <1>1, <1>2, <1>3, <1>4, <1>5, <1>6, <1>7, <1>8, <1>9, <1>10, <1>11 DEF Step

-----------------------------------------------------------------------------
\* A new frame is on no stack, so that no chain and no declaration on one changes.
LEMMA FreshIsOnNoStack ==
  ASSUME IInv, NEW f \in Frame, IsFree(f), NEW b \in Activity, NEW i \in 1..Len(stack[b])
  PROVE  stack[b][i] # f /\ stack[b][i] \in Frame
<1>1. stack[b] \in Seq(Frame) /\ Len(stack[b]) \in Nat
  BY LenProperties DEF IInv, TypeOK
<1>2. stack[b][i] \in Upto(stack[b], i)
  BY DEF Upto
<1>3. chain[stack[b][i]] # {}
  BY <1>2 DEF IInv, StacksAreChains, StackIsChain
<1> QED BY <1>1, <1>3, ElementOfSeq DEF IsFree

\* Entering a bound function extends the chain of the activity and no other.
LEMMA EnterKeepsChains ==
  ASSUME IInv, TypeOK', NEW a \in Activity, NEW f \in Frame, NEW d \in Uses,
         NEW l \in Limit \cup {NoLimit}, Enter(a, f, d, l)
  PROVE  StacksAreChains' /\ StacksShorten'
<1> DEFINE s == stack[a]
           t == Append(s, f)
<1>0. /\ TypeOK /\ StacksAreChains /\ StacksShorten /\ IsFree(f)
      /\ s \in Seq(Frame) /\ Len(s) \in Nat
  BY LenProperties DEF IInv, TypeOK, Enter
<1>1. \A b \in Activity : \A i \in 1..Len(stack[b]) : stack[b][i] # f /\ stack[b][i] \in Frame
  BY <1>0, FreshIsOnNoStack
<1>2. /\ stack' = [stack EXCEPT ![a] = t]
      /\ path' = [path EXCEPT ![a] = @ \cup {f}]
      /\ chain' = [chain EXCEPT ![f] = {f} \cup Charged(a)]
      /\ caps' = [caps EXCEPT ![f] = IF Current(a) = NoFrame THEN d ELSE Held(a) \cap d]
      /\ uses' = [uses EXCEPT ![f] = d]
  BY DEF Enter
<1>3. /\ Len(t) = Len(s) + 1
      /\ t[Len(s) + 1] = f
      /\ \A i \in 1..Len(s) : t[i] = s[i]
  BY <1>0, AppendFacts
<1>4. \A g \in Frame : g # f => chain'[g] = chain[g] /\ caps'[g] = caps[g] /\ uses'[g] = uses[g]
  BY <1>2 DEF IInv, TypeOK
<1>5. chain'[f] = {f} \cup path[a] /\ uses'[f] = d
  <2>1. Charged(a) = path[a]
    BY <1>0, ChargedIsPath
  <2> QED BY <1>0, <1>2, <2>1 DEF TypeOK
<1>6. \A i \in 1..Len(s) : Upto(t, i) = Upto(s, i)
  BY <1>0, <1>3 DEF Upto
<1>7. Upto(t, Len(t)) = {f} \cup path[a]
  <2>1. path[a] = Upto(s, Len(s))
    BY <1>0 DEF StacksAreChains
  <2> QED BY <1>0, <1>3, <2>1 DEF Upto
<1>8. \A b \in Activity : b # a => stack'[b] = stack[b] /\ path'[b] = path[b]
  BY <1>2 DEF IInv, TypeOK
<1>9. stack'[a] = t /\ path'[a] = path[a] \cup {f}
  BY <1>2 DEF IInv, TypeOK
<1>10. ASSUME NEW b \in Activity, b # a
       PROVE  /\ StackIsChain(stack[b])' /\ StackShortens(stack[b])'
              /\ path'[b] = Upto(stack[b], Len(stack[b]))'
  <2>1. Len(stack[b]) \in Nat
    BY LenProperties DEF IInv, TypeOK
  <2>2. StackIsChain(stack[b])'
    BY <1>0, <1>1, <1>4, <1>8, <1>10 DEF StacksAreChains, StackIsChain
  <2>3. StackShortens(stack[b])'
    <3> SUFFICES ASSUME NEW i \in 1..Len(stack[b]), NEW j \in 1..i
                 PROVE  caps'[stack[b][i]] \subseteq uses'[stack[b][j]]
      BY <1>8, <1>10 DEF StackShortens
    <3>1. j \in 1..Len(stack[b])
      BY <2>1
    <3>2. caps[stack[b][i]] \subseteq uses[stack[b][j]]
      BY <1>0 DEF StacksShorten, StackShortens
    <3> QED BY <1>1, <1>4, <3>1, <3>2
  <2>4. path'[b] = Upto(stack[b], Len(stack[b]))'
    BY <1>0, <1>8, <1>10 DEF StacksAreChains, Upto
  <2> QED BY <2>2, <2>3, <2>4
<1>11. StackIsChain(stack[a])'
  <2> SUFFICES ASSUME NEW i \in 1..Len(t)
               PROVE  /\ chain'[t[i]] = Upto(t, i)
                      /\ \A j \in 1..Len(t) : t[i] = t[j] => i = j
    BY <1>9 DEF StackIsChain
  <2>1. CASE i = Len(s) + 1
    <3>1. chain'[t[i]] = Upto(t, i)
      BY <1>3, <1>5, <1>7, <2>1
    <3>2. \A j \in 1..Len(s) : t[j] # t[i]
      BY <1>1, <1>3, <2>1
    <3> QED BY <1>0, <1>3, <2>1, <3>1, <3>2
  <2>2. CASE i \in 1..Len(s)
    <3>1. t[i] = s[i] /\ s[i] # f /\ s[i] \in Frame
      BY <1>1, <1>3, <2>2
    <3>2. chain'[t[i]] = Upto(t, i)
      BY <1>0, <1>4, <1>6, <2>2, <3>1 DEF StacksAreChains, StackIsChain
    <3>3. \A j \in 1..Len(s) : s[i] = s[j] => i = j
      BY <1>0, <2>2 DEF StacksAreChains, StackIsChain
    <3> QED BY <1>0, <1>3, <3>1, <3>2, <3>3
  <2> QED BY <1>0, <1>3, <2>1, <2>2
<1>12. StackShortens(stack[a])'
  <2> SUFFICES ASSUME NEW i \in 1..Len(t), NEW j \in 1..i
               PROVE  caps'[t[i]] \subseteq uses'[t[j]]
    BY <1>9 DEF StackShortens
  <2>1. CASE i \in 1..Len(s)
    <3>1. /\ j \in 1..Len(s) /\ t[i] = s[i] /\ t[j] = s[j]
          /\ s[i] # f /\ s[j] # f /\ s[i] \in Frame /\ s[j] \in Frame
      BY <1>0, <1>1, <1>3, <2>1
    <3> QED BY <1>0, <1>4, <2>1, <3>1 DEF StacksShorten, StackShortens
  <2>2. CASE i = Len(s) + 1 /\ j = Len(s) + 1
    <3>1. caps'[f] \subseteq d
      BY <1>0, <1>2 DEF TypeOK
    <3> QED BY <1>3, <1>5, <2>2, <3>1
  <2>3. CASE i = Len(s) + 1 /\ j \in 1..Len(s)
    <3>1. Len(s) > 0 /\ s # << >> /\ Len(s) \in 1..Len(s) /\ j \in 1..Len(s)
      BY <1>0, <2>3
    <3>2. Current(a) # NoFrame /\ Current(a) = s[Len(s)]
      BY <1>0, <3>1, ChargedIsPath
    <3>3. caps'[t[i]] = Held(a) \cap d
      <4>1. caps'[f] = IF Current(a) = NoFrame THEN d ELSE Held(a) \cap d
        BY <1>0, <1>2 DEF TypeOK
      <4> QED BY <1>3, <2>3, <3>2, <4>1
    <3>4. caps[s[Len(s)]] \subseteq uses[s[j]]
      BY <1>0, <3>1 DEF StacksShorten, StackShortens
    <3>5. uses'[t[j]] = uses[s[j]]
      BY <1>1, <1>3, <1>4, <3>1
    <3> QED BY <3>2, <3>3, <3>4, <3>5 DEF Held
  <2>4. \/ i \in 1..Len(s)
        \/ i = Len(s) + 1 /\ j = Len(s) + 1
        \/ i = Len(s) + 1 /\ j \in 1..Len(s)
    BY <1>0, <1>3
  <2> QED BY <2>1, <2>2, <2>3, <2>4
<1>13. path'[a] = Upto(stack[a], Len(stack[a]))'
  BY <1>7, <1>9 DEF Upto
<1>14. StacksAreChains'
  BY <1>10, <1>11, <1>13 DEF StacksAreChains
<1> QED BY <1>10, <1>12, <1>14 DEF StacksShorten
\* Leaving a bound function takes the last frame off the chain of the activity.
LEMMA ExitKeepsChains ==
  ASSUME IInv, NEW a \in Activity, Exit(a)
  PROVE  StacksAreChains' /\ StacksShorten'
<1> DEFINE s == stack[a]
           t == Front(s)
<1>0. /\ TypeOK /\ StacksAreChains /\ StacksShorten
      /\ s \in Seq(Frame) /\ Len(s) \in Nat /\ Len(s) > 0
  BY LenProperties DEF IInv, TypeOK, Exit
<1>1. /\ stack' = [stack EXCEPT ![a] = t]
      /\ path' = [path EXCEPT ![a] = @ \ {Current(a)}]
      /\ UNCHANGED frames
  BY DEF Exit
<1>2. Len(t) = Len(s) - 1 /\ \A i \in 1..(Len(s) - 1) : t[i] = s[i]
  BY <1>0, FrontFacts
<1>3. Current(a) = s[Len(s)]
  <2>1. s # << >>
    BY <1>0, EmptySeq
  <2> QED BY <2>1 DEF Current, Last
<1>4. \A i, j \in 1..Len(s) : s[i] = s[j] => i = j
  BY <1>0 DEF StacksAreChains, StackIsChain
<1>5. path[a] = Upto(s, Len(s))
  BY <1>0 DEF StacksAreChains
<1>6. \A i \in 1..(Len(s) - 1) : Upto(t, i) = Upto(s, i)
  BY <1>0, <1>2 DEF Upto
<1>7. path[a] \ {Current(a)} = Upto(t, Len(t))
  <2>1. Upto(s, Len(s)) \ {s[Len(s)]} = {s[j] : j \in 1..(Len(s) - 1)}
    BY <1>0, <1>4 DEF Upto
  <2>2. {s[j] : j \in 1..(Len(s) - 1)} = {t[j] : j \in 1..Len(t)}
    BY <1>0, <1>2
  <2> QED BY <1>3, <1>5, <2>1, <2>2 DEF Upto
<1>8. stack'[a] = t /\ path'[a] = Upto(t, Len(t))
  BY <1>0, <1>1, <1>7 DEF TypeOK
<1>9. \A b \in Activity : b # a => stack'[b] = stack[b] /\ path'[b] = path[b]
  BY <1>0, <1>1 DEF TypeOK
<1>10. chain' = chain /\ caps' = caps /\ uses' = uses
  BY <1>1 DEF frames
<1>11. ASSUME NEW b \in Activity, b # a
       PROVE  /\ StackIsChain(stack[b])' /\ StackShortens(stack[b])'
              /\ path'[b] = Upto(stack[b], Len(stack[b]))'
  <2>1. StackIsChain(stack[b])'
    BY <1>0, <1>9, <1>10, <1>11 DEF StacksAreChains, StackIsChain
  <2>2. StackShortens(stack[b])'
    BY <1>0, <1>9, <1>10, <1>11 DEF StacksShorten, StackShortens
  <2>3. path'[b] = Upto(stack[b], Len(stack[b]))'
    BY <1>0, <1>9, <1>11 DEF StacksAreChains
  <2> QED BY <2>1, <2>2, <2>3
<1>12. StackIsChain(stack[a])'
  <2> SUFFICES ASSUME NEW i \in 1..Len(t)
               PROVE  /\ chain[t[i]] = Upto(t, i)
                      /\ \A j \in 1..Len(t) : t[i] = t[j] => i = j
    BY <1>8, <1>10 DEF StackIsChain
  <2>1. i \in 1..Len(s) /\ i \in 1..(Len(s) - 1) /\ t[i] = s[i]
    BY <1>0, <1>2
  <2>2. chain[t[i]] = Upto(t, i)
    BY <1>0, <1>6, <2>1 DEF StacksAreChains, StackIsChain
  <2> QED BY <1>0, <1>2, <1>4, <2>1, <2>2
<1>13. StackShortens(stack[a])'
  <2> SUFFICES ASSUME NEW i \in 1..Len(t), NEW j \in 1..i
               PROVE  caps[t[i]] \subseteq uses[t[j]]
    BY <1>8, <1>10 DEF StackShortens
  <2>1. i \in 1..Len(s) /\ t[i] = s[i] /\ t[j] = s[j]
    BY <1>0, <1>2
  <2> QED BY <1>0, <2>1 DEF StacksShorten, StackShortens
<1> QED BY <1>8, <1>11, <1>12, <1>13 DEF StacksAreChains, StacksShorten

\* A task starts with the chain of its starter, a thread with none.
LEMMA StartKeepsChains ==
  ASSUME IInv, NEW a \in Activity, NEW b \in Activity, StartTask(a, b)
  PROVE  StacksAreChains' /\ StacksShorten'
<1>1. /\ stack' = [stack EXCEPT ![b] = stack[a]]
      /\ path' = [path EXCEPT ![b] = path[a]]
      /\ chain' = chain /\ caps' = caps /\ uses' = uses
  BY DEF StartTask, frames
<1>2. \A c \in Activity : \E d \in Activity : stack'[c] = stack[d] /\ path'[c] = path[d]
  BY <1>1 DEF IInv, TypeOK
<1>3. StacksAreChains /\ StacksShorten
  BY DEF IInv
<1>4. StacksAreChains'
  BY <1>1, <1>2, <1>3 DEF StacksAreChains, StackIsChain
<1>5. StacksShorten'
  <2> SUFFICES ASSUME NEW c \in Activity PROVE StackShortens(stack[c])'
    BY DEF StacksShorten
  <2>1. PICK d \in Activity : stack'[c] = stack[d]
    BY <1>2
  <2> QED BY <1>1, <1>3, <2>1 DEF StacksShorten, StackShortens
<1> QED BY <1>4, <1>5

\* Every step keeps the stacks chains.
LEMMA StepKeepsChains ==
  ASSUME IInv, TypeOK', NEW a \in Activity, Step(a)
  PROVE  StacksAreChains' /\ StacksShorten'
<1>1. CASE UNCHANGED <<stack, path, chain, caps, uses>>
  BY <1>1 DEF IInv, StacksAreChains, StackIsChain, StacksShorten, StackShortens
<1>2. \/ \E b \in Activity : StartTask(a, b)
      \/ \E f \in Frame, d \in Uses, l \in Limit \cup {NoLimit} : Enter(a, f, d, l)
      \/ Exit(a)
      \/ UNCHANGED <<stack, path, chain, caps, uses>>
  BY DEF Step, frames, StartThread, Catch, End, Authorise, Refuse, RefuseTainted, Call,
         Return, Overdraw, Fail
<1> QED BY <1>1, <1>2, EnterKeepsChains, ExitKeepsChains, StartKeepsChains

\* What a frame has spent is what was paid on its behalf.
LEMMA StepKeepsBooks ==
  ASSUME IInv, NEW a \in Activity, Step(a)
  PROVE  FreshFrames' /\ SpendReachesCallers'
<1>0. /\ TypeOK /\ StacksAreChains /\ FreshFrames /\ SpendReachesCallers
  BY DEF IInv
<1>1. ASSUME NEW p \in Price, Return(a, p)
      PROVE  FreshFrames' /\ SpendReachesCallers'
  <2>1. Charged(a) = path[a]
    BY <1>0, ChargedIsPath
  <2>2. /\ spent' = [n \in Frame |-> IF n \in Charged(a) THEN spent[n] + p ELSE spent[n]]
        /\ paid' = [n \in Frame |-> IF n \in path[a] THEN paid[n] + p ELSE paid[n]]
        /\ chain' = chain
    BY <1>1 DEF Return, frames
  <2>3. SpendReachesCallers'
    BY <1>0, <2>1, <2>2 DEF SpendReachesCallers
  <2>4. ASSUME NEW f \in Charged(a) PROVE chain[f] # {}
    <3>1. PICK i \in 1..Len(stack[a]) : f = stack[a][i]
      BY <1>0, <2>1, <2>4 DEF StacksAreChains, Upto
    <3>2. f \in Upto(stack[a], i)
      BY <3>1 DEF Upto
    <3> QED BY <1>0, <3>1, <3>2 DEF StacksAreChains, StackIsChain
  <2>5. FreshFrames'
    BY <1>0, <2>2, <2>4 DEF FreshFrames
  <2> QED BY <2>3, <2>5
<1>2. ASSUME NEW f \in Frame, NEW d \in Uses, NEW l \in Limit \cup {NoLimit}, Enter(a, f, d, l)
      PROVE  FreshFrames' /\ SpendReachesCallers'
  BY <1>0, <1>2 DEF Enter, IsFree, FreshFrames, SpendReachesCallers, TypeOK
<1>3. CASE UNCHANGED <<chain, spent, paid>>
  BY <1>0, <1>3 DEF FreshFrames, SpendReachesCallers
<1>4. \/ \E p \in Price : Return(a, p)
      \/ \E f \in Frame, d \in Uses, l \in Limit \cup {NoLimit} : Enter(a, f, d, l)
      \/ UNCHANGED <<chain, spent, paid>>
  BY DEF Step, frames, StartTask, StartThread, Exit, Catch, End, Authorise, Refuse,
         RefuseTainted, Call, Overdraw, Fail
<1> QED BY <1>1, <1>2, <1>3, <1>4

-----------------------------------------------------------------------------
\* The inductive invariant is inductive.
LEMMA NextIInv == IInv /\ [Next]_vars => IInv'
<1>1. ASSUME IInv, NEW a \in Activity, Step(a) PROVE IInv'
  <2>1. TypeOK'
    BY <1>1, StepTypeOK DEF IInv
  <2> QED BY <1>1, <2>1, StepKeepsChains, StepKeepsBooks DEF IInv
<1>2. ASSUME IInv, UNCHANGED vars PROVE IInv'
  <2>1. TypeOK'
    BY <1>2 DEF IInv, vars, frames, TypeOK
  <2>2. StacksAreChains' /\ StacksShorten'
    BY <1>2 DEF IInv, vars, frames, StacksAreChains, StackIsChain, StacksShorten, StackShortens
  <2>3. FreshFrames' /\ SpendReachesCallers'
    BY <1>2 DEF IInv, vars, frames, FreshFrames, SpendReachesCallers
  <2> QED BY <2>1, <2>2, <2>3 DEF IInv
<1> QED BY <1>1, <1>2 DEF Next, Finished

\* The inductive invariant holds in every behaviour.
LEMMA Inductive == Spec => []IInv
BY InitIInv, NextIInv, PTL DEF Spec

\* What a metered call costs reaches the functions on whose behalf it was made, and
\* no other, for any number of tasks, threads and frames.
THEOREM SpendPropagates == Spec => []SpendReachesCallers
<1>1. IInv => SpendReachesCallers
  BY DEF IInv
<1> QED BY <1>1, Inductive, PTL

\* An activity holds a capability only if all its callers declare it.
LEMMA HeldIsDeclared ==
  ASSUME IInv, NEW a \in Activity, NEW f \in path[a]
  PROVE  Held(a) \subseteq uses[f]
<1>0. TypeOK /\ StacksAreChains /\ StacksShorten /\ Len(stack[a]) \in Nat
  BY LenProperties DEF IInv, TypeOK
<1>1. Current(a) # NoFrame /\ Len(stack[a]) > 0 /\ Current(a) = stack[a][Len(stack[a])]
  BY <1>0, ChargedIsPath
<1>2. PICK j \in 1..Len(stack[a]) : f = stack[a][j]
  BY <1>0 DEF StacksAreChains, Upto
<1>3. Len(stack[a]) \in 1..Len(stack[a])
  BY <1>0, <1>1
<1>4. caps[stack[a][Len(stack[a])]] \subseteq uses[f]
  BY <1>0, <1>2, <1>3 DEF StacksShorten, StackShortens
<1> QED BY <1>1, <1>4 DEF Held

\* A call that exercises a capability gets through only if every bound function on
\* whose behalf it is made declares that capability.
THEOREM AuthorityShortens == Spec => AuthorityOnlyShortens
<1>1. IInv => \A a \in Activity, c \in Cap :
                Authorise(a, c) => \A f \in path[a] : c \in uses[f]
  BY HeldIsDeclared DEF Authorise
<1> QED BY <1>1, Inductive, PTL DEF AuthorityOnlyShortens
=============================================================================
