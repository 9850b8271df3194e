------------------------- MODULE ParallelForProofs --------------------------
(***************************************************************************)
(* Proofs about ParallelFor, for any width, pool, list, limit and prices,  *)
(* on both schedulers, and with threads that may be preempted anywhere.    *)
(* The inductive invariant says what the dispatching thread knows of the   *)
(* items in each phase, which jobs the queue of the pool holds, and where  *)
(* the money of the frame is.                                              *)
(***************************************************************************)
EXTENDS ParallelFor, FiniteSetTheorems, SequenceTheorems, TLAPS

\* The frame holds what was charged and what the block has reserved.
Books ==
  /\ spent = charged + reserved
  /\ phase \in {"idle", "project"} => reserved = 0

\* A price that waits to be stored has been found higher than the projection's seed.
StoresAreHigh == \A j \in Job : item[j] = "storing" => Preemptible /\ TypicalCost <= price[j]

\* An iteration that has not ended has a generation left to do.
GensLeft ==
  \A j \in Job : item[j] \in Busy \cup {"new", "waiting", "queued"} => gens[j] < GensPerItem

\* Nothing has happened to the items of later blocks, to those past the end of the
\* list, and to any before the block has its reservation.
Untouched ==
  /\ phase # "idle" \/ n > 0 => block \in 1..MaxBlocks
  /\ phase \notin {"idle", "project"} => n > 0
  /\ \A j \in Job :
       j[1] > block \/ (j[1] = block /\ (phase = "project" \/ j[2] > n)) => item[j] = "new"

\* Item i was collected.
Collected(i) == item[Job1(i)] = "ok" /\ result[i] = i

\* The block has answered with a result from every item.
Full == answer = [i \in Items |-> i] /\ \A i \in Items : item[Job1(i)] = "ok"

\* What the dispatching thread knows in each phase.
Dispatched ==
  /\ phase \in {"project", "submit", "collect", "cancel", "inline"} =>
       result \in [Items -> {None} \cup (1..MaxItems)]
  /\ phase \in {"submit", "collect"} => todo = Items
  /\ phase = "submit" => ~Async /\ next \in 1..(n + 1) /\ \A i \in next..n : item[Job1(i)] = "new"
  /\ phase = "collect" /\ ~Async => next \in 1..(n + 1) /\ \A i \in 1..(next - 1) : Collected(i)
  /\ phase = "collect" /\ Async =>
       next \in 1..(Len(landed) + 1) /\ \A k \in 1..(next - 1) : Collected(landed[k])
  /\ phase = "inline" =>
       /\ next \in 1..(n + 1)
       /\ \A i \in 1..(next - 1) : Collected(i)
       /\ \A i \in (next + 1)..n : item[Job1(i)] = "new"
  /\ phase = "cancel" => answer = Failure
  /\ phase = "refund" => answer = Failure \/ Full
  /\ phase = "idle" => answer \in {None, Failure} \/ Full

\* asyncio sees every item land once, when its iteration has ended.
LandedOnce ==
  Async /\ phase \in {"collect", "cancel"} =>
    \A k \in 1..Len(landed) :
      /\ landed[k] \in Items
      /\ item[Job1(landed[k])] \in {"ok", "error"}
      /\ \A l \in 1..Len(landed) : landed[k] = landed[l] => k = l

\* The queue of the pool holds jobs that were queued, each once.
QueuedOnce ==
  \A k \in 1..Len(queue) :
    /\ item[queue[k]] = "queued"
    /\ \A l \in 1..Len(queue) : queue[k] = queue[l] => k = l

\* Without asyncio: what is on its way in each phase.
Landing ==
  ~Async =>
    /\ \A i \in Items : item[Job1(i)] # "waiting"
    /\ phase = "inline" => \A i \in Items : item[Job1(i)] # "queued" /\ (item[Job1(i)] \in Busy => i = next)
    /\ phase = "cancel" =>
         /\ \E i \in Items : item[Job1(i)] = "error"
         /\ \A i \in Items \ todo : item[Job1(i)] # "queued"
    /\ phase \in {"refund", "idle"} =>
         \A i \in Items : item[Job1(i)] \notin Busy \cup {"queued"}
    /\ phase = "refund" => (answer = Failure /\ \E i \in Items : item[Job1(i)] = "error") \/ Full

IInv ==
  /\ TypeOK
  /\ Books
  /\ ProjectionIsObserved
  /\ StoresAreHigh
  /\ GensLeft
  /\ Untouched
  /\ Dispatched
  /\ LandedOnce
  /\ QueuedOnce
  /\ Landing
-----------------------------------------------------------------------------
\* Jobs are pairs of a block and an item.
LEMMA JobFacts ==
  ASSUME TypeOK
  PROVE  /\ \A j \in Job : j[1] \in 1..MaxBlocks /\ j[2] \in 1..MaxItems /\ j = <<j[1], j[2]>>
         /\ \A i \in Items : i \in 1..MaxItems
         /\ block \in 1..MaxBlocks => \A i \in 1..MaxItems : Job1(i) \in Job
         /\ \A i : Job1(i)[1] = block /\ Job1(i)[2] = i
         /\ n \in Nat /\ block \in Nat /\ MaxItems \in Nat
BY ParallelAssumption DEF TypeOK, Job, Job1, Items

\* A worker goes on with an iteration it has taken, or ends it.
BusyStep(j) ==
  /\ item[j] \in Busy
  /\ \E x \in Busy \cup {"ok", "error"} : item' = [item EXCEPT ![j] = x]
  /\ UNCHANGED <<phase, block, n, reserved, next, todo, queue, landed, answer, result>>

LEMMA WorkIsBusyStep ==
  ASSUME NEW j \in Job,
         \/ \E p \in Price : Generate(j, p)
         \/ GiveUp(j) \/ Charge(j) \/ Exhaust(j) \/ Observe(j) \/ Store(j)
  PROVE  BusyStep(j)
<1> USE DEF dispatch, outcome, frame, jobs, Busy
<1>1. ASSUME NEW p \in Price, Generate(j, p) PROVE BusyStep(j)
  BY <1>1 DEF Generate, BusyStep
<1>2. CASE GiveUp(j)
  BY <1>2 DEF GiveUp, BusyStep
<1>3. CASE Charge(j)
  BY <1>3 DEF Charge, BusyStep
<1>4. CASE Exhaust(j)
  BY <1>4 DEF Exhaust, BusyStep
<1>5. CASE Observe(j)
  <2>1. CASE Preemptible /\ price[j] > worst
    BY <1>5, <2>1 DEF Observe, BusyStep
  <2>2. CASE ~(Preemptible /\ price[j] > worst)
    BY <1>5, <2>2 DEF Observe, Proceed, BusyStep
  <2> QED BY <2>1, <2>2
<1>6. CASE Store(j)
  BY <1>6 DEF Store, Proceed, BusyStep
<1> QED BY <1>1, <1>2, <1>3, <1>4, <1>5, <1>6

\* The initial state satisfies the inductive invariant.
LEMMA InitIInv == Init => IInv
<1> SUFFICES ASSUME Init PROVE IInv
  OBVIOUS
<1> USE ParallelAssumption DEF Init, Busy
<1>1. TypeOK
  BY EmptySeq DEF TypeOK
<1>2. Books /\ ProjectionIsObserved /\ StoresAreHigh /\ GensLeft
  BY DEF Books, ProjectionIsObserved, StoresAreHigh, GensLeft, Higher
<1>3. Untouched /\ Dispatched /\ LandedOnce
  BY DEF Untouched, Dispatched, LandedOnce, Job
<1>4. QueuedOnce /\ Landing
  BY EmptySeq DEF QueuedOnce, Landing, Items
<1> QED BY <1>1, <1>2, <1>3, <1>4 DEF IInv

-----------------------------------------------------------------------------
\* What is at the collecting loop's turn is an item of the list.
LEMMA TurnFacts ==
  ASSUME TypeOK, Dispatched, LandedOnce, AtTurn
  PROVE  /\ Turn \in Items /\ next \in Nat
         /\ Async => next \in 1..Len(landed) /\ landed[next] = Turn
         /\ ~Async => next \in Items /\ next = Turn
<1>1. Len(landed) \in Nat /\ n \in Nat
  BY LenProperties DEF TypeOK
<1>2. CASE Async
  BY <1>1, <1>2 DEF AtTurn, Turn, Dispatched, LandedOnce
<1>3. CASE ~Async
  BY <1>1, <1>3 DEF AtTurn, Turn, Dispatched, Items
<1> QED BY <1>2, <1>3

\* An item lands once: there are no more landed than items.
LEMMA LandedFits ==
  ASSUME TypeOK, LandedOnce, Async, phase \in {"collect", "cancel"}
  PROVE  /\ Len(landed) \in Nat /\ Len(landed) <= n
         /\ Len(landed) = n => \A i \in Items : \E k \in 1..Len(landed) : landed[k] = i
<1>1. Len(landed) \in Nat /\ n \in Nat /\ landed \in [1..Len(landed) -> Items]
  <2>1. landed \in [1..Len(landed) -> 1..MaxItems] /\ Len(landed) \in Nat
    BY LenProperties DEF TypeOK
  <2>2. \A k \in 1..Len(landed) : landed[k] \in Items
    BY DEF LandedOnce
  <2> QED BY <2>1, <2>2 DEF TypeOK
<1>2. landed \in Injection(1..Len(landed), Items)
  BY <1>1 DEF LandedOnce, Injection, IsInjective
<1>3. IsFiniteSet(Items) /\ Cardinality(Items) = n
  BY <1>1, FS_Interval DEF Items
<1>4. Cardinality(1..Len(landed)) = Len(landed)
  BY <1>1, FS_Interval
<1>5. Len(landed) <= n /\ (Len(landed) = n => landed \in Surjection(1..Len(landed), Items))
  BY <1>2, <1>3, <1>4, FS_Injection
<1> QED BY <1>1, <1>5 DEF Surjection

\* What is collected in the end is a result from every item.
LEMMA AllCollected ==
  ASSUME TypeOK, Dispatched, LandedOnce, phase = "collect", next > n
  PROVE  result = [i \in Items |-> i] /\ \A i \in Items : item[Job1(i)] = "ok"
<1>1. n \in Nat /\ next \in Nat /\ result \in [Items -> {None} \cup (1..MaxItems)]
  BY DEF TypeOK, Dispatched
<1>2. \A i \in Items : Collected(i)
  <2>1. CASE Async
    <3>1. Len(landed) \in Nat /\ Len(landed) <= n /\ next \in 1..(Len(landed) + 1)
      BY <2>1, LandedFits DEF Dispatched
    <3>2. Len(landed) = n /\ next - 1 = n
      BY <1>1, <3>1
    <3>3. \A k \in 1..n : Collected(landed[k])
      BY <2>1, <3>2 DEF Dispatched
    <3>4. \A i \in Items : \E k \in 1..n : landed[k] = i
      BY <2>1, <3>2, LandedFits
    <3> QED BY <3>3, <3>4
  <2>2. CASE ~Async
    BY <1>1, <2>2 DEF Dispatched, Items
  <2> QED BY <2>1, <2>2
<1> QED BY <1>1, <1>2 DEF Collected

\* Taking an element out of a sequence moves up those behind it.
LEMMA RemoveAtFacts ==
  ASSUME NEW S, NEW s \in Seq(S), NEW k \in 1..Len(s)
  PROVE  /\ RemoveAt(s, k) \in Seq(S)
         /\ Len(RemoveAt(s, k)) = Len(s) - 1
         /\ \A i \in 1..(Len(s) - 1) : RemoveAt(s, k)[i] = IF i < k THEN s[i] ELSE s[i + 1]
<1> DEFINE a == SubSeq(s, 1, k - 1)
           b == SubSeq(s, k + 1, Len(s))
<1>1. PICK m \in Nat : m = Len(s)
  BY LenProperties
<1>2. k \in Int /\ k - 1 \in Int /\ k + 1 \in Int /\ 1 \in Int /\ k \in 1..m
  BY <1>1
<1>3. \A i \in 1..m : s[i] \in S
  BY <1>1, ElementOfSeq
<1>4. /\ a \in Seq(S)
      /\ Len(a) = IF 1 <= k - 1 THEN k - 1 - 1 + 1 ELSE 0
      /\ \A i \in 1..(k - 1 - 1 + 1) : a[i] = s[1 + i - 1]
  <2>1. \A i \in 1..(k - 1) : s[i] \in S
    BY <1>2, <1>3
  <2> QED BY <1>2, <2>1, SubSeqProperties
<1>5. /\ b \in Seq(S)
      /\ Len(b) = IF k + 1 <= m THEN m - (k + 1) + 1 ELSE 0
      /\ \A i \in 1..(m - (k + 1) + 1) : b[i] = s[k + 1 + i - 1]
  <2>1. \A i \in (k + 1)..m : s[i] \in S
    BY <1>2, <1>3
  <2> QED BY <1>1, <1>2, <2>1, SubSeqProperties
<1>6. Len(a) = k - 1 /\ \A i \in 1..(k - 1) : a[i] = s[i]
  BY <1>2, <1>4
<1>7. Len(b) = m - k /\ \A i \in 1..(m - k) : b[i] = s[k + i]
  BY <1>2, <1>5
<1> HIDE DEF a, b
<1>8. /\ a \o b \in Seq(S)
      /\ Len(a \o b) = Len(a) + Len(b)
      /\ \A i \in 1..(Len(a) + Len(b)) : (a \o b)[i] = IF i <= Len(a) THEN a[i] ELSE b[i - Len(a)]
  BY <1>4, <1>5, ConcatProperties
<1>9. ASSUME NEW i \in 1..(m - 1)
      PROVE  (a \o b)[i] = IF i < k THEN s[i] ELSE s[i + 1]
  <2>1. CASE i < k
    BY <1>2, <1>6, <1>7, <1>8, <2>1
  <2>2. CASE ~(i < k)
    <3>1. (a \o b)[i] = b[i - (k - 1)]
      BY <1>2, <1>6, <1>7, <1>8, <2>2
    <3>2. i - (k - 1) \in 1..(m - k) /\ k + (i - (k - 1)) = i + 1
      BY <1>2, <2>2
    <3> QED BY <1>7, <2>2, <3>1, <3>2
  <2> QED BY <2>1, <2>2
<1>10. RemoveAt(s, k) = a \o b
  BY DEF RemoveAt, a, b
<1>11. Len(a) + Len(b) = m - 1
  BY <1>2, <1>6, <1>7
<1> QED BY <1>1, <1>8, <1>9, <1>10, <1>11

-----------------------------------------------------------------------------
\* A step of the executing thread keeps the types.
LEMMA MainTypeOK ==
  ASSUME IInv, Main
  PROVE  TypeOK'
<1>0. TypeOK /\ Books /\ Untouched /\ Dispatched /\ LandedOnce
  BY DEF IInv
<1> USE DEF dispatch, outcome, frame, jobs, Busy
<1>1. CASE NoItems
  <2>1. << >> \in Seq(1..MaxItems)
    BY EmptySeq
  <2> QED BY <1>0, <1>1, <2>1 DEF NoItems, TypeOK
<1>2. CASE Reserve
  <2>1. Need \in Nat
    BY <1>0, ParallelAssumption DEF TypeOK, Need
  <2>2. reserved' \in Nat /\ spent' \in Nat
    BY <1>0, <1>2, <2>1 DEF TypeOK, Reserve
  <2>3. Items \subseteq 1..MaxItems /\ 1 \in 1..(MaxItems + 1)
    BY <1>0, JobFacts
  <2>4. << >> \in Seq(1..MaxItems)
    BY EmptySeq
  <2>5. /\ phase' \in {"submit", "collect", "inline"} /\ next' = 1
        /\ todo' \in {todo, Items} /\ landed' \in {landed, << >>}
        /\ item' \in [Job -> {"new", "waiting", "queued", "ok", "error", "cancelled"} \cup Busy]
    BY <1>0, <1>2 DEF Reserve, Dispatch, TypeOK
  <2> QED BY <1>0, <1>2, <2>2, <2>3, <2>4, <2>5 DEF Reserve, TypeOK
<1>3. CASE RefuseBlock \/ NotAList
  BY <1>0, <1>3 DEF RefuseBlock, NotAList, TypeOK
<1>4. CASE Submit
  <2>1. Job1(next) \in Job /\ next + 1 \in 1..(MaxItems + 1)
    <3>1. next \in Items /\ block \in 1..MaxBlocks
      BY <1>0, <1>4 DEF Submit, Untouched, Dispatched, Items, TypeOK
    <3>2. next \in 1..MaxItems
      BY <1>0, <3>1, JobFacts
    <3> QED BY <1>0, <3>1, <3>2, JobFacts
  <2>2. Append(queue, Job1(next)) \in Seq(Job)
    BY <1>0, <2>1, AppendProperties DEF TypeOK
  <2> QED BY <1>0, <1>4, <2>1, <2>2 DEF Submit, TypeOK
<1>5. CASE Submitted
  BY <1>0, <1>5, ParallelAssumption DEF Submitted, TypeOK
<1>6. CASE Collect
  <2>1. Turn \in Items /\ Turn \in 1..MaxItems
    BY <1>0, <1>6, TurnFacts, JobFacts DEF Collect
  <2>2. next + 1 \in 1..(MaxItems + 1)
    <3>1. CASE Async
      <4>1. next \in 1..Len(landed) /\ Len(landed) \in Nat /\ Len(landed) <= n
        BY <1>0, <1>6, <3>1, TurnFacts, LandedFits DEF Collect, AtTurn
      <4>2. n \in 0..MaxItems
        BY <1>0 DEF TypeOK
      <4> QED BY <4>1, <4>2, ParallelAssumption
    <3>2. CASE ~Async
      BY <1>0, <1>6, <3>2, TurnFacts, JobFacts DEF Collect
    <3> QED BY <3>1, <3>2
  <2>3. result' \in Seq({None} \cup (1..MaxItems))
    <3>1. Len(result) = n
      BY <1>0, <1>6, LenProperties DEF Collect, AtTurn, Dispatched, TypeOK, Items
    <3>2. Turn \in 1..Len(result)
      BY <2>1, <3>1 DEF Items
    <3>3. [result EXCEPT ![Turn] = Turn] \in Seq({None} \cup (1..MaxItems))
      BY <1>0, <2>1, <3>2, ExceptSeq DEF TypeOK
    <3> QED BY <1>6, <3>3 DEF Collect
  <2> QED BY <1>0, <1>6, <2>2, <2>3 DEF Collect, TypeOK
<1>7. CASE CollectFailure
  BY <1>0, <1>7 DEF CollectFailure, TypeOK
<1>8. ASSUME NEW i \in 1..MaxItems, Cancel(i) PROVE TypeOK'
  <2>1. Job1(i) \in Job
    BY <1>0, <1>8, JobFacts DEF Cancel, Untouched
  <2>2. queue' \in Seq(Job)
    <3>1. ASSUME NEW k \in DOMAIN queue, queue' = RemoveAt(queue, k) PROVE queue' \in Seq(Job)
      BY <1>0, <3>1, LenProperties, RemoveAtFacts DEF TypeOK
    <3> QED BY <1>0, <1>8, <3>1 DEF Cancel, TypeOK
  <2> QED BY <1>0, <1>8, <2>1, <2>2 DEF Cancel, TypeOK
<1>9. CASE CloseRun
  <2>1. phase = "collect" => result \in Seq(1..MaxItems)
    <3> SUFFICES ASSUME phase = "collect" PROVE result \in Seq(1..MaxItems)
      OBVIOUS
    <3>1. result = [i \in 1..n |-> i] /\ n \in Nat
      BY <1>0, <1>9, AllCollected DEF CloseRun, Items, TypeOK
    <3>2. result \in [1..n -> 1..MaxItems]
      BY <1>0, <3>1, JobFacts DEF Items
    <3> QED BY <3>1, <3>2, SeqDef
  <2>2. << >> \in Seq(1..MaxItems) /\ << >> \in Seq({None} \cup (1..MaxItems)) /\ 1 \in 1..(MaxItems + 1)
    BY EmptySeq, ParallelAssumption
  <2> QED BY <1>0, <1>9, <2>1, <2>2 DEF CloseRun, Forget, TypeOK
<1>10. CASE InlineStart
  <2>1. Job1(next) \in Job
    BY <1>0, <1>10, JobFacts DEF InlineStart, Untouched, Dispatched, TypeOK
  <2> QED BY <1>0, <1>10, <2>1 DEF InlineStart, TypeOK
<1>11. CASE InlineCollect
  <2>1. next \in 1..MaxItems /\ next \in 1..n /\ next + 1 \in 1..(MaxItems + 1)
    <3>1. next \in 1..n
      BY <1>0, <1>11 DEF InlineCollect, Dispatched, TypeOK
    <3>2. n \in 0..MaxItems
      BY <1>0 DEF TypeOK
    <3> QED BY <3>1, <3>2, ParallelAssumption
  <2>2. result' \in Seq({None} \cup (1..MaxItems))
    <3>1. Len(result) = n
      BY <1>0, <1>11, LenProperties DEF InlineCollect, Dispatched, TypeOK, Items
    <3>2. [result EXCEPT ![next] = next] \in Seq({None} \cup (1..MaxItems))
      BY <1>0, <2>1, <3>1, ExceptSeq DEF TypeOK
    <3> QED BY <1>11, <3>2 DEF InlineCollect
  <2> QED BY <1>0, <1>11, <2>1, <2>2 DEF InlineCollect, TypeOK
<1>12. CASE InlineEnd
  <2>1. next > n => result \in Seq(1..MaxItems)
    <3> SUFFICES ASSUME next > n PROVE result \in Seq(1..MaxItems)
      OBVIOUS
    <3>1. /\ n \in Nat /\ result \in [1..n -> {None} \cup (1..MaxItems)]
          /\ \A i \in 1..n : result[i] = i
      BY <1>0, <1>12 DEF InlineEnd, Dispatched, Collected, Items, TypeOK
    <3>2. result \in [1..n -> 1..MaxItems]
      BY <1>0, <3>1, JobFacts DEF Items
    <3> QED BY <3>1, <3>2, SeqDef
  <2>2. << >> \in Seq(1..MaxItems) /\ << >> \in Seq({None} \cup (1..MaxItems)) /\ 1 \in 1..(MaxItems + 1)
    BY EmptySeq, ParallelAssumption
  <2> QED BY <1>0, <1>12, <2>1, <2>2 DEF InlineEnd, Forget, TypeOK
<1>13. CASE Refund
  BY <1>0, <1>13 DEF Refund, Books, TypeOK
<1> QED BY <1>1, <1>2, <1>3, <1>4, <1>5, <1>6, <1>7, <1>8, <1>9, <1>10, <1>11, <1>12, <1>13
        DEF Main

\* So does every other step.
LEMMA OtherTypeOK ==
  ASSUME IInv,
         \/ \E k \in 0..MaxItems : Begin(k)
         \/ EventLoop
         \/ \E j \in Job : Work(j)
  PROVE  TypeOK'
<1>0. TypeOK /\ Books /\ Untouched /\ Dispatched /\ LandedOnce /\ GensLeft
  BY DEF IInv
<1> USE DEF dispatch, outcome, frame, jobs, Busy
<1>1. ASSUME NEW k \in 0..MaxItems, Begin(k) PROVE TypeOK'
  <2>1. block + 1 \in 0..MaxBlocks
    BY <1>0, <1>1, ParallelAssumption DEF Begin, TypeOK
  <2>2. [i \in 1..k |-> None] \in [1..k -> {None} \cup (1..MaxItems)] /\ k \in Nat
    OBVIOUS
  <2>3. [i \in 1..k |-> None] \in Seq({None} \cup (1..MaxItems))
    BY <2>2, SeqDef
  <2> QED BY <1>0, <1>1, <2>1, <2>3 DEF Begin, TypeOK
<1>2. ASSUME NEW i \in 1..MaxItems, Admit(i) PROVE TypeOK'
  <2>1. Job1(i) \in Job
    BY <1>0, <1>2, JobFacts DEF Admit, Untouched
  <2>2. Append(queue, Job1(i)) \in Seq(Job)
    BY <1>0, <2>1, AppendProperties DEF TypeOK
  <2> QED BY <1>0, <1>2, <2>1, <2>2 DEF Admit, TypeOK
<1>3. ASSUME NEW i \in 1..MaxItems, Land(i) PROVE TypeOK'
  <2>1. Append(landed, i) \in Seq(1..MaxItems)
    BY <1>0, AppendProperties DEF TypeOK
  <2> QED BY <1>0, <1>3, <2>1 DEF Land, TypeOK
<1>4. ASSUME NEW j \in Job, Take(j) PROVE TypeOK'
  <2>1. Tail(queue) \in Seq(Job)
    BY <1>0, <1>4, HeadTailProperties DEF Take, TypeOK
  <2> QED BY <1>0, <1>4, <2>1 DEF Take, TypeOK
<1>5. ASSUME NEW j \in Job, NEW p \in Price, Generate(j, p) PROVE TypeOK'
  BY <1>0, <1>5 DEF Generate, TypeOK
<1>6. ASSUME NEW j \in Job, GiveUp(j) PROVE TypeOK'
  BY <1>0, <1>6 DEF GiveUp, TypeOK
<1>7. ASSUME NEW j \in Job PROVE price[j] \in Nat
  <2>1. price[j] \in Price \cup {0}
    BY <1>0 DEF TypeOK
  <2>2. Price \cup {0} \subseteq Nat
    BY ParallelAssumption
  <2> QED BY <2>1, <2>2
<1>8. ASSUME NEW j \in Job, Charge(j) PROVE TypeOK'
  <2>1. spent' \in Nat /\ charged' \in Nat
    BY <1>0, <1>7, <1>8 DEF Charge, TypeOK
  <2> QED BY <1>0, <1>8, <2>1 DEF Charge, TypeOK
<1>9. ASSUME NEW j \in Job, Exhaust(j) PROVE TypeOK'
  BY <1>0, <1>9 DEF Exhaust, TypeOK
<1>10. ASSUME NEW j \in Job, item[j] \in Busy, Proceed(j)
       PROVE  /\ price' \in [Job -> Price \cup {0}]
              /\ gens' \in [Job -> 0..GensPerItem]
              /\ item' \in [Job -> {"new", "waiting", "queued", "ok", "error", "cancelled"} \cup Busy]
  <2>1. gens[j] + 1 \in 0..GensPerItem
    BY <1>0, <1>10, ParallelAssumption DEF GensLeft, TypeOK
  <2> QED BY <1>0, <1>10, <2>1 DEF Proceed, TypeOK
<1>11. ASSUME NEW j \in Job, Observe(j) PROVE TypeOK'
  <2>1. Higher(worst, price[j]) \in Nat /\ Higher(observed, price[j]) \in Nat
    BY <1>0, <1>7 DEF Higher, TypeOK
  <2>2. CASE Preemptible /\ price[j] > worst
    BY <1>0, <1>11, <2>2 DEF Observe, TypeOK
  <2>3. CASE ~(Preemptible /\ price[j] > worst)
    <3>1. /\ price' \in [Job -> Price \cup {0}]
          /\ gens' \in [Job -> 0..GensPerItem]
          /\ item' \in [Job -> {"new", "waiting", "queued", "ok", "error", "cancelled"} \cup Busy]
      BY <1>10, <1>11, <2>3 DEF Observe
    <3> QED BY <1>0, <1>11, <2>1, <2>3, <3>1 DEF Observe, TypeOK
  <2> QED BY <2>2, <2>3
<1>12. ASSUME NEW j \in Job, Store(j) PROVE TypeOK'
  <2>1. Higher(observed, price[j]) \in Nat
    BY <1>0, <1>7 DEF Higher, TypeOK
  <2>2. /\ price' \in [Job -> Price \cup {0}]
        /\ gens' \in [Job -> 0..GensPerItem]
        /\ item' \in [Job -> {"new", "waiting", "queued", "ok", "error", "cancelled"} \cup Busy]
    BY <1>10, <1>12 DEF Store
  <2> QED BY <1>0, <1>7, <1>12, <2>1, <2>2 DEF Store, TypeOK
<1> QED BY <1>1, <1>2, <1>3, <1>4, <1>5, <1>6, <1>8, <1>9, <1>11, <1>12 DEF EventLoop, Work
-----------------------------------------------------------------------------
\* The money of the frame and the price projection.
LEMMA StepBooks ==
  ASSUME IInv, Next
  PROVE  Books' /\ ProjectionIsObserved' /\ StoresAreHigh' /\ GensLeft'
<1>0. /\ TypeOK /\ Books /\ ProjectionIsObserved /\ StoresAreHigh /\ GensLeft
      /\ Untouched /\ Dispatched
  BY DEF IInv
<1>p. /\ \A j \in Job : price[j] \in Nat
      /\ spent \in Nat /\ charged \in Nat /\ reserved \in Nat
      /\ worst \in Nat /\ observed \in Nat /\ TypicalCost \in Nat
      /\ \A j \in Job : gens[j] \in Nat /\ GensPerItem \in Nat
  <2>1. Price \cup {0} \subseteq Nat /\ TypicalCost \in Nat /\ GensPerItem \in Nat
    BY ParallelAssumption
  <2>2. \A j \in Job : price[j] \in Price \cup {0}
    BY <1>0 DEF TypeOK
  <2>3. \A j \in Job : gens[j] \in Nat
    BY <1>0, <2>1 DEF TypeOK
  <2>4. /\ spent \in Nat /\ charged \in Nat /\ reserved \in Nat
        /\ worst \in Nat /\ observed \in Nat
    BY <1>0 DEF TypeOK
  <2> QED BY <2>1, <2>2, <2>3, <2>4
<1> USE DEF dispatch, outcome, frame, jobs, vars
<1>1. CASE Main \/ EventLoop \/ (\E k \in 0..MaxItems : Begin(k)) \/ UNCHANGED vars
  <2>1. UNCHANGED <<price, gens, worst, observed, charged>>
    BY <1>1 DEF Main, NoItems, Reserve, RefuseBlock, NotAList, Submit, Submitted, Collect,
                CollectFailure, Cancel, CloseRun, InlineStart, InlineCollect, InlineEnd, Refund,
                EventLoop, Admit, Land, Begin
  <2>2. Books'
    <3>1. CASE Reserve
      <4>1. Need \in Nat
        BY <1>0, ParallelAssumption DEF TypeOK, Need
      <4>2. reserved' \in Nat /\ spent' = spent + reserved' /\ phase = "project"
            /\ phase' \in {"submit", "collect", "inline"}
        BY <3>1, <4>1 DEF Reserve, Dispatch
      <4> QED BY <1>0, <1>p, <2>1, <4>2 DEF Books
    <3>2. CASE Refund
      BY <1>0, <1>p, <2>1, <3>2 DEF Books, Refund
    <3>3. CASE \E k \in 0..MaxItems : Begin(k)
      BY <1>0, <3>3 DEF Begin, Books
    <3>4. CASE NoItems \/ RefuseBlock \/ NotAList
      BY <1>0, <3>4 DEF NoItems, RefuseBlock, NotAList, Books
    <3>5. UNCHANGED <<spent, charged, reserved>> /\ phase' \notin {"idle", "project"} => Books'
      BY <1>0 DEF Books
    <3>6. UNCHANGED <<spent, charged, reserved, phase>> => Books'
      BY <1>0 DEF Books
    <3> QED BY <1>1, <3>1, <3>2, <3>3, <3>4, <3>5, <3>6
            DEF Main, Submit, Submitted, Collect, CollectFailure, Cancel, CloseRun, InlineStart,
                InlineCollect, InlineEnd, EventLoop, Admit, Land
  <2>3. ProjectionIsObserved'
    BY <1>0, <2>1 DEF ProjectionIsObserved
  <2>4. \A j \in Job : /\ item'[j] = "storing" => item[j] = "storing"
                       /\ item'[j] \in Busy \cup {"new", "waiting", "queued"} =>
                            item[j] \in Busy \cup {"new", "waiting", "queued"}
    <3> DEFINE Kept == \A j \in Job :
                         /\ item'[j] = "storing" => item[j] = "storing"
                         /\ item'[j] \in Busy \cup {"new", "waiting", "queued"} =>
                              item[j] \in Busy \cup {"new", "waiting", "queued"}
    <3> USE DEF Busy
    <3>1. UNCHANGED item => Kept
      OBVIOUS
    <3>2. ASSUME NEW j \in Job, NEW x \in STRING, x # "storing", item' = [item EXCEPT ![j] = x],
                 item[j] \in {"new", "waiting", "queued"} \/ x \in {"ok", "error", "cancelled"}
          PROVE  Kept
      BY <1>0, <3>2 DEF TypeOK
    <3>3. CASE Reserve
      BY <1>0, <3>3 DEF Reserve, Dispatch, Untouched
    <3>4. CASE Submit
      <4>1. Job1(next) \in Job /\ item[Job1(next)] = "new"
        <5>1. next \in Items /\ block \in 1..MaxBlocks
          BY <1>0, <3>4 DEF Submit, Untouched, Dispatched, Items, TypeOK
        <5>2. item[Job1(next)] = "new"
          BY <1>0, <3>4, <5>1 DEF Submit, Dispatched, Items
        <5> QED BY <1>0, <5>1, <5>2, JobFacts
      <4> HIDE DEF Kept
      <4> QED BY <3>2, <3>4, <4>1 DEF Submit
    <3>5. ASSUME NEW i \in 1..MaxItems, Cancel(i) PROVE Kept
      BY <1>0, <3>5 DEF Cancel, TypeOK
    <3>6. CASE InlineStart
      BY <1>0, <3>6 DEF InlineStart, TypeOK
    <3>7. ASSUME NEW i \in 1..MaxItems, Admit(i) PROVE Kept
      BY <1>0, <3>7 DEF Admit, TypeOK
    <3>8. CASE NoItems \/ RefuseBlock \/ NotAList \/ Submitted \/ Collect \/ CollectFailure
      BY <3>1, <3>8 DEF NoItems, RefuseBlock, NotAList, Submitted, Collect, CollectFailure
    <3>9. CASE CloseRun \/ InlineCollect \/ InlineEnd \/ Refund
      BY <3>1, <3>9 DEF CloseRun, InlineCollect, InlineEnd, Refund
    <3>10. CASE EventLoop
      <4>1. ASSUME NEW i \in 1..MaxItems, Land(i) PROVE Kept
        BY <3>1, <4>1 DEF Land
      <4> QED BY <3>7, <3>10, <4>1 DEF EventLoop
    <3>11. CASE (\E k \in 0..MaxItems : Begin(k)) \/ UNCHANGED vars
      BY <3>1, <3>11 DEF Begin
    <3>12. Kept
      BY <1>1, <3>3, <3>4, <3>5, <3>6, <3>8, <3>9, <3>10, <3>11 DEF Main
    <3> QED BY <3>12 DEF Kept
  <2> QED BY <1>0, <2>1, <2>2, <2>3, <2>4 DEF StoresAreHigh, GensLeft
<1>2. ASSUME NEW j \in Job, Take(j) PROVE Books' /\ ProjectionIsObserved' /\ StoresAreHigh' /\ GensLeft'
  <2>1. item[j] = "queued" /\ item' = [item EXCEPT ![j] = "body"]
    <3>1. queue \in Seq(Job) /\ queue # << >>
      BY <1>0, <1>2 DEF Take, TypeOK
    <3>2. Len(queue) \in Nat /\ Len(queue) > 0 /\ Head(queue) = queue[1]
      BY <3>1, LenProperties, EmptySeq
    <3>3. item[queue[1]] = "queued"
      BY <3>2 DEF IInv, QueuedOnce
    <3> QED BY <1>2, <3>2, <3>3 DEF Take
  <2>2. Books' /\ ProjectionIsObserved'
    BY <1>0, <1>2 DEF Take, Books, ProjectionIsObserved
  <2>3. StoresAreHigh' /\ GensLeft'
    BY <1>0, <1>2, <2>1 DEF Take, StoresAreHigh, GensLeft, Busy, TypeOK
  <2> QED BY <2>2, <2>3
<1>3. ASSUME NEW j \in Job, NEW p \in Price, Generate(j, p)
      PROVE  Books' /\ ProjectionIsObserved' /\ StoresAreHigh' /\ GensLeft'
  BY <1>0, <1>3 DEF Generate, Books, ProjectionIsObserved, StoresAreHigh, GensLeft, Busy, TypeOK
<1>4. ASSUME NEW j \in Job, GiveUp(j) \/ Exhaust(j)
      PROVE  Books' /\ ProjectionIsObserved' /\ StoresAreHigh' /\ GensLeft'
  BY <1>0, <1>4 DEF GiveUp, Exhaust, Books, ProjectionIsObserved, StoresAreHigh, GensLeft, Busy, TypeOK
<1>5. ASSUME NEW j \in Job, Charge(j)
      PROVE  Books' /\ ProjectionIsObserved' /\ StoresAreHigh' /\ GensLeft'
  <2>1. Books'
    BY <1>0, <1>p, <1>5 DEF Charge, Books
  <2>2. ProjectionIsObserved' /\ StoresAreHigh' /\ GensLeft'
    BY <1>0, <1>5 DEF Charge, ProjectionIsObserved, StoresAreHigh, GensLeft, Busy, TypeOK
  <2> QED BY <2>1, <2>2
<1>6. ASSUME NEW j \in Job, item[j] \in Busy, Proceed(j)
      PROVE  StoresAreHigh' /\ GensLeft'
  <2>1. gens[j] < GensPerItem
    BY <1>0, <1>6 DEF GensLeft
  <2>2. \A k \in Job : k # j => item'[k] = item[k] /\ price'[k] = price[k] /\ gens'[k] = gens[k]
    BY <1>0, <1>6 DEF Proceed, TypeOK
  <2>3. gens'[j] = gens[j] + 1 /\ item'[j] \in {"ok", "body"}
        /\ (item'[j] = "body" => gens[j] + 1 # GensPerItem)
    BY <1>0, <1>6 DEF Proceed, TypeOK
  <2>4. item'[j] = "body" => gens'[j] < GensPerItem
    BY <1>p, <2>1, <2>3
  <2>5. StoresAreHigh'
    BY <1>0, <2>2, <2>3 DEF StoresAreHigh
  <2>6. GensLeft'
    BY <1>0, <2>2, <2>3, <2>4 DEF GensLeft, Busy
  <2> QED BY <2>5, <2>6
<1>7. ASSUME NEW j \in Job, Observe(j)
      PROVE  Books' /\ ProjectionIsObserved' /\ StoresAreHigh' /\ GensLeft'
  <2>1. Books'
    BY <1>0, <1>7 DEF Observe, Books
  <2>2. CASE Preemptible /\ price[j] > worst
    <3>1. item' = [item EXCEPT ![j] = "storing"] /\ UNCHANGED <<price, gens, worst, observed>>
      BY <1>7, <2>2 DEF Observe
    <3>2. TypicalCost <= price[j]
      BY <1>0, <1>p, <2>2 DEF ProjectionIsObserved
    <3>3. ProjectionIsObserved' /\ StoresAreHigh'
      BY <1>0, <2>2, <3>1, <3>2 DEF ProjectionIsObserved, StoresAreHigh, TypeOK
    <3>4. GensLeft'
      BY <1>0, <1>7, <3>1 DEF Observe, GensLeft, Busy, TypeOK
    <3> QED BY <2>1, <3>3, <3>4
  <2>3. CASE ~(Preemptible /\ price[j] > worst)
    <3>1. worst' = Higher(worst, price[j]) /\ observed' = Higher(observed, price[j]) /\ Proceed(j)
      BY <1>7, <2>3 DEF Observe
    <3>2. item[j] \in Busy
      BY <1>7 DEF Observe, Busy
    <3>3. ProjectionIsObserved'
      BY <1>0, <1>p, <3>1 DEF ProjectionIsObserved, Higher
    <3> QED BY <1>6, <2>1, <3>1, <3>2, <3>3
  <2> QED BY <2>2, <2>3
<1>8. ASSUME NEW j \in Job, Store(j)
      PROVE  Books' /\ ProjectionIsObserved' /\ StoresAreHigh' /\ GensLeft'
  <2>1. Books'
    BY <1>0, <1>8 DEF Store, Books
  <2>2. worst' = price[j] /\ observed' = Higher(observed, price[j]) /\ Proceed(j)
        /\ Preemptible /\ TypicalCost <= price[j] /\ item[j] \in Busy
    BY <1>0, <1>8 DEF Store, StoresAreHigh, Busy
  <2>3. ProjectionIsObserved'
    BY <1>0, <1>p, <2>2 DEF ProjectionIsObserved, Higher
  <2> QED BY <1>6, <2>1, <2>2, <2>3
<1> QED BY <1>1, <1>2, <1>3, <1>4, <1>5, <1>7, <1>8 DEF Next, Work, Finished
-----------------------------------------------------------------------------
\* A job in the queue is one that item calls queued.
LEMMA TakenWasQueued ==
  ASSUME IInv, NEW j \in Job, Take(j)
  PROVE  /\ item[j] = "queued" /\ item' = [item EXCEPT ![j] = "body"]
         /\ queue \in Seq(Job) /\ queue # << >> /\ j = queue[1]
<1>1. queue \in Seq(Job) /\ queue # << >>
  BY DEF IInv, TypeOK, Take
<1>2. Len(queue) \in Nat /\ Len(queue) > 0 /\ Head(queue) = queue[1]
  BY <1>1, LenProperties, EmptySeq
<1>3. item[queue[1]] = "queued"
  BY <1>2 DEF IInv, QueuedOnce
<1> QED BY <1>1, <1>2, <1>3 DEF Take

\* The thread that submits and the one that runs inline are at an item of the list.
LEMMA NextIsItem ==
  ASSUME IInv
  PROVE  /\ Submit => next \in Items /\ Job1(next) \in Job /\ item[Job1(next)] = "new"
         /\ phase = "inline" /\ next <= n => next \in Items /\ Job1(next) \in Job
<1>1. TypeOK /\ Untouched /\ Dispatched
  BY DEF IInv
<1>2. ASSUME next <= n, phase \in {"submit", "inline"}
      PROVE  next \in Items /\ Job1(next) \in Job
  BY <1>1, <1>2, JobFacts DEF Untouched, Dispatched, Items, TypeOK
<1>3. Submit => item[Job1(next)] = "new"
  BY <1>1, <1>2 DEF Submit, Dispatched, Items
<1> QED BY <1>2, <1>3 DEF Submit

\* How an item moves: what has ended stays so; who starts, queues and postpones it.
Moves(j) ==
  /\ item[j] \in {"ok", "error"} => item'[j] = item[j]
  /\ item[j] = "new" /\ item'[j] # "new" =>
       /\ j[1] = block /\ j[2] \in Items /\ phase' # "project"
       /\ phase \in {"submit", "inline"} => j = Job1(next)
  /\ item'[j] \in Busy =>
       item[j] \in Busy \cup {"queued"} \/ (phase = "inline" /\ j = Job1(next))
  /\ item'[j] = "queued" => item[j] = "queued" \/ Async \/ phase = "submit"
  /\ item'[j] = "waiting" => item[j] = "waiting" \/ Async

LEMMA ItemMoves ==
  ASSUME IInv, Next
  PROVE  \A j \in Job : Moves(j)
<1>0. TypeOK /\ Untouched /\ Dispatched
  BY DEF IInv
<1> USE DEF dispatch, outcome, frame, jobs, vars
<1>1. ASSUME UNCHANGED item PROVE \A j \in Job : Moves(j)
  BY <1>1 DEF Moves
<1>2. CASE Reserve
  <2>1. \A j \in Job : item'[j] = item[j] \/ (item[j] = "new" /\ item'[j] = "waiting" /\ Async
                                               /\ j[1] = block /\ j[2] \in Items)
    BY <1>0, <1>2, JobFacts DEF Reserve, Dispatch, Untouched, Items
  <2>2. phase = "project" /\ phase' # "project"
    BY <1>2 DEF Reserve, Dispatch
  <2> QED BY <2>1, <2>2 DEF Moves, Busy
<1>3. CASE Submit
  <2>1. next \in Items /\ Job1(next) \in Job /\ item[Job1(next)] = "new"
    BY <1>3, NextIsItem
  <2>2. \A j \in Job : item'[j] = IF j = Job1(next) THEN "queued" ELSE item[j]
    BY <1>0, <1>3 DEF Submit, TypeOK
  <2> QED BY <1>0, <1>3, <2>1, <2>2, JobFacts DEF Moves, Busy, Submit
<1>4. ASSUME NEW i \in 1..MaxItems, Cancel(i) PROVE \A j \in Job : Moves(j)
  <2>1. \A j \in Job : item'[j] = item[j] \/ (item[j] \in {"waiting", "queued"} /\ item'[j] = "cancelled")
    BY <1>0, <1>4 DEF Cancel, TypeOK
  <2> QED BY <2>1 DEF Moves, Busy
<1>5. CASE InlineStart
  <2>1. next \in Items /\ Job1(next) \in Job /\ item[Job1(next)] = "new"
    BY <1>5, NextIsItem DEF InlineStart
  <2>2. \A j \in Job : item'[j] = IF j = Job1(next) THEN "body" ELSE item[j]
    BY <1>0, <1>5 DEF InlineStart, TypeOK
  <2> QED BY <1>0, <1>5, <2>1, <2>2, JobFacts DEF Moves, Busy, InlineStart
<1>6. ASSUME NEW i \in 1..MaxItems, Admit(i) PROVE \A j \in Job : Moves(j)
  <2>1. \A j \in Job : item'[j] = item[j] \/ (item[j] = "waiting" /\ item'[j] = "queued" /\ Async)
    BY <1>0, <1>6 DEF Admit, TypeOK
  <2> QED BY <2>1 DEF Moves, Busy
<1>7. ASSUME NEW k \in Job, Take(k) PROVE \A j \in Job : Moves(j)
  <2>1. \A j \in Job : item'[j] = item[j] \/ (item[j] = "queued" /\ item'[j] = "body")
    BY <1>0, <1>7, TakenWasQueued DEF TypeOK
  <2> QED BY <2>1 DEF Moves, Busy
<1>8. ASSUME NEW k \in Job, BusyStep(k) PROVE \A j \in Job : Moves(j)
  <2>1. \A j \in Job : item'[j] = item[j] \/ (item[j] \in Busy /\ item'[j] \in Busy \cup {"ok", "error"})
    BY <1>0, <1>8 DEF BusyStep, TypeOK
  <2> QED BY <2>1 DEF Moves, Busy
<1>9. CASE NoItems \/ RefuseBlock \/ NotAList \/ Submitted \/ Collect \/ CollectFailure
  BY <1>1, <1>9 DEF NoItems, RefuseBlock, NotAList, Submitted, Collect, CollectFailure
<1>10. CASE CloseRun \/ InlineCollect \/ InlineEnd \/ Refund
  BY <1>1, <1>10 DEF CloseRun, InlineCollect, InlineEnd, Refund
<1>11. ASSUME NEW i \in 1..MaxItems, Land(i) PROVE \A j \in Job : Moves(j)
  BY <1>1, <1>11 DEF Land
<1>12. CASE (\E k \in 0..MaxItems : Begin(k)) \/ Finished
  BY <1>1, <1>12 DEF Begin, Finished
<1>13. Main => \A j \in Job : Moves(j)
  BY <1>2, <1>3, <1>4, <1>5, <1>9, <1>10 DEF Main
<1>14. EventLoop => \A j \in Job : Moves(j)
  BY <1>6, <1>11 DEF EventLoop
<1>15. ASSUME NEW k \in Job, Work(k) PROVE \A j \in Job : Moves(j)
  BY <1>7, <1>8, <1>15, WorkIsBusyStep DEF Work
<1> QED BY <1>12, <1>13, <1>14, <1>15 DEF Next
\* What a worker's step leaves alone.
WorkerStep(j) ==
  /\ item[j] \in Busy \cup {"queued"}
  /\ \E x \in Busy \cup {"ok", "error"} : item' = [item EXCEPT ![j] = x]
  /\ UNCHANGED <<phase, block, n, reserved, next, todo, landed, answer, result>>

LEMMA WorkIsWorkerStep ==
  ASSUME IInv, NEW j \in Job, Work(j)
  PROVE  WorkerStep(j)
<1>1. CASE Take(j)
  BY <1>1, TakenWasQueued DEF Take, WorkerStep, outcome, Busy
<1>2. CASE BusyStep(j)
  BY <1>2 DEF BusyStep, WorkerStep
<1> QED BY <1>1, <1>2, WorkIsBusyStep DEF Work

\* Only Begin changes the block and its list; the phases of a block come in order.
LEMMA BlockMoves ==
  ASSUME IInv, Next
  PROVE  \/ \E k \in 0..MaxItems : Begin(k)
         \/ /\ block' = block /\ n' = n
            /\ phase' = "project" => phase = "project"
            /\ phase' # "idle" => phase # "idle"
            /\ phase' \notin {"idle", "project"} => phase \notin {"idle", "project"} \/ n > 0
<1> USE DEF dispatch, outcome, frame, jobs, vars
<1>1. CASE NoItems \/ RefuseBlock \/ NotAList \/ Submitted \/ Collect \/ CollectFailure
  BY <1>1 DEF NoItems, RefuseBlock, NotAList, Submitted, Collect, CollectFailure, AtTurn
<1>2. CASE CloseRun \/ InlineCollect \/ InlineEnd \/ Refund \/ InlineStart \/ Submit
  BY <1>2 DEF CloseRun, InlineCollect, InlineEnd, Refund, InlineStart, Submit
<1>3. CASE Reserve
  BY <1>3 DEF Reserve, Dispatch
<1>4. ASSUME NEW i \in 1..MaxItems, Cancel(i)
      PROVE  UNCHANGED <<phase, block, n>>
  BY <1>4 DEF Cancel
<1>5. EventLoop => UNCHANGED <<phase, block, n>>
  BY DEF EventLoop, Admit, Land
<1>6. ASSUME NEW j \in Job, Work(j)
      PROVE  UNCHANGED <<phase, block, n>>
  BY <1>6, WorkIsWorkerStep DEF WorkerStep
<1>7. Finished => UNCHANGED <<phase, block, n>>
  BY DEF Finished
<1> QED BY <1>1, <1>2, <1>3, <1>4, <1>5, <1>6, <1>7 DEF Next, Main

LEMMA StepUntouched ==
  ASSUME IInv, Next
  PROVE  Untouched'
<1>0. TypeOK /\ Untouched
  BY DEF IInv
<1>1. ASSUME NEW k \in 0..MaxItems, Begin(k) PROVE Untouched'
  <2>1. block' = block + 1 /\ block' \in 1..MaxBlocks
    BY <1>0, <1>1, ParallelAssumption DEF Begin, TypeOK
  <2>2. phase' = "project" /\ UNCHANGED item
    BY <1>1 DEF Begin, jobs
  <2>3. \A j \in Job : j[1] >= block + 1 => j[1] > block
    BY <1>0, JobFacts
  <2>4. \A j \in Job : j[1] >= block' => item'[j] = "new"
    BY <1>0, <2>1, <2>2, <2>3 DEF Untouched
  <2>5. \A j \in Job : j[1] > block' \/ j[1] = block' => j[1] >= block'
    BY <1>0, <2>1, JobFacts
  <2> QED BY <2>1, <2>2, <2>4, <2>5 DEF Untouched
<1>2. CASE ~\E k \in 0..MaxItems : Begin(k)
  <2>1. /\ block' = block /\ n' = n
        /\ phase' = "project" => phase = "project"
        /\ phase' # "idle" => phase # "idle"
        /\ phase' \notin {"idle", "project"} => phase \notin {"idle", "project"} \/ n > 0
    BY <1>2, BlockMoves
  <2>2. ASSUME NEW j \in Job,
               j[1] > block \/ (j[1] = block /\ (phase' = "project" \/ j[2] > n))
        PROVE  item'[j] = "new"
    <3>1. item[j] = "new"
      BY <1>0, <2>1, <2>2 DEF Untouched
    <3>2. ~(j[1] = block /\ j[2] \in Items /\ phase' # "project")
      BY <1>0, <2>2, JobFacts DEF Items
    <3> QED BY <3>1, <3>2, ItemMoves DEF Moves
  <2> QED BY <1>0, <2>1, <2>2 DEF Untouched
<1> QED BY <1>1, <1>2

\* The queue of the pool.
LEMMA StepQueuedOnce ==
  ASSUME IInv, Next
  PROVE  QueuedOnce'
<1>0. TypeOK /\ Untouched /\ Dispatched /\ QueuedOnce
  BY DEF IInv
<1>1. queue \in Seq(Job) /\ Len(queue) \in Nat /\ \A k \in 1..Len(queue) : queue[k] \in Job
  BY <1>0, LenProperties, ElementOfSeq DEF TypeOK
<1> USE DEF dispatch, outcome, frame, jobs, vars
<1>2. ASSUME queue' = queue, \A j \in Job : item[j] = "queued" => item'[j] = "queued"
      PROVE  QueuedOnce'
  BY <1>0, <1>1, <1>2 DEF QueuedOnce
<1>3. ASSUME NEW j \in Job, item[j] # "queued", queue' = Append(queue, j),
             item' = [item EXCEPT ![j] = "queued"]
      PROVE  QueuedOnce'
  <2>1. /\ Len(queue') = Len(queue) + 1
        /\ \A k \in 1..Len(queue) : queue'[k] = queue[k]
        /\ queue'[Len(queue) + 1] = j
    BY <1>1, <1>3, AppendProperties
  <2>2. \A k \in 1..Len(queue) : queue[k] # j
    BY <1>0, <1>3 DEF QueuedOnce
  <2>3. \A k \in 1..(Len(queue) + 1) : k \in 1..Len(queue) \/ k = Len(queue) + 1
    BY <1>1
  <2>4. \A k \in 1..(Len(queue) + 1) : item'[queue'[k]] = "queued"
    BY <1>0, <1>1, <1>3, <2>1, <2>2, <2>3 DEF QueuedOnce, TypeOK
  <2>5. \A k, l \in 1..(Len(queue) + 1) : queue'[k] = queue'[l] => k = l
    BY <1>0, <1>1, <2>1, <2>2, <2>3 DEF QueuedOnce
  <2> QED BY <2>1, <2>4, <2>5 DEF QueuedOnce
<1>4. CASE Reserve
  <2>1. \A j \in Job : item[j] = "queued" => item'[j] = "queued"
    BY <1>0, <1>4, JobFacts DEF Reserve, Dispatch, Untouched, Items
  <2> QED BY <1>2, <1>4, <2>1 DEF Reserve
<1>5. CASE Submit
  BY <1>3, <1>5, NextIsItem DEF Submit
<1>6. ASSUME NEW i \in 1..MaxItems, Admit(i) PROVE QueuedOnce'
  <2>1. Job1(i) \in Job
    BY <1>0, <1>6, JobFacts DEF Admit, Untouched
  <2> QED BY <1>3, <1>6, <2>1 DEF Admit
<1>7. ASSUME NEW i \in 1..MaxItems, Cancel(i) PROVE QueuedOnce'
  <2>1. Job1(i) \in Job
    BY <1>0, <1>7, JobFacts DEF Cancel, Untouched
  <2>2. \A j \in Job : j # Job1(i) => item'[j] = item[j]
    BY <1>0, <1>7 DEF Cancel, TypeOK
  <2>3. CASE queue' = queue /\ \A k \in 1..Len(queue) : queue[k] # Job1(i)
    BY <1>0, <1>1, <2>2, <2>3 DEF QueuedOnce
  <2>4. ASSUME NEW k \in 1..Len(queue), queue[k] = Job1(i), queue' = RemoveAt(queue, k)
        PROVE  QueuedOnce'
    <3>1. /\ Len(queue') = Len(queue) - 1
          /\ \A l \in 1..(Len(queue) - 1) : queue'[l] = IF l < k THEN queue[l] ELSE queue[l + 1]
      BY <1>1, <2>4, RemoveAtFacts
    <3> DEFINE at(l) == IF l < k THEN l ELSE l + 1
    <3>2. \A l \in 1..(Len(queue) - 1) : at(l) \in 1..Len(queue) /\ at(l) # k
      BY <1>1
    <3>3. \A l, m \in 1..(Len(queue) - 1) : at(l) = at(m) => l = m
      BY <1>1
    <3>4. \A l \in 1..(Len(queue) - 1) : queue'[l] = queue[at(l)]
      BY <3>1
    <3> HIDE DEF at
    <3>5. \A l \in 1..(Len(queue) - 1) : item'[queue'[l]] = "queued"
      BY <1>0, <1>1, <2>2, <2>4, <3>2, <3>4 DEF QueuedOnce
    <3>6. \A l, m \in 1..(Len(queue) - 1) : queue'[l] = queue'[m] => l = m
      <4>1. \A l, m \in 1..Len(queue) : queue[l] = queue[m] => l = m
        BY <1>0 DEF QueuedOnce
      <4> QED BY <3>2, <3>3, <3>4, <4>1
    <3> QED BY <3>1, <3>5, <3>6 DEF QueuedOnce
  <2> QED BY <1>1, <1>7, <2>3, <2>4 DEF Cancel
<1>8. ASSUME NEW j \in Job, Take(j) PROVE QueuedOnce'
  <2>1. item' = [item EXCEPT ![j] = "body"] /\ queue # << >> /\ j = queue[1] /\ queue' = Tail(queue)
    BY <1>8, TakenWasQueued DEF Take
  <2>2. Len(queue') = Len(queue) - 1 /\ \A l \in 1..(Len(queue) - 1) : queue'[l] = queue[l + 1]
    BY <1>1, <2>1, HeadTailProperties
  <2>3. 1 \in 1..Len(queue) /\ \A l \in 1..(Len(queue) - 1) : l + 1 \in 1..Len(queue) /\ l + 1 # 1
    BY <1>1, <2>1, EmptySeq
  <2>4. \A l \in 1..(Len(queue) - 1) : queue[l + 1] # j
    BY <1>0, <2>1, <2>3 DEF QueuedOnce
  <2>5. \A l \in 1..(Len(queue) - 1) : item'[queue'[l]] = "queued"
    BY <1>0, <1>1, <2>1, <2>2, <2>3, <2>4 DEF QueuedOnce, TypeOK
  <2>6. \A l, m \in 1..(Len(queue) - 1) : queue'[l] = queue'[m] => l = m
    BY <1>0, <1>1, <2>2, <2>3 DEF QueuedOnce
  <2> QED BY <2>2, <2>5, <2>6 DEF QueuedOnce
<1>9. ASSUME NEW j \in Job, BusyStep(j) PROVE QueuedOnce'
  BY <1>0, <1>2, <1>9 DEF BusyStep, Busy, TypeOK
<1>10. CASE InlineStart
  BY <1>0, <1>2, <1>10 DEF InlineStart, TypeOK
<1>11. ASSUME UNCHANGED <<queue, item>> PROVE QueuedOnce'
  BY <1>2, <1>11
<1>12. CASE NoItems \/ RefuseBlock \/ NotAList \/ Submitted \/ Collect \/ CollectFailure
  BY <1>11, <1>12 DEF NoItems, RefuseBlock, NotAList, Submitted, Collect, CollectFailure
<1>13. CASE CloseRun \/ InlineCollect \/ InlineEnd \/ Refund
  BY <1>11, <1>13 DEF CloseRun, InlineCollect, InlineEnd, Refund
<1>14. ASSUME NEW i \in 1..MaxItems, Land(i) PROVE QueuedOnce'
  BY <1>11, <1>14 DEF Land
<1>15. CASE (\E k \in 0..MaxItems : Begin(k)) \/ Finished
  BY <1>11, <1>15 DEF Begin, Finished
<1>16. CASE Main
  BY <1>4, <1>5, <1>7, <1>10, <1>12, <1>13, <1>16 DEF Main
<1>17. CASE EventLoop
  BY <1>6, <1>14, <1>17 DEF EventLoop
<1>18. ASSUME NEW j \in Job, Work(j) PROVE QueuedOnce'
  BY <1>8, <1>9, <1>18, WorkIsBusyStep DEF Work
<1> QED BY <1>15, <1>16, <1>17, <1>18 DEF Next
\* The coroutines that landed.
LEMMA StepLandedOnce ==
  ASSUME IInv, Next
  PROVE  LandedOnce'
<1>0. TypeOK /\ Untouched /\ Dispatched /\ LandedOnce
  BY DEF IInv
<1>1. landed \in Seq(1..MaxItems) /\ Len(landed) \in Nat
  BY <1>0, LenProperties DEF TypeOK
<1> USE DEF dispatch, outcome, frame, jobs, vars
<1>2. ASSUME Async, phase \in {"collect", "cancel"}, NEW i \in Items
      PROVE  Job1(i) \in Job /\ (item[Job1(i)] \in {"ok", "error"} => item'[Job1(i)] = item[Job1(i)])
  BY <1>0, <1>2, JobFacts, ItemMoves DEF Untouched, Moves
<1>3. ASSUME UNCHANGED <<block, n, landed>>, phase' \in {"collect", "cancel"} => phase \in {"collect", "cancel"}
      PROVE  LandedOnce'
  <2>1. Items' = Items /\ \A i : Job1(i)' = Job1(i)
    BY <1>3 DEF Items, Job1
  <2>2. Async' = Async
    BY DEF Async
  <2> QED BY <1>0, <1>2, <1>3, <2>1, <2>2 DEF LandedOnce, Job1
<1>4. ASSUME ~Async \/ phase' \notin {"collect", "cancel"} PROVE LandedOnce'
  BY <1>4 DEF LandedOnce, Async
<1>5. CASE Reserve
  <2>1. CASE phase' \in {"collect", "cancel"}
    <3>1. landed' = << >>
      BY <1>5, <2>1 DEF Reserve, Dispatch
    <3> QED BY <3>1, EmptySeq DEF LandedOnce
  <2> QED BY <1>4, <2>1
<1>6. CASE Submitted
  BY <1>0, <1>4, <1>6 DEF Submitted, Dispatched
<1>7. ASSUME NEW i \in 1..MaxItems, Land(i) PROVE LandedOnce'
  <2>1. /\ Len(landed') = Len(landed) + 1
        /\ \A k \in 1..Len(landed) : landed'[k] = landed[k]
        /\ landed'[Len(landed) + 1] = i
    BY <1>1, <1>7, AppendProperties DEF Land
  <2>2. \A k \in 1..(Len(landed) + 1) : k \in 1..Len(landed) \/ k = Len(landed) + 1
    BY <1>1
  <2>3. UNCHANGED <<phase, block, n, item>> /\ Async /\ phase = "collect" /\ i \in Items
        /\ item[Job1(i)] \in {"ok", "error"}
    BY <1>7 DEF Land
  <2>4. \A k \in 1..Len(landed) : landed[k] # i
    BY <1>7 DEF Land, Admitted
  <2>5. \A k \in 1..Len(landed) : landed[k] \in Items /\ item[Job1(landed[k])] \in {"ok", "error"}
    BY <1>0, <2>3 DEF LandedOnce
  <2>6. \A k, l \in 1..Len(landed) : landed[k] = landed[l] => k = l
    BY <1>0, <2>3 DEF LandedOnce
  <2>7. \A k \in 1..(Len(landed) + 1) : landed'[k] \in Items /\ item[Job1(landed'[k])] \in {"ok", "error"}
    BY <2>1, <2>2, <2>3, <2>5
  <2>8. \A k, l \in 1..(Len(landed) + 1) : landed'[k] = landed'[l] => k = l
    BY <2>1, <2>2, <2>4, <2>6
  <2>9. \A i_1 : Job1(i_1)' = Job1(i_1)
    BY <2>3 DEF Job1
  <2> QED BY <2>1, <2>3, <2>7, <2>8 DEF LandedOnce, Items, Job1
<1>8. CASE \/ NoItems \/ RefuseBlock \/ NotAList \/ CloseRun \/ InlineEnd \/ Refund
           \/ Submit \/ InlineStart \/ InlineCollect
  BY <1>4, <1>8 DEF NoItems, RefuseBlock, NotAList, CloseRun, InlineEnd, Refund, Submit,
                    InlineStart, InlineCollect
<1>9. CASE Collect \/ CollectFailure \/ \E i \in 1..MaxItems : Cancel(i)
  BY <1>3, <1>9 DEF Collect, CollectFailure, Cancel, AtTurn
<1>10. CASE (\E k \in 0..MaxItems : Begin(k))
  BY <1>4, <1>10 DEF Begin
<1>11. CASE Finished \/ \E i \in 1..MaxItems : Admit(i)
  BY <1>3, <1>11 DEF Finished, Admit
<1>12. ASSUME NEW j \in Job, Work(j) PROVE LandedOnce'
  BY <1>3, <1>12, WorkIsWorkerStep DEF WorkerStep
<1> QED BY <1>5, <1>6, <1>7, <1>8, <1>9, <1>10, <1>11, <1>12 DEF Next, Main, EventLoop

\* A step that leaves the executing thread where it is leaves what it knows.
LEMMA QuietDispatched ==
  ASSUME IInv, Next,
         UNCHANGED <<phase, block, n, next, landed, answer, result, todo>>,
         \A j \in Job : item[j] = "new" => item'[j] = "new"
  PROVE  Dispatched'
<1>0. TypeOK /\ Untouched /\ Dispatched /\ LandedOnce
  BY DEF IInv
<1>1. Items' = Items /\ (Async' = Async) /\ \A i : Job1(i)' = Job1(i)
  BY DEF Items, Async, Job1
<1>2. ASSUME NEW i \in Items
      PROVE  /\ item[Job1(i)] \in {"ok", "error"} => item'[Job1(i)] = item[Job1(i)]
             /\ phase # "idle" /\ item[Job1(i)] = "new" => item'[Job1(i)] = "new"
  <2>1. Job1(i) \in Job
    BY <1>0, <1>2, JobFacts DEF Untouched, Items
  <2> QED BY <2>1, ItemMoves DEF Moves
<1>3. Full => Full'
  BY <1>1, <1>2 DEF Full
<1>4. \A i \in Items : Collected(i) => Collected(i)'
  BY <1>1, <1>2 DEF Collected
<1>5. phase \in {"project", "submit", "collect", "cancel", "inline"} =>
        result' \in [Items' -> {None} \cup (1..MaxItems)]
  BY <1>0, <1>1 DEF Dispatched
<1>6. phase = "submit" => ~Async' /\ next' \in 1..(n' + 1) /\ \A i \in next'..n' : item'[Job1(i)'] = "new"
  <2> SUFFICES ASSUME phase = "submit"
               PROVE  ~Async' /\ next' \in 1..(n' + 1) /\ \A i \in next'..n' : item'[Job1(i)'] = "new"
    OBVIOUS
  <2>1. ~Async /\ next \in 1..(n + 1) /\ \A i \in next..n : item[Job1(i)] = "new"
    BY <1>0 DEF Dispatched
  <2>2. \A i \in next..n : i \in Items
    BY <1>0, <2>1 DEF Items, TypeOK
  <2> QED BY <1>1, <1>2, <2>1, <2>2
<1>7. phase = "collect" /\ ~Async =>
        next' \in 1..(n' + 1) /\ \A i \in 1..(next' - 1) : Collected(i)'
  <2> SUFFICES ASSUME phase = "collect", ~Async
               PROVE  next' \in 1..(n' + 1) /\ \A i \in 1..(next' - 1) : Collected(i)'
    OBVIOUS
  <2>1. next \in 1..(n + 1) /\ \A i \in 1..(next - 1) : Collected(i)
    BY <1>0 DEF Dispatched
  <2>2. \A i \in 1..(next - 1) : i \in Items
    BY <1>0, <2>1 DEF Items, TypeOK
  <2> QED BY <1>4, <2>1, <2>2
<1>8. phase = "collect" /\ Async =>
        next' \in 1..(Len(landed') + 1) /\ \A k \in 1..(next' - 1) : Collected(landed[k])'
  <2> SUFFICES ASSUME phase = "collect", Async
               PROVE  next' \in 1..(Len(landed') + 1) /\ \A k \in 1..(next' - 1) : Collected(landed[k])'
    OBVIOUS
  <2>1. next \in 1..(Len(landed) + 1) /\ \A k \in 1..(next - 1) : Collected(landed[k])
    BY <1>0 DEF Dispatched
  <2>2. \A k \in 1..(next - 1) : landed[k] \in Items
    BY <1>0, <2>1, LenProperties DEF LandedOnce, TypeOK
  <2> QED BY <1>1, <1>2, <2>1, <2>2 DEF Collected
<1>9. phase = "inline" =>
        /\ next' \in 1..(n' + 1)
        /\ \A i \in 1..(next' - 1) : Collected(i)'
        /\ \A i \in (next' + 1)..n' : item'[Job1(i)'] = "new"
  <2> SUFFICES ASSUME phase = "inline"
               PROVE  /\ next' \in 1..(n' + 1)
                      /\ \A i \in 1..(next' - 1) : Collected(i)'
                      /\ \A i \in (next' + 1)..n' : item'[Job1(i)'] = "new"
    OBVIOUS
  <2>1. /\ next \in 1..(n + 1)
        /\ \A i \in 1..(next - 1) : Collected(i)
        /\ \A i \in (next + 1)..n : item[Job1(i)] = "new"
    BY <1>0 DEF Dispatched
  <2>2. (\A i \in 1..(next - 1) : i \in Items) /\ (\A i \in (next + 1)..n : i \in Items)
    BY <1>0, <2>1 DEF Items, TypeOK
  <2> QED BY <1>1, <1>2, <1>4, <2>1, <2>2
<1>10. phase \in {"submit", "collect"} => todo' = Items'
  BY <1>0, <1>1 DEF Dispatched
<1>11. /\ phase = "cancel" => answer' = Failure
       /\ phase = "refund" => answer' = Failure \/ Full'
       /\ phase = "idle" => answer' \in {None, Failure} \/ Full'
  BY <1>0, <1>3 DEF Dispatched
<1> QED BY <1>1, <1>5, <1>6, <1>7, <1>8, <1>9, <1>10, <1>11 DEF Dispatched
LEMMA StepDispatched ==
  ASSUME IInv, Next
  PROVE  Dispatched'
<1>0. TypeOK /\ Untouched /\ Dispatched /\ LandedOnce
  BY DEF IInv
<1>n. /\ n \in Nat /\ next \in Nat /\ Len(landed) \in Nat
  BY <1>0, LenProperties DEF TypeOK
<1>i. ASSUME UNCHANGED <<block, n>>
      PROVE  Items' = Items /\ \A i : Job1(i)' = Job1(i)
  BY <1>i DEF Items, Job1
<1>a. Async' = Async
  BY DEF Async
<1> USE DEF dispatch, outcome, frame, jobs, vars
<1>1. ASSUME NEW k \in 0..MaxItems, Begin(k) PROVE Dispatched'
  <2>1. result' = [i \in Items' |-> None]
    BY <1>1 DEF Begin, Items
  <2> QED BY <1>1, <2>1 DEF Begin, Dispatched
<1>2. CASE NoItems
  <2>1. Items' = {} /\ answer' = << >> /\ phase' = "idle"
    BY <1>2 DEF NoItems, Items
  <2>2. answer' = [i \in Items' |-> i]
    BY <2>1
  <2>3. Full'
    BY <2>1, <2>2 DEF Full
  <2> QED BY <2>1, <2>3 DEF Dispatched
<1>3. CASE RefuseBlock \/ NotAList
  BY <1>3 DEF RefuseBlock, NotAList, Dispatched
<1>4. CASE Reserve
  <2>1. UNCHANGED <<block, n, result>> /\ phase = "project" /\ n > 0 /\ next' = 1
    BY <1>4 DEF Reserve, Dispatch
  <2>2. \A i \in Items : item[Job1(i)] = "new"
    BY <1>0, <2>1, JobFacts DEF Untouched, Items
  <2>3. result' \in [Items' -> {None} \cup (1..MaxItems)]
    BY <1>0, <1>i, <2>1 DEF Dispatched
  <2>4. CASE phase' = "inline" /\ UNCHANGED item
    <3>1. \A i \in Items : item'[Job1(i)'] = "new"
      BY <1>i, <2>1, <2>2, <2>4
    <3>2. \A i \in 2..n : i \in Items
      BY <1>n DEF Items
    <3>3. 1 \in 1..(n + 1) /\ 1 - 1 = 0 /\ 1 + 1 = 2 /\ 1..0 = {}
      BY <1>n
    <3> QED BY <2>1, <2>3, <2>4, <3>1, <3>2, <3>3 DEF Dispatched
  <2>5. CASE phase' = "collect" /\ Async /\ landed' = << >> /\ todo' = Items
    <3>1. Len(landed') = 0
      BY <2>5, EmptySeq
    <3> QED BY <1>a, <1>i, <2>1, <2>3, <2>5, <3>1 DEF Dispatched
  <2>6. CASE phase' = "submit" /\ ~Async /\ todo' = Items /\ UNCHANGED item
    <3>1. \A i \in 1..n : item'[Job1(i)'] = "new"
      BY <1>i, <2>1, <2>2, <2>6 DEF Items
    <3> QED BY <1>a, <1>i, <1>n, <2>1, <2>3, <2>6, <3>1 DEF Dispatched
  <2> QED BY <1>4, <2>4, <2>5, <2>6 DEF Reserve, Dispatch
<1>5. CASE Submit
  <2>1. UNCHANGED <<phase, block, n, result, todo>> /\ phase = "submit" /\ next' = next + 1
        /\ next <= n /\ item' = [item EXCEPT ![Job1(next)] = "queued"]
    BY <1>5 DEF Submit
  <2>2. ~Async /\ next \in 1..(n + 1) /\ \A i \in next..n : item[Job1(i)] = "new"
    BY <1>0, <2>1 DEF Dispatched
  <2>3. ASSUME NEW i \in (next + 1)..n PROVE item'[Job1(i)] = "new"
    <3>1. i \in Items /\ i # next /\ i \in next..n /\ next \in Items
      BY <1>n, <2>2, <2>3 DEF Items
    <3>2. Job1(i) \in Job /\ Job1(i) # Job1(next)
      BY <1>0, <2>1, <3>1, JobFacts DEF Untouched
    <3> QED BY <1>0, <2>1, <2>2, <3>1, <3>2 DEF TypeOK
  <2>4. next + 1 \in 1..(n + 1)
    BY <1>n, <2>1, <2>2
  <2>5. result' \in [Items' -> {None} \cup (1..MaxItems)] /\ todo' = Items'
    BY <1>0, <1>i, <2>1 DEF Dispatched
  <2> QED BY <1>a, <1>i, <2>1, <2>2, <2>3, <2>4, <2>5 DEF Dispatched
<1>6. CASE Submitted
  <2>1. /\ UNCHANGED <<block, n, result, todo>> /\ next' = 1 /\ phase' = "collect"
        /\ phase = "submit" /\ ~Async
    BY <1>0, <1>6 DEF Submitted, Dispatched
  <2>2. result' \in [Items' -> {None} \cup (1..MaxItems)] /\ todo' = Items'
    BY <1>0, <1>i, <2>1 DEF Dispatched
  <2>3. 1 \in 1..(n + 1) /\ 1..(1 - 1) = {}
    BY <1>n
  <2> QED BY <1>a, <2>1, <2>2, <2>3 DEF Dispatched
<1>7. CASE Collect
  <2>1. /\ UNCHANGED <<phase, block, n, todo, landed, item>> /\ phase = "collect" /\ next' = next + 1
        /\ result' = [result EXCEPT ![Turn] = Turn] /\ item[Job1(Turn)] = "ok" /\ AtTurn
    BY <1>7 DEF Collect, AtTurn
  <2>2. Turn \in Items /\ Turn \in 1..MaxItems
    BY <1>0, <2>1, TurnFacts, JobFacts
  <2>3. result \in [Items -> {None} \cup (1..MaxItems)] /\ todo = Items
    BY <1>0, <2>1 DEF Dispatched
  <2>4. result' \in [Items' -> {None} \cup (1..MaxItems)] /\ todo' = Items'
    BY <1>i, <2>1, <2>2, <2>3
  <2>5. ASSUME NEW i \in Items, i = Turn \/ Collected(i) PROVE Collected(i)'
    BY <1>i, <2>1, <2>2, <2>3, <2>5 DEF Collected
  <2>6. CASE Async
    <3>1. next \in 1..Len(landed) /\ landed[next] = Turn
      BY <1>0, <2>1, <2>6, TurnFacts
    <3>2. \A k \in 1..(next - 1) : Collected(landed[k])
      BY <1>0, <2>1, <2>6 DEF Dispatched
    <3>3. \A k \in 1..next : (k \in 1..(next - 1) \/ k = next) /\ k \in 1..Len(landed)
      BY <1>n, <3>1
    <3>4. \A k \in 1..next : landed[k] \in Items
      BY <1>0, <2>1, <2>6, <3>3 DEF LandedOnce
    <3>5. \A k \in 1..next : Collected(landed[k])'
      <4> SUFFICES ASSUME NEW k \in 1..next PROVE Collected(landed[k])'
        OBVIOUS
      <4>1. PICK i \in Items : i = landed[k]
        BY <3>4
      <4>2. Collected(i)'
        BY <2>5, <3>1, <3>2, <3>3, <4>1
      <4> QED BY <2>1, <4>1, <4>2 DEF Collected
    <3>6. next' \in 1..(Len(landed') + 1) /\ next' - 1 = next
      BY <1>n, <2>1, <3>1
    <3> QED BY <1>a, <2>1, <2>4, <2>6, <3>5, <3>6 DEF Dispatched
  <2>7. CASE ~Async
    <3>1. next \in 1..n /\ next = Turn
      BY <1>0, <2>1, <2>7, TurnFacts DEF Items
    <3>2. \A i \in 1..(next - 1) : Collected(i)
      BY <1>0, <2>1, <2>7 DEF Dispatched
    <3>3. \A i \in 1..next : (i \in 1..(next - 1) \/ i = Turn) /\ i \in Items
      BY <1>n, <3>1 DEF Items
    <3>4. \A i \in 1..next : Collected(i)'
      BY <2>5, <3>2, <3>3
    <3>5. next' \in 1..(n' + 1) /\ next' - 1 = next
      BY <1>n, <2>1, <3>1
    <3> QED BY <1>a, <2>1, <2>4, <2>7, <3>4, <3>5 DEF Dispatched
  <2> QED BY <2>6, <2>7
<1>8. CASE CollectFailure
  <2>1. UNCHANGED <<block, n, result>> /\ phase = "collect" /\ phase' = "cancel" /\ answer' = Failure
    BY <1>8 DEF CollectFailure, AtTurn
  <2>2. result' \in [Items' -> {None} \cup (1..MaxItems)]
    BY <1>0, <1>i, <2>1 DEF Dispatched
  <2> QED BY <2>1, <2>2 DEF Dispatched
<1>9. ASSUME NEW i \in 1..MaxItems, Cancel(i) PROVE Dispatched'
  <2>1. UNCHANGED <<phase, block, n, result, answer>> /\ phase = "cancel"
    BY <1>9 DEF Cancel
  <2>2. result' \in [Items' -> {None} \cup (1..MaxItems)] /\ answer' = Failure
    BY <1>0, <1>i, <2>1 DEF Dispatched
  <2> QED BY <2>1, <2>2 DEF Dispatched
<1>10. CASE CloseRun
  <2>1. UNCHANGED <<block, n, item>> /\ phase' = "refund" /\ answer' = IF phase = "collect" THEN result ELSE answer
    BY <1>10 DEF CloseRun
  <2>2. CASE phase = "collect" /\ next > n
    <3>1. result = [i \in Items |-> i] /\ \A i \in Items : item[Job1(i)] = "ok"
      BY <1>0, <2>2, AllCollected
    <3>2. Full'
      BY <1>i, <2>1, <2>2, <3>1 DEF Full
    <3> QED BY <2>1, <3>2 DEF Dispatched
  <2>3. CASE phase = "cancel"
    BY <1>0, <2>1, <2>3 DEF Dispatched
  <2> QED BY <1>10, <2>2, <2>3 DEF CloseRun
<1>11. CASE InlineStart
  <2>1. /\ UNCHANGED <<phase, block, n, result, next>> /\ phase = "inline" /\ next <= n
        /\ item' = [item EXCEPT ![Job1(next)] = "body"] /\ item[Job1(next)] = "new"
    BY <1>11 DEF InlineStart
  <2>2. /\ next \in 1..(n + 1)
        /\ \A i \in 1..(next - 1) : Collected(i)
        /\ \A i \in (next + 1)..n : item[Job1(i)] = "new"
        /\ result' \in [Items' -> {None} \cup (1..MaxItems)]
    BY <1>0, <1>i, <2>1 DEF Dispatched
  <2>3. ASSUME NEW i \in Items, i # next PROVE item'[Job1(i)] = item[Job1(i)]
    <3>1. Job1(i) \in Job /\ Job1(i) # Job1(next)
      BY <1>0, <2>1, <2>3, JobFacts DEF Untouched
    <3> QED BY <1>0, <2>1, <3>1 DEF TypeOK
  <2>4. /\ \A i \in 1..(next - 1) : i \in Items /\ i # next
        /\ \A i \in (next + 1)..n : i \in Items /\ i # next
    BY <1>n, <2>2 DEF Items
  <2>5. \A i \in 1..(next - 1) : Collected(i)'
    BY <1>i, <2>1, <2>2, <2>3, <2>4 DEF Collected
  <2>6. \A i \in (next + 1)..n : item'[Job1(i)'] = "new"
    BY <1>i, <2>1, <2>2, <2>3, <2>4
  <2> QED BY <2>1, <2>2, <2>5, <2>6 DEF Dispatched
<1>12. CASE InlineCollect
  <2>1. /\ UNCHANGED <<phase, block, n, item>> /\ phase = "inline" /\ next <= n
        /\ item[Job1(next)] = "ok" /\ result' = [result EXCEPT ![next] = next] /\ next' = next + 1
    BY <1>12 DEF InlineCollect
  <2>2. /\ next \in 1..(n + 1)
        /\ \A i \in 1..(next - 1) : Collected(i)
        /\ \A i \in (next + 1)..n : item[Job1(i)] = "new"
        /\ result \in [Items -> {None} \cup (1..MaxItems)]
    BY <1>0, <2>1 DEF Dispatched
  <2>3. next \in Items /\ next \in 1..MaxItems /\ next' \in 1..(n' + 1) /\ next' - 1 = next
    BY <1>0, <1>n, <2>1, <2>2, JobFacts DEF Items
  <2>4. /\ \A i \in 1..next : (i \in 1..(next - 1) \/ i = next) /\ i \in Items
        /\ \A i \in (next' + 1)..n : i \in (next + 1)..n
    BY <1>n, <2>1, <2>2 DEF Items
  <2>5. \A i \in 1..next : Collected(i)'
    BY <1>i, <2>1, <2>2, <2>3, <2>4 DEF Collected
  <2>6. result' \in [Items' -> {None} \cup (1..MaxItems)]
    BY <1>i, <2>1, <2>2, <2>3
  <2>7. \A i \in (next' + 1)..n' : item'[Job1(i)'] = "new"
    BY <1>i, <2>1, <2>2, <2>4
  <2> QED BY <2>1, <2>3, <2>5, <2>6, <2>7 DEF Dispatched
<1>13. CASE InlineEnd
  <2>1. UNCHANGED <<block, n, item>> /\ phase' = "refund" /\ phase = "inline"
    BY <1>13 DEF InlineEnd
  <2>2. CASE next > n /\ answer' = result
    <3>1. /\ \A i \in Items : i \in 1..(next - 1)
      BY <1>n, <2>2 DEF Items
    <3>2. \A i \in Items : Collected(i)
      BY <1>0, <2>1, <3>1 DEF Dispatched
    <3>3. result \in [Items -> {None} \cup (1..MaxItems)]
      BY <1>0, <2>1 DEF Dispatched
    <3>4. Full'
      BY <1>i, <2>1, <2>2, <3>2, <3>3 DEF Full, Collected
    <3> QED BY <2>1, <3>4 DEF Dispatched
  <2>3. CASE answer' = Failure
    BY <2>1, <2>3 DEF Dispatched
  <2> QED BY <1>13, <2>2, <2>3 DEF InlineEnd
<1>14. CASE Refund
  <2>1. UNCHANGED <<block, n, item, answer>> /\ phase' = "idle" /\ phase = "refund"
    BY <1>14 DEF Refund
  <2>2. Full => Full'
    BY <1>i, <2>1 DEF Full
  <2> QED BY <1>0, <2>1, <2>2 DEF Dispatched
<1>15. ASSUME NEW i \in 1..MaxItems, Admit(i) PROVE Dispatched'
  <2>1. UNCHANGED <<phase, block, n, next, landed, answer, result, todo>>
    BY <1>15 DEF Admit
  <2>2. \A j \in Job : item[j] = "new" => item'[j] = "new"
    BY <1>0, <1>15 DEF Admit, TypeOK
  <2> QED BY <2>1, <2>2, QuietDispatched
<1>16. ASSUME NEW i \in 1..MaxItems, Land(i) PROVE Dispatched'
  <2>1. UNCHANGED <<phase, block, n, next, item, result, todo>> /\ Async /\ phase = "collect"
        /\ landed' = Append(landed, i)
    BY <1>16 DEF Land
  <2>2. Len(landed') = Len(landed) + 1 /\ \A k \in 1..Len(landed) : landed'[k] = landed[k]
    BY <1>0, <2>1, AppendProperties DEF TypeOK
  <2>3. /\ next \in 1..(Len(landed) + 1) /\ \A k \in 1..(next - 1) : Collected(landed[k])
        /\ result \in [Items -> {None} \cup (1..MaxItems)] /\ todo = Items
    BY <1>0, <2>1 DEF Dispatched
  <2>4. \A k \in 1..(next - 1) : k \in 1..Len(landed)
    BY <1>n, <2>3
  <2>5. next' \in 1..(Len(landed') + 1)
    BY <1>n, <2>1, <2>2, <2>3
  <2>6. \A k \in 1..(next' - 1) : Collected(landed[k])'
    BY <1>i, <2>1, <2>2, <2>3, <2>4 DEF Collected
  <2> QED BY <1>a, <1>i, <2>1, <2>3, <2>5, <2>6 DEF Dispatched
<1>17. ASSUME NEW j \in Job, Work(j) PROVE Dispatched'
  <2>1. WorkerStep(j)
    BY <1>17, WorkIsWorkerStep
  <2>2. \A k \in Job : item[k] = "new" => item'[k] = "new"
    BY <1>0, <2>1 DEF WorkerStep, Busy, TypeOK
  <2> QED BY <2>1, <2>2, QuietDispatched DEF WorkerStep
<1>18. CASE Finished
  BY <1>18, QuietDispatched DEF Finished
<1> QED BY <1>1, <1>2, <1>3, <1>4, <1>5, <1>6, <1>7, <1>8, <1>9, <1>10, <1>11, <1>12, <1>13, <1>14,
           <1>15, <1>16, <1>17, <1>18 DEF Next, Main, EventLoop
\* Without asyncio: a step of a worker, or of nobody, inside a phase.
LEMMA QuietLanding ==
  ASSUME IInv, Next, ~Async,
         UNCHANGED <<phase, block, n, next, answer, todo>>,
         \A j \in Job : /\ item'[j] \in Busy => item[j] \in Busy \cup {"queued"}
                        /\ item'[j] = "queued" => item[j] = "queued"
  PROVE  Landing'
<1>0. TypeOK /\ Untouched /\ Landing
  BY DEF IInv
<1>1. Items' = Items /\ (Async' = Async) /\ \A i : Job1(i)' = Job1(i)
  BY DEF Items, Async, Job1
<1>2. ASSUME NEW i \in Items
      PROVE  /\ item[Job1(i)] \in {"ok", "error"} => item'[Job1(i)] = item[Job1(i)]
             /\ item'[Job1(i)] \in Busy => item[Job1(i)] \in Busy \cup {"queued"}
             /\ item'[Job1(i)] = "queued" => item[Job1(i)] = "queued"
             /\ item'[Job1(i)] = "waiting" => item[Job1(i)] = "waiting"
  <2>1. Job1(i) \in Job
    <3>1. n > 0
      BY <1>0, <1>2 DEF Items, TypeOK
    <3> QED BY <1>0, <1>2, <3>1, JobFacts DEF Untouched
  <2> QED BY <2>1, ItemMoves DEF Moves
<1>3. \A i \in Items : item'[Job1(i)'] # "waiting"
  BY <1>0, <1>1, <1>2 DEF Landing
<1>4. phase = "inline" => \A i \in Items : item'[Job1(i)'] # "queued" /\ (item'[Job1(i)'] \in Busy => i = next)
  BY <1>0, <1>1, <1>2 DEF Landing
<1>5. phase = "cancel" =>
         /\ \E i \in Items : item'[Job1(i)'] = "error"
         /\ \A i \in Items \ todo : item'[Job1(i)'] # "queued"
  BY <1>0, <1>1, <1>2 DEF Landing
<1>6. phase \in {"refund", "idle"} => \A i \in Items : item'[Job1(i)'] \notin Busy \cup {"queued"}
  BY <1>0, <1>1, <1>2 DEF Landing
<1>7. phase = "refund" => (answer = Failure /\ \E i \in Items : item'[Job1(i)'] = "error") \/ Full'
  BY <1>0, <1>1, <1>2 DEF Landing, Full
<1> QED BY <1>1, <1>3, <1>4, <1>5, <1>6, <1>7 DEF Landing

LEMMA StepLanding ==
  ASSUME IInv, Next
  PROVE  Landing'
<1>0. TypeOK /\ Untouched /\ Dispatched /\ LandedOnce /\ Landing
  BY DEF IInv
<1>a. Async' = Async
  BY DEF Async
<1> SUFFICES ASSUME ~Async PROVE Landing'
  BY <1>a DEF Landing
<1>n. n \in Nat /\ next \in Nat
  BY <1>0 DEF TypeOK
<1>i. ASSUME UNCHANGED <<block, n>>
      PROVE  Items' = Items /\ \A i : Job1(i)' = Job1(i)
  BY <1>i DEF Items, Job1
<1>j. \A i \in Items : Job1(i) \in Job
  <2> SUFFICES ASSUME NEW i \in Items PROVE Job1(i) \in Job
    OBVIOUS
  <2>1. n > 0
    BY <1>n DEF Items
  <2> QED BY <1>0, <2>1, JobFacts DEF Untouched
<1>w. \A i \in Items : item[Job1(i)] # "waiting"
  BY <1>0 DEF Landing
<1> USE DEF dispatch, outcome, frame, jobs, vars
<1>1. ASSUME NEW k \in 0..MaxItems, Begin(k) PROVE Landing'
  <2>1. ASSUME NEW i \in Items' PROVE item'[Job1(i)'] = "new"
    <3>1. Job1(i)' \in Job /\ Job1(i)'[1] = block + 1 /\ i \in 1..MaxItems
      BY <1>0, <1>1, <2>1, ParallelAssumption DEF Begin, Items, Job1, Job, TypeOK
    <3>2. block + 1 > block
      BY <1>0 DEF TypeOK
    <3>3. item[Job1(i)'] = "new"
      BY <1>0, <3>1, <3>2 DEF Untouched
    <3> QED BY <1>1, <3>3 DEF Begin
  <2>2. phase' = "project"
    BY <1>1 DEF Begin
  <2> QED BY <2>1, <2>2 DEF Landing
<1>2. CASE NoItems
  <2>1. Items' = {} /\ phase' = "idle"
    BY <1>2 DEF NoItems, Items
  <2> QED BY <2>1 DEF Landing
<1>3. CASE RefuseBlock \/ NotAList
  <2>1. UNCHANGED <<block, n, item>> /\ phase' = "idle" /\ phase = "project"
    BY <1>3 DEF RefuseBlock, NotAList
  <2>2. \A i \in Items : item'[Job1(i)'] = "new"
    BY <1>0, <1>i, <1>j, <2>1, JobFacts DEF Untouched
  <2> QED BY <1>i, <2>1, <2>2 DEF Landing, Busy
<1>4. CASE Reserve
  <2>1. UNCHANGED <<block, n, item>> /\ phase = "project" /\ phase' \in {"inline", "submit"}
    BY <1>4 DEF Reserve, Dispatch
  <2>2. \A i \in Items : item'[Job1(i)'] = "new"
    BY <1>0, <1>i, <1>j, <2>1, JobFacts DEF Untouched
  <2> QED BY <1>i, <2>1, <2>2 DEF Landing, Busy
<1>5. CASE Submit
  <2>1. UNCHANGED <<phase, block, n>> /\ phase = "submit" /\ item' = [item EXCEPT ![Job1(next)] = "queued"]
    BY <1>5 DEF Submit
  <2>2. \A i \in Items : item'[Job1(i)'] # "waiting"
    BY <1>0, <1>i, <1>j, <1>w, <2>1 DEF TypeOK
  <2> QED BY <1>i, <2>1, <2>2 DEF Landing
<1>6. CASE Submitted \/ Collect
  <2>1. UNCHANGED <<block, n, item>> /\ phase' = "collect"
    BY <1>6 DEF Submitted, Collect, AtTurn
  <2> QED BY <1>i, <1>w, <2>1 DEF Landing
<1>7. CASE CollectFailure
  <2>1. UNCHANGED <<block, n, item, todo>> /\ phase = "collect" /\ phase' = "cancel"
        /\ item[Job1(Turn)] = "error" /\ AtTurn
    BY <1>7 DEF CollectFailure, AtTurn
  <2>2. Turn \in Items /\ todo = Items
    BY <1>0, <2>1, TurnFacts DEF Dispatched
  <2> QED BY <1>i, <1>w, <2>1, <2>2 DEF Landing
<1>8. ASSUME NEW i \in 1..MaxItems, Cancel(i) PROVE Landing'
  <2>1. UNCHANGED <<phase, block, n>> /\ phase = "cancel" /\ todo' = todo \ {i}
        /\ item' = [item EXCEPT ![Job1(i)] = IF item[Job1(i)] \in {"waiting", "queued"} THEN "cancelled"
                                              ELSE item[Job1(i)]]
    BY <1>8 DEF Cancel
  <2>2. \A k \in Items : item'[Job1(k)] = item[Job1(k)]
                          \/ (item[Job1(k)] \in {"waiting", "queued"} /\ item'[Job1(k)] = "cancelled")
    BY <1>0, <1>j, <2>1 DEF TypeOK
  <2>3. \A k \in Items \ todo' : item'[Job1(k)] # "queued"
    <3>1. \A k \in Items \ todo : item'[Job1(k)] # "queued"
      BY <1>0, <2>1, <2>2 DEF Landing
    <3>2. i \in Items => item'[Job1(i)] # "queued"
      BY <1>0, <1>j, <2>1 DEF TypeOK
    <3> QED BY <2>1, <3>1, <3>2
  <2>4. \E k \in Items : item'[Job1(k)] = "error"
    BY <1>0, <2>1, <2>2 DEF Landing
  <2> QED BY <1>i, <1>w, <2>1, <2>2, <2>3, <2>4 DEF Landing
<1>9. CASE CloseRun
  <2>1. UNCHANGED <<block, n, item>> /\ phase' = "refund" /\ Running(block) = {}
        /\ answer' = IF phase = "collect" THEN result ELSE answer
    BY <1>9 DEF CloseRun
  <2>2. \A i \in Items : item[Job1(i)] \notin Busy
    BY <1>0, <1>j, <2>1, JobFacts DEF Running
  <2>3. CASE phase = "collect" /\ next > n
    <3>1. result = [i \in Items |-> i] /\ \A i \in Items : item[Job1(i)] = "ok"
      BY <1>0, <2>3, AllCollected
    <3>2. Full'
      BY <1>i, <2>1, <2>3, <3>1 DEF Full
    <3> QED BY <1>i, <2>1, <3>1, <3>2 DEF Landing, Busy
  <2>4. CASE phase = "cancel" /\ todo = {}
    <3>1. /\ answer = Failure /\ \E i \in Items : item[Job1(i)] = "error"
          /\ \A i \in Items : item[Job1(i)] # "queued"
      BY <1>0, <2>4 DEF Dispatched, Landing
    <3> QED BY <1>i, <1>w, <2>1, <2>2, <2>4, <3>1 DEF Landing
  <2> QED BY <1>9, <2>3, <2>4 DEF CloseRun
<1>10. CASE InlineStart
  <2>1. /\ UNCHANGED <<phase, block, n, next>> /\ phase = "inline" /\ next <= n
        /\ item' = [item EXCEPT ![Job1(next)] = "body"] /\ item[Job1(next)] = "new"
    BY <1>10 DEF InlineStart
  <2>2. \A i \in Items : item'[Job1(i)] = item[Job1(i)] \/ (i = next /\ item'[Job1(i)] = "body")
    BY <1>0, <1>j, <2>1, JobFacts DEF TypeOK
  <2>3. \A i \in Items : item[Job1(i)] # "queued" /\ (item[Job1(i)] \in Busy => i = next)
    BY <1>0, <2>1 DEF Landing
  <2> QED BY <1>i, <1>w, <2>1, <2>2, <2>3 DEF Landing
<1>11. CASE InlineCollect
  <2>1. /\ UNCHANGED <<phase, block, n, item>> /\ phase = "inline"
        /\ item[Job1(next)] = "ok"
    BY <1>11 DEF InlineCollect
  <2>2. \A i \in Items : item[Job1(i)] # "queued" /\ item[Job1(i)] \notin Busy
    BY <1>0, <2>1 DEF Landing, Busy
  <2> QED BY <1>i, <1>w, <2>1, <2>2 DEF Landing
<1>12. CASE InlineEnd
  <2>1. UNCHANGED <<block, n, item>> /\ phase' = "refund" /\ phase = "inline"
    BY <1>12 DEF InlineEnd
  <2>2. \A i \in Items : item[Job1(i)] # "queued" /\ (item[Job1(i)] \in Busy => i = next)
    BY <1>0, <2>1 DEF Landing
  <2>3. CASE next > n /\ answer' = result
    <3>1. \A i \in Items : i \in 1..(next - 1)
      BY <1>n, <2>3 DEF Items
    <3>2. \A i \in Items : Collected(i)
      BY <1>0, <2>1, <3>1 DEF Dispatched
    <3>3. result \in [Items -> {None} \cup (1..MaxItems)]
      BY <1>0, <2>1 DEF Dispatched
    <3>4. Full'
      BY <1>i, <2>1, <2>3, <3>2, <3>3 DEF Full, Collected
    <3>5. \A i \in Items : item[Job1(i)] = "ok"
      BY <3>2 DEF Collected
    <3> QED BY <1>i, <2>1, <3>4, <3>5 DEF Landing, Busy
  <2>4. CASE next <= n /\ item[Job1(next)] = "error" /\ answer' = Failure
    <3>1. next \in Items
      BY <2>1, <2>4, NextIsItem
    <3>2. \A i \in Items : item[Job1(i)] \notin Busy
      BY <2>2, <2>4 DEF Busy
    <3> QED BY <1>i, <1>w, <2>1, <2>2, <2>4, <3>1, <3>2 DEF Landing
  <2> QED BY <1>12, <2>3, <2>4 DEF InlineEnd
<1>13. CASE Refund
  <2>1. UNCHANGED <<block, n, item>> /\ phase' = "idle" /\ phase = "refund"
    BY <1>13 DEF Refund
  <2> QED BY <1>0, <1>i, <2>1 DEF Landing
<1>14. CASE EventLoop
  BY <1>14 DEF EventLoop, Admit, Land
<1>15. ASSUME NEW j \in Job, Work(j) PROVE Landing'
  <2>1. WorkerStep(j)
    BY <1>15, WorkIsWorkerStep
  <2>2. \A k \in Job : /\ item'[k] \in Busy => item[k] \in Busy \cup {"queued"}
                       /\ item'[k] = "queued" => item[k] = "queued"
    BY <1>0, <2>1 DEF WorkerStep, Busy, TypeOK
  <2> QED BY <2>1, <2>2, QuietLanding DEF WorkerStep
<1>16. CASE Finished
  BY <1>16, QuietLanding DEF Finished
<1> QED BY <1>1, <1>2, <1>3, <1>4, <1>5, <1>6, <1>7, <1>8, <1>9, <1>10, <1>11, <1>12, <1>13, <1>14,
           <1>15, <1>16 DEF Next, Main
-----------------------------------------------------------------------------
\* The invariant is inductive.
LEMMA NextIInv ==
  ASSUME IInv, Next
  PROVE  IInv'
<1>1. TypeOK'
  <2>1. CASE Finished
    BY <2>1 DEF Finished, vars, dispatch, outcome, frame, jobs, IInv, TypeOK
  <2> QED BY <2>1, MainTypeOK, OtherTypeOK DEF Next
<1>2. Books' /\ ProjectionIsObserved' /\ StoresAreHigh' /\ GensLeft'
  BY StepBooks
<1> QED BY <1>1, <1>2, StepUntouched, StepDispatched, StepLandedOnce, StepQueuedOnce, StepLanding DEF IInv

LEMMA StutterIInv ==
  ASSUME IInv, UNCHANGED vars
  PROVE  IInv'
<1> SUFFICES IInv'
  OBVIOUS
<1>1. UNCHANGED <<phase, block, n, reserved, next, todo, queue, landed, answer, result, item, price,
                  gens, worst, observed, limit, spent, charged>>
  BY DEF vars, dispatch, outcome, frame, jobs
<1>2. Items' = Items /\ Async' = Async /\ Full' = Full /\ \A i : Job1(i)' = Job1(i)
  BY <1>1 DEF Items, Async, Full, Job1
<1>3. TypeOK' /\ Books' /\ ProjectionIsObserved' /\ StoresAreHigh' /\ GensLeft' /\ Untouched'
  BY <1>1 DEF IInv, TypeOK, Books, ProjectionIsObserved, StoresAreHigh, GensLeft, Untouched
<1>4. Dispatched' /\ LandedOnce' /\ QueuedOnce' /\ Landing'
  BY <1>1, <1>2 DEF IInv, Dispatched, Collected, LandedOnce, QueuedOnce, Landing, Items, Async, Full, Job1
<1> QED BY <1>3, <1>4 DEF IInv

LEMMA Inductive == Spec => []IInv
<1>1. IInv /\ [Next]_vars => IInv'
  BY NextIInv, StutterIInv
<1> QED BY <1>1, InitIInv, PTL DEF Spec

-----------------------------------------------------------------------------
\* Every variable keeps its type, in particular the totals stay natural numbers: a
\* refund never takes more out of the frame than the block had reserved.
THEOREM TypesHold == Spec => []TypeOK
<1>1. IInv => TypeOK
  BY DEF IInv
<1> QED BY <1>1, Inductive, PTL

\* Between blocks the frame holds exactly what generations were charged, whatever
\* threads of earlier blocks are still doing: do_par's finally clause refunds on
\* every way out.
THEOREM ReservationComesBack == Spec => []ReservationReturned
<1>1. IInv => ReservationReturned
  BY DEF IInv, Books, ReservationReturned, TypeOK
<1> QED BY <1>1, Inductive, PTL

\* However iterations end, land and are collected, a block that answers with results
\* answers the result of item i in place i, one from every item.
THEOREM OrderIsKept == Spec => []ResultsInOrder
<1>1. IInv => ResultsInOrder
  BY DEF IInv, Dispatched, Full, ResultsInOrder
<1> QED BY <1>1, Inductive, PTL

\* However threads are preempted between the comparison and the store of
\* m.worst_gen_cost, the projection stays between its seed and the largest price paid;
\* it is that price when they are not.
THEOREM ProjectionStaysObserved == Spec => []ProjectionIsObserved
<1>1. IInv => ProjectionIsObserved
  BY DEF IInv
<1> QED BY <1>1, Inductive, PTL
-----------------------------------------------------------------------------
\* The pool of threads implements Fanout, which sees the answer of a block once it
\* is closed.
Answered == IF phase = "idle" THEN answer ELSE None

\* What nobody outside the block sees.
LEMMA HiddenStep ==
  ASSUME UNCHANGED <<block, n, Answered>>, (phase # "idle") = (phase # "idle")',
         \A i \in Items : /\ item'[Job1(i)] \in Busy <=> item[Job1(i)] \in Busy
                          /\ item'[Job1(i)] = "ok" <=> item[Job1(i)] = "ok"
                          /\ item'[Job1(i)] = "error" <=> item[Job1(i)] = "error"
  PROVE  UNCHANGED F!fanoutVars
<1>1. Items' = Items /\ \A i : Job1(i)' = Job1(i)
  BY DEF Items, Job1
<1>2. {i \in Items : item[Job1(i)] \in Busy}' = {i \in Items : item[Job1(i)] \in Busy}
  BY <1>1
<1>3. {i \in Items : item[Job1(i)] = "ok"}' = {i \in Items : item[Job1(i)] = "ok"}
  BY <1>1
<1>4. {i \in Items : item[Job1(i)] = "error"}' = {i \in Items : item[Job1(i)] = "error"}
  BY <1>1
<1> QED BY <1>2, <1>3, <1>4 DEF F!fanoutVars, Answered

\* Fanout counts as this module does.
LEMMA SameCardinality == \A S : F!Cardinality(S) = Cardinality(S)
BY DEF F!Cardinality, Cardinality

\* Iterations of a block in flight are jobs its pool is running.
LEMMA FlyingIsRunning ==
  ASSUME IInv, block # 0, ~Async, Cardinality(Running(block)) < PoolSize
  PROVE  Cardinality({i \in Items : item[Job1(i)] \in Busy}) < Width
<1> DEFINE flying == {i \in Items : item[Job1(i)] \in Busy}
<1>0. TypeOK /\ Untouched
  BY DEF IInv
<1>1. n \in Nat /\ MaxBlocks \in Nat /\ MaxItems \in Nat /\ Width \in Nat
  BY <1>0, ParallelAssumption DEF TypeOK
<1>2. IsFiniteSet(Running(block)) /\ IsFiniteSet(flying)
  <2>1. IsFiniteSet(Job)
    <3>1. IsFiniteSet(1..MaxBlocks) /\ IsFiniteSet(1..MaxItems)
      BY <1>1, FS_Interval
    <3> QED BY <3>1, FS_Product DEF Job
  <2>2. IsFiniteSet(Items)
    BY <1>1, FS_Interval DEF Items
  <2>3. Running(block) \in SUBSET Job /\ flying \in SUBSET Items
    BY DEF Running
  <2> HIDE DEF flying
  <2> QED BY <2>1, <2>2, <2>3, FS_Subset
<1>3. \A i \in flying : Job1(i) \in Running(block) /\ Job1(i)[2] = i
  <2>1. \A i \in Items : Job1(i) \in Job
    <3>1. \A i \in Items : n > 0
      BY <1>1 DEF Items
    <3> QED BY <1>0, <3>1, JobFacts DEF Untouched
  <2> QED BY <1>0, <2>1, JobFacts DEF Running
<1> HIDE DEF flying
<1>4. [i \in flying |-> Job1(i)] \in Injection(flying, Running(block))
  BY <1>3 DEF Injection, IsInjective
<1>5. Cardinality(flying) <= Cardinality(Running(block))
  BY <1>2, <1>4, FS_Injection
<1>6. PoolSize \in Nat /\ PoolSize <= Width
  BY <1>1 DEF PoolSize
<1>7. Cardinality(flying) \in Nat /\ Cardinality(Running(block)) \in Nat
  BY <1>2, FS_CardinalityType
<1>8. Cardinality(flying) < Width
  BY <1>1, <1>5, <1>6, <1>7
<1> QED BY <1>8 DEF flying

LEMMA StepFanout ==
  ASSUME IInv, Next, ~Async
  PROVE  [F!Next]_F!fanoutVars
<1>0. TypeOK /\ Untouched /\ Dispatched /\ LandedOnce /\ Landing /\ Untouched'
  BY StepUntouched DEF IInv
<1>n. n \in Nat /\ next \in Nat /\ block \in Nat
  BY <1>0 DEF TypeOK
<1>i. ASSUME UNCHANGED <<block, n>>
      PROVE  Items' = Items /\ \A i : Job1(i)' = Job1(i)
  BY <1>i DEF Items, Job1
<1>j. \A i \in Items : Job1(i) \in Job /\ i \in 1..MaxItems /\ block # 0
  <2> SUFFICES ASSUME NEW i \in Items PROVE Job1(i) \in Job /\ i \in 1..MaxItems /\ block # 0
    OBVIOUS
  <2>1. n > 0
    BY <1>n DEF Items
  <2> QED BY <1>0, <2>1, JobFacts DEF Untouched
<1> USE DEF dispatch, outcome, frame, jobs, vars
\* A step on one item of the block.
<1>s. ASSUME NEW k \in Items, NEW x, item' = [item EXCEPT ![Job1(k)] = x],
             UNCHANGED <<phase, block, n, answer>>
      PROVE  /\ \A i \in Items : item'[Job1(i)] = IF i = k THEN x ELSE item[Job1(i)]
             /\ Items' = Items /\ block # 0 /\ Answered' = Answered /\ k \in 1..MaxItems
             /\ \A i : Job1(i)' = Job1(i)
  <2>1. \A i \in Items : Job1(i) \in Job /\ (i # k => Job1(i) # Job1(k))
    BY <1>0, <1>j, JobFacts
  <2>2. \A i \in Items : item'[Job1(i)] = IF i = k THEN x ELSE item[Job1(i)]
    BY <1>0, <1>s, <2>1 DEF TypeOK
  <2> QED BY <1>i, <1>j, <1>s, <2>2 DEF Answered
<1>b. ASSUME NEW k \in Items, item' = [item EXCEPT ![Job1(k)] = "body"], phase # "idle",
             UNCHANGED <<phase, block, n, answer>>,
             item[Job1(k)] \in {"new", "queued"},
             Cardinality({i \in Items : item[Job1(i)] \in Busy}) < Width
      PROVE  F!Next
  <2>1. /\ \A i \in Items : item'[Job1(i)] = IF i = k THEN "body" ELSE item[Job1(i)]
        /\ Items' = Items /\ block # 0 /\ Answered' = Answered /\ k \in 1..MaxItems
        /\ \A i : Job1(i)' = Job1(i)
    BY <1>s, <1>b
  <2>2. {i \in Items : item[Job1(i)] \in Busy}' = {i \in Items : item[Job1(i)] \in Busy} \cup {k}
    BY <2>1 DEF Busy
  <2>3. {i \in Items : item[Job1(i)] = "ok"}' = {i \in Items : item[Job1(i)] = "ok"}
    BY <1>b, <2>1
  <2>4. {i \in Items : item[Job1(i)] = "error"}' = {i \in Items : item[Job1(i)] = "error"}
    BY <1>b, <2>1
  <2>5. k \in (1..n) \ ({i \in Items : item[Job1(i)] \in Busy} \cup {i \in Items : item[Job1(i)] = "ok"}
                         \cup {i \in Items : item[Job1(i)] = "error"})
    BY <1>b DEF Busy, Items
  <2>6. (IF block = 0 THEN {} ELSE {i \in Items : item[Job1(i)] \in Busy})
          = {i \in Items : item[Job1(i)] \in Busy}
    BY <2>1
  <2>7. Cardinality(IF block = 0 THEN {} ELSE {i \in Items : item[Job1(i)] \in Busy}) < Width
    BY <1>b, <2>6
  <2>8. F!Cardinality(IF block = 0 THEN {} ELSE {i \in Items : item[Job1(i)] \in Busy}) < Width
    BY <2>7, SameCardinality
  <2>9. F!Begin(k)
    BY <1>b, <2>1, <2>2, <2>3, <2>4, <2>5, <2>8 DEF F!Begin, Answered
  <2> QED BY <2>1, <2>9 DEF F!Next
<1>1. ASSUME NEW k \in 0..MaxItems, Begin(k) PROVE F!Next
  <2>1. phase = "idle" /\ phase' = "project" /\ block' = block + 1 /\ n' = k /\ answer' = None
    BY <1>1 DEF Begin
  <2>2. \A i \in Items' : item'[Job1(i)'] = "new"
    <3>1. \A i \in Items' : Job1(i)' \in Job /\ Job1(i)'[1] = block'
      BY <1>0, <1>1, <2>1, ParallelAssumption DEF Begin, Items, Job1, Job, TypeOK
    <3> QED BY <1>0, <2>1, <3>1 DEF Untouched
  <2>3. /\ {i \in Items : item[Job1(i)] \in Busy}' = {}
        /\ {i \in Items : item[Job1(i)] = "ok"}' = {}
        /\ {i \in Items : item[Job1(i)] = "error"}' = {}
    BY <2>2 DEF Busy
  <2>4. F!Open(k)
    BY <2>1, <2>3 DEF F!Open
  <2> QED BY <2>4 DEF F!Next
<1>2. CASE NoItems
  <2>1. UNCHANGED <<block, n, item>> /\ phase = "project" /\ phase' = "idle" /\ n = 0 /\ answer' = << >>
    BY <1>2 DEF NoItems
  <2>2. 1..n = {} /\ Items = {} /\ Items' = {} /\ answer' = [i \in 1..n |-> i]
    BY <2>1 DEF Items
  <2>3. F!CloseWithResults
    BY <2>1, <2>2 DEF F!CloseWithResults
  <2> QED BY <2>3 DEF F!Next
<1>3. CASE RefuseBlock \/ NotAList
  <2>1. UNCHANGED <<block, n, item>> /\ phase = "project" /\ phase' = "idle" /\ answer' = Failure
    BY <1>3 DEF RefuseBlock, NotAList
  <2>2. \A i \in Items : item[Job1(i)] = "new"
    BY <1>0, <1>j, <2>1, JobFacts DEF Untouched
  <2>3. /\ {i \in Items : item[Job1(i)] \in Busy} = {}
        /\ {i \in Items : item[Job1(i)] = "ok"} = {}
    BY <2>2 DEF Busy
  <2>4. UNCHANGED <<{i \in Items : item[Job1(i)] \in Busy}, {i \in Items : item[Job1(i)] = "ok"},
                    {i \in Items : item[Job1(i)] = "error"}>>
    BY <1>i, <2>1
  <2>5. F!CloseWithFailure
    BY <2>1, <2>3, <2>4 DEF F!CloseWithFailure
  <2> QED BY <2>5 DEF F!Next
<1>4. CASE Refund
  <2>1. UNCHANGED <<block, n, item, answer>> /\ phase = "refund" /\ phase' = "idle"
    BY <1>4 DEF Refund
  <2>2. UNCHANGED <<{i \in Items : item[Job1(i)] \in Busy}, {i \in Items : item[Job1(i)] = "ok"},
                    {i \in Items : item[Job1(i)] = "error"}>>
    BY <1>i, <2>1
  <2>3. block # 0
    BY <1>0, <2>1 DEF Untouched
  <2>4. CASE answer = Failure /\ \E i \in Items : item[Job1(i)] = "error"
    <3>1. {i \in Items : item[Job1(i)] \in Busy} = {} /\ {i \in Items : item[Job1(i)] = "error"} # {}
      BY <1>0, <2>1, <2>4 DEF Landing
    <3>2. F!CloseWithFailure
      BY <2>1, <2>2, <2>3, <2>4, <3>1 DEF F!CloseWithFailure
    <3> QED BY <3>2 DEF F!Next
  <2>5. CASE Full
    <3>1. {i \in Items : item[Job1(i)] = "ok"} = 1..n
      BY <2>5 DEF Full, Items
    <3>2. answer = [i \in 1..n |-> i]
      BY <2>5 DEF Full, Items
    <3>3. F!CloseWithResults
      BY <2>1, <2>2, <2>3, <3>1, <3>2 DEF F!CloseWithResults
    <3> QED BY <3>3 DEF F!Next
  <2> QED BY <1>0, <2>1, <2>4, <2>5 DEF Landing
<1>5. CASE InlineStart
  <2>1. UNCHANGED <<phase, block, n, answer>> /\ phase = "inline" /\ next \in Items
        /\ item' = [item EXCEPT ![Job1(next)] = "body"] /\ item[Job1(next)] = "new"
    BY <1>5, NextIsItem DEF InlineStart
  <2>2. {i \in Items : item[Job1(i)] \in Busy} = {}
    BY <1>0, <2>1 DEF Landing, Busy
  <2>3. Cardinality({i \in Items : item[Job1(i)] \in Busy}) < Width
    BY <2>2, FS_EmptySet, ParallelAssumption
  <2> QED BY <1>b, <2>1, <2>3
<1>6. ASSUME NEW j \in Job, Work(j) PROVE [F!Next]_F!fanoutVars
  <2>1. WorkerStep(j)
    BY <1>6, WorkIsWorkerStep
  <2>2. UNCHANGED <<phase, block, n, answer>>
    BY <2>1 DEF WorkerStep
  <2>3. CASE j[1] # block
    <3>1. \A i \in Items : item'[Job1(i)] = item[Job1(i)]
      BY <1>0, <1>j, <2>1, <2>3, JobFacts DEF WorkerStep, TypeOK
    <3> QED BY <2>2, <3>1, HiddenStep DEF Answered
  <2>4. CASE j[1] = block
    <3>1. PICK k \in Items : j = Job1(k)
      <4>1. j[2] \in Items
        BY <1>0, <1>n, <2>1, <2>4, JobFacts DEF Untouched, WorkerStep, Busy, Items
      <4>2. j = Job1(j[2])
        BY <1>0, <2>4, JobFacts DEF Job1
      <4> QED BY <4>1, <4>2
    <3>2. CASE Take(j)
      <4>1. item' = [item EXCEPT ![Job1(k)] = "body"] /\ item[Job1(k)] = "queued"
        BY <3>1, <3>2, TakenWasQueued
      <4>2. phase # "idle"
        BY <1>0, <4>1 DEF Landing
      <4>3. Cardinality({i \in Items : item[Job1(i)] \in Busy}) < Width
        BY <1>j, <2>4, <3>2, FlyingIsRunning DEF Take
      <4> QED BY <1>b, <2>2, <4>1, <4>2, <4>3
    <3>3. ASSUME NEW x \in Busy \cup {"ok", "error"}, item[Job1(k)] \in Busy,
                 item' = [item EXCEPT ![Job1(k)] = x]
          PROVE  [F!Next]_F!fanoutVars
      <4>1. /\ \A i \in Items : item'[Job1(i)] = IF i = k THEN x ELSE item[Job1(i)]
            /\ Items' = Items /\ block # 0 /\ Answered' = Answered /\ k \in 1..MaxItems
            /\ \A i : Job1(i)' = Job1(i)
        BY <1>s, <2>2, <3>3
      <4>2. CASE x \in Busy
        <5>1. \A i \in Items : /\ item'[Job1(i)] \in Busy <=> item[Job1(i)] \in Busy
                               /\ item'[Job1(i)] = "ok" <=> item[Job1(i)] = "ok"
                               /\ item'[Job1(i)] = "error" <=> item[Job1(i)] = "error"
          BY <3>3, <4>1, <4>2 DEF Busy
        <5> QED BY <2>2, <5>1, HiddenStep DEF Answered
      <4>3. CASE x = "ok"
        <5>1. /\ {i \in Items : item[Job1(i)] \in Busy}' = {i \in Items : item[Job1(i)] \in Busy} \ {k}
              /\ {i \in Items : item[Job1(i)] = "ok"}' = {i \in Items : item[Job1(i)] = "ok"} \cup {k}
              /\ {i \in Items : item[Job1(i)] = "error"}' = {i \in Items : item[Job1(i)] = "error"}
          BY <3>3, <4>1, <4>3 DEF Busy
        <5>2. F!Succeed(k)
          BY <2>2, <3>3, <4>1, <5>1 DEF F!Succeed, Answered
        <5> QED BY <4>1, <5>2 DEF F!Next
      <4>4. CASE x = "error"
        <5>1. /\ {i \in Items : item[Job1(i)] \in Busy}' = {i \in Items : item[Job1(i)] \in Busy} \ {k}
              /\ {i \in Items : item[Job1(i)] = "ok"}' = {i \in Items : item[Job1(i)] = "ok"}
              /\ {i \in Items : item[Job1(i)] = "error"}' = {i \in Items : item[Job1(i)] = "error"} \cup {k}
          BY <3>3, <4>1, <4>4 DEF Busy
        <5>2. F!Fail(k)
          BY <2>2, <3>3, <4>1, <5>1 DEF F!Fail, Answered
        <5> QED BY <4>1, <5>2 DEF F!Next
      <4> QED BY <3>3, <4>2, <4>3, <4>4
    <3>4. CASE BusyStep(j)
      BY <3>1, <3>3, <3>4 DEF BusyStep
    <3> QED BY <1>6, <3>2, <3>4, WorkIsBusyStep DEF Work
  <2> QED BY <2>3, <2>4
\* The other steps do not show.
<1>7. ASSUME UNCHANGED <<block, n, item>>, phase # "idle", phase' # "idle"
      PROVE  UNCHANGED F!fanoutVars
  BY <1>7, HiddenStep DEF Answered
<1>8. CASE Reserve \/ Submitted \/ Collect \/ CollectFailure
  BY <1>7, <1>8 DEF Reserve, Dispatch, Submitted, Collect, CollectFailure, AtTurn
<1>9. CASE CloseRun \/ InlineCollect \/ InlineEnd
  BY <1>7, <1>9 DEF CloseRun, InlineCollect, InlineEnd
<1>10. CASE Submit
  <2>1. UNCHANGED <<phase, block, n, answer>> /\ next \in Items
        /\ item' = [item EXCEPT ![Job1(next)] = "queued"] /\ item[Job1(next)] = "new"
    BY <1>10, NextIsItem DEF Submit
  <2>2. \A i \in Items : item'[Job1(i)] = item[Job1(i)]
                         \/ (item[Job1(i)] = "new" /\ item'[Job1(i)] = "queued")
    BY <1>s, <2>1
  <2> QED BY <2>1, <2>2, HiddenStep DEF Answered, Busy
<1>11. ASSUME NEW i \in 1..MaxItems, Cancel(i) PROVE UNCHANGED F!fanoutVars
  <2>1. UNCHANGED <<phase, block, n, answer>>
    BY <1>11 DEF Cancel
  <2>2. \A k \in Items : item'[Job1(k)] = item[Job1(k)]
                         \/ (item[Job1(k)] \in {"waiting", "queued"} /\ item'[Job1(k)] = "cancelled")
    BY <1>0, <1>j, <1>11 DEF Cancel, TypeOK
  <2> QED BY <2>1, <2>2, HiddenStep DEF Answered, Busy
<1>12. EventLoop => FALSE
  BY DEF EventLoop, Admit, Land
<1>13. Finished => UNCHANGED F!fanoutVars
  BY HiddenStep DEF Finished, Answered
<1> QED BY <1>1, <1>2, <1>3, <1>4, <1>5, <1>6, <1>8, <1>9, <1>10, <1>11, <1>12, <1>13 DEF Next, Main

\* With a pool of threads, of any width and over any lists, do_par implements Fanout:
\* never more iterations in flight than the block's limit, an answer only when none
\* is, results in the order of the items, failure exactly when an iteration failed or
\* nothing was started.
THEOREM ThreadsImplementFanout ==
  ASSUME ~Async
  PROVE  Spec => FanoutSpec
<1>1. Init => F!Init
  BY DEF Init, F!Init
<1>2. IInv /\ Next => [F!Next]_F!fanoutVars
  BY StepFanout
<1>3. UNCHANGED vars => UNCHANGED F!fanoutVars
  <2> SUFFICES ASSUME UNCHANGED vars PROVE UNCHANGED F!fanoutVars
    OBVIOUS
  <2>1. UNCHANGED <<phase, block, n, item, answer>>
    BY DEF vars, outcome, jobs
  <2> QED BY <2>1, HiddenStep DEF Answered
<1>4. IInv /\ [Next]_vars => [F!Next]_F!fanoutVars
  BY <1>2, <1>3
<1> QED BY <1>1, <1>4, Inductive, PTL DEF Spec, FanoutSpec, F!Spec
=============================================================================
