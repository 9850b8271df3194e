---------------------------- MODULE BudgetProofs ----------------------------
(***************************************************************************)
(* Proofs about Budget, for any number of tasks and frames and any prices. *)
(* The inductive invariant says, beside the properties themselves, where   *)
(* the tasks stand in the tree of frames, who may be inside the lock, and  *)
(* what a pass over the chain has established so far.                      *)
(***************************************************************************)
EXTENDS Budget, FiniteSetTheorems, WellFoundedInduction, TLAPS

-----------------------------------------------------------------------------
\* Sums over finite sets.  The library's fold is a recursive function over the
\* subsets of a set; what it sums up to is stated by what every such sum obeys.

\* g gives every subset of U the sum of h over it.
IsSum(g, h, U) ==
  /\ g \in [SUBSET U -> Int]
  /\ g[{}] = 0
  /\ \A s \in SUBSET U : \A y \in s : g[s] = h[y] + g[s \ {y}]

\* A set of natural numbers has a least member.
LEMMA LeastNumber ==
  ASSUME NEW T \in SUBSET Nat, T # {}
  PROVE  \E n \in T : \A m \in T : n <= m
<1>1. PICK n \in T : \A m \in T : ~ (<<m, n>> \in OpToRel(<, Nat))
  BY NatLessThanWellFounded, WFMin
<1>2. \A m \in T : ~ (m < n)
  BY <1>1 DEF OpToRel
<1> QED
  BY <1>2

\* Of a family of finite sets one has the fewest members.
LEMMA Smallest ==
  ASSUME NEW F, F # {}, \A s \in F : IsFiniteSet(s)
  PROVE  \E s \in F : \A r \in F : Cardinality(s) <= Cardinality(r)
<1> DEFINE T == {Cardinality(s) : s \in F}
<1>1. \A s \in F : Cardinality(s) \in Nat
  BY FS_CardinalityType
<1>2. T \in SUBSET Nat /\ T # {}
  BY <1>1
<1>3. PICK n \in T : \A m \in T : n <= m
  BY <1>2, LeastNumber
<1> QED
  BY <1>3

\* Without one of its members a finite set is smaller.
LEMMA Smaller ==
  ASSUME NEW s, IsFiniteSet(s), NEW y \in s
  PROVE  ~ (Cardinality(s) <= Cardinality(s \ {y}))
<1>1. Cardinality(s) \in Nat /\ Cardinality(s \ {y}) = Cardinality(s) - 1
  BY FS_RemoveElement, FS_CardinalityType
<1> QED
  BY <1>1

\* There is a sum of any numbers over a finite set.
LEMMA SumsExist ==
  ASSUME NEW U, IsFiniteSet(U), NEW h \in [U -> Int]
  PROVE  \E g : IsSum(g, h, U)
<1> DEFINE F == {V \in SUBSET U : ~ \E g : IsSum(g, h, V)}
<1>1. SUFFICES ASSUME F # {} PROVE FALSE
  OBVIOUS
<1>2. \A V \in SUBSET U : IsFiniteSet(V)
  BY FS_Subset
<1>3. PICK V \in F : \A W \in F : Cardinality(V) <= Cardinality(W)
  BY <1>1, <1>2, Smallest
<1>4. CASE V = {}
  <2>1. IsSum([s \in SUBSET V |-> 0], h, V)
    BY <1>4 DEF IsSum
  <2> QED
    BY <2>1, <1>3
<1>5. CASE V # {}
  <2>1. PICK y \in V : TRUE
    BY <1>5
  <2> DEFINE W == V \ {y}
  <2>2. W \in SUBSET U /\ W \notin F
    BY <1>2, <1>3, Smaller
  <2>3. PICK k : IsSum(k, h, W)
    BY <2>2
  <2> DEFINE g == [s \in SUBSET V |-> IF y \in s THEN h[y] + k[s \ {y}] ELSE k[s]]
  <2>4. /\ h[y] \in Int
        /\ \A s \in SUBSET V : s \ {y} \in SUBSET W /\ k[s \ {y}] \in Int
        /\ \A s \in SUBSET V : y \notin s => s = s \ {y}
    BY <2>3 DEF IsSum
  <2>5. g \in [SUBSET V -> Int] /\ g[{}] = 0
    BY <2>3, <2>4 DEF IsSum
  <2>6. ASSUME NEW s \in SUBSET V, NEW z \in s PROVE g[s] = h[z] + g[s \ {z}]
    <3>1. CASE z = y
      BY <3>1
    <3>2. CASE z # y /\ y \notin s
      BY <2>3, <2>4, <3>2 DEF IsSum
    <3>3. CASE z # y /\ y \in s
      <4>1. (s \ {y}) \ {z} = (s \ {z}) \ {y} /\ z \in s \ {y} /\ y \in s \ {z}
        BY <3>3
      <4>2. k[s \ {y}] = h[z] + k[(s \ {z}) \ {y}]
        BY <2>3, <2>4, <4>1 DEF IsSum
      <4>3. h[z] \in Int /\ k[(s \ {z}) \ {y}] \in Int /\ s \ {z} \in SUBSET V
        BY <2>4
      <4>4. g[s] = h[y] + k[s \ {y}] /\ g[s \ {z}] = h[y] + k[(s \ {z}) \ {y}]
        BY <3>3, <4>1, <4>3
      <4> QED
        BY <2>4, <4>2, <4>3, <4>4
    <3> QED
      BY <3>1, <3>2, <3>3
  <2>7. IsSum(g, h, V)
    BY <2>5, <2>6 DEF IsSum
  <2> QED
    BY <2>7, <1>3
<1> QED
  BY <1>4, <1>5

\* And only one.
LEMMA SumsUnique ==
  ASSUME NEW U, IsFiniteSet(U), NEW h, NEW g, NEW k, IsSum(g, h, U), IsSum(k, h, U)
  PROVE  g = k
<1> DEFINE F == {s \in SUBSET U : g[s] # k[s]}
<1>1. \A s \in SUBSET U : IsFiniteSet(s)
  BY FS_Subset
<1>2. F = {}
  <2>1. SUFFICES ASSUME F # {} PROVE FALSE
    OBVIOUS
  <2>2. PICK s \in F : \A r \in F : Cardinality(s) <= Cardinality(r)
    BY <2>1, <1>1, Smallest
  <2>3. s # {}
    BY DEF IsSum
  <2>4. PICK y \in s : TRUE
    BY <2>3
  <2>5. s \ {y} \in SUBSET U /\ s \ {y} \notin F
    BY <1>1, <2>2, Smaller
  <2>6. g[s] = h[y] + g[s \ {y}] /\ k[s] = h[y] + k[s \ {y}]
    BY DEF IsSum
  <2> QED
    BY <2>5, <2>6
<1> QED
  BY <1>2 DEF IsSum

\* h2 is h but for y, which moved by d.
MovedAt(h2, h, y, d, U) == h2[y] = h[y] + d /\ \A z \in U \ {y} : h2[z] = h[z]

\* The sums after one number has changed by d.
LEMMA SumAfterChange ==
  ASSUME NEW U, IsFiniteSet(U), NEW h, NEW g, IsSum(g, h, U), NEW y \in U, NEW d \in Int,
         h \in [U -> Int], NEW h2, MovedAt(h2, h, y, d, U),
         NEW k, IsSum(k, h2, U), NEW s \in SUBSET U
  PROVE  k[s] = IF y \in s THEN g[s] + d ELSE g[s]
<1> DEFINE k2 == [r \in SUBSET U |-> IF y \in r THEN g[r] + d ELSE g[r]]
<1>1. g \in [SUBSET U -> Int] /\ k2 \in [SUBSET U -> Int] /\ k2[{}] = 0
  BY DEF IsSum
<1>2. ASSUME NEW r \in SUBSET U, NEW z \in r PROVE k2[r] = h2[z] + k2[r \ {z}]
  <2>1. /\ r \ {z} \in SUBSET U /\ g[r] \in Int /\ g[r \ {z}] \in Int /\ h[z] \in Int
        /\ g[r] = h[z] + g[r \ {z}]
    BY <1>1 DEF IsSum
  <2>2. CASE z = y
    BY <2>1, <2>2 DEF MovedAt
  <2>3. CASE z # y
    BY <2>1, <2>3 DEF MovedAt
  <2> QED
    BY <2>2, <2>3
<1>3. IsSum(k2, h2, U)
  BY <1>1, <1>2 DEF IsSum
<1>4. k = k2
  BY <1>3, SumsUnique
<1> QED
  BY <1>4

\* Members that are zero do not count.
LEMMA SumOfNonzero ==
  ASSUME NEW U, IsFiniteSet(U), NEW h \in [U -> Int], NEW g, IsSum(g, h, U),
         NEW s \in SUBSET U, NEW q \in SUBSET s, \A y \in s \ q : h[y] = 0
  PROVE  g[s] = g[q]
<1> DEFINE Nonzero(r) == {y \in r : h[y] # 0}
           k == [r \in SUBSET U |-> g[Nonzero(r)]]
<1>1. \A r \in SUBSET U : Nonzero(r) \in SUBSET U
  OBVIOUS
<1>2. g \in [SUBSET U -> Int] /\ g[{}] = 0 /\ Nonzero({}) = {}
  BY DEF IsSum
<1>3. k \in [SUBSET U -> Int] /\ k[{}] = 0
  BY <1>1, <1>2
<1>4. ASSUME NEW r \in SUBSET U, NEW z \in r PROVE k[r] = h[z] + k[r \ {z}]
  <2>1. r \ {z} \in SUBSET U /\ g[Nonzero(r)] \in Int /\ g[Nonzero(r \ {z})] \in Int
    BY <1>1, <1>2
  <2>2. CASE h[z] = 0
    <3>1. Nonzero(r) = Nonzero(r \ {z})
      BY <2>2
    <3>2. k[r] = g[Nonzero(r)] /\ k[r \ {z}] = g[Nonzero(r \ {z})]
      BY <2>1
    <3> HIDE DEF k, Nonzero
    <3> QED
      BY <2>1, <2>2, <3>1, <3>2
  <2>3. CASE h[z] # 0
    <3>1. Nonzero(r \ {z}) = Nonzero(r) \ {z} /\ z \in Nonzero(r)
      BY <2>3
    <3>2. g[Nonzero(r)] = h[z] + g[Nonzero(r) \ {z}]
      BY <1>1, <3>1 DEF IsSum
    <3> QED
      BY <2>1, <3>1, <3>2
  <2> QED
    BY <2>2, <2>3
<1>5. IsSum(k, h, U)
  BY <1>3, <1>4 DEF IsSum
<1>6. k = g
  BY <1>5, SumsUnique
<1>7. Nonzero(s) = Nonzero(q)
  OBVIOUS
<1>8. k[s] = g[Nonzero(s)] /\ k[q] = g[Nonzero(q)]
  OBVIOUS
<1> QED
  BY <1>6, <1>7, <1>8

\* More natural numbers sum up to more.
LEMMA SumOfMore ==
  ASSUME NEW U, IsFiniteSet(U), NEW h \in [U -> Nat], NEW g, IsSum(g, h, U),
         NEW s \in SUBSET U, NEW q \in SUBSET s
  PROVE  g[q] <= g[s]
<1> DEFINE F == {r \in SUBSET U : q \subseteq r /\ ~ (g[q] <= g[r])}
<1>1. \A r \in SUBSET U : IsFiniteSet(r) /\ g[r] \in Int
  BY FS_Subset DEF IsSum
<1>2. SUFFICES ASSUME F # {} PROVE FALSE
  OBVIOUS
<1>3. PICK r \in F : \A p \in F : Cardinality(r) <= Cardinality(p)
  BY <1>1, <1>2, Smallest
<1>4. r # q
  BY <1>1, <1>3
<1>5. PICK y \in r : y \notin q
  BY <1>3, <1>4
<1>6. r \ {y} \in SUBSET U /\ r \ {y} \notin F /\ q \subseteq r \ {y}
  BY <1>1, <1>3, <1>5, Smaller
<1>7. g[r] = h[y] + g[r \ {y}] /\ h[y] \in Nat
  BY <1>5 DEF IsSum
<1> QED
  BY <1>1, <1>3, <1>6, <1>7

\* The recursion of the library's fold, which takes the members in any order.
IsFold(f, h, S) ==
  f = [s \in SUBSET S |->
         IF s = {} THEN 0
         ELSE h[CHOOSE x \in s : TRUE] + f[s \ {CHOOSE x \in s : TRUE}]]

\* It ends in the sum.
LEMMA FoldIsSum ==
  ASSUME NEW U, IsFiniteSet(U), NEW h \in [U -> Int], NEW g, IsSum(g, h, U),
         NEW S \in SUBSET U, NEW it, IsFold(it, h, S)
  PROVE  it[S] = g[S]
<1> DEFINE F == {s \in SUBSET S : it[s] # g[s]}
<1>1. \A s \in SUBSET S : IsFiniteSet(s)
  BY FS_Subset
<1>2. SUFFICES ASSUME F # {} PROVE FALSE
  OBVIOUS
<1>3. PICK s \in F : \A r \in F : Cardinality(s) <= Cardinality(r)
  BY <1>1, <1>2, Smallest
<1>4. CASE s = {}
  BY <1>4 DEF IsSum, IsFold
<1>5. CASE s # {}
  <2>1. PICK y : y = CHOOSE x \in s : TRUE
    OBVIOUS
  <2>2. y \in s
    BY <1>5, <2>1
  <2>3. s \ {y} \in SUBSET S /\ s \ {y} \notin F
    BY <1>1, <1>3, <2>2, Smaller
  <2>4. it[s] = h[y] + it[s \ {y}]
    BY <1>5, <2>1 DEF IsFold
  <2>5. g[s] = h[y] + g[s \ {y}]
    BY <2>2 DEF IsSum
  <2> QED
    BY <2>3, <2>4, <2>5
<1> QED
  BY <1>4, <1>5

-----------------------------------------------------------------------------
\* The blocks that run in frame n or in a descendant of it, and what they hold.
Blocks(n) == {tf \in Task \X Frame : n \in chain[tf[2]]}
HeldBy(book, S) == MapThenSumSet(LAMBDA tf : book[tf[1]][tf[2]], S)
HeldOn(n) == HeldBy(held, Blocks(n))

\* A chain contains its frame and is closed under ancestors; below Base every
\* frame has a parent below Base, and its chain is that of its parent and itself.
ChainsClosed ==
  /\ \A f \in Frame : \A n \in chain[f] : f \in chain[f] /\ n \in chain[n] /\ chain[n] \subseteq chain[f]
  /\ Base \in chain[Base]
  /\ \A f \in Frame \ {Base} : Base \in chain[f] =>
       parent[f] \in Frame /\ Base \in chain[parent[f]]

\* Chains hold what the parents lead to, and Base has nothing above it but Root.
ChainsFollowParents ==
  /\ \A f \in Frame \ {Base} : Base \in chain[f] => chain[f] \subseteq {f} \cup chain[parent[f]]
  /\ \A f \in Frame : parent[f] # NoFrame => parent[f] \in chain[f]
  /\ chain[Base] \subseteq {Base, Root}
  /\ chain[Root] = {Root}

\* Tasks run in frames that exist, at or below Base.
TasksPlaced ==
  \A t \in Task :
    /\ Base \in chain[here[t]]
    /\ pending[t] # NoFrame => Base \in chain[pending[t]]

\* A call in preparation goes to a frame below the caller's; a task that has
\* ended is back where it started.
CallsGoDown ==
  \A t \in Task : pending[t] # NoFrame => chain[here[t]] \subseteq chain[pending[t]]

\* What a task holds it holds on the frames it works in, below Base, until it ends.
HeldWhereWorking ==
  \A t \in Task : \A f \in Frame :
    held[t][f] # 0 => pc[t] # "end" /\ f \in chain[here[t]] /\ Base \in chain[f]

\* A charge reached every ancestor.
ChargesCover ==
  \A f \in Frame : \A n \in chain[f] : charged[f] <= charged[n]

\* Exactly the task that holds the lock is in a pass.
LockOwned == \A t \in Task : pc[t] \in {"check", "apply"} <=> holder = t

\* A pass stays on the chain; the frames it has checked, and the frames it has
\* yet to write, have room for the amount; a refund is of all that is held.
PassSound(u) ==
  /\ pc[u] = "lock" => op[u].kind # "open"
  /\ pc[u] \in {"lock", "apply"} /\ op[u].kind = "refund" => op[u].amount = held[u][here[u]]
  /\ pc[u] = "check" =>
       /\ op[u].kind \in {"charge", "reserve"}
       /\ \A n \in Capped(here[u]) \ todo[u] : spent[n] + op[u].amount <= limit[n]
  /\ pc[u] = "apply" =>
       /\ op[u].kind # "open"
       /\ todo[u] \subseteq chain[here[u]]
       /\ op[u].kind # "refund" =>
            \A n \in Capped(here[u]) \cap todo[u] : spent[n] + op[u].amount <= limit[n]

PassesSound == \A t \in Task : PassSound(t)

\* Nothing was ever written to a frame that does not exist.
FreshFrames ==
  \A f \in Frame : chain[f] = {} => spent[f] = 0 /\ charged[f] = 0 /\ reserved[f] = 0

\* Nor does any block hold anything there.
FreshHold == \A f \in Frame : chain[f] = {} => \A u \in Task : held[u][f] = 0

\* What is reserved on a frame is what the blocks there and below hold.
ReservedIsHeld == \A n \in Frame : reserved[n] = HeldOn(n)

\* A request asks for money that the program can ask for, and for a reservation
\* only where none is open.
PricesKnown ==
  \A t \in Task :
    /\ pc[t] = "peek" => op[t].amount \in Limit
    /\ pc[t] \in {"lock", "check", "apply"} =>
         /\ op[t].kind = "charge" => op[t].amount \in Amount \cup ArgAmount
         /\ op[t].kind = "reserve" => op[t].amount \in Amount /\ held[t][here[t]] = 0
         /\ op[t].kind = "refund" => held[t][here[t]] > 0

IInv ==
  /\ TypeOK
  /\ ChainsClosed
  /\ TasksPlaced
  /\ LockOwned
  /\ PassesSound
  /\ FreshFrames
  /\ FreshHold
  /\ PricesKnown
  /\ SpentWithinLimit
  /\ BooksBalance
  /\ ReservedIsHeld
  /\ ChargesCover
  /\ ChainsFollowParents
  /\ CallsGoDown
  /\ HeldWhereWorking

-----------------------------------------------------------------------------
\* The initial state has the right types.
LEMMA InitTypeOK == Init => TypeOK
  BY BudgetAssumption DEF Init, TypeOK, Idle, Kind

\* A step of any task keeps the types.
LEMMA StepTypeOK ==
  ASSUME TypeOK, ChainsClosed, TasksPlaced, PassesSound, NEW t \in Task, Step(t)
  PROVE  TypeOK'
<1>1. ASSUME NEW b \in Limit, Call(t, b) PROVE TypeOK'
  BY <1>1, BudgetAssumption DEF TypeOK, objects, books, Kind, Idle, Capped, Call
<1>2. ASSUME NEW n \in Frame, PeekFrame(t, n) PROVE TypeOK'
  BY <1>2 DEF TypeOK, objects, books, PeekFrame
<1>3. ASSUME NEW n \in Frame, OpenFrame(t, n) PROVE TypeOK'
  BY <1>3, BudgetAssumption DEF TypeOK, objects, books, Kind, Idle, OpenFrame
<1>4. ASSUME Enter(t) PROVE TypeOK'
  BY <1>4, BudgetAssumption DEF TypeOK, objects, books, Kind, Idle, Enter
<1>5. ASSUME Return(t) PROVE TypeOK'
  BY <1>5, BudgetAssumption DEF TypeOK, objects, books, Kind, Idle, Return, ChainsClosed, TasksPlaced
<1>6. ASSUME NEW a \in Amount \cup ArgAmount, Charge(t, a) PROVE TypeOK'
  BY <1>6, BudgetAssumption DEF TypeOK, objects, books, Kind, Idle, Charge, Ask
<1>7. ASSUME NEW a \in Amount, Reserve(t, a) PROVE TypeOK'
  BY <1>7, BudgetAssumption DEF TypeOK, objects, books, Kind, Idle, Reserve, Ask
<1>8. ASSUME Refund(t) PROVE TypeOK'
  BY <1>8, BudgetAssumption DEF TypeOK, objects, books, Kind, Idle, Refund, Ask
<1>9. ASSUME Acquire(t) PROVE TypeOK'
  <2>1. Capped(here[t]) \in SUBSET Frame /\ chain[here[t]] \in SUBSET Frame
    BY DEF TypeOK, Capped
  <2> QED BY <1>9, <2>1 DEF TypeOK, objects, books, Acquire
<1>10. ASSUME NEW n \in Frame, CheckFrame(t, n) PROVE TypeOK'
  BY <1>10, BudgetAssumption DEF TypeOK, objects, books, Kind, Idle, CheckFrame
<1>11. ASSUME NEW n \in Frame, Refuse(t, n) PROVE TypeOK'
  BY <1>11, BudgetAssumption DEF TypeOK, objects, books, Kind, Idle, Refuse
<1>12. ASSUME NEW n \in Frame, ApplyFrame(t, n) PROVE TypeOK'
  BY <1>12, BudgetAssumption DEF TypeOK, objects, books, Kind, Idle, Delta, NextFrame, ApplyFrame
<1>13. ASSUME CheckDone(t) PROVE TypeOK'
  BY <1>13, BudgetAssumption DEF TypeOK, objects, books, Kind, Idle, CheckDone
<1>14. ASSUME Release(t) PROVE TypeOK'
  <2>1. CASE op[t].kind = "charge"
    <3>1. charged' \in [Frame -> Nat]
      BY <1>14, <2>1 DEF TypeOK, Moved, Release
    <3> QED BY <1>14, <2>1, <3>1 DEF TypeOK, objects, books, Kind, Idle, Release
  <2>2. CASE op[t].kind # "charge"
    <3>1. Delta(t) \in Int /\ held[t][here[t]] + Delta(t) \in Nat
      <4>1. op[t].amount \in Nat /\ held[t][here[t]] \in Nat
        BY DEF TypeOK
      <4>2. op[t].kind = "refund" => op[t].amount = held[t][here[t]]
        BY <1>14 DEF PassesSound, PassSound, Release
      <4> QED BY <4>1, <4>2 DEF Delta
    <3>2. reserved' \in [Frame -> Int]
      BY <1>14, <2>2, <3>1 DEF TypeOK, Moved, Release
    <3>3. held' \in [Task -> [Frame -> Nat]]
      <4> DEFINE mine == [held[t] EXCEPT ![here[t]] = held[t][here[t]] + Delta(t)]
      <4>1. mine \in [Frame -> Nat]
        BY <3>1 DEF TypeOK
      <4>2. held' = [held EXCEPT ![t] = mine]
        BY <1>14, <2>2 DEF TypeOK, Release
      <4> HIDE DEF mine
      <4> QED BY <4>1, <4>2 DEF TypeOK
    <3> QED BY <1>14, <2>2, <3>2, <3>3 DEF TypeOK, objects, books, Kind, Idle, Release
  <2> QED BY <2>1, <2>2
<1>15. ASSUME Abandon(t) PROVE TypeOK'
  BY <1>15, BudgetAssumption DEF TypeOK, objects, books, Kind, Idle, Abandon
<1>16. ASSUME Catch(t) PROVE TypeOK'
  BY <1>16, BudgetAssumption DEF TypeOK, objects, books, Kind, Idle, Catch
<1>17. ASSUME End(t) PROVE TypeOK'
  BY <1>17, BudgetAssumption DEF TypeOK, objects, books, Kind, Idle, End
<1>18. ASSUME NEW n \in Frame, PeekRefuse(t, n) PROVE TypeOK'
  BY <1>18 DEF TypeOK, objects, books, Kind, Idle, PeekRefuse
<1> QED BY <1>1, <1>2, <1>3, <1>4, <1>5, <1>6, <1>7, <1>8, <1>9, <1>10, <1>11, <1>12, <1>13, <1>14, <1>15, <1>16, <1>17, <1>18 DEF Step, Locked

-----------------------------------------------------------------------------
\* Which actions touch what.
\* Only OpenFrame makes or changes a frame.
LEMMA StepObjects ==
  ASSUME NEW t \in Task, Step(t)
  PROVE  UNCHANGED objects \/ \E n \in Frame : OpenFrame(t, n)
BY Zenon DEF Step, Locked, Call, PeekFrame, PeekRefuse, OpenFrame, Enter, Return, Charge, Reserve, Refund, Ask,
     Acquire, CheckFrame, Refuse, CheckDone, ApplyFrame, Release, Abandon, Catch, End

\* Only the writing pass changes a running total.
LEMMA StepSpent ==
  ASSUME NEW t \in Task, Step(t)
  PROVE  UNCHANGED spent \/ \E n \in Frame : ApplyFrame(t, n)
BY Zenon DEF Step, Locked, Call, PeekFrame, PeekRefuse, OpenFrame, Enter, Return, Charge, Reserve, Refund, Ask,
     Acquire, CheckFrame, Refuse, CheckDone, ApplyFrame, Release, Abandon, Catch, End

\* Only the end of a locked section changes the books.
LEMMA StepBooks ==
  ASSUME NEW t \in Task, Step(t)
  PROVE  UNCHANGED books \/ Release(t)
BY Zenon DEF Step, Locked, Call, PeekFrame, PeekRefuse, OpenFrame, Enter, Return, Charge, Reserve, Refund, Ask,
     Acquire, CheckFrame, Refuse, CheckDone, ApplyFrame, Release, Abandon, Catch, End
\* A step of one task leaves the others' local state alone.
LEMMA StepLocal ==
  ASSUME TypeOK, NEW t \in Task, Step(t), NEW u \in Task, u # t
  PROVE  /\ pc'[u] = pc[u]
         /\ op'[u] = op[u]
         /\ todo'[u] = todo[u]
         /\ here'[u] = here[u]
         /\ pending'[u] = pending[u]
         /\ held'[u] = held[u]
<1>1. pc'[u] = pc[u] /\ op'[u] = op[u] /\ todo'[u] = todo[u]
  BY DEF TypeOK, Step, Locked, Call, PeekFrame, PeekRefuse, OpenFrame, Enter, Return, Charge, Reserve, Refund, Ask,
     Acquire, CheckFrame, Refuse, CheckDone, ApplyFrame, Release, Abandon, Catch, End
<1>2. here'[u] = here[u] /\ pending'[u] = pending[u]
  BY DEF TypeOK, Step, Locked, Call, PeekFrame, PeekRefuse, OpenFrame, Enter, Return, Charge, Reserve, Refund, Ask,
     Acquire, CheckFrame, Refuse, CheckDone, ApplyFrame, Release, Abandon, Catch, End
<1>3. held'[u] = held[u]
  BY StepBooks DEF TypeOK, books, Release
<1> QED BY <1>1, <1>2, <1>3

\* A frame that exists keeps its ancestors and its limit.
LEMMA FramesStay ==
  ASSUME TypeOK, NEW t \in Task, Step(t), NEW f \in Frame, chain[f] # {}
  PROVE  chain'[f] = chain[f] /\ limit'[f] = limit[f] /\ parent'[f] = parent[f]
BY StepObjects DEF TypeOK, objects, OpenFrame

-----------------------------------------------------------------------------
\* What each block holds, as one function.
Holding(book) == [tf \in Task \X Frame |-> book[tf[1]][tf[2]]]

\* What a set of blocks holds is the sum of what each of them does.
LEMMA HeldByIsSum ==
  ASSUME NEW book \in [Task -> [Frame -> Nat]], NEW S \in SUBSET (Task \X Frame),
         NEW g, IsSum(g, Holding(book), Task \X Frame)
  PROVE  HeldBy(book, S) = g[S]
<1> DEFINE U == Task \X Frame
           first(s) == CHOOSE x \in s : TRUE
           Turn(f, s) == IF s = {} THEN 0
                         ELSE book[first(s)[1]][first(s)[2]] + f[s \ {first(s)}]
           Turns(f) == f = [s \in SUBSET S |-> Turn(f, s)]
           it == CHOOSE f : Turns(f)
           r == [s \in SUBSET S |-> g[s]]
<1>1. IsFiniteSet(U) /\ Holding(book) \in [U -> Int]
  <2>1. IsFiniteSet(U)
    BY BudgetAssumption, FS_Product
  <2> QED
    BY <2>1 DEF Holding
<1>2. ASSUME NEW s \in SUBSET S, s # {}
      PROVE  /\ first(s) \in s /\ s \ {first(s)} \in SUBSET S
             /\ book[first(s)[1]][first(s)[2]] = Holding(book)[first(s)]
  BY <1>2 DEF Holding
<1>3. ASSUME NEW s \in SUBSET S PROVE r[s] = Turn(r, s)
  <2>1. CASE s = {}
    BY <2>1 DEF IsSum
  <2>2. CASE s # {}
    <3>1. s \in SUBSET U
      BY <1>1
    <3>2. g[s] = Holding(book)[first(s)] + g[s \ {first(s)}]
      BY <3>1, <2>2, <1>2 DEF IsSum
    <3> QED
      BY <3>2, <2>2, <1>2
  <2> QED
    BY <2>1, <2>2
<1>4. Turns(r)
  BY <1>3
<1>5. Turns(it)
  BY <1>4
<1>6. IsFold(it, Holding(book), S)
  BY <1>5, <1>2 DEF IsFold
<1>7. it[S] = g[S]
  <2> HIDE DEF it
  <2> QED
    BY <1>1, <1>6, FoldIsSum
<1>8. HeldBy(book, S) = it[S]
  BY DEF HeldBy, MapThenSumSet, MapThenFoldSet
<1> QED
  BY <1>7, <1>8

\* Blocks that hold nothing do not count.
LEMMA HeldByMost ==
  ASSUME NEW book \in [Task -> [Frame -> Nat]], NEW S \in SUBSET (Task \X Frame),
         NEW T \in SUBSET S, \A tf \in S \ T : book[tf[1]][tf[2]] = 0
  PROVE  HeldBy(book, S) = HeldBy(book, T)
<1> DEFINE U == Task \X Frame
<1>1. IsFiniteSet(U) /\ Holding(book) \in [U -> Int]
  BY BudgetAssumption, FS_Product DEF Holding
<1>2. PICK g : IsSum(g, Holding(book), U)
  BY <1>1, SumsExist
<1>3. \A tf \in S \ T : Holding(book)[tf] = 0
  BY DEF Holding
<1>4. g[S] = g[T]
  BY <1>1, <1>2, <1>3, SumOfNonzero
<1>5. HeldBy(book, S) = g[S] /\ HeldBy(book, T) = g[T]
  BY <1>2, HeldByIsSum
<1> QED
  BY <1>4, <1>5

\* More blocks hold more.
LEMMA HeldByMore ==
  ASSUME NEW book \in [Task -> [Frame -> Nat]], NEW S \in SUBSET (Task \X Frame),
         NEW T \in SUBSET S
  PROVE  HeldBy(book, T) <= HeldBy(book, S)
<1> DEFINE U == Task \X Frame
<1>1. IsFiniteSet(U) /\ Holding(book) \in [U -> Nat] /\ Holding(book) \in [U -> Int]
  BY BudgetAssumption, FS_Product DEF Holding
<1>2. PICK g : IsSum(g, Holding(book), U)
  BY <1>1, SumsExist
<1>3. g[T] <= g[S]
  BY <1>1, <1>2, SumOfMore
<1>4. HeldBy(book, S) = g[S] /\ HeldBy(book, T) = g[T]
  BY <1>2, HeldByIsSum
<1> QED
  BY <1>3, <1>4

\* A book in which one block's holding moved by d.
Shifted(book, t, f, d) == [book EXCEPT ![t][f] = @ + d]

\* When one block's holding moves by d, so does what every set it is in holds.
LEMMA HeldByMoves ==
  ASSUME NEW book \in [Task -> [Frame -> Nat]], NEW S \in SUBSET (Task \X Frame),
         NEW t \in Task, NEW f \in Frame, NEW d \in Int, book[t][f] + d \in Nat
  PROVE  HeldBy(Shifted(book, t, f, d), S) =
           IF <<t, f>> \in S THEN HeldBy(book, S) + d ELSE HeldBy(book, S)
<1> DEFINE U == Task \X Frame
           after == [book EXCEPT ![t][f] = @ + d]
<1>1. IsFiniteSet(U) /\ Holding(book) \in [U -> Int]
  BY BudgetAssumption, FS_Product DEF Holding
<1>2. after \in [Task -> [Frame -> Nat]]
  <2>1. [book[t] EXCEPT ![f] = @ + d] \in [Frame -> Nat]
    OBVIOUS
  <2>2. after = [book EXCEPT ![t] = [book[t] EXCEPT ![f] = @ + d]]
    OBVIOUS
  <2> QED
    BY <2>1, <2>2
<1>3. /\ <<t, f>> \in U /\ Holding(after)[<<t, f>>] = Holding(book)[<<t, f>>] + d
      /\ \A z \in U \ {<<t, f>>} : Holding(after)[z] = Holding(book)[z]
  <2>1. <<t, f>> \in U /\ Holding(after)[<<t, f>>] = Holding(book)[<<t, f>>] + d
    BY DEF Holding
  <2>2. ASSUME NEW u \in Task, NEW e \in Frame, <<u, e>> # <<t, f>>
        PROVE  Holding(after)[<<u, e>>] = Holding(book)[<<u, e>>]
    <3>1. after[u][e] = book[u][e]
      BY <2>2
    <3> QED
      BY <3>1 DEF Holding
  <2>3. ASSUME NEW z \in U, z # <<t, f>> PROVE Holding(after)[z] = Holding(book)[z]
    <3>1. PICK u \in Task, e \in Frame : z = <<u, e>>
      OBVIOUS
    <3> QED
      BY <3>1, <2>2, <2>3
  <2> QED
    BY <2>1, <2>3
<1>4. IsFiniteSet(U) /\ Holding(after) \in [U -> Int]
  BY <1>1, <1>2 DEF Holding
<1>5. PICK g : IsSum(g, Holding(book), U)
  BY <1>1, SumsExist
<1>6. PICK k : IsSum(k, Holding(after), U)
  <2> HIDE DEF after
  <2> QED
    BY <1>4, SumsExist
<1>7. HeldBy(book, S) = g[S] /\ HeldBy(after, S) = k[S]
  <2> HIDE DEF after
  <2> QED
    BY <1>2, <1>5, <1>6, HeldByIsSum
<1>8. k[S] = IF <<t, f>> \in S THEN g[S] + d ELSE g[S]
  <2>1. PICK h : h = Holding(book)
    OBVIOUS
  <2>2. PICK h2 : h2 = Holding(after)
    OBVIOUS
  <2>3. PICK y : y = <<t, f>>
    OBVIOUS
  <2> HIDE DEF U, after
  <2>4. y \in U /\ MovedAt(h2, h, y, d, U)
    BY <1>3, <2>1, <2>2, <2>3 DEF MovedAt
  <2>5. IsFiniteSet(U) /\ h \in [U -> Int] /\ IsSum(g, h, U) /\ IsSum(k, h2, U)
    BY <1>1, <1>5, <1>6, <2>1, <2>2
  <2>6. S \in SUBSET U
    BY DEF U
  <2>7. k[S] = IF y \in S THEN g[S] + d ELSE g[S]
    BY <2>4, <2>5, <2>6, SumAfterChange
  <2> QED
    BY <2>3, <2>7
<1> QED
  BY <1>7, <1>8 DEF Shifted

\* Blocks that hold nothing hold nothing together.
LEMMA NothingHeld ==
  ASSUME NEW book \in [Task -> [Frame -> Nat]], NEW S \in SUBSET (Task \X Frame),
         \A tf \in S : book[tf[1]][tf[2]] = 0
  PROVE  HeldBy(book, S) = 0
<1>2. HeldBy(book, S) = HeldBy(book, {})
  BY HeldByMost
<1>3. Holding(book) \in [Task \X Frame -> Int] /\ IsFiniteSet(Task \X Frame)
  BY BudgetAssumption, FS_Product DEF Holding
<1>4. PICK g : IsSum(g, Holding(book), Task \X Frame)
  BY <1>3, SumsExist
<1>5. HeldBy(book, {}) = g[{}]
  BY <1>4, HeldByIsSum
<1> QED
  BY <1>2, <1>4, <1>5 DEF IsSum

-----------------------------------------------------------------------------
\* The inductive invariant holds at first.
LEMMA InitIInv == Init => IInv
<1> SUFFICES ASSUME Init PROVE IInv
  OBVIOUS
<1>1. TypeOK
  BY InitTypeOK
<1>2. ChainsClosed /\ TasksPlaced
  BY BudgetAssumption DEF Init, ChainsClosed, TasksPlaced
<1>3. LockOwned /\ PassesSound /\ PricesKnown
  BY BudgetAssumption DEF Init, LockOwned, PassesSound, PassSound, PricesKnown
<1>4. FreshFrames /\ ChargesCover /\ SpentWithinLimit
  BY BudgetAssumption DEF Init, FreshFrames, ChargesCover, SpentWithinLimit
<1>5. BooksBalance
  BY DEF Init, BooksBalance, InFlight
<1>6. FreshHold
  BY DEF Init, FreshHold
<1>7. ReservedIsHeld
  <2>1. held \in [Task -> [Frame -> Nat]] /\ \A u \in Task, f \in Frame : held[u][f] = 0
    BY DEF Init
  <2>2. ASSUME NEW n \in Frame PROVE HeldBy(held, Blocks(n)) = 0
    <3>1. Blocks(n) \in SUBSET (Task \X Frame) /\ \A tf \in Blocks(n) : held[tf[1]][tf[2]] = 0
      BY <2>1 DEF Blocks
    <3> QED
      BY <2>1, <3>1, NothingHeld
  <2> QED
    BY <2>2 DEF Init, ReservedIsHeld, HeldOn
<1>8. ChainsFollowParents /\ CallsGoDown /\ HeldWhereWorking
  BY BudgetAssumption DEF Init, ChainsFollowParents, CallsGoDown, HeldWhereWorking
<1> QED BY <1>1, <1>2, <1>3, <1>4, <1>5, <1>6, <1>7, <1>8 DEF IInv

-----------------------------------------------------------------------------
\* Chains stay closed: a new frame hangs under one that exists.
LEMMA StepChains ==
  ASSUME IInv, NEW t \in Task, Step(t)
  PROVE  ChainsClosed'
<1>1. CASE UNCHANGED objects
  BY <1>1 DEF IInv, ChainsClosed, objects
<1>2. ASSUME NEW g \in Frame, OpenFrame(t, g) PROVE ChainsClosed'
  <2>1. /\ chain[g] = {}
        /\ chain' = [chain EXCEPT ![g] = {g} \cup chain[here[t]]]
        /\ parent' = [parent EXCEPT ![g] = here[t]]
        /\ here[t] \in Frame /\ Base \in chain[here[t]] /\ g # Base /\ g # here[t]
    BY <1>2 DEF IInv, TypeOK, OpenFrame, TasksPlaced, ChainsClosed
  <2>2. \A f \in Frame : g \notin chain[f]
    BY <2>1 DEF IInv, TypeOK, ChainsClosed
  <2>3. ASSUME NEW f \in Frame, NEW n \in chain'[f]
        PROVE  f \in chain'[f] /\ n \in chain'[n] /\ chain'[n] \subseteq chain'[f]
    <3>1. CASE f # g
      BY <2>1, <2>2, <2>3, <3>1 DEF IInv, TypeOK, ChainsClosed
    <3>2. CASE f = g /\ n # g
      BY <2>1, <2>2, <2>3, <3>2 DEF IInv, TypeOK, ChainsClosed
    <3>3. CASE f = g /\ n = g
      BY <2>1, <2>3, <3>3 DEF IInv, TypeOK
    <3> QED BY <3>1, <3>2, <3>3
  <2>4. Base \in chain'[Base]
    BY <2>1 DEF IInv, TypeOK, ChainsClosed
  <2>5. ASSUME NEW f \in Frame \ {Base}, Base \in chain'[f]
        PROVE  parent'[f] \in Frame /\ Base \in chain'[parent'[f]]
    <3>1. CASE f # g
      BY <2>1, <2>5, <3>1 DEF IInv, TypeOK, ChainsClosed
    <3>2. CASE f = g
      BY <2>1, <3>2 DEF IInv, TypeOK
    <3> QED BY <3>1, <3>2
  <2> QED BY <2>3, <2>4, <2>5 DEF ChainsClosed
<1> QED BY <1>1, <1>2, StepObjects

\* Tasks stay at or below Base: calls go down, returns stop there.
LEMMA StepPlaced ==
  ASSUME IInv, NEW t \in Task, Step(t)
  PROVE  TasksPlaced'
<1>1. \A f \in Frame : Base \in chain[f] => Base \in chain'[f]
  BY FramesStay DEF IInv
<1>2. ASSUME NEW u \in Task, u # t
      PROVE  Base \in chain'[here'[u]] /\ (pending'[u] # NoFrame => Base \in chain'[pending'[u]])
  <2>1. here'[u] = here[u] /\ pending'[u] = pending[u]
    BY <1>2, StepLocal DEF IInv
  <2> QED BY <1>1, <2>1 DEF IInv, TypeOK, TasksPlaced
<1>3. Base \in chain'[here'[t]] /\ (pending'[t] # NoFrame => Base \in chain'[pending'[t]])
  <2>1. ASSUME NEW g \in Frame, OpenFrame(t, g)
        PROVE  here'[t] = here[t] /\ pending'[t] = g /\ Base \in chain'[g]
    BY <2>1 DEF IInv, TypeOK, TasksPlaced, OpenFrame
  <2>2. CASE Enter(t)
    BY <1>1, <2>2 DEF IInv, TypeOK, TasksPlaced, Enter
  <2>3. CASE Return(t)
    BY <1>1, <2>3 DEF IInv, TypeOK, TasksPlaced, ChainsClosed, Return
  <2>4. CASE Abandon(t)
    BY <1>1, <2>4 DEF IInv, TypeOK, TasksPlaced, Abandon
  <2>5. \/ here'[t] = here[t] /\ pending'[t] = pending[t]
        \/ Enter(t)
        \/ Return(t)
        \/ Abandon(t)
        \/ \E g \in Frame : OpenFrame(t, g)
    BY Zenon DEF Step, Locked, Call, PeekFrame, PeekRefuse, OpenFrame, Enter, Return, Charge, Reserve, Refund, Ask,
     Acquire, CheckFrame, Refuse, CheckDone, ApplyFrame, Release, Abandon, Catch, End
  <2> QED BY <1>1, <2>1, <2>2, <2>3, <2>4, <2>5 DEF IInv, TypeOK, TasksPlaced
<1> QED BY <1>2, <1>3 DEF TasksPlaced

\* A new frame's chain is its parent's and itself.
LEMMA StepParents ==
  ASSUME IInv, NEW t \in Task, Step(t)
  PROVE  ChainsFollowParents'
<1>1. CASE UNCHANGED objects
  BY <1>1 DEF IInv, ChainsFollowParents, objects
<1>2. ASSUME NEW g \in Frame, OpenFrame(t, g) PROVE ChainsFollowParents'
  <2>1. /\ chain[g] = {} /\ parent[g] \in Frame \cup {NoFrame}
        /\ chain' = [chain EXCEPT ![g] = {g} \cup chain[here[t]]]
        /\ parent' = [parent EXCEPT ![g] = here[t]]
        /\ here[t] \in Frame /\ here[t] \in chain[here[t]] /\ g # here[t]
    BY <1>2 DEF IInv, TypeOK, OpenFrame, TasksPlaced, ChainsClosed
  <2>2. /\ g # Base /\ g # Root /\ Base \in Frame /\ Root \in Frame
        /\ \A f \in Frame : f # g => chain'[f] = chain[f] /\ parent'[f] = parent[f]
        /\ chain'[g] = {g} \cup chain[here[t]] /\ parent'[g] = here[t]
    BY <2>1, BudgetAssumption DEF IInv, TypeOK, ChainsClosed, ChainsFollowParents
  <2>3. ASSUME NEW f \in Frame \ {Base}, Base \in chain'[f]
        PROVE  chain'[f] \subseteq {f} \cup chain'[parent'[f]]
    <3>1. CASE f = g
      BY <2>1, <2>2, <3>1
    <3>2. CASE f # g
      <4>1. parent[f] \in Frame /\ Base \in chain[parent[f]]
        BY <2>2, <2>3, <3>2 DEF IInv, ChainsClosed
      <4>2. parent[f] # g
        BY <2>1, <4>1
      <4> QED
        BY <2>2, <2>3, <3>2, <4>1, <4>2 DEF IInv, ChainsFollowParents
    <3> QED BY <3>1, <3>2
  <2>4. \A f \in Frame : parent'[f] # NoFrame => parent'[f] \in chain'[f]
    BY <2>1, <2>2 DEF IInv, ChainsFollowParents
  <2>5. chain'[Base] \subseteq {Base, Root} /\ chain'[Root] = {Root}
    BY <2>2 DEF IInv, ChainsFollowParents
  <2> QED BY <2>3, <2>4, <2>5 DEF ChainsFollowParents
<1> QED BY <1>1, <1>2, StepObjects

\* A task stays in its frame, or enters the one it prepared, or goes back to the
\* parent, holding nothing on the frame it leaves.
LEMMA StepMoves ==
  ASSUME IInv, NEW t \in Task, Step(t)
  PROVE  \/ here'[t] = here[t] /\ pending'[t] = pending[t]
         \/ here'[t] = here[t] /\ pending'[t] = NoFrame
         \/ \E g \in Frame : OpenFrame(t, g)
         \/ Enter(t)
         \/ Return(t)
<1>1. \/ here'[t] = here[t] /\ pending'[t] = pending[t]
      \/ Abandon(t)
      \/ \E g \in Frame : OpenFrame(t, g)
      \/ Enter(t)
      \/ Return(t)
  BY Zenon DEF Step, Locked, Call, PeekFrame, PeekRefuse, OpenFrame, Enter, Return, Charge, Reserve, Refund, Ask,
     Acquire, CheckFrame, Refuse, CheckDone, ApplyFrame, Release, Abandon, Catch, End
<1>2. Abandon(t) => here'[t] = here[t] /\ pending'[t] = NoFrame
  BY DEF IInv, TypeOK, Abandon
<1> QED BY <1>1, <1>2

\* A prepared frame stays below the caller's.
LEMMA StepCallsGoDown ==
  ASSUME IInv, NEW t \in Task, Step(t)
  PROVE  CallsGoDown'
<1> SUFFICES ASSUME NEW u \in Task, pending'[u] # NoFrame
             PROVE  chain'[here'[u]] \subseteq chain'[pending'[u]]
  BY DEF CallsGoDown
<1>0. \A f \in Frame : Base \in chain[f] => chain'[f] = chain[f]
  BY FramesStay DEF IInv
<1>1. /\ here[u] \in Frame /\ Base \in chain[here[u]]
      /\ pending[u] # NoFrame => /\ pending[u] \in Frame /\ Base \in chain[pending[u]]
                                 /\ chain[here[u]] \subseteq chain[pending[u]]
  BY DEF IInv, TypeOK, TasksPlaced, CallsGoDown
<1>2. CASE here'[u] = here[u] /\ pending'[u] = pending[u]
  BY <1>0, <1>1, <1>2
<1>3. ASSUME NEW g \in Frame, OpenFrame(t, g), u = t
      PROVE  chain'[here'[u]] \subseteq chain'[pending'[u]]
  <2>1. /\ here'[t] = here[t] /\ pending'[t] = g /\ chain[g] = {}
        /\ chain' = [chain EXCEPT ![g] = {g} \cup chain[here[t]]]
    BY <1>3 DEF IInv, TypeOK, OpenFrame
  <2>2. chain'[g] = {g} \cup chain[here[t]]
    BY <2>1 DEF IInv, TypeOK
  <2> QED BY <1>0, <1>1, <1>3, <2>1, <2>2
<1>4. (Enter(t) \/ Return(t)) /\ u = t => pending'[u] = NoFrame
  BY DEF IInv, TypeOK, Enter, Return
<1> QED BY <1>2, <1>3, <1>4, StepMoves, StepLocal DEF IInv

\* A task holds money only where it works: calls go down, a frame is left only
\* when nothing is held on it, and a task ends only where it holds nothing.
LEMMA StepHeldWhere ==
  ASSUME IInv, NEW t \in Task, Step(t)
  PROVE  HeldWhereWorking'
<1> SUFFICES ASSUME NEW u \in Task, NEW f \in Frame, held'[u][f] # 0
             PROVE  pc'[u] # "end" /\ f \in chain'[here'[u]] /\ Base \in chain'[f]
  BY DEF HeldWhereWorking
<1>0. \A n \in Frame : Base \in chain[n] => chain'[n] = chain[n]
  BY FramesStay DEF IInv
<1>1. here[u] \in Frame /\ Base \in chain[here[u]]
  BY DEF IInv, TypeOK, TasksPlaced
<1>2. CASE u = t /\ Release(t)
  <2>1. here'[u] = here[u] /\ pc'[u] # "end"
    BY <1>2 DEF IInv, TypeOK, Release
  <2>2. CASE f = here[u]
    BY <1>0, <1>1, <2>1, <2>2 DEF IInv, ChainsClosed
  <2>3. CASE f # here[u]
    <3>1. held'[u][f] = held[u][f]
      BY <1>2, <2>3 DEF IInv, TypeOK, Release
    <3> QED BY <1>0, <1>1, <2>1, <3>1 DEF IInv, HeldWhereWorking
  <2> QED BY <2>2, <2>3
<1>3. CASE ~ (u = t /\ Release(t))
  <2>1. held'[u] = held[u]
    BY <1>3, StepLocal, StepBooks DEF IInv, books
  <2>2. pc[u] # "end" /\ f \in chain[here[u]] /\ Base \in chain[f]
    BY <2>1 DEF IInv, HeldWhereWorking
  <2>3. pc'[u] # "end"
    <3>1. CASE u = t /\ End(t)
      <4>1. here[t] = Base /\ held[t][Base] = 0 /\ f # Base
        BY <2>1, <3>1 DEF End
      <4>2. f = Root /\ chain[Root] = {Root}
        BY <2>2, <3>1, <4>1 DEF IInv, ChainsFollowParents
      <4> QED BY <2>2, <4>1, <4>2
    <3>2. CASE ~ (u = t /\ End(t))
      <4>1. ASSUME u = t PROVE pc'[t] # "end"
        <5>1. \/ UNCHANGED pc
              \/ \E b \in Limit : Call(t, b)
              \/ \E n \in Frame : PeekRefuse(t, n) \/ OpenFrame(t, n) \/ Refuse(t, n)
              \/ \E a \in Amount \cup ArgAmount : Charge(t, a)
              \/ \E a \in Amount : Reserve(t, a)
              \/ Refund(t) \/ Acquire(t) \/ CheckDone(t) \/ Catch(t) \/ Release(t)
          BY Zenon, <3>2, <4>1 DEF Step, Locked, PeekFrame, Enter, Return, CheckFrame, ApplyFrame, Abandon
        <5>2. pc \in [Task -> {"run", "peek", "lock", "check", "apply", "raise", "end"}]
          BY DEF IInv, TypeOK
        <5>3. /\ \A b \in Limit : Call(t, b) => pc'[t] = "peek"
              /\ \A n \in Frame : PeekRefuse(t, n) => pc'[t] = "raise"
              /\ \A n \in Frame : OpenFrame(t, n) => pc'[t] = "run"
              /\ \A n \in Frame : Refuse(t, n) => pc'[t] = "raise"
          BY <5>2 DEF Call, PeekRefuse, OpenFrame, Refuse
        <5>4. /\ \A a \in Amount \cup ArgAmount : Charge(t, a) => pc'[t] = "lock"
              /\ \A a \in Amount : Reserve(t, a) => pc'[t] = "lock"
              /\ Refund(t) => pc'[t] = "lock"
          BY <5>2 DEF Charge, Reserve, Refund, Ask
        <5>5. /\ Acquire(t) => pc'[t] # "end"
              /\ CheckDone(t) => pc'[t] = "apply"
              /\ Catch(t) => pc'[t] = "run"
          BY <5>2 DEF Acquire, CheckDone, Catch
        <5> QED BY <1>3, <2>2, <4>1, <5>1, <5>3, <5>4, <5>5
      <4> QED BY <2>2, <4>1, StepLocal DEF IInv
    <3> QED BY <3>1, <3>2
  <2>4. CASE here'[u] = here[u]
    BY <1>0, <1>1, <2>2, <2>3, <2>4
  <2>5. CASE u = t /\ Enter(t)
    <3>1. here'[t] = pending[t] /\ pending[t] # NoFrame /\ pending[t] \in Frame
      BY <2>5 DEF IInv, TypeOK, Enter
    <3>2. chain[here[t]] \subseteq chain[pending[t]] /\ Base \in chain[pending[t]]
      BY <3>1 DEF IInv, CallsGoDown, TasksPlaced
    <3> QED BY <1>0, <2>2, <2>3, <2>5, <3>1, <3>2
  <2>6. CASE u = t /\ Return(t)
    <3>1. here[t] # Base /\ held[t][here[t]] = 0 /\ here'[t] = parent[here[t]]
      BY <2>6 DEF IInv, TypeOK, Return
    <3>2. /\ parent[here[t]] \in Frame /\ Base \in chain[parent[here[t]]]
          /\ chain[here[t]] \subseteq {here[t]} \cup chain[parent[here[t]]]
      BY <1>1, <2>6, <3>1 DEF IInv, ChainsClosed, ChainsFollowParents
    <3>3. f # here[t]
      BY <2>1, <2>6, <3>1
    <3> QED BY <1>0, <2>2, <2>3, <2>6, <3>1, <3>2, <3>3
  <2>7. u # t => here'[u] = here[u]
    BY StepLocal DEF IInv
  <2>8. ASSUME NEW g \in Frame, OpenFrame(t, g) PROVE here'[t] = here[t]
    BY <2>8 DEF OpenFrame
  <2> QED BY <2>4, <2>5, <2>6, <2>7, <2>8, StepMoves
<1> QED BY <1>2, <1>3

\* At most one task is in a pass: the one that holds the lock.
LEMMA StepOwned ==
  ASSUME IInv, NEW t \in Task, Step(t)
  PROVE  LockOwned'
<1>1. CASE Acquire(t)
  BY <1>1, StepLocal, BudgetAssumption DEF IInv, TypeOK, LockOwned, Acquire
<1>2. ASSUME NEW n \in Frame, Refuse(t, n) PROVE LockOwned'
  BY <1>2, StepLocal, BudgetAssumption DEF IInv, TypeOK, LockOwned, Refuse
<1>3. CASE Release(t)
  <2>1. pc'[t] \in {"run", "raise"}
    BY <1>3 DEF IInv, TypeOK, Release
  <2> QED BY <1>3, <2>1, StepLocal, BudgetAssumption DEF IInv, TypeOK, LockOwned, Release
<1>4. CASE UNCHANGED holder /\ (pc'[t] \in {"check", "apply"} <=> pc[t] \in {"check", "apply"})
  BY <1>4, StepLocal DEF IInv, LockOwned
<1>5. \/ UNCHANGED holder /\ (pc'[t] \in {"check", "apply"} <=> pc[t] \in {"check", "apply"})
      \/ Acquire(t)
      \/ Release(t)
      \/ \E n \in Frame : Refuse(t, n)
  BY DEF IInv, TypeOK, Step, Locked, Call, PeekFrame, PeekRefuse, OpenFrame, Enter, Return, Charge, Reserve, Refund, Ask,
     Acquire, CheckFrame, Refuse, CheckDone, ApplyFrame, Release, Abandon, Catch, End
<1> QED BY <1>1, <1>2, <1>3, <1>4, <1>5

\* Frames that do not exist stay untouched.
LEMMA StepFresh ==
  ASSUME IInv, NEW t \in Task, Step(t)
  PROVE  FreshFrames'
<1> SUFFICES ASSUME NEW f \in Frame, chain'[f] = {}
             PROVE  spent'[f] = 0 /\ charged'[f] = 0 /\ reserved'[f] = 0
  BY DEF FreshFrames
<1>1. chain[f] = {} /\ spent[f] = 0 /\ charged[f] = 0 /\ reserved[f] = 0
  BY FramesStay DEF IInv, FreshFrames
<1>2. f \notin chain[here[t]]
  BY <1>1 DEF IInv, TypeOK, ChainsClosed
<1>3. spent'[f] = spent[f]
  BY <1>2, StepSpent DEF IInv, TypeOK, ApplyFrame, NextFrame, PassesSound, PassSound
<1>4. charged'[f] = charged[f] /\ reserved'[f] = reserved[f]
  BY <1>2, StepBooks DEF IInv, TypeOK, books, Release, Moved
<1> QED BY <1>1, <1>3, <1>4

\* A block that holds money runs in a frame that exists.
LEMMA StepFreshHold ==
  ASSUME IInv, NEW t \in Task, Step(t)
  PROVE  FreshHold'
<1> SUFFICES ASSUME NEW f \in Frame, chain'[f] = {}, NEW u \in Task
             PROVE  held'[u][f] = 0
  BY DEF FreshHold
<1>1. chain[f] = {} /\ held[u][f] = 0
  BY FramesStay DEF IInv, FreshHold
<1>2. here[t] # f
  BY <1>1 DEF IInv, TasksPlaced
<1>3. held'[u][f] = held[u][f]
  <2>1. held \in [Task -> [Frame -> Nat]] /\ here[t] \in Frame
    BY DEF IInv, TypeOK
  <2>2. \/ held' = held
        \/ held' = [held EXCEPT ![t][here[t]] = @ + Delta(t)]
    BY StepBooks DEF books, Release
  <2> QED
    BY <1>2, <2>1, <2>2
<1> QED
  BY <1>1, <1>3

\* A reservation and what its block holds move together, and opening a frame adds
\* no block that holds anything.
LEMMA StepReserved ==
  ASSUME IInv, NEW t \in Task, Step(t)
  PROVE  ReservedIsHeld'
<1> SUFFICES ASSUME NEW n \in Frame
             PROVE  reserved'[n] = HeldBy(held', Blocks(n)')
  BY DEF ReservedIsHeld, HeldOn
<1>1. /\ reserved[n] = HeldBy(held, Blocks(n)) /\ held \in [Task -> [Frame -> Nat]]
      /\ Blocks(n) \in SUBSET (Task \X Frame) /\ reserved \in [Frame -> Int]
  BY DEF IInv, TypeOK, ReservedIsHeld, HeldOn, Blocks
<1>2. CASE UNCHANGED <<objects, reserved, held>>
  <2>1. Blocks(n)' = Blocks(n)
    BY <1>2 DEF Blocks, objects
  <2> QED
    BY <1>1, <1>2, <2>1
<1>3. ASSUME NEW g \in Frame, OpenFrame(t, g)
      PROVE  reserved'[n] = HeldBy(held', Blocks(n)')
  <2>1. /\ chain[g] = {} /\ chain' = [chain EXCEPT ![g] = {g} \cup chain[here[t]]]
        /\ held' = held /\ reserved' = reserved
    BY <1>3 DEF OpenFrame, books
  <2>2. /\ Blocks(n)' \in SUBSET (Task \X Frame)
        /\ Blocks(n) \in SUBSET Blocks(n)'
        /\ \A tf \in Blocks(n)' \ Blocks(n) : held[tf[1]][tf[2]] = 0
    BY <2>1 DEF IInv, TypeOK, FreshHold, Blocks
  <2>3. HeldBy(held, Blocks(n)') = HeldBy(held, Blocks(n))
    BY <1>1, <2>2, HeldByMost
  <2> QED
    BY <1>1, <2>1, <2>3
<1>4. ASSUME Release(t), op[t].kind # "charge"
      PROVE  reserved'[n] = HeldBy(held', Blocks(n)')
  <2>1. /\ Blocks(n)' = Blocks(n) /\ here[t] \in Frame
        /\ held' = Shifted(held, t, here[t], Delta(t))
        /\ reserved' = Moved(reserved, here[t], Delta(t))
    BY <1>4 DEF IInv, TypeOK, Release, Blocks, objects, Shifted
  <2>2. Delta(t) \in Int /\ held[t][here[t]] + Delta(t) \in Nat
    <3>1. op[t].amount \in Nat /\ held[t][here[t]] \in Nat
      BY DEF IInv, TypeOK
    <3>2. op[t].kind = "refund" => op[t].amount = held[t][here[t]]
      BY <1>4 DEF IInv, PassesSound, PassSound, Release
    <3> QED
      BY <3>1, <3>2 DEF Delta
  <2>3. HeldBy(held', Blocks(n)) =
          IF <<t, here[t]>> \in Blocks(n) THEN HeldBy(held, Blocks(n)) + Delta(t)
          ELSE HeldBy(held, Blocks(n))
    BY <1>1, <2>1, <2>2, HeldByMoves
  <2>4. <<t, here[t]>> \in Blocks(n) <=> n \in chain[here[t]]
    BY <2>1 DEF Blocks
  <2> QED
    BY <1>1, <2>1, <2>3, <2>4 DEF Moved
<1>5. CASE Release(t) /\ op[t].kind = "charge"
  BY <1>2, <1>5 DEF Release
<1> QED
  BY <1>2, <1>3, <1>4, <1>5, StepObjects, StepBooks DEF books

\* A task keeps its capped frames until it moves to another frame.
LEMMA CappedStays ==
  ASSUME IInv, NEW t \in Task, Step(t), NEW u \in Task
  PROVE  /\ chain'[here[u]] = chain[here[u]]
         /\ {n \in chain'[here[u]] : limit'[n] # NoLimit} = Capped(here[u])
         /\ \A n \in Capped(here[u]) : limit'[n] = limit[n]
<1>1. here[u] \in Frame /\ chain[here[u]] # {} /\ chain[here[u]] \subseteq Frame
  BY DEF IInv, TypeOK, TasksPlaced
<1>2. \A n \in chain[here[u]] : chain[n] # {}
  BY <1>1 DEF IInv, ChainsClosed
<1>3. chain'[here[u]] = chain[here[u]]
  BY <1>1, FramesStay DEF IInv
<1>4. \A n \in chain[here[u]] : limit'[n] = limit[n]
  BY <1>1, <1>2, FramesStay DEF IInv
<1> QED BY <1>3, <1>4 DEF Capped

\* What a pass has established stays true until the lock is given back.
LEMMA StepPasses ==
  ASSUME IInv, NEW t \in Task, Step(t)
  PROVE  PassesSound'
<1> USE DEF PassSound
<1>1. ASSUME NEW u \in Task, u # t PROVE PassSound(u)'
  <2>1. /\ pc'[u] = pc[u] /\ op'[u] = op[u] /\ todo'[u] = todo[u]
        /\ here'[u] = here[u] /\ held'[u] = held[u]
    BY <1>1, StepLocal DEF IInv
  <2>2. PassSound(u)
    BY DEF IInv, PassesSound, PassSound
  <2>3. pc[u] \in {"check", "apply"} => UNCHANGED spent
    <3>1. ASSUME NEW n \in Frame, ApplyFrame(t, n) PROVE pc[u] \notin {"check", "apply"}
      BY <1>1, <3>1 DEF IInv, LockOwned, ApplyFrame
    <3> QED BY <3>1, StepSpent
  <2>4. /\ chain'[here'[u]] = chain[here[u]]
        /\ Capped(here[u])' = Capped(here[u])
        /\ \A n \in Capped(here[u]) : limit'[n] = limit[n]
    BY <2>1, CappedStays DEF Capped
  <2> QED BY <2>1, <2>2, <2>3, <2>4
<1>2. PassSound(t)'
  <2>0. PassSound(t) /\ pc[t] \in {"run", "peek", "lock", "check", "apply", "raise", "end"}
    BY DEF IInv, PassesSound, PassSound, TypeOK
  <2>1. CASE Acquire(t)
    BY <2>0, <2>1 DEF IInv, TypeOK, objects, books, Capped, Acquire, Kind
  <2>2. ASSUME NEW n \in Frame, CheckFrame(t, n) PROVE PassSound(t)'
    BY <2>0, <2>2 DEF IInv, TypeOK, objects, books, Capped, CheckFrame
  <2>3. CASE CheckDone(t)
    BY <2>0, <2>3 DEF IInv, TypeOK, objects, books, Capped, CheckDone
  <2>4. ASSUME NEW n \in Frame, ApplyFrame(t, n) PROVE PassSound(t)'
    BY <2>0, <2>4 DEF IInv, TypeOK, objects, books, Capped, ApplyFrame
  <2>5. ASSUME NEW kind \in {"charge", "reserve", "refund"}, NEW a, Ask(t, kind, a),
               kind = "refund" => a = held[t][here[t]]
        PROVE  PassSound(t)'
    BY <2>5 DEF IInv, TypeOK, objects, books, Ask
  <2>6. pc'[t] \in {"run", "peek", "raise", "end"} => PassSound(t)'
    OBVIOUS
  <2>7. \/ pc'[t] \in {"run", "peek", "raise", "end"}
        \/ Acquire(t) \/ CheckDone(t)
        \/ \E n \in Frame : CheckFrame(t, n) \/ ApplyFrame(t, n)
        \/ \E kind \in {"charge", "reserve", "refund"}, a \in Nat :
             Ask(t, kind, a) /\ (kind = "refund" => a = held[t][here[t]])
    <3>1. CASE \E a \in Amount \cup ArgAmount : Charge(t, a)
      BY <3>1, BudgetAssumption DEF Charge
    <3>2. CASE \E a \in Amount : Reserve(t, a)
      BY <3>2, BudgetAssumption DEF Reserve
    <3>3. CASE Refund(t)
      BY <3>3 DEF IInv, TypeOK, Refund
    <3>4. CASE \E b \in Limit : Call(t, b)
      BY <3>4 DEF IInv, TypeOK, Call
    <3>5. CASE \E n \in Frame : PeekFrame(t, n) \/ PeekRefuse(t, n) \/ OpenFrame(t, n) \/ Refuse(t, n)
      BY <3>5 DEF IInv, TypeOK, PeekFrame, PeekRefuse, OpenFrame, Refuse
    <3>6. CASE Enter(t) \/ Return(t) \/ Abandon(t) \/ Catch(t) \/ End(t)
      BY <3>6 DEF IInv, TypeOK, Enter, Return, Abandon, Catch, End
    <3>7. CASE Release(t)
      BY <3>7 DEF IInv, TypeOK, Release
    <3> QED BY <3>1, <3>2, <3>3, <3>4, <3>5, <3>6, <3>7 DEF Step, Locked
  <2> QED BY <2>1, <2>2, <2>3, <2>4, <2>5, <2>6, <2>7
<1> QED BY <1>1, <1>2 DEF PassesSound, PassSound

\* Requests stay within the amounts a program asks for.
LEMMA StepPrices ==
  ASSUME IInv, NEW t \in Task, Step(t)
  PROVE  PricesKnown'
<1> SUFFICES ASSUME NEW u \in Task
             PROVE  /\ pc'[u] = "peek" => op'[u].amount \in Limit
                    /\ pc'[u] \in {"lock", "check", "apply"} =>
                         /\ op'[u].kind = "charge" => op'[u].amount \in Amount \cup ArgAmount
                         /\ op'[u].kind = "reserve" =>
                              op'[u].amount \in Amount /\ held'[u][here'[u]] = 0
                         /\ op'[u].kind = "refund" => held'[u][here'[u]] > 0
  BY DEF PricesKnown
<1>1. CASE u # t
  BY <1>1, StepLocal DEF IInv, PricesKnown
<1>2. CASE u = t
  <2>1. CASE \E a \in Amount \cup ArgAmount : Charge(t, a)
    BY <1>2, <2>1 DEF IInv, TypeOK, Charge, Ask, books
  <2>2. CASE \E a \in Amount : Reserve(t, a)
    BY <1>2, <2>2 DEF IInv, TypeOK, Reserve, Ask, books
  <2>3. CASE Refund(t)
    BY <1>2, <2>3 DEF IInv, TypeOK, Refund, Ask, books
  <2>4. CASE \E b \in Limit : Call(t, b)
    BY <1>2, <2>4 DEF IInv, TypeOK, Call
  <2>5. CASE \E n \in Frame : OpenFrame(t, n) \/ PeekRefuse(t, n) \/ Refuse(t, n)
    BY <1>2, <2>5 DEF IInv, TypeOK, OpenFrame, PeekRefuse, Refuse
  <2>6. CASE Release(t) \/ Enter(t) \/ Return(t) \/ Abandon(t) \/ Catch(t) \/ End(t)
    BY <1>2, <2>6 DEF IInv, TypeOK, Release, Enter, Return, Abandon, Catch, End
  <2>7. CASE \E n \in Frame : PeekFrame(t, n)
    BY <1>2, <2>7 DEF IInv, TypeOK, PricesKnown, PeekFrame
  <2>8. CASE Acquire(t) \/ CheckDone(t) \/ \E n \in Frame : CheckFrame(t, n) \/ ApplyFrame(t, n)
    BY <1>2, <2>8 DEF IInv, TypeOK, PricesKnown, books, Acquire, CheckDone, CheckFrame, ApplyFrame
  <2> QED BY <2>1, <2>2, <2>3, <2>4, <2>5, <2>6, <2>7, <2>8 DEF Step, Locked
<1> QED BY <1>1, <1>2

\* No frame goes past its limit: what is written was checked under the same lock.
LEMMA StepWithin ==
  ASSUME IInv, NEW t \in Task, Step(t)
  PROVE  SpentWithinLimit'
<1>1. ASSUME NEW n \in Frame, ApplyFrame(t, n) PROVE SpentWithinLimit'
  <2>1. op[t].kind # "refund" /\ limit[n] # NoLimit => spent[n] + op[t].amount <= limit[n]
    BY <1>1 DEF IInv, PassesSound, PassSound, ApplyFrame, NextFrame, Capped
  <2>2. limit[n] # NoLimit => spent[n] + Delta(t) <= limit[n]
    BY <2>1 DEF IInv, TypeOK, SpentWithinLimit, Delta
  <2> QED BY <1>1, <2>2 DEF IInv, TypeOK, SpentWithinLimit, objects, ApplyFrame
<1>2. ASSUME NEW n \in Frame, OpenFrame(t, n) PROVE SpentWithinLimit'
  <2>1. spent[n] = 0 /\ op[t].amount \in Nat
    BY <1>2 DEF IInv, TypeOK, FreshFrames, OpenFrame
  <2>2. limit' = [limit EXCEPT ![n] = op[t].amount] /\ spent' = spent
    BY <1>2 DEF OpenFrame
  <2> QED BY <2>1, <2>2 DEF IInv, TypeOK, SpentWithinLimit
<1>3. CASE UNCHANGED <<objects, spent>>
  BY <1>3 DEF IInv, SpentWithinLimit, objects
<1> QED BY <1>1, <1>2, <1>3, StepObjects, StepSpent

\* Every step keeps each running total equal to its books.
LEMMA StepBalance ==
  ASSUME IInv, NEW t \in Task, Step(t)
  PROVE  BooksBalance'
<1> SUFFICES ASSUME NEW m \in Frame
             PROVE  spent'[m] = charged'[m] + reserved'[m] + InFlight(m)'
  BY DEF BooksBalance
<1>0. /\ spent[m] = charged[m] + reserved[m] + InFlight(m)
      /\ spent[m] \in Int /\ charged[m] \in Int /\ reserved[m] \in Int
  BY DEF IInv, TypeOK, BooksBalance
<1>1. ASSUME NEW n \in Frame, ApplyFrame(t, n)
      PROVE  spent'[m] = charged'[m] + reserved'[m] + InFlight(m)'
  <2>1. holder = t /\ holder' = t /\ t # Nobody
    BY <1>1, BudgetAssumption DEF IInv, LockOwned, ApplyFrame
  <2>2. n \in chain[here[t]] /\ n \in todo[t]
    BY <1>1 DEF IInv, PassesSound, PassSound, ApplyFrame, NextFrame
  <2>3. Written(t) = chain[here[t]] \ todo[t]
    BY <1>1 DEF Written, ApplyFrame
  <2>4. Written(t)' = chain[here[t]] \ (todo[t] \ {n})
    BY <1>1 DEF IInv, TypeOK, Written, ApplyFrame, objects
  <2>5. Delta(t)' = Delta(t) /\ Delta(t) \in Int
    BY <1>1 DEF IInv, TypeOK, Delta, ApplyFrame
  <2>6. /\ spent' = [spent EXCEPT ![n] = spent[n] + Delta(t)]
        /\ charged' = charged /\ reserved' = reserved
    BY <1>1 DEF ApplyFrame, books
  <2>7. CASE m = n
    <3>1. InFlight(m) = 0 /\ InFlight(m)' = Delta(t)
      BY <2>1, <2>2, <2>3, <2>4, <2>5, <2>7 DEF InFlight
    <3> QED BY <1>0, <2>5, <2>6, <2>7, <3>1 DEF IInv, TypeOK
  <2>8. CASE m # n
    <3>1. InFlight(m)' = InFlight(m)
      BY <2>1, <2>3, <2>4, <2>5, <2>8 DEF InFlight
    <3> QED BY <1>0, <2>6, <2>8, <3>1 DEF IInv, TypeOK
  <2> QED BY <2>7, <2>8
<1>2. CASE Release(t)
  <2>1. holder = t /\ holder' = Nobody /\ t # Nobody
    BY <1>2, BudgetAssumption DEF IInv, LockOwned, Release
  <2>2. Written(t) = chain[here[t]]
    BY <1>2 DEF Written, Release
  <2>3. InFlight(m) = (IF m \in chain[here[t]] THEN Delta(t) ELSE 0) /\ InFlight(m)' = 0
    BY <2>1, <2>2 DEF InFlight
  <2>4. op[t].kind # "open" /\ op[t].amount \in Nat
    BY <1>2 DEF IInv, TypeOK, PassesSound, PassSound, Release
  <2>5. CASE op[t].kind = "charge"
    BY <1>0, <1>2, <2>3, <2>4, <2>5 DEF Release, Moved, Delta
  <2>6. CASE op[t].kind # "charge"
    BY <1>0, <1>2, <2>3, <2>4, <2>6 DEF Release, Moved, Delta
  <2> QED BY <2>5, <2>6
<1>3. ASSUME UNCHANGED <<spent, charged, reserved>>, InFlight(m)' = InFlight(m)
      PROVE  spent'[m] = charged'[m] + reserved'[m] + InFlight(m)'
  BY <1>0, <1>3
<1>4. CASE Acquire(t)
  <2>1. Written(t)' = {} /\ holder' = t /\ holder = Nobody
    BY <1>4 DEF IInv, TypeOK, Written, Acquire, objects
  <2>2. InFlight(m)' = 0 /\ InFlight(m) = 0
    BY <2>1 DEF InFlight
  <2> QED BY <1>3, <1>4, <2>2 DEF Acquire, books
<1>5. ASSUME NEW n \in Frame, Refuse(t, n)
      PROVE  spent'[m] = charged'[m] + reserved'[m] + InFlight(m)'
  <2>1. Written(t) = {} /\ holder = t /\ holder' = Nobody
    BY <1>5 DEF IInv, LockOwned, Written, Refuse
  <2>2. InFlight(m)' = 0 /\ InFlight(m) = 0
    BY <2>1 DEF InFlight
  <2> QED BY <1>3, <1>5, <2>2 DEF Refuse, books
<1>6. CASE CheckDone(t)
  <2>1. Written(t) = {} /\ Written(t)' = {} /\ holder = t /\ holder' = t
    BY <1>6 DEF IInv, TypeOK, LockOwned, Written, CheckDone, objects
  <2>2. InFlight(m)' = 0 /\ InFlight(m) = 0
    BY <2>1 DEF InFlight
  <2> QED BY <1>3, <1>6, <2>2 DEF CheckDone, books
<1>7. ASSUME NEW n \in Frame, CheckFrame(t, n)
      PROVE  spent'[m] = charged'[m] + reserved'[m] + InFlight(m)'
  <2>1. Written(t) = {} /\ Written(t)' = {} /\ holder = t /\ holder' = t
    BY <1>7 DEF IInv, TypeOK, LockOwned, Written, CheckFrame
  <2>2. InFlight(m)' = 0 /\ InFlight(m) = 0
    BY <2>1 DEF InFlight
  <2> QED BY <1>3, <1>7, <2>2 DEF CheckFrame, books
<1>8. CASE UNCHANGED <<spent, books, holder>> /\ pc[t] \notin {"check", "apply"}
  <2>1. CASE holder = Nobody
    BY <1>3, <1>8, <2>1 DEF InFlight, books
  <2>2. CASE holder # Nobody
    <3>1. holder \in Task /\ holder # t
      BY <1>8, <2>2 DEF IInv, TypeOK, LockOwned
    <3>2. /\ pc'[holder] = pc[holder] /\ op'[holder] = op[holder]
          /\ todo'[holder] = todo[holder] /\ here'[holder] = here[holder]
      BY <3>1, StepLocal DEF IInv
    <3>3. chain'[here[holder]] = chain[here[holder]]
      BY <3>1, CappedStays
    <3>4. Written(holder)' = Written(holder) /\ Delta(holder)' = Delta(holder)
      BY <1>8, <3>2, <3>3 DEF Written, Delta
    <3> QED BY <1>3, <1>8, <3>4 DEF InFlight, books
  <2> QED BY <2>1, <2>2
<1>9. \/ UNCHANGED <<spent, books, holder>> /\ pc[t] \notin {"check", "apply"}
      \/ Release(t)
      \/ Acquire(t)
      \/ CheckDone(t)
      \/ \E n \in Frame : ApplyFrame(t, n) \/ Refuse(t, n) \/ CheckFrame(t, n)
  BY DEF Step, Locked, Call, PeekFrame, PeekRefuse, OpenFrame, Enter, Return, Charge, Reserve, Refund, Ask,
     Acquire, CheckFrame, Refuse, CheckDone, ApplyFrame, Release, Abandon, Catch, End
<1> QED BY <1>1, <1>2, <1>4, <1>5, <1>6, <1>7, <1>8, <1>9

\* A charge reaches all ancestors of the frame it reaches.
LEMMA StepCover ==
  ASSUME IInv, NEW t \in Task, Step(t)
  PROVE  ChargesCover'
<1>1. CASE Release(t)
  <2>1. chain' = chain
    BY <1>1 DEF Release, objects
  <2>2. \A f \in Frame : charged'[f] =
          IF op[t].kind = "charge" /\ f \in chain[here[t]]
          THEN charged[f] + op[t].amount ELSE charged[f]
    BY <1>1 DEF IInv, TypeOK, Release, Moved
  <2>3. SUFFICES ASSUME NEW f \in Frame, NEW n \in chain[f]
                 PROVE  charged'[f] <= charged'[n]
    BY <2>1 DEF ChargesCover
  <2>4. /\ charged[f] <= charged[n] /\ n \in Frame
        /\ charged[f] \in Nat /\ charged[n] \in Nat /\ op[t].amount \in Nat
    BY DEF IInv, TypeOK, ChargesCover
  <2>5. f \in chain[here[t]] => n \in chain[here[t]]
    BY DEF IInv, TypeOK, ChainsClosed
  <2> QED BY <2>2, <2>4, <2>5
<1>2. ASSUME UNCHANGED charged, NEW g \in Frame, OpenFrame(t, g) PROVE ChargesCover'
  <2>1. charged[g] = 0 /\ chain' = [chain EXCEPT ![g] = {g} \cup chain[here[t]]]
    BY <1>2 DEF IInv, FreshFrames, OpenFrame
  <2>2. \A n \in Frame : 0 <= charged[n]
    BY DEF IInv, TypeOK
  <2> QED BY <1>2, <2>1, <2>2 DEF IInv, TypeOK, ChargesCover
<1>3. CASE UNCHANGED <<objects, charged>>
  BY <1>3 DEF IInv, ChargesCover, objects
<1> QED BY <1>1, <1>2, <1>3, StepBooks, StepObjects DEF books

\* The inductive invariant is inductive.
LEMMA NextIInv == IInv /\ [Next]_vars => IInv'
<1>1. ASSUME IInv, NEW t \in Task, Step(t) PROVE IInv'
  <2>1. TypeOK'
    BY <1>1, StepTypeOK DEF IInv
  <2>2. ChainsClosed' /\ TasksPlaced' /\ LockOwned' /\ FreshFrames' /\ PricesKnown'
    BY <1>1, StepChains, StepPlaced, StepOwned, StepFresh, StepPrices
  <2>4. FreshHold' /\ ReservedIsHeld'
    BY <1>1, StepFreshHold, StepReserved
  <2>3. PassesSound' /\ SpentWithinLimit' /\ BooksBalance' /\ ChargesCover'
    BY <1>1, StepPasses, StepWithin, StepBalance, StepCover
  <2>5. ChainsFollowParents' /\ CallsGoDown' /\ HeldWhereWorking'
    BY <1>1, StepParents, StepCallsGoDown, StepHeldWhere
  <2> QED BY <2>1, <2>2, <2>3, <2>4, <2>5 DEF IInv
<1>2. ASSUME IInv, UNCHANGED vars PROVE IInv'
  <2>1. TypeOK' /\ ChainsClosed' /\ TasksPlaced' /\ FreshFrames'
    BY <1>2 DEF IInv, vars, objects, books, TypeOK, ChainsClosed, TasksPlaced, FreshFrames
  <2>2. LockOwned' /\ SpentWithinLimit' /\ ChargesCover'
    BY <1>2 DEF IInv, vars, objects, books, LockOwned, SpentWithinLimit, ChargesCover
  <2>3. PassesSound' /\ PricesKnown'
    BY <1>2 DEF IInv, vars, objects, books, PassesSound, PassSound, Capped, PricesKnown
  <2>4. BooksBalance'
    BY <1>2 DEF IInv, vars, objects, books, BooksBalance, InFlight, Written, Delta
  <2>5. FreshHold' /\ ReservedIsHeld'
    BY <1>2 DEF IInv, vars, objects, books, FreshHold, ReservedIsHeld, HeldOn, Blocks
  <2>6. ChainsFollowParents' /\ CallsGoDown' /\ HeldWhereWorking'
    BY <1>2 DEF IInv, vars, objects, books, ChainsFollowParents, CallsGoDown, HeldWhereWorking
  <2> QED BY <2>1, <2>2, <2>3, <2>4, <2>5, <2>6 DEF IInv
<1> QED BY <1>1, <1>2 DEF Next, Finished

-----------------------------------------------------------------------------
\* The inductive invariant holds in every behaviour.
LEMMA Inductive == Spec => []IInv
BY InitIInv, NextIInv, PTL DEF Spec

\* Every variable keeps its type, for any tasks, frames and prices.
THEOREM BudgetTypeCorrect == Spec => []TypeOK
<1>1. IInv => TypeOK
  BY DEF IInv
<1> QED BY <1>1, Inductive, PTL

\* No capped frame of Budget is ever past its limit, however many tasks charge
\* and reserve at once and however deep the calls nest.
THEOREM NoOverspend == Spec => []SpentWithinLimit
<1>1. IInv => SpentWithinLimit
  BY DEF IInv
<1> QED BY <1>1, Inductive, PTL

\* The running total a frame keeps is what was charged and what is reserved, up
\* to the request being written.
THEOREM TotalsAccountForMoney == Spec => []BooksBalance
<1>1. IInv => BooksBalance
  BY DEF IInv
<1> QED BY <1>1, Inductive, PTL

\* Calls that returned or failed and tasks that ended leave no reservation on any
\* frame: what a frame without work in it has spent is what was charged there.
THEOREM ReservationsAreReturned == Spec => []NothingStaysReserved
<1>1. ASSUME IInv, holder = Nobody, NEW n \in Frame,
             \A t \in Task : pc[t] = "end" \/ n \notin chain[here[t]]
      PROVE  spent[n] = charged[n]
  <2>1. held \in [Task -> [Frame -> Nat]] /\ Blocks(n) \in SUBSET (Task \X Frame)
    BY <1>1 DEF IInv, TypeOK, Blocks
  <2>2. ASSUME NEW t \in Task, NEW f \in Frame, n \in chain[f] PROVE held[t][f] = 0
    <3>1. SUFFICES ASSUME held[t][f] # 0 PROVE FALSE
      OBVIOUS
    <3>2. pc[t] # "end" /\ f \in chain[here[t]] /\ here[t] \in Frame
      BY <1>1, <3>1 DEF IInv, TypeOK, HeldWhereWorking
    <3>3. n \in chain[here[t]]
      BY <1>1, <2>2, <3>2 DEF IInv, ChainsClosed
    <3> QED BY <1>1, <3>2, <3>3
  <2>3. \A tf \in Blocks(n) : held[tf[1]][tf[2]] = 0
    BY <2>2 DEF Blocks
  <2>4. reserved[n] = 0
    BY <1>1, <2>1, <2>3, NothingHeld DEF IInv, ReservedIsHeld, HeldOn
  <2> QED BY <1>1, <2>4 DEF IInv, TypeOK, BooksBalance, InFlight
<1>2. IInv => NothingStaysReserved
  BY <1>1 DEF NothingStaysReserved
<1> QED BY <1>2, Inductive, PTL

\* Whatever is charged, reserved or refunded reaches every ancestor: a caller has
\* spent at least what any of its callees has.
THEOREM ChargesPropagate == Spec => []AncestorsCover
<1>1. ASSUME IInv, holder = Nobody, NEW f \in Frame, parent[f] # NoFrame
      PROVE  spent[f] <= spent[parent[f]]
  <2>1. parent[f] \in Frame /\ parent[f] \in chain[f]
    BY <1>1 DEF IInv, TypeOK, ChainsFollowParents
  <2>2. /\ held \in [Task -> [Frame -> Nat]] /\ Blocks(parent[f]) \in SUBSET (Task \X Frame)
        /\ Blocks(f) \in SUBSET Blocks(parent[f])
    BY <1>1, <2>1 DEF IInv, TypeOK, ChainsClosed, Blocks
  <2>3. reserved[f] <= reserved[parent[f]]
    BY <1>1, <2>1, <2>2, HeldByMore DEF IInv, ReservedIsHeld, HeldOn
  <2>4. charged[f] <= charged[parent[f]]
    BY <1>1, <2>1 DEF IInv, ChargesCover
  <2>5. spent[f] = charged[f] + reserved[f] /\ spent[parent[f]] = charged[parent[f]] + reserved[parent[f]]
    BY <1>1, <2>1 DEF IInv, TypeOK, BooksBalance, InFlight
  <2>6. /\ charged[f] \in Int /\ reserved[f] \in Int
        /\ charged[parent[f]] \in Int /\ reserved[parent[f]] \in Int
    BY <1>1, <2>1 DEF IInv, TypeOK
  <2> QED BY <2>3, <2>4, <2>5, <2>6
<1>2. IInv => AncestorsCover
  BY <1>1 DEF AncestorsCover
<1> QED BY <1>2, Inductive, PTL

-----------------------------------------------------------------------------
\* The ledger step of each action.
\* The end of a locked section is one entry in the ledger.
LEMMA ReleaseIsLedgerStep ==
  ASSUME IInv, NEW t \in Task, Release(t)
  PROVE  L!Next
<1>1. /\ holder = t /\ t # Nobody /\ here[t] \in Frame /\ op[t].amount \in Nat
      /\ op[t].kind \in {"charge", "reserve", "refund"} /\ held[t][here[t]] \in Nat
  BY BudgetAssumption DEF IInv, TypeOK, Kind, LockOwned, PassesSound, PassSound, Release
<1>2. \A n \in Frame :
        spent[n] = charged[n] + reserved[n] + (IF n \in chain[here[t]] THEN Delta(t) ELSE 0)
  BY <1>1 DEF IInv, BooksBalance, InFlight, Written, Release
<1>3. op[t].kind # "refund" => L!Fits(here[t], op[t].amount)
  BY <1>1, <1>2 DEF IInv, TypeOK, SpentWithinLimit, Delta, L!Fits
<1>4. \A book, a : Moved(book, here[t], a) = L!Moved(book, here[t], a)
  BY DEF Moved, L!Moved
<1>5. UNCHANGED <<chain, limit>>
  BY DEF Release, objects
<1>6. CASE op[t].kind = "charge"
  <2>1. L!Charge(here[t], op[t].amount)
    BY <1>3, <1>4, <1>5, <1>6 DEF Release, L!Charge
  <2>2. op[t].amount \in Amount \cup ArgAmount
    BY <1>6 DEF IInv, PricesKnown, Release
  <2> QED BY <1>1, <2>1, <2>2 DEF L!Next
<1>7. CASE op[t].kind = "reserve"
  <2>1. op[t].amount \in Amount /\ held[t][here[t]] = 0
    BY <1>7 DEF IInv, PricesKnown, Release
  <2>2. held' = [held EXCEPT ![t][here[t]] = op[t].amount]
    BY <1>1, <1>7, <2>1 DEF IInv, TypeOK, Release, Delta
  <2>3. reserved' = Moved(reserved, here[t], op[t].amount) /\ UNCHANGED charged
    BY <1>7 DEF Release, Delta
  <2>4. L!Reserve(t, here[t], op[t].amount)
    BY <1>3, <1>4, <1>5, <1>7, <2>1, <2>2, <2>3 DEF L!Reserve
  <2> QED BY <1>1, <2>1, <2>4 DEF L!Next
<1>8. CASE op[t].kind = "refund"
  <2>1. op[t].amount = held[t][here[t]] /\ held[t][here[t]] > 0
    BY <1>8 DEF IInv, PassesSound, PassSound, PricesKnown, Release
  <2>2. held' = [held EXCEPT ![t][here[t]] = 0]
    BY <1>1, <1>8, <2>1 DEF IInv, TypeOK, Release, Delta
  <2>3. reserved' = Moved(reserved, here[t], -held[t][here[t]]) /\ UNCHANGED charged
    BY <1>8, <2>1 DEF Release, Delta
  <2>4. L!Release(t, here[t])
    BY <1>4, <1>5, <2>1, <2>2, <2>3 DEF L!Release
  <2> QED BY <1>1, <2>4 DEF L!Next
<1> QED BY <1>1, <1>6, <1>7, <1>8

\* Making a frame opens it in the ledger.
LEMMA OpenIsLedgerStep ==
  ASSUME IInv, NEW t \in Task, NEW f \in Frame, OpenFrame(t, f)
  PROVE  L!Next
<1>1. here[t] \in Frame /\ chain[here[t]] # {} /\ op[t].amount \in Limit
  BY DEF IInv, TypeOK, TasksPlaced, PricesKnown, OpenFrame
<1>2. L!Open(f, here[t], op[t].amount)
  BY <1>1 DEF OpenFrame, books, L!Open
<1> QED BY <1>1, <1>2 DEF L!Next

\* Budget implements Ledger: each of its steps is a step of the ledger or leaves
\* the ledger's books alone.
THEOREM BudgetImplementsLedger == Spec => LedgerSpec
<1>1. Init => L!Init
  BY BudgetAssumption DEF Init, L!Init
<1>2. IInv /\ [Next]_vars => [L!Next]_(L!ledgerVars)
  <2>1. ASSUME IInv, NEW t \in Task, Step(t) PROVE L!Next \/ UNCHANGED L!ledgerVars
    BY <2>1, StepObjects, StepBooks, ReleaseIsLedgerStep, OpenIsLedgerStep
       DEF objects, books, L!ledgerVars
  <2>2. ASSUME UNCHANGED vars PROVE UNCHANGED L!ledgerVars
    BY <2>2 DEF vars, objects, books, L!ledgerVars
  <2> QED BY <2>1, <2>2 DEF Next, Finished
<1> QED BY <1>1, <1>2, Inductive, PTL DEF Spec, LedgerSpec, L!Spec
=============================================================================
