------------------------------- MODULE Budget -------------------------------
(***************************************************************************)
(* Spending frames of humbaba/runtime.py (class Budget) as the tasks of a  *)
(* program use them: calls open child frames after an unlocked look at     *)
(* what remains, generations charge, parallel blocks reserve and refund.   *)
(* Charging and reserving walk the chain twice under one lock: a pass that *)
(* checks every capped frame, then a pass that writes every frame.  Each   *)
(* visit of a frame is a step here, so that an unlocked reader can fall    *)
(* between two of them.  The tasks are the iterations of one parallel      *)
(* block, which runs in frame Base.  Money is an integer number of         *)
(* micro-units: the code rounds prices to six decimals and compares with   *)
(* 1e-9 of slack.                                                          *)
(***************************************************************************)
EXTENDS Integers, FiniteSetsExt

CONSTANTS Task,       \* threads that share the root context
          Frame,      \* identities of Budget objects; never reused
          Root,       \* the frame of the entry function
          Base,       \* the frame the tasks start in: Root, or a child of it
          Limit,      \* budgets a function may declare
          NoLimit,    \* `limit is None`
          Amount,     \* prices of generations and sizes of reservations
          ArgAmount,  \* prices of generations inside argument expressions
          NoFrame, Nobody,
          MaxCharged  \* bound: no charge starts that takes an uncapped root past it

ASSUME BudgetAssumption ==
  /\ Root \in Frame
  /\ Base \in Frame
  /\ NoFrame \notin Frame
  /\ Nobody \notin Task
  /\ IsFiniteSet(Task)
  /\ IsFiniteSet(Frame)
  /\ Limit \subseteq Nat
  /\ NoLimit \notin Nat
  /\ Amount \subseteq Nat \ {0}
  /\ ArgAmount \subseteq Nat \ {0}
  /\ MaxCharged \in Nat

VARIABLES
  chain,     \* chain[f]: Budget._chain as a set; {} while f does not exist
  parent,    \* parent[f]: Budget.parent
  limit,     \* limit[f]: Budget.limit
  spent,     \* spent[f]: Budget.spent
  holder,    \* who is inside `with _BUDGET_LOCK`
  here,      \* here[t]: ctx.budget of the function task t is running
  pending,   \* pending[t]: a frame made for a call whose arguments are being evaluated
  pc,        \* pc[t]: what task t is doing
  op,        \* op[t]: the request under way, [kind, amount, resume]
  todo,      \* todo[t]: frames the current pass has still to visit
  held,      \* held[t][f]: `reserved` of the block task t runs in frame f
  \* history variables, read by no action but a bound
  charged,   \* charged[f]: charges granted to f and its descendants
  reserved   \* reserved[f]: reservations outstanding on f and its descendants

objects == <<chain, parent, limit>>
books   == <<charged, reserved, held>>
vars == <<chain, parent, limit, spent, holder, here, pending, pc, op, todo,
          held, charged, reserved>>

-----------------------------------------------------------------------------
Kind == {"open", "charge", "reserve", "refund"}
Idle == [kind |-> "open", amount |-> 0, resume |-> "run"]

\* Mutant: only the frame itself is looked at.
CappedOwnOnly(f) == {n \in {f} : limit[n] # NoLimit}

\* Budget._capped
Capped(f) == {n \in chain[f] : limit[n] # NoLimit}

Left(n) == limit[n] - spent[n]

\* A pass visits the frames in the order of _chain: a frame, then its ancestors.
NextFrame(t, n) == n \in todo[t] /\ todo[t] \subseteq chain[n]

\* What the writing pass adds to a frame.
Delta(t) == IF op[t].kind = "refund" THEN -op[t].amount ELSE op[t].amount

Init ==
  /\ chain = [f \in Frame |-> CASE f = Root -> {Root}
                                [] f = Base -> {Base, Root}
                                [] OTHER -> {}]
  /\ parent = [f \in Frame |-> IF f = Base /\ Base # Root THEN Root ELSE NoFrame]
  /\ \E b \in Limit, r \in Limit \cup {NoLimit} :
       /\ Base # Root /\ r # NoLimit => b <= r
       /\ limit = [f \in Frame |-> CASE f = Root -> r
                                     [] f = Base -> b
                                     [] OTHER -> NoLimit]
  /\ spent = [f \in Frame |-> 0]
  /\ holder = Nobody
  /\ here = [t \in Task |-> Base]
  /\ pending = [t \in Task |-> NoFrame]
  /\ pc = [t \in Task |-> "run"]
  /\ op = [t \in Task |-> Idle]
  /\ todo = [t \in Task |-> {}]
  /\ held = [t \in Task |-> [f \in Frame |-> 0]]
  /\ charged = [f \in Frame |-> 0]
  /\ reserved = [f \in Frame |-> 0]

-----------------------------------------------------------------------------
\* Bound: a call starts only while an identity is left for the frame it makes.
FrameLeft ==
  Cardinality({u \in Task : pc[u] = "peek"})
    < Cardinality({f \in Frame : chain[f] = {}})

\* A call of a function that declares budget b: remaining() is about to be read.
Call(t, b) ==
  /\ pc[t] = "run"
  /\ pending[t] = NoFrame
  /\ FrameLeft
  /\ op' = [op EXCEPT ![t] = [kind |-> "open", amount |-> b, resume |-> "run"]]
  /\ todo' = [todo EXCEPT ![t] = Capped(here[t])]
  /\ pc' = [pc EXCEPT ![t] = "peek"]
  /\ UNCHANGED <<objects, books, spent, holder, here, pending>>

\* One frame of remaining(), read without the lock, leaves room for the budget.
PeekFrame(t, n) ==
  /\ pc[t] = "peek"
  /\ NextFrame(t, n)
  /\ op[t].amount <= Left(n)
  /\ todo' = [todo EXCEPT ![t] = @ \ {n}]
  /\ UNCHANGED <<objects, books, spent, holder, here, pending, pc, op>>

\* It does not: the call fails with BudgetExceeded.
PeekRefuse(t, n) ==
  /\ pc[t] = "peek"
  /\ NextFrame(t, n)
  /\ op[t].amount > Left(n)
  /\ todo' = [todo EXCEPT ![t] = {}]
  /\ op' = [op EXCEPT ![t] = Idle]
  /\ pc' = [pc EXCEPT ![t] = "raise"]
  /\ UNCHANGED <<objects, books, spent, holder, here, pending>>

\* Mutant: ancestors without a limit are left out of the new chain.
OpenFrameCapped(t, f) ==
  /\ pc[t] = "peek"
  /\ todo[t] = {}
  /\ chain[f] = {}
  /\ chain' = [chain EXCEPT ![f] = {f} \cup Capped(here[t])]
  /\ parent' = [parent EXCEPT ![f] = here[t]]
  /\ limit' = [limit EXCEPT ![f] = op[t].amount]
  /\ pending' = [pending EXCEPT ![t] = f]
  /\ op' = [op EXCEPT ![t] = Idle]
  /\ pc' = [pc EXCEPT ![t] = "run"]
  /\ UNCHANGED <<books, spent, holder, here, todo>>

\* The child frame exists before the arguments of the call are evaluated.
OpenFrame(t, f) ==
  /\ pc[t] = "peek"
  /\ todo[t] = {}
  /\ chain[f] = {}
  /\ chain' = [chain EXCEPT ![f] = {f} \cup chain[here[t]]]
  /\ parent' = [parent EXCEPT ![f] = here[t]]
  /\ limit' = [limit EXCEPT ![f] = op[t].amount]
  /\ pending' = [pending EXCEPT ![t] = f]
  /\ op' = [op EXCEPT ![t] = Idle]
  /\ pc' = [pc EXCEPT ![t] = "run"]
  /\ UNCHANGED <<books, spent, holder, here, todo>>

\* The arguments are there: the body runs in a Ctx with the new frame.
Enter(t) ==
  /\ pc[t] = "run"
  /\ pending[t] # NoFrame
  /\ here' = [here EXCEPT ![t] = pending[t]]
  /\ pending' = [pending EXCEPT ![t] = NoFrame]
  /\ UNCHANGED <<objects, books, spent, holder, pc, op, todo>>

\* Mutant: the frame of the block is left too.
ReturnTooFar(t) ==
  /\ pc[t] \in {"run", "raise"}
  /\ pending[t] = NoFrame
  /\ held[t][here[t]] = 0
  /\ here' = [here EXCEPT ![t] = parent[here[t]]]
  /\ UNCHANGED <<objects, books, spent, holder, pending, pc, op, todo>>

\* Mutant: the block's refund is not in a finally clause.
ReturnUnrefunded(t) ==
  /\ pc[t] \in {"run", "raise"}
  /\ pending[t] = NoFrame
  /\ here[t] # Base
  /\ here' = [here EXCEPT ![t] = parent[here[t]]]
  /\ UNCHANGED <<objects, books, spent, holder, pending, pc, op, todo>>

\* The callee returns or its exception passes through; every block in it has ended.
Return(t) ==
  /\ pc[t] \in {"run", "raise"}
  /\ pending[t] = NoFrame
  /\ here[t] # Base
  /\ held[t][here[t]] = 0
  /\ here' = [here EXCEPT ![t] = parent[here[t]]]
  /\ UNCHANGED <<objects, books, spent, holder, pending, pc, op, todo>>

-----------------------------------------------------------------------------
\* Task t asks for the lock in order to charge, reserve or refund amount a.
Ask(t, kind, a) ==
  /\ op' = [op EXCEPT ![t] = [kind |-> kind, amount |-> a, resume |-> pc[t]]]
  /\ pc' = [pc EXCEPT ![t] = "lock"]
  /\ UNCHANGED <<objects, books, spent, holder, here, pending, todo>>

\* do_gen charges the context it runs in; in an argument that is the caller's.
Charge(t, a) ==
  /\ pc[t] = "run"
  /\ a \in IF pending[t] = NoFrame THEN Amount ELSE ArgAmount
  /\ limit[Root] = NoLimit => charged[Root] + a <= MaxCharged
  /\ Ask(t, "charge", a)

\* do_par reserves before it dispatches; blocks on one frame do not nest here.
Reserve(t, a) ==
  /\ pc[t] = "run"
  /\ pending[t] = NoFrame
  /\ held[t][here[t]] = 0
  /\ Ask(t, "reserve", a)

\* The finally clause of do_par, on the normal and on the exceptional path.
Refund(t) ==
  /\ pc[t] \in {"run", "raise"}
  /\ pending[t] = NoFrame
  /\ held[t][here[t]] > 0
  /\ Ask(t, "refund", held[t][here[t]])

\* Mutant: the lock is not waited for.
AcquireTaken(t) ==
  /\ pc[t] = "lock"
  /\ holder' = t
  /\ IF op[t].kind = "refund"
     THEN /\ pc' = [pc EXCEPT ![t] = "apply"]
          /\ todo' = [todo EXCEPT ![t] = chain[here[t]]]
     ELSE /\ pc' = [pc EXCEPT ![t] = "check"]
          /\ todo' = [todo EXCEPT ![t] = Capped(here[t])]
  /\ UNCHANGED <<objects, books, spent, here, pending, op>>

\* Mutant: a refund walks the capped frames only.
AcquireCappedRefund(t) ==
  /\ pc[t] = "lock"
  /\ holder = Nobody
  /\ holder' = t
  /\ pc' = [pc EXCEPT ![t] = IF op[t].kind = "refund" THEN "apply" ELSE "check"]
  /\ todo' = [todo EXCEPT ![t] = Capped(here[t])]
  /\ UNCHANGED <<objects, books, spent, here, pending, op>>

Acquire(t) ==
  /\ pc[t] = "lock"
  /\ holder = Nobody
  /\ holder' = t
  /\ IF op[t].kind = "refund"
     THEN /\ pc' = [pc EXCEPT ![t] = "apply"]
          /\ todo' = [todo EXCEPT ![t] = chain[here[t]]]
     ELSE /\ pc' = [pc EXCEPT ![t] = "check"]
          /\ todo' = [todo EXCEPT ![t] = Capped(here[t])]
  /\ UNCHANGED <<objects, books, spent, here, pending, op>>

CheckFrame(t, n) ==
  /\ pc[t] = "check"
  /\ NextFrame(t, n)
  /\ spent[n] + op[t].amount <= limit[n]
  /\ todo' = [todo EXCEPT ![t] = @ \ {n}]
  /\ UNCHANGED <<objects, books, spent, holder, here, pending, pc, op>>

\* Mutant: a request that does not fit waits for room with the lock in hand.
RefuseByWaiting(t, n) ==
  /\ pc[t] = "check"
  /\ NextFrame(t, n)
  /\ spent[n] + op[t].amount > limit[n]
  /\ todo' = [todo EXCEPT ![t] = Capped(here[t])]
  /\ UNCHANGED <<objects, books, spent, holder, here, pending, pc, op>>

\* BudgetExceeded leaves the with block, which gives the lock back.
Refuse(t, n) ==
  /\ pc[t] = "check"
  /\ NextFrame(t, n)
  /\ spent[n] + op[t].amount > limit[n]
  /\ todo' = [todo EXCEPT ![t] = {}]
  /\ holder' = Nobody
  /\ op' = [op EXCEPT ![t] = Idle]
  /\ pc' = [pc EXCEPT ![t] = "raise"]
  /\ UNCHANGED <<objects, books, spent, here, pending>>

CheckDone(t) ==
  /\ pc[t] = "check"
  /\ todo[t] = {}
  /\ todo' = [todo EXCEPT ![t] = chain[here[t]]]
  /\ pc' = [pc EXCEPT ![t] = "apply"]
  /\ UNCHANGED <<objects, books, spent, holder, here, pending, op>>

ApplyFrame(t, n) ==
  /\ pc[t] = "apply"
  /\ NextFrame(t, n)
  /\ spent' = [spent EXCEPT ![n] = @ + Delta(t)]
  /\ todo' = [todo EXCEPT ![t] = @ \ {n}]
  /\ UNCHANGED <<objects, books, holder, here, pending, pc, op>>

\* A book in which every frame of the chain of f moved by a.
Moved(book, f, a) ==
  [n \in Frame |-> IF n \in chain[f] THEN book[n] + a ELSE book[n]]

\* The with block ends: the request takes effect as a whole.
Release(t) ==
  /\ pc[t] = "apply"
  /\ todo[t] = {}
  /\ holder' = Nobody
  /\ pc' = [pc EXCEPT ![t] = op[t].resume]
  /\ op' = [op EXCEPT ![t] = Idle]
  /\ IF op[t].kind = "charge"
     THEN /\ charged' = Moved(charged, here[t], op[t].amount)
          /\ UNCHANGED <<reserved, held>>
     ELSE /\ reserved' = Moved(reserved, here[t], Delta(t))
          /\ held' = [held EXCEPT ![t][here[t]] = @ + Delta(t)]
          /\ UNCHANGED charged
  /\ UNCHANGED <<objects, spent, here, pending, todo>>

-----------------------------------------------------------------------------
\* A refusal inside an argument leaves the call expression.
Abandon(t) ==
  /\ pc[t] = "raise"
  /\ pending[t] # NoFrame
  /\ pending' = [pending EXCEPT ![t] = NoFrame]
  /\ UNCHANGED <<objects, books, spent, holder, here, pc, op, todo>>

\* A `try` at this depth turns the refusal into a value.
Catch(t) ==
  /\ pc[t] = "raise"
  /\ pc' = [pc EXCEPT ![t] = "run"]
  /\ UNCHANGED <<objects, books, spent, holder, here, pending, op, todo>>

End(t) ==
  /\ pc[t] \in {"run", "raise"}
  /\ pending[t] = NoFrame
  /\ here[t] = Base
  /\ held[t][Base] = 0
  /\ pc' = [pc EXCEPT ![t] = "end"]
  /\ UNCHANGED <<objects, books, spent, holder, here, pending, op, todo>>

\* The steps of a task that is inside the locked section.
Locked(t) ==
  \/ \E n \in Frame : CheckFrame(t, n) \/ Refuse(t, n) \/ ApplyFrame(t, n)
  \/ CheckDone(t)
  \/ Release(t)

Step(t) ==
  \/ \E b \in Limit : Call(t, b)
  \/ \E n \in Frame : PeekFrame(t, n) \/ PeekRefuse(t, n) \/ OpenFrame(t, n)
  \/ Enter(t)
  \/ Return(t)
  \/ \E a \in Amount \cup ArgAmount : Charge(t, a)
  \/ \E a \in Amount : Reserve(t, a)
  \/ Refund(t)
  \/ Acquire(t)
  \/ Locked(t)
  \/ Abandon(t)
  \/ Catch(t)
  \/ End(t)

\* The program has ended.
Finished == (\A t \in Task : pc[t] = "end") /\ UNCHANGED vars

Next == (\E t \in Task : Step(t)) \/ Finished

\* A thread inside the locked section computes without blocking, so it goes on.
\* Nothing is assumed of who gets the lock next: threading.Lock is not fair.
Fairness == \A t \in Task : WF_vars(Locked(t))

Spec == Init /\ [][Next]_vars /\ Fairness

-----------------------------------------------------------------------------
\* Types of the variables of this module.
TypeOK ==
  /\ chain \in [Frame -> SUBSET Frame]
  /\ parent \in [Frame -> Frame \cup {NoFrame}]
  /\ limit \in [Frame -> Nat \cup {NoLimit}]
  /\ spent \in [Frame -> Int]
  /\ holder \in Task \cup {Nobody}
  /\ here \in [Task -> Frame]
  /\ pending \in [Task -> Frame \cup {NoFrame}]
  /\ pc \in [Task -> {"run", "peek", "lock", "check", "apply", "raise", "end"}]
  /\ op \in [Task -> [kind : Kind, amount : Nat, resume : {"run", "raise"}]]
  /\ todo \in [Task -> SUBSET Frame]
  /\ held \in [Task -> [Frame -> Nat]]
  /\ charged \in [Frame -> Nat]
  /\ reserved \in [Frame -> Int]

\* The frames that the request task t is applying has already reached.
Written(t) == IF pc[t] = "apply" THEN chain[here[t]] \ todo[t] ELSE {}

\* What the lock holder has added to frame n and not yet settled.
InFlight(n) ==
  IF holder # Nobody /\ n \in Written(holder) THEN Delta(holder) ELSE 0

\* No capped frame is ever past its limit, whichever tasks charge and reserve at
\* once and at whatever depth: Budget.charge and Budget.reserve check and write
\* under one lock.
SpentWithinLimit ==
  \A n \in Frame : limit[n] # NoLimit => spent[n] <= limit[n]

\* The running total of each frame is what was charged to it and its descendants
\* plus what is reserved there, up to the one request being written: a refusal
\* leaves no trace and a refund takes back exactly what was reserved.
BooksBalance ==
  \A n \in Frame : spent[n] = charged[n] + reserved[n] + InFlight(n)

\* While nobody is inside the lock, a frame that no task works in or below holds
\* what was charged there and nothing else: a call that returned, an exception
\* that passed through several blocks, and a task that ended have left no
\* reservation on their frame or on any of its ancestors.
NothingStaysReserved ==
  holder = Nobody =>
    \A n \in Frame :
      (\A t \in Task : pc[t] = "end" \/ n \notin chain[here[t]]) => spent[n] = charged[n]

\* While nobody is inside the lock, a function has spent no more than its caller:
\* charge, reserve and release follow the chain to its end, past the frames that
\* have no limit, and _chain holds every frame that the parents lead to.
AncestorsCover ==
  holder = Nobody =>
    \A f \in Frame : parent[f] # NoFrame => spent[f] <= spent[parent[f]]

\* The lock is always given back, by a refusal as by a grant.
LockIsReleased == \A t \in Task : (holder = t) ~> (holder # t)

\* Every step of the code is a step of the ledger, or changes none of its books.
L == INSTANCE Ledger WITH Money <- Amount \cup ArgAmount
LedgerSpec == L!Spec
=============================================================================
