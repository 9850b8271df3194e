---------------------------- MODULE ParallelFor -----------------------------
(***************************************************************************)
(* `parallel for` of humbaba/compile.py: do_par reserves the projected     *)
(* cost, hands the items to a pool of threads (or runs them inline),       *)
(* collects the results, cancels what has not started when one of them     *)
(* failed, and refunds.  Blocks follow each other in one program.  The     *)
(* bodies are sequences of generations that share one spending frame       *)
(* (module Budget has the chain and its lock) and the price projection     *)
(* m.worst_gen_cost.                                                       *)
(***************************************************************************)
EXTENDS Integers, FiniteSets, SequencesExt

CONSTANTS Width,       \* `limit` of the block, at least 1
          Scheduler,   \* m.scheduler
          Threshold,   \* asyncio is used above this width (512)
          PoolMax,     \* size of the pool under asyncio (64)
          Limit,       \* limits the frame may have
          NoLimit,     \* `limit is None` all the way up
          Price,       \* what a generation may cost; 0 is a cassette hit
          TypicalCost, \* model.typical_cost
          GenHint,     \* generations the text of the body shows (count_gens)
          GensPerItem, \* generations an iteration performs
          Preemptible, \* may threads switch between a comparison and the store
                       \* it guards?  CPython: before 3.10 and without the GIL
          MaxItems,    \* bound: longest list
          MaxBlocks,   \* bound: blocks the program executes
          Failure, None

ASSUME ParallelAssumption ==
  /\ Width \in Nat \ {0}
  /\ Scheduler \in {"threads", "asyncio"}
  /\ Threshold \in Nat
  /\ PoolMax \in Nat \ {0}
  /\ Limit \subseteq Nat
  /\ NoLimit \notin Nat
  /\ Price \subseteq Nat
  /\ TypicalCost \in Nat
  /\ GenHint \in Nat \ {0}
  /\ GensPerItem \in Nat \ {0}
  /\ Preemptible \in BOOLEAN
  /\ MaxItems \in Nat
  /\ MaxBlocks \in Nat
  /\ Failure # None

Job == (1..MaxBlocks) \X (1..MaxItems)

VARIABLES
  phase,     \* where the thread that executes the block is
  block,     \* blocks begun so far
  n,         \* len(items)
  reserved,  \* `reserved` of do_par
  next,      \* the item the submitting or collecting loop is at
  todo,      \* items the cancelling loop has still to visit
  answer,    \* what the block returned: a list, Failure, or None yet
  result,    \* results
  queue,     \* work queue of the pool
  landed,    \* asyncio: items whose coroutine has finished, in that order
  item,      \* item[j]: where iteration j is
  price,     \* price[j]: cost of the response iteration j has in hand
  gens,      \* gens[j]: generations iteration j has behind it
  limit, spent,  \* the spending frame
  worst,     \* m.worst_gen_cost
  \* history variables
  charged,   \* what generations were charged
  observed   \* the largest price an iteration has compared with worst

frame    == <<limit, spent, charged>>
jobs     == <<item, price, gens, worst, observed>>
dispatch == <<next, todo, queue, landed>>
outcome  == <<answer, result>>
vars == <<phase, block, n, reserved, dispatch, outcome, jobs, frame>>

-----------------------------------------------------------------------------
Async == Scheduler = "asyncio" /\ Width > Threshold

Job1(i) == <<block, i>>   \* item i of the current block
Items == 1..n

Busy == {"body", "priced", "charged", "storing"}
Running(b) == {j \in Job : j[1] = b /\ item[j] \in Busy}

\* Coroutines that hold the semaphore.
Admitted == {i \in Items : item[Job1(i)] \notin {"new", "waiting", "cancelled"}}
              \ {landed[k] : k \in 1..Len(landed)}

PoolSize == IF Async THEN IF Width < PoolMax THEN Width ELSE PoolMax
            ELSE IF Width < n THEN Width ELSE n

Least(S) == CHOOSE i \in S : \A k \in S : i <= k

Init ==
  /\ phase = "idle"
  /\ block = 0
  /\ n = 0
  /\ reserved = 0
  /\ next = 1
  /\ todo = {}
  /\ answer = None
  /\ result = << >>
  /\ queue = << >>
  /\ landed = << >>
  /\ item = [j \in Job |-> "new"]
  /\ price = [j \in Job |-> 0]
  /\ gens = [j \in Job |-> 0]
  /\ limit \in Limit \cup {NoLimit}
  /\ spent = 0
  /\ worst = TypicalCost
  /\ charged = 0
  /\ observed = 0

-----------------------------------------------------------------------------
\* The thread that executes the block.

Begin(k) ==
  /\ phase = "idle"
  /\ block < MaxBlocks
  /\ block' = block + 1
  /\ n' = k
  /\ answer' = None
  /\ result' = [i \in 1..k |-> None]
  /\ phase' = "project"
  /\ UNCHANGED <<reserved, dispatch, jobs, frame>>

NoItems ==
  /\ phase = "project"
  /\ n = 0
  /\ answer' = << >>
  /\ phase' = "idle"
  /\ UNCHANGED <<block, n, reserved, dispatch, result, jobs, frame>>

\* "parallel for expects a list": what is not one has no items here.
NotAList ==
  /\ phase = "project"
  /\ n = 0
  /\ answer' = Failure
  /\ phase' = "idle"
  /\ UNCHANGED <<block, n, reserved, dispatch, result, jobs, frame>>

Need == worst * n * GenHint
Projects == worst > 0 /\ limit # NoLimit

\* Inline when nothing can overlap, else by submitting to a pool; under asyncio
\* every item becomes a coroutine at once.
Dispatch ==
  /\ next' = 1
  /\ IF Width = 1 \/ n = 1
     THEN phase' = "inline" /\ UNCHANGED <<item, landed, todo>>
     ELSE IF Async
     THEN /\ phase' = "collect"
          /\ item' = [j \in Job |-> IF j[1] = block /\ j[2] <= n THEN "waiting"
                                    ELSE item[j]]
          /\ landed' = << >>
          /\ todo' = Items
     ELSE phase' = "submit" /\ todo' = Items /\ UNCHANGED <<item, landed>>

Reserve ==
  /\ phase = "project"
  /\ n > 0
  /\ Projects => spent + Need <= limit
  /\ reserved' = IF Projects THEN Need ELSE 0
  /\ spent' = spent + reserved'
  /\ Dispatch
  /\ UNCHANGED <<block, n, outcome, queue, price, gens, worst, observed, limit, charged>>

\* BudgetExceeded before anything was started.
RefuseBlock ==
  /\ phase = "project"
  /\ n > 0
  /\ Projects
  /\ spent + Need > limit
  /\ answer' = Failure
  /\ phase' = "idle"
  /\ UNCHANGED <<block, n, reserved, dispatch, result, jobs, frame>>

\* Mutant: the loop that submits runs once too often.
SubmitPastEnd ==
  /\ phase = "submit"
  /\ next <= n + 1
  /\ item' = [j \in Job |-> IF j = Job1(next) THEN "queued" ELSE item[j]]
  /\ queue' = Append(queue, Job1(next))
  /\ next' = next + 1
  /\ UNCHANGED <<phase, block, n, reserved, todo, outcome, landed, price, gens,
                 worst, observed, frame>>

Submit ==
  /\ phase = "submit"
  /\ next <= n
  /\ item' = [item EXCEPT ![Job1(next)] = "queued"]
  /\ queue' = Append(queue, Job1(next))
  /\ next' = next + 1
  /\ UNCHANGED <<phase, block, n, reserved, todo, outcome, landed, price, gens,
                 worst, observed, frame>>

Submitted ==
  /\ phase = "submit"
  /\ next > n
  /\ next' = 1
  /\ phase' = "collect"
  /\ UNCHANGED <<block, n, reserved, todo, outcome, queue, landed, jobs, frame>>

\* Which item the collecting loop looks at: threads take the futures as they were
\* submitted, asyncio takes coroutines as they finish.
Turn == IF Async THEN landed[next] ELSE next
AtTurn == phase = "collect" /\ next <= (IF Async THEN Len(landed) ELSE n)

\* Mutant: results are stored in the order they arrive.
CollectInArrivalOrder ==
  /\ AtTurn
  /\ item[Job1(Turn)] = "ok"
  /\ result' = [result EXCEPT ![next] = Turn]
  /\ next' = next + 1
  /\ UNCHANGED <<phase, block, n, reserved, todo, answer, queue, landed, jobs, frame>>

Collect ==
  /\ AtTurn
  /\ item[Job1(Turn)] = "ok"
  /\ result' = [result EXCEPT ![Turn] = Turn]
  /\ next' = next + 1
  /\ UNCHANGED <<phase, block, n, reserved, todo, answer, queue, landed, jobs, frame>>

CollectFailure ==
  /\ AtTurn
  /\ item[Job1(Turn)] = "error"
  /\ answer' = Failure
  /\ phase' = "cancel"
  /\ UNCHANGED <<block, n, reserved, dispatch, result, jobs, frame>>

\* future.cancel() stops what no thread has taken yet.  Threads go through the
\* futures in order, asyncio.run through its set of tasks.
Cancel(i) ==
  /\ phase = "cancel"
  /\ i \in todo
  /\ Async \/ i = Least(todo)
  /\ todo' = todo \ {i}
  /\ item' = [item EXCEPT ![Job1(i)] =
                IF @ \in {"waiting", "queued"} THEN "cancelled" ELSE @]
  /\ \/ \E k \in DOMAIN queue : queue[k] = Job1(i) /\ queue' = RemoveAt(queue, k)
     \/ (\A k \in DOMAIN queue : queue[k] # Job1(i)) /\ UNCHANGED queue
  /\ UNCHANGED <<phase, block, n, reserved, next, outcome, landed, price, gens,
                 worst, observed, frame>>

\* The local variables of the run are gone.
Forget == next' = 1 /\ todo' = {} /\ landed' = << >> /\ result' = << >>

\* Mutant: pool.shutdown(wait=False) with threads too.
CloseRunAtOnce ==
  /\ \/ phase = "cancel" /\ todo = {}
     \/ phase = "collect" /\ next > n
  /\ answer' = IF phase = "collect" THEN result ELSE answer
  /\ phase' = "refund"
  /\ Forget
  /\ UNCHANGED <<block, n, reserved, queue, jobs, frame>>

\* Mutant: the refund is not in a finally clause.
CloseRunUnrefunded ==
  /\ \/ phase = "cancel" /\ todo = {} /\ phase' = "idle"
     \/ phase = "collect" /\ next > n /\ phase' = "refund"
  /\ Async \/ Running(block) = {}
  /\ answer' = IF phase = "collect" THEN result ELSE answer
  /\ Forget
  /\ UNCHANGED <<block, n, reserved, queue, jobs, frame>>

\* All is collected or cancelled.  Leaving the `with` block waits for the threads;
\* pool.shutdown(wait=False) does not.
CloseRun ==
  /\ \/ phase = "cancel" /\ todo = {}
     \/ phase = "collect" /\ next > n
  /\ Async \/ Running(block) = {}
  /\ answer' = IF phase = "collect" THEN result ELSE answer
  /\ phase' = "refund"
  /\ Forget
  /\ UNCHANGED <<block, n, reserved, queue, jobs, frame>>

InlineStart ==
  /\ phase = "inline"
  /\ next <= n
  /\ item[Job1(next)] = "new"
  /\ item' = [item EXCEPT ![Job1(next)] = "body"]
  /\ UNCHANGED <<phase, block, n, reserved, dispatch, outcome, price, gens, worst,
                 observed, frame>>

\* Mutant: an item that failed counts as a result.
InlineCollectAny ==
  /\ phase = "inline"
  /\ next <= n
  /\ item[Job1(next)] \in {"ok", "error"}
  /\ result' = [result EXCEPT ![next] = next]
  /\ next' = next + 1
  /\ UNCHANGED <<phase, block, n, reserved, todo, answer, queue, landed, jobs, frame>>

InlineCollect ==
  /\ phase = "inline"
  /\ next <= n
  /\ item[Job1(next)] = "ok"
  /\ result' = [result EXCEPT ![next] = next]
  /\ next' = next + 1
  /\ UNCHANGED <<phase, block, n, reserved, todo, answer, queue, landed, jobs, frame>>

InlineEnd ==
  /\ phase = "inline"
  /\ \/ next > n /\ answer' = result
     \/ next <= n /\ item[Job1(next)] = "error" /\ answer' = Failure
  /\ phase' = "refund"
  /\ Forget
  /\ UNCHANGED <<block, n, reserved, queue, jobs, frame>>

\* The finally clause.
Refund ==
  /\ phase = "refund"
  /\ spent' = spent - reserved
  /\ reserved' = 0
  /\ phase' = "idle"
  /\ UNCHANGED <<block, n, dispatch, outcome, jobs, limit, charged>>

Main ==
  \/ NotAList \/ NoItems \/ Reserve \/ RefuseBlock
  \/ Submit \/ Submitted \/ Collect \/ CollectFailure
  \/ \E i \in 1..MaxItems : Cancel(i)
  \/ CloseRun
  \/ InlineStart \/ InlineCollect \/ InlineEnd
  \/ Refund

-----------------------------------------------------------------------------
\* The event loop of asyncio.

\* A coroutine gets the semaphore and submits its item to the pool.
Admit(i) ==
  /\ Async
  /\ phase \in {"collect", "cancel"}
  /\ i \in Items
  /\ item[Job1(i)] = "waiting"
  /\ Cardinality(Admitted) < Width
  /\ item' = [item EXCEPT ![Job1(i)] = "queued"]
  /\ queue' = Append(queue, Job1(i))
  /\ UNCHANGED <<phase, block, n, reserved, next, todo, outcome, landed, price, gens,
                 worst, observed, frame>>

\* The coroutine of an item that ended gets its result.
Land(i) ==
  /\ Async
  /\ phase = "collect"
  /\ i \in Items
  /\ i \in Admitted
  /\ item[Job1(i)] \in {"ok", "error"}
  /\ landed' = Append(landed, i)
  /\ UNCHANGED <<phase, block, n, reserved, next, todo, outcome, queue, jobs, frame>>

EventLoop == \E i \in 1..MaxItems : Admit(i) \/ Land(i)

-----------------------------------------------------------------------------
\* The worker threads.

\* A free worker takes the head of the queue.
Take(j) ==
  /\ queue # << >>
  /\ j = Head(queue)
  /\ Cardinality(Running(j[1])) < PoolSize
  /\ queue' = Tail(queue)
  /\ item' = [item EXCEPT ![j] = "body"]
  /\ UNCHANGED <<phase, block, n, reserved, next, todo, outcome, landed, price, gens,
                 worst, observed, frame>>

\* The provider answered a generation.
Generate(j, p) ==
  /\ item[j] = "body"
  /\ price' = [price EXCEPT ![j] = p]
  /\ item' = [item EXCEPT ![j] = "priced"]
  /\ UNCHANGED <<phase, block, n, reserved, dispatch, outcome, gens, worst, observed, frame>>

\* The body fails: the generation ran out of attempts.
GiveUp(j) ==
  /\ item[j] = "body"
  /\ item' = [item EXCEPT ![j] = "error"]
  /\ UNCHANGED <<phase, block, n, reserved, dispatch, outcome, price, gens, worst,
                 observed, frame>>

\* c.budget.charge(cost)
Charge(j) ==
  /\ item[j] = "priced"
  /\ limit # NoLimit => spent + price[j] <= limit
  /\ spent' = spent + price[j]
  /\ charged' = charged + price[j]
  /\ item' = [item EXCEPT ![j] = "charged"]
  /\ UNCHANGED <<phase, block, n, reserved, dispatch, outcome, price, gens, worst,
                 observed, limit>>

\* Mutant: BudgetExceeded is retried like a transient failure.
ExhaustRetried(j) ==
  /\ item[j] = "priced"
  /\ limit # NoLimit /\ spent + price[j] > limit
  /\ item' = [item EXCEPT ![j] = "body"]
  /\ UNCHANGED <<phase, block, n, reserved, dispatch, outcome, price, gens, worst,
                 observed, frame>>

\* BudgetExceeded inside an iteration.
Exhaust(j) ==
  /\ item[j] = "priced"
  /\ limit # NoLimit /\ spent + price[j] > limit
  /\ item' = [item EXCEPT ![j] = "error"]
  /\ UNCHANGED <<phase, block, n, reserved, dispatch, outcome, price, gens, worst,
                 observed, frame>>

\* The generation is done; the body goes on to the next or ends.
Proceed(j) ==
  /\ price' = [price EXCEPT ![j] = 0]
  /\ gens' = [gens EXCEPT ![j] = @ + 1]
  /\ item' = [item EXCEPT ![j] = IF gens[j] + 1 = GensPerItem THEN "ok" ELSE "body"]

Higher(a, b) == IF a > b THEN a ELSE b

\* Mutant: the last price counts, not the largest.
ObserveLast(j) ==
  /\ item[j] = "charged"
  /\ worst' = price[j]
  /\ observed' = Higher(observed, price[j])
  /\ Proceed(j)
  /\ UNCHANGED <<phase, block, n, reserved, dispatch, outcome, frame>>

\* if cost > m.worst_gen_cost: m.worst_gen_cost = cost
Observe(j) ==
  /\ item[j] = "charged"
  /\ IF Preemptible /\ price[j] > worst
     THEN /\ item' = [item EXCEPT ![j] = "storing"]
          /\ UNCHANGED <<price, gens, worst, observed>>
     ELSE /\ worst' = Higher(worst, price[j])
          /\ observed' = Higher(observed, price[j])
          /\ Proceed(j)
  /\ UNCHANGED <<phase, block, n, reserved, dispatch, outcome, frame>>

Store(j) ==
  /\ item[j] = "storing"
  /\ worst' = price[j]
  /\ observed' = Higher(observed, price[j])
  /\ Proceed(j)
  /\ UNCHANGED <<phase, block, n, reserved, dispatch, outcome, frame>>

Work(j) ==
  \/ Take(j)
  \/ \E p \in Price : Generate(j, p)
  \/ GiveUp(j) \/ Charge(j) \/ Exhaust(j) \/ Observe(j) \/ Store(j)

\* The program has ended and its last thread too.
Finished ==
  /\ phase = "idle"
  /\ block = MaxBlocks
  /\ \A b \in 1..MaxBlocks : Running(b) = {}
  /\ UNCHANGED vars

Next ==
  \/ \E k \in 0..MaxItems : Begin(k)
  \/ Main
  \/ EventLoop
  \/ \E j \in Job : Work(j)
  \/ Finished

\* The executing thread and every worker go on when they can: the operating system
\* runs threads that are ready, the budget lock is held for a few instructions, and
\* a provider call ends by answer, error or time-out.
Fairness ==
  /\ WF_vars(Main)
  /\ WF_vars(EventLoop)
  /\ \A j \in Job : WF_vars(Work(j))

Spec == Init /\ [][Next]_vars /\ Fairness
-----------------------------------------------------------------------------
\* Types of the variables of this module.
TypeOK ==
  /\ phase \in {"idle", "project", "submit", "collect", "cancel", "inline", "refund"}
  /\ block \in 0..MaxBlocks
  /\ n \in 0..MaxItems
  /\ reserved \in Nat
  /\ next \in 1..(MaxItems + 1)
  /\ todo \subseteq 1..MaxItems
  /\ answer \in {None, Failure} \cup Seq(1..MaxItems)
  /\ result \in Seq({None} \cup (1..MaxItems))
  /\ queue \in Seq(Job)
  /\ landed \in Seq(1..MaxItems)
  /\ item \in [Job -> {"new", "waiting", "queued", "ok", "error", "cancelled"} \cup Busy]
  /\ price \in [Job -> Price \cup {0}]
  /\ gens \in [Job -> 0..GensPerItem]
  /\ limit \in Limit \cup {NoLimit}
  /\ spent \in Nat /\ worst \in Nat /\ charged \in Nat /\ observed \in Nat

\* With a pool of threads do_par keeps the promise of Fanout: bounded width,
\* ordered results, failure exactly when an iteration failed or none was started,
\* and an answer only when nothing is in flight.
F == INSTANCE Fanout WITH
       NoAnswer  <- None,
       open      <- phase # "idle",
       size      <- n,
       answer    <- IF phase = "idle" THEN answer ELSE None,
       flying    <- IF block = 0 THEN {} ELSE {i \in Items : item[Job1(i)] \in Busy},
       succeeded <- IF block = 0 THEN {} ELSE {i \in Items : item[Job1(i)] = "ok"},
       failed    <- IF block = 0 THEN {} ELSE {i \in Items : item[Job1(i)] = "error"}
FanoutSpec == F!Spec

\* Whatever order the iterations end in, result i is the result of item i, and a
\* block that answers with results has one from every item.
ResultsInOrder ==
  phase = "idle" /\ answer \notin {None, Failure} =>
    /\ answer = [i \in Items |-> i]
    /\ \A i \in Items : item[Job1(i)] = "ok"

\* Between blocks the frame holds what was charged and nothing else: the
\* reservation goes back on every way out, whatever late threads charge.
ReservationReturned == phase = "idle" => spent = charged

\* A block that was granted its reservation, computed from prices that no generation
\* exceeded, does not run out of budget: runtime.py, Budget.reserve, "the block
\* either starts with a guaranteed allowance or refuses outright".
ReservationSuffices ==
  reserved > 0 =>
    \A i \in Items :
      item[Job1(i)] = "priced" => spent + price[Job1(i)] <= limit

\* docs/LIMITATIONS.md 3.1 projects with the "worst-observed-cost", seeded with the
\* provider's typical cost.  However threads interleave the comparison with the store,
\* the projection never falls below its seed and never exceeds what was paid; without
\* a switch in between it is the largest price that was paid.
ProjectionIsObserved ==
  /\ TypicalCost <= worst
  /\ worst <= Higher(TypicalCost, observed)
  /\ ~Preemptible => observed <= worst

\* Every block ends, by results or by failure.
BlockEnds == phase # "idle" ~> phase = "idle"
=============================================================================
