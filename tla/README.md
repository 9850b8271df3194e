# A TLA+ model of Humbaba

Humbaba is a small language for the layer around a language model: calls with
declared capabilities and budgets, generations under retry policies, bounded
parallel loops, durable functions that resume after a crash.  This directory
models what its front end, checker, compilers and runtimes do, also when money,
threads and crashes are involved, and checks the model with TLC on small instances.  With
TLAPS it proves, for every instance, the safety of the spending frames, parallel blocks,
durable functions and their journal, generations, Bound, cassettes, and the authority and
taint marks of the HBX machines.

    tlc -config budget_shared.cfg MCBudget      one run; PROJECT.json lists them all
    tlapm BudgetProofs.tla                      the proofs of one module; those named *Proofs hold them

`PROJECT.json` names, for every definition that stands for code, the file and
the lines; for every property, a plausible bug of that code (an operator with
the comment "Mutant") that TLC finds with it; and the hazards of the code with
the properties aimed at them.

## 1. Inventory

| part | files | state it keeps | operations | modelled in |
|---|---|---|---|---|
| spending frames | `humbaba/runtime.py` (Budget), their users in `compile.py`, `go/vm.go` | per frame `limit`, `spent`, parent chain; one global lock | open, remaining, charge, reserve, refund | Budget, Ledger |
| parallel for | `compile.py` (do_par, _run_threads, _run_async), `runtime.py` | results, futures, pool queue, semaphore, `worst_gen_cost` | project, reserve, dispatch, collect, cancel, refund | ParallelFor, Fanout |
| durable journal | `journal.py`, `compile.py` (do_step, do_call, run), `go/journal.go` | append-only file; entries, replayed labels, restored spend | open, replay, record, finish | Journal, Durable, Checkpoint |
| generation and policies | `compile.py` (do_gen), `runtime.py` (eval_gen), `hbxvm.py` (_gen), `go/vm.go` (gen) | attempt counter, model name | ask, charge, coerce, retry, switch, give up | Generate |
| providers | `providers.py`, `model.py` | none | generate | Generate, as answers |
| mock model and its cassette | `model.py`, `cli.py` | recorded answers by key, in memory and in a file; the hit and miss counters | load, replay, answer, record, save | Cassette |
| Bound | `bound.py` | context variable with a tuple of frames; registry; price functions; audit sink | enter, exit, authorise, charge, taint | Bound (no taint) |
| closures | `compile.py` | slots, context (frame, capabilities, policy) | statements, expressions, calls, capabilities | Source, Closures |
| static checker | `check.py` | scopes of one pass: type, taint, mutability of a name | capability, taint, mutation, race, durability rules | Checker |
| HBX compiler | `hbx.py` | slots, code and stack depth of a function; lifted bodies | translate, lift, capture | Hbx |
| HBX machines | `hbxvm.py`, `go/vm.go`, `go/value.go` | frames: operand stack, slots, capabilities, budget node; taint marks | instructions | Values, Machine, Hosts; GEN with retries in Generate, STEP with a journal in Durable |
| tree interpreter | `runtime.py` | environments looked through at run time, context | statements, expressions, calls, blocks | Tree, Hosts; Budget, Generate |
| tool calls of a model | `compile.py` (model_tool_call), `runtime.py`, `model.py` | denial counter | permit, deny | Cassette (no counter) |
| front end | `lexer.py`, `parser.py`, `ast.py` | position in the tokens; the paths met by parse_file | statement, expression and operator levels; imports | Source, Parser, Imports, FrontEnd |
| command line, loader | `cli.py`, `go/hbx.go` | none that survives a call | options, run, save, loading | the save around a run, in Cassette |

How they interact.  An entry function runs in a context (`Ctx`) that holds a
frame of the budget chain, a set of capabilities and a policy.  A call hangs a
child frame under it.  A generation asks a provider, charges the frame (and so
the whole chain) and only then looks at the answer.  `parallel for` reserves
money on the frame it runs in and lets pool threads execute its bodies in that
same context.  A durable function records the results of its steps, and the
spend of its frame, in a file; after a crash the next execution restores both.
Before that, `parse_file` reads a file and what it imports into one table of
declarations, and a recursive descent over the tokens makes the trees.
One program has three ways to run.  The checker passes over its syntax tree; then the
closures (or the tree interpreter) evaluate it, or the HBX compiler translates it to
instructions, which the Python machine and the Go machine execute.  The closures rely
on the checker for taint; the HBX machines mark values and refuse them at `REQUIRE`.
Bound does the frames and the charging for plain Python programs, on the same
`Budget` class, with a context variable in the place of `Ctx`.  The command line loads a
cassette before a run and rewrites it after; in between, a generation whose key is on it
is replayed for nothing, and the model may call a tool with the authority of the function
that asked.

What is hard here, and what has to hold:

* *interleaving*: threads charge and reserve on one chain at different depths,
  and look at `remaining()` without the lock.  No frame goes past its limit; the
  totals are exactly what was charged and what is set aside; a refusal leaves no
  trace and gives the lock back.
* *ordering and failure*: iterations end, fail and are cancelled in any order,
  under asyncio some survive their block.  Results keep their index, the
  reservation comes back once, every block ends.
* *crashes*: the journal is appended to by processes that die at any point.
  Finished steps are not done again, their money is not forgotten, and a
  completed run starts afresh.
* *retries*: transient failures repeat the request, unusable answers change the
  model, and both use up one counter.  What is billed is charged.
* *recordings*: a failed run must leave its answers for the next one, a replay must give
  the same answers in whatever order threads ask, and a crash while the file is rewritten
  must not leave half of it to be believed.
* *two languages, four hosts*: what a program prints, calls, spends and is refused
  must not depend on the host, though `return`, `break` and `continue` are markers in one,
  exceptions in another and jumps in a third; taint has to be followed statically through one pass
  and dynamically through every instruction; a stack has to be deep enough.
* *concurrent contexts*: tasks copy the frames of their starter and outlive it.
  Authority only shrinks on the way down, charges reach every caller.
* *text*: statements have no terminator and eight levels of operators call one another;
  imports form any graph.  A program must be read as it was meant, and each file once.

## 2. Plan

Written, in this order: Ledger, Budget, MCBudget, BudgetProofs (money first: the
promise every other part leans on); Fanout, ParallelFor; Journal, Durable,
MCDurable; Generate, MCGenerate; Bound; Source, Checker, Closures, Hbx, Machine,
Hosts, MCHosts (one program under the checker, the closures and HBX); Tree (the second
backend, in the same run); Cassette, MCCassette; Parser, Imports, FrontEnd, MCFrontEnd;
BoundProofs, GenerateProofs, ParallelForProofs, CassetteProofs, JournalProofs,
DurableProofs; Values (taken out of Source), MachineProofs; Checkpoint.

Left, most important first:

1. **An abstract specification** of lent authority that Machine and Bound implement.
2. **Concurrent journals**: two executions of one durable function over a shared file,
   with the loop of `Journal.open` between the appends of another.
3. **Wider programs** in Hosts: policies, and a journal under STEP.

## 3. The modules

Money is an integer number of micro-units everywhere: the code rounds prices to
six decimals and compares with 1e-9 of slack.

**Ledger** says what spending frames promise: two books per frame (charged,
reserved), and steps that move a whole chain at once if it fits.  No totals, no
lock, no order of frames.

**Budget** follows `class Budget` and its users.  `spent`, `limit`, `parent` and
`chain` are the attributes; `holder` is `_BUDGET_LOCK`; each task has a program
counter.  `charge()` and `reserve()` are `Acquire`, one `CheckFrame` per capped
frame, `CheckDone`, one `ApplyFrame` per frame, `Release`, or `Refuse` from a
check; `refund()` has no check.  `remaining()` is a sequence of `PeekFrame`s that take no lock,
so they fall between the writes of others.  `Call`, `OpenFrame` and `Enter` are
`do_call`: compare, make the frame, evaluate the arguments (which may charge the
caller), run the body.  `Raise` paths unwind through `Abandon`, `Refund`,
`Return` until a `Catch`.  The tasks are the iterations of a block that runs in
frame `Base`.  `charged`, `reserved` and `held` are history: what was granted.

**Fanout** is the promise of a `parallel for`: bounded width, results in order or
a failure, nothing in flight at the end.  **ParallelFor** is `do_par` with its
three ways to dispatch.  The executing thread walks through `phase`, and fails before it
asks for money where the operand is no list (`NotAList`); each
iteration is a job whose `item` goes new, waiting (asyncio), queued, body, priced,
charged, storing, and ok or error or cancelled.  The spending frame is one
total and one limit (its chain is Budget's business).  `Preemptible` says whether
threads may switch between the comparison with `worst_gen_cost` and its store:
CPython before 3.10 and free-threaded builds do, others do not.

**Journal** is the file and `Journal.open`: lines, of which the last may lack its
newline; what can be read; which steps are live; and the loop of the code as a
function of the number of lines read, for comparison.  **Durable** runs a durable function over it: `Begin` opens
the file and restores entries and spend, steps are replayed or executed and
recorded, `Finish` writes the end mark.  `file` is stable storage, `cache` what
was appended since; `Record` appends, `Sync` is the return of fsync, `Finish`
does not sync, and writes its mark whatever the file looks like.  `Crash` ends the process
anywhere: a kill keeps what was written, a power loss keeps a prefix of it, and either may
cut an append in half.  The function runs in a frame of its own, in its caller's, or as the
entry function of an HBX machine.  There two things are otherwise: `Billed`, a step that
stands in a helper is recorded with the helper's spend by `compile.py` and with the total
of the machine by `go/vm.go` and `hbxvm.py`; and `Leaves`, a `return` in a step leaves the function
in the closures, and in HBX only the function that the step's body was lifted into.  The
histories `acked` and `safe` are the steps recorded since the last completion, and
those of them recorded behind readable lines only; `ended` are the steps whose bodies ever
came to their end; `complete` says that no execution has begun since a completion, and whether
a loss of power has taken its mark, `finished` which steps were safe then.

**Checkpoint** says what a durable function promises, without a file, lines or money: the
steps the execution knows, those the next one will find (`seen`), those that a loss of power
cannot take back (`saved`), and that after an interrupted write nothing more is kept, although
nothing that was safe is lost.  Durable implements it under this mapping: known are the steps
with an entry; seen are those whose records count in the file with all that was appended to
it, but for the record that is being written; saved are those that count in `file` without a
cut last line, which the next append makes unreadable; `damaged` is a file that is not intact.

**Generate** runs one generation of one policy on several hosts against one table
of provider answers: good, cached (free), malformed (priced, not of type T),
refused (the provider module raises after the answer), transient, other.

**Bound** has activities (the program, tasks, threads) with a stack of frames each.
`Enter` and `Exit` are the wrapper of `@bound`; `Authorise`, `Refuse`,
`RefuseTainted` are `_authorise`; `Call` or `Authorise`, then `Return`, `Overdraw` or
`Fail`, are a metered call, during which others run.  A task copies its starter's
frames, a bare thread has none.

**Cassette** is `humbaba run FILE --cassette PATH`, again and again over one file.
`file` is what the path holds, `tape` the dictionary in memory; `mode` is where the
process is; each iteration of the program's block has a position in its generations, a
model and the attempts it has lost.  `Miss` and `Answer` are two steps, so that other
threads run between the look-up and the recording.  `Close` is the end of
`interp.run`, by return or by an error of the language; `SaveOpen` empties the file and takes
the items, `SaveClose` is the file complete; `Exit` waits for threads that asyncio left.
`Die` is everything else, at any moment.  An answer is known by its key and by the run in
which it was given: within one process the mock model says the same to the same request, across
processes it need not (fabricate uses `hash` of a string).  `Obeys` is the tool call: the model
obeys what stands outside the fence, and the capabilities of the function decide.

**Values** has the values: a kind, a number that
tells contents apart, elements, the mark of the HBX hosts, and `from`, the untrusted
sources a value derives from.  No host knows `from`; marks and verdicts are judged
by it.  **Source** has the syntax trees of `ast.py`, and what is recursive about values: how
they are shown, compared and traced.  **Checker** has one operator per rule of `check.py` and the pass that threads
the scope through them.  **Closures** evaluates a program as `compile.py` does and is
the reference: `Refused` is what is looked at before any operand, `First` the operands,
`After` the rest of a construct; `return`, `break` and `continue` are values (`Signal`), which
`RunOn`, `LoopOn` and `WhileOn` recognise where the code does.  **Tree** does the same for
`runtime.py`, where `return` is an exception and half of the constructs are "unhandled".
**Hbx** is the translation: slots are names, a jump says how many
instructions it skips, `Lift` turns a body into a function with `Free` names as
parameters.  **Machine** executes the code, one action per group of instructions.  It takes
the function table that `Load` gives for a program, the functions that are in it (`FnsOf`:
a lifted body has no name), and what `Shown`, `Alike` and `Origins`
say of values; these are parameters, so that what is proved of it holds for any file.  In
the runs they are the translation of Hbx, its `Emitted` and the operators of Source.
`FileAssumption` is what makes a table a file: functions refer to functions of the file,
constants are plain values, operand counts are naturals, and no parameter has the name of a
keyword.  An instruction without its operands is not modelled: the machine stops there, and
since deadlock is checked, `programs` shows that compiled code never gets there.  In it
`stack` holds the frames, `wait` what the frame below does with the value of the one
above, `Unwind` and `Catch` are Python's exceptions and Go's error returns.  The two
machines are one module, which follows one of them where they differ.  A frame has a budget
node always, as in Python; Go makes none without a limit (vm.go 81), and that its shorter chain
grants and refuses the same is read off the code and compared by no run.  A loop over what is
not a list has no items, as in Go; Python takes the characters of a string and the keys of a
record.  Go's operand stack has a fixed size, which `DepthIsEnough` is about.  **Hosts** puts
closures, tree and machine side by side.

**Parser** reads statements and expressions from tokens, one operator per method of
`parser.py`; a reader takes the tokens from its own on and returns a node and the tokens
left.  The methods for the operator levels differ in their tokens only and are one operator,
`Level`.  The name of a `step` is read in two places, which differ on the empty name: the statement
does not get past it, the expression does.  **Imports** is `parse_file`.  **FrontEnd** writes trees as text, by the
precedence table of LANGUAGE.md 6.1 extended by the operators that it does not have yet,
without a bracket that the table does not call for, and gives the text to the parser.

## 4. The runs

| run | question | bounds |
|---|---|---|
| budget_shared | do concurrent charges, reservations and calls keep limits and books? | 2 tasks, chain of 3 frames, prices 1 and 2, limits 2 and 3 or none: two callers collide on a common ancestor, one refuses, one holds a reservation |
| parallel_threads | does the thread pool (and the inline path, one item) implement Fanout? | 2 blocks, up to 3 items, width 2, so one item queues; prices 0 (a cassette hit), 2 and 3, limit 5 or none: two prices above the seed race for `worst_gen_cost` |
| parallel_asyncio | are results ordered and the reservation exact when threads outlive a block? | 2 blocks, up to 3 items, width 2 over a pool of 1 |
| durable_crashes | what survives crashes, and is it what Checkpoint promises? | 4 functions of up to 3 steps (plain, one that returns, a label twice, one in a helper) called in 3 ways, 4 starts, 3 crashes: a crash while recovering from a crash, and a start after each |
| generate_policies | are retries, fallback and charging right? | every policy with up to 2 retries, prices 3 and 1, limit 4 or none: the second answer of the dear model is refused |
| bound_tasks | do contexts and budgets hold across tasks? | 2 activities, 3 frames, 2 units of money, limit 1 or none: two calls in flight on a budget for one |
| programs | do the HBX hosts and the tree interpreter do what the closures do, on what authority, and does taint get past marks, REQUIRE or checker? | 6624 programs: `main` calls `handle`, which calls `helper`; bodies of ten shapes (dropped, returned, given on, tried, assigned, shadowed, looped over, left half-way) over expressions with up to two operands and one list of six, and loops over what is not a list; a `while` turns up to 12 times; 8 settings of what `handle` may lend, the two limits and the body of `helper` |
| cassette_runs | what does a run find on the tape that earlier runs, failed, killed or completed, have left? | 3 runs, two iterations that ask for the same key first, one retry, limit 2 or none, the dear model overloaded or not in each run: a run that records, one that is cut off or fails half-way, one that replays |
| front_end | is a body read back as it was meant, and are imports merged? | every expression of two constructs (three where one operand is a name), every pair of statements; three files with at most two declarations and two imports each, of any of them or of a missing one |
| parallel_suffices | *violated*: a granted block "starts with a guaranteed allowance" | |
| durable_torn_lost | *violated*: "completed steps replay from the journal without executing" | |
| backends_return | *violated*: "Both backends must agree" | three bodies, 2 items |

The bounds are small because the rules are local: a charge looks at one chain, a
block at one queue, a restart at one file.  Each bound lets the hazard happen at
least once and recover once: two parties and one resource that is too small for
both, one more item than threads, one more start than crashes.  The named bounds
are `MaxCharged`, `FrameLeft` (identities of frames), `MaxItems`, `MaxBlocks`,
`MaxStarts`, `MaxCrashes`, `MaxRetry`, `MaxActivities`, `MaxFrames`, `MaxPaid`,
`MaxRuns`, `LoopTurns` (an operand left by each turn would be past every computed depth long
before the twelfth).  The programs of `programs` nest one construct in another: the
rules of the checker, the compiler and the machines look at one node and the results of
its parts.
Deadlock is checked in every run but front_end, where reading ends with its result;
programs that have ended stutter in `Finished`.

What the three violations show, with their traces:

* A reservation is added to `spent` and each charge is added again, so a block whose
  projection fits is granted and then fails half-way, with prices as projected.
* `record()` appends behind a torn line.  The merged line is no JSON, `open()` stops
  there, and a step recorded after the first crash is executed again after the
  second.  `StepsRunOnce` states what is true: it holds for steps recorded
  behind readable lines.
* `do_for` returns the marker of a `return` as the value of the loop.  `let x = for ...
  { return it }` binds it and the function goes on to the next statement, and after
  `return for ... { return it }` the caller gets a marker, which ends it too where the
  call is a statement of its own.  The tree interpreter, where `return` is an exception,
  leaves the function in both.  `TreeAgrees` is what is true: without a `return` in a loop
  the backends agree.

Differences between code and documents that are in the model and have no run:

* Under asyncio (`limit` above 512) the pool is shut down without waiting, so a failed
  block answers while a thread is still in an iteration of it (LANGUAGE.md 358-359:
  "Nothing outlives the block").  parallel_asyncio shows that the reservation stays exact.
* The value of a step that returned from the function is replayed as a value; the
  resumed run goes on to steps that the first run did not reach (journal.py 10-11).
* `SameAsClosures` excludes by name what HBX has otherwise.  `KeepsOperands`: REQUIRE takes
  nothing off the stack, and the compiler emits no POP for the arguments of a capability
  call (hbx.py 528-534; 416-418 drops the nil only).  Below a statement they lie there
  unseen; elsewhere they shift the operands, as in the list `["p", web.search("x")]`.
  `print(a, b)` shows `b` only and leaves `a`.
  `KeepsNames`: the body of a `for` or a `step` is a function of its own, where
  assignments and returns are lost.  `KeepsScopes`: a name has one slot per function, so a
  `let` in a block overwrites the outer name that it should shadow (LANGUAGE.md 127-128).
  `KeepsRecords`: RECORD names its operands in the order of the declaration, so a literal in
  another order has its fields exchanged; records are compared by contents on HBX and by
  identity in the closures.  `KeepsLists`: `for` and `parallel for` over what is not a list are an
  error in the closures and the tree, nothing in Go, and a loop over characters or keys in
  hbxvm.py.  `Opaque`: a capability answers nil, `try` gives a record.
* "Conservative peak depth, so a host can allocate the stack once" (hbx.py 134, HBX.md 28-29)
  is false for a `while` whose body leaves operands, as a statement that calls a capability with
  arguments does: the depth grows with every turn, and Go, which allocates that depth and
  16 cells (vm.go 219), panics after enough of them.  `DepthIsEnough` is about programs that
  leave none (`SteadyLoops`): jumps out of a loop, operators and branches keep the
  depth.  Without that condition TLC finds the growth in the same run.
* LEN gives a clean number for a tainted value, LIST, RECORD and TRY build clean containers
  around marked values and PARALLEL takes the items of a list without the mark of the list
  (HBX.md 206: "Propagate taint through every value-producing instruction").
  `MarksFollowData` is about files without these; `RequireStopsTaint` as well, and about
  the topmost operand, since REQUIRE looks at no other.
* A statement that begins with `(`, `[` or `-` is taken into the expression before it, and
  so is such an item of a list without commas (LANGUAGE.md 19-21: "the grammar is unambiguous
  without them").  `ParsesBack` says that nothing else goes wrong.  Keywords are read as names
  where an expression may stand; a statement that begins with `step` is never an expression;
  `_dead_multiplicative` has no caller.  LANGUAGE.md 127, 182-183 and 437 deny assignment, `and`,
  `or`, `not` and unary minus, which the parser has.
* A duplicate declaration in one file replaces the first, in two files it is an error.
* "Every provider response is" stored (LANGUAGE.md 371): a truncated answer is charged and
  not recorded, so it is paid for again by the next run.  An answer that the budget refuses
  is recorded.  Requests that asyncio left behind are answered after the save.  A cassette
  that was cut off makes every later start fail, until it is removed.  With `retry: 0` the
  fallback is not asked.
* The tree interpreter makes no reservation for a parallel block, so such a program may
  spend where the closures refuse.
* HBX hosts return a provider's answer uncoerced; the closures fail it (HBX.md 148-151).
* An `untrusted` parameter of a prompt is not in an HBX file: the machines fence what
  is marked, the closures what the prompt says (LANGUAGE.md 84).
* The closures refuse a call whose callee declares more capabilities, or a larger budget,
  than the caller has; the HBX machines intersect and compare no budgets.  Programs that
  the closures decline are left out of `SameAsClosures`.
* The checker's taint stops at a parameter not declared `untrusted`, at a prompt not
  declared so, at `len`, at the elements of a loop and at a line above the assignment in
  a loop (LIMITATIONS.md 304-307).  `CheckerStopsTaint` excludes them (`Traced`).
* `remaining()` takes no lock, so a call can see a chain half charged
  (ARCHITECTURE.md 118-120); the charges themselves stay exact (`SpentWithinLimit`).
* An argument may spend between the comparison with the allowance and the start of
  the callee (LANGUAGE.md 303-305), so the callee's budget need not fit; concurrent
  iterations have the same effect.
* Two threads can store a lower price over a higher one in `worst_gen_cost`
  (LIMITATIONS.md 191) where threads may switch there.
* "A completed run is marked done, so a rerun starts fresh rather than resuming"
  (LIMITATIONS.md 149-150) fails in two ways.  The end mark is not synced, so a loss of power
  can take it back.  And it may be readable to nobody: behind a line that a mere kill has torn,
  `open()` stops before it, and the completed run is resumed.  `FreshAfterDone` says that a
  rerun starts afresh in all other cases, and that in these it is resumed with every step
  that was safe, never with a part of them.
* A label that occurs twice: the later step is replayed with the value of the first, in the
  execution that recorded it too, where go/journal.go 109-112 promises an error; a
  resumed execution gives that error.  `OwnRecord` says that what is known under a label is
  always the result of its first step.
* A step in a helper with a frame of its own is recorded with that frame's spend by the
  closures, so that the rest is forgotten; the HBX hosts record the machine's total.  The
  restored spend of a called durable function is not told to its callers, and
  overwrites the total of a frame shared with them; what an interrupted step spent
  is forgotten.  `MoneyIsCounted` is what remains: the money of safely recorded
  steps is counted, those in helpers excepted unless the host is one of HBX.
* A provider that raises RefusalError after its answer is billed and not charged
  (LANGUAGE.md 308): `unpriced` in Generate.  With no attempt left the fallback is
  not asked (LANGUAGE.md 325-328): `FallbackIsTried` says with one left it is.
* A bare thread starts with an empty context; the docstring of bound.py (25-26,
  115-119) says contexts are copied into each thread.  asyncio.to_thread does copy.

## 5. Fairness

* Budget: weak fairness of the steps inside the lock.  A thread that holds it only
  computes.  Nothing is assumed about who gets the lock: `threading.Lock` is not fair.
* ParallelFor: weak fairness of the executing thread, of the event loop and of each
  worker: the operating system runs ready threads, and a provider call ends by
  answer, error or time-out (`providers.py` passes one).
* Generate: weak fairness of each host, for the same reason.
* Cassette: weak fairness of the process (closing, saving, exit) and of each iteration: the
  main thread goes on, and requests end.  Starts, removals and crashes are not fair.
* Durable, Bound, Machine and FrontEnd have no liveness property and assume no fairness: a program
  may be left alone for ever.

## 6. Proofs

Each theorem holds for every value of the constants that satisfies the named assumption of
its module.  The bounds (`MaxFrames`, `MaxRuns`, ...) are constants as well: whatever
number they have, the theorem holds.  The pattern is everywhere the same: an inductive
invariant `IInv`, `Init => IInv`, a lemma per conjunct (or per group of actions) with one
step per action that can disturb it, `NextIInv`, and the theorem by temporal logic.  TLC
found every `IInv` to hold on the run of its component as well.

**BudgetProofs** (from `BudgetAssumption`: null values are no frames and no tasks, limits
are naturals, prices positive, tasks and frames finitely many, since the number of frames
left is a cardinality).  `BudgetTypeCorrect` is TypeOK, `NoOverspend` SpentWithinLimit,
`TotalsAccountForMoney` BooksBalance, `ReservationsAreReturned` NothingStaysReserved,
`ChargesPropagate` AncestorsCover, `BudgetImplementsLedger` LedgerSpec.
`SpentWithinLimit` alone fails at `ApplyFrame`: why may the pass write here?  Because the
pass before it looked at every capped frame and nobody has written since.  `IInv` says so:
`ChainsClosed` (a chain holds the chains of its members), `TasksPlaced` (tasks run in frames
that exist), `LockOwned` (exactly the holder is in a pass), `PassesSound` (what is checked,
and what is yet to be written, has room; a refund is of all that is held), `FreshFrames` and
`FreshHold` (nothing is written to, or held on, frames that do not exist), `PricesKnown`, and
`ReservedIsHeld`: a frame's reservations are a sum over all tasks and frames below.  The last two
theorems are about `spent` where nobody is in the lock.  A function that has
ended leaves nothing reserved, since tasks hold money only on frames they work in
(`HeldWhereWorking`), and unwinding stays on the chain (`CallsGoDown`).  A caller has spent no less than
its callee: what was charged to one was charged to the other (`ChargesCover`), what is held
below the callee is held below the caller (`ChainsFollowParents`), and `spent` is their sum.  How that
sum moves when one summand does is a small theory of sums over finite sets at the head of
the module, by hand: sums exist and are unique, by the least cardinality of a
counterexample.  The refinement maps the checked and applied request to one ledger step at
`Release`; there `PassesSound` and `BooksBalance` give that the amount fitted.

**BoundProofs**.  `SpendPropagates` is SpendReachesCallers,
`AuthorityShortens` AuthorityOnlyShortens.  The heart is `StacksAreChains`: the stack of an
activity, wherever it was copied from and whoever has left it since, has each function once,
and the i-th frame charges itself and those below it; `StacksShorten` says the same of
capabilities.

**GenerateProofs** (`None` is no model, answer or result).  `SoftFailureSwitches` is
ModelFollowsSoftFailure, `FailuresAreCharged` BilledIsCharged, `FallbackTried` FallbackIsTried.
The last is about a generation that has given up, from what it did much earlier:
`Trails` reads its whole way in the table of answers, hard failures up to the first
soft one and answers of the other model since.

**ParallelForProofs** (any width, pool, list, limit and prices, both schedulers, with or
without preemption).  `TypesHold`, `ReservationComesBack` (ReservationReturned),
`OrderIsKept` (ResultsInOrder), `ProjectionStaysObserved` (ProjectionIsObserved), and
`ThreadsImplementFanout`, for threads only: under asyncio it is false, as section 4 says.
`Books`: the frame holds what was charged plus what is reserved now.  `Dispatched` is what
the dispatching thread knows in each phase, `QueuedOnce` and `LandedOnce` that no item is
queued or seen twice, `Landing` that with threads nothing is on its way when the block
answers.  `RemoveAtFacts` and `TakenWasQueued` are about taking a job out of the queue.

**JournalProofs** has facts about files of lines, of any length: what an append leaves of
the live steps, behind a torn line (`LiveBehindBad`) or an end mark (`MarksEmpty`) as well, and `LoopReadsLive`: the loop of `Journal.open`,
line by line, gathers what `Live` says.  This is an induction over the file, made
without the induction rule (which takes an operator) from the least number of lines at which
loop and definition differ.

**DurableProofs** (`JournalAssumption`: the null entry is no step; `DurableAssumption`: types).
`SafeStepsRunOnce` is StepsRunOnce, `MoneyCounted` MoneyIsCounted, `OpenRestores`
OpenReadsLiveSteps, `CompletedRunsStartFresh` FreshAfterDone, `OwnRecords` OwnRecord,
`DurableImplementsCheckpoint` CheckpointSpec; `DurableTypes` is the type invariant, and
`NothingIsInvented` says that a step is passed over only if one of its name was done.  That a safe step is known to a new execution follows from
`SafeIsHeld`: its record is live on stable storage and `Whole`, so that no append, torn or
not, can hide it again; `CacheIsOne` gives that a crash has at most one line to lose;
`MoneyIsHeld` that some such record has the money of all safe steps, where the function's frame is what
is recorded (`FrameIsBilled`).  A completed run starts afresh or keeps all because of `AllOrNone`:
between the completion and the next execution no record counts, or all those of the
finished steps do, for behind them the cache holds the end mark and nothing else.  The record of
a label is its first step's because control passes known steps only (`PassedAreKnown`), so
that a step that is executed is the first with its label.
The refinement needs more, since it has to say what every file is worth, the damaged ones too.
`OnlyMarks`: besides the record that is being written, only end marks await the disk, for a
run that goes on has synced its records.  `SettledFile`, `RecordedFile`, `CutIsRagged` and
`KeptFile` then say what counts in the file with those marks, with the record as well, with a
torn last line, and with whatever prefix a crash keeps; there is a lemma for each action
(`BeginImplements` to `CrashImplements`), and all others change nothing that Checkpoint sees.
`Types` says that the body of a step that is being recorded, or was ever recorded, has ended.

**CassetteProofs** (every iteration of the program generates at least once).
`ReplaysAreIdentical` is ReplayIsIdentical, `RequestsAreAnsweredOnce` AnsweredOnce.  Two runs
do not see one another, so the invariant says what a tape `Fixes`: for each text that it
can answer, which model answers and from which run.  `GotIsFixed` says that a run has got
just that, `ShownIsFixed` that later tapes fix for the shown run what it got,
`KeptStays` that answers of finished runs stay on file, tape and copy until the file is lost.

**MachineProofs**.  `AuthorityIsLent` is AuthorityOnlyShrinks,
`EveryUseIsDeclared` says that what REQUIRE lets through is declared by every function on
the stack.  Both hold for any function table, also one that no compiler wrote, and use no
assumption on `Load`: the machine itself intersects.  `Sound`: a frame holds what it
declared at most and what the frame below it holds at most, through calls, `try`, blocks, and
unwinding.
`MarksFollow` is MarksFollowData, `TaintIsStopped` RequireStopsTaint, for any file of
`FileAssumption`.  `Origins` is a parameter, since `Sources` is recursive; `OriginsAreDeep` is
the hypothesis that stands for its definition: what a value derives from is what it says
itself and what its elements say.  `MarksFollowData` is not inductive.  A field of a record
is clean when the record is read into parts, so one has to know that elements have no elements
of their own and derive from no parameter unless the record is marked (`Good`); a function that
returns gives its value to a frame that must be waiting for a call and not for a `try`; and what
a frame executes must be a function of the file, since the untrusted parameters are those of
the file.  `MarksInv` says this of every frame (`Tidy`), for files that keep
marks: `KeepsMarks` excludes the five instructions that section 4 lists.  There is a lemma for each
way to make a value (`Part`, `Combined`, `Negated`, `Generated`, `Recorded`, `Entered`) and a
step for each instruction.

What the proofs asked of the model.  Cases that overlapped: where `open` meets a line after an
unreadable one, and where the closures and the tree go on after an error, two arms of a CASE
were enabled.  TLC takes the first, the definition leaves the value open, and the loop could not
be proved to read what counts; the arms are now exclusive or an IF.  Machine took the translation and the
operators on values by EXTENDS, and with them their recursion; they are parameters now.
INDEX joined the mark of the container and not that of the index, which both machines join.

Only model-checked:

* the liveness properties (`LockIsReleased`, `BlockEnds`, `GenerationEnds`, `RunEnds`): they
  need fairness and ENABLED, out of the prover's reach;
* the properties of Hosts but for authority and marks (`SameAsClosures`, `TreeAgrees`,
  `CheckedIsNeverDenied`, `DepthIsEnough`, `CheckerStopsTaint`), and those of FrontEnd: Closures, Tree, Checker,
  Hbx, Source, Parser and Imports compute over trees with RECURSIVE operators, which the prover
  does not take, and what they compute is an induction over data;
* ParallelFor's Fanout under asyncio is not claimed; the three violations are
  counterexamples.

## 7. Not modelled

The way from characters to tokens, declarations of types, prompts and functions, type
checking of answers beyond "has the shape or has not", prompts and fencing text, HTTP,
prices as floats, options of the command line.  Source has the constructs that carry
enforcement and one or two of each kind of the others (one comparison, one arithmetic
operator); there is no arithmetic on strings, no policy inside a program of Hosts (Generate has
every policy), and a `step` there has no journal (Durable has).  The registry and the audit sink
of Bound are configuration and observation; which of its values are tainted is not followed
(`RefuseTainted` happens at any time; a mark is lost by `str`, `len`, comparison and
containers).  In ParallelFor a body is a row of generations; in Durable a function is
the list of steps control reaches, only steps spend, and one process runs at a
time; in Budget a block does not nest in another block of the same frame.  In Cassette a
model gives one answer to one key within a run: fabricate() is a function of the request, and the
random generator of `--chaos` only decides which requests fail.  `break` and `continue` inside the body of a `for` or a `step` are a
CompileError for HBX and are left out of Hosts.
