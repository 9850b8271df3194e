------------------------------- MODULE Bound --------------------------------
(***************************************************************************)
(* humbaba/bound.py: decorators that give Python functions a frame of      *)
(* authority and spending.  The frames of running bound functions are a    *)
(* tuple in a context variable: a task starts with a copy of its starter's *)
(* context, a bare thread starts with an empty one.  Calls of metered      *)
(* functions take time, in which other activities run, and are charged to  *)
(* the current frame when they return; they call nothing bound themselves. *)
(* The passes of Budget.charge under its lock are in module Budget; a      *)
(* charge is one step here.                                                *)
(***************************************************************************)
EXTENDS Integers, FiniteSets, SequencesExt

CONSTANTS MaxActivities,   \* bound: tasks and threads the program starts, itself too
          MaxFrames,       \* bound: calls of bound functions
          MaxPaid,         \* bound: money charged on behalf of a call at which the
                           \* program starts no other metered call for it
          Cap,             \* declared capability names
          Uses,            \* the `uses` of bound functions
          Limit, NoLimit,  \* their budgets
          Price            \* what a metered call may cost

ASSUME BoundAssumption ==
  /\ MaxActivities \in Nat \ {0}
  /\ MaxFrames \in Nat /\ MaxPaid \in Nat
  /\ Uses \subseteq SUBSET Cap
  /\ Limit \subseteq Nat /\ NoLimit \notin Nat
  /\ Price \subseteq Nat

Activity == 1..MaxActivities  \* in the order they are started
Frame == 1..MaxFrames         \* in the order they are made
NoFrame == 0

VARIABLES
  stack,    \* stack[a]: _frames in the context of a, the current frame last
  base,     \* base[a]: how many of them a was started with
  mode,     \* mode[a]: what a is doing
  caps, limit,  \* attributes of a frame and of its Budget
  chain,    \* chain[f]: Budget._chain of f; {} while f does not exist
  spent,    \* spent[f]: Budget.spent of f
  \* history variables
  uses,     \* uses[f]: what the function of f declared
  path,     \* path[a]: the bound functions on whose behalf a runs: those it is in,
            \* and those its starter was in; a bare thread is on its own
  paid      \* paid[f]: money charged for calls made on behalf of f

frames == <<caps, limit, chain, uses>>
vars == <<stack, base, mode, frames, spent, path, paid>>

-----------------------------------------------------------------------------
\* _current
Current(a) == IF stack[a] = << >> THEN NoFrame ELSE Last(stack[a])

\* current_caps
Held(a) == IF Current(a) = NoFrame THEN {} ELSE caps[Current(a)]

\* The Budget objects a charge of activity a goes to.
Charged(a) == IF Current(a) = NoFrame THEN {} ELSE chain[Current(a)]

Fits(a, p) ==
  \A n \in Charged(a) : limit[n] # NoLimit => spent[n] + p <= limit[n]

Init ==
  /\ stack = [a \in Activity |-> << >>]
  /\ base = [a \in Activity |-> 0]
  /\ mode = [a \in Activity |-> IF a = 1 THEN "run" ELSE "new"]
  /\ caps = [f \in Frame |-> {}]
  /\ limit = [f \in Frame |-> NoLimit]
  /\ chain = [f \in Frame |-> {}]
  /\ spent = [f \in Frame |-> 0]
  /\ uses = [f \in Frame |-> {}]
  /\ path = [a \in Activity |-> {}]
  /\ paid = [f \in Frame |-> 0]

-----------------------------------------------------------------------------
\* Starting activities.

IsNext(b) == mode[b] = "new" /\ \A a \in Activity : a < b => mode[a] # "new"

\* asyncio.create_task, asyncio.gather, asyncio.to_thread: the context is copied.
StartTask(a, b) ==
  /\ mode[a] = "run"
  /\ IsNext(b)
  /\ mode' = [mode EXCEPT ![b] = "run"]
  /\ stack' = [stack EXCEPT ![b] = stack[a]]
  /\ base' = [base EXCEPT ![b] = Len(stack[a])]
  /\ path' = [path EXCEPT ![b] = path[a]]
  /\ UNCHANGED <<frames, spent, paid>>

\* threading.Thread, ThreadPoolExecutor: the context is empty.
StartThread(a, b) ==
  /\ mode[a] = "run"
  /\ IsNext(b)
  /\ mode' = [mode EXCEPT ![b] = "run"]
  /\ UNCHANGED <<stack, base, frames, spent, path, paid>>

End(a) ==
  /\ mode[a] \in {"run", "raise"}
  /\ Len(stack[a]) = base[a]
  /\ mode' = [mode EXCEPT ![a] = "end"]
  /\ UNCHANGED <<stack, base, frames, spent, path, paid>>

-----------------------------------------------------------------------------
\* Bound functions.

IsFree(f) == chain[f] = {} /\ \A g \in Frame : g < f => chain[g] # {}

\* Mutant: a function gets all it declares.
EnterUnattenuated(a, f, d, l) ==
  /\ mode[a] = "run"
  /\ IsFree(f)
  /\ caps' = [caps EXCEPT ![f] = d]
  /\ chain' = [chain EXCEPT ![f] = {f} \cup Charged(a)]
  /\ limit' = [limit EXCEPT ![f] = l]
  /\ uses' = [uses EXCEPT ![f] = d]
  /\ stack' = [stack EXCEPT ![a] = Append(@, f)]
  /\ path' = [path EXCEPT ![a] = @ \cup {f}]
  /\ UNCHANGED <<base, mode, spent, paid>>

\* Mutant: a function with a budget does not charge its caller's.
EnterDetached(a, f, d, l) ==
  /\ mode[a] = "run"
  /\ IsFree(f)
  /\ caps' = [caps EXCEPT ![f] = IF Current(a) = NoFrame THEN d ELSE Held(a) \cap d]
  /\ chain' = [chain EXCEPT ![f] = {f} \cup IF l = NoLimit THEN Charged(a) ELSE {}]
  /\ limit' = [limit EXCEPT ![f] = l]
  /\ uses' = [uses EXCEPT ![f] = d]
  /\ stack' = [stack EXCEPT ![a] = Append(@, f)]
  /\ path' = [path EXCEPT ![a] = @ \cup {f}]
  /\ UNCHANGED <<base, mode, spent, paid>>

\* _enter: a call of a function bound with uses d and budget l.
Enter(a, f, d, l) ==
  /\ mode[a] = "run"
  /\ IsFree(f)
  /\ caps' = [caps EXCEPT ![f] = IF Current(a) = NoFrame THEN d ELSE Held(a) \cap d]
  /\ chain' = [chain EXCEPT ![f] = {f} \cup Charged(a)]
  /\ limit' = [limit EXCEPT ![f] = l]
  /\ uses' = [uses EXCEPT ![f] = d]
  /\ stack' = [stack EXCEPT ![a] = Append(@, f)]
  /\ path' = [path EXCEPT ![a] = @ \cup {f}]
  /\ UNCHANGED <<base, mode, spent, paid>>

\* The function returns or raises: _frames.reset(token) in its finally clause.
Exit(a) ==
  /\ mode[a] \in {"run", "raise"}
  /\ Len(stack[a]) > base[a]
  /\ stack' = [stack EXCEPT ![a] = Front(@)]
  /\ path' = [path EXCEPT ![a] = @ \ {Current(a)}]
  /\ UNCHANGED <<base, mode, frames, spent, paid>>

Catch(a) ==
  /\ mode[a] = "raise"
  /\ mode' = [mode EXCEPT ![a] = "run"]
  /\ UNCHANGED <<stack, base, frames, spent, path, paid>>

-----------------------------------------------------------------------------
\* Metered calls.

Affordable(a) == \A f \in path[a] : paid[f] < MaxPaid

\* _authorise lets a call of a function that exercises capability c through.
Authorise(a, c) ==
  /\ mode[a] = "run"
  /\ c \in Held(a)
  /\ Affordable(a)
  /\ mode' = [mode EXCEPT ![a] = "calling"]
  /\ UNCHANGED <<stack, base, frames, spent, path, paid>>

\* CapabilityError
Refuse(a, c) ==
  /\ mode[a] = "run"
  /\ c \notin Held(a)
  /\ mode' = [mode EXCEPT ![a] = "raise"]
  /\ UNCHANGED <<stack, base, frames, spent, path, paid>>

\* TaintError: the capability is held, an argument is Untrusted.  Which values are is
\* not followed here.
RefuseTainted(a, c) ==
  /\ mode[a] = "run"
  /\ c \in Held(a)
  /\ mode' = [mode EXCEPT ![a] = "raise"]
  /\ UNCHANGED <<stack, base, frames, spent, path, paid>>

\* A metered function that exercises no capability.
Call(a) ==
  /\ mode[a] = "run"
  /\ Affordable(a)
  /\ mode' = [mode EXCEPT ![a] = "calling"]
  /\ UNCHANGED <<stack, base, frames, spent, path, paid>>

\* The call returns and is charged; without a frame charge() does nothing.
Return(a, p) ==
  /\ mode[a] = "calling"
  /\ Fits(a, p)
  /\ spent' = [n \in Frame |-> IF n \in Charged(a) THEN spent[n] + p ELSE spent[n]]
  /\ paid' = [n \in Frame |-> IF n \in path[a] THEN paid[n] + p ELSE paid[n]]
  /\ mode' = [mode EXCEPT ![a] = "run"]
  /\ UNCHANGED <<stack, base, frames, path>>

\* BudgetExceeded takes the place of the result; the call has been made.
Overdraw(a, p) ==
  /\ mode[a] = "calling"
  /\ ~Fits(a, p)
  /\ mode' = [mode EXCEPT ![a] = "raise"]
  /\ UNCHANGED <<stack, base, frames, spent, path, paid>>

\* The call raises and costs nothing.
Fail(a) ==
  /\ mode[a] = "calling"
  /\ mode' = [mode EXCEPT ![a] = "raise"]
  /\ UNCHANGED <<stack, base, frames, spent, path, paid>>

Step(a) ==
  \/ \E b \in Activity : StartTask(a, b) \/ StartThread(a, b)
  \/ \E f \in Frame, d \in Uses, l \in Limit \cup {NoLimit} : Enter(a, f, d, l)
  \/ Exit(a) \/ Catch(a) \/ End(a)
  \/ \E c \in Cap : Authorise(a, c) \/ Refuse(a, c) \/ RefuseTainted(a, c)
  \/ Call(a)
  \/ \E p \in Price : Return(a, p) \/ Overdraw(a, p)
  \/ Fail(a)

Finished ==
  /\ \A a \in Activity : mode[a] \in {"new", "end"}
  /\ UNCHANGED vars

Next == (\E a \in Activity : Step(a)) \/ Finished

Spec == Init /\ [][Next]_vars
-----------------------------------------------------------------------------
\* "Authority only ever shortens as you go down the call stack": a call that exercises
\* a capability is let through only if every bound function on whose behalf it is made,
\* in this task and in the tasks that started it, declared the capability.
AuthorityOnlyShortens ==
  [][\A a \in Activity, c \in Cap :
       Authorise(a, c) => \A f \in path[a] : c \in uses[f]]_vars

\* docs/BOUND.md, Async: "concurrent tasks cannot leak into one another".  What a call
\* costs is spent by every bound function on whose behalf it was made, and by no other,
\* whatever its task, its starter and the tasks it started enter and leave while the
\* call is under way, and also when the task outlives the function that started it.
SpendReachesCallers == \A f \in Frame : spent[f] = paid[f]
=============================================================================
