------------------------------- MODULE Fanout -------------------------------
(***************************************************************************)
(* What a `parallel for` promises its program: iterations fly only while   *)
(* the block is open, never more than its width at once; the block closes  *)
(* when all that flew have landed, with one result per item in the order   *)
(* of the items, or with a failure when it has none or some did not        *)
(* succeed.  Module ParallelFor implements this with a pool of threads.    *)
(***************************************************************************)
EXTENDS Naturals, FiniteSets

CONSTANTS MaxItems,  \* the longest list a block runs over
          Width,     \* the `limit` of the block
          NoAnswer, Failure

VARIABLES open,      \* a block is being executed
          size,      \* length of the list it runs over
          flying,    \* items whose body is being executed
          succeeded, failed,
          answer     \* what the last block gave: a list of results or Failure

fanoutVars == <<open, size, flying, succeeded, failed, answer>>

Init ==
  /\ open = FALSE
  /\ size = 0
  /\ flying = {} /\ succeeded = {} /\ failed = {}
  /\ answer = NoAnswer

Open(k) ==
  /\ ~open
  /\ open' = TRUE
  /\ size' = k
  /\ flying' = {} /\ succeeded' = {} /\ failed' = {}
  /\ answer' = NoAnswer

Begin(i) ==
  /\ open
  /\ Cardinality(flying) < Width
  /\ i \in (1..size) \ (flying \cup succeeded \cup failed)
  /\ flying' = flying \cup {i}
  /\ UNCHANGED <<open, size, succeeded, failed, answer>>

Succeed(i) ==
  /\ i \in flying
  /\ flying' = flying \ {i}
  /\ succeeded' = succeeded \cup {i}
  /\ UNCHANGED <<open, size, failed, answer>>

Fail(i) ==
  /\ i \in flying
  /\ flying' = flying \ {i}
  /\ failed' = failed \cup {i}
  /\ UNCHANGED <<open, size, succeeded, answer>>

\* The result of item i is written i: results are told apart by their item.
CloseWithResults ==
  /\ open
  /\ succeeded = 1..size
  /\ open' = FALSE
  /\ answer' = [i \in 1..size |-> i]
  /\ UNCHANGED <<size, flying, succeeded, failed>>

\* A block that fails has met a failed item, or has started none.
CloseWithFailure ==
  /\ open
  /\ flying = {}
  /\ failed # {} \/ succeeded = {}
  /\ open' = FALSE
  /\ answer' = Failure
  /\ UNCHANGED <<size, flying, succeeded, failed>>

Next ==
  \/ \E k \in 0..MaxItems : Open(k)
  \/ \E i \in 1..MaxItems : Begin(i) \/ Succeed(i) \/ Fail(i)
  \/ CloseWithResults
  \/ CloseWithFailure

Spec == Init /\ [][Next]_fanoutVars
=============================================================================
