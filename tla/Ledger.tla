------------------------------- MODULE Ledger -------------------------------
(***************************************************************************)
(* What spending frames promise, with no running total, no lock and no     *)
(* order of frames: two books per frame, one of what was charged and one   *)
(* of what is reserved, and steps that move a whole chain at once.  Module *)
(* Budget, which follows the code, implements this specification.          *)
(***************************************************************************)
EXTENDS Integers

CONSTANTS Task,      \* threads of the program
          Frame,     \* identities of Budget objects
          Root,      \* the frame of the entry function
          Base,      \* the frame of the block the tasks belong to
          Limit,     \* budgets a function may declare
          NoLimit,   \* `limit is None`
          Money      \* prices of generations and sizes of reservations

VARIABLES chain,     \* chain[f]: f and its ancestors; {} while f does not exist
          limit,     \* limit[f]: the declared budget, or NoLimit
          charged,   \* charged[f]: money charged to f or to a descendant of f
          reserved,  \* reserved[f]: money set aside in f or in a descendant
          held       \* held[t][f]: what task t has set aside in frame f

ledgerVars == <<chain, limit, charged, reserved, held>>

\* A book in which every frame of the chain of f moved by a.
Moved(book, f, a) ==
  [n \in Frame |-> IF n \in chain[f] THEN book[n] + a ELSE book[n]]

\* Amount a fits under every limit between f and the root.
Fits(f, a) ==
  \A n \in chain[f] :
    limit[n] # NoLimit => charged[n] + reserved[n] + a <= limit[n]

Init ==
  /\ chain = [f \in Frame |-> CASE f = Root -> {Root}
                                [] f = Base -> {Base, Root}
                                [] OTHER -> {}]
  /\ limit \in [Frame -> Limit \cup {NoLimit}]
  /\ charged = [f \in Frame |-> 0]
  /\ reserved = [f \in Frame |-> 0]
  /\ held = [t \in Task |-> [f \in Frame |-> 0]]

\* A call of a function with a budget hangs a new, empty frame under its caller's.
Open(f, p, b) ==
  /\ chain[f] = {}
  /\ chain[p] # {}
  /\ chain' = [chain EXCEPT ![f] = {f} \cup chain[p]]
  /\ limit' = [limit EXCEPT ![f] = b]
  /\ UNCHANGED <<charged, reserved, held>>

Charge(f, a) ==
  /\ Fits(f, a)
  /\ charged' = Moved(charged, f, a)
  /\ UNCHANGED <<chain, limit, reserved, held>>

Reserve(t, f, a) ==
  /\ Fits(f, a)
  /\ held[t][f] = 0
  /\ reserved' = Moved(reserved, f, a)
  /\ held' = [held EXCEPT ![t][f] = a]
  /\ UNCHANGED <<chain, limit, charged>>

\* A reservation goes back whole.
Release(t, f) ==
  /\ held[t][f] > 0
  /\ reserved' = Moved(reserved, f, -held[t][f])
  /\ held' = [held EXCEPT ![t][f] = 0]
  /\ UNCHANGED <<chain, limit, charged>>

Next ==
  \/ \E f, p \in Frame, b \in Limit : Open(f, p, b)
  \/ \E f \in Frame, a \in Money : Charge(f, a)
  \/ \E t \in Task, f \in Frame, a \in Money : Reserve(t, f, a)
  \/ \E t \in Task, f \in Frame : Release(t, f)

Spec == Init /\ [][Next]_ledgerVars
=============================================================================
