------------------------------- MODULE Hosts -------------------------------
(***************************************************************************)
(* The HBX machines against the closures, the tree interpreter and the     *)
(* checker, program by program: what each part promises about one and the  *)
(* same source.                                                            *)
(***************************************************************************)
EXTENDS Machine, Hbx

R == INSTANCE Closures
T == INSTANCE Tree
S == INSTANCE Checker

Functions == {prog[f] : f \in DOMAIN prog}
AllNodes  == UNION {NodesOf(fn.body) : fn \in Functions}
Uses(ops) == \E n \in AllNodes : n.op \in ops
Checked   == S!Errors(prog) = {}

-----------------------------------------------------------------------------
\* What the HBX translation does not carry over.  A capability call leaves its arguments
\* on the stack: below the nil that takes its place, which is what a statement goes on
\* with, but in among the operands of anything else.  A print prints its last operand, ...
Statement == {"expr", "let", "assign", "return"}
KeepsOperands ==
  /\ \A n \in AllNodes : n.op \notin Statement => \A i \in DOMAIN n.args :
       n.args[i].op = "cap" => n.args[i].args = <<>>
  /\ \A n \in AllNodes : n.op = "print" => Len(n.args) = 1
\* ... an assignment in a lifted body stays there, and so does its `return`, ...
Lifting == {"for", "step"}
KeepsNames ==
  \A n \in AllNodes : n.op \in Lifting =>
    \A m \in NodesOf(n.body) : m.op \notin {"assign", "return"}
\* ... a function has one slot for a name, also where a block has bound it anew, ...
Blocks == {fn.body : fn \in Functions}
          \cup UNION {{n.body, n.other} : n \in {m \in AllNodes : m.op = "if"}}
          \cup {n.body : n \in {m \in AllNodes : m.op \in {"while", "for", "par", "step"}}}
Nesting == {"if", "while"}
KeepsScopes ==
  /\ \A ss \in Blocks : \A i \in DOMAIN ss : ss[i].op \in Nesting =>
       NewSlots(ss[i]) \cap
         (UNION {ToSet(fn.params) : fn \in Functions}
          \cup UNION {NewSlots(ss[j]) : j \in DOMAIN ss \ {i}}) = {}
  /\ \A n \in AllNodes : n.op \in {"for", "par", "step"} =>
       \A m \in NodesOf(n.body) : m.op \in Nesting => NewSlots(m) = {}
\* ... a record takes its fields in the order of the literal, and equals what has the
\* same contents, ...
KeepsRecords ==
  /\ \A n \in AllNodes : n.op = "record" => n.places = [i \in DOMAIN n.places |-> i]
  /\ ~(Uses({"record"}) /\ Uses({"eq"}))
\* ... a loop over what is not a list is an error in the closures only, ...
KeepsLists == \A n \in AllNodes : n.op \in {"for", "par"} => n.args[1].op = "list"
\* ... and the answer of a capability or of `try` is something else.
LooksInside == {"index", "field", "and", "or", "not", "eq", "len", "if", "while"}
Opaque == ~(Uses(LooksInside) /\ Uses({"cap", "try"}))
Portable ==
  KeepsOperands /\ KeepsNames /\ KeepsScopes /\ KeepsRecords /\ KeepsLists /\ Opaque

\* What is compared of the acts: for a capability, that it was used.
Told(as) ==
  [i \in DOMAIN as |-> <<as[i].what, IF as[i].what \in {"print", "gen"} THEN as[i].with ELSE <<>> >>]
Outcome == [val |-> Seen(result), err |-> err, total |-> total, acts |-> Told(acts)]
Expected(r) == [val |-> r.val, err |-> IF r.out = "ok" THEN "" ELSE r.out,
                total |-> r.spent, acts |-> Told(r.acts)]

\* A program ends on the HBX hosts as it does in the closures: same value or error,
\* same prints, capabilities and generations in the same order, same money; unless
\* an operand was refused for its taint, or the closures declined something.
SameAsClosures ==
  Ended /\ ~tainted /\ Portable =>
    LET r == R!Reference(prog) IN r.declined \/ Outcome = Expected(r)

\* The two backends in Python give the same value or error, the same prints, capabilities
\* and generations in the same order, the same spend (tests/test_humbaba.py:87).
OnBoth == Ended /\ \A n \in AllNodes : n.op \in T!Handled
Agree(t, r) == t = [f \in DOMAIN t |-> r[f]]
BackendsAgree == OnBoth => Agree(T!Interpreted(prog), R!Reference(prog))

\* They do where no loop holds a `return`, and no parallel block fails or is declined for
\* want of a reservation, which the tree interpreter does not make.
TreeAgrees ==
  OnBoth /\ (\A n \in AllNodes : n.op \in {"for", "par"} =>
                \A m \in NodesOf(n.body) : m.op # "return") =>
    LET t == T!Interpreted(prog)
        r == R!Reference(prog)
    IN \/ Uses({"par"}) /\ (t.out # "ok" \/ r.declined)
       \/ Agree(t, r)

\* A program without static errors is never denied a capability, at any depth of
\* calls and lifted bodies.
CheckedIsNeverDenied == err = "capability" => ~Checked

\* No turn of a `while` leaves an operand on the stack: capability calls in it, as
\* statements too, have no arguments, and prints have one.
SteadyLoops ==
  \A n \in AllNodes : n.op = "while" => \A m \in Nodes(n) :
    (m.op = "cap" => m.args = <<>>) /\ (m.op = "print" => Len(m.args) = 1)

\* "Conservative peak depth, so a host can allocate the stack once" (hbx.py:134): the
\* depth computed in one pass over the code suffices however often its loops turn, where
\* no turn leaves an operand behind.  Where one does, it does not.
DepthIsEnough ==
  SteadyLoops => \A i \in DOMAIN stack : Len(stack[i].st) <= stack[i].fn.peak

\* A program without static errors gives no capability anything untrusted, in the
\* closures, which have no marks; where taint does not pass through a parameter, a
\* prompt that calls its parameter trusted, a length, a loop, or an assignment that
\* an earlier line of the same loop reads.
Traced ==
  /\ ~Uses({"len", "for", "par", "step"})
  /\ \A n \in AllNodes : n.op = "gen" /\ ~n.untrusted => \A m \in Nodes(n) : m.op # "var"
  /\ \A n \in AllNodes : n.op = "while" => \A m \in Nodes(n) : m.op # "assign"
  /\ \A n \in AllNodes : n.op = "call" /\ n.fn # "handle" =>
       \A i \in DOMAIN n.args : n.args[i].op = "text"
CheckerStopsTaint ==
  Ended /\ Traced /\ Checked =>
    LET r == R!Reference(prog)
    IN \A i \in DOMAIN r.acts : r.acts[i].what \notin {"print", "gen"} =>
         \A k \in DOMAIN r.acts[i].with : Sources(r.acts[i].with[k]) = {}
=============================================================================
