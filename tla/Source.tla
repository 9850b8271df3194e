------------------------------- MODULE Source -------------------------------
(***************************************************************************)
(* The part of the language that carries enforcement, as syntax trees      *)
(* (ast.py), and what can be said of values (Values).  A node has an       *)
(* operator `op` and the expressions it evaluates first, in order, `args`; *)
(* blocks are sequences of statements under `body`.                        *)
(***************************************************************************)
EXTENDS Values

\* Literal, ListLit, Ident, BinOp ("eq", "sub"), LogicOp ("and", "or"), UnaryOp ("not"),
\* Index (of element 0), Try; print and len are calls of builtins
Number(n)     == [op |-> "number", data |-> n, args |-> <<>>]
Text          == [op |-> "text", args |-> <<>>]
Var(x)        == [op |-> "var", name |-> x, args |-> <<>>]
Apply(o, es)  == [op |-> o, args |-> es]
\* RecordLit of a type P with fields in the order of es, each given as the place that
\* its name has in the declaration of P; Member, of the field in place k
Record(places, es) == [op |-> "record", places |-> places, args |-> es]
Field(k, e)   == [op |-> "field", place |-> k, args |-> <<e>>]
\* a call of a capability, of a user function, and gen<T> with a prompt of one
\* parameter that may be declared untrusted
Cap(c, es)    == [op |-> "cap", cap |-> c, args |-> es]
Call(f, es)   == [op |-> "call", fn |-> f, args |-> es]
Gen(u, e)     == [op |-> "gen", untrusted |-> u, args |-> <<e>>]
\* For and ParallelFor, Step
Loop(o, x, e, ss) == [op |-> o, name |-> x, args |-> <<e>>, body |-> ss]
Step(ss)      == [op |-> "step", args |-> <<>>, body |-> ss]
\* Let (mutable: `var`), Assign, ExprStmt, Return, While, Break, Continue, If
Let(x, m, e)  == [op |-> "let", name |-> x, mutable |-> m, args |-> <<e>>]
Assign(x, e)  == [op |-> "assign", name |-> x, args |-> <<e>>]
Expr(e)       == [op |-> "expr", args |-> <<e>>]
Return(e)     == [op |-> "return", args |-> <<e>>]
While(e, ss)  == [op |-> "while", args |-> <<e>>, body |-> ss]
Break         == [op |-> "break", args |-> <<>>]
Continue      == [op |-> "continue", args |-> <<>>]
If(e, ss, os) == [op |-> "if", args |-> <<e>>, body |-> ss, other |-> os]

\* FnDecl: parameters in order, which of them are untrusted, what types they have.
Fn(ps, us, ts, uses, limit, durable, ss) ==
  [params |-> ps, untrusted |-> us, types |-> ts, uses |-> uses, limit |-> limit,
   durable |-> durable, body |-> ss]

\* Scopes, the innermost last: a name is the one of the innermost scope that has it.
Bound(scopes, x) == \E i \in DOMAIN scopes : x \in DOMAIN scopes[i]
Holder(scopes, x) ==
  CHOOSE i \in DOMAIN scopes :
    x \in DOMAIN scopes[i] /\ \A j \in i + 1 .. Len(scopes) : x \notin DOMAIN scopes[j]
LookUp(scopes, x) == scopes[Holder(scopes, x)][x]
Declare(scopes, x, v) == [scopes EXCEPT ![Len(scopes)] = Bind(@, x, v)]
Set(scopes, x, v) == [scopes EXCEPT ![Holder(scopes, x)][x] = v]
\* What is left of scopes when those opened since there were n are closed.
Outer(scopes, n) == SubSeq(scopes, 1, n)

Parts(n) == n.args \o (IF "body" \in DOMAIN n THEN n.body ELSE <<>>)
                   \o (IF "other" \in DOMAIN n THEN n.other ELSE <<>>)

\* All nodes of a tree, itself included.
RECURSIVE Nodes(_)
Nodes(n) == {n} \cup UNION {Nodes(Parts(n)[i]) : i \in DOMAIN Parts(n)}

NodesOf(ss) == UNION {Nodes(ss[i]) : i \in DOMAIN ss}

-----------------------------------------------------------------------------
\* Everything untrusted in a value, its elements included.
RECURSIVE Sources(_)
Sources(v) == v.from \cup UNION {Sources(v.items[i]) : i \in DOMAIN v.items}

\* What a program can see of a value.  Marks are not visible.  What a capability
\* answers is left out: the HBX hosts push nil for it.  `try` yields the value or a
\* Failure in the closures, and a record of ok, value and error in HBX.
RECURSIVE Seen(_)
Seen(v) ==
  CASE v.kind = "try"    -> Seen(v.items[1])
    [] v.kind = "answer" -> Nil
    [] OTHER -> [v EXCEPT !.mark = FALSE, !.items = [i \in DOMAIN @ |-> Seen(@[i])]]

\* Comparison by contents: provenance is no part of equality.
RECURSIVE Same(_, _)
Same(v, w) ==
  /\ v.kind = w.kind /\ v.data = w.data /\ Len(v.items) = Len(w.items)
  /\ \A i \in DOMAIN v.items : Same(v.items[i], w.items[i])
=============================================================================
