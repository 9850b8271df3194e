------------------------------ MODULE Checker ------------------------------
(***************************************************************************)
(* The static checker (check.py): one pass over a function that infers a   *)
(* type and a taint for every expression and reports errors.  Types are    *)
(* sequences: <<"string">>, <<"list", "string">>, <<>> when not known.     *)
(* The pass threads the scope, since an assignment taints a binding that   *)
(* later expressions read.  A verdict is [t, dirty, errs, scope].  An      *)
(* error more or less makes no difference: a program with any is not run.  *)
(* Functions have no declared result.                                      *)
(***************************************************************************)
EXTENDS Source

Known(t)  == t # <<>>
IsList(t) == Known(t) /\ t[1] = "list"
Clash(want, t) == Known(want) /\ Known(t) /\ want # t

Binding(t, m, tainted, d) == [type |-> t, mutable |-> m, tainted |-> tainted, depth |-> d]
Verdict(t, dirty, errs, scope) == [t |-> t, dirty |-> dirty, errs |-> errs, scope |-> scope]
Unless(ok, e) == IF ok THEN {} ELSE {e}

\* The rules below get `ts` and `ds`, the types and taints of the arguments, and
\* return a type, a taint and errors.
Rule(t, dirty, errs) == [t |-> t, dirty |-> dirty, errs |-> errs]
Dirty(ds) == \E i \in DOMAIN ds : ds[i]

\* In a durable function whatever must not be repeated happens inside a step.
\* c: the function, all functions, how many loops and parallel blocks are around, how
\* many of the loops are `while`, whether a step is.
Journaled(c) == c.fn.durable => c.step

IdentRule(n, scope) ==
  IF Bound(scope, n.name)
    THEN LET b == LookUp(scope, n.name) IN Rule(b.type, b.tainted, {})
    ELSE Rule(<<>>, FALSE, {"undefined"})

ListRule(ts, ds) ==
  LET known == SelectSeq(ts, Known)
  IN Rule(IF known = <<>> THEN <<>> ELSE <<"list">> \o known[1], Dirty(ds), {})

BinOpRule(n, ts, ds) ==
  IF n.op = "eq"
    THEN Rule(<<"bool">>, Dirty(ds), Unless(~Clash(ts[1], ts[2]), "type"))
    ELSE Rule(<<"number">>, Dirty(ds),
              Unless(\A i \in {1, 2} : ~Clash(<<"number">>, ts[i]), "type"))

IndexRule(ts, ds) ==
  IF Known(ts[1]) /\ ~IsList(ts[1]) THEN Rule(<<>>, ds[1], {"type"})
  ELSE Rule(IF Known(ts[1]) THEN Tail(ts[1]) ELSE <<>>, ds[1], {})

\* The record types: T, which prompts answer with, has one field, P has two, of type
\* string all.
FieldsOf(t) == IF t = <<"T">> THEN {1} ELSE IF t = <<"P">> THEN {1, 2} ELSE {}

\* Mutant: a field is clean.
MemberClean(n, ts, ds) ==
  Rule(IF n.place \in FieldsOf(ts[1]) THEN <<"string">> ELSE <<>>, FALSE,
       Unless(Known(ts[1]) => n.place \in FieldsOf(ts[1]), "type"))

MemberRule(n, ts, ds) ==
  IF ~Known(ts[1]) THEN Rule(<<>>, ds[1], {})
  ELSE IF n.place \in FieldsOf(ts[1]) THEN Rule(<<"string">>, ds[1], {})
  ELSE Rule(<<>>, ds[1], {"type"})

\* Fields go by name, in any order.
RecordRule(n, ts, ds) ==
  Rule(<<"P">>, Dirty(ds), Unless(ToSet(n.places) = FieldsOf(<<"P">>), "field")
       \cup Unless(\A i \in DOMAIN ts : ~Clash(<<"string">>, ts[i]), "type"))

\* print and len return nothing tainted, whatever they are given.
BuiltinRule(n) == Rule(IF n.op = "len" THEN <<"number">> ELSE <<>>, FALSE, {})

\* Tainted data must not reach a capability, which must be declared.
CapabilityRule(n, ds, c) ==
  Rule(<<>>, Dirty(ds),
       Unless(~Dirty(ds), "taint") \cup Unless(n.cap \in c.fn.uses, "capability")
       \cup Unless(Journaled(c), "durable"))

\* Mutant: the capabilities of the callee are not looked at.
UserCallUnchecked(n, ts, ds, c) ==
  LET callee == c.fns[n.fn]
  IN Rule(<<>>, Dirty(ds),
          Unless(\A i \in DOMAIN ts : ~Clash(callee.types[callee.params[i]], ts[i]), "type"))

\* A call returns taint if it is given taint.  Inside the callee a parameter is
\* tainted only if it is declared so.
UserCallRule(n, ts, ds, c) ==
  LET callee == c.fns[n.fn]
  IN Rule(<<>>, Dirty(ds),
          Unless(\A i \in DOMAIN ts : ~Clash(callee.types[callee.params[i]], ts[i]), "type")
          \cup Unless(callee.uses \subseteq c.fn.uses, "capability")
          \cup Unless(callee.uses = {} \/ Journaled(c), "durable"))

\* A model's output is tainted if its prompt declares an untrusted parameter.
GenRule(n, ts, c) ==
  Rule(<<"T">>, n.untrusted,
       Unless("model" \in c.fn.uses, "capability")
       \cup Unless(~Clash(<<"string">>, ts[1]), "type") \cup Unless(Journaled(c), "durable"))

AssignRule(n, ts, scope, c) ==
  IF ~Bound(scope, n.name) THEN {"undefined"}
  ELSE LET b == LookUp(scope, n.name)
       IN Unless(b.mutable, "assign") \cup Unless(~(c.par > 0 /\ b.depth < c.depth), "race")
          \cup Unless(~Clash(b.type, ts[1]), "type")

RECURSIVE Check(_, _, _), CheckAll(_, _, _), CheckBlock(_, _, _)

CheckAll(es, scope, c) ==
  IF es = <<>> THEN [ts |-> <<>>, ds |-> <<>>, errs |-> {}, scope |-> scope]
  ELSE LET h == Check(Head(es), scope, c)
           r == CheckAll(Tail(es), h.scope, c)
       IN [ts |-> <<h.t>> \o r.ts, ds |-> <<h.dirty>> \o r.ds,
           errs |-> h.errs \cup r.errs, scope |-> r.scope]

\* The verdict on a block.  Its type and taint are those of its last expression
\* statement, which only a step looks at.
CheckBlock(ss, scope, c) ==
  IF ss = <<>> THEN Verdict(<<>>, FALSE, {}, scope)
  ELSE LET h == Check(Head(ss), scope, c)
           r == CheckBlock(Tail(ss), h.scope, c)
           isLast == Head(ss).op = "expr" /\ \A i \in 2 .. Len(ss) : ss[i].op # "expr"
       IN Verdict(IF isLast THEN h.t ELSE r.t, IF isLast THEN h.dirty ELSE r.dirty,
                  h.errs \cup r.errs, r.scope)

Check(n, scope, c) ==
  LET a    == CheckAll(n.args, scope, c)
      From(r) == Verdict(r.t, r.dirty, a.errs \cup r.errs, a.scope)
      \* A block's own names end with it; what it did to outer bindings stays.
      Nested(ss, inner, d) ==
        LET b == CheckBlock(ss, Append(inner, <<>>), d)
        IN [b EXCEPT !.errs = @ \cup a.errs, !.scope = Outer(@, Len(scope))]
  IN
  CASE n.op = "number" -> From(Rule(<<"number">>, FALSE, {}))
    [] n.op = "text"   -> From(Rule(<<"string">>, FALSE, {}))
    [] n.op = "var"    -> From(IdentRule(n, scope))
    [] n.op = "list"   -> From(ListRule(a.ts, a.ds))
    [] n.op \in {"eq", "sub"} -> From(BinOpRule(n, a.ts, a.ds))
    [] n.op \in {"and", "or", "not"} -> From(Rule(<<"bool">>, Dirty(a.ds), {}))
    [] n.op = "record" -> From(RecordRule(n, a.ts, a.ds))
    [] n.op \in {"break", "continue"} -> From(Rule(<<>>, FALSE, Unless(c.loops > 0, "loop")))
    [] n.op = "index"  -> From(IndexRule(a.ts, a.ds))
    [] n.op = "field"  -> From(MemberRule(n, a.ts, a.ds))
    [] n.op \in {"print", "len"} -> From(BuiltinRule(n))
    [] n.op = "cap"    -> From(CapabilityRule(n, a.ds, c))
    [] n.op = "call"   -> From(UserCallRule(n, a.ts, a.ds, c))
    [] n.op = "gen"    -> From(GenRule(n, a.ts, c))
    [] n.op \in {"try", "expr", "return"} -> From(Rule(a.ts[1], a.ds[1], {}))
    [] n.op = "let"    ->
         Verdict(<<>>, FALSE,
                 a.errs \cup Unless(n.name \notin DOMAIN a.scope[Len(a.scope)], "bound"),
                 Declare(a.scope, n.name, Binding(a.ts[1], n.mutable, a.ds[1], c.depth)))
    [] n.op = "assign" ->
         Verdict(<<>>, FALSE, a.errs \cup AssignRule(n, a.ts, scope, c),
                 IF ~Bound(a.scope, n.name) THEN a.scope
                 ELSE LET b == LookUp(a.scope, n.name)
                      IN Set(a.scope, n.name, [b EXCEPT !.tainted = @ \/ a.ds[1]]))
    [] n.op = "while"  -> Nested(n.body, a.scope, [c EXCEPT !.loops = @ + 1])
    [] n.op = "if"     ->
         LET b == Nested(n.body, a.scope, c)
             o == Nested(n.other, b.scope, c)
         IN [o EXCEPT !.errs = @ \cup b.errs]
    [] n.op = "step"   ->
         LET b == Nested(n.body, a.scope, [c EXCEPT !.step = TRUE])
         IN [b EXCEPT !.errs = @ \cup Unless(c.fn.durable, "step")]
    [] n.op \in {"for", "par"} ->
         LET elem  == IF IsList(a.ts[1]) THEN Tail(a.ts[1]) ELSE <<>>
             inner == Append(a.scope, n.name :> Binding(elem, FALSE, a.ds[1], c.depth + 1))
             b     == Nested(n.body, inner, [c EXCEPT !.depth = @ + 1,
                                              !.par = IF n.op = "par" THEN @ + 1 ELSE @])
         IN [b EXCEPT !.t = <<>>, !.dirty = a.ds[1]]

CheckFn(fd, fns) ==
  LET scope == [x \in ToSet(fd.params) |->
                  Binding(fd.types[x], FALSE, x \in fd.untrusted, 0)]
  IN CheckBlock(fd.body, <<scope, <<>>>>, [fn |-> fd, fns |-> fns, depth |-> 0, par |-> 0,
                                        loops |-> 0, step |-> FALSE]).errs

\* The errors of a program: cli.py runs and builds only programs without any.
Errors(p) == UNION {CheckFn(p[f], p) : f \in DOMAIN p}
=============================================================================
