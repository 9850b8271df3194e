-------------------------------- MODULE Tree --------------------------------
(***************************************************************************)
(* The tree interpreter (runtime.py, --backend tree) as a function of the  *)
(* syntax tree: the same states as in Closures, scopes that are looked     *)
(* through at run time, `return` as an exception, no reservation for a     *)
(* parallel block, and no while, assign, try, step, record, and, or, not.  *)
(* A block runs its items in order here, as with one worker.               *)
(***************************************************************************)
EXTENDS Closures

\* exec_stmt and eval raise "unhandled" for the rest of the language.
Handled == {"let", "expr", "return", "if", "number", "text", "var", "list", "eq", "sub",
            "field", "index", "print", "len", "call", "cap", "gen", "for", "par"}

\* eval_gen, call_fn: what is refused before the arguments, of capabilities or money.
Barred(n, s, c) ==
  CASE n.op = "gen" /\ "model" \notin c.caps -> "capability"
    [] n.op = "call" /\ ~(c.fns[n.fn].uses \subseteq c.caps) -> "capability"
    [] n.op = "call" /\ c.fns[n.fn].uses \subseteq c.caps
         /\ c.fns[n.fn].limit # NoLimit /\ ~Fits(s.purse, c.fns[n.fn].limit) -> "budget"
    [] n.op \notin Handled -> "error"
    [] OTHER -> "ok"

RECURSIVE Eval(_, _, _), EvalAll(_, _, _), ExecStmts(_, _, _), EvalFor(_, _, _, _, _)

EvalRest(h, es, c) ==
  IF h.out # "ok" THEN [s |-> h, vals |-> <<>>]
  ELSE LET r == EvalAll(es, h, c) IN [r EXCEPT !.vals = <<h.val>> \o @]
EvalAll(es, s, c) ==
  IF es = <<>> THEN [s |-> Ok(s, Nil), vals |-> <<>>]
  ELSE EvalRest(Eval(Head(es), s, c), Tail(es), c)

ExecRest(h, ss, c) == IF h.out # "ok" \/ ss = <<>> THEN h ELSE ExecStmts(ss, h, c)
ExecStmts(ss, s, c) ==
  IF ss = <<>> THEN Ok(s, Nil) ELSE ExecRest(Eval(Head(ss), s, c), Tail(ss), c)

\* exec_block: the scope is dropped with the block.
ExecBlock(ss, s, c) ==
  [ExecStmts(ss, [s EXCEPT !.env = Append(@, <<>>)], c) EXCEPT !.env = s.env]

\* eval_for, eval_parallel: a `return` leaves the function from either.
ForRest(n, items, vals, r, c) ==
  IF r.out = "ok" THEN EvalFor(n, items, Append(vals, r.val), r, c) ELSE r
EvalFor(n, items, vals, s, c) ==
  IF items = <<>> THEN Ok(s, Gathered(vals))
  ELSE LET inner == [s EXCEPT !.env = Append(@, n.name :> Head(items))]
       IN ForRest(n, Tail(items), vals,
                  [ExecBlock(n.body, inner, c) EXCEPT !.env = s.env], c)

\* call_fn, past its checks, whose body ended as r: ReturnSignal is caught here.
CallFn(r, s) ==
  [r EXCEPT !.env = s.env, !.purse = SubSeq(@, 1, Len(s.purse)),
            !.val = IF r.out = "return" THEN @ ELSE Nil,
            !.out = IF @ = "return" THEN "ok" ELSE @]

\* exec_stmt, eval: with the values of the operands (Plain has the rest of eval_gen).
Perform(n, a, c) ==
  LET s == a.s
      vs == a.vals
  IN CASE s.out # "ok" -> s
       [] s.out = "ok" /\ n.op = "return" -> [s EXCEPT !.out = "return", !.val = vs[1]]
       [] OTHER ->
            CASE n.op = "if"  -> ExecBlock(Taken(n, vs), s, c)
              [] n.op \in {"for", "par"} ->
                   IF IsListValue(vs[1]) THEN EvalFor(n, vs[1].items, <<>>, s, c)
                   ELSE Raise(s, "error")
              [] n.op = "call" ->
                   LET fn == c.fns[n.fn]
                   IN CallFn(ExecBlock(fn.body, Inside(fn, s, vs), [c EXCEPT !.caps = fn.uses]), s)
              [] OTHER -> Plain(n, vs, s, c)

Eval(n, s, c) ==
  IF Barred(n, s, c) = "ok" THEN Perform(n, EvalAll(n.args, s, c), c)
  ELSE Raise(s, Barred(n, s, c))

\* Interpreter.run
Interpreted(p) ==
  LET fn == p["main"]
      r  == ExecBlock(fn.body, Fresh(fn), [caps |-> fn.uses, fns |-> p])
  IN [acts |-> r.acts, out |-> IF r.out = "return" THEN "ok" ELSE r.out,
      spent |-> r.purse[1].spent, val |-> IF r.out = "return" THEN Seen(r.val) ELSE Nil]
=============================================================================
