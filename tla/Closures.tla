------------------------------ MODULE Closures ------------------------------
(***************************************************************************)
(* What a program does under the closure runtime (compile.py), as a        *)
(* function of its syntax tree: the reference that the HBX machines are    *)
(* compared with.  A generation succeeds and costs Price (retries and      *)
(* policies are in Generate, threads in ParallelFor).  There are no taint  *)
(* marks here: arguments of a prompt are fenced if the prompt says so, and *)
(* keeping taint from capabilities is the checker's business.              *)
(*                                                                         *)
(* A state is [env, purse, acts, held, declined, out, val]: the scopes     *)
(* that are open (their names are resolved to slots at compile time), the  *)
(* limits and totals of the open budgets, what was done so far that can be *)
(* seen, the reservations of the blocks around, whether a call, a block or *)
(* a charge was declined that money was there for, how the last construct  *)
(* ended ("ok", "capability", "budget", "error") and its value.  `return`, *)
(* `break` and `continue` are values too, which stop the block they come   *)
(* up in (Ret, BreakSig, ContinueSig).                                     *)
(***************************************************************************)
EXTENDS Source

CONSTANT Price

Ok(s, v)   == [s EXCEPT !.out = "ok", !.val = v]
Raise(s, e) == [s EXCEPT !.out = e, !.val = Nil]
Did(s, what, vs, fenced) ==
  [s EXCEPT !.acts = Append(@, [what |-> what, with |-> [i \in DOMAIN vs |-> Seen(vs[i])],
                                fenced |-> fenced])]

Fits(purse, amount) ==
  \A i \in DOMAIN purse : purse[i].limit # NoLimit => purse[i].spent + amount <= purse[i].limit
Pay(purse, amount) == [i \in DOMAIN purse |-> [purse[i] EXCEPT !.spent = @ + amount]]
Purse(limit) == [limit |-> limit, spent |-> 0]

\* Ret, BreakSig, ContinueSig
Signal(k, vs) == Value(k, 0, vs, {}, FALSE)
IsSignal(v) == v.kind \in {"return", "break", "continue"}

\* The value of a call whose body ended with v.
Returned(v) == IF v.kind = "return" THEN v.items[1] ELSE Nil

\* compile_binop
Combine(o, v, w) ==
  LET from == Sources(v) \cup Sources(w) IN
  CASE o = "eq"  -> Value("bool", IF Same(v, w) THEN 1 ELSE 0, <<>>, from, FALSE)
    [] o = "sub" -> Value("num", v.data - w.data, <<>>, from, FALSE)

\* call_capability: web.search answers three strings, db.dump one.
Text3 == [i \in 1 .. 3 |-> [Nil EXCEPT !.kind = "answer"]]
Answered(cap) == [Nil EXCEPT !.kind = "answer", !.items = IF cap = "web" THEN Text3 ELSE <<>>]

\* What the closures have as a list: the answer of web.search is one.
IsListValue(v) == v.kind = "list" \/ (v.kind = "answer" /\ v.items # <<>>)

\* do_index, do_member: lists and the answers of capabilities have elements (a string its
\* characters), and records have fields.
Holds(n, v) == IF n.op = "index" THEN v.kind \in {"list", "answer"}
               ELSE v.kind = "rec" /\ n.place \in DOMAIN v.items
Element(v, k) == IF v.kind = "answer" /\ v.items = <<>> THEN v
                 ELSE [v.items[k] EXCEPT !.from = @ \cup v.from]
Selected(n, v) == Element(v, IF n.op = "index" THEN 1 ELSE n.place)
\* do_record: fields go by name.
Built(places, vs) ==
  Value("rec", 0, [k \in DOMAIN vs |-> vs[CHOOSE i \in DOMAIN vs : places[i] = k]], {}, FALSE)
Negated(v) == Value("bool", IF Truthy(v) THEN 0 ELSE 1, <<>>, Sources(v), FALSE)
Gathered(vs) == Value("list", Len(vs), vs, {}, FALSE)
Length(v) == Value("num", v.data, <<>>, Sources(v), FALSE)

\* A record with one field, made by a model from what it was given.  Records are equal
\* to themselves only (class Obj has no __eq__): the n-th act has contents of its own.
Answer(n, from) == Value("rec", n, <<Value("str", n + 1, <<>>, from, FALSE)>>, from, FALSE)

Used(n, vs, s, c) ==
  IF n.cap \notin c.caps THEN Raise(s, "capability")
  ELSE Ok(Did(s, n.cap, vs, FALSE), Answered(n.cap))

\* do_gen, past its first check: the model, then the charge.
Generated(n, vs, s) ==
  LET asked == Did(s, "gen", vs, n.untrusted)
      from  == Sources(vs[1]) \cup (IF n.untrusted THEN {"prompt"} ELSE {})
  IN IF Fits(asked.purse, Price)
       THEN Ok([asked EXCEPT !.purse = Pay(@, Price)], Answer(Len(asked.acts), from))
       ELSE Raise([asked EXCEPT !.declined = @ \/ asked.held > 0], "budget")

\* count_gens, times the items and the largest price seen (module ParallelFor has the
\* case that prices differ).
RECURSIVE Gens(_)
Gens(n) == (IF n.op = "gen" THEN 1 ELSE 0)
           + FoldLeft(LAMBDA k, m : k + Gens(m), 0, Parts(n))
Need(n, items) ==
  LET gens == FoldLeft(LAMBDA k, m : k + Gens(m), 0, n.body)
  IN Price * Len(items) * (IF gens = 0 THEN 1 ELSE gens)

\* do_par: what a block reserves under a limit, and gives back.
Reserved(n, items, s) ==
  IF \A i \in DOMAIN s.purse : s.purse[i].limit = NoLimit THEN 0 ELSE Need(n, items)

\* The state in which the body of a function begins: its arguments, and its budget.
Inside(fn, s, vals) ==
  LET given(x) == vals[CHOOSE k \in DOMAIN fn.params : fn.params[k] = x]
  IN [s EXCEPT !.env = <<[x \in ToSet(fn.params) |->
                            IF x \in fn.untrusted THEN [given(x) EXCEPT !.from = @ \cup {x}]
                            ELSE given(x)]>>,
               !.purse = IF fn.limit = NoLimit THEN @ ELSE Append(@, Purse(fn.limit))]

\* do_call: the caller goes on where it was.
Back(r, s) ==
  [r EXCEPT !.env = s.env, !.purse = SubSeq(@, 1, Len(s.purse)),
            !.val = IF r.out = "ok" THEN Returned(@) ELSE @]

\* What do_gen and do_call refuse before they look at an argument: a capability that is
\* not held, a callee that needs more than the caller has, of either.
Refused(n, s, c) ==
  LET declined == [s EXCEPT !.declined = TRUE] IN
  CASE n.op = "gen" /\ "model" \notin c.caps -> Raise(s, "capability")
    [] n.op = "call" /\ ~(c.fns[n.fn].uses \subseteq c.caps) -> Raise(declined, "capability")
    [] n.op = "call" /\ c.fns[n.fn].uses \subseteq c.caps
         /\ c.fns[n.fn].limit # NoLimit /\ ~Fits(s.purse, c.fns[n.fn].limit) ->
         Raise(declined, "budget")
    [] OTHER -> Ok(s, Nil)

\* What is evaluated before anything else, and the block that an `if` or a step runs.
First(n) == IF n.op \in {"and", "or"} THEN <<n.args[1]>> ELSE n.args
Taken(n, vs) == IF n.op = "step" \/ Truthy(vs[1]) THEN n.body ELSE n.other

\* Constructs without a body, from the values vs of their operands.
Plain(n, vs, s, c) ==
  CASE n.op = "number"  -> Ok(s, Num(n.data))
    [] n.op = "text"    -> Ok(s, Str(1))
    [] n.op = "var"     -> IF Bound(s.env, n.name) THEN Ok(s, LookUp(s.env, n.name))
                           ELSE Raise(s, "error")
    [] n.op = "list"    -> Ok(s, Gathered(vs))
    [] n.op \in {"eq", "sub"} -> Ok(s, Combine(n.op, vs[1], vs[2]))
    [] n.op \in {"index", "field"} ->
         IF Holds(n, vs[1]) THEN Ok(s, Selected(n, vs[1])) ELSE Raise(s, "error")
    [] n.op = "not"     -> Ok(s, Negated(vs[1]))
    [] n.op = "record"  -> Ok(s, Built(n.places, vs))
    [] n.op = "len"     -> Ok(s, Length(vs[1]))
    [] n.op = "print"   -> Ok(Did(s, "print", vs, FALSE), Nil)
    [] n.op = "cap"     -> Used(n, vs, s, c)
    [] n.op = "gen"     -> Generated(n, vs, s)
    [] n.op = "let"     -> Ok([s EXCEPT !.env = Declare(@, n.name, vs[1])], Nil)
    [] n.op = "assign"  -> Ok([s EXCEPT !.env = Set(@, n.name, vs[1])], Nil)
    [] n.op = "expr"    -> Ok(s, vs[1])
    [] n.op \in {"return", "break", "continue"} -> Ok(s, Signal(n.op, vs))

RECURSIVE Run(_, _, _), RunAll(_, _, _), RunStmts(_, _, _), RunLoop(_, _, _, _, _)

\* Expressions in order; stops at the first that fails.
RunRest(h, es, c) ==
  IF h.out # "ok" THEN [s |-> h, vals |-> <<>>]
  ELSE LET r == RunAll(es, h, c) IN [r EXCEPT !.vals = <<h.val>> \o @]
RunAll(es, s, c) ==
  IF es = <<>> THEN [s |-> Ok(s, Nil), vals |-> <<>>]
  ELSE RunRest(Run(Head(es), s, c), Tail(es), c)

RunOn(h, ss, c) ==
  IF h.out # "ok" \/ IsSignal(h.val) \/ ss = <<>> THEN h ELSE RunStmts(ss, h, c)
RunStmts(ss, s, c) ==
  IF ss = <<>> THEN Ok(s, Nil) ELSE RunOn(Run(Head(ss), s, c), Tail(ss), c)

\* Mutant: names are those of the function.
RunBlockUnscoped(ss, s, c) == RunStmts(ss, s, c)

\* compile_block: a scope of its own.
RunBlock(ss, s, c) ==
  [RunStmts(ss, [s EXCEPT !.env = Append(@, <<>>)], c) EXCEPT !.env = Outer(@, Len(s.env))]

\* The items of a loop after one that ended as r.  A `for` works in the slots of its
\* function and looks at what its body ended with, a parallel iteration works in a
\* copy and returns from itself.
LoopOn(n, items, vals, r, s, c) ==
  LET t == [r EXCEPT !.env = IF n.op = "par" THEN s.env ELSE Outer(@, Len(s.env))]
      k == r.val.kind
      v == IF n.op = "par" /\ k = "return" THEN Returned(r.val) ELSE r.val
  IN CASE r.out # "ok" \/ (n.op = "for" /\ k = "return") -> t
       [] r.out = "ok" /\ n.op = "for" /\ k = "break" -> Ok(t, Gathered(vals))
       [] OTHER -> RunLoop(n, items, IF n.op = "for" /\ k = "continue" THEN vals
                                     ELSE Append(vals, v), t, c)

\* do_for, do_par: each item with the loop variable bound to it.
RunLoop(n, items, vals, s, c) ==
  IF items = <<>> THEN Ok(s, Gathered(vals))
  ELSE LoopOn(n, Tail(items), vals,
              RunBlock(n.body, [s EXCEPT !.env = Append(@, n.name :> Head(items))], c), s, c)

RunPar(n, items, s, c) ==
  LET need == Reserved(n, items, s)
  IN IF ~Fits(s.purse, need) THEN Raise([s EXCEPT !.declined = TRUE], "budget")
     ELSE [RunLoop(n, items, <<>>, [s EXCEPT !.purse = Pay(@, need), !.held = @ + need], c)
             EXCEPT !.purse = Pay(@, -need), !.held = s.held]

\* do_while, after a turn that ended as b.
WhileOn(n, b, c) ==
  IF b.out # "ok" \/ b.val.kind = "return" THEN b
  ELSE IF b.val.kind = "break" THEN Ok(b, Nil)
  ELSE Run(n, b, c)

\* The rest of a construct whose operands a were evaluated.
After(n, a, c) ==
  LET s == a.s
      vs == a.vals
  IN CASE n.op = "try" ->      \* an error becomes a Failure; what was spent stays spent
            Ok(s, IF s.out = "ok" THEN vs[1] ELSE [Nil EXCEPT !.kind = "failure"])
       [] n.op # "try" /\ s.out # "ok" -> s
       [] OTHER ->
            CASE n.op \in {"if", "step"} -> RunBlock(Taken(n, vs), s, c)
              [] n.op \in {"and", "or"} ->
                   IF Truthy(vs[1]) # (n.op = "and") THEN Ok(s, vs[1]) ELSE Run(n.args[2], s, c)
              [] n.op = "while" ->
                   IF Truthy(vs[1]) THEN WhileOn(n, RunBlock(n.body, s, c), c) ELSE Ok(s, Nil)
              [] n.op = "call" ->
                   LET fn == c.fns[n.fn]
                   IN Back(RunBlock(fn.body, Inside(fn, s, vs), [c EXCEPT !.caps = fn.uses]), s)
              [] n.op \in {"for", "par"} ->
                   IF ~IsListValue(vs[1]) THEN Raise(s, "error")
                   ELSE IF n.op = "for" THEN RunLoop(n, vs[1].items, <<>>, s, c)
                   ELSE RunPar(n, vs[1].items, s, c)
              [] OTHER -> Plain(n, vs, s, c)

Run(n, s, c) ==
  LET r == Refused(n, s, c)
  IN IF r.out = "ok" THEN After(n, RunAll(First(n), s, c), c) ELSE r

\* A program that begins.
Fresh(fn) == [env |-> <<>>, purse |-> <<Purse(fn.limit)>>, acts |-> <<>>, held |-> 0,
              declined |-> FALSE, out |-> "ok", val |-> Nil]

\* FastProgram.run: what was done, how it ended, what was spent.
Reference(p) ==
  LET fn == p["main"]
      r  == RunBlock(fn.body, Fresh(fn), [caps |-> fn.uses, fns |-> p])
  IN [acts |-> r.acts, out |-> r.out, spent |-> r.purse[1].spent,
      val |-> Seen(Returned(r.val)), declined |-> r.declined]
=============================================================================
