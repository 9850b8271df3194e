-------------------------------- MODULE Hbx --------------------------------
(***************************************************************************)
(* The translation of a program to HBX (hbx.py).  An instruction is a      *)
(* record; operands that index a table are the thing itself: slots are     *)
(* names, a lifted body is the function it was lifted into, a jump says    *)
(* how many instructions it skips.                                         *)
(***************************************************************************)
EXTENDS Source

Ins(o)       == [op |-> o]
InsN(o, n)   == [op |-> o, n |-> n]
Slot(o, x)   == [op |-> o, name |-> x]
PushK(v)     == [op |-> "PUSHK", value |-> v]
Jump(o, k)   == [op |-> o, skip |-> k]
Require(c, allow) == [op |-> "REQUIRE", cap |-> c, allow |-> allow]
CallIns(f, n) == [op |-> "CALL", fn |-> f, n |-> n]
Lifted(o, fn, n) == [op |-> o, body |-> fn, n |-> n]

\* The prompt is an operand; that its parameter is untrusted is not in the file, and
\* is here for the provenance of the answer alone.
GenIns(u, n) == [op |-> "GEN", untrusted |-> u, n |-> n]

\* _free_vars: what nodes read or assign, in order, and had not bound before.  The
\* variable of a loop is bound in its body only, a `let` from there on.
RECURSIVE Free(_, _)
Free(ns, a) ==
  IF ns = <<>> THEN a
  ELSE LET n == Head(ns)
           e == Free(n.args, a)
           Find(x) == IF x \in e.bound \cup ToSet(e.found) THEN e
                      ELSE [e EXCEPT !.found = Append(@, x)]
           then ==
             CASE n.op \in {"var", "assign"} -> Find(n.name)
               [] n.op = "let" -> [e EXCEPT !.bound = @ \cup {n.name}]
               [] n.op \in {"for", "par"} ->
                    [Free(n.body, [e EXCEPT !.bound = @ \cup {n.name}])
                       EXCEPT !.bound = e.bound]
               [] OTHER -> Free(SubSeq(Parts(n), Len(n.args) + 1, Len(Parts(n))), e)
       IN Free(Tail(ns), then)

\* Names that a body takes from around it: what is free in it and has a slot in the
\* enclosing function.  They become parameters.
Captures(ss, own, slots) ==
  SelectSeq(Free(ss, [bound |-> own, found |-> <<>>]).found, LAMBDA x : x \in slots)

\* Slots that a statement adds to its function.
RECURSIVE NewSlots(_)
NewSlots(n) ==
  IF n.op = "let" THEN {n.name}
  ELSE IF n.op \in {"while", "if"} THEN UNION {NewSlots(Parts(n)[i]) : i \in DOMAIN Parts(n)}
  ELSE {}

Ends(code) == code # <<>> /\ code[Len(code)].op \in {"RET", "RETNIL"}
Closed(code) == IF Ends(code) THEN code ELSE Append(code, Ins("RETNIL"))

\* _STACK_EFFECT: an instruction without an entry counts for nothing.
Effect(i) ==
  CASE i.op \in {"PUSHK", "LOAD", "DUP"} -> 1
    [] i.op \in {"STORE", "POP", "EQ", "SUB", "JZ", "JNZ", "INDEX", "RET"} -> -1
    [] i.op \in {"LIST", "RECORD", "CALL", "GEN", "STEP", "TRY"} -> 1 - i.n
    [] i.op = "PARALLEL" -> -i.n
    [] OTHER -> 0

\* max_stack(): one pass over the code in the order it is written.
MaxStack(code) ==
  LET seen == FoldLeft(LAMBDA a, i :
                         LET d == a.depth + Effect(i)
                             e == IF d < 0 THEN 0 ELSE d
                         IN [depth |-> e, peak |-> IF e > a.peak THEN e ELSE a.peak],
                       [depth |-> 0, peak |-> 0], code)
  IN seen.peak + 4

Compiled(ps, us, uses, limit, code) ==
  [params |-> ps, untrusted |-> us, uses |-> uses, limit |-> limit, code |-> code,
   peak |-> MaxStack(code)]

\* The JMPs of a `while` whose body and condition have these lengths: Break and Continue
\* are emitted open, and the innermost loop closes them.
Closing(body, head) ==
  [i \in DOMAIN body |->
     CASE body[i].op = "break"    -> Jump("JMP", Len(body) - i + 1)
       [] body[i].op = "continue" -> Jump("JMP", -(head + i))
       [] OTHER -> body[i]]

\* Mutant: a statement leaves its value.
DropNothing == <<>>

\* What follows the expression of a statement.
Drop == <<Ins("POP")>>

\* ctx: the capabilities of the enclosing function and its slots so far.
RECURSIVE Code(_, _), CodeAll(_, _), CodeBlock(_, _)

CodeAll(es, ctx) == FlattenSeq([i \in DOMAIN es |-> Code(es[i], ctx)])

CodeBlock(ss, ctx) ==
  IF ss = <<>> THEN <<>>
  ELSE Code(Head(ss), ctx)
       \o CodeBlock(Tail(ss), [ctx EXCEPT !.slots = @ \cup NewSlots(Head(ss))])

\* Mutant: the last expression of a body is dropped like any other.
LiftUnvalued(ss, own, ctx) ==
  LET caught == Captures(ss, ToSet(own), ctx.slots)
      code   == CodeBlock(ss, [ctx EXCEPT !.slots = ToSet(own) \cup ToSet(caught)])
  IN [fn |-> Compiled(own \o caught, {}, ctx.uses, NoLimit, Closed(code)),
      captures |-> caught]

\* _lift: the capabilities of the enclosing function, no budget, nothing untrusted.
\* The last expression of the body is its value.
Lift(ss, own, ctx) ==
  LET last   == ss[Len(ss)]
      valued == IF last.op = "expr" THEN [ss EXCEPT ![Len(ss)].op = "return"] ELSE ss
      caught == Captures(valued, ToSet(own), ctx.slots)
      code   == CodeBlock(valued, [ctx EXCEPT !.slots = ToSet(own) \cup ToSet(caught)])
  IN [fn |-> Compiled(own \o caught, {}, ctx.uses, NoLimit, Closed(code)),
      captures |-> caught]

CodeLifted(o, l) ==
  [i \in DOMAIN l.captures |-> Slot("LOAD", l.captures[i])]
  \o <<Lifted(o, l.fn, Len(l.captures))>>

Code(n, ctx) ==
  LET args == CodeAll(n.args, ctx) IN
  CASE n.op = "number" -> <<PushK(Num(n.data))>>
    [] n.op = "text"   -> <<PushK(Str(1))>>
    [] n.op = "var"    -> <<Slot("LOAD", n.name)>>
    [] n.op = "list"   -> args \o <<InsN("LIST", Len(n.args))>>
    [] n.op = "eq"     -> args \o <<Ins("EQ")>>
    [] n.op = "sub"    -> args \o <<Ins("SUB")>>
    [] n.op = "not"    -> args \o <<Ins("NOT")>>
    [] n.op = "record" -> args \o <<InsN("RECORD", Len(n.args))>>
    [] n.op = "field"  -> args \o <<[op |-> "FIELD", place |-> n.place]>>
    [] n.op \in {"break", "continue"} -> <<Ins(n.op)>>
    [] n.op = "index"  -> args \o <<PushK(Num(0)), Ins("INDEX")>>
    [] n.op = "len"    -> args \o <<Ins("LEN")>>
    [] n.op = "print"  -> args \o <<Ins("PRINT"), PushK(Nil)>>
    [] n.op \in {"and", "or"} ->
         LET right == <<Ins("POP")>> \o Code(n.args[2], ctx)
             jump  == Jump(IF n.op = "and" THEN "JZ" ELSE "JNZ", Len(right))
         IN Code(n.args[1], ctx) \o <<Ins("DUP"), jump>> \o right
    [] n.op = "cap"    -> args \o <<Require(n.cap, FALSE), PushK(Nil)>>
    [] n.op = "gen"    -> args \o <<Require("model", TRUE), GenIns(n.untrusted, Len(n.args))>>
    [] n.op = "call"   -> args \o <<CallIns(n.fn, Len(n.args))>>
    [] n.op \in {"for", "par"} ->
         args \o CodeLifted("PARALLEL", Lift(n.body, <<n.name>>, ctx))
    [] n.op = "step"   -> CodeLifted("STEP", Lift(n.body, <<>>, ctx))
    [] n.op = "try"    -> CodeLifted("TRY", Lift(<<Return(n.args[1])>>, <<>>, ctx))
    [] n.op \in {"let", "assign"} -> args \o <<Slot("STORE", n.name)>>
    [] n.op = "expr"   -> args \o Drop
    [] n.op = "return" -> args \o <<Ins("RET")>>
    [] n.op = "if"     ->
         LET body  == CodeBlock(n.body, ctx)
             other == CodeBlock(n.other, [ctx EXCEPT !.slots = @ \cup NewSlots(n)])
         IN IF other = <<>> THEN args \o <<Jump("JZ", Len(body))>> \o body
            ELSE args \o <<Jump("JZ", Len(body) + 1)>> \o body
                 \o <<Jump("JMP", Len(other))>> \o other
    [] n.op = "while"  ->
         LET body == Closing(CodeBlock(n.body, ctx), Len(args) + 1)
             loop == args \o <<Jump("JZ", Len(body) + 1)>> \o body
         IN loop \o <<Jump("JMP", -(Len(loop) + 1))>>

CodeFn(fd) ==
  Compiled(fd.params, fd.untrusted, fd.uses, fd.limit,
           Closed(CodeBlock(fd.body, [uses |-> fd.uses, slots |-> ToSet(fd.params)])))

\* The function table of a program.
Translate(p) == [f \in DOMAIN p |-> CodeFn(p[f])]

\* The F section: what was lifted out of a function stands there as well.
RECURSIVE WithLifted(_)
WithLifted(fn) ==
  {fn} \cup UNION {WithLifted(fn.code[k].body) :
                     k \in {j \in DOMAIN fn.code : fn.code[j].op \in {"STEP", "TRY", "PARALLEL"}}}
Emitted(t) == UNION {WithLifted(t[f]) : f \in DOMAIN t}
=============================================================================
