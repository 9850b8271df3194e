------------------------------ MODULE MCHosts ------------------------------
(***************************************************************************)
(* Small programs for Hosts.  main() calls handle(doc), whose parameter is *)
(* untrusted, and handle may call helper(y), whose parameter is not.       *)
(***************************************************************************)
EXTENDS Hosts

CONSTANT LoopTurns  \* how often a while loop turns

Leaf == {Text, Var("doc"), Cap("web", <<>>), Gen(TRUE, Text)}

One(es) == UNION {
  {Cap("web", <<e>>) : e \in es},
  {Call("helper", <<e>>) : e \in es},
  {Gen(u, e) : u \in BOOLEAN, e \in es},
  {Apply("try", <<e>>) : e \in es},
  {Step(<<Expr(e)>>) : e \in es},
  {Loop(o, "it", Apply("list", <<e, Text>>), <<Expr(Gen(FALSE, Var("it")))>>)
          : o \in {"for", "par"}, e \in es},
  {Field(1, Gen(u, e)) : u \in BOOLEAN, e \in es},
  {Field(k, Record(ps, <<e, Text>>)) : k \in {1, 2}, ps \in {<<1, 2>>, <<2, 1>>}, e \in es},
  {Apply("not", <<e>>) : e \in es}}
Two(es, fs) == UNION {
  {Apply(o, <<e, f>>) : o \in {"list", "eq", "and", "or", "print"}, e \in es, f \in fs},
  {Apply("index", <<Apply("list", <<e, f>>)>>) : e \in es, f \in fs},
  {Cap("web", <<e, f>>) : e \in es, f \in fs}}

\* Looking into what has nothing to look into on the HBX hosts.
Hollow == {Field(1, Cap("web", <<>>)), Field(2, Gen(FALSE, Text)),
           Apply("index", <<Apply("try", <<Apply("list", <<Text>>)>>)>>)}

\* Loops over what may not be a list.
Unlisted == {Loop(o, "it", e, <<Expr(Gen(FALSE, Text))>>) : o \in {"for", "par"}, e \in Leaf}

\* More operands than the headroom of a stack.
Long == {Apply("list", [i \in 1 .. 6 |-> Var("doc")])}

Flat == UNION {Leaf, Long, One(Leaf), Two(Leaf, {Var("doc"), Gen(TRUE, Text)}), Hollow, Unlisted}

\* What is done with an expression: dropped, returned, given to a capability, a
\* generation or the helper, printed.
Bodies(es) == UNION {
  {<<Let("x", FALSE, e), Expr(Cap("web", <<Var("x")>>)), Return(Var("x"))>> : e \in es},
  {<<Expr(e), Return(Text)>> : e \in es},
  {<<Let("x", FALSE, e), Expr(Call("helper", <<Var("x")>>)),
          Expr(Apply("print", <<Var("x")>>))>> : e \in es},
  {<<Expr(Gen(FALSE, Text)), Let("x", FALSE, Apply("try", <<e>>)),
          Expr(Cap("web", <<Var("x")>>)), Return(Var("x"))>> : e \in es},
  {<<Let("x", TRUE, Text), If(e, <<Assign("x", e)>>, <<>>), Expr(Gen(FALSE, Var("x"))),
          Expr(Cap("web", <<Var("x")>>))>> : e \in es},
  \* a name bound anew in a block, both ways through an `if`
  {<<Let("x", FALSE, Text),
     If(e, <<Let(x, FALSE, e), Expr(Cap("web", <<Var(x)>>))>>, <<Expr(Cap("web", <<>>))>>),
     Expr(Apply("print", <<Var("x")>>)), Return(Var("x"))>> :
       e \in Leaf \cup {Number(0), Apply("not", <<Var("doc")>>)}, x \in {"x", "y"}},
  {<<Let("x", FALSE, Number(0)),
     Expr(Loop(o, "x", Apply("list", <<e, e>>), <<Expr(Gen(FALSE, Var("x")))>>)),
     Return(Var("x"))>> : o \in {"for", "par"}, e \in Leaf},
  \* a loop that is left, or goes on, half-way
  {<<Let("i", TRUE, Number(LoopTurns)),
     While(Var("i"), <<Assign("i", Apply("sub", <<Var("i"), Number(1)>>)),
                       If(e, <<s>>, <<Expr(Apply("print", <<Var("i")>>))>>), Expr(e)>>),
     Return(Var("i"))>> :
       e \in Leaf \cup {Number(0), Var("i")}, s \in {Break, Continue, Return(Text)}},
  {<<Let("x", TRUE, Text), Let("i", TRUE, Number(LoopTurns)),
          While(Var("i"), <<Expr(e), Assign("i", Apply("sub", <<Var("i"), Number(1)>>))>>),
          Return(Var("x"))>> : e \in es},
  {<<Let("x", TRUE, Number(0)),
          Expr(Loop("for", "it", Apply("list", <<e, Number(2)>>), <<Assign("x", Var("it"))>>)),
          Return(Var("x"))>> : e \in Leaf}}

Program(body, lends, needs, limits, helper) ==
  [main   |-> Fn(<<>>, {}, <<>>, {"model", "web", "db"}, limits[1], FALSE,
                 <<Return(Call("handle", <<Text>>))>>),
   handle |-> Fn(<<"doc">>, {"doc"}, [doc |-> <<"string">>], lends, NoLimit,
                 \E n \in NodesOf(body) : n.op = "step", body),
   helper |-> Fn(<<"y">>, {}, [y |-> <<"string">>], needs, limits[2], FALSE, helper)]

Lends == {"model", "web", "db"}
Lent == <<Return(Gen(FALSE, Var("y")))>>
Sent == <<Expr(Cap("db", <<Var("y")>>)), Return(Var("y"))>>

\* What handle may lend, the limits of main and of helper, what helper does: too little
\* for two generations, for the helper, for a block and its reservation, or enough.
Settings ==
  ({Lends} \X {<<1, 1>>, <<NoLimit, NoLimit>>} \X {Sent})
    \cup ({Lends} \X {<<1, NoLimit>>, <<3, 1>>} \X {Lent})
    \cup ({Lends \ {"db"}} \X {<<1, NoLimit>>, <<3, 1>>} \X {Sent})
    \cup ({Lends \ {"db"}} \X {<<1, 1>>, <<NoLimit, NoLimit>>} \X {Lent})

SmallPrograms ==
  {Program(b, s[1], {"model", "db"}, s[2], s[3]) : b \in Bodies(Flat), s \in Settings}

\* Loops that return, bound to a name, returned, or a statement of their own.
ReturnPrograms ==
  {Program(b, Lends, {"model", "db"}, <<NoLimit, NoLimit>>, <<Return(Var("y"))>>) :
     b \in {<<s, Expr(Apply("print", <<Text>>)), Return(Number(1))>> :
              s \in {Let("x", FALSE, Loop("for", "it", Apply("list", <<Text, Text>>), <<Return(Var("it"))>>)),
                     Expr(Loop("for", "it", Apply("list", <<Text>>), <<Return(Var("it"))>>)),
                     Return(Loop("for", "it", Apply("list", <<Text>>), <<Return(Var("it"))>>))}}}
=============================================================================
