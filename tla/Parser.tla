------------------------------- MODULE Parser -------------------------------
(***************************************************************************)
(* Statements and expressions as humbaba/parser.py reads them, by          *)
(* recursive descent over the tokens of humbaba/lexer.py.  A token is a    *)
(* string, whose kind is told by the sets below; white space is no token.  *)
(* A reader takes the tokens from its own on and returns the node it read  *)
(* and the tokens left.  A node is a tuple that begins with its kind; line *)
(* numbers are left out.                                                   *)
(***************************************************************************)
EXTENDS Integers, Sequences

CONSTANTS Lower, Upper,   \* identifiers, by their first letter
          Number, Str,    \* literals
          Empty           \* the string literal with nothing in it

KEYWORDS ==
  {"type", "prompt", "fn", "let", "return", "if", "else", "uses", "budget", "gen",
   "from", "parallel", "for", "in", "limit", "policy", "untrusted", "true", "false",
   "system", "user", "retry", "fallback", "max", "var", "while", "break", "continue",
   "and", "or", "not", "try", "capability", "durable", "step", "import", "as",
   "optional"}

Ident == Lower \cup Upper
Word == Ident \cup KEYWORDS

Read(node, rest) == [node |-> node, rest |-> rest]

\* The tokens left after a ParseError: no reader gets past them.
Lost == <<"error">>
AtEnd(s) == Head(s) \in {"EOF", "error"}

Skip(s) == IF AtEnd(s) THEN Lost ELSE Tail(s)
Eat(value, s) == IF Head(s) = value THEN Tail(s) ELSE Lost
EatOne(Kind, s) == IF Head(s) \in Kind THEN Tail(s) ELSE Lost
Accept(value, s) == IF Head(s) = value THEN Tail(s) ELSE s

\* The operators of the methods that call one another, from logic_or to unary.
Operators ==
  << {"or"}, {"and"}, {"not", "!"}, {"==", "!=", "<", ">", "<=", ">="},
     {"+", "-"}, {"*", "/", "%"}, {"-"} >>
Prefix == {3, 7}

RECURSIVE Level(_, _), More(_, _), postfix(_), primary(_),
          Item(_, _), List(_, _, _), statement(_)

expr(s) == Level(1, s)

\* while not self.at("OP", close)
List(kind, close, s) ==
  IF Head(s) = close THEN Read(<< >>, Tail(s))
  ELSE IF AtEnd(s) THEN Read(<< >>, Lost)
  ELSE LET first == Item(kind, s)
           others == List(kind, close, first.rest)
       IN  Read(<<first.node>> \o others.node, others.rest)

\* A comma after an item of an expression is read over.
Item(kind, s) ==
  LET Labelled(rest) ==
        LET e == expr(rest) IN Read(<<Head(s), e.node>>, Accept(",", e.rest))
  IN  CASE kind = "statement" -> statement(s)
        [] kind = "field" -> Labelled(Eat(":", Skip(s)))
        [] kind = "argument" /\ Head(s) \in Word /\ s[2] = ":" -> Labelled(Tail(Tail(s)))
        [] kind = "setting" ->
             LET v == Eat(":", EatOne({"retry", "fallback"}, s))
             IN  Read(<<Head(s), Head(v)>>,
                      Accept(",", EatOne(IF Head(s) = "retry" THEN Number ELSE Str, v)))
        [] OTHER -> LET e == expr(s)
                        none == IF kind = "argument" THEN <<"", e.node>> ELSE e.node
                    IN  Read(none, Accept(",", e.rest))

block(s) == List("statement", "}", Eat("{", s))
args(s) == List("argument", ")", Eat("(", s))

-----------------------------------------------------------------------------
\* Expressions.

\* Mutant: an operator takes everything to its right.
LevelRight(l, s) ==
  IF l \in Prefix
  THEN IF Head(s) \in Operators[l]
       THEN LET e == Level(l, Tail(s)) IN Read(<<"unary", Head(s), e.node>>, e.rest)
       ELSE Level(l + 1, s)
  ELSE IF l = 8 THEN postfix(primary(s))
  ELSE LET left == Level(l + 1, s)
       IN  IF Head(left.rest) \in Operators[l]
           THEN LET right == Level(l, Tail(left.rest))
                IN  Read(<<"binary", Head(left.rest), left.node, right.node>>, right.rest)
           ELSE left

\* logic_or, logic_and, logic_not, comparison, additive, multiplicative, unary, postfix:
\* each begins with the next one.
Level(l, s) ==
  CASE l = 8 -> postfix(primary(s))
    [] l \in Prefix /\ Head(s) \in Operators[l] ->
         LET e == Level(l, Tail(s)) IN Read(<<"unary", Head(s), e.node>>, e.rest)
    [] l \in Prefix /\ Head(s) \notin Operators[l] -> Level(l + 1, s)
    [] OTHER -> More(l, Level(l + 1, s))

\* while the token is an operator of this level: it is left associative.
More(l, left) ==
  IF Head(left.rest) \in Operators[l]
  THEN LET right == Level(l + 1, Tail(left.rest))
       IN  More(l, Read(<<"binary", Head(left.rest), left.node, right.node>>, right.rest))
  ELSE left

postfix(e) ==
  LET s == e.rest IN
  CASE Head(s) = "." ->
         postfix(Read(<<"member", e.node, Head(Tail(s))>>, Skip(Tail(s))))
    [] Head(s) = "[" ->
         LET i == expr(Tail(s)) IN postfix(Read(<<"index", e.node, i.node>>, Eat("]", i.rest)))
    [] Head(s) = "(" ->
         LET a == args(s) IN postfix(Read(<<"call", e.node, a.node>>, a.rest))
    [] OTHER -> e

\* step "name" { ... }: a statement, and an expression too.  A statement reads over its
\* name unless that is empty, an expression over any.
step(s, Names) ==
  LET body == block(IF Head(s) \in Names THEN Tail(s) ELSE s)
  IN  Read(<<"step", IF Head(s) \in Names \ {Empty} THEN Head(s) ELSE "", body.node>>, body.rest)

\* x in e { ... }
loop(kind, s) ==
  LET over == expr(Eat("in", EatOne(Ident, s)))
      body == block(over.rest)
  IN  Read(<<kind, Head(s), over.node, body.node>>, body.rest)

\* The name in a type reference: name | [name] | name? | [name]?
type_ref(s) ==
  LET name == Accept("[", s)
      rest == EatOne(Word, name)
  IN  Read(Head(name), Accept("?", IF Head(s) = "[" THEN Eat("]", rest) ELSE rest))

gen(s) ==
  LET type == type_ref(Eat("<", s))
      from == Eat("from", Eat(">", type.rest))
      a == args(EatOne(Ident, from))
  IN  Read(<<"gen", type.node, Head(from), a.node>>, a.rest)

primary(s) ==
  LET t == Head(s)
      rest == Skip(s)
  IN
  CASE t \in Number \cup Str \cup {"true", "false"} -> Read(<<"literal", t>>, rest)
    [] t = "step" -> step(rest, Str)
    [] t = "try" -> LET e == expr(rest) IN Read(<<"try", e.node>>, e.rest)
    [] t = "gen" -> gen(rest)
    [] t = "for" -> loop("for", rest)
    [] t = "parallel" ->
         LET f == loop("parallel", Eat("for", rest))
             limited == Head(f.rest) = "limit"
             limit == IF limited THEN Head(Tail(f.rest)) ELSE "4"
         IN  Read(Append(f.node, limit),
                  IF limited THEN EatOne(Number, Tail(f.rest)) ELSE f.rest)
    [] t = "[" -> LET l == List("element", "]", rest) IN Read(<<"list", l.node>>, l.rest)
    [] t = "(" -> LET e == expr(rest) IN Read(e.node, Eat(")", e.rest))
    [] t \in Upper /\ Head(rest) = "{" ->
         LET f == List("field", "}", Tail(rest)) IN Read(<<"record", t, f.node>>, f.rest)
    [] OTHER -> IF t \in Word THEN Read(<<"id", t>>, rest) ELSE Read(<<"error">>, Lost)

-----------------------------------------------------------------------------
\* Statements.

\* The value of the last setting for key.
Setting(settings, key, default) ==
  LET values == SelectSeq(settings, LAMBDA x : x[1] = key)
  IN  IF values = << >> THEN default ELSE values[Len(values)][2]

policy_stmt(s) ==
  LET p == List("setting", "}", Eat("{", s))
      body == block(p.rest)
  IN  Read(<<"policy", Setting(p.node, "retry", "0"), Setting(p.node, "fallback", "none"),
             body.node>>, body.rest)

statement(s) ==
  LET t == Head(s)
      rest == Skip(s)
      With(node, e) == Read(Append(node, e.node), e.rest)
  IN
  CASE t \in {"let", "var"} -> With(<<t, Head(rest)>>, expr(Eat("=", EatOne(Ident, rest))))
    [] t = "while" -> LET c == expr(rest) IN With(<<t, c.node>>, block(c.rest))
    [] t \in {"break", "continue"} -> Read(<<t>>, rest)
    [] t = "step" -> step(rest, Str \ {Empty})
    [] t \in Ident /\ Head(rest) = "=" -> With(<<"assign", t>>, expr(Tail(rest)))
    [] t = "return" -> With(<<t>>, expr(rest))
    [] t = "if" ->
         LET c == expr(rest)
             then == block(c.rest)
             other == IF Head(then.rest) = "else" THEN block(Tail(then.rest))
                                                  ELSE Read(<<<<"none">>>>, then.rest)
         IN  With(<<t, c.node, then.node>>, other)
    [] t = "policy" -> policy_stmt(rest)
    [] OTHER -> With(<<"expr">>, expr(s))

\* The body of a function; an error if tokens are left.
Body(s) ==
  LET b == block(s) IN IF b.rest = <<"EOF">> THEN b.node ELSE <<<<"error">>>>
=============================================================================
