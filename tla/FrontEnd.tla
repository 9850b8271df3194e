------------------------------ MODULE FrontEnd ------------------------------
(***************************************************************************)
(* What the front end makes of a text, and of files that import one        *)
(* another.  The text of a function body is written from its tree by the   *)
(* precedence table of docs/LANGUAGE.md 6.1 (or, and, not below it, unary  *)
(* minus above multiplication, as in other languages), with no bracket     *)
(* that the table does not call for and, as section 1 has it, nothing      *)
(* between one statement and the next.                                     *)
(***************************************************************************)
EXTENDS Parser, Imports, FiniteSets

CONSTANTS Bodies,    \* lists of statements
          Projects   \* files by path: what each declares and imports

VARIABLES
  input,   \* [body, commas]: a text, with the commas and the empty names that may be left
           \* out or without, or [files, path]: where parse_file begins
  output   \* what the front end returned

vars == <<input, output>>
Unread == << >>

-----------------------------------------------------------------------------
\* The text of a tree.  Marks stand where two items meet that no comma parts: ";" after
\* an item that ends in an expression, "|" after one that does not.

Marks == {";", "|"}

Rank(e) ==
  IF e[1] = "try" THEN 0
  ELSE IF e[1] = "binary"
       THEN CHOOSE l \in {1, 2, 4, 5, 6} : e[2] \in Operators[l]
  ELSE IF e[1] = "unary" THEN IF e[2] = "-" THEN 7 ELSE 3
  ELSE 8

Parted(s) == <<"(">> \o s \o <<")">>

RECURSIVE Show(_, _), Items(_, _, _, _), Stmt(_, _), Block(_, _), Condition(_, _)

\* Expression e where one of rank l or more may stand.
Put(l, e, commas) ==
  IF Rank(e) < l THEN Parted(Show(e, commas)) ELSE Show(e, commas)

Items(kind, xs, close, commas) ==
  IF xs = << >> THEN <<close>>
  ELSE LET x == Head(xs)
           label == IF kind = "element" \/ x[1] = "" THEN << >> ELSE <<x[1], ":">>
           value == IF kind = "element" THEN x ELSE x[2]
           mark == IF Len(xs) = 1 THEN << >> ELSE IF commas THEN <<",">> ELSE <<";">>
       IN  label \o Show(value, commas) \o mark \o Items(kind, Tail(xs), close, commas)

\* What a brace follows may not end in a name that would make it a record.
Condition(e, commas) ==
  LET s == Show(e, commas) IN IF s[Len(s)] \in Upper THEN Parted(s) ELSE s

Show(e, commas) ==
  CASE e[1] \in {"id", "literal"} -> <<e[2]>>
    [] e[1] = "binary" ->
         Put(Rank(e), e[3], commas) \o <<e[2]>> \o Put(Rank(e) + 1, e[4], commas)
    [] e[1] = "unary" -> <<e[2]>> \o Put(Rank(e), e[3], commas)
    [] e[1] = "try" -> <<"try">> \o Show(e[2], commas)
    [] e[1] = "member" -> Put(8, e[2], commas) \o <<".", e[3]>>
    [] e[1] = "index" -> Put(8, e[2], commas) \o <<"[">> \o Show(e[3], commas) \o <<"]">>
    [] e[1] = "call" -> Put(8, e[2], commas) \o <<"(">> \o Items("argument", e[3], ")", commas)
    [] e[1] = "list" -> <<"[">> \o Items("element", e[2], "]", commas)
    [] e[1] = "record" -> <<e[2], "{">> \o Items("field", e[3], "}", commas)
    [] e[1] = "gen" -> <<"gen", "<", e[2], ">", "from", e[3], "(">>
                         \o Items("argument", e[4], ")", commas)
    [] e[1] = "for" -> <<"for", e[2], "in">> \o Condition(e[3], commas) \o Block(e[4], commas)
    [] e[1] = "parallel" ->
         <<"parallel", "for", e[2], "in">> \o Condition(e[3], commas)
           \o Block(e[4], commas) \o <<"limit", e[5]>>
    [] e[1] = "step" ->
         LET name == IF e[2] # "" THEN <<e[2]>> ELSE IF commas THEN <<Empty>> ELSE << >>
         IN  <<"step">> \o name \o Block(e[3], commas)

\* An expression that would begin like another statement is put in brackets.
Stmt(t, commas) ==
  CASE t[1] = "expr" ->
         LET s == Show(t[2], commas) IN IF Head(s) = "step" THEN Parted(s) ELSE s
    [] t[1] \in {"let", "var"} -> <<t[1], t[2], "=">> \o Show(t[3], commas)
    [] t[1] = "assign" -> <<t[2], "=">> \o Show(t[3], commas)
    [] t[1] = "return" -> <<"return">> \o Show(t[2], commas)
    [] t[1] \in {"break", "continue"} -> t
    [] t[1] = "while" -> <<"while">> \o Condition(t[2], commas) \o Block(t[3], commas)
    [] t[1] = "if" -> <<"if">> \o Condition(t[2], commas) \o Block(t[3], commas)
                        \o (IF t[4] = <<<<"none">>>> THEN << >> ELSE <<"else">> \o Block(t[4], commas))
    [] t[1] = "policy" ->
         <<"policy", "{">> \o (IF t[3] = "none" THEN << >> ELSE <<"fallback", ":", t[3]>>)
           \o <<"retry", ":", t[2], "}">> \o Block(t[4], commas)
    [] t[1] = "step" -> Show(t, commas)

Block(ts, commas) ==
  LET RECURSIVE Rest(_)
      Rest(i) ==
        IF i > Len(ts) THEN <<"}">>
        ELSE Stmt(ts[i], commas)
               \o (IF i = Len(ts) THEN << >>
                   ELSE IF ts[i][1] \in {"expr", "let", "var", "assign", "return"}
                        THEN <<";">> ELSE <<"|">>)
               \o Rest(i + 1)
  IN  <<"{">> \o Rest(1)

Text(i) == Block(i.body, i.commas)
Tokens(text) == Append(SelectSeq(text, LAMBDA t : t \notin Marks), "EOF")

-----------------------------------------------------------------------------
Init ==
  /\ \/ input \in [body : Bodies, commas : BOOLEAN]
     \/ input \in [files : Projects, path : {"main"}]
  /\ output = Unread

IsText == "body" \in DOMAIN input

\* Parser(src).parse()
ReadText ==
  /\ IsText /\ output = Unread
  /\ output' = Body(Tokens(Text(input)))
  /\ UNCHANGED input

ReadFiles ==
  /\ ~IsText /\ output = Unread
  /\ output' = parse_file(input.files, input.path, {})
  /\ UNCHANGED input

Next == ReadText \/ ReadFiles

Spec == Init /\ [][Next]_vars
-----------------------------------------------------------------------------
\* An item begins with a token that continues the expression before it.
Glued(text) ==
  \E i \in 1..(Len(text) - 1) : text[i] = ";" /\ text[i + 1] \in {"(", "[", "-"}

\* docs/LANGUAGE.md 1 and 6.1: a body is read back as it was meant, whatever operators
\* and constructs meet in it, and new lines and commas may be left out; with one
\* exception, which the reference denies: an item that begins with "(", "[" or "-" is
\* taken into the expression before it.
ParsesBack ==
  IsText /\ output # Unread => (output = input.body <=> ~Glued(Text(input)))

Reached(files, path) ==
  LET Imported(S) == UNION {{files[f].imports[i] : i \in DOMAIN files[f].imports} :
                            f \in S \cap DOMAIN files}
      reach[n \in Nat] == IF n = 0 THEN {path} ELSE reach[n - 1] \cup Imported(reach[n - 1])
  IN  reach[Cardinality(DOMAIN files)]

\* "Cycles are detected; a duplicate declaration across modules is an error rather than
\* a silent overwrite" (parse_file): through cycles and by several ways to one file, a
\* program is what its files declare, each once, unless two of them declare one name.
ImportsMerge ==
  ~IsText /\ output # Unread =>
    LET F == Reached(input.files, input.path)
        fine == /\ F \subseteq DOMAIN input.files
                /\ \A f, g \in F : f # g =>
                     input.files[f].declares \cap input.files[g].declares = {}
    IN  /\ output.error <=> ~fine
        /\ fine => /\ DOMAIN output.decls = UNION {input.files[f].declares : f \in F}
                   /\ \A n \in DOMAIN output.decls : n \in input.files[output.decls[n]].declares
=============================================================================
