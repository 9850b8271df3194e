----------------------------- MODULE MCFrontEnd -----------------------------
(***************************************************************************)
(* Bodies of one statement whose expression is two or three constructs     *)
(* deep, and of two statements, the first of any kind; projects of three   *)
(* files, some of them missing.                                            *)
(***************************************************************************)
EXTENDS FrontEnd

Atom == {<<"id", "x">>, <<"id", "X">>, <<"literal", "1">>}
Infix == {"or", "and", "==", "-", "*"}

\* Expressions of one construct over the expressions E, and F.
Over(E, F) ==
  LET Labels == {"", "x"}
      Few == {<< >>} \cup {<<<<"expr", f>>>> : f \in F}
      Arguments == {<< >>} \cup {<<<<l, e>>>> : l \in Labels, e \in E}
                     \cup {<<<<"", e>>, <<l, f>>>> : l \in Labels, e \in E, f \in F}
  IN  {<<"binary", o, e, f>> : o \in Infix, e \in E, f \in F}
        \cup {<<"unary", o, e>> : o \in {"not", "-"}, e \in E}
        \cup {<<"try", e>> : e \in E}
        \cup {<<"member", e, "x">> : e \in E}
        \cup {<<"index", e, f>> : e \in E, f \in F}
        \cup {<<"call", e, <<>>>> : e \in E} \cup {<<"call", <<"id", "x">>, a>> : a \in Arguments}
        \cup {<<"list", <<e, f>>>> : e \in E, f \in F} \cup {<<"list", <<e>>>> : e \in E}
        \cup {<<"record", "X", <<<<"x", e>>, <<"y", f>>>>>> : e \in E, f \in F}
        \cup {<<"gen", "X", "y", <<<<"", e>>>>>> : e \in E}
        \cup {<<"for", "y", e, b>> : e \in E, b \in Few}
        \cup {<<"parallel", "y", e, b, "1">> : e \in E, b \in Few}
        \cup {<<"step", "", b>> : b \in Few}

X == {<<"id", "x">>}
One == Over(Atom, X) \cup Over(X, Atom) \cup Atom
Two == Over(One, X) \cup Over(X, One)

Statement(E, B) ==
  {<<"expr", e>> : e \in E}
    \cup {<<k, "y", e>> : k \in {"let", "assign"}, e \in E}
    \cup {<<"return", e>> : e \in E}
    \cup {<<"while", e, b>> : e \in E, b \in B}
    \cup {<<"if", e, b, c>> : e \in E, b \in B, c \in B \cup {<<<<"none">>>>}}
    \cup {<<"policy", "1", f, b>> : f \in {"none", "s"}, b \in B}
    \cup {<<"step", "s", b>> : b \in B}
    \cup {<<"break">>, <<"continue">>}

Starts == X \cup {<<"unary", "-", <<"id", "x">>>>,
                  <<"unary", "not", <<"id", "x">>>>, <<"list", << >>>>,
                  <<"member", <<"try", <<"id", "x">>>>, "x">>, <<"step", "", << >>>>}

MCBodies ==
  {<<<<"return", e>>>> : e \in Two} \cup {<<<<"while", e, << >>>>>> : e \in Two}
    \cup {<<s, t>> : s \in Statement(One, {<< >>}), t \in Statement(Starts, {<< >>})}

Declares == {{}, {"p"}, {"p", "q"}}
Imports2 == {<< >>} \cup {<<f>> : f \in {"main", "a", "b"}}
              \cup {<<f, g>> : f, g \in {"main", "a", "b"}}

MCProjects ==
  UNION {[D -> [declares : Declares, imports : Imports2]] :
         D \in {{"main"}, {"main", "a"}, {"main", "a", "b"}}}
=============================================================================
