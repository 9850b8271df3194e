------------------------------- MODULE Values -------------------------------
(***************************************************************************)
(* The values that the hosts of the language compute with.                 *)
(*                                                                         *)
(* A value keeps what the properties tell apart: its kind, a number for    *)
(* its contents, its elements, the taint mark that the HBX hosts attach to *)
(* it, and `from`: the untrusted sources it derives from, which no host    *)
(* knows and against which marks and checks are judged.                    *)
(***************************************************************************)
EXTENDS Integers, Sequences, FiniteSets, SequencesExt

CONSTANT NoLimit      \* a function without a budget

Value(k, d, items, from, mark) ==
  [kind |-> k, data |-> d, items |-> items, from |-> from, mark |-> mark]

Nil    == Value("nil", 0, <<>>, {}, FALSE)
Num(n) == Value("num", n, <<>>, {}, FALSE)
Str(d) == Value("str", d, <<>>, {}, FALSE)

\* truthy(), Value.Truthy: nil, false, zero and the empty list are not.
Truthy(v) == v.data # 0 \/ v.kind \notin {"nil", "bool", "num", "str", "list"}

\* A scope or the slots of a function, with x bound to v.
Bind(env, x, v) == [y \in DOMAIN env \cup {x} |-> IF y = x THEN v ELSE env[y]]
=============================================================================
