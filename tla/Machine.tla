------------------------------ MODULE Machine ------------------------------
(***************************************************************************)
(* The HBX machine, as the Python reference VM (hbxvm.py) and the Go host  *)
(* (vm.go) execute it.  Every frame has a budget node, as in Python; Go    *)
(* has none for a function without a limit (vm.go:81), a node that would   *)
(* refuse nothing.  Go gives each frame an operand stack of a fixed size,  *)
(* which is none here: Hosts compares its depth with what was computed.    *)
(*                                                                         *)
(* A frame's `spent` is its budget node; `wait` is what the frame's        *)
(* current instruction does with the frame above it; `loop` is the rest of *)
(* a PARALLEL.  A generation succeeds and costs Price (see Generate).      *)
(***************************************************************************)
EXTENDS Values

CONSTANTS Programs,     \* the programs to execute
          Load(_),      \* the functions of a program by name, as its file has them
          FnsOf(_),     \* all functions of such a file: lifted bodies have no name
          Shown(_),     \* what a program can see of a value
          Alike(_, _),  \* whether two values have the same contents
          Origins(_),   \* everything untrusted in a value, its elements included
          Price

VARIABLES
  prog, table,    \* the source, and the functions it was translated to
  stack,          \* the frames, the executing one last
  err,            \* the error being raised, or ""
  acts,           \* prints, capabilities used, generations, in order
  tainted,        \* a tainted operand was refused
  result,         \* the value of main
  total           \* vm.spent

LiftedOps == {"STEP", "TRY", "PARALLEL"}
Counted == {"LIST", "RECORD", "CALL", "GEN"} \cup LiftedOps

\* What a file is: functions refer to functions in it, the constants are those of the K
\* section (a number, text, boolean or nil).  "prompt" is a keyword of the language.
ASSUME FileAssumption ==
  \A p \in Programs :
    LET t == Load(p) IN
      /\ "main" \in DOMAIN t /\ \A f \in DOMAIN t : t[f] \in FnsOf(t)
      /\ \A fn \in FnsOf(t) :
           /\ "prompt" \notin fn.untrusted
           /\ \A k \in DOMAIN fn.code :
                LET i == fn.code[k] IN
                  /\ i.op = "PUSHK" => i.value = Value(i.value.kind, i.value.data, <<>>, {}, FALSE)
                  /\ i.op = "CALL" => i.fn \in DOMAIN t
                  /\ i.op \in LiftedOps => i.body \in FnsOf(t)
                  /\ i.op \in Counted => i.n \in Nat

vars == <<prog, table, stack, err, acts, tainted, result, total>>

Top     == stack[Len(stack)]
\* Past the end of its code a function returns nil.
Here    == IF Top.pc \in DOMAIN Top.fn.code THEN Top.fn.code[Top.pc] ELSE [op |-> "RETNIL"]
\* What an instruction takes from the operand stack or looks at.  What it does without is
\* not modelled (an index out of range that no `try` catches, a slice that is too short):
\* the machine stops there, and compiled code never does.
Needs(i) ==
  CASE i.op \in {"STORE", "POP", "DUP", "JZ", "JNZ", "NOT", "LEN", "FIELD", "PRINT", "RET"} -> 1
    [] i.op \in {"EQ", "SUB", "INDEX"} -> 2
    [] i.op \in Counted \ {"PARALLEL"} -> i.n
    [] i.op = "PARALLEL" -> i.n + 1
    [] OTHER -> 0
Running == err = "" /\ stack # <<>> /\ Top.wait = "none" /\ Needs(Here) <= Len(Top.st)
Peek    == Top.st[Len(Top.st)]
Below(n) == SubSeq(Top.st, 1, Len(Top.st) - n)
Popped(n) == SubSeq(Top.st, Len(Top.st) - n + 1, Len(Top.st))
Untouched == UNCHANGED <<prog, table, acts, tainted, result, total>>

\* The executing frame, past its instruction, with operand stack st.
Past(st) == [Top EXCEPT !.pc = @ + 1, !.st = st]
\* A slot that was not stored yet holds nil.
InSlot(x) == IF x \in DOMAIN Top.slots THEN Top.slots[x] ELSE Nil
Become(f) == stack' = [stack EXCEPT ![Len(stack)] = f]
Did(what, vs, fenced) ==
  acts' = Append(acts, [what |-> what, with |-> [i \in DOMAIN vs |-> Shown(vs[i])],
                        fenced |-> fenced])

\* wrap(): the mark joins, never leaves.
Marked(v, dirty) == [v EXCEPT !.mark = @ \/ dirty]
\* Mutant: an element of something tainted is clean.
PartClean(v, base) == [v EXCEPT !.from = @ \cup base.from]

Part(v, base) == [Marked(v, base.mark) EXCEPT !.from = @ \cup base.from]

Combined(o, v, w) ==
  LET from == Origins(v) \cup Origins(w)
      dirty == v.mark \/ w.mark
  IN CASE o = "EQ"  -> Value("bool", IF Alike(v, w) THEN 1 ELSE 0, <<>>, from, dirty)
       [] o = "SUB" -> Value("num", v.data - w.data, <<>>, from, dirty)

Negated(v) == Value("bool", IF Truthy(v) THEN 0 ELSE 1, <<>>, Origins(v), v.mark)
\* RECORD names its operands in the order in which the type declares its fields.
Recorded(vs) == Value("rec", 0, vs, {}, FALSE)
Listed(vs) == Value("list", Len(vs), vs, {}, FALSE)
\* len() of the bare value.
Measured(v) == Value("num", v.data, <<>>, Origins(v), FALSE)
Tried(v) == Value("try", 0, <<v>>, {}, FALSE)
Failure == [Nil EXCEPT !.kind = "failure"]

\* _gen: dirty if an argument is marked, and then so is the answer.  No two answers of
\* a program are alike (if they were, HBX would find them equal and the closures not).
Generated(vs) ==
  LET dirty == \E i \in DOMAIN vs : vs[i].mark
      from  == (UNION {Origins(vs[i]) : i \in DOMAIN vs})
               \cup (IF Here.untrusted THEN {"prompt"} ELSE {})
      n     == Len(acts) + 1
  IN Value("rec", n, <<Value("str", n + 1, <<>>, from, FALSE)>>, from, dirty)

\* Budget.charge over the chain of nodes.
Fits(s) == \A i \in DOMAIN s : s[i].limit # NoLimit => s[i].spent + Price <= s[i].limit
Charged(s) == [i \in DOMAIN s |-> [s[i] EXCEPT !.spent = @ + Price]]

NoLoop == [body |-> 0, items |-> <<>>, captured |-> <<>>, done |-> <<>>]

\* Arguments of untrusted parameters are marked; a parameter without an argument is nil.
Entered(fn, args) ==
  [x \in ToSet(fn.params) |->
     LET i == CHOOSE j \in DOMAIN fn.params : fn.params[j] = x
     IN IF i \notin DOMAIN args THEN Nil
        ELSE IF x \in fn.untrusted THEN [args[i] EXCEPT !.mark = TRUE, !.from = @ \cup {x}]
        ELSE args[i]]

\* Mutant: a callee holds what it declares.
FrameDeclared(fn, args, caps) ==
  [fn |-> fn, pc |-> 1, st |-> <<>>, caps |-> fn.uses, limit |-> fn.limit,
   slots |-> Entered(fn, args), spent |-> 0, wait |-> "none", loop |-> NoLoop]

\* _call: capabilities are those declared that the frame below holds.
Frame(fn, args, caps) ==
  [fn |-> fn, pc |-> 1, st |-> <<>>, caps |-> fn.uses \cap caps, limit |-> fn.limit,
   slots |-> Entered(fn, args), spent |-> 0, wait |-> "none", loop |-> NoLoop]

Above(fn, args, w, n) ==
  stack' = Append([stack EXCEPT ![Len(stack)] = [Past(Below(n)) EXCEPT !.wait = w]],
                  Frame(fn, args, Top.caps))

Init ==
  /\ prog \in Programs
  /\ table = Load(prog)
  /\ stack = <<Frame(table["main"], <<>>, table["main"].uses)>>
  /\ err = "" /\ acts = <<>> /\ tainted = FALSE /\ result = Nil /\ total = 0

-----------------------------------------------------------------------------
Push ==
  /\ Running
  /\ \/ Here.op = "PUSHK" /\ Become(Past(Append(Top.st, Here.value)))
     \/ Here.op = "LOAD"  /\ Become(Past(Append(Top.st, InSlot(Here.name))))
     \/ Here.op = "DUP"   /\ Become(Past(Append(Top.st, Peek)))
  /\ err' = err /\ Untouched

Store ==
  /\ Running
  /\ \/ Here.op = "STORE" /\ Become([Past(Below(1)) EXCEPT !.slots = Bind(@, Here.name, Peek)])
     \/ Here.op = "POP"   /\ Become(Past(Below(1)))
  /\ err' = err /\ Untouched

Operate ==
  /\ Running /\ Here.op \in {"EQ", "SUB", "NOT", "LIST", "RECORD", "LEN"}
  /\ LET v == CASE Here.op = "LIST"   -> Listed(Popped(Here.n))
               [] Here.op = "RECORD" -> Recorded(Popped(Here.n))
               [] Here.op = "LEN"    -> Measured(Peek)
               [] Here.op = "NOT"    -> Negated(Peek)
               [] OTHER -> Combined(Here.op, Popped(2)[1], Peek)
         n == CASE Here.op \in {"LIST", "RECORD"} -> Here.n
                [] Here.op \in {"LEN", "NOT"} -> 1
                [] OTHER -> 2
     IN Become(Past(Append(Below(n), v)))
  /\ err' = err /\ Untouched

\* INDEX of a list (by zero, on top), FIELD of a record: an element is as tainted as what
\* holds it, and as the index.
HeldIn == IF Here.op = "INDEX" THEN Popped(2)[1] ELSE Peek
Holds  == IF Here.op = "INDEX" THEN HeldIn.kind = "list" /\ 1 \in DOMAIN HeldIn.items
          ELSE HeldIn.kind = "rec" /\ Here.place \in DOMAIN HeldIn.items

Select ==
  /\ Running /\ Here.op \in {"INDEX", "FIELD"} /\ Holds
  /\ IF Here.op = "INDEX"
       THEN Become(Past(Append(Below(2), Part(Part(HeldIn.items[1], HeldIn), Peek))))
       ELSE Become(Past(Append(Below(1), Part(HeldIn.items[Here.place], HeldIn))))
  /\ err' = err /\ Untouched

NothingToSelect ==
  /\ Running /\ Here.op \in {"INDEX", "FIELD"} /\ ~Holds
  /\ err' = "error"
  /\ stack' = stack /\ Untouched

Branch ==
  /\ Running
  /\ \/ Here.op = "JMP" /\ Become([Past(Top.st) EXCEPT !.pc = @ + Here.skip])
     \/ Here.op \in {"JZ", "JNZ"}
        /\ Become([Past(Below(1)) EXCEPT
                    !.pc = IF Truthy(Peek) = (Here.op = "JNZ") THEN @ + Here.skip ELSE @])
  /\ err' = err /\ Untouched

PrintTop ==
  /\ Running /\ Here.op = "PRINT"
  /\ Did("print", Popped(1), FALSE)
  /\ Become(Past(Below(1)))
  /\ err' = err /\ UNCHANGED <<prog, table, tainted, result, total>>

-----------------------------------------------------------------------------
\* Mutant: only what the function itself took in is refused.
RefusesOwn == ~Here.allow /\ Top.st # <<>> /\ Peek.mark /\ Peek.from \cap Top.fn.untrusted # {}

\* REQUIRE takes nothing from the stack and looks at the operand on top of it.
Refuses == ~Here.allow /\ Top.st # <<>> /\ Peek.mark

Permit ==
  /\ Running /\ Here.op = "REQUIRE" /\ Here.cap \in Top.caps /\ ~Refuses
  /\ IF Here.cap = "model" THEN acts' = acts
     ELSE Did(Here.cap, IF Top.st = <<>> THEN <<>> ELSE <<Peek>>, FALSE)
  /\ Become(Past(Top.st))
  /\ err' = err /\ UNCHANGED <<prog, table, tainted, result, total>>

Deny ==
  /\ Running /\ Here.op = "REQUIRE" /\ Here.cap \notin Top.caps
  /\ err' = "capability"
  /\ stack' = stack /\ Untouched

RefuseTainted ==
  /\ Running /\ Here.op = "REQUIRE" /\ Here.cap \in Top.caps /\ Refuses
  /\ err' = "taint" /\ tainted' = TRUE
  /\ UNCHANGED <<prog, table, stack, acts, result, total>>

Generate ==
  /\ Running /\ Here.op = "GEN"
  /\ LET vs == Popped(Here.n)
         v  == Generated(vs)
     IN /\ Did("gen", vs, v.mark)
        /\ IF Fits(stack)
             THEN /\ stack' = [Charged(stack) EXCEPT ![Len(stack)].pc = @ + 1,
                                                    ![Len(stack)].st = Append(Below(Here.n), v)]
                  /\ total' = total + Price /\ err' = err
             ELSE err' = "budget" /\ UNCHANGED <<stack, total>>
  /\ UNCHANGED <<prog, table, tainted, result>>

-----------------------------------------------------------------------------
EnterFunction ==
  /\ Running /\ Here.op = "CALL"
  /\ Above(table[Here.fn], Popped(Here.n), "call", Here.n)
  /\ err' = err /\ Untouched

\* STEP without a journal (Durable has the journal), and TRY.
EnterBody ==
  /\ Running /\ Here.op \in {"STEP", "TRY"}
  /\ Above(Here.body, Popped(Here.n), IF Here.op = "TRY" THEN "try" ELSE "call", Here.n)
  /\ err' = err /\ Untouched

\* The items of a loop, taken out of the bare list.  What is not a list has none, as in
\* Go; Python takes the characters of a string and the keys of a record.
Items(seq) == IF seq.kind = "list"
              THEN [i \in DOMAIN seq.items |-> [seq.items[i] EXCEPT !.from = @ \cup seq.from]]
              ELSE <<>>

\* PARALLEL runs its body on one item after the other.
EnterLoop ==
  /\ Running /\ Here.op = "PARALLEL"
  /\ LET items == Items(Popped(Here.n + 1)[1])
     IN Become([Past(Below(Here.n + 1)) EXCEPT
                  !.wait = "par",
                  !.loop = [body |-> Here.body, items |-> items,
                            captured |-> Popped(Here.n), done |-> <<>>]])
  /\ err' = err /\ Untouched

Iterate ==
  /\ err = "" /\ stack # <<>> /\ Top.wait = "par" /\ Top.loop.items # <<>>
  /\ stack' = Append([stack EXCEPT ![Len(stack)].loop.items = Tail(@)],
                     Frame(Top.loop.body, <<Head(Top.loop.items)>> \o Top.loop.captured,
                           Top.caps))
  /\ err' = err /\ Untouched

LeaveLoop ==
  /\ err = "" /\ stack # <<>> /\ Top.wait = "par" /\ Top.loop.items = <<>>
  /\ Become([Top EXCEPT !.wait = "none", !.st = Append(@, Listed(Top.loop.done))])
  /\ err' = err /\ Untouched

\* What the frame below does with the value.
Resumed(f, v) ==
  CASE f.wait = "call" -> [f EXCEPT !.wait = "none", !.st = Append(@, v)]
    [] f.wait = "try"  -> [f EXCEPT !.wait = "none", !.st = Append(@, Tried(v))]
    [] f.wait = "par"  -> [f EXCEPT !.loop.done = Append(@, v)]

Leave ==
  /\ Running /\ Here.op \in {"RET", "RETNIL"}
  /\ LET v == IF Here.op = "RET" THEN Peek ELSE Nil
         n == Len(stack) - 1
     IN IF n = 0 THEN stack' = <<>> /\ result' = v
        ELSE /\ stack' = [SubSeq(stack, 1, n) EXCEPT ![n] = Resumed(@, v)]
             /\ result' = result
  /\ err' = err /\ UNCHANGED <<prog, table, acts, tainted, total>>

Unwind ==
  /\ err # "" /\ stack # <<>> /\ Top.wait # "try"
  /\ stack' = SubSeq(stack, 1, Len(stack) - 1)
  /\ err' = err /\ Untouched

Catch ==
  /\ err # "" /\ stack # <<>> /\ Top.wait = "try"
  /\ err' = ""
  /\ Become([Top EXCEPT !.wait = "none", !.st = Append(@, Tried(Failure))])
  /\ Untouched

Ended == stack = <<>>
Finished == Ended /\ UNCHANGED vars

Next ==
  \/ Push \/ Store \/ Operate \/ Select \/ NothingToSelect \/ Branch \/ PrintTop
  \/ Permit \/ Deny \/ RefuseTainted \/ Generate
  \/ EnterFunction \/ EnterBody \/ EnterLoop \/ Iterate \/ LeaveLoop
  \/ Leave \/ Unwind \/ Catch \/ Finished

Spec == Init /\ [][Next]_vars

-----------------------------------------------------------------------------
\* No frame holds a capability that some function below it did not declare: a
\* function lends what it has and never more, through try, step and loops too.
AuthorityOnlyShrinks ==
  \A i, j \in DOMAIN stack : i <= j => stack[j].caps \subseteq stack[i].fn.uses

\* What derives from an untrusted parameter of the program, under whatever name it is
\* now, is marked.
Untrusted == UNION {fn.untrusted : fn \in FnsOf(table)}
Covered(v) == Origins(v) \cap Untrusted # {} => v.mark

\* A file without the instructions that work on bare values or build clean containers.
KeepsMarks ==
  \A fn \in FnsOf(table) : \A k \in DOMAIN fn.code :
    fn.code[k].op \notin {"LEN", "LIST", "RECORD", "PARALLEL", "TRY"}

\* Whatever derives from an untrusted parameter is marked, through calls, generations,
\* lifted bodies, operators, fields and variables, in files that keep marks.
MarksFollowData ==
  KeepsMarks =>
    \A i \in DOMAIN stack :
      /\ \A k \in DOMAIN stack[i].st : Covered(stack[i].st[k])
      /\ \A x \in DOMAIN stack[i].slots : Covered(stack[i].slots[x])

\* The rule of docs/HBX.md, that nothing untrusted reaches a capability: REQUIRE lets no
\* operand through that derives from an untrusted parameter, in files that keep marks,
\* checked or not.  It looks at the topmost operand only.
RequireStopsTaint ==
  [][KeepsMarks /\ Permit /\ ~Here.allow /\ Top.st # <<>> =>
       Origins(Peek) \cap Untrusted = {}]_vars
=============================================================================
