----------------------------- MODULE MCDurable ------------------------------
(***************************************************************************)
(* Durable functions for TLC.                                              *)
(***************************************************************************)
EXTENDS Durable

Plain(label, gens) ==
  [label |-> label, gens |-> gens, own |-> FALSE, returns |-> FALSE]

\* Three steps with labels of their own, as in examples/07_durable.hb.
ThreeSteps == <<Plain("one", 1), Plain("two", 2), Plain("three", 1)>>

\* The second step returns: control does not reach the third.
ReturningSecond ==
  <<Plain("one", 1), [Plain("two", 1) EXCEPT !.returns = TRUE], Plain("three", 1)>>

\* The first label comes again after another step.
LabelAgain == <<Plain("one", 1), Plain("two", 1), Plain("one", 1)>>

\* The second step is in a helper function that has a budget of its own.
InHelper == <<Plain("one", 1), [Plain("two", 1) EXCEPT !.own = TRUE]>>

AllPrograms == {ThreeSteps, ReturningSecond, LabelAgain, InHelper}
OnlyThreeSteps == {ThreeSteps}
=============================================================================
