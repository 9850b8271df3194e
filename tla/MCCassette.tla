---------------------------- MODULE MCCassette ------------------------------
(***************************************************************************)
(* Two iterations that ask the same first; the second input carries an     *)
(* instruction outside the fence.                                          *)
(***************************************************************************)
EXTENDS Cassette

SharedRequest == [w \in Worker |-> IF w = 1 THEN <<"a", "b">> ELSE <<"a">>]
=============================================================================
