----------------------------- MODULE MCGenerate -----------------------------
(***************************************************************************)
(* The two models of humbaba/model.py, at prices that tell them apart.     *)
(***************************************************************************)
EXTENDS Generate

TwoPrices == [m \in Model |-> IF m = Primary THEN 3 ELSE 1]
=============================================================================
