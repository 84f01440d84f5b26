------------------------------ MODULE MCE1000 ------------------------------
(* Model-checking instance of E1000: rings so small that they fill and wrap. *)
EXTENDS E1000
=============================================================================
