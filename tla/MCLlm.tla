------------------------------- MODULE MCLlm -------------------------------
(* Model-checking instance of Llm: the two models of the ISO and a name     *)
(* that is not there, and two slots, as in llm.c.                           *)
EXTENDS Llm
=============================================================================
