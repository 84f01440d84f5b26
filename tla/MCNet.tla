------------------------------- MODULE MCNet -------------------------------
(* Model-checking instance of Net: two commands, so that a second one meets *)
(* what is left of the first, with two pings each at most.                  *)
EXTENDS Net
=============================================================================
