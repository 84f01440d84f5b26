------------------------------- MODULE MCChat -------------------------------
(* Model-checking instance of Chat: two channels; two thread structs, so    *)
(* that a second worker could exist.                                        *)
EXTENDS Chat
=============================================================================
