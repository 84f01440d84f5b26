------------------------------- MODULE MCArp -------------------------------
(* Model-checking instance of Arp: a cache that is full before every host   *)
(* is in it, so that slots are overwritten while they are looked up.        *)
EXTENDS Arp
=============================================================================
