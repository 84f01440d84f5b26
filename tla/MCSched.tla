------------------------------ MODULE MCSched ------------------------------
(* Model-checking instance of Sched: two threads that live as long as the  *)
(* kernel, and two structs that threads come and go in.                    *)
EXTENDS Sched
=============================================================================
