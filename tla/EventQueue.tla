----------------------------- MODULE EventQueue -----------------------------
(***************************************************************************)
(* What the keyboard driver promises the shell and the programs, and the   *)
(* receive ring of the network card the network stack: events arrive in    *)
(* the order they were made, once each, and a flush removes those that     *)
(* were waiting when it began and no later one.                            *)
(***************************************************************************)
EXTENDS Naturals, Sequences

CONSTANTS Capacity,
          NoEvent

VARIABLES pending,   \* events waiting to be polled
          got,       \* the last event polled
          doomed     \* how many of pending the flush in progress removes

vars == <<pending, got, doomed>>

Init == pending = <<>> /\ got = NoEvent /\ doomed = 0

Put ==
  /\ Len(pending) < Capacity
  /\ Len(pending') = Len(pending) + 1
  /\ SubSeq(pending', 1, Len(pending)) = pending
  /\ UNCHANGED <<got, doomed>>

Get ==
  /\ pending # <<>>
  /\ doomed = 0
  /\ got' = Head(pending)
  /\ pending' = Tail(pending)
  /\ UNCHANGED doomed

FlushBegin ==
  /\ doomed' = Len(pending)
  /\ got' \in {got, NoEvent}
  /\ UNCHANGED pending

FlushEnd ==
  /\ pending' = SubSeq(pending, doomed + 1, Len(pending))
  /\ doomed' = 0
  /\ UNCHANGED got

\* The last event polled has been used.
Use ==
  /\ got' = NoEvent
  /\ UNCHANGED <<pending, doomed>>

Next == Put \/ Get \/ Use \/ FlushBegin \/ FlushEnd

Spec == Init /\ [][Next]_vars
=============================================================================
