----------------------------- MODULE Allocator -----------------------------
(***************************************************************************)
(* What malloc and free promise their callers: every allocation is a range *)
(* of bytes of the arena that is disjoint from every other one until it is *)
(* released, wherever the allocator decides to put it.                     *)
(***************************************************************************)
EXTENDS Naturals

CONSTANT Size   \* length of the arena in bytes

VARIABLE live   \* the allocations: records [base, len]

Regions == {r \in [base : 0..Size, len : 1..Size] : r.base + r.len <= Size}

Disjoint(r, s) == r.base + r.len <= s.base \/ s.base + s.len <= r.base

Init == live = {}

Allocate(r) ==
  /\ \A s \in live : Disjoint(r, s)
  /\ live' = live \cup {r}

Release(r) ==
  /\ r \in live
  /\ live' = live \ {r}

Next == \E r \in Regions : Allocate(r) \/ Release(r)

Spec == Init /\ [][Next]_live
=============================================================================
