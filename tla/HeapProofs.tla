----------------------------- MODULE HeapProofs -----------------------------
(***************************************************************************)
(* Theorems about the heap, for every arena, header size, alignment and    *)
(* set of threads.  The inductive invariant IInv adds to the properties of *)
(* Heap where every call stands: who holds the lock, which block the call  *)
(* works on, and which single pair of neighbours may be free meanwhile.    *)
(***************************************************************************)
EXTENDS Heap, FiniteSetTheorems, WellFoundedInduction, TLAPS

Locked == {"search", "split", "take", "mark", "next", "prev"}

\* Exactly the actor that turned interrupts off is inside a critical section.
LockInv == \A a \in Actors : pc[a] \in Locked <=> lock = a

\* What a call knows of the block it is working on.
CallInv ==
  \A a \in Actors :
    /\ pc[a] = "idle" => at[a] = NULL
    /\ pc[a] # "idle" => at[a] \in blocks
    /\ pc[a] \in {"idle", "mark", "next", "prev"} => old[a] = NULL
    /\ pc[a] = "copy" => old[a] # NULL /\ old[a] # at[a]
    /\ pc[a] \in {"search", "split", "take"} =>
         /\ req[a] >= 1
         /\ old[a] # NULL => size[old[a]] < req[a]
         /\ \A b \in blocks : b < at[a] => ~Fits(b, req[a])
    /\ pc[a] \in {"split", "take"} => Fits(at[a], req[a])
    /\ pc[a] = "split" => WorthSplitting(at[a], req[a])
    /\ pc[a] = "take" => ~WorthSplitting(at[a], req[a])
    /\ pc[a] \in {"next", "prev"} => free[at[a]]

\* Two neighbours are free only while the lock holder splits or merges them.
FreePairs ==
  \A b \in blocks :
    next[b] # NULL /\ free[b] /\ free[next[b]] =>
      \E a \in Actors :
        \/ pc[a] = "take" /\ at[a] = b
        \/ pc[a] = "next" /\ (at[a] = b \/ at[a] = next[b])
        \/ pc[a] = "prev" /\ at[a] = next[b]

IInv == /\ TypeOK
        /\ Tiling
        /\ LockInv
        /\ CallInv
        /\ FreePairs
        /\ Ownership
        /\ RightSize

-----------------------------------------------------------------------------
(* Sizes and the list.                                                     *)

\* A request is rounded up to at least its own size.
LEMMA RoundUpBounds ==
  ASSUME NEW n \in Nat
  PROVE  RoundUp(n) \in Nat /\ RoundUp(n) >= n
<1>1. n % ALIGNMENT \in 0..(ALIGNMENT - 1)
  BY SizesAssumption
<1>2. QED
  BY <1>1, SizesAssumption DEF RoundUp

\* The list variables at one block.
LEMMA BlockTypes ==
  ASSUME TypeOK, Tiling, NEW b \in blocks
  PROVE  /\ b \in Nat /\ b < Size /\ size[b] \in Nat /\ free[b] \in BOOLEAN
         /\ End(b) \in Nat /\ b < End(b) /\ End(b) <= Size
         /\ next[b] = NULL <=> End(b) = Size
         /\ next[b] # NULL => next[b] = End(b) /\ next[b] \in blocks
<1>1. b \in Addr /\ size[b] \in 0..Size /\ next[b] \in Addr \cup {NULL} /\ free[b] \in BOOLEAN
  BY DEF TypeOK
<1>2. b \in Nat /\ b < Size /\ size[b] \in Nat /\ End(b) \in Nat /\ b < End(b)
  BY <1>1, SizesAssumption DEF Addr, End
<1>3. next[b] = IF End(b) = Size THEN NULL ELSE End(b)
  BY DEF Tiling
<1>4. next[b] # NULL => next[b] \in blocks /\ next[b] \in Addr
  BY <1>1 DEF Tiling
<1>5. next[b] = NULL <=> End(b) = Size
  BY <1>2, <1>3, NamesAssumption
<1>6. End(b) <= Size
  BY <1>2, <1>3, <1>4, <1>5, SizesAssumption DEF Addr
<1>7. QED
  BY <1>1, <1>2, <1>3, <1>4, <1>5, <1>6

\* End in the next state.
EndNext(b) == b + HDR_SIZE + size'[b]

\* What Split does to the list.
LEMMA SplitEffect ==
  ASSUME IInv, NEW a \in Actors, Split(a)
  PROVE  LET b == at[a]
             s == b + HDR_SIZE + req[a]
         IN /\ b \in blocks /\ s \in Addr \ blocks /\ s < End(b) /\ b < s
            /\ req[a] \in Nat
            /\ blocks' = blocks \cup {s}
            /\ size' \in [Addr -> 0..Size] /\ size'[b] = req[a]
            /\ size'[s] = size[b] - req[a] - HDR_SIZE
            /\ \A c \in Addr \ {b, s} : size'[c] = size[c]
            /\ free' \in [Addr -> BOOLEAN] /\ free'[s] = TRUE
            /\ \A c \in Addr \ {s} : free'[c] = free[c]
            /\ next' \in [Addr -> Addr \cup {NULL}]
            /\ next'[b] = s /\ next'[s] = next[b]
            /\ \A c \in Addr \ {b, s} : next'[c] = next[c]
            /\ prev' \in [Addr -> Addr \cup {NULL}]
            /\ prev'[s] = b
            /\ next[b] # NULL => prev'[next[b]] = s
            /\ \A c \in Addr \ {s, next[b]} : prev'[c] = prev[c]
<1> DEFINE b == at[a]
           s == b + HDR_SIZE + req[a]
<1>1. b \in blocks /\ WorthSplitting(b, req[a]) /\ Fits(b, req[a])
  BY DEF IInv, CallInv, Split, Holding
<1>2. req[a] \in Nat /\ b \in Addr /\ size[b] \in 0..Size
  BY <1>1 DEF IInv, TypeOK
<1>3. /\ b \in Nat /\ End(b) \in Nat /\ End(b) <= Size
      /\ next[b] # NULL => next[b] = End(b)
  BY <1>1, BlockTypes DEF IInv
<1>4. s \in Addr /\ s < End(b) /\ b < s
  BY <1>1, <1>2, <1>3, SizesAssumption DEF WorthSplitting, Addr, End
<1>5. s \notin blocks
  <2>1. SUFFICES ASSUME s \in blocks
                 PROVE  FALSE
    OBVIOUS
  <2>2. End(b) <= s
    BY <1>1, <1>4, <2>1 DEF IInv, Tiling
  <2>3. QED
    BY <1>2, <1>3, <1>4, <2>2 DEF Addr
<1>6. /\ size' = [size EXCEPT ![s] = size[b] - req[a] - HDR_SIZE, ![b] = req[a]]
      /\ free' = [free EXCEPT ![s] = TRUE]
      /\ next' = [next EXCEPT ![s] = next[b], ![b] = s]
      /\ prev' = [x \in Addr |-> CASE x = s -> b
                                   [] x = next[b] -> s
                                   [] OTHER -> prev[x]]
      /\ blocks' = blocks \cup {s}
  BY DEF Split
<1>7. size[b] - req[a] - HDR_SIZE \in 0..Size /\ req[a] \in 0..Size
  BY <1>1, <1>2, SizesAssumption DEF WorthSplitting
<1>8. s # b /\ s # next[b]
  BY <1>1, <1>2, <1>3, <1>4, NamesAssumption DEF Addr
<1>9. size \in [Addr -> 0..Size] /\ free \in [Addr -> BOOLEAN]
      /\ next \in [Addr -> Addr \cup {NULL}] /\ prev \in [Addr -> Addr \cup {NULL}]
  BY DEF IInv, TypeOK
<1>10. /\ size' \in [Addr -> 0..Size] /\ size'[b] = req[a]
       /\ size'[s] = size[b] - req[a] - HDR_SIZE
       /\ \A c \in Addr \ {b, s} : size'[c] = size[c]
  BY <1>2, <1>4, <1>6, <1>7, <1>8, <1>9
<1>11. /\ free' \in [Addr -> BOOLEAN] /\ free'[s] = TRUE
       /\ \A c \in Addr \ {s} : free'[c] = free[c]
  BY <1>4, <1>6, <1>9
<1>12. /\ next' \in [Addr -> Addr \cup {NULL}]
       /\ next'[b] = s /\ next'[s] = next[b]
       /\ \A c \in Addr \ {b, s} : next'[c] = next[c]
  BY <1>2, <1>4, <1>6, <1>8, <1>9
<1>13. /\ prev' \in [Addr -> Addr \cup {NULL}]
       /\ prev'[s] = b
       /\ next[b] # NULL => prev'[next[b]] = s
       /\ \A c \in Addr \ {s, next[b]} : prev'[c] = prev[c]
  BY <1>2, <1>4, <1>6, <1>8, <1>9
<1>14. QED
  BY <1>1, <1>2, <1>4, <1>5, <1>6, <1>10, <1>11, <1>12, <1>13

\* Coalesce merges b with the free block behind it.
Merges(b) == next[b] # NULL /\ free[next[b]] /\ free[b]

LEMMA CoalesceEffect ==
  ASSUME TypeOK, Tiling, NEW b \in blocks, Coalesce(b), Merges(b)
  PROVE  LET n == next[b]
         IN /\ n \in blocks /\ n = End(b) /\ n # b
            /\ blocks' = blocks \ {n}
            /\ size' \in [Addr -> 0..Size]
            /\ size'[b] = size[b] + HDR_SIZE + size[n]
            /\ \A c \in Addr \ {b, n} : size'[c] = size[c]
            /\ free' = free
            /\ next' \in [Addr -> Addr \cup {NULL}]
            /\ next'[b] = next[n] /\ next[n] # b /\ next[n] # n
            /\ \A c \in Addr \ {b, n} : next'[c] = next[c]
            /\ prev' \in [Addr -> Addr \cup {NULL}]
            /\ next[n] # NULL => prev'[next[n]] = b
            /\ \A c \in Addr \ {n, next[n]} : prev'[c] = prev[c]
<1> DEFINE n == next[b]
<1>1. n \in blocks /\ n = End(b) /\ b \in Nat /\ n \in Nat /\ b < n /\ size[b] \in Nat
  BY BlockTypes DEF Merges
<1>2. /\ size[n] \in Nat /\ End(n) \in Nat /\ n < End(n) /\ End(n) <= Size
      /\ next[n] # NULL => next[n] = End(n) /\ next[n] \in blocks
  BY <1>1, BlockTypes
<1>3. b \in Addr /\ n \in Addr
  BY <1>1 DEF TypeOK
<1>4. /\ size' = [size EXCEPT ![b] = size[b] + HDR_SIZE + size[n], ![n] = 0]
      /\ next' = [next EXCEPT ![b] = next[n], ![n] = NULL]
      /\ prev' = [x \in Addr |-> CASE x = n -> NULL
                                   [] x = next[n] -> b
                                   [] OTHER -> prev[x]]
      /\ blocks' = blocks \ {n}
      /\ free' = free
  BY DEF Coalesce, Merges
<1>5. size[b] + HDR_SIZE + size[n] \in 0..Size
  BY <1>1, <1>2, SizesAssumption DEF End
<1>6. next[n] # b /\ next[n] # n
  BY <1>1, <1>2, NamesAssumption
<1>7. size \in [Addr -> 0..Size] /\ next \in [Addr -> Addr \cup {NULL}]
      /\ prev \in [Addr -> Addr \cup {NULL}] /\ 0 \in 0..Size
  BY SizesAssumption DEF TypeOK
<1>8. /\ size' \in [Addr -> 0..Size]
      /\ size'[b] = size[b] + HDR_SIZE + size[n]
      /\ \A c \in Addr \ {b, n} : size'[c] = size[c]
  BY <1>1, <1>3, <1>4, <1>5, <1>7
<1>9. /\ next' \in [Addr -> Addr \cup {NULL}]
      /\ next'[b] = next[n]
      /\ \A c \in Addr \ {b, n} : next'[c] = next[c]
  BY <1>1, <1>3, <1>4, <1>7
<1>10. /\ prev' \in [Addr -> Addr \cup {NULL}]
       /\ next[n] # NULL => prev'[next[n]] = b
       /\ \A c \in Addr \ {n, next[n]} : prev'[c] = prev[c]
  BY <1>3, <1>4, <1>6, <1>7
<1>11. QED
  BY <1>1, <1>4, <1>6, <1>8, <1>9, <1>10

\* Splitting keeps the tiling.
LEMMA SplitTiling ==
  ASSUME IInv, NEW a \in Actors, Split(a)
  PROVE  Tiling'
<1>0. PICK b, s : b = at[a] /\ s = at[a] + HDR_SIZE + req[a]
  OBVIOUS
<1>1. /\ b \in blocks /\ s \in Addr \ blocks /\ s < End(b) /\ b < s
      /\ req[a] \in Nat
      /\ blocks' = blocks \cup {s}
      /\ size'[b] = req[a] /\ size'[s] = size[b] - req[a] - HDR_SIZE
      /\ \A c \in Addr \ {b, s} : size'[c] = size[c]
      /\ next'[b] = s /\ next'[s] = next[b]
      /\ \A c \in Addr \ {b, s} : next'[c] = next[c]
      /\ prev'[s] = b
      /\ next[b] # NULL => prev'[next[b]] = s
      /\ \A c \in Addr \ {s, next[b]} : prev'[c] = prev[c]
  BY <1>0, SplitEffect
<1>2. blocks \subseteq Addr /\ \A c \in Addr : c \in Nat /\ c < Size
  BY SizesAssumption DEF IInv, TypeOK, Addr
<1>3. TypeOK /\ Tiling
  BY DEF IInv
<1>4. /\ b \in Nat /\ s \in Nat /\ size[b] \in Nat /\ s < Size
      /\ EndNext(b) = s /\ EndNext(s) = End(b) /\ End(b) \in Nat
  <2>1. b \in Nat /\ s \in Nat /\ size[b] \in Nat /\ s < Size /\ End(b) \in Nat
    BY <1>1, <1>2, <1>3, BlockTypes
  <2>2. QED
    BY <1>0, <1>1, <2>1, SizesAssumption DEF End, EndNext
<1>5. \A c \in blocks \ {b} : EndNext(c) = End(c) /\ next'[c] = next[c]
  BY <1>1, <1>2 DEF End, EndNext
<1>6. \A c \in blocks : c # next[b] => prev'[c] = prev[c]
  BY <1>1, <1>2
<1>7. 0 \in blocks' /\ prev'[0] = NULL
  <2>1. 0 \in blocks /\ prev[0] = NULL
    BY <1>3 DEF Tiling
  <2>2. next[b] # 0
    BY <1>1, <1>3, <1>4, BlockTypes, NamesAssumption
  <2>3. QED
    BY <1>1, <1>6, <2>1, <2>2
<1>8. ASSUME NEW c \in blocks'
      PROVE  /\ next'[c] = IF EndNext(c) = Size THEN NULL ELSE EndNext(c)
             /\ next'[c] # NULL => next'[c] \in blocks' /\ prev'[next'[c]] = c
             /\ c # 0 => prev'[c] \in blocks' /\ next'[prev'[c]] = c
  <2>1. CASE c = s
    BY <1>1, <1>3, <1>4, <2>1 DEF Tiling
  <2>2. CASE c = b
    <3>1. next'[c] = EndNext(c) /\ EndNext(c) # Size /\ next'[c] \in blocks' /\ prev'[next'[c]] = c
      BY <1>1, <1>4, <2>2
    <3>2. c # 0 => prev[c] \in blocks /\ next[prev[c]] = c /\ prev[c] # b /\ c # next[b]
      BY <1>1, <1>3, <1>4, <2>2, BlockTypes, NamesAssumption DEF Tiling
    <3>3. c # 0 => prev'[c] \in blocks' /\ next'[prev'[c]] = c
      BY <1>1, <1>5, <1>6, <2>2, <3>2
    <3>4. QED
      BY <3>1, <3>3
  <2>3. CASE c # s /\ c # b
    <3>1. c \in blocks /\ next'[c] = next[c] /\ EndNext(c) = End(c)
      BY <1>1, <1>5, <2>3
    <3>2. next[c] # NULL => next[c] \in blocks /\ prev[next[c]] = c /\ next[c] # next[b]
      BY <1>1, <1>3, <2>3, <3>1 DEF Tiling
    <3>3. next'[c] # NULL => next'[c] \in blocks' /\ prev'[next'[c]] = c
      BY <1>1, <1>6, <3>1, <3>2
    <3>4. CASE c = next[b]
      <4>1. next[b] # NULL
        BY <1>2, <1>3, <3>1, <3>4, NamesAssumption DEF IInv, TypeOK
      <4>2. QED
        BY <1>1, <1>3, <1>4, <2>3, <3>1, <3>3, <3>4, <4>1 DEF Tiling
    <3>5. CASE c # next[b]
      <4>1. c # 0 => prev[c] \in blocks /\ next[prev[c]] = c /\ prev[c] # b /\ prev'[c] = prev[c]
        BY <1>3, <1>6, <3>1, <3>5 DEF Tiling
      <4>2. c # 0 => prev'[c] \in blocks' /\ next'[prev'[c]] = c
        BY <1>1, <1>5, <4>1
      <4>3. QED
        BY <1>3, <3>1, <3>3, <4>2 DEF Tiling
    <3>6. QED
      BY <3>4, <3>5
  <2>4. QED
    BY <2>1, <2>2, <2>3
<1>9. ASSUME NEW c \in blocks', NEW d \in blocks', c < d
      PROVE  EndNext(c) <= d
  <2>1. \A x, y \in blocks : x < y => End(x) <= y
    BY <1>3 DEF Tiling
  <2>2. \A x \in blocks : x \in Nat /\ End(x) \in Nat /\ x < End(x)
    BY <1>3, BlockTypes
  <2>3. CASE c = s
    BY <1>1, <1>4, <1>9, <2>1, <2>2, <2>3
  <2>4. CASE c = b
    BY <1>1, <1>4, <1>9, <2>1, <2>2, <2>4
  <2>5. CASE c # s /\ c # b
    <3>1. c \in blocks /\ EndNext(c) = End(c)
      BY <1>1, <1>5, <2>5
    <3>2. CASE d = s
      BY <1>1, <1>4, <1>9, <2>1, <2>2, <2>5, <3>1, <3>2
    <3>3. CASE d # s
      BY <1>1, <1>9, <2>1, <3>1, <3>3
    <3>4. QED
      BY <3>2, <3>3
  <2>6. QED
    BY <2>3, <2>4, <2>5
<1>10. QED
  BY <1>7, <1>8, <1>9 DEF Tiling, End, EndNext

\* So does merging.
LEMMA CoalesceTiling ==
  ASSUME TypeOK, Tiling, NEW b \in blocks, Coalesce(b), Merges(b)
  PROVE  Tiling'
<1>0. PICK n : n = next[b]
  OBVIOUS
<1>1. /\ n \in blocks /\ n = End(b) /\ n # b
      /\ blocks' = blocks \ {n}
      /\ size'[b] = size[b] + HDR_SIZE + size[n]
      /\ \A c \in Addr \ {b, n} : size'[c] = size[c]
      /\ next'[b] = next[n] /\ next[n] # b /\ next[n] # n
      /\ \A c \in Addr \ {b, n} : next'[c] = next[c]
      /\ next[n] # NULL => prev'[next[n]] = b
      /\ \A c \in Addr \ {n, next[n]} : prev'[c] = prev[c]
  BY <1>0, CoalesceEffect
<1>2. blocks \subseteq Addr /\ \A c \in Addr : c \in Nat /\ c < Size
  BY SizesAssumption DEF TypeOK, Addr
<1>3. /\ b \in Nat /\ n \in Nat /\ size[b] \in Nat /\ size[n] \in Nat
      /\ End(n) \in Nat /\ b < n /\ n < End(n)
      /\ next[n] # NULL => next[n] = End(n) /\ next[n] \in blocks
      /\ n # NULL /\ prev[n] = b
  <2>1. b \in Nat /\ size[b] \in Nat /\ b < n /\ n \in Nat
    BY <1>1, BlockTypes
  <2>2. /\ size[n] \in Nat /\ End(n) \in Nat /\ n < End(n)
        /\ next[n] # NULL => next[n] = End(n) /\ next[n] \in blocks
    BY <1>1, BlockTypes
  <2>3. n # NULL /\ prev[n] = b
    BY <1>0, <2>1, NamesAssumption DEF Tiling
  <2>4. QED
    BY <2>1, <2>2, <2>3
<1>4. EndNext(b) = End(n)
  BY <1>1, <1>3, SizesAssumption DEF End, EndNext
<1>5. \A c \in blocks \ {b, n} : EndNext(c) = End(c) /\ next'[c] = next[c]
  BY <1>1, <1>2 DEF End, EndNext
<1>6. \A c \in blocks \ {n, next[n]} : prev'[c] = prev[c]
  BY <1>1, <1>2
<1>7. \A c \in blocks : next[c] = n => c = b
  BY <1>0, <1>1, <1>3 DEF Tiling
<1>8. 0 \in blocks' /\ prev'[0] = NULL
  <2>1. 0 \in blocks /\ prev[0] = NULL
    BY DEF Tiling
  <2>2. next[n] # 0 /\ n # 0
    BY <1>1, <1>3, NamesAssumption
  <2>3. QED
    BY <1>1, <1>6, <2>1, <2>2
<1>9. ASSUME NEW c \in blocks'
      PROVE  /\ next'[c] = IF EndNext(c) = Size THEN NULL ELSE EndNext(c)
             /\ next'[c] # NULL => next'[c] \in blocks' /\ prev'[next'[c]] = c
             /\ c # 0 => prev'[c] \in blocks' /\ next'[prev'[c]] = c
  <2>1. c \in blocks /\ c # n
    BY <1>1
  <2>2. CASE c = b
    <3>1. next'[c] = IF EndNext(c) = Size THEN NULL ELSE EndNext(c)
      BY <1>1, <1>4, <2>2 DEF Tiling
    <3>2. next'[c] # NULL => next'[c] \in blocks' /\ prev'[next'[c]] = c
      BY <1>1, <1>3, <2>2
    <3>3. c # 0 => prev[c] \in blocks /\ next[prev[c]] = c /\ prev[c] # n /\ prev[c] # b
      BY <1>1, <1>3, <2>1, <2>2 DEF Tiling
    <3>4. c # next[n]
      BY <1>1, <2>2
    <3>5. c # 0 => prev'[c] \in blocks' /\ next'[prev'[c]] = c
      BY <1>1, <1>5, <1>6, <2>1, <3>3, <3>4
    <3>6. QED
      BY <3>1, <3>2, <3>5
  <2>3. CASE c # b
    <3>1. next'[c] = next[c] /\ EndNext(c) = End(c)
      BY <1>5, <2>1, <2>3
    <3>2. next[c] # NULL => /\ next[c] \in blocks /\ next[c] # n
                            /\ prev[next[c]] = c /\ next[c] # next[n]
      BY <1>1, <1>7, <2>1, <2>3 DEF Tiling
    <3>3. next'[c] # NULL => next'[c] \in blocks' /\ prev'[next'[c]] = c
      BY <1>1, <1>6, <3>1, <3>2
    <3>4. c # 0 => prev'[c] \in blocks' /\ next'[prev'[c]] = c
      <4>1. CASE c = next[n]
        BY <1>1, <1>2, <1>3, <2>1, <4>1, NamesAssumption
      <4>2. CASE c # next[n]
        <5>1. c # 0 => prev[c] \in blocks /\ next[prev[c]] = c /\ prev'[c] = prev[c]
          BY <1>6, <2>1, <4>2 DEF Tiling
        <5>2. c # 0 => prev[c] # b /\ prev[c] # n
          BY <1>0, <2>1, <4>2, <5>1
        <5>3. QED
          BY <1>1, <1>5, <5>1, <5>2
      <4>3. QED
        BY <4>1, <4>2
    <3>5. QED
      BY <2>1, <3>1, <3>3, <3>4 DEF Tiling
  <2>4. QED
    BY <2>2, <2>3
<1>10. ASSUME NEW c \in blocks', NEW d \in blocks', c < d
       PROVE  EndNext(c) <= d
  <2>1. \A x, y \in blocks : x < y => End(x) <= y
    BY DEF Tiling
  <2>2. c \in blocks /\ d \in blocks /\ c # n /\ d # n
    BY <1>1
  <2>3. CASE c = b
    BY <1>1, <1>3, <1>4, <1>10, <2>1, <2>2, <2>3
  <2>4. CASE c # b
    BY <1>5, <1>10, <2>1, <2>2, <2>4
  <2>5. QED
    BY <2>3, <2>4
<1>11. QED
  BY <1>8, <1>9, <1>10 DEF Tiling, End, EndNext

\* The constants in the invariant.
LEMMA Bounds ==
  /\ 0 \in Addr /\ NULL \notin Addr /\ NULL \notin Actors
  /\ \A b \in Addr : b \in Nat /\ b < Size
  /\ \A n \in 1..MaxRequest : RoundUp(n) \in Nat /\ RoundUp(n) >= n /\ RoundUp(n) >= 1
<1>1. ASSUME NEW n \in 1..MaxRequest
      PROVE  RoundUp(n) \in Nat /\ RoundUp(n) >= n /\ RoundUp(n) >= 1
  BY RoundUpBounds, SizesAssumption
<1>2. QED
  BY <1>1, SizesAssumption, NamesAssumption DEF Addr, Actors

-----------------------------------------------------------------------------
(* Every action preserves the invariant.                                   *)

LEMMA InitInv == Init => IInv
<1> SUFFICES ASSUME Init
             PROVE  IInv
  OBVIOUS
<1>0. 0 \in Addr /\ NULL \notin Addr
  BY SizesAssumption, NamesAssumption DEF Addr
<1>1. TypeOK
  BY <1>0, SizesAssumption DEF Init, TypeOK, Labels
<1>2. Tiling
  BY <1>0, SizesAssumption, NamesAssumption DEF Init, Tiling, End
<1>3. LockInv
  BY NamesAssumption DEF Init, LockInv, Locked, Actors
<1>4. CallInv
  BY DEF Init, CallInv
<1>5. FreePairs
  BY <1>0 DEF Init, FreePairs
<1>6. Ownership
  BY <1>0 DEF Init, Ownership, Live
<1>7. RightSize
  BY <1>0 DEF Init, RightSize, Live
<1>8. QED
  BY <1>1, <1>2, <1>3, <1>4, <1>5, <1>6, <1>7 DEF IInv

LEMMA MallocCallInv ==
  ASSUME IInv, NEW a \in Threads, NEW n \in 1..MaxRequest, MallocCall(a, n)
  PROVE  IInv'
<1>1. TypeOK'
  BY Bounds DEF IInv, TypeOK, MallocCall, Interruptible, Lock, list, Labels, Actors
<1>2. Tiling'
  BY DEF IInv, Tiling, End, MallocCall, list
<1>3. LockInv'
  BY NamesAssumption DEF IInv, TypeOK, LockInv, Locked, MallocCall, Interruptible, Lock, Actors
<1>4. CallInv'
  BY Bounds, NamesAssumption DEF IInv, TypeOK, Tiling, LockInv, Locked, CallInv, Ownership, Live, MallocCall, Interruptible, Lock, list, Fits, WorthSplitting, Actors
<1>5. FreePairs'
  BY NamesAssumption DEF IInv, TypeOK, LockInv, Locked, CallInv, FreePairs, Ownership, Live, MallocCall, Interruptible, Lock, list, Actors
<1>6. Ownership'
  BY NamesAssumption DEF IInv, TypeOK, LockInv, Locked, CallInv, Ownership, Live, MallocCall, Interruptible, Lock, list, Actors
<1>7. RightSize'
  BY NamesAssumption DEF IInv, TypeOK, LockInv, Locked, CallInv, Ownership, RightSize, Live, MallocCall, Interruptible, Lock, list, WorthSplitting, Actors
<1>8. QED
  BY <1>1, <1>2, <1>3, <1>4, <1>5, <1>6, <1>7 DEF IInv

LEMMA ReallocCallInv ==
  ASSUME IInv, NEW a \in Threads, NEW b \in Addr, NEW n \in 1..MaxRequest, ReallocCall(a, b, n)
  PROVE  IInv'
<1>1. TypeOK'
  BY Bounds DEF IInv, TypeOK, ReallocCall, Interruptible, Lock, list, Labels, Actors
<1>2. Tiling'
  BY DEF IInv, Tiling, End, ReallocCall, list
<1>3. LockInv'
  BY NamesAssumption DEF IInv, TypeOK, LockInv, Locked, ReallocCall, Interruptible, Lock, Actors
<1>4. CallInv'
  BY Bounds, NamesAssumption DEF IInv, TypeOK, Tiling, LockInv, Locked, CallInv, Ownership, Live, ReallocCall, Interruptible, Lock, list, Fits, WorthSplitting, Actors
<1>5. FreePairs'
  BY NamesAssumption DEF IInv, TypeOK, LockInv, Locked, CallInv, FreePairs, Ownership, Live, ReallocCall, Interruptible, Lock, list, Actors
<1>6. Ownership'
  BY NamesAssumption DEF IInv, TypeOK, LockInv, Locked, CallInv, Ownership, Live, ReallocCall, Interruptible, Lock, list, Actors
<1>7. RightSize'
  BY NamesAssumption DEF IInv, TypeOK, LockInv, Locked, CallInv, Ownership, RightSize, Live, ReallocCall, Interruptible, Lock, list, WorthSplitting, Actors
<1>8. QED
  BY <1>1, <1>2, <1>3, <1>4, <1>5, <1>6, <1>7 DEF IInv

LEMMA NextBlockInv ==
  ASSUME IInv, NEW a \in Actors, NextBlock(a)
  PROVE  IInv'
<1>0. at[a] \in blocks /\ next[at[a]] \in blocks /\ next[at[a]] = End(at[a])
      /\ \A b \in blocks : b < next[at[a]] => ~Fits(b, req[a])
  <2>1. /\ at[a] \in blocks /\ ~Fits(at[a], req[a]) /\ next[at[a]] # NULL
        /\ \A b \in blocks : b < at[a] => ~Fits(b, req[a])
    BY DEF IInv, CallInv, NextBlock, Holding
  <2>2. at[a] \in Nat /\ End(at[a]) \in Nat /\ next[at[a]] = End(at[a]) /\ next[at[a]] \in blocks
    BY <2>1, BlockTypes DEF IInv
  <2>3. \A b \in blocks : b \in Nat /\ (at[a] < b => End(at[a]) <= b)
    BY <2>1, Bounds DEF IInv, TypeOK, Tiling
  <2>4. QED
    BY <2>1, <2>2, <2>3
<1>1. TypeOK'
  BY <1>0, Bounds DEF IInv, TypeOK, NextBlock, Holding, list, Labels, Actors
<1>2. Tiling'
  BY DEF IInv, Tiling, End, NextBlock, list
<1>3. LockInv'
  BY NamesAssumption DEF IInv, TypeOK, LockInv, Locked, NextBlock, Holding, Actors
<1>4. CallInv'
  BY <1>0, NamesAssumption DEF IInv, TypeOK, LockInv, Locked, CallInv, NextBlock, Holding,
       list, Fits, WorthSplitting, Actors
<1>5. FreePairs'
  BY NamesAssumption DEF IInv, TypeOK, LockInv, Locked, CallInv, FreePairs, Ownership, Live, NextBlock, Holding, list, Actors
<1>6. Ownership'
  BY NamesAssumption DEF IInv, TypeOK, LockInv, Locked, CallInv, Ownership, Live, NextBlock, Holding, list, Actors
<1>7. RightSize'
  BY NamesAssumption DEF IInv, TypeOK, LockInv, Locked, CallInv, Ownership, RightSize, Live, NextBlock, Holding, list, WorthSplitting, Actors
<1>8. QED
  BY <1>1, <1>2, <1>3, <1>4, <1>5, <1>6, <1>7 DEF IInv

LEMMA OutOfMemoryInv ==
  ASSUME IInv, NEW a \in Actors, OutOfMemory(a)
  PROVE  IInv'
<1>1. TypeOK'
  BY RoundUpBounds, SizesAssumption DEF IInv, TypeOK, OutOfMemory, Holding, Unlock, list, Labels, Actors, Addr
<1>2. Tiling'
  BY DEF IInv, Tiling, End, OutOfMemory, list
<1>3. LockInv'
  BY NamesAssumption DEF IInv, TypeOK, LockInv, Locked, OutOfMemory, Holding, Unlock, Actors
<1>4. CallInv'
  BY RoundUpBounds, NamesAssumption DEF IInv, TypeOK, LockInv, Locked, CallInv, Ownership, Live, OutOfMemory, Holding, Unlock, list, Fits, WorthSplitting, Actors
<1>5. FreePairs'
  BY NamesAssumption DEF IInv, TypeOK, LockInv, Locked, CallInv, FreePairs, Ownership, Live, OutOfMemory, Holding, Unlock, list, Actors
<1>6. Ownership'
  <2>1. Live' = {b \in blocks' : ~free'[b]}
    BY Bounds, NamesAssumption DEF IInv, TypeOK, LockInv, Locked, CallInv, Ownership, Live, OutOfMemory, Holding, Unlock, list, Actors
  <2>2. SUFFICES ASSUME NEW x \in Actors, NEW c \in Actors
                 PROVE  /\ old'[x] \notin held'
                        /\ pc'[x] \in {"copy", "mark"} => at'[x] \notin held'
                        /\ old'[x] # NULL /\ x # c => old'[c] # old'[x]
                        /\ pc'[x] \in {"copy", "mark"} =>
                             /\ old'[c] # at'[x]
                             /\ x # c /\ pc'[c] \in {"copy", "mark"} => at'[c] # at'[x]
    BY <2>1 DEF Ownership
  <2>3. QED
    BY Bounds, NamesAssumption DEF IInv, TypeOK, LockInv, Locked, CallInv, Ownership, Live, OutOfMemory, Holding, Unlock, list, Actors
<1>7. RightSize'
  BY NamesAssumption DEF IInv, TypeOK, LockInv, Locked, CallInv, Ownership, RightSize, Live, OutOfMemory, Holding, Unlock, list, WorthSplitting, Actors
<1>8. QED
  BY <1>1, <1>2, <1>3, <1>4, <1>5, <1>6, <1>7 DEF IInv

LEMMA ChooseInv ==
  ASSUME IInv, NEW a \in Actors, Choose(a)
  PROVE  IInv'
<1>1. TypeOK'
  BY RoundUpBounds, SizesAssumption DEF IInv, TypeOK, Choose, Holding, Goto, list, Labels, Actors, Addr
<1>2. Tiling'
  BY DEF IInv, Tiling, End, Choose, list
<1>3. LockInv'
  BY NamesAssumption DEF IInv, TypeOK, LockInv, Locked, Choose, Holding, Goto, Actors
<1>4. CallInv'
  BY RoundUpBounds, NamesAssumption DEF IInv, TypeOK, LockInv, Locked, CallInv, Ownership, Live, Choose, Holding, Goto, list, Fits, WorthSplitting, Actors
<1>5. FreePairs'
  BY NamesAssumption DEF IInv, TypeOK, LockInv, Locked, CallInv, FreePairs, Ownership, Live, Choose, Holding, Goto, list, Actors
<1>6. Ownership'
  BY NamesAssumption DEF IInv, TypeOK, LockInv, Locked, CallInv, Ownership, Live, Choose, Holding, Goto, list, Actors
<1>7. RightSize'
  BY NamesAssumption DEF IInv, TypeOK, LockInv, Locked, CallInv, Ownership, RightSize, Live, Choose, Holding, Goto, list, WorthSplitting, Actors
<1>8. QED
  BY <1>1, <1>2, <1>3, <1>4, <1>5, <1>6, <1>7 DEF IInv

LEMMA TakeInv ==
  ASSUME IInv, NEW a \in Actors, Take(a)
  PROVE  IInv'
<1>0. at[a] \in blocks /\ at[a] \in Addr /\ free[at[a]] /\ size[at[a]] \in Nat
  BY DEF IInv, TypeOK, CallInv, Take, Holding, Fits
<1>1. TypeOK'
  BY <1>0, SizesAssumption, Bounds DEF IInv, TypeOK, Take, Holding, Unlock, Labels, Actors
<1>2. Tiling'
  BY DEF IInv, Tiling, End, Take
<1>3. LockInv'
  BY NamesAssumption DEF IInv, TypeOK, LockInv, Locked, Take, Holding, Unlock, Actors
<1>4. CallInv'
  BY RoundUpBounds, NamesAssumption DEF IInv, TypeOK, LockInv, Locked, CallInv, Ownership, Live, Take, Holding, Unlock, Fits, WorthSplitting, Actors
<1>5. FreePairs'
  BY NamesAssumption DEF IInv, TypeOK, LockInv, Locked, CallInv, FreePairs, Ownership, Live, Take, Holding, Unlock, Actors
<1>6. Ownership'
  <2>1. Live' = {b \in blocks' : ~free'[b]}
    <3>1. /\ pc[a] = "take" /\ old' = old /\ blocks' = blocks
          /\ free' = [free EXCEPT ![at[a]] = FALSE]
          /\ \A x \in Actors : x # a => pc'[x] = pc[x] /\ at'[x] = at[x]
      BY DEF Take, Holding, Unlock, IInv, TypeOK
    <3>2. ASSUME old[a] = NULL
          PROVE  Live' = Live \cup {at[a]}
      <4>1. pc'[a] = "idle" /\ held' = held \cup {at[a]}
        BY <3>2 DEF Take, Unlock, IInv, TypeOK
      <4>2. QED
        BY <3>1, <4>1 DEF Live
    <3>3. ASSUME old[a] # NULL
          PROVE  Live' = Live \cup {at[a]}
      <4>1. pc'[a] = "copy" /\ at'[a] = at[a] /\ held' = held
        BY <3>3 DEF Take, Unlock, IInv, TypeOK
      <4>2. QED
        BY <3>1, <4>1 DEF Live
    <3>4. {b \in blocks' : ~free'[b]} = {b \in blocks : ~free[b]} \cup {at[a]}
      BY <1>0, <3>1 DEF IInv, TypeOK
    <3>5. QED
      BY <3>2, <3>3, <3>4 DEF IInv, Ownership
  <2>2. SUFFICES ASSUME NEW x \in Actors, NEW c \in Actors
                 PROVE  /\ old'[x] \notin held'
                        /\ pc'[x] \in {"copy", "mark"} => at'[x] \notin held'
                        /\ old'[x] # NULL /\ x # c => old'[c] # old'[x]
                        /\ pc'[x] \in {"copy", "mark"} =>
                             /\ old'[c] # at'[x]
                             /\ x # c /\ pc'[c] \in {"copy", "mark"} => at'[c] # at'[x]
    BY <2>1 DEF Ownership
  <2>3. QED
    BY <1>0, Bounds, NamesAssumption DEF IInv, TypeOK, LockInv, Locked, CallInv, Ownership, Live, Take, Holding, Unlock, Actors
<1>7. RightSize'
  <2>1. Live' \subseteq Live \cup {at[a]} /\ at[a] \notin Live
    BY <1>0, NamesAssumption DEF IInv, TypeOK, CallInv, Ownership, Live, Take, Holding,
         Unlock, Actors
  <2>2. /\ asked'[at[a]] = req[a] /\ 1 <= req[a] /\ \A b \in Live : asked'[b] = asked[b]
        /\ req[a] <= size[at[a]] /\ ~WorthSplitting(at[a], req[a]) /\ size' = size
    BY <1>0, <2>1 DEF IInv, TypeOK, CallInv, Ownership, Take, Holding, Fits
  <2>3. \A b \in Live' : /\ 1 <= asked'[b] /\ asked'[b] <= size'[b]
                          /\ ~WorthSplitting(b, asked[b])'
    BY <2>1, <2>2 DEF IInv, RightSize, WorthSplitting
  <2>4. \A x \in Actors : pc'[x] = "copy" => size'[old'[x]] < size'[at'[x]]
    <3>1. ASSUME NEW x \in Actors, pc'[x] = "copy", x = a
          PROVE  size'[old'[x]] < size'[at'[x]]
      <4>1. at' = at /\ old' = old /\ old[a] # NULL /\ size[old[a]] < req[a] /\ req[a] \in Nat
        BY <3>1 DEF IInv, TypeOK, CallInv, Take, Holding, Unlock
      <4>2. size[old[a]] \in Nat
        BY <4>1 DEF IInv, TypeOK
      <4>3. QED
        BY <1>0, <2>2, <3>1, <4>1, <4>2
    <3>2. ASSUME NEW x \in Actors, pc'[x] = "copy", x # a
          PROVE  size'[old'[x]] < size'[at'[x]]
      BY <2>2, <3>2 DEF IInv, TypeOK, RightSize, Take, Unlock
    <3>3. QED
      BY <3>1, <3>2
  <2>5. QED
    BY <2>3, <2>4 DEF RightSize
<1>8. QED
  BY <1>1, <1>2, <1>3, <1>4, <1>5, <1>6, <1>7 DEF IInv

LEMMA CopyDoneInv ==
  ASSUME IInv, NEW a \in Actors, CopyDone(a)
  PROVE  IInv'
<1>0. at[a] \in blocks /\ at[a] \in Addr
  BY DEF IInv, TypeOK, CallInv, CopyDone, Interruptible
<1>1. TypeOK'
  BY <1>0, Bounds DEF IInv, TypeOK, CopyDone, Interruptible, Lock, list, Labels, Actors
<1>2. Tiling'
  BY DEF IInv, Tiling, End, CopyDone, list
<1>3. LockInv'
  BY NamesAssumption DEF IInv, TypeOK, LockInv, Locked, CopyDone, Interruptible, Lock, Actors
<1>4. CallInv'
  BY RoundUpBounds, NamesAssumption DEF IInv, TypeOK, LockInv, Locked, CallInv, Ownership, Live, CopyDone, Interruptible, Lock, list, Fits, WorthSplitting, Actors
<1>5. FreePairs'
  BY NamesAssumption DEF IInv, TypeOK, LockInv, Locked, CallInv, FreePairs, Ownership, Live, CopyDone, Interruptible, Lock, list, Actors
<1>6. Ownership'
  <2>1. Live' = {b \in blocks' : ~free'[b]}
    BY <1>0, Bounds, NamesAssumption DEF IInv, TypeOK, LockInv, Locked, CallInv, Ownership, Live, CopyDone, Interruptible, Lock, list, Actors
  <2>2. SUFFICES ASSUME NEW x \in Actors, NEW c \in Actors
                 PROVE  /\ old'[x] \notin held'
                        /\ pc'[x] \in {"copy", "mark"} => at'[x] \notin held'
                        /\ old'[x] # NULL /\ x # c => old'[c] # old'[x]
                        /\ pc'[x] \in {"copy", "mark"} =>
                             /\ old'[c] # at'[x]
                             /\ x # c /\ pc'[c] \in {"copy", "mark"} => at'[c] # at'[x]
    BY <2>1 DEF Ownership
  <2>3. QED
    BY <1>0, Bounds, NamesAssumption DEF IInv, TypeOK, LockInv, Locked, CallInv, Ownership, Live, CopyDone, Interruptible, Lock, list, Actors
<1>7. RightSize'
  BY NamesAssumption DEF IInv, TypeOK, LockInv, Locked, CallInv, Ownership, RightSize, Live, CopyDone, Interruptible, Lock, list, WorthSplitting, Actors
<1>8. QED
  BY <1>1, <1>2, <1>3, <1>4, <1>5, <1>6, <1>7 DEF IInv

LEMMA FreeCallInv ==
  ASSUME IInv, NEW a \in Actors, NEW b \in Addr, FreeCall(a, b)
  PROVE  IInv'
<1>1. TypeOK'
  BY RoundUpBounds, SizesAssumption DEF IInv, TypeOK, FreeCall, Interruptible, Lock, list, Labels, Actors, Addr
<1>2. Tiling'
  BY DEF IInv, Tiling, End, FreeCall, list
<1>3. LockInv'
  BY NamesAssumption DEF IInv, TypeOK, LockInv, Locked, FreeCall, Interruptible, Lock, Actors
<1>4. CallInv'
  BY RoundUpBounds, NamesAssumption DEF IInv, TypeOK, LockInv, Locked, CallInv, Ownership, Live, FreeCall, Interruptible, Lock, list, Fits, WorthSplitting, Actors
<1>5. FreePairs'
  BY NamesAssumption DEF IInv, TypeOK, LockInv, Locked, CallInv, FreePairs, Ownership, Live, FreeCall, Interruptible, Lock, list, Actors
<1>6. Ownership'
  BY NamesAssumption DEF IInv, TypeOK, LockInv, Locked, CallInv, Ownership, Live, FreeCall, Interruptible, Lock, list, Actors
<1>7. RightSize'
  BY NamesAssumption DEF IInv, TypeOK, LockInv, Locked, CallInv, Ownership, RightSize, Live, FreeCall, Interruptible, Lock, list, WorthSplitting, Actors
<1>8. QED
  BY <1>1, <1>2, <1>3, <1>4, <1>5, <1>6, <1>7 DEF IInv

LEMMA MarkInv ==
  ASSUME IInv, NEW a \in Actors, Mark(a)
  PROVE  IInv'
<1>0. at[a] \in blocks /\ at[a] \in Addr /\ ~free[at[a]] /\ size[at[a]] \in Nat
  BY DEF IInv, TypeOK, CallInv, Mark, Holding, Ownership, Live
<1>00. /\ free' = [free EXCEPT ![at[a]] = TRUE]
       /\ used' = used - (size[at[a]] + HDR_SIZE)
       /\ asked' = [asked EXCEPT ![at[a]] = 0]
       /\ pc' = [pc EXCEPT ![a] = "next"]
       /\ UNCHANGED <<lock, at, size, next, prev, blocks, req, old, held>>
  BY <1>0 DEF Mark, Goto
<1>1. TypeOK'
  <2>1. used - (size[at[a]] + HDR_SIZE) \in Int
    BY <1>0, SizesAssumption DEF IInv, TypeOK
  <2>2. pc' \in [Actors -> Labels]
    BY <1>00 DEF IInv, TypeOK, Labels
  <2>3. free' \in [Addr -> BOOLEAN] /\ asked' \in [Addr -> Nat]
    BY <1>00 DEF IInv, TypeOK
  <2>4. QED
    BY <1>00, <2>1, <2>2, <2>3 DEF IInv, TypeOK
<1>2. Tiling'
  BY DEF IInv, Tiling, End, Mark
<1>3. LockInv'
  BY NamesAssumption DEF IInv, TypeOK, LockInv, Locked, Mark, Holding, Goto, Unlock, Actors
<1>4. CallInv'
  BY RoundUpBounds, NamesAssumption DEF IInv, TypeOK, LockInv, Locked, CallInv, Ownership, Live, Mark, Holding, Goto, Unlock, Fits, WorthSplitting, Actors
<1>5. FreePairs'
  BY NamesAssumption DEF IInv, TypeOK, LockInv, Locked, CallInv, FreePairs, Ownership, Live, Mark, Holding, Goto, Unlock, Actors
<1>6. Ownership'
  <2>1. /\ pc[a] = "mark" /\ pc'[a] = "next"
        /\ \A c \in Actors : c # a => pc'[c] = pc[c]
    BY <1>00 DEF Mark, Holding, IInv, TypeOK
  <2>2. Live' = Live \ {at[a]}
    BY <1>00, <2>1 DEF IInv, Ownership, Live
  <2>3. {b \in blocks' : ~free'[b]} = {b \in blocks : ~free[b]} \ {at[a]}
    BY <1>0, <1>00 DEF IInv, TypeOK
  <2>4. \A x \in Actors :
          /\ old'[x] \notin held'
          /\ pc'[x] \in {"copy", "mark"} => at'[x] \notin held'
          /\ \A c \in Actors :
               /\ old'[x] # NULL /\ x # c => old'[c] # old'[x]
               /\ pc'[x] \in {"copy", "mark"} =>
                    /\ old'[c] # at'[x]
                    /\ x # c /\ pc'[c] \in {"copy", "mark"} => at'[c] # at'[x]
    BY <1>00, <2>1 DEF IInv, Ownership
  <2>5. QED
    BY <2>2, <2>3, <2>4 DEF IInv, Ownership
<1>7. RightSize'
  BY NamesAssumption DEF IInv, TypeOK, LockInv, Locked, CallInv, Ownership, RightSize, Live, Mark, Holding, Goto, Unlock, WorthSplitting, Actors
<1>8. QED
  BY <1>1, <1>2, <1>3, <1>4, <1>5, <1>6, <1>7 DEF IInv

LEMMA SplitInv ==
  ASSUME IInv, NEW a \in Actors, Split(a)
  PROVE  IInv'
<1>0. PICK b, s : b = at[a] /\ s = at[a] + HDR_SIZE + req[a]
  OBVIOUS
<1>1. /\ b \in blocks /\ s \in Addr \ blocks /\ b < s
      /\ req[a] \in Nat
      /\ blocks' = blocks \cup {s}
      /\ size' \in [Addr -> 0..Size] /\ size'[b] = req[a]
      /\ \A c \in Addr \ {b, s} : size'[c] = size[c]
      /\ free' \in [Addr -> BOOLEAN] /\ free'[s] = TRUE
      /\ \A c \in Addr \ {s} : free'[c] = free[c]
      /\ next' \in [Addr -> Addr \cup {NULL}]
      /\ next'[b] = s /\ next'[s] = next[b]
      /\ \A c \in Addr \ {b, s} : next'[c] = next[c]
      /\ prev' \in [Addr -> Addr \cup {NULL}]
  BY <1>0, SplitEffect
<1>2. /\ pc[a] = "split" /\ pc' = [pc EXCEPT ![a] = "take"]
      /\ UNCHANGED <<used, lock, at, req, old, held, asked>>
  BY DEF Split, Holding, Goto
<1>3. /\ blocks \subseteq Addr /\ b # s /\ b \in Nat
      /\ at[a] = b /\ Fits(b, req[a]) /\ free[b] /\ b \notin Live
      /\ Live = {c \in blocks : ~free[c]}
  BY <1>0, <1>1, <1>2, Bounds DEF IInv, TypeOK, CallInv, Fits, Ownership
<1>4. TypeOK'
  BY <1>1, <1>2, <1>3 DEF IInv, TypeOK, Labels
<1>5. Tiling'
  BY SplitTiling
<1>6. LockInv'
  BY <1>2 DEF IInv, TypeOK, LockInv, Locked
<1>7. \A x \in Actors : x # a => pc'[x] = pc[x] /\ pc[x] \in {"idle", "copy"}
  BY <1>2 DEF IInv, TypeOK, LockInv, Locked, Labels
<1>8. CallInv'
  <2>1. ASSUME NEW x \in Actors, x # a
        PROVE  /\ pc'[x] = "idle" => at'[x] = NULL
               /\ pc'[x] # "idle" => at'[x] \in blocks'
               /\ pc'[x] = "idle" => old'[x] = NULL
               /\ pc'[x] = "copy" => old'[x] # NULL /\ old'[x] # at'[x]
    BY <1>1, <1>2, <1>7, <2>1 DEF IInv, CallInv
  <2>2. /\ at[a] \in blocks /\ req[a] >= 1
        /\ \A c \in blocks : c < b => ~Fits(c, req[a])
    BY <1>2, <1>3 DEF IInv, CallInv
  <2>3. old[a] # NULL => size'[old[a]] < req[a]
    <3>1. old[a] # NULL => old[a] \in Live /\ size[old[a]] < req[a]
      BY <1>2 DEF IInv, CallInv, Live
    <3>2. QED
      BY <1>1, <1>3, <3>1
  <2>4. \A c \in blocks' : c < b => ~Fits(c, req[a])'
    BY <1>1, <1>2, <1>3, <2>2, Bounds DEF Fits
  <2>5. Fits(b, req[a])' /\ ~WorthSplitting(b, req[a])'
    BY <1>1, <1>2, <1>3, SizesAssumption DEF Fits, WorthSplitting
  <2>6. QED
    BY <1>1, <1>2, <1>3, <1>7, <2>1, <2>2, <2>3, <2>4, <2>5
    DEF IInv, TypeOK, CallInv, Fits, WorthSplitting
<1>9. FreePairs'
  <2>1. SUFFICES ASSUME NEW c \in blocks', next'[c] # NULL, free'[c], free'[next'[c]]
                 PROVE  c = b
    BY <1>2, <1>3 DEF FreePairs, IInv, TypeOK
  <2>2. \A x \in blocks : next[x] # NULL => ~(free[x] /\ free[next[x]])
    BY <1>2, <1>7 DEF IInv, FreePairs
  <2>3. CASE c = s
    <3>1. next'[c] = next[b] /\ next[b] # NULL /\ next[b] \in blocks
      BY <1>1, <2>1, <2>3 DEF IInv, Tiling
    <3>2. free'[next[b]] = free[next[b]]
      BY <1>1, <1>3, <3>1
    <3>3. QED
      BY <1>1, <1>3, <2>1, <2>2, <3>1, <3>2
  <2>4. CASE c # s /\ c # b
    <3>1. c \in blocks /\ next'[c] = next[c] /\ free'[c] = free[c] /\ next[c] # NULL
      BY <1>1, <1>3, <2>1, <2>4
    <3>2. next[c] \in blocks /\ free'[next[c]] = free[next[c]]
      BY <1>1, <1>3, <3>1 DEF IInv, Tiling
    <3>3. QED
      BY <2>1, <2>2, <3>1, <3>2
  <2>5. QED
    BY <2>3, <2>4
<1>10. Live' = Live
  BY <1>2, <1>7 DEF Live, IInv, TypeOK
<1>11. Ownership'
  <2>1. {c \in blocks' : ~free'[c]} = Live
    BY <1>1, <1>3
  <2>2. QED
    BY <1>2, <1>7, <1>10, <2>1 DEF IInv, TypeOK, Ownership
<1>12. RightSize'
  <2>1. \A c \in Live : c \in Addr \ {b, s} /\ size'[c] = size[c]
    BY <1>1, <1>3
  <2>2. \A c \in Live' : 1 <= asked'[c] /\ asked'[c] <= size'[c] /\ ~WorthSplitting(c, asked[c])'
    BY <1>2, <1>10, <2>1 DEF IInv, RightSize, WorthSplitting
  <2>3. ASSUME NEW x \in Actors, pc'[x] = "copy"
        PROVE  size'[old'[x]] < size'[at'[x]]
    <3>1. pc[x] = "copy" /\ old[x] \in Live /\ at[x] \in Live
      BY <1>2, <2>3 DEF IInv, TypeOK, CallInv, Live
    <3>2. QED
      BY <1>2, <2>1, <3>1 DEF IInv, RightSize
  <2>4. QED
    BY <2>2, <2>3 DEF RightSize
<1>13. QED
  BY <1>4, <1>5, <1>6, <1>8, <1>9, <1>11, <1>12 DEF IInv

\* Merging two free blocks touches nothing that is allocated.
LEMMA CoalesceFrame ==
  ASSUME IInv, NEW b \in blocks, Coalesce(b), Merges(b)
  PROVE  /\ b \in blocks' /\ b \in Addr /\ next[b] # b /\ next[b] \notin Live
         /\ blocks' = blocks \ {next[b]} /\ free' = free
         /\ size' \in [Addr -> 0..Size] /\ blocks' \subseteq Addr
         /\ next' \in [Addr -> Addr \cup {NULL}] /\ prev' \in [Addr -> Addr \cup {NULL}]
         /\ next'[b] = next[next[b]]
         /\ \A c \in blocks' \ {b} : next'[c] = next[c]
         /\ {c \in blocks' : ~free'[c]} = Live
         /\ \A c \in Live : c \in blocks' /\ size'[c] = size[c]
<1>0. PICK n : n = next[b]
  OBVIOUS
<1>1. /\ n \in blocks /\ n # b /\ free[n] /\ free[b]
      /\ blocks' = blocks \ {n} /\ free' = free
      /\ size' \in [Addr -> 0..Size]
      /\ \A c \in Addr \ {b, n} : size'[c] = size[c]
      /\ next' \in [Addr -> Addr \cup {NULL}] /\ next'[b] = next[n]
      /\ \A c \in Addr \ {b, n} : next'[c] = next[c]
      /\ prev' \in [Addr -> Addr \cup {NULL}]
  BY <1>0, CoalesceEffect DEF IInv, Merges
<1>2. blocks \subseteq Addr /\ Live = {c \in blocks : ~free[c]}
  BY DEF IInv, TypeOK, Ownership
<1>3. {c \in blocks' : ~free'[c]} = Live
  BY <1>1, <1>2
<1>4. \A c \in Live : c \in blocks' /\ c # b /\ c # n /\ size'[c] = size[c]
  BY <1>1, <1>2
<1>5. QED
  BY <1>0, <1>1, <1>2, <1>3, <1>4

LEMMA MergeNextInv ==
  ASSUME IInv, NEW a \in Actors, MergeNext(a)
  PROVE  IInv'
<1>0. PICK b : b = at[a]
  OBVIOUS
<1>1. /\ pc[a] = "next" /\ pc' = [pc EXCEPT ![a] = "prev"] /\ Coalesce(b)
      /\ UNCHANGED <<used, lock, at, req, old, held, asked>>
  BY <1>0 DEF MergeNext, Holding, Goto
<1>2. b \in blocks /\ free[b] /\ old[a] = NULL
  BY <1>0, <1>1 DEF IInv, CallInv
<1>3. \A x \in Actors : x # a => pc'[x] = pc[x] /\ pc[x] \in {"idle", "copy"}
  BY <1>1 DEF IInv, TypeOK, LockInv, Locked, Labels
<1>4. pc' \in [Actors -> Labels] /\ LockInv'
  BY <1>1 DEF IInv, TypeOK, LockInv, Locked, Labels
<1>5. Live' = Live
  BY <1>1, <1>3 DEF Live, IInv, TypeOK
<1>6. \A x \in Actors : pc[x] = "copy" => /\ old[x] \in Live /\ at[x] \in Live
                                         /\ old[x] # NULL /\ old[x] # at[x]
  BY DEF IInv, CallInv, Live
<1>7. \A c \in blocks : next[c] # NULL /\ free[c] /\ free[next[c]] => c = b \/ next[c] = b
  BY <1>0, <1>1, <1>3 DEF IInv, FreePairs
<1>8. CASE Merges(b)
  <2>1. /\ b \in blocks' /\ next[b] # b
        /\ blocks' = blocks \ {next[b]} /\ free' = free
        /\ size' \in [Addr -> 0..Size] /\ blocks' \subseteq Addr
        /\ next' \in [Addr -> Addr \cup {NULL}] /\ prev' \in [Addr -> Addr \cup {NULL}]
        /\ next'[b] = next[next[b]]
        /\ \A c \in blocks' \ {b} : next'[c] = next[c]
        /\ {c \in blocks' : ~free'[c]} = Live
        /\ \A c \in Live : c \in blocks' /\ size'[c] = size[c]
    BY <1>1, <1>2, <1>8, CoalesceFrame
  <2>2. TypeOK'
    BY <1>1, <1>4, <2>1 DEF IInv, TypeOK
  <2>3. Tiling'
    BY <1>1, <1>2, <1>8, CoalesceTiling DEF IInv
  <2>4. CallInv'
    <3>1. \A x \in Actors : pc'[x] # "idle" => at'[x] \in blocks'
      BY <1>0, <1>1, <1>3, <1>6, <2>1
    <3>2. QED
      BY <1>0, <1>1, <1>2, <1>3, <1>6, <2>1, <3>1 DEF IInv, TypeOK, CallInv
  <2>5. FreePairs'
    <3>1. SUFFICES ASSUME NEW c \in blocks', next'[c] # NULL, free'[c], free'[next'[c]]
                   PROVE  next'[c] = b
      BY <1>0, <1>1 DEF FreePairs, IInv, TypeOK
    <3>2. CASE c = b
      <4>1. next[b] \in blocks /\ next[next[b]] # NULL /\ free[next[b]] /\ free[next[next[b]]]
        BY <1>2, <1>8, <2>1, <3>1, <3>2 DEF Merges, IInv, Tiling
      <4>2. next[next[b]] = b
        BY <1>7, <2>1, <4>1
      <4>3. QED
        BY <2>1, <3>2, <4>2
    <3>3. CASE c # b
      BY <1>7, <2>1, <3>1, <3>3
    <3>4. QED
      BY <3>2, <3>3
  <2>6. Ownership'
    BY <1>1, <1>3, <1>5, <2>1 DEF IInv, TypeOK, Ownership
  <2>7. RightSize'
    <3>1. \A c \in Live' : 1 <= asked'[c] /\ asked'[c] <= size'[c] /\ ~WorthSplitting(c, asked[c])'
      BY <1>1, <1>5, <2>1 DEF IInv, RightSize, WorthSplitting
    <3>2. QED
      BY <1>1, <1>3, <1>6, <2>1, <3>1 DEF IInv, TypeOK, RightSize
  <2>8. QED
    BY <1>4, <2>2, <2>3, <2>4, <2>5, <2>6, <2>7 DEF IInv
<1>9. CASE ~Merges(b)
  <2>1. UNCHANGED list
    BY <1>1, <1>9 DEF Coalesce, Merges
  <2>2. TypeOK'
    BY <1>1, <1>4, <2>1 DEF IInv, TypeOK, list
  <2>3. Tiling'
    BY <2>1 DEF IInv, Tiling, End, list
  <2>4. CallInv'
    BY <1>0, <1>1, <1>2, <1>3, <2>1 DEF IInv, TypeOK, CallInv, list
  <2>5. FreePairs'
    BY <1>0, <1>1, <1>2, <1>7, <1>9, <2>1 DEF IInv, TypeOK, FreePairs, Merges, list
  <2>6. Ownership'
    BY <1>1, <1>3, <1>5, <2>1 DEF IInv, TypeOK, Ownership, list
  <2>7. RightSize'
    BY <1>1, <1>3, <1>5, <2>1 DEF IInv, TypeOK, RightSize, WorthSplitting, list
  <2>8. QED
    BY <1>4, <2>2, <2>3, <2>4, <2>5, <2>6, <2>7 DEF IInv
<1>10. QED
  BY <1>8, <1>9

LEMMA MergePrevInv ==
  ASSUME IInv, NEW a \in Actors, MergePrev(a)
  PROVE  IInv'
<1>0. PICK b, p : b = at[a] /\ p = prev[b]
  OBVIOUS
<1>1. /\ pc[a] = "prev" /\ pc' = [pc EXCEPT ![a] = "idle"] /\ lock' = NULL
      /\ at' = [at EXCEPT ![a] = NULL]
      /\ IF p # NULL /\ free[p] THEN Coalesce(p) ELSE UNCHANGED list
      /\ UNCHANGED <<used, req, old, held, asked>>
  BY <1>0 DEF MergePrev, Holding, Unlock
<1>2. b \in blocks /\ free[b] /\ old[a] = NULL
  BY <1>0, <1>1 DEF IInv, CallInv
<1>3. \A x \in Actors : x # a => /\ pc'[x] = pc[x] /\ at'[x] = at[x]
                                 /\ pc[x] \in {"idle", "copy"}
  BY <1>1 DEF IInv, TypeOK, LockInv, Locked, Labels
<1>4. /\ pc' \in [Actors -> Labels] /\ at' \in [Actors -> Addr \cup {NULL}]
      /\ pc'[a] = "idle" /\ at'[a] = NULL /\ lock' \in Actors \cup {NULL} /\ LockInv'
  BY <1>1, <1>3, Bounds DEF IInv, TypeOK, LockInv, Locked, Labels
<1>5. Live' = Live
  BY <1>1, <1>3, <1>4 DEF Live, IInv, TypeOK
<1>6. \A x \in Actors : pc[x] = "copy" => /\ old[x] \in Live /\ at[x] \in Live
                                         /\ old[x] # NULL /\ old[x] # at[x]
  BY DEF IInv, CallInv, Live
<1>7. \A c \in blocks : next[c] # NULL /\ free[c] /\ free[next[c]] => next[c] = b
  BY <1>0, <1>1, <1>3 DEF IInv, FreePairs
<1>8. \A c \in blocks : next[c] = b => c = p
  BY <1>0, <1>2, Bounds DEF IInv, TypeOK, Tiling
<1>9. CASE p # NULL /\ free[p]
  <2>0. p \in blocks /\ next[p] = b /\ Merges(p) /\ Coalesce(p)
    BY <1>0, <1>1, <1>2, <1>9, Bounds DEF IInv, TypeOK, Tiling, Merges
  <2>1. /\ p \in blocks' /\ b # p
        /\ blocks' = blocks \ {b} /\ free' = free
        /\ size' \in [Addr -> 0..Size] /\ blocks' \subseteq Addr
        /\ next' \in [Addr -> Addr \cup {NULL}] /\ prev' \in [Addr -> Addr \cup {NULL}]
        /\ next'[p] = next[b]
        /\ \A c \in blocks' \ {p} : next'[c] = next[c]
        /\ {c \in blocks' : ~free'[c]} = Live
        /\ \A c \in Live : c \in blocks' /\ size'[c] = size[c]
    BY <2>0, CoalesceFrame
  <2>2. TypeOK'
    BY <1>1, <1>4, <2>1 DEF IInv, TypeOK
  <2>3. Tiling'
    BY <2>0, CoalesceTiling DEF IInv
  <2>4. CallInv'
    <3>1. \A x \in Actors : pc'[x] # "idle" => at'[x] \in blocks'
      BY <1>3, <1>4, <1>6, <2>1
    <3>2. QED
      BY <1>1, <1>2, <1>3, <1>4, <1>6, <2>1, <3>1 DEF IInv, TypeOK, CallInv
  <2>5. FreePairs'
    <3>1. SUFFICES ASSUME NEW c \in blocks', next'[c] # NULL, free'[c], free'[next'[c]]
                   PROVE  FALSE
      BY DEF FreePairs
    <3>2. CASE c = p
      <4>1. next[b] # b
        BY <1>2, BlockTypes, NamesAssumption DEF IInv
      <4>2. QED
        BY <1>2, <1>7, <2>1, <3>1, <3>2, <4>1
    <3>3. CASE c # p
      BY <1>7, <1>8, <2>1, <3>1, <3>3
    <3>4. QED
      BY <3>2, <3>3
  <2>6. Ownership'
    BY <1>1, <1>3, <1>4, <1>5, <2>1 DEF IInv, TypeOK, Ownership
  <2>7. RightSize'
    <3>1. \A c \in Live' : 1 <= asked'[c] /\ asked'[c] <= size'[c] /\ ~WorthSplitting(c, asked[c])'
      BY <1>1, <1>5, <2>1 DEF IInv, RightSize, WorthSplitting
    <3>2. QED
      BY <1>1, <1>3, <1>4, <1>6, <2>1, <3>1 DEF IInv, TypeOK, RightSize
  <2>8. QED
    BY <1>4, <2>2, <2>3, <2>4, <2>5, <2>6, <2>7 DEF IInv
<1>10. CASE ~(p # NULL /\ free[p])
  <2>1. UNCHANGED list
    BY <1>1, <1>10
  <2>2. TypeOK'
    BY <1>1, <1>4, <2>1 DEF IInv, TypeOK, list
  <2>3. Tiling'
    BY <2>1 DEF IInv, Tiling, End, list
  <2>4. CallInv'
    BY <1>1, <1>2, <1>3, <1>4, <2>1 DEF IInv, TypeOK, CallInv, list
  <2>5. FreePairs'
    <3>1. \A c \in blocks : ~(next[c] # NULL /\ free[c] /\ free[next[c]])
      BY <1>7, <1>8, <1>10, Bounds DEF IInv, TypeOK
    <3>2. QED
      BY <2>1, <3>1 DEF FreePairs, list
  <2>6. Ownership'
    BY <1>1, <1>3, <1>4, <1>5, <2>1 DEF IInv, TypeOK, Ownership, list
  <2>7. RightSize'
    BY <1>1, <1>3, <1>4, <1>5, <2>1 DEF IInv, TypeOK, RightSize, WorthSplitting, list
  <2>8. QED
    BY <1>4, <2>2, <2>3, <2>4, <2>5, <2>6, <2>7 DEF IInv
<1>11. QED
  BY <1>9, <1>10

LEMMA NextInv == IInv /\ [Next]_vars => IInv'
<1>1. ASSUME IInv, UNCHANGED vars
      PROVE  IInv'
  <2>1. TypeOK' /\ Tiling' /\ LockInv'
    BY <1>1 DEF IInv, vars, list, call, TypeOK, Tiling, End, LockInv
  <2>2. CallInv' /\ FreePairs'
    BY <1>1 DEF IInv, vars, list, call, CallInv, Fits, WorthSplitting, FreePairs
  <2>3. Ownership' /\ RightSize'
    BY <1>1 DEF IInv, vars, list, call, Ownership, Live, RightSize, WorthSplitting
  <2>4. QED
    BY <2>1, <2>2, <2>3 DEF IInv
<1>2. ASSUME IInv, NEW a \in Actors, Step(a)
      PROVE  IInv'
  BY <1>2, NextBlockInv, OutOfMemoryInv, ChooseInv, SplitInv, TakeInv, CopyDoneInv,
     MarkInv, MergeNextInv, MergePrevInv DEF Step
<1>3. QED
  BY <1>1, <1>2, MallocCallInv, ReallocCallInv, FreeCallInv DEF Next

-----------------------------------------------------------------------------
(* Theorems.                                                               *)

THEOREM Invariance == Spec => []IInv
  BY InitInv, NextInv, PTL DEF Spec

\* Every variable keeps its type, whatever is allocated and freed.
THEOREM TypeCorrect == Spec => []TypeOK
<1>1. IInv => TypeOK
  BY DEF IInv
<1>2. QED
  BY <1>1, Invariance, PTL

\* The blocks tile the arena at every instant, for every arena and alignment.
THEOREM BlocksTile == Spec => []Tiling
<1>1. IInv => Tiling
  BY DEF IInv
<1>2. QED
  BY <1>1, Invariance, PTL

\* Whenever interrupts are on, no two neighbours are both free.
THEOREM NeighboursMerged == Spec => []Coalesced
<1>1. IInv => Coalesced
  <2> SUFFICES ASSUME IInv, lock = NULL, NEW b \in blocks, next[b] # NULL
               PROVE  ~(free[b] /\ free[next[b]])
    BY DEF Coalesced
  <2>1. \A a \in Actors : pc[a] \notin Locked
    BY Bounds DEF IInv, LockInv
  <2>2. QED
    BY <2>1 DEF IInv, FreePairs, Locked
<1>2. QED
  BY <1>1, Invariance, PTL

\* Exactly the blocks marked allocated are owned, each by one caller.
THEOREM OneOwner == Spec => []Ownership
<1>1. IInv => Ownership
  BY DEF IInv
<1>2. QED
  BY <1>1, Invariance, PTL

\* Every caller has at least what it asked for, and little more.
THEOREM SizedRight == Spec => []RightSize
<1>1. IInv => RightSize
  BY DEF IInv
<1>2. QED
  BY <1>1, Invariance, PTL

\* Types, the tiling of the arena and who owns what: the invariant that TLC
\* checks.
THEOREM HeapInvariant == Spec => []Inv
  BY TypeCorrect, BlocksTile, NeighboursMerged, OneOwner, SizedRight, PTL DEF Inv

\* malloc takes the first block that fits and fails only when none does.
THEOREM FirstFitHolds == Spec => FirstFit
<1>1. IInv /\ [Next]_vars =>
        [\A a \in Threads :
           /\ Take(a) => \A b \in blocks : b < at[a] => ~Fits(b, req[a])
           /\ OutOfMemory(a) => \A b \in blocks : ~Fits(b, req[a])]_vars
  <2>1. SUFFICES ASSUME IInv, NEW a \in Threads
                 PROVE  /\ Take(a) => \A b \in blocks : b < at[a] => ~Fits(b, req[a])
                        /\ OutOfMemory(a) => \A b \in blocks : ~Fits(b, req[a])
    OBVIOUS
  <2>2. a \in Actors
    BY DEF Actors
  <2>3. Take(a) => \A b \in blocks : b < at[a] => ~Fits(b, req[a])
    BY <2>1, <2>2 DEF IInv, CallInv, Take, Holding
  <2>4. ASSUME OutOfMemory(a), NEW b \in blocks
        PROVE  ~Fits(b, req[a])
    <3>1. /\ at[a] \in blocks /\ ~Fits(at[a], req[a]) /\ next[at[a]] = NULL
          /\ \A c \in blocks : c < at[a] => ~Fits(c, req[a])
      BY <2>1, <2>2, <2>4 DEF IInv, CallInv, OutOfMemory, Holding
    <3>2. End(at[a]) = Size /\ at[a] \in Nat
      BY <2>1, <3>1, BlockTypes DEF IInv
    <3>3. b \in Nat /\ b < Size /\ (at[a] < b => End(at[a]) <= b) /\ Size \in Nat
      BY <2>1, <3>1, Bounds, SizesAssumption DEF IInv, TypeOK, Tiling
    <3>4. QED
      BY <3>1, <3>2, <3>3
  <2>5. QED
    BY <2>3, <2>4
<1>2. QED
  BY <1>1, Invariance, PTL DEF Spec, FirstFit

-----------------------------------------------------------------------------
(* The free list implements the abstract allocator.                        *)

Region(b) == [base |-> b + HDR_SIZE, len |-> size[b]]

\* Allocated blocks are regions of the arena, and blocks differ in their regions.
LEMMA BlockRegions ==
  ASSUME IInv, NEW b \in blocks
  PROVE  /\ size[b] >= 1 => Region(b) \in Promise!Regions
         /\ \A c \in blocks : b # c => /\ Region(b) # Region(c)
                                      /\ Promise!Disjoint(Region(b), Region(c))
<1>1. /\ b \in Nat /\ size[b] \in Nat /\ End(b) \in Nat /\ End(b) <= Size
  BY BlockTypes DEF IInv
<1>2. size[b] >= 1 => Region(b) \in Promise!Regions
  BY <1>1, SizesAssumption DEF Region, Promise!Regions, End
<1>3. ASSUME NEW c \in blocks, b # c
      PROVE  Region(b) # Region(c) /\ Promise!Disjoint(Region(b), Region(c))
  <2>1. c \in Nat /\ size[c] \in Nat
    BY BlockTypes DEF IInv
  <2>2. End(b) <= c \/ End(c) <= b
    BY <1>1, <1>3, <2>1 DEF IInv, Tiling
  <2>3. QED
    BY <1>1, <1>3, <2>1, <2>2, SizesAssumption DEF Region, Promise!Disjoint, End
<1>4. QED
  BY <1>2, <1>3

\* The regions that are live in the abstract allocator.
Regions == {Region(b) : b \in {c \in blocks : ~free[c]}}

LEMMA TakeAllocates ==
  ASSUME IInv, NEW a \in Actors, Take(a)
  PROVE  Promise!Next
<1>0. PICK b, r : b = at[a] /\ r = Region(b)
  OBVIOUS
<1>1. /\ b \in blocks /\ free[b] /\ b \in Addr /\ size[b] >= req[a] /\ req[a] >= 1
      /\ UNCHANGED <<size, blocks>> /\ free' = [free EXCEPT ![b] = FALSE]
  BY <1>0 DEF IInv, TypeOK, CallInv, Take, Holding, Fits
<1>2. size[b] >= 1
  BY <1>1 DEF IInv, TypeOK
<1>3. {c \in blocks' : ~free'[c]} = {c \in blocks : ~free[c]} \cup {b}
  BY <1>1 DEF IInv, TypeOK
<1>4. Regions' = Regions \cup {r}
  BY <1>0, <1>1, <1>3 DEF Regions, Region
<1>5. r \in Promise!Regions /\ \A x \in Regions : Promise!Disjoint(r, x)
  BY <1>0, <1>1, <1>2, BlockRegions DEF Regions
<1>6. Promise!Allocate(r)
  BY <1>4, <1>5 DEF Promise!Allocate, Regions, Region
<1>7. QED
  BY <1>5, <1>6 DEF Promise!Next

LEMMA MarkReleases ==
  ASSUME IInv, NEW a \in Actors, Mark(a)
  PROVE  Promise!Next
<1>0. PICK b, r : b = at[a] /\ r = Region(b)
  OBVIOUS
<1>1. b \in blocks /\ ~free[b] /\ b \in Addr /\ b \in Live
  BY <1>0 DEF IInv, TypeOK, CallInv, Mark, Holding, Ownership, Live
<1>2. UNCHANGED <<size, blocks>> /\ free' = [free EXCEPT ![b] = TRUE]
  BY <1>0, <1>1 DEF Mark
<1>3. {c \in blocks' : ~free'[c]} = {c \in blocks : ~free[c]} \ {b}
  BY <1>1, <1>2 DEF IInv, TypeOK
<1>4. Regions' = Regions \ {r}
  <2>1. \A c \in blocks : c # b => Region(c) # Region(b)
    BY <1>1, BlockRegions
  <2>2. Regions' = {Region(c) : c \in {d \in blocks : ~free[d]} \ {b}}
    BY <1>2, <1>3 DEF Regions, Region
  <2>3. QED
    BY <1>0, <1>1, <2>1, <2>2 DEF Regions
<1>5. r \in Regions
  BY <1>0, <1>1 DEF Regions
<1>6. r \in Promise!Regions
  <2>1. size[b] >= 1
    BY <1>1 DEF IInv, TypeOK, RightSize
  <2>2. QED
    BY <1>0, <1>1, <2>1, BlockRegions
<1>7. Promise!Release(r)
  BY <1>4, <1>5 DEF Promise!Release, Regions, Region
<1>8. QED
  BY <1>6, <1>7 DEF Promise!Next

\* Everything else leaves what is allocated alone.
LEMMA OthersStutter ==
  ASSUME IInv, [Next]_vars, \A a \in Actors : ~Take(a) /\ ~Mark(a)
  PROVE  Regions' = Regions
<1> DEFINE Same == /\ {c \in blocks' : ~free'[c]} = {c \in blocks : ~free[c]}
                   /\ \A c \in blocks : ~free[c] => size'[c] = size[c]
<1>1. Same => Regions' = Regions
  <2>1. SUFFICES ASSUME Same
                 PROVE  Regions' = Regions
    OBVIOUS
  <2>2. Regions' = {[base |-> b + HDR_SIZE, len |-> size'[b]] : b \in {c \in blocks : ~free[c]}}
    BY <2>1 DEF Regions, Region
  <2>3. \A b \in {c \in blocks : ~free[c]} : size'[b] = size[b]
    BY <2>1
  <2>4. QED
    BY <2>2, <2>3 DEF Regions, Region
<1>2. UNCHANGED list => Same
  BY DEF list
<1>3. ASSUME NEW a \in Actors, Split(a)
      PROVE  Same
  <2>0. PICK b, s : b = at[a] /\ s = at[a] + HDR_SIZE + req[a]
    OBVIOUS
  <2>1. /\ b \in blocks /\ s \in Addr \ blocks /\ blocks' = blocks \cup {s} /\ free'[s] = TRUE
        /\ \A c \in Addr \ {b, s} : size'[c] = size[c]
        /\ \A c \in Addr \ {s} : free'[c] = free[c]
    BY <1>3, <2>0, SplitEffect
  <2>2. free[b] /\ blocks \subseteq Addr
    BY <1>3, <2>0 DEF IInv, TypeOK, CallInv, Split, Holding, Fits
  <2>3. QED
    BY <2>1, <2>2
<1>4. ASSUME NEW b \in blocks, Coalesce(b)
      PROVE  Same
  <2>1. CASE Merges(b)
    BY <1>4, <2>1, CoalesceFrame DEF IInv, Ownership
  <2>2. CASE ~Merges(b)
    BY <1>2, <1>4, <2>2 DEF Coalesce, Merges
  <2>3. QED
    BY <2>1, <2>2
<1>5. ASSUME NEW a \in Actors, MergeNext(a)
      PROVE  Same
  <2>1. at[a] \in blocks /\ Coalesce(at[a])
    BY <1>5 DEF IInv, CallInv, MergeNext, Holding
  <2>2. QED
    BY <1>4, <2>1
<1>6. ASSUME NEW a \in Actors, MergePrev(a)
      PROVE  Same
  <2>1. at[a] \in blocks
    BY <1>6 DEF IInv, CallInv, MergePrev, Holding
  <2>2. CASE prev[at[a]] # NULL /\ Coalesce(prev[at[a]])
    <3>1. prev[at[a]] \in blocks
      BY <2>1, <2>2 DEF IInv, Tiling
    <3>2. QED
      BY <1>4, <2>2, <3>1
  <2>3. CASE UNCHANGED list
    BY <1>2, <2>3
  <2>4. QED
    BY <1>6, <2>2, <2>3 DEF MergePrev
<1>7. CASE UNCHANGED vars
  BY <1>1, <1>2, <1>7 DEF vars
<1>8. CASE Next
  <2>1. ASSUME NEW a \in Actors, Step(a)
        PROVE  Same
    BY <1>2, <1>3, <1>5, <1>6, <2>1
    DEF Step, NextBlock, OutOfMemory, Choose, CopyDone
  <2>2. QED
    BY <1>1, <1>2, <1>8, <2>1 DEF Next, MallocCall, ReallocCall, FreeCall
<1>9. QED
  BY <1>7, <1>8

\* The heap is an allocator: what it hands out is disjoint from everything that
\* is live, stays as it is until it is freed, and goes whole.
THEOREM HeapImplements == Spec => Implements
<1>1. Init => Promise!Init
  BY Bounds DEF Init, Promise!Init
<1>2. IInv /\ [Next]_vars => [Promise!Next]_Regions
  BY TakeAllocates, MarkReleases, OthersStutter
<1>3. QED
  BY <1>1, <1>2, Invariance, PTL DEF Spec, Implements, Promise!Spec, Regions, Region

-----------------------------------------------------------------------------
(* Sums.  The order in which the recursive definition picks the elements   *)
(* does not matter; induction is by a minimal counterexample.              *)

\* Induction over a finite set: a non-empty family of its subsets has a
\* minimal member.
LEMMA MinimalSubset ==
  ASSUME NEW S, IsFiniteSet(S), NEW T \in SUBSET SUBSET S, T # {}
  PROVE  \E m \in T : \A u \in T : u \subseteq m => u = m
<1>1. FiniteSubsetsOf(S) = SUBSET S
  BY FS_FiniteSubsetsOfFinite
<1>2. IsWellFoundedOn(StrictSubsetOrdering(S), SUBSET S)
  BY <1>1, FS_StrictSubsetOrderingWellFounded
<1>3. PICK m \in T : \A u \in T : <<u, m>> \notin StrictSubsetOrdering(S)
  BY <1>2, WFMin
<1>4. ASSUME NEW u \in T, u \subseteq m, u # m
      PROVE  FALSE
  <2>1. <<u, m>> \in (SUBSET S) \X (SUBSET S)
    OBVIOUS
  <2>2. <<u, m>> \in StrictSubsetOrdering(S)
    BY <1>4, <2>1 DEF StrictSubsetOrdering
  <2>3. QED
    BY <1>3, <1>4, <2>2
<1>5. QED
  BY <1>4

\* g sums f over every subset of S, whatever the order.
Sums(g, f, S) ==
  /\ g \in [SUBSET S -> Int]
  /\ g[{}] = 0
  /\ \A s \in SUBSET S : \A x \in s : g[s] = f[x] + g[s \ {x}]

LEMMA SumsExist ==
  ASSUME NEW S, IsFiniteSet(S), NEW f, \A x \in S : f[x] \in Int
  PROVE  \E g : Sums(g, f, S)
<1> DEFINE Bad == {s \in SUBSET S : ~\E g : Sums(g, f, s)}
<1>1. SUFFICES ASSUME Bad # {} PROVE FALSE
  <2>1. S \in SUBSET S
    OBVIOUS
  <2>2. QED
    BY <2>1
<1>2. PICK m \in Bad : \A u \in Bad : u \subseteq m => u = m
  <2>1. Bad \in SUBSET SUBSET S
    OBVIOUS
  <2> HIDE DEF Bad
  <2>2. QED
    BY <1>1, <2>1, MinimalSubset
<1>3. m # {}
  <2>1. SUFFICES ASSUME m = {} PROVE \E g : Sums(g, f, m)
    OBVIOUS
  <2>2. Sums([s \in SUBSET m |-> 0], f, m)
    BY <2>1 DEF Sums
  <2>3. QED
    BY <2>2
<1>4. PICK x \in m : TRUE
  BY <1>3
<1> DEFINE r == m \ {x}
<1>5. r \in SUBSET S /\ r \notin Bad
  BY <1>2
<1>6. PICK h : Sums(h, f, r)
  BY <1>5
<1> DEFINE g == [s \in SUBSET m |-> IF x \in s THEN f[x] + h[s \ {x}] ELSE h[s]]
<1>7. \A s \in SUBSET m : s \ {x} \in SUBSET r /\ (x \notin s => s \in SUBSET r)
  OBVIOUS
<1>8. h \in [SUBSET r -> Int] /\ f[x] \in Int /\ h[{}] = 0
  BY <1>6 DEF Sums
<1>9. g \in [SUBSET m -> Int]
  <2>1. \A s \in SUBSET m : (IF x \in s THEN f[x] + h[s \ {x}] ELSE h[s]) \in Int
    BY <1>7, <1>8
  <2>2. QED
    BY <2>1
<1>10. ASSUME NEW s \in SUBSET m, NEW y \in s
       PROVE  g[s] = f[y] + g[s \ {y}]
  <2>1. s \ {y} \in SUBSET m /\ f[y] \in Int /\ y \in m
    OBVIOUS
  <2>2. CASE y = x
    BY <2>1, <2>2
  <2>3. CASE y # x /\ x \notin s
    <3>1. h[s] = f[y] + h[s \ {y}]
      BY <1>6, <1>7, <2>3 DEF Sums
    <3>2. QED
      BY <2>1, <2>3, <3>1
  <2>4. CASE y # x /\ x \in s
    <3>1. y \in s \ {x} /\ s \ {x} \in SUBSET r
      BY <2>4
    <3>2. h[s \ {x}] = f[y] + h[(s \ {x}) \ {y}]
      BY <1>6, <3>1 DEF Sums
    <3>3. (s \ {x}) \ {y} = (s \ {y}) \ {x} /\ (s \ {y}) \ {x} \in SUBSET r
      OBVIOUS
    <3>4. h[(s \ {y}) \ {x}] \in Int /\ h[s \ {x}] \in Int
      BY <1>8, <3>1, <3>3
    <3>5. g[s] = f[x] + h[s \ {x}] /\ g[s \ {y}] = f[x] + h[(s \ {y}) \ {x}]
      BY <2>1, <2>4
    <3>6. \A i, j, k \in Int : i + (j + k) = j + (i + k)
      OBVIOUS
    <3> HIDE DEF g, r
    <3>7. f[x] + (f[y] + h[(s \ {y}) \ {x}]) = f[y] + (f[x] + h[(s \ {y}) \ {x}])
      BY <1>8, <2>1, <3>4, <3>6
    <3>8. QED
      BY <3>2, <3>3, <3>5, <3>7
  <2>5. QED
    BY <2>2, <2>3, <2>4
<1>11. g[{}] = 0
  BY <1>8
<1> HIDE DEF g
<1>12. Sums(g, f, m)
  BY <1>9, <1>10, <1>11 DEF Sums
<1>13. QED
  BY <1>12

Some(s) == CHOOSE x \in s : TRUE

\* The recursive definition of the sum.
LEMMA SumDef ==
  ASSUME NEW f, NEW S
  PROVE  SumFunctionOnSet(f, S) =
           (CHOOSE it : it = [s \in SUBSET S |-> IF s = {} THEN 0
                                ELSE f[Some(s)] + it[s \ {Some(s)}]])[S]
BY DEF SumFunctionOnSet, FoldFunctionOnSet, MapThenFoldSet, Some

\* It computes what any sum function says.
LEMMA SumIs ==
  ASSUME NEW S, IsFiniteSet(S), NEW f, \A x \in S : f[x] \in Int,
         NEW g, Sums(g, f, S)
  PROVE  SumFunctionOnSet(f, S) = g[S]
<1> DEFINE It(h) == [s \in SUBSET S |-> IF s = {} THEN 0
                                ELSE f[Some(s)] + h[s \ {Some(s)}]]
           it == CHOOSE h : h = It(h)
<1>1. \A s \in SUBSET S : s # {} => Some(s) \in s
  BY DEF Some
<1>2. g = It(g)
  <2>1. g \in [SUBSET S -> Int]
    BY DEF Sums
  <2>2. \A s \in SUBSET S : g[s] = It(g)[s]
    BY <1>1 DEF Sums
  <2>3. QED
    BY <2>1, <2>2
<1>3. it = It(it)
  BY <1>2
<1> DEFINE Bad == {s \in SUBSET S : it[s] # g[s]}
<1>4. Bad = {}
  <2>1. SUFFICES ASSUME Bad # {} PROVE FALSE
    OBVIOUS
  <2>2. PICK m \in Bad : \A u \in Bad : u \subseteq m => u = m
    <3>1. Bad \in SUBSET SUBSET S
      OBVIOUS
    <3> HIDE DEF Bad
    <3>2. QED
      BY <2>1, <3>1, MinimalSubset
  <2> HIDE DEF it
  <2>3. it[m] = IF m = {} THEN 0 ELSE f[Some(m)] + it[m \ {Some(m)}]
    BY <1>3
  <2>4. m # {}
    BY <2>3 DEF Sums
  <2>5. Some(m) \in m
    BY <1>1, <2>4
  <2>6. m \ {Some(m)} \in SUBSET S /\ m \ {Some(m)} \notin Bad
    BY <2>2, <2>5
  <2>7. it[m \ {Some(m)}] = g[m \ {Some(m)}]
    BY <2>6
  <2>8. g[m] = f[Some(m)] + g[m \ {Some(m)}]
    BY <2>5 DEF Sums
  <2>9. QED
    BY <2>3, <2>4, <2>7, <2>8
<1>5. it[S] = g[S]
  BY <1>4
<1>6. QED
  BY <1>5, SumDef

\* A sum grows by the element that is added.
LEMMA SumAdd ==
  ASSUME NEW S, IsFiniteSet(S), NEW f, \A x \in S : f[x] \in Int, NEW y \in S
  PROVE  /\ SumFunctionOnSet(f, S) = f[y] + SumFunctionOnSet(f, S \ {y})
         /\ SumFunctionOnSet(f, S) \in Int /\ SumFunctionOnSet(f, S \ {y}) \in Int
<1> DEFINE R == S \ {y}
<1>1. PICK g : Sums(g, f, S)
  BY SumsExist
<1> DEFINE h == [s \in SUBSET R |-> g[s]]
<1>2. Sums(h, f, R)
  BY <1>1 DEF Sums
<1>3. IsFiniteSet(R) /\ R \in SUBSET S /\ h[R] = g[R]
  BY FS_Subset
<1> HIDE DEF h, R
<1>4. SumFunctionOnSet(f, R) = g[R]
  BY <1>2, <1>3, SumIs
<1>5. SumFunctionOnSet(f, S) = g[S]
  BY <1>1, SumIs
<1>6. g[S] = f[y] + g[R] /\ g[S] \in Int /\ g[R] \in Int
  BY <1>1, <1>3 DEF Sums, R
<1>7. QED
  BY <1>4, <1>5, <1>6 DEF R

\* A sum depends on nothing but the elements that are added up.
LEMMA SumSame ==
  ASSUME NEW S, IsFiniteSet(S), NEW f, NEW k, \A x \in S : f[x] \in Int /\ k[x] = f[x]
  PROVE  SumFunctionOnSet(f, S) = SumFunctionOnSet(k, S)
<1>1. PICK g : Sums(g, f, S)
  BY SumsExist
<1>2. Sums(g, k, S)
  BY <1>1 DEF Sums
<1>3. SumFunctionOnSet(f, S) = g[S] /\ SumFunctionOnSet(k, S) = g[S]
  BY <1>1, <1>2, SumIs
<1>4. QED
  BY <1>3

LEMMA SumEmpty ==
  ASSUME NEW f
  PROVE  SumFunctionOnSet(f, {}) = 0
<1> DEFINE g == [s \in SUBSET {} |-> 0]
<1>1. Sums(g, f, {}) /\ g[{}] = 0
  BY DEF Sums
<1>2. IsFiniteSet({})
  BY FS_EmptySet
<1> HIDE DEF g
<1>3. QED
  BY <1>1, <1>2, SumIs

-----------------------------------------------------------------------------
(* used_size.                                                              *)

\* The count is right at every instant, not only when interrupts are on.
AcctInv == used = SumFunctionOnSet(Bytes, Taken)

LEMMA TakenFinite ==
  ASSUME TypeOK
  PROVE  /\ IsFiniteSet(Addr) /\ IsFiniteSet(Taken) /\ Taken \subseteq Addr
         /\ \A b \in Addr : Bytes[b] = size[b] + HDR_SIZE /\ Bytes[b] \in Int
<1>1. IsFiniteSet(Addr)
  BY FS_Interval, SizesAssumption DEF Addr
<1>2. Taken \subseteq Addr
  BY DEF TypeOK, Taken
<1>3. IsFiniteSet(Taken)
  BY <1>1, <1>2, FS_Subset
<1>4. \A b \in Addr : size[b] \in Int /\ HDR_SIZE \in Int
  BY SizesAssumption DEF TypeOK
<1>5. QED
  BY <1>1, <1>2, <1>3, <1>4 DEF Bytes

\* A step that neither takes nor frees a block, nor resizes one that is taken.
LEMMA AcctKept ==
  ASSUME TypeOK, TypeOK', AcctInv, used' = used, Taken' = Taken,
         \A b \in Taken : size'[b] = size[b]
  PROVE  AcctInv'
<1>1. \A b \in Taken : Bytes[b] \in Int /\ Bytes'[b] = Bytes[b]
  BY TakenFinite DEF Bytes
<1>2. SumFunctionOnSet(Bytes, Taken) = SumFunctionOnSet(Bytes', Taken)
  BY <1>1, TakenFinite, SumSame
<1>3. QED
  BY <1>2 DEF AcctInv

LEMMA AcctTake ==
  ASSUME IInv, IInv', AcctInv, NEW a \in Actors, Take(a)
  PROVE  AcctInv'
<1> DEFINE b == at[a]
<1>1. b \in blocks /\ b \in Addr /\ free[b]
  BY DEF IInv, TypeOK, CallInv, Take, Holding, Fits
<1>2. Bytes' = Bytes /\ used' = used + Bytes[b]
  BY <1>1, SizesAssumption DEF Take, Bytes, IInv, TypeOK
<1>3. Taken' = Taken \cup {b} /\ b \notin Taken
  BY <1>1 DEF Take, Taken, IInv, TypeOK
<1>4. /\ IsFiniteSet(Taken') /\ b \in Taken' /\ Taken' \ {b} = Taken
      /\ \A x \in Taken' : Bytes[x] \in Int
  BY <1>1, <1>3, TakenFinite, FS_AddElement DEF IInv
<1>5. /\ SumFunctionOnSet(Bytes, Taken') = Bytes[b] + SumFunctionOnSet(Bytes, Taken)
      /\ SumFunctionOnSet(Bytes, Taken) \in Int /\ Bytes[b] \in Int
  BY <1>4, SumAdd
<1>6. used' = SumFunctionOnSet(Bytes', Taken')
  BY <1>2, <1>5 DEF AcctInv
<1>7. QED
  BY <1>6 DEF AcctInv

LEMMA AcctMark ==
  ASSUME IInv, IInv', AcctInv, NEW a \in Actors, Mark(a)
  PROVE  AcctInv'
<1> DEFINE b == at[a]
<1>1. b \in blocks /\ b \in Addr /\ ~free[b]
  BY DEF IInv, TypeOK, CallInv, Mark, Holding, Ownership, Live
<1>2. Bytes' = Bytes /\ used' = used - Bytes[b]
  BY <1>1, SizesAssumption DEF Mark, Bytes, IInv, TypeOK
<1>3. Taken' = Taken \ {b} /\ b \in Taken
  BY <1>1 DEF Mark, Taken, IInv, TypeOK
<1>4. IsFiniteSet(Taken) /\ \A x \in Taken : Bytes[x] \in Int
  BY TakenFinite DEF IInv
<1>5. /\ SumFunctionOnSet(Bytes, Taken) = Bytes[b] + SumFunctionOnSet(Bytes, Taken')
      /\ SumFunctionOnSet(Bytes, Taken') \in Int /\ Bytes[b] \in Int
  BY <1>3, <1>4, SumAdd
<1>6. used' = SumFunctionOnSet(Bytes', Taken')
  BY <1>2, <1>5 DEF AcctInv
<1>7. QED
  BY <1>6 DEF AcctInv

\* Merging touches free blocks only.
LEMMA AcctCoalesce ==
  ASSUME IInv, IInv', AcctInv, NEW b \in blocks, Coalesce(b), used' = used
  PROVE  AcctInv'
<1>1. TypeOK /\ TypeOK' /\ Tiling
  BY DEF IInv
<1>2. CASE Merges(b)
  <2> DEFINE n == next[b]
  <2>1. /\ blocks' = blocks \ {n} /\ free' = free
        /\ \A c \in Addr \ {b, n} : size'[c] = size[c]
    BY <1>1, <1>2, CoalesceEffect
  <2>2. b \notin Taken /\ n \notin Taken /\ Taken \subseteq Addr
    BY <1>1, <1>2 DEF Merges, Taken, TypeOK
  <2>3. Taken' = Taken
    BY <1>2, <2>1 DEF Taken, Merges
  <2>4. QED
    BY <1>1, <2>1, <2>2, <2>3, AcctKept
<1>3. CASE ~Merges(b)
  <2>1. UNCHANGED list
    BY <1>3 DEF Coalesce, Merges
  <2>2. QED
    BY <1>1, <2>1, AcctKept DEF list, Taken
<1>4. QED
  BY <1>2, <1>3

LEMMA AcctNext ==
  ASSUME IInv, IInv', AcctInv, [Next]_vars
  PROVE  AcctInv'
<1>1. TypeOK /\ TypeOK' /\ Tiling
  BY DEF IInv
<1>2. ASSUME UNCHANGED <<list, used>>
      PROVE  AcctInv'
  BY <1>1, <1>2, AcctKept DEF list, Taken
<1>3. CASE UNCHANGED vars
  BY <1>2, <1>3 DEF vars
<1>4. ASSUME NEW a \in Threads, NEW n \in 1..MaxRequest, MallocCall(a, n)
      PROVE  AcctInv'
  BY <1>2, <1>4 DEF MallocCall
<1>5. ASSUME NEW a \in Threads, NEW b \in Addr, NEW n \in 1..MaxRequest, ReallocCall(a, b, n)
      PROVE  AcctInv'
  BY <1>2, <1>5 DEF ReallocCall
<1>6. ASSUME NEW a \in Actors, NEW b \in Addr, FreeCall(a, b)
      PROVE  AcctInv'
  BY <1>2, <1>6 DEF FreeCall
<1>7. ASSUME NEW a \in Actors, NextBlock(a) \/ OutOfMemory(a) \/ Choose(a) \/ CopyDone(a)
      PROVE  AcctInv'
  BY <1>2, <1>7 DEF NextBlock, OutOfMemory, Choose, CopyDone
<1>8. ASSUME NEW a \in Actors, Split(a)
      PROVE  AcctInv'
  <2> DEFINE b == at[a]
             s == b + HDR_SIZE + req[a]
  <2>1. /\ b \in blocks /\ s \notin blocks /\ blocks' = blocks \cup {s}
        /\ \A c \in Addr \ {b, s} : size'[c] = size[c]
        /\ free'[s] = TRUE
        /\ \A c \in Addr \ {s} : free'[c] = free[c]
    BY <1>8, SplitEffect
  <2>2. free[b]
    BY <1>8 DEF IInv, CallInv, Split, Holding, Fits
  <2> HIDE DEF b, s
  <2>3. Taken' = Taken
    <3>1. blocks \subseteq Addr
      BY <1>1 DEF TypeOK
    <3>2. QED
      BY <2>1, <3>1 DEF Taken
  <2>4. b \notin Taken /\ s \notin Taken /\ Taken \subseteq Addr
    BY <1>1, <2>1, <2>2 DEF Taken, TypeOK
  <2>5. used' = used
    BY <1>8 DEF Split
  <2>6. QED
    BY <1>1, <2>1, <2>3, <2>4, <2>5, AcctKept
<1>9. ASSUME NEW a \in Actors, MergeNext(a)
      PROVE  AcctInv'
  <2>1. at[a] \in blocks
    BY <1>9 DEF IInv, CallInv, MergeNext, Holding
  <2>2. QED
    BY <1>9, <2>1, AcctCoalesce DEF MergeNext
<1>10. ASSUME NEW a \in Actors, MergePrev(a)
       PROVE  AcctInv'
  <2> DEFINE p == prev[at[a]]
  <2>1. at[a] \in blocks /\ used' = used
    BY <1>10 DEF IInv, CallInv, MergePrev, Holding
  <2>2. CASE p # NULL /\ free[p]
    <3>1. p \in blocks
      BY <1>1, <2>1, <2>2 DEF Tiling
    <3>2. Coalesce(p)
      BY <1>10, <2>2 DEF MergePrev
    <3>3. QED
      BY <2>1, <3>1, <3>2, AcctCoalesce
  <2>3. CASE ~(p # NULL /\ free[p])
    BY <1>2, <1>10, <2>1, <2>3 DEF MergePrev
  <2>4. QED
    BY <2>2, <2>3
<1>11. QED
  BY <1>3, <1>4, <1>5, <1>6, <1>7, <1>8, <1>9, <1>10, AcctTake, AcctMark DEF Next, Step

\* heap_used is the sum of the allocated blocks and their headers, for any
\* arena: no split or merge, and no interleaving of callers, makes it drift.
THEOREM UsedIsRight == Spec => []Accounting
<1>1. Init => AcctInv
  <2>1. SUFFICES ASSUME Init PROVE AcctInv
    OBVIOUS
  <2>2. Taken = {} /\ used = 0
    BY <2>1, Bounds DEF Init, Taken
  <2>3. QED
    BY <2>2, SumEmpty DEF AcctInv
<1>2. IInv /\ AcctInv /\ [Next]_vars => (IInv /\ AcctInv)'
  BY NextInv, AcctNext
<1>3. AcctInv => Accounting
  BY DEF AcctInv, Accounting
<1>4. QED
  BY <1>1, <1>2, <1>3, InitInv, PTL DEF Spec
=============================================================================
