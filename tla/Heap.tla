-------------------------------- MODULE Heap --------------------------------
(***************************************************************************)
(* The kernel heap (heap.c): a first-fit free list with coalescing over    *)
(* one arena, shared by the threads and the timer interrupt, which frees   *)
(* the stacks and structs of dead threads.  Interrupts are off from        *)
(* heap_lock to heap_unlock; lock names who turned them off.  Every other  *)
(* point of a call can be interrupted.                                     *)
(*                                                                         *)
(* A block is the address of its header.  The memory of a header that has  *)
(* been merged into another block holds payload: it is reset to NoBlock.   *)
(***************************************************************************)
EXTENDS Integers, FiniteSets, FiniteSetsExt

CONSTANTS Threads,    \* callers of malloc, realloc and free
          Isr,        \* the timer interrupt: reap_zombies only frees
          NULL,
          Size,       \* total_size
          HDR_SIZE,
          ALIGNMENT,
          MaxRequest  \* bound on the size argument of malloc and realloc

ASSUME SizesAssumption == /\ ALIGNMENT \in Nat \ {0}
                          /\ HDR_SIZE \in Nat \ {0}
                          /\ Size \in Nat
                          /\ Size > HDR_SIZE
                          /\ MaxRequest \in Nat

ASSUME NamesAssumption == /\ NULL \notin Nat
                          /\ Isr \notin Threads
                          /\ NULL \notin Threads \cup {Isr}

Actors == Threads \cup {Isr}
Addr == 0..(Size - 1)

VARIABLES
  size,    \* Block.size
  free,    \* Block.free
  next,    \* Block.next
  prev,    \* Block.prev
  used,    \* used_size
  lock,    \* the actor between heap_lock and heap_unlock
  pc,      \* where the actor is in its call
  at,      \* the block b the call is working on
  req,     \* the size searched for, rounded up
  old,     \* the block realloc is moving
  held,    \* the blocks whose payload belongs to a caller
  blocks,  \* history: the headers that are linked into the list
  asked    \* history: the size the holder of a block asked for, rounded up

list == <<size, free, next, prev, blocks>>
call == <<pc, at, req, old, lock>>
vars == <<list, used, call, held, asked>>

Labels == {"idle", "search", "split", "take", "copy", "mark", "next", "prev"}

End(b) == b + HDR_SIZE + size[b]

RoundUp(n) == IF n % ALIGNMENT = 0 THEN n ELSE n + (ALIGNMENT - (n % ALIGNMENT))

-----------------------------------------------------------------------------
\* heap_init: the arena is one free block.
Init ==
  /\ size = [a \in Addr |-> IF a = 0 THEN Size - HDR_SIZE ELSE 0]
  /\ free = [a \in Addr |-> TRUE]
  /\ next = [a \in Addr |-> NULL]
  /\ prev = [a \in Addr |-> NULL]
  /\ used = 0
  /\ lock = NULL
  /\ pc = [a \in Actors |-> "idle"]
  /\ at = [a \in Actors |-> NULL]
  /\ req = [a \in Actors |-> 0]
  /\ old = [a \in Actors |-> NULL]
  /\ held = {}
  /\ blocks = {0}
  /\ asked = [a \in Addr |-> 0]

\* Mutant: heap_lock leaves interrupts on.
Interruptible_Unlocked(a, label) == pc[a] = label

Interruptible(a, label) == lock = NULL /\ pc[a] = label

\* Only the actor that turned interrupts off is at a label inside a call.
Holding(a, label) == pc[a] = label

Lock(a, label, b) ==
  /\ lock' = a
  /\ pc' = [pc EXCEPT ![a] = label]
  /\ at' = [at EXCEPT ![a] = b]

Unlock(a, label) ==
  /\ lock' = NULL
  /\ pc' = [pc EXCEPT ![a] = label]

Goto(a, label) == pc' = [pc EXCEPT ![a] = label]

-----------------------------------------------------------------------------
(* malloc, and realloc, which calls it when the block is too small.        *)

MallocCall(a, n) ==
  /\ Interruptible(a, "idle")
  /\ Lock(a, "search", 0)
  /\ req' = [req EXCEPT ![a] = RoundUp(n)]
  /\ UNCHANGED <<list, used, old, held, asked>>

ReallocCall(a, b, n) ==
  /\ Interruptible(a, "idle")
  /\ b \in held
  /\ size[b] < n
  /\ Lock(a, "search", 0)
  /\ req' = [req EXCEPT ![a] = RoundUp(n)]
  /\ old' = [old EXCEPT ![a] = b]
  /\ held' = held \ {b}
  /\ UNCHANGED <<list, used, asked>>

\* Mutant: the comparison forgets a unit.
Fits_Loose(b, n) == free[b] /\ size[b] + ALIGNMENT >= n

Fits(b, n) == free[b] /\ size[b] >= n

\* Mutant: the search resumes one block too far.
NextBlock_Skip(a) ==
  /\ Holding(a, "search")
  /\ ~Fits(at[a], req[a])
  /\ next[at[a]] # NULL
  /\ at' = [at EXCEPT ![a] = IF next[next[at[a]]] = NULL
                             THEN next[at[a]] ELSE next[next[at[a]]]]
  /\ UNCHANGED <<list, used, lock, pc, req, old, held, asked>>

NextBlock(a) ==
  /\ Holding(a, "search")
  /\ ~Fits(at[a], req[a])
  /\ next[at[a]] # NULL
  /\ at' = [at EXCEPT ![a] = next[at[a]]]
  /\ UNCHANGED <<list, used, lock, pc, req, old, held, asked>>

\* malloc returns NULL; realloc leaves the old block with its owner.
OutOfMemory(a) ==
  /\ Holding(a, "search")
  /\ ~Fits(at[a], req[a])
  /\ next[at[a]] = NULL
  /\ Unlock(a, "idle")
  /\ at' = [at EXCEPT ![a] = NULL]
  /\ req' = [req EXCEPT ![a] = 0]
  /\ old' = [old EXCEPT ![a] = NULL]
  /\ held' = held \cup ({old[a]} \ {NULL})
  /\ UNCHANGED <<list, used, asked>>

\* The remainder can hold a header plus minimal payload.
WorthSplitting(b, n) == size[b] >= n + HDR_SIZE + ALIGNMENT

Choose(a) ==
  /\ Holding(a, "search")
  /\ Fits(at[a], req[a])
  /\ Goto(a, IF WorthSplitting(at[a], req[a]) THEN "split" ELSE "take")
  /\ UNCHANGED <<list, used, lock, at, req, old, held, asked>>

Split(a) ==
  /\ Holding(a, "split")
  /\ LET b == at[a]
         s == b + HDR_SIZE + req[a]
     IN /\ size' = [size EXCEPT ![s] = size[b] - req[a] - HDR_SIZE, ![b] = req[a]]
        /\ free' = [free EXCEPT ![s] = TRUE]
        /\ next' = [next EXCEPT ![s] = next[b], ![b] = s]
        /\ prev' = [x \in Addr |-> CASE x = s -> b
                                     [] x = next[b] -> s
                                     [] OTHER -> prev[x]]
        /\ blocks' = blocks \cup {s}
  /\ Goto(a, "take")
  /\ UNCHANGED <<used, lock, at, req, old, held, asked>>

Take(a) ==
  /\ Holding(a, "take")
  /\ free' = [free EXCEPT ![at[a]] = FALSE]
  /\ used' = used + size[at[a]] + HDR_SIZE
  /\ asked' = [asked EXCEPT ![at[a]] = req[a]]
  /\ req' = [req EXCEPT ![a] = 0]
  /\ IF old[a] = NULL
     THEN /\ Unlock(a, "idle")
          /\ at' = [at EXCEPT ![a] = NULL]
          /\ held' = held \cup {at[a]}
     ELSE /\ Unlock(a, "copy")
          /\ UNCHANGED <<at, held>>
  /\ UNCHANGED <<size, next, prev, blocks, old>>

\* realloc has copied the old payload: it frees the old block and returns.
CopyDone(a) ==
  /\ Interruptible(a, "copy")
  /\ Lock(a, "mark", old[a])
  /\ old' = [old EXCEPT ![a] = NULL]
  /\ held' = held \cup {at[a]}
  /\ UNCHANGED <<list, used, req, asked>>

-----------------------------------------------------------------------------
(* free                                                                    *)

FreeCall(a, b) ==
  /\ Interruptible(a, "idle")
  /\ b \in held
  /\ Lock(a, "mark", b)
  /\ held' = held \ {b}
  /\ UNCHANGED <<list, used, req, old, asked>>

\* Mutant: used_size is reduced by the payload only.
Mark_PayloadOnly(a) ==
  /\ Holding(a, "mark")
  /\ free' = [free EXCEPT ![at[a]] = TRUE]
  /\ used' = used - size[at[a]]
  /\ asked' = [asked EXCEPT ![at[a]] = 0]
  /\ Goto(a, "next")
  /\ UNCHANGED <<size, next, prev, blocks, lock, at, req, old, held>>

\* The test for a double free, then the block is free again.
Mark(a) ==
  /\ Holding(a, "mark")
  /\ IF free[at[a]]
     THEN /\ Unlock(a, "idle")
          /\ at' = [at EXCEPT ![a] = NULL]
          /\ UNCHANGED <<free, used, asked>>
     ELSE /\ free' = [free EXCEPT ![at[a]] = TRUE]
          /\ used' = used - (size[at[a]] + HDR_SIZE)
          /\ asked' = [asked EXCEPT ![at[a]] = 0]
          /\ Goto(a, "next")
          /\ UNCHANGED <<lock, at>>
  /\ UNCHANGED <<size, next, prev, blocks, req, old, held>>

\* Mutant: the back pointer of the block behind n is not updated.
Coalesce_StalePrev(b) ==
  LET n == next[b] IN
    IF n # NULL /\ free[n] /\ free[b]
    THEN /\ size' = [size EXCEPT ![b] = @ + HDR_SIZE + size[n], ![n] = 0]
         /\ next' = [next EXCEPT ![b] = next[n], ![n] = NULL]
         /\ prev' = [prev EXCEPT ![n] = NULL]
         /\ blocks' = blocks \ {n}
         /\ free' = free
    ELSE UNCHANGED list

\* coalesce_with_next
Coalesce(b) ==
  LET n == next[b] IN
    IF n # NULL /\ free[n] /\ free[b]
    THEN /\ size' = [size EXCEPT ![b] = @ + HDR_SIZE + size[n], ![n] = 0]
         /\ next' = [next EXCEPT ![b] = next[n], ![n] = NULL]
         /\ prev' = [x \in Addr |-> CASE x = n -> NULL
                                      [] x = next[n] -> b
                                      [] OTHER -> prev[x]]
         /\ blocks' = blocks \ {n}
         /\ free' = free
    ELSE UNCHANGED list

MergeNext(a) ==
  /\ Holding(a, "next")
  /\ Coalesce(at[a])
  /\ Goto(a, "prev")
  /\ UNCHANGED <<used, lock, at, req, old, held, asked>>

MergePrev(a) ==
  /\ Holding(a, "prev")
  /\ IF prev[at[a]] # NULL /\ free[prev[at[a]]]
     THEN Coalesce(prev[at[a]])
     ELSE UNCHANGED list
  /\ Unlock(a, "idle")
  /\ at' = [at EXCEPT ![a] = NULL]
  /\ UNCHANGED <<used, req, old, held, asked>>

-----------------------------------------------------------------------------
Step(a) ==
  \/ NextBlock(a)
  \/ OutOfMemory(a)
  \/ Choose(a)
  \/ Split(a)
  \/ Take(a)
  \/ CopyDone(a)
  \/ Mark(a)
  \/ MergeNext(a)
  \/ MergePrev(a)

Next ==
  \/ \E a \in Threads, n \in 1..MaxRequest : MallocCall(a, n)
  \/ \E a \in Threads, b \in Addr, n \in 1..MaxRequest : ReallocCall(a, b, n)
  \/ \E a \in Actors, b \in Addr : FreeCall(a, b)
  \/ \E a \in Actors : Step(a)

Spec == Init /\ [][Next]_vars

-----------------------------------------------------------------------------
(* Properties.                                                             *)

\* The type of every variable; no block grows beyond the arena.
TypeOK ==
  /\ size \in [Addr -> 0..Size]
  /\ free \in [Addr -> BOOLEAN]
  /\ next \in [Addr -> Addr \cup {NULL}]
  /\ prev \in [Addr -> Addr \cup {NULL}]
  /\ used \in Int
  /\ lock \in Actors \cup {NULL}
  /\ pc \in [Actors -> Labels]
  /\ at \in [Actors -> Addr \cup {NULL}]
  /\ req \in [Actors -> Nat]
  /\ old \in [Actors -> Addr \cup {NULL}]
  /\ held \subseteq Addr
  /\ blocks \subseteq Addr
  /\ asked \in [Addr -> Nat]

\* The list, in address order and in both directions, tiles the arena at every
\* instant, even half way through malloc and free: each block ends where the
\* next one starts, the last one at the end of the arena.
Tiling ==
  /\ 0 \in blocks
  /\ \A b \in blocks :
       /\ next[b] = IF End(b) = Size THEN NULL ELSE End(b)
       /\ next[b] # NULL => next[b] \in blocks /\ prev[next[b]] = b
       /\ b # 0 => prev[b] \in blocks /\ next[prev[b]] = b
  /\ prev[0] = NULL
  /\ \A b, c \in blocks : b < c => End(b) <= c

\* No free memory is ever lost to fragmentation that coalescing could undo:
\* whenever interrupts are on, no two neighbours are both free.
Coalesced ==
  lock = NULL =>
    \A b \in blocks : next[b] # NULL => ~(free[b] /\ free[next[b]])

\* The allocated blocks, and what each block occupies, its header included.
Taken == {b \in blocks : ~free[b]}
Bytes == [b \in Addr |-> size[b] + HDR_SIZE]

\* heap_used reports what is allocated, headers included: no call, whatever it
\* splits or merges, makes used_size drift or wrap below zero.
Accounting == lock = NULL => used = SumFunctionOnSet(Bytes, Taken)

\* The blocks that callers hold, realloc is moving or free is about to mark.
Live == held \cup ({old[a] : a \in Actors} \ {NULL})
             \cup {at[a] : a \in {x \in Actors : pc[x] \in {"copy", "mark"}}}

\* A block is marked allocated exactly while somebody owns it, and it has one
\* owner: nothing in use is handed out again or freed under its owner, "double
\* free" (heap.c:138) is never reported, and no block leaks.
Ownership ==
  /\ Live = {b \in blocks : ~free[b]}
  /\ \A a \in Actors :
       /\ old[a] \notin held
       /\ pc[a] \in {"copy", "mark"} => at[a] \notin held
       /\ \A c \in Actors :
            /\ old[a] # NULL /\ a # c => old[c] # old[a]
            /\ pc[a] \in {"copy", "mark"} =>
                 /\ old[c] # at[a]
                 /\ a # c /\ pc[c] \in {"copy", "mark"} => at[c] # at[a]

\* An owner has what it asked for, and the block has less slack than a split
\* would have recovered; what realloc copies fits in the new block.
RightSize ==
  /\ \A b \in Live :
       1 <= asked[b] /\ asked[b] <= size[b] /\ ~WorthSplitting(b, asked[b])
  /\ \A a \in Actors : pc[a] = "copy" => size[old[a]] < size[at[a]]

\* The variables have their types, the blocks tile the arena, merged, and each
\* that is allocated is the right one for its owner.
Inv == TypeOK /\ Tiling /\ Coalesced /\ Ownership /\ RightSize

\* malloc takes the first block that is large enough and reports "out of
\* memory" only when there is none.
FirstFit ==
  [][\A a \in Threads :
       /\ Take(a) => \A b \in blocks : b < at[a] => ~Fits(b, req[a])
       /\ OutOfMemory(a) => \A b \in blocks : ~Fits(b, req[a])]_vars

Promise == INSTANCE Allocator WITH
             live <- {[base |-> b + HDR_SIZE, len |-> size[b]] :
                        b \in {c \in blocks : ~free[c]}}

\* The free list implements the abstract allocator: allocations appear and
\* disappear whole, never overlap, and never change while they live.
Implements == Promise!Spec
=============================================================================
