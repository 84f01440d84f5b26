------------------------------- MODULE Memory -------------------------------
(***************************************************************************)
(* Physical memory while the kernel starts: the page bitmap (pmm.c), the   *)
(* heap's arena cut from it (heap_init), and the driver's MMIO window and  *)
(* rings (e1000_init) with the page tables of vmm.c.  One thread runs, in  *)
(* the order of _start, and nothing is ever given back: nobody calls       *)
(* pmm_free_pages or vmm_unmap_page.                                       *)
(*                                                                         *)
(* Addresses are page numbers.  A virtual address is the sequence of its   *)
(* four indices.                                                           *)
(***************************************************************************)
EXTENDS Integers, Sequences, FiniteSets, FiniteSetsExt, SequencesExt, Functions

CONSTANTS Machines,       \* the machines: memory map and boot page tables
          PER_PAGE,       \* pages that one page of bitmap describes (32768)
          HEAP_MAX, HEAP_MIN, RX_DESC_COUNT, TX_DESC_COUNT,
          NULL

ASSUME MemoryAssumption ==
  /\ {PER_PAGE, HEAP_MAX, HEAP_MIN} \subseteq Nat \ {0}
  /\ {RX_DESC_COUNT, TX_DESC_COUNT} \subseteq Nat

Pages(r) == r.start .. r.start + r.count - 1

\* The indices that lead to the page tables on the way to the window.
Places(m) ==
  {<<>>} \cup {SubSeq(m.window[i].path, 1, k) : i \in DOMAIN m.window, k \in 1..3}

\* What the boot loader hands over.  Its page tables are a tree as far as the window
\* is concerned: what an entry on the way leads to is in one place only (followed as
\* a table, as get_next_level does, even where it maps a huge page), and no table is
\* in memory that is reported as usable.  Page 0 is neither usable nor a table: the
\* boot protocol of Limine keeps 0 to 0x1000 out of usable memory, on which pmm_init
\* does not rely ("just in case", pmm.c:97) but e1000_init does.
ASSUME MachinesAssumption ==
  \A m \in Machines :
    /\ m.map \in Seq([start : Nat, count : Nat, usable : BOOLEAN, counted : BOOLEAN])
    /\ \E i \in DOMAIN m.map : m.map[i].counted
    /\ m.window \in Seq([path : Seq(Nat), to : Nat])
    /\ \A i, j \in DOMAIN m.window :
         /\ Len(m.window[i].path) = 4
         /\ m.window[i].path = m.window[j].path => i = j
    /\ \E T \in SUBSET ({m.pml4} \cup {x.to : x \in Range(m.entries)}) :
         LET Reported(t) == \E i \in DOMAIN m.map : m.map[i].usable /\ t \in Pages(m.map[i])
         IN  /\ m.pml4 \in T
             /\ 0 \notin T /\ ~Reported(0)
             /\ \A t \in T \cup {e[1] : e \in DOMAIN m.entries} : ~Reported(t)
             /\ \E place \in [T -> Places(m)] :
                  /\ place[m.pml4] = <<>>
                  /\ \A e \in DOMAIN m.entries :
                       e[1] \in T /\ Append(place[e[1]], e[2]) \in Places(m) =>
                         /\ m.entries[e].to \in T
                         /\ place[m.entries[e].to] = Append(place[e[1]], e[2])

VARIABLES
  machine,    \* the machine we are on
  bitmap,     \* the pages that are marked used; NULL: no bitmap
  handed,     \* what pmm_alloc_pages returned: [start, count], in order
  step,       \* what _start does next
  entries,    \* <<table, index>> to the page behind it
  walk,       \* vmm_map_page: the table that it has reached, and the level
  ring        \* how many of the rings' allocations are done

memory == <<machine, bitmap, handed, step, entries, walk, ring>>

-----------------------------------------------------------------------------
(* pmm.c                                                                   *)

highest_page == Max({r.start + r.count : r \in {s \in Range(machine.map) : s.counted}})

bitmap_size == (highest_page + PER_PAGE - 1) \div PER_PAGE

\* The first usable region that is large enough.
bitmap_phys ==
  LET fits == {i \in DOMAIN machine.map :
                 machine.map[i].usable /\ machine.map[i].count >= bitmap_size}
  IN  IF fits = {} THEN NULL ELSE machine.map[Min(fits)].start

Usable == UNION {Pages(r) : r \in {s \in Range(machine.map) : s.usable}}

BitmapPages == bitmap_phys .. bitmap_phys + bitmap_size - 1

\* Mutant: the bitmap's own pages are free.
pmm_init_Unmarked ==
  /\ step = "pmm"
  /\ bitmap' = IF bitmap_phys = NULL THEN NULL
               ELSE ((0 .. highest_page - 1) \ Usable) \cup {0}
  /\ step' = "heap"
  /\ UNCHANGED <<machine, handed, entries, walk, ring>>

pmm_init ==
  /\ step = "pmm"
  /\ bitmap' = IF bitmap_phys = NULL THEN NULL
               ELSE ((0 .. highest_page - 1) \ Usable) \cup BitmapPages \cup {0}
  /\ step' = "heap"
  /\ UNCHANGED <<machine, handed, entries, walk, ring>>

\* Where count free pages follow each other.
Runs(count) ==
  {s \in 1 .. highest_page - count : (s .. s + count - 1) \cap bitmap = {}}

\* The first fit, or NULL.
pmm_alloc_pages(count) ==
  IF count = 0 \/ Runs(count) = {} THEN NULL ELSE Min(Runs(count))

Take(start, count) ==
  /\ bitmap' = IF start = NULL THEN bitmap ELSE bitmap \cup (start .. start + count - 1)
  /\ handed' = Append(handed, [start |-> start,
                               count |-> IF start = NULL THEN 0 ELSE count])

-----------------------------------------------------------------------------
(* heap_init asks for HEAP_MAX, for half of it, ...                        *)

Wants == {w \in HEAP_MIN .. HEAP_MAX : \E k \in 0..HEAP_MAX : w = HEAP_MAX \div 2^k}

\* Without a bitmap the first test reads from address 0, which is undefined:
\* that is where the model stops.
heap_init ==
  LET got == {w \in Wants : pmm_alloc_pages(w) # NULL}
      want == IF got = {} THEN 0 ELSE Max(got)
  IN
  /\ step = "heap"
  /\ bitmap # NULL
  /\ Take(pmm_alloc_pages(want), want)
  /\ step' = "map"
  /\ UNCHANGED <<machine, entries, walk, ring>>

-----------------------------------------------------------------------------
(* e1000_init maps its window, page after page.                            *)

Start_walk == [table |-> machine.pml4, level |-> 1, page |-> 1]

\* vmm_init takes over the page tables of the boot loader.  There may be no
\* network card.
pci_find ==
  /\ step = "map" /\ walk = NULL
  /\ IF machine.window = <<>>
     THEN step' = "done" /\ UNCHANGED walk
     ELSE walk' = Start_walk /\ UNCHANGED step
  /\ UNCHANGED <<machine, bitmap, handed, entries, ring>>

Next_page ==
  IF walk.page < Len(machine.window)
  THEN walk' = [Start_walk EXCEPT !.page = walk.page + 1] /\ UNCHANGED step
  ELSE walk' = NULL /\ step' = "rings"

Slot_of_walk == <<walk.table, machine.window[walk.page].path[walk.level]>>

\* The next level is a table if its entry is present: whether the entry maps a
\* huge page is not looked at.
get_next_level ==
  /\ walk # NULL /\ walk.level < 4
  /\ \/ /\ Slot_of_walk \in DOMAIN entries
        /\ walk' = [walk EXCEPT !.table = entries[Slot_of_walk].to, !.level = @ + 1]
        /\ UNCHANGED <<bitmap, handed, entries, step>>
     \/ /\ Slot_of_walk \notin DOMAIN entries
        /\ LET t == pmm_alloc_pages(1)
           IN  /\ Take(t, 1)
               /\ IF t = NULL
                  THEN Next_page /\ UNCHANGED entries
                  ELSE /\ entries' = [e \in DOMAIN entries \cup {Slot_of_walk} |->
                            IF e = Slot_of_walk THEN [to |-> t, huge |-> FALSE]
                            ELSE entries[e]]
                       /\ walk' = [walk EXCEPT !.table = t, !.level = @ + 1]
                       /\ UNCHANGED step
  /\ UNCHANGED <<machine, ring>>

vmm_map_page ==
  /\ walk # NULL /\ walk.level = 4
  /\ entries' = [e \in DOMAIN entries \cup {Slot_of_walk} |->
                   IF e = Slot_of_walk
                   THEN [to |-> machine.window[walk.page].to, huge |-> FALSE]
                   ELSE entries[e]]
  /\ Next_page
  /\ UNCHANGED <<machine, bitmap, handed, ring>>

\* Ring, buffers, ring, buffers: nobody looks whether a page was had.  After a
\* failure the device is told to use page 0, and the driver itself fills the ring
\* there (e1000.c:185, 198): at most 512 bytes, in a page that is nobody's by
\* MachinesAssumption.  Nothing else is written before the last page is asked for.
Requests == [i \in 1 .. RX_DESC_COUNT + 2 |-> 1] \o <<TX_DESC_COUNT \div 2>>

e1000_init ==
  /\ step = "rings"
  /\ ring' = ring + 1
  /\ Take(pmm_alloc_pages(Requests[ring']), Requests[ring'])
  /\ step' = IF ring' = Len(Requests) THEN "done" ELSE step
  /\ UNCHANGED <<machine, entries, walk>>

MemoryInit ==
  /\ machine \in Machines
  /\ bitmap = NULL /\ handed = <<>> /\ step = "pmm" /\ walk = NULL /\ ring = 0
  /\ entries = machine.entries

MemoryStep ==
  \/ pmm_init
  \/ heap_init
  \/ pci_find
  \/ get_next_level
  \/ vmm_map_page
  \/ e1000_init

\* What the processor makes of an address: it stops at a huge page.
Translate(path) ==
  LET through[i \in 0..4] ==
        IF i = 0 THEN [to |-> machine.pml4, huge |-> FALSE]
        ELSE IF through[i-1].huge THEN through[i-1]
        ELSE IF <<through[i-1].to, path[i]>> \in DOMAIN entries
             THEN entries[<<through[i-1].to, path[i]>>]
        ELSE [to |-> NULL, huge |-> FALSE]
  IN  through[4]

RanOut == \E i \in DOMAIN handed : handed[i].start = NULL

Mapped == Range(machine.entries)

\* Everything that has been handed out lies in usable memory, apart from page
\* 0, from the bitmap and from every other piece, and is marked used, so that it
\* will not be handed out again.  Page-table entries are written into page
\* tables only, and when the rings are set up the window is mapped to the card,
\* unless a page for a table could not be had - both but for a huge page of the
\* boot loader's direct map, which is taken for a table and stays what maps it.
MemoryTruth ==
  /\ \A i \in DOMAIN handed :
       LET p == Pages(handed[i])
       IN  handed[i].start # NULL =>
             /\ p \subseteq (Usable \ {0}) \cap bitmap
             /\ p \cap BitmapPages = {}
             /\ \A j \in 1 .. i - 1 : handed[j].start = NULL \/ p \cap Pages(handed[j]) = {}
  /\ \A e \in DOMAIN entries \ DOMAIN machine.entries :
       \/ e[1] \in {machine.pml4} \cup {m.to : m \in Mapped}
       \/ \E i \in 2 .. Len(handed) : handed[i] = [start |-> e[1], count |-> 1]
  /\ step \in {"rings", "done"} =>
       \A i \in DOMAIN machine.window :
         \/ Translate(machine.window[i].path).huge
         \/ Translate(machine.window[i].path).to = machine.window[i].to
         \/ RanOut
=============================================================================
