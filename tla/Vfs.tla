-------------------------------- MODULE Vfs ---------------------------------
(***************************************************************************)
(* The file system in memory (vfs.c): nodes from the heap, linked into a   *)
(* tree.  It has no lock: the boot code and then the shell thread are its  *)
(* only users.  What takes several allocations, vfs_mkdirs and the writes  *)
(* of a command, is a list of requests (todo) that are carried out one     *)
(* after another, for each allocation can fail.                            *)
(*                                                                         *)
(* A freed node keeps its bytes until its memory is handed out again: cwd  *)
(* may still point to it, and so may the parent of a node below it.        *)
(***************************************************************************)
EXTENDS Integers, Sequences, FiniteSets, SequencesExt

CONSTANTS Slots,          \* where calloc can put a node
          Root,           \* root_node, which is static
          NULL,
          Names,          \* names of up to 63 characters
          Long, LongCut,  \* a longer name, and its first 63 characters
          MIN_CAP         \* the capacity a file gets first (64 bytes)

ASSUME VfsAssumption ==
  /\ IsFiniteSet(Slots)
  /\ Root \notin Slots /\ NULL \notin Slots \cup {Root}
  /\ LongCut \in Names /\ Long \notin Names
  /\ {".", ".."} \cap (Names \cup {Long}) = {}
  /\ MIN_CAP \in Nat \ {0}

VARIABLES
  nodes,    \* the fields of every node
  live,     \* the slots that are allocated
  cwd,      \* the shell's current directory
  at,       \* the node the requests are about
  off,      \* the offset the next write goes to
  todo,     \* the requests that are left
  missed    \* history: a write of the last request list ran out of memory

vfs == <<nodes, live>>
request == <<at, off, todo, missed>>

Node == Slots \cup {Root}
Zero == 0

Blank == [name |-> NULL, is_dir |-> FALSE, readonly |-> FALSE, data |-> <<>>,
          cap |-> 0, parent |-> NULL, children |-> <<>>]

OnlyRoot == [n \in Node |-> [Blank EXCEPT !.is_dir = (n = Root)]]

VfsInit ==
  /\ nodes = OnlyRoot
  /\ live = {}
  /\ at = NULL /\ off = 0 /\ todo = <<>> /\ missed = FALSE

-----------------------------------------------------------------------------
(* Paths: [abs |-> whether it starts with /, comps |-> its components].    *)

Parent(n) == IF nodes[n].parent = NULL THEN n ELSE nodes[n].parent

dir_find(dir, name) ==
  LET hit == SelectInSeq(nodes[dir].children, LAMBDA c : nodes[c].name = name)
  IN  IF hit = 0 THEN NULL ELSE nodes[dir].children[hit]

Start(path) == IF path.abs \/ cwd = NULL THEN Root ELSE cwd

\* The node after i components.  All before the last must be directories, but
\* the one it starts from is not looked at.
Walk(path, last) ==
  LET node[i \in 0..last] ==
        IF i = 0 THEN Start(path)
        ELSE LET cur == node[i-1]
                 comp == path.comps[i]
             IN  IF cur = NULL \/ (i > 1 /\ cur # NULL /\ ~nodes[cur].is_dir)
                 THEN NULL
                 ELSE CASE comp = "." -> cur
                        [] comp = ".." -> Parent(cur)
                        [] OTHER -> dir_find(cur, comp)
  IN  node[last]

vfs_resolve(path) == Walk(path, Len(path.comps))

vfs_resolve_parent(path) ==
  IF path.comps = <<>> THEN NULL
  ELSE LET dir == Walk(path, Len(path.comps) - 1)
       IN  IF dir # NULL /\ Len(path.comps) > 1 /\ ~nodes[dir].is_dir
           THEN NULL ELSE dir

\* The nodes from n upwards in ns, freed ones included.
Chain(ns, n) ==
  LET up[i \in 0..Cardinality(Node)] ==
        IF i = 0 THEN n
        ELSE IF ns[up[i-1]].parent = NULL THEN up[i-1] ELSE ns[up[i-1]].parent
  IN  {up[i] : i \in DOMAIN up}

\* Mutant: the names in the order in which they are found.
vfs_node_path_Reversed(n, depth, room) ==
  LET up[i \in 0..depth] == IF i = 0 THEN n ELSE Parent(up[i-1])
      named == {i \in 0..(depth - 1) : nodes[up[i]].parent # NULL}
      len == Cardinality(named)
  IN  [abs |-> TRUE,
       comps |-> [i \in 1..(IF len < room THEN len ELSE room) |->
                    nodes[up[i - 1]].name]]

\* At most depth names, from the node upwards, of which the first room fit.
vfs_node_path(n, depth, room) ==
  LET up[i \in 0..depth] == IF i = 0 THEN n ELSE Parent(up[i-1])
      named == {i \in 0..(depth - 1) : nodes[up[i]].parent # NULL}
      len == Cardinality(named)
  IN  [abs |-> TRUE,
       comps |-> [i \in 1..(IF len < room THEN len ELSE room) |->
                    nodes[up[len - i]].name]]

-----------------------------------------------------------------------------
(* Nodes come and go.                                                      *)

\* Freed memory that nothing leads to is forgotten.
Forget(ns, lv, dir) ==
  [n \in Node |-> IF n \in lv \cup Chain(ns, dir) \cup {Root} THEN ns[n] ELSE Blank]

\* Mutant: nobody looks whether the name is taken.
Creatable_Again(dir, name) == nodes[dir].is_dir /\ name \in Names

Creatable(dir, name) ==
  /\ nodes[dir].is_dir
  /\ name \in Names
  /\ dir_find(dir, name) = NULL

\* vfs_create: calloc may return any free slot, also the one of a freed
\* directory it is about to link the node into.
Create(dir, name, is_dir) ==
  /\ Creatable(dir, name)
  /\ \E n \in Slots \ live :
       /\ nodes' = [[nodes EXCEPT ![n] =
                       [Blank EXCEPT !.name = name, !.is_dir = is_dir, !.parent = dir]]
                    EXCEPT ![dir].children = <<n>> \o @]
       /\ live' = live \cup {n}
       /\ at' = n

\* Mutant: a directory goes with all that is in it.
Unlinkable_NotEmpty(n) ==
  /\ n # Root
  /\ n \in Range(nodes[Parent(n)].children)

Unlinkable(n) ==
  /\ n # Root
  /\ nodes[n].is_dir => nodes[n].children = <<>>
  /\ n \in Range(nodes[Parent(n)].children)

vfs_unlink(n) ==
  /\ Unlinkable(n)
  /\ live' = live \ {n}
  /\ nodes' = Forget([nodes EXCEPT ![nodes[n].parent].children = RemoveFirst(@, n)],
                     live', cwd)

-----------------------------------------------------------------------------
(* Requests.                                                               *)

Enters(comps) == [i \in DOMAIN comps |-> [op |-> "enter", name |-> comps[i]]]
Make(name) == <<[op |-> "make", name |-> name]>>
Truncate == <<[op |-> "truncate"]>>
Put(cells) == <<[op |-> "put", cells |-> cells]>>
Attach(cells) == <<[op |-> "attach", cells |-> cells]>>

Doing(op) == todo # <<>> /\ Head(todo).op = op

Give_up == at' = NULL /\ todo' = <<>>

\* One component of vfs_mkdirs.
Enter ==
  LET name == Head(todo).name
      next == CASE name = "." -> at
                [] name = ".." -> Parent(at)
                [] OTHER -> dir_find(at, name)
      isDots == name \in {".", ".."}
  IN
  /\ Doing("enter")
  /\ \/ /\ next # NULL
        /\ isDots \/ nodes[next].is_dir
        /\ at' = next
        /\ todo' = Tail(todo)
        /\ UNCHANGED vfs
     \/ /\ next # NULL
        /\ ~isDots /\ ~nodes[next].is_dir
        /\ Give_up
        /\ UNCHANGED vfs
     \/ /\ next = NULL
        /\ Create(at, name, TRUE)
        /\ todo' = Tail(todo)
     \/ /\ next = NULL      \* no memory, a long name, or not a directory
        /\ Give_up
        /\ UNCHANGED vfs
  /\ UNCHANGED <<cwd, off, missed>>

\* vfs_create of a file.
MakeFile ==
  /\ Doing("make")
  /\ \/ /\ Create(at, Head(todo).name, FALSE)
        /\ todo' = Tail(todo)
     \/ /\ Give_up
        /\ UNCHANGED vfs
  /\ UNCHANGED <<cwd, off, missed>>

\* Mutant: the size stays.
TruncateFile_Not ==
  /\ Doing("truncate")
  /\ todo' = Tail(todo)
  /\ UNCHANGED <<vfs, cwd, at, off, missed>>

\* vfs_truncate to nothing keeps the buffer.
TruncateFile ==
  /\ Doing("truncate")
  /\ nodes' = [nodes EXCEPT ![at].data = <<>>]
  /\ todo' = Tail(todo)
  /\ UNCHANGED <<live, cwd, at, off, missed>>

\* data with cells at offset o, after zeros where it was shorter.
Written(data, o, cells) ==
  LET end == o + Len(cells)
  IN  [i \in 1..(IF end > Len(data) THEN end ELSE Len(data)) |->
         CASE i > o /\ i <= end -> cells[i - o]
           [] (i <= o \/ i > end) /\ i <= Len(data) -> data[i]
           [] OTHER -> Zero]

\* The capacity doubles, from MIN_CAP, until end fits.
Grown(cap, end) ==
  LET doubled[k \in 0..end] ==
        IF k > 0 THEN 2 * doubled[k-1] ELSE IF cap = 0 THEN MIN_CAP ELSE cap
  IN  Min({doubled[k] : k \in {j \in 0..end : doubled[j] >= end}})

vfs_write ==
  LET file == nodes[at]
      end == off + Len(Head(todo).cells)
  IN
  /\ Doing("put")
  /\ ~file.is_dir /\ ~file.readonly
  /\ \/ /\ nodes' = [nodes EXCEPT
             ![at].cap = IF end > @ THEN Grown(@, end) ELSE @,
             ![at].data = Written(@, off, Head(todo).cells)]
        /\ UNCHANGED missed
     \/ /\ end > file.cap       \* no memory: -1, which nobody looks at
        /\ missed' = TRUE
        /\ UNCHANGED nodes
  /\ off' = end
  /\ todo' = Tail(todo)
  /\ UNCHANGED <<live, cwd, at>>
=============================================================================
