------------------------------ MODULE FileTree ------------------------------
(***************************************************************************)
(* What the file system promises whoever uses it by path: a map from       *)
(* paths to directories and files in which every path but the root has a   *)
(* directory above it.  A step concerns one path; all others keep what     *)
(* they hold.                                                              *)
(***************************************************************************)
EXTENDS Naturals, Sequences

VARIABLE tree    \* a path, as the sequence of its names, to what is there

Dir == [kind |-> "dir", data |-> <<>>]
Empty == [kind |-> "file", data |-> <<>>]

Above(p) == SubSeq(p, 1, Len(p) - 1)
IsAbove(p, q) == Len(p) < Len(q) /\ SubSeq(q, 1, Len(p)) = p

Set(map, p, node) ==
  [q \in DOMAIN map \cup {p} |-> IF q = p THEN node ELSE map[q]]

OnlyRoot == [p \in {<<>>} |-> Dir]

Init == tree = OnlyRoot

\* A new directory or an empty file where nothing was.
Add(old, new) ==
  \E p \in DOMAIN new \ DOMAIN old :
    /\ new[p] \in {Dir, Empty}
    /\ Above(p) \in DOMAIN old
    /\ old[Above(p)] = Dir
    /\ new = Set(old, p, new[p])

\* A file, never a module, gets other contents.
Change(old, new) ==
  /\ DOMAIN new = DOMAIN old
  /\ \E p \in DOMAIN old :
       /\ old[p].kind = "file"
       /\ new[p].kind \in {"file", "module"}
       /\ new = Set(old, p, new[p])

\* A file or an empty directory goes away.
Remove(old, new) ==
  \E p \in DOMAIN old \ DOMAIN new :
    /\ ~\E q \in DOMAIN old : IsAbove(p, q)
    /\ old = Set(new, p, old[p])

\* The machine is started again: nothing is kept.
Restart(new) == new = OnlyRoot

Next ==
  \E old \in {tree}, new \in {tree'} :
    Add(old, new) \/ Change(old, new) \/ Remove(old, new) \/ Restart(new)

Spec == Init /\ [][Next]_tree
=============================================================================
