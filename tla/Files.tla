------------------------------- MODULE Files --------------------------------
(***************************************************************************)
(* The file system in use: initrd_init fills it from the boot modules      *)
(* (initrd.c), then the shell's commands read and change it, relative to   *)
(* the current directory (shell.c).                                        *)
(***************************************************************************)
EXTENDS Vfs

CONSTANTS Tar,        \* the entries of initrd.tar
          Modules,    \* the model files that module_find finds
          Paths,      \* the paths the user types
          Lines,      \* the arguments of write, each a sequence of words
          PATH_DEPTH, \* how many names vfs_node_path can hold (32)
          PATH_ROOM   \* how many names fit into the shell's path buffer

ASSUME FilesAssumption ==
  /\ PATH_DEPTH \in Nat /\ PATH_ROOM \in Nat
  /\ {Tar, Modules} \subseteq Seq([type : STRING, comps : Seq(STRING), data : Seq(Nat)])
  /\ Paths \subseteq [abs : BOOLEAN, comps : Seq(STRING)]
  /\ Lines \subseteq Seq(Seq(Nat \ {Zero})) \ {<<>>}

VARIABLES
  boot,     \* the boot modules that are not loaded yet
  asked     \* history: the write that is carried out

vars == <<vfs, cwd, request, boot, asked>>

None == [path |-> NULL, line |-> <<>>]
Space == 32
Newline == 10

Init ==
  /\ VfsInit
  /\ cwd = NULL
  /\ boot = Tar \o Modules
  /\ asked = None

-----------------------------------------------------------------------------
(* initrd_init                                                             *)

\* The requests that one entry makes, after its leading "./" is cut off.
\* A file whose path ends with / has no name.
Load(entry) ==
  LET comps == entry.comps
      leaf == Last(comps)
  IN  IF comps = <<>> THEN <<>>
      ELSE CASE entry.type = "5" -> Enters(comps)
             [] entry.type = "0" ->
                  Enters(Front(comps))
                    \o (IF leaf = "" THEN <<>>
                        ELSE Make(leaf) \o (IF entry.data = <<>> THEN <<>>
                                            ELSE Put(entry.data)))
             [] entry.type = "module" -> Enters(<<"models">>) \o Make(leaf)
                                           \o Attach(entry.data)
             [] OTHER -> <<>>

LoadEntry ==
  /\ todo = <<>> /\ boot # <<>> /\ at = NULL
  /\ at' = Root
  /\ todo' = Load(Head(boot))
  /\ boot' = Tail(boot)
  /\ UNCHANGED <<vfs, cwd, off, missed, asked>>

\* The file stands for the module's own memory.
register_module_file ==
  /\ Doing("attach")
  /\ nodes' = [nodes EXCEPT ![at].readonly = TRUE, ![at].cap = 0,
                            ![at].data = Head(todo).cells]
  /\ todo' = Tail(todo)
  /\ UNCHANGED <<live, cwd, at, off, missed>>

shell_init ==
  /\ todo = <<>> /\ at = NULL /\ boot = <<>> /\ cwd = NULL
  /\ cwd' = Root
  /\ UNCHANGED <<vfs, request, boot, asked>>

-----------------------------------------------------------------------------
(* The commands.                                                           *)

Prompt == cwd # NULL /\ todo = <<>> /\ at = NULL /\ asked = None

\* A command returns: its locals are gone.
Return ==
  /\ todo = <<>>
  /\ at # NULL \/ asked # None
  /\ at' = NULL /\ off' = 0 /\ missed' = FALSE /\ asked' = None
  /\ UNCHANGED <<vfs, cwd, todo, boot>>

\* What cat prints, and what ls lists, newest first.
cmd_cat(path) ==
  LET f == vfs_resolve(path)
  IN  IF f = NULL \/ (f # NULL /\ nodes[f].is_dir) THEN NULL ELSE nodes[f].data

cmd_ls(dir) == [i \in DOMAIN nodes[dir].children |->
                  nodes[nodes[dir].children[i]].name]

cmd_pwd == vfs_node_path(cwd, PATH_DEPTH, PATH_ROOM)

Cut(name) == IF name = Long THEN LongCut ELSE name

\* The words with a space between two, and a newline.
Pieces(words) ==
  [i \in 1 .. 2 * Len(words) |-> IF i % 2 = 1 THEN words[(i + 1) \div 2]
                                ELSE IF i < 2 * Len(words) THEN <<Space>>
                                ELSE <<Newline>>]

Text(words) == FlattenSeq(Pieces(words))

\* One write for each piece.
LineOf(words) == [i \in DOMAIN Pieces(words) |-> Put(Pieces(words)[i])[1]]

\* Mutant: a file that exists keeps what the new line does not cover.
Fill_Over(words) == LineOf(words)

Fill(words) == Truncate \o LineOf(words)

\* write resolves the path as it is, but makes the file under its cut name.
\* What it cannot write to it refuses.
cmd_write(path, words) ==
  LET dir == vfs_resolve_parent(path)
      f == vfs_resolve(path)
  IN
  /\ Prompt
  /\ dir # NULL
  /\ \/ /\ f # NULL
        /\ ~nodes[f].is_dir /\ ~nodes[f].readonly
        /\ at' = f
        /\ todo' = Fill(words)
     \/ /\ f = NULL
        /\ at' = dir
        /\ todo' = Make(Cut(Last(path.comps))) \o Fill(words)
  /\ asked' = [path |-> path, line |-> Text(words)]
  /\ UNCHANGED <<vfs, cwd, off, missed, boot>>

cmd_mkdir(path) ==
  /\ Prompt
  /\ at' = Start(path)
  /\ todo' = Enters(path.comps)
  /\ UNCHANGED <<vfs, cwd, off, missed, boot, asked>>

\* rm does not look whether it removes the current directory.
cmd_rm(path) ==
  LET n == vfs_resolve(path)
  IN
  /\ Prompt
  /\ n # NULL
  /\ vfs_unlink(n)
  /\ UNCHANGED <<cwd, request, boot, asked>>

cmd_cd(path) ==
  LET n == vfs_resolve(path)
  IN
  /\ Prompt
  /\ n # NULL /\ nodes[n].is_dir
  /\ cwd' = n
  /\ nodes' = Forget(nodes, live, n)
  /\ UNCHANGED <<live, request, boot, asked>>

Requested ==
  /\ Enter \/ MakeFile \/ TruncateFile \/ vfs_write \/ register_module_file
  /\ UNCHANGED <<boot, asked>>

\* The machine is started again.  That is also the end when somebody's malloc got
\* the memory of a freed node that cwd leads to: what the shell does then, which
\* shows the path in every prompt, is undefined, and not followed.
Reboot ==
  /\ Prompt
  /\ nodes' = OnlyRoot /\ live' = {} /\ cwd' = NULL
  /\ boot' = Tar \o Modules
  /\ UNCHANGED <<request, asked>>

-----------------------------------------------------------------------------
Next ==
  \/ LoadEntry
  \/ Return
  \/ shell_init
  \/ Requested
  \/ \E path \in Paths, words \in Lines : cmd_write(path, words)
  \/ \E path \in Paths : cmd_mkdir(path)
  \/ \E path \in Paths : cmd_rm(path)
  \/ \E path \in Paths : cmd_cd(path)
  \/ Reboot

Spec == Init /\ [][Next]_vars

-----------------------------------------------------------------------------
(* Properties.                                                             *)

\* The nodes below the root with their paths, by level.
Places ==
  LET Below(place) == {<<Append(place[1], nodes[c].name), c>> :
                         c \in Range(nodes[place[2]].children)}
      down[i \in 0..Cardinality(Slots)] ==
        IF i = 0 THEN {<< <<>>, Root>>}
        ELSE UNION {{place} \cup Below(place) : place \in down[i-1]}
  IN  down[Cardinality(Slots)]

Tree == {place[2] : place \in Places}

Contents(n) ==
  [kind |-> CASE nodes[n].is_dir -> "dir"
              [] nodes[n].readonly -> "module"
              [] OTHER -> "file",
   data |-> nodes[n].data]

Held ==
  LET places == Places
  IN  [p \in {place[1] : place \in places} |->
         Contents((CHOOSE place \in places : place[1] = p)[2])]

Promise == INSTANCE FileTree WITH tree <- Held

\* The nodes implement the map from paths to contents: a request changes one
\* path, whatever allocation fails and wherever cwd points.
Implements == Promise!Spec

TypeOK ==
  /\ live \subseteq Slots
  /\ \A n \in Node : /\ nodes[n].name \in Names \cup {NULL}
                     /\ nodes[n].parent \in Node \cup {NULL}
                     /\ nodes[n].children \in Seq(Node)
                     /\ nodes[n].cap \in Nat
  /\ {cwd, at} \subseteq Node \cup {NULL}
  /\ off \in Nat
  /\ missed \in BOOLEAN

\* What hangs below the root is a tree of allocated nodes with a different
\* name for each child of a directory; files have none, and their bytes fit
\* into their buffer.
TreeOK ==
  \A n \in Tree :
    /\ n \in live \cup {Root}
    /\ nodes[n].is_dir \/ nodes[n].children = <<>>
    /\ \A c \in Range(nodes[n].children) : nodes[c].parent = n
    /\ IsInjective(nodes[n].children) /\ IsInjective(cmd_ls(n))
    /\ nodes[n].readonly \/ Len(nodes[n].data) <= nodes[n].cap

\* The path in the prompt leads back to the current directory, as long as that
\* is in the tree and not deeper than vfs_node_path and its buffer go.
PathTruth ==
  \A place \in Places :
    place[2] = cwd /\ Len(place[1]) <= PATH_DEPTH /\ Len(place[1]) <= PATH_ROOM =>
      vfs_resolve(cmd_pwd) = cwd

\* The variables have their types, the nodes are a tree, and the prompt tells
\* where in it the shell is.
Inv == TypeOK /\ TreeOK /\ PathTruth

InTree(n) == n \in Tree /\ nodes[n].is_dir

\* The current directory stays a directory of the tree until rm is given that
\* very directory; what is above it cannot be removed.
CwdKept ==
  [][cwd # NULL /\ InTree(cwd) =>
       \/ InTree(cwd)'
       \/ Reboot
       \/ \E path \in Paths : vfs_resolve(path) = cwd /\ cmd_rm(path)]_vars

\* After a write that did not run out of memory, cat shows the line under the
\* path it was given, unless its name was cut.  When memory did run out, what
\* was there before is gone and of the line parts may be missing: at the end,
\* or in the middle with zeros in their place.
WriteShows ==
  asked # None /\ todo = <<>> /\ at # NULL /\ InTree(cwd) =>
    LET shown == cmd_cat(asked.path)
        line == asked.line
    IN  IF Last(asked.path.comps) = Long THEN shown = NULL
        ELSE /\ ~missed => shown = line
             /\ Len(shown) <= Len(line)
             /\ \A i \in DOMAIN shown : shown[i] \in {line[i], Zero}
=============================================================================
