---------------------------- MODULE FilesProofs ----------------------------
(***************************************************************************)
(* Theorems about the file system, for every number of nodes, every        *)
(* archive, and all paths and lines that are typed.                        *)
(***************************************************************************)
EXTENDS Files, SequenceTheorems, FiniteSetTheorems, WellFoundedInduction, TLAPS

-----------------------------------------------------------------------------
(* Numbers.                                                                *)

\* The intervals from 0 to the members are ordered by inclusion, which is well-founded
\* on finite sets.
LEMMA LeastNumber ==
  ASSUME NEW S \in SUBSET Nat, S # {}
  PROVE  \E s \in S : \A r \in S : s <= r
<1> DEFINE T == {0 .. s : s \in S}
<1>1. T \subseteq FiniteSubsetsOf(Nat) /\ T # {}
  <2>1. ASSUME NEW s \in S
        PROVE  0 .. s \in SUBSET Nat /\ IsFiniteSet(0 .. s)
    BY FS_Interval
  <2>2. QED
    BY <2>1 DEF FiniteSubsetsOf
<1> HIDE DEF T
<1>2. PICK t \in T : \A u \in T : <<u, t>> \notin StrictSubsetOrdering(Nat)
  BY <1>1, WFMin, FS_StrictSubsetOrderingWellFounded
<1>3. PICK s \in S : t = 0 .. s
  BY DEF T
<1>4. ASSUME NEW r \in S, r < s
      PROVE  FALSE
  <2>1. 0 .. r \in T /\ 0 .. r \in SUBSET Nat /\ 0 .. s \in SUBSET Nat
    BY DEF T
  <2>2. s \in 0 .. s /\ s \notin 0 .. r
    BY <1>4
  <2>3. 0 .. r \subseteq 0 .. s /\ 0 .. r # 0 .. s
    BY <1>4, <2>2
  <2>4. <<0 .. r, t>> \in StrictSubsetOrdering(Nat)
    BY <1>3, <2>1, <2>3 DEF StrictSubsetOrdering
  <2>5. QED
    BY <1>2, <2>1, <2>4
<1>5. QED
  BY <1>4

LEMMA MinIsMember ==
  ASSUME NEW S \in SUBSET Nat, S # {}
  PROVE  Min(S) \in S /\ \A r \in S : Min(S) <= r
BY LeastNumber DEF Min

LEMMA AllNumbers ==
  ASSUME NEW T, 0 \in T, \A k \in Nat : k \in T => k + 1 \in T
  PROVE  Nat \subseteq T
<1>1. SUFFICES ASSUME Nat \ T # {}
               PROVE  FALSE
  OBVIOUS
<1>2. PICK k \in Nat \ T : \A r \in Nat \ T : k <= r
  BY <1>1, LeastNumber
<1>3. k \in Nat /\ k # 0
  BY <1>2
<1>4. k - 1 \in Nat /\ ~(k <= k - 1) /\ k - 1 + 1 = k
  BY <1>3
<1>5. k - 1 \in T
  BY <1>2, <1>4
<1>6. QED
  BY <1>2, <1>4, <1>5

\* What a recursive function over 0 .. last is defined by has a solution.
Solves(f, first, On, last) ==
  f[0] = first /\ \A i \in 1 .. last : f[i] = On[<<f[i - 1], i>>]

LEMMA Iterates ==
  ASSUME NEW S, NEW first \in S, NEW On \in [S \X Nat -> S], NEW last \in Nat
  PROVE  \E f \in [0 .. last -> S] : Solves(f, first, On, last)
<1> DEFINE Good(f, k) == f[0] = first /\ \A i \in 1 .. k : f[i] = On[<<f[i - 1], i>>]
           T == {k \in Nat : \E f \in [0 .. k -> S] : Good(f, k)}
<1>1. 0 \in T
  <2> DEFINE f == [i \in 0 .. 0 |-> first]
  <2>1. f \in [0 .. 0 -> S] /\ f[0] = first /\ 1 .. 0 = {}
    OBVIOUS
  <2>2. QED
    BY <2>1
<1>2. ASSUME NEW k \in Nat, k \in T
      PROVE  k + 1 \in T
  <2>1. PICK f \in [0 .. k -> S] : Good(f, k)
    BY <1>2
  <2>2. PICK g : g = [i \in 0 .. k + 1 |-> IF i = k + 1 THEN On[<<f[k], k + 1>>] ELSE f[i]]
    OBVIOUS
  <2>3. k \in 0 .. k /\ k + 1 \in Nat /\ k + 1 \in 0 .. k + 1
    OBVIOUS
  <2>4. On[<<f[k], k + 1>>] \in S
    BY <2>3
  <2>5. g \in [0 .. k + 1 -> S]
    <3>1. ASSUME NEW i \in 0 .. k + 1
          PROVE  (IF i = k + 1 THEN On[<<f[k], k + 1>>] ELSE f[i]) \in S
      <4>1. i # k + 1 => i \in 0 .. k
        OBVIOUS
      <4>2. QED
        BY <4>1, <2>4
    <3>2. QED
      BY <2>2, <3>1
  <2>6. \A i \in 0 .. k : g[i] = f[i]
    BY <2>2
  <2>7. g[k + 1] = On[<<g[k], k + 1>>]
    BY <2>2, <2>3, <2>6
  <2>8. ASSUME NEW i \in 1 .. k + 1
        PROVE  g[i] = On[<<g[i - 1], i>>]
    <3>1. CASE i = k + 1
      BY <3>1, <2>7
    <3>2. CASE i # k + 1
      <4>1. i \in 1 .. k /\ i \in 0 .. k /\ i - 1 \in 0 .. k
        BY <3>2
      <4>2. QED
        BY <4>1, <2>1, <2>6
    <3>3. QED
      BY <3>1, <3>2
  <2>9. g[0] = first
    <3>1. 0 \in 0 .. k
      OBVIOUS
    <3>2. QED
      BY <3>1, <2>1, <2>6
  <2>10. QED
    BY <2>3, <2>5, <2>8, <2>9
<1> HIDE DEF T
<1>3. last \in T
  BY <1>1, <1>2, AllNumbers
<1>4. QED
  BY <1>3 DEF T, Solves

-----------------------------------------------------------------------------
(* Types.                                                                  *)

NodeRec == [name : Names \cup {NULL}, is_dir : BOOLEAN, readonly : BOOLEAN,
            data : Seq(Nat), cap : Nat, parent : Node \cup {NULL}, children : Seq(Node)]

Module == [type : STRING, comps : Seq(STRING), data : Seq(Nat)]

\* What a path is made of.
Word == STRING \cup Names \cup {"models"}

Request == [op : {"enter", "make"}, name : Word] \cup [op : {"truncate"}]
             \cup [op : {"put", "attach"}, cells : Seq(Nat)]

\* What is asked of a file, not of a directory.
OfFile(r) == r.op \in {"truncate", "put", "attach"}

\* In a list of requests those of a file follow its creation and come last, a module's
\* memory at the very end.
Listed(list) ==
  /\ list \in Seq(Request)
  /\ \A i \in 2 .. Len(list) :
       /\ OfFile(list[i]) => list[i - 1].op = "make" \/ OfFile(list[i - 1])
       /\ OfFile(list[i - 1]) => OfFile(list[i])
  /\ \A i \in 1 .. Len(list) - 1 : list[i].op # "attach"

Types ==
  /\ nodes \in [Node -> NodeRec]
  /\ live \subseteq Slots
  /\ cwd \in Node \cup {NULL} /\ at \in Node \cup {NULL}
  /\ off \in Nat /\ missed \in BOOLEAN
  /\ boot \in Seq(Module)

TodoInv ==
  /\ Listed(todo)
  /\ todo # <<>> => at \in Node
  /\ todo # <<>> /\ OfFile(Head(todo)) => ~nodes[at].is_dir /\ ~nodes[at].readonly

LEMMA BlankIs == Blank \in NodeRec
BY DEF Blank, NodeRec

LEMMA RootIs == /\ Root \in Node /\ NULL \notin Node /\ Slots \subseteq Node
                /\ OnlyRoot \in [Node -> NodeRec]
BY VfsAssumption, BlankIs DEF Node, OnlyRoot, Blank, NodeRec

LEMMA NodeFields ==
  ASSUME Types, NEW n \in Node
  PROVE  /\ nodes[n].name \in Names \cup {NULL} /\ nodes[n].is_dir \in BOOLEAN
         /\ nodes[n].readonly \in BOOLEAN /\ nodes[n].data \in Seq(Nat) /\ nodes[n].cap \in Nat
         /\ nodes[n].parent \in Node \cup {NULL} /\ nodes[n].children \in Seq(Node)
         /\ Parent(n) \in Node
         /\ DOMAIN nodes[n].children = 1 .. Len(nodes[n].children)
         /\ \A i \in DOMAIN nodes[n].children : nodes[n].children[i] \in Node
<1>1. nodes[n] \in NodeRec
  BY DEF Types
<1>2. /\ nodes[n].name \in Names \cup {NULL} /\ nodes[n].is_dir \in BOOLEAN
      /\ nodes[n].readonly \in BOOLEAN /\ nodes[n].data \in Seq(Nat) /\ nodes[n].cap \in Nat
      /\ nodes[n].parent \in Node \cup {NULL} /\ nodes[n].children \in Seq(Node)
  BY <1>1 DEF NodeRec
<1>3. Parent(n) \in Node
  BY <1>2 DEF Parent
<1>4. DOMAIN nodes[n].children = 1 .. Len(nodes[n].children)
  BY <1>2
<1>5. \A i \in DOMAIN nodes[n].children : nodes[n].children[i] \in Node
  BY <1>2, <1>4, ElementOfSeq
<1>6. QED
  BY <1>2, <1>3, <1>4, <1>5

LEMMA DirFindIs ==
  ASSUME Types, NEW d \in Node, NEW name
  PROVE  \/ /\ dir_find(d, name) = NULL
            /\ \A i \in DOMAIN nodes[d].children : nodes[nodes[d].children[i]].name # name
         \/ \E i \in DOMAIN nodes[d].children :
              /\ dir_find(d, name) = nodes[d].children[i]
              /\ nodes[nodes[d].children[i]].name = name
<1> DEFINE s == nodes[d].children
           hits == {i \in 1 .. Len(s) : nodes[s[i]].name = name}
           hit == IF hits # {} THEN Min(hits) ELSE 0
<1>1. DOMAIN s = 1 .. Len(s)
  BY NodeFields
<1>2. dir_find(d, name) = IF hit = 0 THEN NULL ELSE s[hit]
  BY DEF dir_find, SelectInSeq
<1>3. CASE hits = {}
  BY <1>1, <1>2, <1>3
<1>4. CASE hits # {}
  <2>1. hits \in SUBSET Nat
    OBVIOUS
  <2>2. PICK m : m = Min(hits)
    OBVIOUS
  <2>3. hit = m /\ m \in hits
    <3> HIDE DEF hits
    <3>1. QED
      BY <1>4, <2>1, <2>2, MinIsMember
  <2>4. hit # 0 /\ hit \in 1 .. Len(s) /\ nodes[s[hit]].name = name
    <3>1. m # 0 /\ m \in 1 .. Len(s) /\ nodes[s[m]].name = name
      BY <2>3
    <3> HIDE DEF hit
    <3>2. QED
      BY <2>3, <3>1
  <2> HIDE DEF hit, hits, s
  <2>5. hit \in DOMAIN s /\ dir_find(d, name) = s[hit] /\ nodes[s[hit]].name = name
    BY <1>1, <1>2, <2>4
  <2>6. QED
    BY <2>5 DEF s
<1>5. QED
  BY <1>3, <1>4

LEMMA DirFindType ==
  ASSUME Types, NEW d \in Node, NEW name
  PROVE  dir_find(d, name) \in Node \cup {NULL}
BY DirFindIs, NodeFields

LEMMA ForgetIs ==
  ASSUME NEW ns \in [Node -> NodeRec], NEW lv, NEW d
  PROVE  /\ Forget(ns, lv, d) \in [Node -> NodeRec]
         /\ \A n \in Node : n \in lv \cup {Root} => Forget(ns, lv, d)[n] = ns[n]
BY BlankIs DEF Forget

\* One component of a path.
Next_of(cur, comp, first) ==
  IF cur = NULL \/ (~first /\ ~nodes[cur].is_dir) THEN NULL
  ELSE IF comp = "." THEN cur
  ELSE IF comp = ".." THEN Parent(cur)
  ELSE dir_find(cur, comp)

Walked(w, path, last) ==
  /\ w \in [0 .. last -> Node \cup {NULL}]
  /\ w[0] = Start(path)
  /\ \A i \in 1 .. last : w[i] = Next_of(w[i - 1], path.comps[i], i = 1)
  /\ Walk(path, last) = w[last]

LEMMA WalkIs ==
  ASSUME Types, NEW path, NEW last \in Nat
  PROVE  \E w : Walked(w, path, last)
<1> DEFINE S == Node \cup {NULL}
           On == [x \in S \X Nat |-> Next_of(x[1], path.comps[x[2]], x[2] = 1)]
<1>1. Start(path) \in S
  BY RootIs DEF Start, Types
<1>2. On \in [S \X Nat -> S]
  <2>1. ASSUME NEW x \in S \X Nat
        PROVE  Next_of(x[1], path.comps[x[2]], x[2] = 1) \in S
    <3>1. CASE x[1] = NULL
      BY <3>1 DEF Next_of
    <3>2. CASE x[1] # NULL
      <4>1. x[1] \in Node
        BY <3>2
      <4>2. Parent(x[1]) \in Node /\ dir_find(x[1], path.comps[x[2]]) \in S
        BY <4>1, NodeFields, DirFindType
      <4>3. QED
        BY <4>1, <4>2 DEF Next_of
    <3>3. QED
      BY <3>1, <3>2
  <2>2. QED
    BY <2>1
<1> HIDE DEF On, S
<1>a. last \in Nat
  OBVIOUS
<1>b. PICK f \in [0 .. last -> S] : Solves(f, Start(path), On, last)
  BY <1>1, <1>2, <1>a, Iterates
<1>3. f[0] = Start(path) /\ \A i \in 1 .. last : f[i] = On[<<f[i - 1], i>>]
  BY <1>b DEF Solves
<1> USE DEF On, S
<1>4. \A i \in 1 .. last : f[i] = Next_of(f[i - 1], path.comps[i], i = 1)
  <2>1. SUFFICES ASSUME NEW i \in 1 .. last
                 PROVE  On[<<f[i - 1], i>>] = Next_of(f[i - 1], path.comps[i], i = 1)
    BY <1>3
  <2>2. f[i - 1] \in S /\ i \in Nat
    <3>1. i - 1 \in 0 .. last
      OBVIOUS
    <3>2. QED
      BY <3>1
  <2>3. QED
    BY <2>2
<1> HIDE DEF S, On
<1> DEFINE Walks(g) == g = [i \in 0 .. last |->
             IF i = 0 THEN Start(path)
             ELSE IF g[i - 1] = NULL \/ (i > 1 /\ g[i - 1] # NULL /\ ~nodes[g[i - 1]].is_dir)
                  THEN NULL
                  ELSE CASE path.comps[i] = "." -> g[i - 1]
                         [] path.comps[i] = ".." -> Parent(g[i - 1])
                         [] OTHER -> dir_find(g[i - 1], path.comps[i])]
<1>5. ASSUME NEW g, NEW i \in 0 .. last
      PROVE  (IF g[i - 1] = NULL \/ (i > 1 /\ g[i - 1] # NULL /\ ~nodes[g[i - 1]].is_dir)
              THEN NULL
              ELSE CASE path.comps[i] = "." -> g[i - 1]
                     [] path.comps[i] = ".." -> Parent(g[i - 1])
                     [] OTHER -> dir_find(g[i - 1], path.comps[i]))
             = IF i = 0 THEN (IF g[i - 1] = NULL THEN NULL
                              ELSE CASE path.comps[i] = "." -> g[i - 1]
                                     [] path.comps[i] = ".." -> Parent(g[i - 1])
                                     [] OTHER -> dir_find(g[i - 1], path.comps[i]))
               ELSE Next_of(g[i - 1], path.comps[i], i = 1)
  BY DEF Next_of
<1>6. Walks(f)
  <2>1. ASSUME NEW i \in 0 .. last
        PROVE  i # 0 => i \in 1 .. last
    OBVIOUS
  <2>2. QED
    BY <1>3, <1>4, <1>5, <2>1
<1> DEFINE w == CHOOSE g : Walks(g)
<1>7. Walk(path, last) = w[last]
  BY DEF Walk
<1>8. Walks(w)
  BY <1>6
<1> HIDE DEF w
<1>c. ASSUME NEW i \in 0 .. last
      PROVE  w[i] = IF i = 0 THEN Start(path)
                    ELSE Next_of(w[i - 1], path.comps[i], i = 1)
  <2>1. w[i] = IF i = 0 THEN Start(path)
               ELSE IF w[i - 1] = NULL \/ (i > 1 /\ w[i - 1] # NULL /\ ~nodes[w[i - 1]].is_dir)
               THEN NULL
               ELSE CASE path.comps[i] = "." -> w[i - 1]
                      [] path.comps[i] = ".." -> Parent(w[i - 1])
                      [] OTHER -> dir_find(w[i - 1], path.comps[i])
    BY <1>8
  <2>2. i > 1 <=> i # 0 /\ i # 1
    OBVIOUS
  <2>3. QED
    BY <2>1, <2>2 DEF Next_of
<1>9. w[0] = Start(path) /\ \A i \in 1 .. last : w[i] = Next_of(w[i - 1], path.comps[i], i = 1)
  <2>1. 0 \in 0 .. last /\ \A i \in 1 .. last : i \in 0 .. last /\ i # 0
    OBVIOUS
  <2>2. QED
    BY <1>c, <2>1
<1> DEFINE T == {k \in Nat : k <= last => w[k] = f[k]}
<1>10. 0 \in T
  BY <1>3, <1>9
<1>11. ASSUME NEW k \in Nat, k \in T
       PROVE  k + 1 \in T
  <2>1. SUFFICES ASSUME k + 1 <= last
                 PROVE  w[k + 1] = f[k + 1]
    OBVIOUS
  <2>2. k + 1 \in 1 .. last /\ k + 1 - 1 = k /\ k <= last
    BY <2>1
  <2>3. w[k] = f[k]
    BY <1>11, <2>2
  <2>4. QED
    BY <1>4, <1>9, <2>2, <2>3
<1> HIDE DEF T
<1>12. last \in T
  BY <1>10, <1>11, AllNumbers
<1>13. w[last] = f[last]
  BY <1>12 DEF T
<1>14. Walked(f, path, last)
  BY <1>3, <1>4, <1>7, <1>13 DEF S, Walked
<1>15. QED
  BY <1>14

-----------------------------------------------------------------------------
(* What the operators compute.                                             *)

\* A buffer grows until the end fits.
LEMMA GrownIs ==
  ASSUME NEW cap \in Nat, NEW end \in Nat
  PROVE  Grown(cap, end) \in Nat /\ Grown(cap, end) >= end
<1> DEFINE base == IF cap = 0 THEN MIN_CAP ELSE cap
           S == Nat
           On == [x \in S \X Nat |-> 2 * x[1]]
           Doubles(g) == g = [k \in 0 .. end |-> IF k > 0 THEN 2 * g[k - 1] ELSE base]
           doubled == CHOOSE g : Doubles(g)
           fits == {doubled[k] : k \in {j \in 0 .. end : doubled[j] >= end}}
<1>1. base \in S /\ base > 0 /\ On \in [S \X Nat -> S]
  BY VfsAssumption
<1>2. Grown(cap, end) = Min(fits)
  BY DEF Grown
<1>3. \E g : Doubles(g)
  <2> HIDE DEF On, S
  <2>1. PICK f \in [0 .. end -> S] : Solves(f, base, On, end)
    BY <1>1, Iterates
  <2>2. f[0] = base /\ \A i \in 1 .. end : f[i] = On[<<f[i - 1], i>>]
    BY <2>1 DEF Solves
  <2> USE DEF On, S
  <2>3. ASSUME NEW i \in 0 .. end
        PROVE  f[i] = IF i > 0 THEN 2 * f[i - 1] ELSE base
    <3>1. CASE i = 0
      BY <3>1, <2>2
    <3>2. CASE i # 0
      <4>1. i \in 1 .. end /\ i - 1 \in 0 .. end /\ i > 0 /\ i \in Nat
        BY <3>2
      <4>2. f[i - 1] \in S
        BY <4>1
      <4>3. QED
        BY <2>2, <4>1, <4>2
    <3>3. QED
      BY <3>1, <3>2
  <2>4. Doubles(f)
    BY <2>3
  <2> HIDE DEF Doubles
  <2>5. QED
    BY <2>4
<1>4. Doubles(doubled)
  <2> HIDE DEF Doubles
  <2>1. QED
    BY <1>3
<1> HIDE DEF base, doubled
<1>5. ASSUME NEW k \in 0 .. end
      PROVE  doubled[k] = IF k > 0 THEN 2 * doubled[k - 1] ELSE base
  BY <1>4
<1> DEFINE T == {k \in Nat : k <= end => doubled[k] \in Nat /\ doubled[k] > k}
<1>6. 0 \in T
  BY <1>1, <1>5
<1>7. ASSUME NEW k \in Nat, k \in T
      PROVE  k + 1 \in T
  <2>1. SUFFICES ASSUME k + 1 <= end
                 PROVE  doubled[k + 1] \in Nat /\ doubled[k + 1] > k + 1
    OBVIOUS
  <2>2. k + 1 \in 0 .. end /\ k + 1 > 0 /\ k + 1 - 1 = k
    BY <2>1
  <2>3. doubled[k + 1] = 2 * doubled[k]
    BY <1>5, <2>2
  <2>4. QED
    BY <1>7, <2>1, <2>3
<1> HIDE DEF T
<1>8. Nat \subseteq T
  BY <1>6, <1>7, AllNumbers
<1>9. \A k \in 0 .. end : doubled[k] \in Nat /\ doubled[k] > k
  BY <1>8 DEF T
<1>10. end \in 0 .. end /\ doubled[end] >= end
  BY <1>9
<1>11. fits \in SUBSET Nat /\ fits # {} /\ \A r \in fits : r >= end
  BY <1>9, <1>10
<1> HIDE DEF fits
<1>12. QED
  BY <1>2, <1>11, MinIsMember

\* What a file holds after a write.
Overwrites(new, data, o, cells) ==
  \A i \in 1 .. Len(new) :
    /\ i > o /\ i <= o + Len(cells) => new[i] = cells[i - o]
    /\ i <= o /\ i <= Len(data) => new[i] = data[i]
    /\ i <= o /\ i > Len(data) => new[i] = Zero

LEMMA WrittenIs ==
  ASSUME NEW data \in Seq(Nat), NEW o \in Nat, NEW cells \in Seq(Nat)
  PROVE  /\ Written(data, o, cells) \in Seq(Nat)
         /\ o + Len(cells) >= Len(data) => Len(Written(data, o, cells)) = o + Len(cells)
         /\ o + Len(cells) < Len(data) => Len(Written(data, o, cells)) = Len(data)
         /\ Overwrites(Written(data, o, cells), data, o, cells)
<1> DEFINE end == o + Len(cells)
           size == IF end > Len(data) THEN end ELSE Len(data)
           At(i) == CASE i > o /\ i <= end -> cells[i - o]
                      [] (i <= o \/ i > end) /\ i <= Len(data) -> data[i]
                      [] OTHER -> Zero
<1>1. Written(data, o, cells) = [i \in 1 .. size |-> At(i)]
  BY DEF Written
<1>2. Len(cells) \in Nat /\ Len(data) \in Nat /\ end \in Nat /\ size \in Nat
  OBVIOUS
<1>3. ASSUME NEW i \in 1 .. size
      PROVE  /\ i > o /\ i <= end => At(i) = cells[i - o] /\ At(i) \in Nat
             /\ (i <= o \/ i > end) /\ i <= Len(data) => At(i) = data[i] /\ At(i) \in Nat
             /\ ~(i > o /\ i <= end) /\ ~(i <= Len(data)) => At(i) = Zero /\ At(i) \in Nat
  <2>1. CASE i > o /\ i <= end
    <3>1. i - o \in 1 .. Len(cells)
      BY <2>1
    <3>2. cells[i - o] \in Nat
      BY <3>1, ElementOfSeq
    <3>3. ~(i <= o) /\ ~(i > end)
      BY <2>1
    <3>4. QED
      BY <2>1, <3>2, <3>3
  <2>2. CASE (i <= o \/ i > end) /\ i <= Len(data)
    <3>1. i \in 1 .. Len(data)
      BY <2>2
    <3>2. data[i] \in Nat
      BY <3>1, ElementOfSeq
    <3>3. ~(i > o /\ i <= end)
      BY <2>2
    <3>4. QED
      BY <2>2, <3>2, <3>3
  <2>3. CASE ~(i > o /\ i <= end) /\ ~(i <= Len(data))
    <3>1. At(i) = Zero /\ Zero \in Nat
      BY <2>3 DEF Zero
    <3>2. QED
      BY <2>3, <3>1
  <2>4. (i <= o \/ i > end) <=> ~(i > o /\ i <= end)
    BY <1>2
  <2>5. QED
    BY <2>1, <2>2, <2>3, <2>4
<1>4. \A i \in 1 .. size : At(i) \in Nat
  <2>1. \A i \in 1 .. size : (i > o /\ i <= end) \/ (i <= o \/ i > end)
    BY <1>2
  <2>2. QED
    BY <1>3, <2>1
<1> HIDE DEF At
<1>5. [i \in 1 .. size |-> At(i)] \in Seq(Nat) /\ Len([i \in 1 .. size |-> At(i)]) = size
  BY <1>2, <1>4
<1>6. \A i \in 1 .. size : [j \in 1 .. size |-> At(j)][i] = At(i)
  OBVIOUS
<1>7. Len(Written(data, o, cells)) = size
  BY <1>1, <1>5
<1>8. ASSUME NEW i \in 1 .. size
      PROVE  /\ i > o /\ i <= o + Len(cells) => Written(data, o, cells)[i] = cells[i - o]
             /\ i <= o /\ i <= Len(data) => Written(data, o, cells)[i] = data[i]
             /\ i <= o /\ i > Len(data) => Written(data, o, cells)[i] = Zero
  <2>1. Written(data, o, cells)[i] = At(i)
    BY <1>1, <1>6
  <2>2. i <= o => ~(i > o)
    BY <1>2
  <2>3. i > Len(data) => ~(i <= Len(data))
    BY <1>2
  <2>4. QED
    BY <1>3, <2>1, <2>2, <2>3
<1>9. Written(data, o, cells) \in Seq(Nat)
  BY <1>1, <1>5
<1>10. /\ o + Len(cells) >= Len(data) => size = o + Len(cells)
       /\ o + Len(cells) < Len(data) => size = Len(data)
  BY <1>2
<1> HIDE DEF size
<1>11. QED
  BY <1>7, <1>8, <1>9, <1>10 DEF Overwrites

\* The first n goes away, and no other member.
LEMMA RemoveFirstIs ==
  ASSUME NEW S, NEW s \in Seq(S), NEW x, NEW k \in 1 .. Len(s), s[k] = x,
         \A i \in 1 .. Len(s) : s[i] = x => i = k
  PROVE  /\ RemoveFirst(s, x) \in Seq(S)
         /\ Len(RemoveFirst(s, x)) = Len(s) - 1
         /\ \A i \in 1 .. Len(s) - 1 :
              RemoveFirst(s, x)[i] = IF i < k THEN s[i] ELSE s[i + 1]
<1> DEFINE hits == {i \in 1 .. Len(s) : s[i] = x}
<1>1. hits = {k} /\ hits # {} /\ hits \in SUBSET Nat
  OBVIOUS
<1>2. Min(hits) \in hits
  BY <1>1, MinIsMember
<1>3. SelectInSeq(s, LAMBDA v : v = x) = k
  BY <1>1, <1>2 DEF SelectInSeq
<1>4. RemoveFirst(s, x) = SubSeq(s, 1, k - 1) \o SubSeq(s, k + 1, Len(s))
  BY <1>3 DEF RemoveFirst, RemoveAt
<1> DEFINE a == SubSeq(s, 1, k - 1)
           b == SubSeq(s, k + 1, Len(s))
<1>5. /\ a \in Seq(S) /\ Len(a) = k - 1
      /\ \A i \in 1 .. k - 1 : a[i] = s[i]
  <2>1. \A i \in 1 .. k - 1 : s[i] \in S
    OBVIOUS
  <2>2. QED
    BY <2>1, SubSeqProperties
<1>6. /\ b \in Seq(S) /\ Len(b) = Len(s) - k
      /\ \A i \in 1 .. Len(s) - k : b[i] = s[k + i]
  <2>1. \A i \in k + 1 .. Len(s) : s[i] \in S
    OBVIOUS
  <2>2. Len(s) - (k + 1) + 1 = Len(s) - k
    OBVIOUS
  <2>3. /\ b \in Seq(S)
        /\ Len(b) = IF k + 1 <= Len(s) THEN Len(s) - (k + 1) + 1 ELSE 0
        /\ \A i \in 1 .. Len(s) - (k + 1) + 1 : b[i] = s[k + 1 + i - 1]
    BY <2>1, SubSeqProperties
  <2> HIDE DEF b
  <2>4. Len(b) = Len(s) - k
    BY <2>3
  <2>5. ASSUME NEW i \in 1 .. Len(s) - k
        PROVE  b[i] = s[k + i]
    <3>1. i \in 1 .. Len(s) - (k + 1) + 1 /\ k + 1 + i - 1 = k + i
      OBVIOUS
    <3>2. b[i] = s[k + 1 + i - 1]
      BY <2>3, <3>1
    <3>3. QED
      BY <3>1, <3>2
  <2>6. QED
    BY <2>3, <2>4, <2>5
<1> HIDE DEF a, b
<1>7. /\ a \o b \in Seq(S) /\ Len(a \o b) = Len(s) - 1
      /\ \A i \in 1 .. Len(s) - 1 : (a \o b)[i] = IF i < k THEN s[i] ELSE s[i + 1]
  <2>1. a \o b \in Seq(S) /\ Len(a \o b) = Len(s) - 1
    BY <1>5, <1>6, ConcatProperties
  <2>2. ASSUME NEW i \in 1 .. Len(s) - 1
        PROVE  (a \o b)[i] = IF i < k THEN s[i] ELSE s[i + 1]
    <3>1. i \in 1 .. Len(a) + Len(b)
      BY <1>5, <1>6
    <3>2. (a \o b)[i] = IF i <= Len(a) THEN a[i] ELSE b[i - Len(a)]
      BY <1>5, <1>6, <3>1, ConcatProperties
    <3>3. CASE i < k
      BY <3>2, <3>3, <1>5
    <3>4. CASE ~(i < k)
      <4>1. i - (k - 1) \in 1 .. Len(s) - k /\ k + (i - (k - 1)) = i + 1
        BY <3>4
      <4>2. QED
        BY <3>2, <3>4, <4>1, <1>5, <1>6
    <3>5. QED
      BY <3>3, <3>4
  <2>3. QED
    BY <2>1, <2>2
<1>8. QED
  BY <1>4, <1>7 DEF a, b

\* A member goes away, whichever it is.
LEMMA RemoveFirstType ==
  ASSUME NEW S, NEW s \in Seq(S), NEW x
  PROVE  RemoveFirst(s, x) \in Seq(S)
<1>1. SUFFICES ASSUME \E i \in 1 .. Len(s) : s[i] = x
               PROVE  RemoveFirst(s, x) \in Seq(S)
  BY DEF RemoveFirst
<1> DEFINE hits == {i \in 1 .. Len(s) : s[i] = x}
<1>2. hits \in SUBSET Nat /\ hits # {}
  BY <1>1
<1>3. PICK k : k = Min(hits)
  OBVIOUS
<1>4. k \in 1 .. Len(s)
  BY <1>2, <1>3, MinIsMember
<1>5. SelectInSeq(s, LAMBDA v : v = x) = k
  BY <1>2, <1>3 DEF SelectInSeq
<1>6. RemoveFirst(s, x) = SubSeq(s, 1, k - 1) \o SubSeq(s, k + 1, Len(s))
  BY <1>1, <1>5 DEF RemoveFirst, RemoveAt
<1>7. \A i \in 1 .. k - 1 : s[i] \in S
  BY <1>4
<1>8. \A i \in k + 1 .. Len(s) : s[i] \in S
  BY <1>4
<1>9. 1 \in Int /\ k - 1 \in Int /\ k + 1 \in Int /\ Len(s) \in Int
  BY <1>4
<1>10. SubSeq(s, 1, k - 1) \in Seq(S)
  BY <1>7, <1>9, SubSeqProperties
<1>11. SubSeq(s, k + 1, Len(s)) \in Seq(S)
  BY <1>8, <1>9, SubSeqProperties
<1>12. QED
  BY <1>6, <1>10, <1>11, ConcatProperties

-----------------------------------------------------------------------------
(* Lists of requests.                                                      *)

LEMMA ListedTail ==
  ASSUME NEW list, Listed(list), list # <<>>
  PROVE  /\ Listed(Tail(list)) /\ Head(list) \in Request
         /\ Tail(list) # <<>> /\ OfFile(Head(Tail(list))) =>
              Head(list).op = "make" \/ OfFile(Head(list))
         /\ Tail(list) # <<>> /\ OfFile(Head(list)) => OfFile(Head(Tail(list)))
         /\ Head(list).op = "attach" => Tail(list) = <<>>
<1>1. /\ list \in Seq(Request) /\ Len(list) \in Nat /\ Len(list) >= 1
      /\ Head(list) = list[1] /\ Head(list) \in Request
  BY EmptySeq DEF Listed
<1>2. /\ Tail(list) \in Seq(Request) /\ Len(Tail(list)) = Len(list) - 1
      /\ \A i \in 1 .. Len(list) - 1 : Tail(list)[i] = list[i + 1]
  BY <1>1, HeadTailProperties
<1> HIDE DEF Request
<1>3. ASSUME NEW i \in 2 .. Len(Tail(list)), OfFile(Tail(list)[i])
      PROVE  Tail(list)[i - 1].op = "make" \/ OfFile(Tail(list)[i - 1])
  <2>1. i + 1 \in 2 .. Len(list) /\ i + 1 - 1 = i /\ i - 1 + 1 = i
        /\ i \in 1 .. Len(list) - 1 /\ i - 1 \in 1 .. Len(list) - 1
    BY <1>1, <1>2
  <2>2. Tail(list)[i] = list[i + 1] /\ Tail(list)[i - 1] = list[i]
    BY <1>2, <2>1
  <2>3. OfFile(list[i + 1])
    BY <1>3, <2>2
  <2>4. list[i].op = "make" \/ OfFile(list[i])
    BY <2>1, <2>3 DEF Listed
  <2>5. QED
    BY <2>2, <2>4
<1>a. ASSUME NEW i \in 2 .. Len(Tail(list)), OfFile(Tail(list)[i - 1])
      PROVE  OfFile(Tail(list)[i])
  <2>1. i + 1 \in 2 .. Len(list) /\ i + 1 - 1 = i /\ i - 1 + 1 = i
        /\ i \in 1 .. Len(list) - 1 /\ i - 1 \in 1 .. Len(list) - 1
    BY <1>1, <1>2
  <2>2. Tail(list)[i] = list[i + 1] /\ Tail(list)[i - 1] = list[i]
    BY <1>2, <2>1
  <2>3. PICK j \in 2 .. Len(list) : j = i + 1 /\ j - 1 = i
    BY <2>1
  <2>4. OfFile(list[i + 1])
    <3>1. OfFile(list[j - 1])
      BY <1>a, <2>2, <2>3
    <3>2. OfFile(list[j])
      BY <3>1 DEF Listed
    <3>3. QED
      BY <2>3, <3>2
  <2>5. QED
    BY <2>2, <2>4
<1>4. ASSUME NEW i \in 1 .. Len(Tail(list)) - 1
      PROVE  Tail(list)[i].op # "attach"
  <2>1. i + 1 \in 1 .. Len(list) - 1 /\ i \in 1 .. Len(list) - 1
    BY <1>1, <1>2
  <2>2. QED
    BY <1>2, <2>1 DEF Listed
<1>5. Listed(Tail(list))
  BY <1>2, <1>3, <1>a, <1>4 DEF Listed
<1>6. ASSUME Tail(list) # <<>>, OfFile(Head(Tail(list)))
      PROVE  Head(list).op = "make" \/ OfFile(Head(list))
  <2>1. Len(Tail(list)) \in Nat \ {0} /\ Head(Tail(list)) = Tail(list)[1]
    BY <1>2, <1>6, EmptySeq
  <2>2. 2 \in 2 .. Len(list) /\ 2 - 1 = 1 /\ 1 \in 1 .. Len(list) - 1 /\ 1 + 1 = 2
    BY <1>1, <1>2, <2>1
  <2>3. OfFile(list[2])
    BY <1>2, <1>6, <2>1, <2>2
  <2>4. list[1].op = "make" \/ OfFile(list[1])
    BY <2>2, <2>3 DEF Listed
  <2>5. QED
    BY <1>1, <2>4
<1>b. ASSUME Tail(list) # <<>>, OfFile(Head(list))
      PROVE  OfFile(Head(Tail(list)))
  <2>1. Len(Tail(list)) \in Nat \ {0} /\ Head(Tail(list)) = Tail(list)[1]
    BY <1>2, <1>b, EmptySeq
  <2>2. 2 \in 2 .. Len(list) /\ 2 - 1 = 1 /\ 1 \in 1 .. Len(list) - 1 /\ 1 + 1 = 2
    BY <1>1, <1>2, <2>1
  <2>3. OfFile(list[1])
    BY <1>1, <1>b
  <2>4. OfFile(list[2])
    BY <2>2, <2>3 DEF Listed
  <2>5. QED
    BY <1>2, <2>1, <2>2, <2>4
<1>7. ASSUME Head(list).op = "attach", Tail(list) # <<>>
      PROVE  FALSE
  <2>1. Len(Tail(list)) \in Nat \ {0}
    BY <1>2, <1>7, EmptySeq
  <2>2. 1 \in 1 .. Len(list) - 1
    BY <1>1, <1>2, <2>1
  <2>3. QED
    BY <1>1, <1>7, <2>2 DEF Listed
<1>8. QED
  BY <1>1, <1>5, <1>6, <1>b, <1>7

LEMMA ListedConcat ==
  ASSUME NEW a, NEW b, Listed(a), Listed(b),
         \A i \in 1 .. Len(a) : a[i].op # "attach",
         b # <<>> /\ OfFile(b[1]) /\ a # <<>> => a[Len(a)].op = "make" \/ OfFile(a[Len(a)]),
         b # <<>> /\ a # <<>> /\ OfFile(a[Len(a)]) => OfFile(b[1])
  PROVE  Listed(a \o b)
<1>1. a \in Seq(Request) /\ b \in Seq(Request) /\ Len(a) \in Nat /\ Len(b) \in Nat
  BY DEF Listed
<1> DEFINE c == a \o b
<1>2. /\ c \in Seq(Request) /\ Len(c) = Len(a) + Len(b)
      /\ \A i \in 1 .. Len(a) + Len(b) : c[i] = IF i <= Len(a) THEN a[i] ELSE b[i - Len(a)]
  BY <1>1, ConcatProperties
<1> HIDE DEF c, Request
<1>3. ASSUME NEW i \in 2 .. Len(c), OfFile(c[i])
      PROVE  c[i - 1].op = "make" \/ OfFile(c[i - 1])
  <2>1. i \in 1 .. Len(a) + Len(b) /\ i - 1 \in 1 .. Len(a) + Len(b)
    BY <1>1, <1>2
  <2>2. CASE i <= Len(a)
    <3>1. i \in 2 .. Len(a) /\ i - 1 <= Len(a)
      BY <1>1, <2>2
    <3>2. c[i] = a[i] /\ c[i - 1] = a[i - 1]
      BY <1>2, <2>1, <2>2, <3>1
    <3>3. QED
      BY <1>3, <3>1, <3>2 DEF Listed
  <2>3. CASE i = Len(a) + 1
    <3>1. ~(i <= Len(a)) /\ i - Len(a) = 1 /\ i - 1 = Len(a) /\ i - 1 <= Len(a)
          /\ Len(a) # 0 /\ Len(b) # 0
      BY <1>1, <1>2, <2>3
    <3>2. c[i] = b[1] /\ c[i - 1] = a[Len(a)] /\ a # <<>> /\ b # <<>>
      BY <1>1, <1>2, <2>1, <3>1
    <3>3. QED
      BY <1>3, <3>2
  <2>4. CASE i > Len(a) + 1
    <3>1. /\ ~(i <= Len(a)) /\ ~(i - 1 <= Len(a)) /\ i - Len(a) \in 2 .. Len(b)
          /\ i - 1 - Len(a) = i - Len(a) - 1
      BY <1>1, <1>2, <2>4
    <3>2. c[i] = b[i - Len(a)] /\ c[i - 1] = b[i - Len(a) - 1]
      BY <1>2, <2>1, <3>1
    <3>3. OfFile(b[i - Len(a)])
      BY <1>3, <3>2
    <3>4. QED
      BY <3>1, <3>2, <3>3 DEF Listed
  <2>5. QED
    BY <1>1, <2>2, <2>3, <2>4
<1>e. ASSUME NEW i \in 2 .. Len(c), OfFile(c[i - 1])
      PROVE  OfFile(c[i])
  <2>1. i \in 1 .. Len(a) + Len(b) /\ i - 1 \in 1 .. Len(a) + Len(b)
    BY <1>1, <1>2
  <2>2. CASE i <= Len(a)
    <3>1. i \in 2 .. Len(a) /\ i - 1 <= Len(a)
      BY <1>1, <2>2
    <3>2. c[i] = a[i] /\ c[i - 1] = a[i - 1]
      BY <1>2, <2>1, <2>2, <3>1
    <3>3. QED
      BY <1>e, <3>1, <3>2 DEF Listed
  <2>3. CASE i = Len(a) + 1
    <3>1. ~(i <= Len(a)) /\ i - Len(a) = 1 /\ i - 1 = Len(a) /\ i - 1 <= Len(a)
          /\ Len(a) # 0 /\ Len(b) # 0
      BY <1>1, <1>2, <2>3
    <3>2. c[i] = b[1] /\ c[i - 1] = a[Len(a)] /\ a # <<>> /\ b # <<>>
      BY <1>1, <1>2, <2>1, <3>1
    <3>3. QED
      BY <1>e, <3>2
  <2>4. CASE i > Len(a) + 1
    <3>1. /\ ~(i <= Len(a)) /\ ~(i - 1 <= Len(a)) /\ i - Len(a) \in 2 .. Len(b)
          /\ i - 1 - Len(a) = i - Len(a) - 1
      BY <1>1, <1>2, <2>4
    <3>2. c[i] = b[i - Len(a)] /\ c[i - 1] = b[i - Len(a) - 1]
      BY <1>2, <2>1, <3>1
    <3>3. OfFile(b[i - Len(a) - 1])
      BY <1>e, <3>2
    <3>4. QED
      BY <3>1, <3>2, <3>3 DEF Listed
  <2>5. QED
    BY <1>1, <2>2, <2>3, <2>4
<1>4. ASSUME NEW i \in 1 .. Len(c) - 1
      PROVE  c[i].op # "attach"
  <2>1. i \in 1 .. Len(a) + Len(b)
    BY <1>1, <1>2
  <2>2. CASE i <= Len(a)
    BY <1>1, <1>2, <2>1, <2>2
  <2>3. CASE i > Len(a)
    <3>1. ~(i <= Len(a)) /\ i - Len(a) \in 1 .. Len(b) - 1
      BY <1>1, <1>2, <2>3
    <3>2. b[i - Len(a)].op # "attach"
      BY <3>1 DEF Listed
    <3>3. QED
      BY <1>2, <2>1, <3>1, <3>2
  <2>4. QED
    BY <1>1, <2>2, <2>3
<1>5. QED
  BY <1>2, <1>3, <1>e, <1>4 DEF Listed, c

LEMMA ConcatIs ==
  ASSUME NEW S, NEW a \in Seq(S), NEW b \in Seq(S)
  PROVE  /\ a \o b \in Seq(S) /\ Len(a \o b) = Len(a) + Len(b)
         /\ Len(a) \in Nat /\ Len(b) \in Nat
         /\ a # <<>> => a \o b # <<>> /\ Head(a \o b) = a[1] /\ (a \o b)[1] = a[1]
         /\ a = <<>> => a \o b = b
<1>1. /\ a \o b \in Seq(S) /\ Len(a \o b) = Len(a) + Len(b)
      /\ Len(a) \in Nat /\ Len(b) \in Nat
      /\ \A i \in 1 .. Len(a) + Len(b) : (a \o b)[i] = IF i <= Len(a) THEN a[i] ELSE b[i - Len(a)]
  BY ConcatProperties, LenProperties
<1>2. ASSUME a # <<>>
      PROVE  a \o b # <<>> /\ Head(a \o b) = a[1] /\ (a \o b)[1] = a[1]
  <2>1. Len(a) \in Nat \ {0}
    BY <1>2, EmptySeq
  <2>2. 1 \in 1 .. Len(a) + Len(b) /\ 1 <= Len(a)
    BY <1>1, <2>1
  <2>3. (a \o b)[1] = a[1]
    BY <1>1, <2>2
  <2>4. Len(a \o b) \in Nat \ {0}
    BY <1>1, <2>1
  <2>5. QED
    BY <1>1, <2>3, <2>4
<1>3. a = <<>> => a \o b = b
  BY ConcatEmptySeq
<1>4. QED
  BY <1>1, <1>2, <1>3

LEMMA EntersListed ==
  ASSUME NEW comps \in Seq(Word)
  PROVE  /\ Listed(Enters(comps)) /\ Len(Enters(comps)) = Len(comps)
         /\ \A i \in 1 .. Len(comps) : Enters(comps)[i].op = "enter"
<1> DEFINE e == Enters(comps)
<1>1. e = [i \in 1 .. Len(comps) |-> [op |-> "enter", name |-> comps[i]]]
      /\ Len(comps) \in Nat
  BY DEF Enters
<1>2. ASSUME NEW i \in 1 .. Len(comps)
      PROVE  [op |-> "enter", name |-> comps[i]] \in Request
  <2>1. comps[i] \in Word
    BY ElementOfSeq
  <2>2. QED
    BY <2>1 DEF Request
<1>3. e \in Seq(Request) /\ Len(e) = Len(comps)
  BY <1>1, <1>2
<1>4. \A i \in 1 .. Len(comps) : e[i].op = "enter"
  BY <1>1
<1> HIDE DEF e
<1>5. Listed(e)
  <2>1. ASSUME NEW i \in 2 .. Len(e)
        PROVE  ~OfFile(e[i]) /\ ~OfFile(e[i - 1])
    <3>1. i \in 1 .. Len(comps) /\ i - 1 \in 1 .. Len(comps)
      BY <1>1, <1>3
    <3>2. QED
      BY <1>4, <3>1 DEF OfFile
  <2>2. ASSUME NEW i \in 1 .. Len(e) - 1
        PROVE  e[i].op # "attach"
    BY <1>1, <1>3, <1>4
  <2>3. QED
    BY <1>3, <2>1, <2>2 DEF Listed
<1>6. QED
  BY <1>3, <1>4, <1>5 DEF e

LEMMA OneListed ==
  ASSUME NEW r \in Request
  PROVE  Listed(<<r>>) /\ Len(<<r>>) = 1 /\ <<r>>[1] = r
<1> HIDE DEF Request
<1>1. <<r>> \in Seq(Request) /\ Len(<<r>>) = 1 /\ <<r>>[1] = r
  OBVIOUS
<1>2. 2 .. 1 = {} /\ 1 .. 1 - 1 = {}
  OBVIOUS
<1>3. QED
  BY <1>1, <1>2 DEF Listed

LEMMA NoneListed == Listed(<<>>) /\ Len(<<>>) = 0
<1>1. <<>> \in Seq(Request) /\ Len(<<>>) = 0
  BY EmptySeq
<1>2. 2 .. 0 = {} /\ 1 .. 0 - 1 = {}
  OBVIOUS
<1>3. QED
  BY <1>1, <1>2 DEF Listed

LEMMA LoadListed ==
  ASSUME NEW entry \in Module
  PROVE  /\ Listed(Load(entry))
         /\ Load(entry) # <<>> => ~OfFile(Head(Load(entry)))
<1>1. entry.type \in STRING /\ entry.comps \in Seq(Word) /\ entry.data \in Seq(Nat)
  <2>1. entry.type \in STRING /\ entry.comps \in Seq(STRING) /\ entry.data \in Seq(Nat)
    BY DEF Module
  <2>2. STRING \subseteq Word
    BY DEF Word
  <2>3. QED
    BY <2>1, <2>2, SeqMonotonic
<1>2. CASE entry.comps = <<>>
  BY <1>2, NoneListed DEF Load
<1>3. CASE entry.comps # <<>>
  <2> DEFINE comps == entry.comps
             leaf == Last(comps)
             front == Front(comps)
             rest == IF entry.data = <<>> THEN <<>> ELSE Put(entry.data)
             made == Make(leaf) \o rest
  <2>1. leaf \in Word /\ front \in Seq(Word)
    <3>1. Len(comps) \in Nat \ {0}
      BY <1>1, <1>3, EmptySeq
    <3>2. leaf \in Word
      <4>1. Len(comps) \in 1 .. Len(comps)
        BY <3>1
      <4>2. QED
        BY <1>1, <4>1, ElementOfSeq DEF Last
    <3>3. front \in Seq(Word)
      <4>1. \A i \in 1 .. Len(comps) - 1 : comps[i] \in Word
        <5>1. \A i \in 1 .. Len(comps) - 1 : i \in 1 .. Len(comps)
          BY <3>1
        <5>2. QED
          BY <1>1, <5>1, ElementOfSeq
      <4>2. 1 \in Int /\ Len(comps) - 1 \in Int
        BY <3>1
      <4>3. QED
        BY <4>1, <4>2, SubSeqProperties DEF Front
    <3>4. QED
      BY <3>2, <3>3
  <2>2. /\ [op |-> "make", name |-> leaf] \in Request
        /\ [op |-> "put", cells |-> entry.data] \in Request
        /\ [op |-> "attach", cells |-> entry.data] \in Request
    BY <1>1, <2>1 DEF Request
  <2>3. /\ Listed(Make(leaf)) /\ Len(Make(leaf)) = 1 /\ Make(leaf)[1].op = "make"
        /\ Listed(Put(entry.data)) /\ Listed(Attach(entry.data))
        /\ Len(Put(entry.data)) = 1 /\ Len(Attach(entry.data)) = 1
    BY <2>2, OneListed DEF Make, Put, Attach
  <2>4. Listed(rest)
    BY <2>3, NoneListed
  <2>5. /\ Listed(made) /\ Len(made) >= 1 /\ Len(made) \in Nat /\ made[1].op = "make"
    <3>1. \A i \in 1 .. Len(Make(leaf)) : Make(leaf)[i].op # "attach"
      BY <2>3
    <3>a. ~OfFile(Make(leaf)[1])
      BY <2>3 DEF OfFile
    <3>2. Listed(made)
      BY <2>3, <2>4, <3>1, <3>a, ListedConcat
    <3>3. Make(leaf) \in Seq(Request) /\ rest \in Seq(Request) /\ Make(leaf) # <<>>
      BY <2>3, <2>4, EmptySeq DEF Listed
    <3> HIDE DEF rest
    <3>4. /\ Len(rest) \in Nat /\ Len(made) = Len(Make(leaf)) + Len(rest)
          /\ made[1] = Make(leaf)[1]
      BY <3>3, ConcatIs
    <3> HIDE DEF made
    <3>5. QED
      BY <2>3, <3>2, <3>4
  <2> HIDE DEF leaf, front, rest, made
  <2>6. CASE entry.type = "5"
    <3>1. Load(entry) = Enters(comps)
      BY <1>3, <2>6 DEF Load
    <3>2. Len(comps) \in Nat \ {0} /\ 1 \in 1 .. Len(comps)
      BY <1>1, <1>3, EmptySeq
    <3>3. /\ Listed(Enters(comps))
          /\ Enters(comps) # <<>> => Head(Enters(comps)) = Enters(comps)[1]
          /\ Enters(comps)[1].op = "enter"
      BY <1>1, <3>2, EntersListed DEF Listed
    <3>4. QED
      BY <3>1, <3>3 DEF OfFile
  <2>7. CASE entry.type = "0"
    <3> DEFINE b == IF leaf = "" THEN <<>> ELSE made
    <3>1. Load(entry) = Enters(front) \o b
      BY <1>3, <2>7 DEF Load, front, leaf, made, rest
    <3>2. Listed(b) /\ (b # <<>> => b[1].op = "make")
      BY <2>5, NoneListed
    <3> HIDE DEF b
    <3>3. /\ Listed(Enters(front)) /\ Len(front) \in Nat
          /\ Len(Enters(front)) = Len(front)
          /\ \A i \in 1 .. Len(front) : Enters(front)[i].op = "enter"
      BY <2>1, EntersListed
    <3>4. \A i \in 1 .. Len(Enters(front)) : Enters(front)[i].op # "attach"
      BY <3>3
    <3>5. b # <<>> => ~OfFile(b[1])
      BY <3>2 DEF OfFile
    <3>e. Enters(front) # <<>> => ~OfFile(Enters(front)[Len(Enters(front))])
      <4>1. SUFFICES ASSUME Enters(front) # <<>>
                     PROVE  ~OfFile(Enters(front)[Len(Enters(front))])
        OBVIOUS
      <4>2. Enters(front) \in Seq(Request)
        BY <3>3 DEF Listed
      <4>3. Len(front) \in 1 .. Len(front)
        BY <3>3, <4>1, <4>2, EmptySeq
      <4>4. QED
        BY <3>3, <4>3 DEF OfFile
    <3>6. Listed(Enters(front) \o b)
      BY <3>2, <3>3, <3>4, <3>5, <3>e, ListedConcat
    <3>7. ASSUME Enters(front) \o b # <<>>
          PROVE  ~OfFile(Head(Enters(front) \o b))
      <4>1. Enters(front) \in Seq(Request) /\ b \in Seq(Request)
        BY <3>2, <3>3 DEF Listed
      <4>2. CASE Enters(front) = <<>>
        <5>1. Enters(front) \o b = b
          BY <4>1, <4>2, ConcatIs
        <5>2. b # <<>> /\ Head(b) = b[1]
          BY <3>7, <4>1, <5>1, EmptySeq
        <5>3. QED
          BY <3>5, <5>1, <5>2
      <4>3. CASE Enters(front) # <<>>
        <5>1. Head(Enters(front) \o b) = Enters(front)[1]
          BY <4>1, <4>3, ConcatIs
        <5>2. 1 \in 1 .. Len(front)
          BY <3>3, <4>1, <4>3, EmptySeq
        <5>3. QED
          BY <3>3, <5>1, <5>2 DEF OfFile
      <4>4. QED
        BY <4>2, <4>3
    <3>a. Listed(Load(entry))
      BY <3>1, <3>6
    <3>b. Load(entry) # <<>> => ~OfFile(Head(Load(entry)))
      BY <3>1, <3>7
    <3>8. QED
      BY <3>a, <3>b
  <2>8. CASE entry.type = "module"
    <3> DEFINE models == Enters(<<"models">>)
               a == models \o Make(leaf)
    <3>1. Load(entry) = a \o Attach(entry.data)
      BY <1>3, <2>8 DEF Load, leaf
    <3>2. "models" \in Word
      BY DEF Word
    <3>x. PICK c : c = <<"models">>
      OBVIOUS
    <3>y. c \in Seq(Word) /\ Len(c) = 1 /\ 1 \in 1 .. Len(c)
      <4>1. \A S, x : x \in S => <<x>> \in Seq(S) /\ Len(<<x>>) = 1
        OBVIOUS
      <4>2. QED
        BY <3>2, <3>x, <4>1
    <3>3. Listed(models) /\ Len(models) = 1 /\ models[1].op = "enter"
      BY <3>x, <3>y, EntersListed
    <3>4. Make(leaf)[1].op = "make" /\ models \in Seq(Request) /\ Make(leaf) \in Seq(Request)
      BY <2>3, <3>3 DEF Listed
    <3> HIDE DEF models
    <3>5. \A i \in 1 .. Len(models) : models[i].op # "attach"
      BY <3>3
    <3>6. ~OfFile(Make(leaf)[1])
      BY <3>4 DEF OfFile
    <3>e. ~OfFile(models[Len(models)])
      BY <3>3 DEF OfFile
    <3>7. Listed(a)
      BY <2>3, <3>3, <3>5, <3>6, <3>e, ListedConcat
    <3>8. Len(a) = 2 /\ a[1] = models[1] /\ a[2] = Make(leaf)[1]
      BY <2>3, <3>3, <3>4, ConcatProperties
    <3> HIDE DEF a
    <3>9. \A i \in 1 .. Len(a) : a[i].op # "attach"
      BY <3>3, <3>4, <3>8
    <3>f. ~OfFile(a[Len(a)])
      BY <3>4, <3>8 DEF OfFile
    <3>10. Listed(a \o Attach(entry.data))
      BY <2>3, <3>4, <3>7, <3>8, <3>9, <3>f, ListedConcat
    <3>11. Len(Attach(entry.data)) = 1 /\ a \in Seq(Request) /\ Attach(entry.data) \in Seq(Request)
      BY <2>3, <3>7 DEF Listed
    <3>12. a # <<>>
      BY <3>8, EmptySeq
    <3>13. Head(a \o Attach(entry.data)) = a[1]
      BY <3>11, <3>12, ConcatIs
    <3>14. QED
      BY <3>1, <3>3, <3>8, <3>10, <3>13 DEF OfFile
  <2>9. CASE entry.type \notin {"5", "0", "module"}
    BY <1>3, <2>9, NoneListed DEF Load
  <2>10. QED
    BY <2>6, <2>7, <2>8, <2>9
<1>4. QED
  BY <1>2, <1>3

\* What a write asks for: the file is emptied, then each piece is put.
LEMMA PiecesAre ==
  ASSUME NEW words \in Lines
  PROVE  /\ Pieces(words) \in Seq(Seq(Nat)) /\ Len(Pieces(words)) = 2 * Len(words)
         /\ Len(words) \in Nat \ {0}
<1>1. words \in Seq(Seq(Nat \ {Zero})) /\ words # <<>>
  BY FilesAssumption
<1>2. Len(words) \in Nat \ {0}
  BY <1>1, EmptySeq
<1> DEFINE At(i) == IF i % 2 = 1 THEN words[(i + 1) \div 2]
                    ELSE IF i < 2 * Len(words) THEN <<Space>> ELSE <<Newline>>
<1>3. ASSUME NEW i \in 1 .. 2 * Len(words)
      PROVE  At(i) \in Seq(Nat)
  <2>1. CASE i % 2 = 1
    <3>1. (i + 1) \div 2 \in 1 .. Len(words)
      BY <1>2, <2>1
    <3>2. words[(i + 1) \div 2] \in Seq(Nat \ {Zero})
      BY <1>1, <3>1, ElementOfSeq
    <3>3. words[(i + 1) \div 2] \in Seq(Nat)
      <4>1. Nat \ {Zero} \subseteq Nat
        OBVIOUS
      <4>2. QED
        BY <3>2, <4>1, SeqMonotonic
    <3>4. QED
      BY <2>1, <3>3
  <2>2. CASE i % 2 # 1
    <3>1. <<Space>> \in Seq(Nat) /\ <<Newline>> \in Seq(Nat)
      BY DEF Space, Newline
    <3>2. QED
      BY <2>2, <3>1
  <2>3. QED
    BY <2>1, <2>2
<1>4. Pieces(words) = [i \in 1 .. 2 * Len(words) |-> At(i)]
  BY DEF Pieces
<1>5. 2 * Len(words) \in Nat
  BY <1>2
<1> HIDE DEF At
<1>6. QED
  BY <1>2, <1>3, <1>4, <1>5

LEMMA FillListed ==
  ASSUME NEW words \in Lines
  PROVE  /\ Listed(Fill(words)) /\ Fill(words) # <<>>
         /\ OfFile(Fill(words)[1]) /\ Head(Fill(words)) = Fill(words)[1]
         /\ \A i \in 1 .. Len(Fill(words)) : OfFile(Fill(words)[i])
<1> DEFINE p == Pieces(words)
           l == LineOf(words)
<1>1. p \in Seq(Seq(Nat)) /\ Len(p) = 2 * Len(words) /\ Len(words) \in Nat /\ Len(p) \in Nat
      /\ DOMAIN p = 1 .. Len(p)
  BY PiecesAre
<1>2. l = [i \in 1 .. Len(p) |-> [op |-> "put", cells |-> p[i]]]
  BY <1>1 DEF LineOf, Put
<1> HIDE DEF p, l
<1>3. ASSUME NEW i \in 1 .. Len(p)
      PROVE  [op |-> "put", cells |-> p[i]] \in Request
  <2>1. p[i] \in Seq(Nat)
    BY <1>1, ElementOfSeq
  <2>2. QED
    BY <2>1 DEF Request
<1> HIDE DEF Request
<1>4. l \in Seq(Request) /\ Len(l) = Len(p) /\ \A i \in 1 .. Len(l) : l[i].op = "put"
  BY <1>1, <1>2, <1>3
<1>5. Listed(l)
  <2>1. PICK len \in Nat : len = Len(l)
    BY <1>1, <1>4
  <2>2. \A i \in 1 .. len : OfFile(l[i]) /\ l[i].op # "attach"
    BY <1>4, <2>1 DEF OfFile
  <2>3. \A i \in 2 .. len : OfFile(l[i - 1]) /\ OfFile(l[i])
    <3>1. \A i \in 2 .. len : i \in 1 .. len /\ i - 1 \in 1 .. len
      OBVIOUS
    <3>2. QED
      BY <2>2, <3>1
  <2>4. \A i \in 1 .. len - 1 : l[i].op # "attach"
    BY <2>2
  <2>5. QED
    BY <1>4, <2>1, <2>3, <2>4 DEF Listed
<1>6. Listed(Truncate) /\ Len(Truncate) = 1 /\ Truncate[1].op = "truncate"
  <2>1. [op |-> "truncate"] \in Request
    BY DEF Request
  <2>2. QED
    BY <2>1, OneListed DEF Truncate
<1>7. OfFile(Truncate[1]) /\ \A i \in 1 .. Len(Truncate) : Truncate[i].op # "attach"
  BY <1>6 DEF OfFile
<1>8. Fill(words) = Truncate \o l
  BY DEF Fill, l
<1>e. l # <<>> => OfFile(l[1])
  <2>1. SUFFICES ASSUME l # <<>>
                 PROVE  OfFile(l[1])
    OBVIOUS
  <2>2. 1 \in 1 .. Len(l)
    BY <1>1, <1>4, <2>1, EmptySeq
  <2>3. QED
    BY <1>4, <2>2 DEF OfFile
<1>9. Listed(Fill(words))
  BY <1>5, <1>6, <1>7, <1>8, <1>e, ListedConcat
<1>10. /\ Len(Fill(words)) = 1 + Len(l)
       /\ \A i \in 1 .. 1 + Len(l) : Fill(words)[i] = IF i <= 1 THEN Truncate[i] ELSE l[i - 1]
  <2>1. Truncate \in Seq(Request)
    BY <1>6 DEF Listed
  <2>2. QED
    BY <1>4, <1>6, <1>8, <2>1, ConcatProperties
<1>11. Len(Fill(words)) \in Nat \ {0} /\ Fill(words) \in Seq(Request) /\ Len(l) \in Nat
  BY <1>1, <1>4, <1>9, <1>10 DEF Listed
<1>12. Fill(words) # <<>> /\ Head(Fill(words)) = Fill(words)[1]
  BY <1>11
<1>13. ASSUME NEW i \in 1 .. Len(Fill(words))
       PROVE  OfFile(Fill(words)[i])
  <2>1. CASE i <= 1
    <3>1. i = 1
      BY <1>10, <1>11, <2>1
    <3>2. QED
      BY <1>7, <1>10, <1>11, <2>1, <3>1
  <2>2. CASE ~(i <= 1)
    <3>1. i - 1 \in 1 .. Len(l)
      BY <1>10, <1>11, <2>2
    <3>2. Fill(words)[i] = l[i - 1]
      BY <1>10, <1>11, <2>2
    <3>3. QED
      BY <1>4, <3>1, <3>2 DEF OfFile
  <2>3. QED
    BY <2>1, <2>2
<1>14. OfFile(Fill(words)[1])
  <2>1. 1 \in 1 .. Len(Fill(words))
    BY <1>11
  <2>2. QED
    BY <1>13, <2>1
<1>15. QED
  BY <1>9, <1>12, <1>13, <1>14

-----------------------------------------------------------------------------
(* What the operations on nodes do.                                        *)


\* The new node is n.
Linked(dir, name, is_dir, n) ==
  /\ live' = live \cup {n} /\ at' = n
  /\ \A m \in Node : m # n /\ m # dir => nodes'[m] = nodes[m]
  /\ nodes'[n].is_dir = is_dir /\ ~nodes'[n].readonly
  /\ dir # n =>
       /\ nodes'[n] = [Blank EXCEPT !.name = name, !.is_dir = is_dir, !.parent = dir]
       /\ nodes'[dir] = [nodes[dir] EXCEPT !.children = <<n>> \o @]

LEMMA CreateNeeds ==
  ASSUME NEW dir, NEW name, NEW is_dir, Create(dir, name, is_dir)
  PROVE  nodes[dir].is_dir /\ name \in Names /\ dir_find(dir, name) = NULL
BY DEF Create, Creatable

LEMMA CreateIs ==
  ASSUME Types, NEW dir \in Node, NEW name, NEW is_dir, is_dir \in BOOLEAN, Create(dir, name, is_dir)
  PROVE  nodes' \in [Node -> NodeRec] /\ \E n \in Slots \ live : Linked(dir, name, is_dir, n)
<1>1. nodes[dir].is_dir /\ name \in Names /\ dir_find(dir, name) = NULL
  BY DEF Create, Creatable
<1>2. PICK n \in Slots \ live :
        /\ nodes' = [[nodes EXCEPT ![n] =
                        [Blank EXCEPT !.name = name, !.is_dir = is_dir, !.parent = dir]]
                     EXCEPT ![dir].children = <<n>> \o @]
        /\ live' = live \cup {n}
        /\ at' = n
  BY DEF Create
<1>3. n \in Node /\ nodes \in [Node -> NodeRec] /\ Slots \subseteq Node
  BY RootIs DEF Types
<1> DEFINE new == [Blank EXCEPT !.name = name, !.is_dir = is_dir, !.parent = dir]
<1>4. new \in NodeRec /\ new.is_dir = is_dir /\ new.readonly = FALSE /\ new.children = <<>>
  <2>1. Blank \in NodeRec /\ Blank.readonly = FALSE /\ Blank.children = <<>>
    BY BlankIs DEF Blank
  <2>2. name \in Names \cup {NULL} /\ dir \in Node \cup {NULL}
    BY <1>1
  <2>3. QED
    BY <2>1, <2>2 DEF NodeRec
<1> HIDE DEF new
<1>5. PICK mid : mid = [nodes EXCEPT ![n] = new]
  OBVIOUS
<1>6. mid \in [Node -> NodeRec] /\ mid[n] = new /\ \A m \in Node : m # n => mid[m] = nodes[m]
  BY <1>3, <1>4, <1>5
<1>7. nodes' = [mid EXCEPT ![dir].children = <<n>> \o @]
  BY <1>2, <1>5 DEF new
<1>8. mid[dir] \in NodeRec /\ mid[dir].children \in Seq(Node)
  BY <1>6 DEF NodeRec
<1>9. PICK kids : kids = <<n>> \o mid[dir].children
  OBVIOUS
<1>10. kids \in Seq(Node)
  <2>1. <<n>> \in Seq(Node)
    BY <1>3
  <2>2. QED
    BY <1>8, <1>9, <2>1, ConcatProperties
<1>11. nodes' = [mid EXCEPT ![dir] = [mid[dir] EXCEPT !.children = kids]]
  BY <1>6, <1>7, <1>9
<1>12. [mid[dir] EXCEPT !.children = kids] \in NodeRec
  BY <1>8, <1>10 DEF NodeRec
<1>13. nodes' \in [Node -> NodeRec]
  BY <1>6, <1>11, <1>12
<1>14. /\ nodes'[dir] = [mid[dir] EXCEPT !.children = kids]
       /\ \A m \in Node : m # dir => nodes'[m] = mid[m]
  BY <1>6, <1>11
<1>15. \A m \in Node : m # n /\ m # dir => nodes'[m] = nodes[m]
  BY <1>6, <1>14
<1>16. nodes'[n].is_dir = is_dir /\ ~nodes'[n].readonly
  <2>1. CASE dir = n
    <3>1. mid[dir] \in NodeRec /\ mid[dir].is_dir = is_dir /\ mid[dir].readonly = FALSE
      BY <1>4, <1>6, <2>1
    <3>2. /\ [mid[dir] EXCEPT !.children = kids].is_dir = mid[dir].is_dir
          /\ [mid[dir] EXCEPT !.children = kids].readonly = mid[dir].readonly
      BY <3>1 DEF NodeRec
    <3>3. QED
      BY <1>14, <2>1, <3>1, <3>2
  <2>2. CASE dir # n
    BY <1>3, <1>4, <1>6, <1>14, <2>2
  <2>3. QED
    BY <2>1, <2>2
<1>17. ASSUME dir # n
       PROVE  nodes'[n] = new /\ nodes'[dir] = [nodes[dir] EXCEPT !.children = <<n>> \o @]
  <2>1. mid[dir] = nodes[dir]
    BY <1>6, <1>17
  <2>2. [nodes[dir] EXCEPT !.children = <<n>> \o @] = [nodes[dir] EXCEPT !.children = kids]
    BY <1>9, <2>1
  <2>3. QED
    BY <1>3, <1>6, <1>14, <1>17, <2>1, <2>2
<1>18. QED
  BY <1>1, <1>2, <1>13, <1>15, <1>16, <1>17 DEF new, Linked

LEMMA UnlinkIs ==
  ASSUME Types, NEW n \in Node, vfs_unlink(n)
  PROVE  /\ n # Root /\ live' = live \ {n}
         /\ nodes[n].is_dir => nodes[n].children = <<>>
         /\ \E i \in DOMAIN nodes[Parent(n)].children : nodes[Parent(n)].children[i] = n
         /\ nodes' \in [Node -> NodeRec]
         /\ \A m \in Node : m \in live' \cup {Root} =>
              nodes'[m] = IF m = nodes[n].parent
                          THEN [nodes[m] EXCEPT !.children = RemoveFirst(@, n)]
                          ELSE nodes[m]
<1>1. n # Root /\ live' = live \ {n} /\ (nodes[n].is_dir => nodes[n].children = <<>>)
      /\ \E i \in DOMAIN nodes[Parent(n)].children : nodes[Parent(n)].children[i] = n
  BY DEF vfs_unlink, Unlinkable, Range
<1>2. nodes \in [Node -> NodeRec]
  BY DEF Types
<1>3. PICK p : p = nodes[n].parent
  OBVIOUS
<1>4. PICK mid : mid = [nodes EXCEPT ![p].children = RemoveFirst(@, n)]
  OBVIOUS
<1>5. nodes' = Forget(mid, live', cwd)
  BY <1>3, <1>4 DEF vfs_unlink
<1>6. /\ mid \in [Node -> NodeRec]
      /\ \A m \in Node : mid[m] = IF m = p THEN [nodes[m] EXCEPT !.children = RemoveFirst(@, n)]
                                  ELSE nodes[m]
  <2>1. CASE p \in Node
    <3>1. nodes[p] \in NodeRec /\ nodes[p].children \in Seq(Node)
      BY <1>2, <2>1 DEF NodeRec
    <3>2. PICK kids : kids = RemoveFirst(nodes[p].children, n)
      OBVIOUS
    <3>3. kids \in Seq(Node)
      BY <3>1, <3>2, RemoveFirstType
    <3>4. [nodes[p] EXCEPT !.children = kids] \in NodeRec
      BY <3>1, <3>3 DEF NodeRec
    <3>5. mid = [nodes EXCEPT ![p] = [nodes[p] EXCEPT !.children = kids]]
      BY <1>4, <3>2
    <3>6. QED
      BY <1>2, <2>1, <3>2, <3>4, <3>5
  <2>2. CASE p \notin Node
    <3>1. mid = nodes
      BY <1>2, <1>4, <2>2
    <3>2. QED
      BY <1>2, <2>2, <3>1
  <2>3. QED
    BY <2>1, <2>2
<1>7. /\ nodes' \in [Node -> NodeRec]
      /\ \A m \in Node : m \in live' \cup {Root} => nodes'[m] = mid[m]
  BY <1>5, <1>6, ForgetIs
<1>8. QED
  BY <1>1, <1>3, <1>6, <1>7

-----------------------------------------------------------------------------
(* The tree.                                                               *)

\* A directory holds no data, a file no nodes, and its bytes fit.
FileOK(n) ==
  /\ nodes[n].is_dir => ~nodes[n].readonly /\ nodes[n].data = <<>>
  /\ ~nodes[n].is_dir => nodes[n].children = <<>>
  /\ ~nodes[n].readonly => Len(nodes[n].data) <= nodes[n].cap

\* The children of a node of the tree are in it and have different names.
Holds(P, n) ==
  /\ \A i \in DOMAIN nodes[n].children :
       /\ nodes[n].children[i] \in DOMAIN P \ {Root}
       /\ nodes[nodes[n].children[i]].parent = n
  /\ \A i, j \in DOMAIN nodes[n].children :
       nodes[nodes[n].children[i]].name = nodes[nodes[n].children[j]].name => i = j

\* A node of the tree is a child of its parent, whose path it continues.
Hung(P, n) ==
  /\ nodes[n].parent \in DOMAIN P
  /\ \E i \in DOMAIN nodes[nodes[n].parent].children :
       nodes[nodes[n].parent].children[i] = n
  /\ nodes[n].name \in Names
  /\ P[n] = Append(P[nodes[n].parent], nodes[n].name)

\* P gives the paths of the nodes that hang below the root.
Hangs(P) ==
  /\ P \in [DOMAIN P -> Seq(Names)]
  /\ DOMAIN P \subseteq live \cup {Root}
  /\ Root \in DOMAIN P /\ P[Root] = <<>>
  /\ nodes[Root].parent = NULL /\ nodes[Root].is_dir
  /\ \A n \in DOMAIN P : Holds(P, n) /\ FileOK(n)
  /\ \A n \in DOMAIN P \ {Root} : Hung(P, n)

\* The links of a node.
SameLinks(n) ==
  /\ nodes'[n].name = nodes[n].name /\ nodes'[n].parent = nodes[n].parent
  /\ nodes'[n].children = nodes[n].children /\ nodes'[n].is_dir = nodes[n].is_dir

LEMMA TreeIn ==
  ASSUME Types, NEW P, Hangs(P)
  PROVE  /\ DOMAIN P \subseteq Node /\ Root \in Node /\ NULL \notin DOMAIN P
         /\ \A n \in DOMAIN P : P[n] \in Seq(Names) /\ Len(P[n]) \in Nat
         /\ \A n \in DOMAIN P : Parent(n) \in DOMAIN P
BY RootIs DEF Types, Hangs, Hung, Parent

LEMMA TreeStays ==
  ASSUME Types, NEW P, Hangs(P), DOMAIN P \subseteq live' \cup {Root},
         \A n \in DOMAIN P : SameLinks(n) /\ FileOK(n)'
  PROVE  Hangs(P)'
<1>1. ASSUME NEW n \in DOMAIN P
      PROVE  Holds(P, n)'
  <2>1. Holds(P, n) /\ nodes'[n].children = nodes[n].children
    BY DEF Hangs, SameLinks
  <2>2. \A i \in DOMAIN nodes[n].children :
          /\ nodes'[nodes[n].children[i]].parent = nodes[nodes[n].children[i]].parent
          /\ nodes'[nodes[n].children[i]].name = nodes[nodes[n].children[i]].name
    BY <2>1 DEF Holds, SameLinks
  <2>3. QED
    BY <2>1, <2>2 DEF Holds
<1>2. ASSUME NEW n \in DOMAIN P \ {Root}
      PROVE  Hung(P, n)'
  <2>1. PICK p : p = nodes[n].parent
    OBVIOUS
  <2>2. /\ p \in DOMAIN P /\ nodes[n].name \in Names
        /\ P[n] = Append(P[p], nodes[n].name)
    BY <2>1 DEF Hangs, Hung
  <2>3. \E i \in DOMAIN nodes[p].children : nodes[p].children[i] = n
    BY <2>1 DEF Hangs, Hung
  <2>4. nodes'[n].parent = p /\ nodes'[n].name = nodes[n].name
        /\ nodes'[p].children = nodes[p].children
    BY <2>1, <2>2 DEF SameLinks
  <2>5. QED
    BY <2>2, <2>3, <2>4 DEF Hung
<1>3. QED
  BY <1>1, <1>2 DEF Hangs, SameLinks

\* What a step does to the tree: nothing, a new node, another content, a node less.
Quiet(P, Q) == Q = P /\ \A n \in DOMAIN P : Contents(n)' = Contents(n)

Grows(P, Q) ==
  \E n, dir \in Node, name \in Names :
    /\ n \notin DOMAIN P /\ dir \in DOMAIN P /\ nodes[dir].is_dir
    /\ DOMAIN Q = DOMAIN P \cup {n}
    /\ \A m \in DOMAIN P : Q[m] = P[m] /\ Contents(m)' = Contents(m)
    /\ Q[n] = Append(P[dir], name)
    /\ Contents(n)' \in {Promise!Dir, Promise!Empty}

Changes(P, Q) ==
  /\ Q = P
  /\ \E n \in DOMAIN P :
       /\ ~nodes[n].is_dir /\ ~nodes[n].readonly /\ ~nodes'[n].is_dir
       /\ \A m \in DOMAIN P : m # n => Contents(m)' = Contents(m)

Shrinks(P, Q, n) ==
  /\ n \in DOMAIN P \ {Root}
  /\ nodes[n].is_dir => nodes[n].children = <<>>
  /\ DOMAIN Q = DOMAIN P \ {n}
  /\ \A m \in DOMAIN Q : Q[m] = P[m] /\ Contents(m)' = Contents(m)

LEMMA SameContents ==
  ASSUME NEW n, SameLinks(n), nodes'[n].readonly = nodes[n].readonly,
         nodes'[n].data = nodes[n].data
  PROVE  Contents(n)' = Contents(n)
BY DEF SameLinks, Contents

LEMMA SameNode ==
  ASSUME NEW n, nodes'[n] = nodes[n]
  PROVE  /\ SameLinks(n) /\ Contents(n)' = Contents(n) /\ FileOK(n)' = FileOK(n)
BY DEF SameLinks, Contents, FileOK

LEMMA TreeUntouched ==
  ASSUME Types, NEW P, Hangs(P), DOMAIN P \subseteq live' \cup {Root},
         \A n \in DOMAIN P : nodes'[n] = nodes[n]
  PROVE  Hangs(P)' /\ Quiet(P, P)
<1>1. ASSUME NEW n \in DOMAIN P
      PROVE  SameLinks(n) /\ FileOK(n)' /\ Contents(n)' = Contents(n)
  BY SameNode DEF Hangs
<1>2. Hangs(P)'
  BY <1>1, TreeStays
<1>3. QED
  BY <1>1, <1>2 DEF Quiet

LEMMA CreateTree ==
  ASSUME Types, NEW P, Hangs(P),
         NEW dir \in Node, NEW name, NEW is_dir, is_dir \in BOOLEAN, Create(dir, name, is_dir)
  PROVE  \E Q : /\ Hangs(Q)' /\ (Quiet(P, Q) \/ Grows(P, Q))
                /\ DOMAIN P \subseteq DOMAIN Q /\ DOMAIN Q \subseteq DOMAIN P \cup {at'}
<1>1. /\ nodes[dir].is_dir /\ name \in Names /\ dir_find(dir, name) = NULL
      /\ nodes' \in [Node -> NodeRec]
  BY CreateIs, CreateNeeds
<1>a. PICK n \in Slots \ live : Linked(dir, name, is_dir, n)
  BY CreateIs
<1>2. /\ live' = live \cup {n} /\ at' = n
      /\ \A m \in Node : m # n /\ m # dir => nodes'[m] = nodes[m]
      /\ nodes'[n].is_dir = is_dir /\ ~nodes'[n].readonly
      /\ dir # n =>
           /\ nodes'[n] = [Blank EXCEPT !.name = name, !.is_dir = is_dir, !.parent = dir]
           /\ nodes'[dir] = [nodes[dir] EXCEPT !.children = <<n>> \o @]
  BY <1>a DEF Linked
<1>3. n \in Node /\ n # Root /\ n # NULL
  BY RootIs, VfsAssumption DEF Node
<1>4. n \notin DOMAIN P /\ DOMAIN P \subseteq live' \cup {Root} /\ DOMAIN P \subseteq Node
  BY <1>2, <1>3, TreeIn DEF Hangs
<1>5. CASE dir \notin DOMAIN P
  <2>1. \A m \in DOMAIN P : nodes'[m] = nodes[m]
    BY <1>2, <1>4, <1>5
  <2>2. QED
    BY <1>4, <2>1, TreeUntouched
<1>6. CASE dir \in DOMAIN P
  <2>1. dir # n /\ nodes[dir] \in NodeRec
    BY <1>4, <1>6 DEF Types
  <2>2. PICK old : old = nodes[dir].children
    OBVIOUS
  <2>3. PICK kids : kids = <<n>> \o old
    OBVIOUS
  <2>4. old \in Seq(Node) /\ DOMAIN old = 1 .. Len(old) /\ Len(old) \in Nat
    BY <2>1, <2>2 DEF NodeRec
  <2>5. /\ kids \in Seq(Node) /\ Len(kids) = Len(old) + 1 /\ DOMAIN kids = 1 .. Len(old) + 1
        /\ kids[1] = n /\ \A i \in 2 .. Len(old) + 1 : kids[i] = old[i - 1]
    BY <1>3, <2>3, <2>4
  <2>6. /\ nodes'[dir].children = kids /\ nodes'[dir].name = nodes[dir].name
        /\ nodes'[dir].parent = nodes[dir].parent /\ nodes'[dir].is_dir = nodes[dir].is_dir
        /\ nodes'[dir].readonly = nodes[dir].readonly /\ nodes'[dir].data = nodes[dir].data
        /\ nodes'[dir].cap = nodes[dir].cap
    <3>1. nodes'[dir] = [nodes[dir] EXCEPT !.children = kids]
      BY <1>2, <2>1, <2>2, <2>3
    <3>2. QED
      BY <2>1, <3>1 DEF NodeRec
  <2>7. /\ nodes'[n].name = name /\ nodes'[n].parent = dir /\ nodes'[n].children = <<>>
        /\ nodes'[n].data = <<>> /\ nodes'[n].is_dir = is_dir /\ nodes'[n].readonly = FALSE
        /\ nodes'[n].cap = 0
    <3>1. nodes'[n] = [Blank EXCEPT !.name = name, !.is_dir = is_dir, !.parent = dir]
      BY <1>2, <2>1
    <3>2. Blank \in NodeRec /\ Blank.readonly = FALSE /\ Blank.children = <<>>
          /\ Blank.data = <<>> /\ Blank.cap = 0
      BY BlankIs DEF Blank
    <3>3. QED
      BY <3>1, <3>2 DEF NodeRec
  <2>8. PICK Q : Q = [m \in DOMAIN P \cup {n} |-> IF m = n THEN Append(P[dir], name) ELSE P[m]]
    OBVIOUS
  <2>9. /\ DOMAIN Q = DOMAIN P \cup {n} /\ Q[n] = Append(P[dir], name)
        /\ \A m \in DOMAIN P : Q[m] = P[m]
    BY <1>4, <2>8
  <2>10. \A m \in DOMAIN P : m # dir => nodes'[m] = nodes[m]
    BY <1>2, <1>4
  <2>11. Q \in [DOMAIN Q -> Seq(Names)]
    <3>1. Append(P[dir], name) \in Seq(Names)
      BY <1>1, <1>6, TreeIn, AppendProperties
    <3>2. \A m \in DOMAIN P : P[m] \in Seq(Names)
      BY TreeIn
    <3>3. QED
      BY <2>8, <2>9, <3>1, <3>2
  <2>12. \A m \in DOMAIN P : nodes'[m].name = nodes[m].name /\ nodes'[m].parent = nodes[m].parent
    BY <2>6, <2>10
  <2>13. ASSUME NEW m \in DOMAIN P, m # dir
         PROVE  Holds(Q, m)'
    <3>1. Holds(P, m) /\ nodes'[m] = nodes[m]
      BY <2>10, <2>13 DEF Hangs
    <3>2. QED
      BY <2>9, <2>12, <3>1 DEF Holds
  <2>14. Holds(Q, dir)'
    <3>1. \A i \in DOMAIN old : /\ old[i] \in DOMAIN P \ {Root} /\ nodes[old[i]].parent = dir
                                /\ nodes[old[i]].name # name
      <4>1. Holds(P, dir)
        BY <1>6 DEF Hangs
      <4>2. \A i \in DOMAIN old : nodes[old[i]].name # name
        <5>1. \/ \A i \in DOMAIN old : nodes[old[i]].name # name
              \/ \E i \in DOMAIN old : dir_find(dir, name) = old[i]
          BY <2>2, DirFindIs
        <5>2. \A i \in DOMAIN old : old[i] # NULL
          BY <2>2, <4>1, TreeIn DEF Holds
        <5>3. QED
          BY <1>1, <5>1, <5>2
      <4>3. QED
        BY <2>2, <4>1, <4>2 DEF Holds
    <3>2. \A i, j \in DOMAIN old : nodes[old[i]].name = nodes[old[j]].name => i = j
      BY <1>6, <2>2 DEF Hangs, Holds
    <3>3. ASSUME NEW i \in DOMAIN kids
          PROVE  /\ i = 1 => kids[i] = n
                 /\ i # 1 => i - 1 \in DOMAIN old /\ kids[i] = old[i - 1]
      BY <2>4, <2>5
    <3>4. \A i \in DOMAIN kids : /\ kids[i] \in DOMAIN Q \ {Root}
                                 /\ nodes'[kids[i]].parent = dir
      BY <1>3, <2>7, <2>9, <2>12, <3>1, <3>3
    <3>5. ASSUME NEW i \in DOMAIN kids, NEW j \in DOMAIN kids,
                 nodes'[kids[i]].name = nodes'[kids[j]].name
          PROVE  i = j
      <4>1. ASSUME NEW k \in DOMAIN kids, k # 1
            PROVE  /\ nodes'[kids[k]].name # name /\ k - 1 \in DOMAIN old
                   /\ nodes'[kids[k]].name = nodes[old[k - 1]].name
        BY <2>12, <3>1, <3>3, <4>1
      <4>2. nodes'[kids[1]].name = name
        BY <2>5, <2>7
      <4>3. CASE i = 1
        BY <3>5, <4>1, <4>2, <4>3
      <4>4. CASE j = 1
        BY <3>5, <4>1, <4>2, <4>4
      <4>5. CASE i # 1 /\ j # 1
        <5>1. i - 1 = j - 1
          BY <3>2, <3>5, <4>1, <4>5
        <5>2. i \in Int /\ j \in Int
          BY <2>5
        <5>3. QED
          BY <5>1, <5>2
      <4>6. QED
        BY <4>3, <4>4, <4>5
    <3>6. QED
      BY <2>6, <3>4, <3>5 DEF Holds
  <2>15. Holds(Q, n)'
    BY <2>7 DEF Holds
  <2>16. ASSUME NEW m \in DOMAIN P \ {Root}
         PROVE  Hung(Q, m)'
    <3>1. PICK p : p = nodes[m].parent
      OBVIOUS
    <3>2. /\ p \in DOMAIN P /\ nodes[m].name \in Names /\ P[m] = Append(P[p], nodes[m].name)
          /\ \E i \in DOMAIN nodes[p].children : nodes[p].children[i] = m
      BY <3>1 DEF Hangs, Hung
    <3>3. \E i \in DOMAIN nodes'[p].children : nodes'[p].children[i] = m
      <4>1. CASE p = dir
        <5>1. PICK i \in DOMAIN old : old[i] = m
          BY <2>2, <3>2, <4>1
        <5>2. i + 1 \in 2 .. Len(old) + 1 /\ i + 1 \in DOMAIN kids /\ i + 1 - 1 = i
          BY <2>4, <2>5
        <5>3. kids[i + 1] = m
          BY <2>5, <5>1, <5>2
        <5>4. QED
          BY <2>6, <4>1, <5>2, <5>3
      <4>2. CASE p # dir
        BY <2>10, <3>2, <4>2
      <4>3. QED
        BY <4>1, <4>2
    <3>4. nodes'[m].parent = p /\ nodes'[m].name = nodes[m].name
      BY <2>12, <3>1
    <3>5. QED
      BY <2>9, <3>2, <3>3, <3>4 DEF Hung
  <2>17. Hung(Q, n)'
    <3>1. 1 \in DOMAIN kids /\ kids[1] = n
      BY <2>4, <2>5
    <3>2. QED
      BY <1>1, <1>6, <2>6, <2>7, <2>9, <3>1 DEF Hung
  <2>18. ASSUME NEW m \in DOMAIN P
         PROVE  FileOK(m)' /\ Contents(m)' = Contents(m)
    <3>1. FileOK(m)
      BY DEF Hangs
    <3>2. CASE m = dir
      BY <1>1, <2>6, <3>1, <3>2 DEF FileOK, Contents
    <3>3. CASE m # dir
      BY <2>10, <3>1, <3>3, SameNode
    <3>4. QED
      BY <3>2, <3>3
  <2>19. FileOK(n)'
    BY <2>7, EmptySeq DEF FileOK
  <2>20. Contents(n)' \in {Promise!Dir, Promise!Empty}
    BY <2>7 DEF Contents, Promise!Dir, Promise!Empty
  <2>21. /\ Root \in DOMAIN Q /\ Q[Root] = <<>> /\ nodes'[Root].parent = NULL
         /\ nodes'[Root].is_dir /\ DOMAIN Q \subseteq live' \cup {Root}
    <3>1. Root \in DOMAIN P /\ P[Root] = <<>> /\ nodes[Root].parent = NULL
          /\ nodes[Root].is_dir
      BY DEF Hangs
    <3>2. nodes'[Root].is_dir
      BY <2>6, <2>10, <3>1
    <3>3. DOMAIN Q \subseteq live' \cup {Root}
      BY <1>2, <1>4, <2>9
    <3>4. QED
      BY <2>9, <2>12, <3>1, <3>2, <3>3
  <2>22. \A m \in DOMAIN Q : (Holds(Q, m) /\ FileOK(m))'
    BY <2>9, <2>13, <2>14, <2>15, <2>18, <2>19
  <2>23. \A m \in DOMAIN Q \ {Root} : Hung(Q, m)'
    BY <2>9, <2>16, <2>17
  <2>24. Hangs(Q)'
    BY <2>11, <2>21, <2>22, <2>23 DEF Hangs
  <2>25. Grows(P, Q)
    BY <1>1, <1>3, <1>4, <1>6, <2>9, <2>18, <2>20 DEF Grows
  <2>26. DOMAIN P \subseteq DOMAIN Q /\ DOMAIN Q \subseteq DOMAIN P \cup {at'}
    BY <1>2, <2>9
  <2>27. QED
    BY <2>24, <2>25, <2>26
<1>7. QED
  BY <1>5, <1>6

LEMMA UnlinkTree ==
  ASSUME Types, NEW P, Hangs(P), NEW n \in Node, vfs_unlink(n)
  PROVE  \E Q : Hangs(Q)' /\ ((n \notin DOMAIN P /\ Quiet(P, Q)) \/ Shrinks(P, Q, n))
<1>1. /\ n # Root /\ live' = live \ {n}
      /\ nodes[n].is_dir => nodes[n].children = <<>>
      /\ \E i \in DOMAIN nodes[Parent(n)].children : nodes[Parent(n)].children[i] = n
      /\ nodes' \in [Node -> NodeRec]
      /\ \A m \in Node : m \in live' \cup {Root} =>
           nodes'[m] = IF m = nodes[n].parent
                       THEN [nodes[m] EXCEPT !.children = RemoveFirst(@, n)]
                       ELSE nodes[m]
  BY UnlinkIs
<1>2. DOMAIN P \subseteq live \cup {Root} /\ DOMAIN P \subseteq Node
  BY TreeIn DEF Hangs
<1>3. PICK p : p = nodes[n].parent
  OBVIOUS
<1>4. CASE n \notin DOMAIN P
  <2>1. p \notin DOMAIN P
    <3>1. SUFFICES ASSUME p \in DOMAIN P
                   PROVE  FALSE
      OBVIOUS
    <3>2. p # NULL
      BY <3>1, TreeIn
    <3>3. Parent(n) = p
      BY <1>3, <3>2 DEF Parent
    <3>4. Holds(P, p)
      BY <3>1 DEF Hangs
    <3>5. QED
      BY <1>1, <1>4, <3>3, <3>4 DEF Holds
  <2>2. \A m \in DOMAIN P : nodes'[m] = nodes[m]
    BY <1>1, <1>2, <1>3, <1>4, <2>1
  <2>3. DOMAIN P \subseteq live' \cup {Root}
    BY <1>1, <1>2, <1>4
  <2>4. QED
    BY <1>4, <2>2, <2>3, TreeUntouched
<1>5. CASE n \in DOMAIN P
  <2>1. /\ p \in DOMAIN P /\ nodes[n].name \in Names /\ P[n] = Append(P[p], nodes[n].name)
        /\ \E i \in DOMAIN nodes[p].children : nodes[p].children[i] = n
    <3>1. n \in DOMAIN P \ {Root} /\ Hung(P, n)
      BY <1>1, <1>5 DEF Hangs
    <3>2. QED
      BY <1>3, <3>1 DEF Hung
  <2>2. p # n
    <3>1. P[p] \in Seq(Names) /\ P[n] \in Seq(Names)
      BY <1>5, <2>1, TreeIn
    <3>2. Len(P[n]) = Len(P[p]) + 1 /\ Len(P[p]) \in Nat
      BY <2>1, <3>1, AppendProperties, LenProperties
    <3>3. QED
      BY <3>2
  <2>3. PICK old : old = nodes[p].children
    OBVIOUS
  <2>4. PICK kids : kids = RemoveFirst(old, n)
    OBVIOUS
  <2>5. nodes[p] \in NodeRec /\ old \in Seq(Node) /\ DOMAIN old = 1 .. Len(old) /\ Len(old) \in Nat
    <3>1. nodes[p] \in NodeRec
      BY <1>2, <2>1 DEF Types
    <3>2. QED
      BY <2>3, <3>1 DEF NodeRec
  <2>6. Holds(P, p)
    BY <2>1 DEF Hangs
  <2>7. PICK k \in 1 .. Len(old) : old[k] = n
    BY <2>1, <2>3, <2>5
  <2>8. \A i \in 1 .. Len(old) : old[i] = n => i = k
    BY <2>3, <2>5, <2>6, <2>7 DEF Holds
  <2>9. /\ kids \in Seq(Node) /\ Len(kids) = Len(old) - 1
        /\ \A i \in 1 .. Len(old) - 1 : kids[i] = IF i < k THEN old[i] ELSE old[i + 1]
    BY <2>4, <2>5, <2>7, <2>8, RemoveFirstIs
  <2>10. DOMAIN kids = 1 .. Len(old) - 1
    BY <2>5, <2>9
  <2>11. PICK At : At = [i \in DOMAIN kids |-> IF i < k THEN i ELSE i + 1]
    OBVIOUS
  <2>12. ASSUME NEW i \in DOMAIN kids
         PROVE  At[i] \in DOMAIN old /\ At[i] # k /\ kids[i] = old[At[i]]
    <3>1. i \in 1 .. Len(old) - 1 /\ At[i] = IF i < k THEN i ELSE i + 1
      BY <2>10, <2>11
    <3>2. QED
      BY <2>5, <2>9, <3>1
  <2>13. ASSUME NEW i \in DOMAIN kids, NEW j \in DOMAIN kids, At[i] = At[j]
         PROVE  i = j
    BY <2>5, <2>10, <2>11, <2>13
  <2>14. ASSUME NEW i \in DOMAIN old, i # k
         PROVE  \E j \in DOMAIN kids : kids[j] = old[i]
    <3>1. CASE i < k
      <4>1. i \in 1 .. Len(old) - 1
        BY <2>5, <2>14, <3>1
      <4>2. QED
        BY <2>9, <2>10, <3>1, <4>1
    <3>2. CASE i > k
      <4>1. i - 1 \in 1 .. Len(old) - 1 /\ ~(i - 1 < k) /\ i - 1 + 1 = i
        BY <2>5, <2>14, <3>2
      <4>2. QED
        BY <2>9, <2>10, <4>1
    <3>3. QED
      BY <2>5, <2>14, <3>1, <3>2
  <2>15. /\ nodes'[p].children = kids /\ nodes'[p].name = nodes[p].name
         /\ nodes'[p].parent = nodes[p].parent /\ nodes'[p].is_dir = nodes[p].is_dir
         /\ nodes'[p].readonly = nodes[p].readonly /\ nodes'[p].data = nodes[p].data
         /\ nodes'[p].cap = nodes[p].cap
    <3>1. p \in Node /\ p \in live' \cup {Root}
      BY <1>1, <1>2, <2>1, <2>2
    <3>2. nodes'[p] = [nodes[p] EXCEPT !.children = kids]
      BY <1>1, <1>3, <2>3, <2>4, <3>1
    <3>3. QED
      BY <2>5, <3>2 DEF NodeRec
  <2>16. \A m \in DOMAIN P : m # n /\ m # p => nodes'[m] = nodes[m]
    BY <1>1, <1>2, <1>3
  <2>17. PICK Q : Q = [m \in DOMAIN P \ {n} |-> P[m]]
    OBVIOUS
  <2>18. DOMAIN Q = DOMAIN P \ {n} /\ \A m \in DOMAIN Q : Q[m] = P[m]
    BY <2>17
  <2>19. \A m \in DOMAIN Q : /\ nodes'[m].name = nodes[m].name
                             /\ nodes'[m].parent = nodes[m].parent
    BY <2>15, <2>16, <2>18
  <2>20. Q \in [DOMAIN Q -> Seq(Names)]
    <3>1. \A m \in DOMAIN P : P[m] \in Seq(Names)
      BY TreeIn
    <3>2. QED
      BY <2>17, <2>18, <3>1
  <2>21. ASSUME NEW m \in DOMAIN Q, m # p
         PROVE  Holds(Q, m)'
    <3>1. Holds(P, m) /\ nodes'[m] = nodes[m]
      BY <2>16, <2>18, <2>21 DEF Hangs
    <3>2. \A i \in DOMAIN nodes[m].children :
            nodes[m].children[i] \in DOMAIN Q \ {Root} /\ nodes[nodes[m].children[i]].parent = m
      BY <1>3, <2>18, <2>21, <3>1 DEF Holds
    <3>3. QED
      BY <2>19, <3>1, <3>2 DEF Holds
  <2>22. Holds(Q, p)'
    <3>1. ASSUME NEW i \in DOMAIN kids
          PROVE  /\ kids[i] \in DOMAIN Q \ {Root} /\ nodes[kids[i]].parent = p
                 /\ nodes'[kids[i]].parent = p /\ nodes'[kids[i]].name = nodes[old[At[i]]].name
      <4>1. At[i] \in DOMAIN old /\ At[i] # k /\ kids[i] = old[At[i]]
        BY <2>12
      <4>2. old[At[i]] \in DOMAIN P \ {Root} /\ nodes[old[At[i]]].parent = p
        BY <2>3, <2>6, <4>1 DEF Holds
      <4>3. old[At[i]] # n
        BY <2>5, <2>8, <4>1
      <4>4. QED
        BY <2>18, <2>19, <4>1, <4>2, <4>3
    <3>2. ASSUME NEW i \in DOMAIN kids, NEW j \in DOMAIN kids,
                 nodes'[kids[i]].name = nodes'[kids[j]].name
          PROVE  i = j
      <4>1. nodes[old[At[i]]].name = nodes[old[At[j]]].name
        BY <3>1, <3>2
      <4>2. At[i] \in DOMAIN old /\ At[j] \in DOMAIN old
        BY <2>12
      <4>3. At[i] = At[j]
        BY <2>3, <2>6, <4>1, <4>2 DEF Holds
      <4>4. QED
        BY <2>13, <4>3
    <3>3. QED
      BY <2>15, <3>1, <3>2 DEF Holds
  <2>23. ASSUME NEW m \in DOMAIN Q \ {Root}
         PROVE  Hung(Q, m)'
    <3>1. PICK q : q = nodes[m].parent
      OBVIOUS
    <3>2. /\ q \in DOMAIN P /\ nodes[m].name \in Names /\ P[m] = Append(P[q], nodes[m].name)
          /\ \E i \in DOMAIN nodes[q].children : nodes[q].children[i] = m
      BY <2>18, <3>1 DEF Hangs, Hung
    <3>3. q # n
      <4>1. SUFFICES ASSUME q = n
                     PROVE  FALSE
        OBVIOUS
      <4>2. nodes[n].children = <<>>
        BY <1>1, <1>5 DEF Hangs, FileOK
      <4>3. DOMAIN nodes[n].children = {}
        BY <4>2
      <4>4. QED
        BY <3>2, <4>1, <4>3
    <3>4. \E i \in DOMAIN nodes'[q].children : nodes'[q].children[i] = m
      <4>1. CASE q = p
        <5>1. PICK i \in DOMAIN old : old[i] = m
          BY <2>3, <3>2, <4>1
        <5>2. i # k
          BY <2>7, <2>18, <5>1
        <5>3. QED
          BY <2>14, <2>15, <4>1, <5>1, <5>2
      <4>2. CASE q # p
        BY <2>16, <3>2, <3>3, <4>2
      <4>3. QED
        BY <4>1, <4>2
    <3>5. q \in DOMAIN Q /\ nodes'[m].parent = q /\ nodes'[m].name = nodes[m].name
      BY <2>18, <2>19, <3>1, <3>2, <3>3
    <3>6. QED
      BY <2>18, <3>2, <3>4, <3>5 DEF Hung
  <2>24. ASSUME NEW m \in DOMAIN Q
         PROVE  FileOK(m)' /\ Contents(m)' = Contents(m)
    <3>1. FileOK(m)
      BY <2>18 DEF Hangs
    <3>2. CASE m = p
      <4>1. nodes[p].is_dir
        <5>1. old # <<>>
          BY <2>5, <2>7
        <5>2. FileOK(p)
          BY <2>1 DEF Hangs
        <5>3. QED
          BY <2>3, <5>1, <5>2 DEF FileOK
      <4>2. QED
        BY <2>15, <3>1, <3>2, <4>1 DEF FileOK, Contents
    <3>3. CASE m # p
      BY <2>16, <2>18, <3>1, <3>3, SameNode
    <3>4. QED
      BY <3>2, <3>3
  <2>25. /\ Root \in DOMAIN Q /\ Q[Root] = <<>> /\ nodes'[Root].parent = NULL
         /\ nodes'[Root].is_dir /\ DOMAIN Q \subseteq live' \cup {Root}
    <3>1. Root \in DOMAIN P /\ P[Root] = <<>> /\ nodes[Root].parent = NULL
          /\ nodes[Root].is_dir
      BY DEF Hangs
    <3>2. nodes'[Root].is_dir
      BY <1>1, <2>15, <2>16, <3>1
    <3>3. DOMAIN Q \subseteq live' \cup {Root}
      BY <1>1, <1>2, <2>18
    <3>4. QED
      BY <1>1, <2>18, <2>19, <3>1, <3>2, <3>3
  <2>26. \A m \in DOMAIN Q : (Holds(Q, m) /\ FileOK(m))'
    BY <2>21, <2>22, <2>24
  <2>27. Hangs(Q)'
    BY <2>20, <2>23, <2>25, <2>26 DEF Hangs
  <2>28. Shrinks(P, Q, n)
    BY <1>1, <1>5, <2>18, <2>24 DEF Shrinks
  <2>29. QED
    BY <2>27, <2>28
<1>6. QED
  BY <1>4, <1>5

LEMMA ContentTree ==
  ASSUME Types, NEW P, Hangs(P), NEW a \in Node, live' = live,
         \A m \in Node : m # a => nodes'[m] = nodes[m],
         SameLinks(a), ~nodes[a].is_dir, ~nodes[a].readonly,
         a \in DOMAIN P /\ ~nodes'[a].readonly => Len(nodes'[a].data) <= nodes'[a].cap
  PROVE  Hangs(P)' /\ (Quiet(P, P) \/ Changes(P, P))
<1>1. DOMAIN P \subseteq Node /\ DOMAIN P \subseteq live' \cup {Root}
  BY TreeIn DEF Hangs
<1>2. ASSUME NEW m \in DOMAIN P, m # a
      PROVE  SameLinks(m) /\ FileOK(m)' /\ Contents(m)' = Contents(m)
  <2>1. nodes'[m] = nodes[m] /\ FileOK(m)
    BY <1>1, <1>2 DEF Hangs
  <2>2. QED
    BY <2>1, SameNode
<1>3. CASE a \notin DOMAIN P
  <2>1. Hangs(P)'
    BY <1>1, <1>2, <1>3, TreeStays
  <2>2. QED
    BY <1>2, <1>3, <2>1 DEF Quiet
<1>4. CASE a \in DOMAIN P
  <2>1. FileOK(a)'
    BY <1>4 DEF Hangs, FileOK, SameLinks
  <2>2. Hangs(P)'
    BY <1>1, <1>2, <2>1, TreeStays
  <2>3. Changes(P, P)
    BY <1>2, <1>4 DEF Changes, SameLinks
  <2>4. QED
    BY <2>2, <2>3
<1>5. QED
  BY <1>3, <1>4

LEMMA WalkType ==
  ASSUME Types, NEW path, NEW last \in Nat
  PROVE  Walk(path, last) \in Node \cup {NULL}
<1>1. PICK w : Walked(w, path, last)
  BY WalkIs
<1>2. last \in 0 .. last
  OBVIOUS
<1>3. QED
  BY <1>1, <1>2 DEF Walked

LEMMA ResolveType ==
  ASSUME Types, NEW path \in Paths
  PROVE  /\ path.comps \in Seq(STRING) /\ Len(path.comps) \in Nat
         /\ Start(path) \in Node
         /\ vfs_resolve(path) \in Node \cup {NULL}
         /\ vfs_resolve_parent(path) \in Node \cup {NULL}
         /\ vfs_resolve_parent(path) # NULL => path.comps # <<>> /\ Last(path.comps) \in STRING
<1>1. path.comps \in Seq(STRING) /\ Len(path.comps) \in Nat
  BY FilesAssumption
<1>2. Start(path) \in Node
  BY RootIs DEF Start, Types
<1>3. vfs_resolve(path) \in Node \cup {NULL}
  BY <1>1, WalkType DEF vfs_resolve
<1>4. CASE path.comps = <<>>
  BY <1>1, <1>2, <1>3, <1>4 DEF vfs_resolve_parent
<1>5. CASE path.comps # <<>>
  <2>1. Len(path.comps) - 1 \in Nat /\ Len(path.comps) \in 1 .. Len(path.comps)
    BY <1>1, <1>5, EmptySeq
  <2>2. Walk(path, Len(path.comps) - 1) \in Node \cup {NULL}
    BY <2>1, WalkType
  <2>3. vfs_resolve_parent(path) \in Node \cup {NULL}
    BY <1>5, <2>2 DEF vfs_resolve_parent
  <2>4. Last(path.comps) \in STRING
    BY <1>1, <2>1, ElementOfSeq DEF Last
  <2>5. QED
    BY <1>1, <1>2, <1>3, <1>5, <2>3, <2>4
<1>6. QED
  BY <1>4, <1>5

-----------------------------------------------------------------------------
(* The steps.                                                              *)

Starts(Q) == DOMAIN Q = {Root} /\ Q[Root] = <<>> /\ Contents(Root)' = Promise!Dir

Keeps(P, Q) == Quiet(P, Q) \/ Grows(P, Q) \/ Changes(P, Q)

Moves(P, Q) == Keeps(P, Q) \/ (\E n \in Node : Shrinks(P, Q, n)) \/ Starts(Q)

\* The types hold and what is asked for can be done; the nodes are a tree.
DataInv == Types /\ TodoInv
TreeInv == \E P : Hangs(P)
FilesInv == DataInv /\ TreeInv

Goes(P) == DataInv' /\ \E Q : Hangs(Q)' /\ Moves(P, Q)
Stays(P) == DataInv' /\ \E Q : Hangs(Q)' /\ Keeps(P, Q)

LEMMA VfsStays ==
  ASSUME DataInv, NEW P, Hangs(P), nodes' = nodes, live' = live
  PROVE  Hangs(P)' /\ Keeps(P, P)
<1>1. DOMAIN P \subseteq live' \cup {Root}
  BY DEF Hangs
<1>2. QED
  BY <1>1, TreeUntouched DEF Keeps, DataInv

LEMMA BlankTree ==
  ASSUME nodes = OnlyRoot, live = {}
  PROVE  \E Q : Hangs(Q) /\ DOMAIN Q = {Root} /\ Q[Root] = <<>> /\ Contents(Root) = Promise!Dir
<1>1. PICK Q : Q = [n \in {Root} |-> <<>>]
  OBVIOUS
<1>2. DOMAIN Q = {Root} /\ Q[Root] = <<>> /\ Q \in [DOMAIN Q -> Seq(Names)]
  BY <1>1, EmptySeq
<1>3. /\ nodes[Root].is_dir = TRUE /\ nodes[Root].readonly = FALSE /\ nodes[Root].data = <<>>
      /\ nodes[Root].cap = 0 /\ nodes[Root].parent = NULL /\ nodes[Root].children = <<>>
  BY RootIs DEF OnlyRoot, Blank
<1>4. Holds(Q, Root) /\ FileOK(Root)
  BY <1>3, EmptySeq DEF Holds, FileOK
<1>5. Contents(Root) = Promise!Dir
  BY <1>3 DEF Contents, Promise!Dir
<1>6. QED
  BY <1>2, <1>3, <1>4, <1>5 DEF Hangs

LEMMA InitFiles == Init => FilesInv
<1>1. SUFFICES ASSUME Init
               PROVE  FilesInv
  OBVIOUS
<1>2. nodes = OnlyRoot /\ live = {} /\ at = NULL /\ off = 0 /\ todo = <<>> /\ missed = FALSE
      /\ cwd = NULL /\ boot = Tar \o Modules
  BY <1>1 DEF Init, VfsInit
<1>3. boot \in Seq(Module)
  <2>1. Tar \in Seq(Module) /\ Modules \in Seq(Module)
    BY FilesAssumption DEF Module
  <2>2. QED
    BY <1>2, <2>1, ConcatProperties
<1>4. Types
  BY <1>2, <1>3, RootIs DEF Types
<1>5. TodoInv
  BY <1>2, NoneListed DEF TodoInv
<1>6. QED
  BY <1>2, <1>4, <1>5, BlankTree DEF FilesInv, DataInv, TreeInv

LEMMA LoadEntryStays ==
  ASSUME DataInv, NEW P, Hangs(P), LoadEntry
  PROVE  Stays(P)
<1>1. /\ boot # <<>> /\ at' = Root /\ todo' = Load(Head(boot)) /\ boot' = Tail(boot)
      /\ nodes' = nodes /\ live' = live /\ cwd' = cwd /\ off' = off /\ missed' = missed
  BY DEF LoadEntry, vfs
<1>2. Head(boot) \in Module /\ Tail(boot) \in Seq(Module)
  BY <1>1, HeadTailProperties DEF DataInv, Types
<1>3. Types'
  BY <1>1, <1>2, RootIs DEF DataInv, Types
<1>4. TodoInv'
  BY <1>1, <1>2, LoadListed, RootIs DEF TodoInv
<1>5. QED
  BY <1>1, <1>3, <1>4, VfsStays DEF Stays, DataInv

LEMMA ReturnStays ==
  ASSUME DataInv, NEW P, Hangs(P), Return
  PROVE  Stays(P)
<1>1. /\ todo = <<>> /\ todo' = todo /\ at' = NULL /\ off' = 0 /\ missed' = FALSE
      /\ nodes' = nodes /\ live' = live /\ cwd' = cwd /\ boot' = boot
  BY DEF Return, vfs
<1>2. Types'
  BY <1>1 DEF DataInv, Types
<1>3. TodoInv'
  BY <1>1, NoneListed DEF TodoInv
<1>4. QED
  BY <1>1, <1>2, <1>3, VfsStays DEF Stays, DataInv

LEMMA ShellInitStays ==
  ASSUME DataInv, NEW P, Hangs(P), shell_init
  PROVE  Stays(P)
<1>1. /\ todo = <<>> /\ todo' = todo /\ at' = at /\ off' = off /\ missed' = missed
      /\ nodes' = nodes /\ live' = live /\ cwd' = Root /\ boot' = boot
  BY DEF shell_init, vfs, request
<1>2. Types'
  BY <1>1, RootIs DEF DataInv, Types
<1>3. TodoInv'
  BY <1>1, NoneListed DEF TodoInv
<1>4. QED
  BY <1>1, <1>2, <1>3, VfsStays DEF Stays, DataInv

\* The list of requests gets shorter, and its file stays a file.
LEMMA TodoStays ==
  ASSUME DataInv, todo # <<>>, todo' = Tail(todo), at' \in Node,
         Head(todo).op = "make" \/ OfFile(Head(todo)) =>
           ~nodes'[at'].is_dir /\ (Head(todo).op # "attach" => ~nodes'[at'].readonly)
  PROVE  TodoInv'
<1>1. /\ Listed(Tail(todo))
      /\ Tail(todo) # <<>> /\ OfFile(Head(Tail(todo))) =>
           Head(todo).op = "make" \/ OfFile(Head(todo))
      /\ Head(todo).op = "attach" => Tail(todo) = <<>>
  BY ListedTail DEF DataInv, TodoInv
<1>2. QED
  BY <1>1 DEF TodoInv

LEMMA GivesUp ==
  ASSUME DataInv, NEW P, Hangs(P), Give_up, UNCHANGED <<vfs, cwd, off, missed, boot>>
  PROVE  Stays(P)
<1>1. /\ at' = NULL /\ todo' = <<>> /\ off' = off /\ missed' = missed
      /\ nodes' = nodes /\ live' = live /\ cwd' = cwd /\ boot' = boot
  BY DEF Give_up, vfs
<1>2. Types'
  BY <1>1 DEF DataInv, Types
<1>3. TodoInv'
  BY <1>1, NoneListed DEF TodoInv
<1>4. QED
  BY <1>1, <1>2, <1>3, VfsStays DEF Stays, DataInv

LEMMA CreateStays ==
  ASSUME DataInv, NEW P, Hangs(P), NEW dir \in Node, NEW name, NEW is_dir,
         is_dir \in BOOLEAN, Create(dir, name, is_dir), todo # <<>>, todo' = Tail(todo),
         Head(todo).op = "make" => ~is_dir, ~OfFile(Head(todo)),
         UNCHANGED <<cwd, off, missed, boot>>
  PROVE  Stays(P)
<1>1. Types /\ cwd' = cwd /\ off' = off /\ missed' = missed /\ boot' = boot
  BY DEF DataInv
<1>2. nodes' \in [Node -> NodeRec] /\ \E n \in Slots \ live : Linked(dir, name, is_dir, n)
  BY <1>1, CreateIs
<1>3. PICK n \in Slots \ live : Linked(dir, name, is_dir, n)
  BY <1>2
<1>4. live' = live \cup {n} /\ at' = n /\ nodes'[n].is_dir = is_dir /\ ~nodes'[n].readonly
      /\ n \in Node
  BY <1>3, RootIs DEF Linked
<1>5. Types'
  BY <1>1, <1>2, <1>4 DEF Types
<1>6. TodoInv'
  BY <1>4, TodoStays
<1>7. \E Q : Hangs(Q)' /\ (Quiet(P, Q) \/ Grows(P, Q))
  BY <1>1, CreateTree
<1>8. QED
  BY <1>5, <1>6, <1>7 DEF Stays, DataInv, Keeps

LEMMA EnterStays ==
  ASSUME DataInv, NEW P, Hangs(P), Enter, boot' = boot
  PROVE  Stays(P)
<1>1. PICK a : a = at
  OBVIOUS
<1>2. PICK name : name = Head(todo).name
  OBVIOUS
<1>3. PICK next : next = CASE name = "." -> a
                           [] name = ".." -> Parent(a)
                           [] OTHER -> dir_find(a, name)
  OBVIOUS
<1>4. /\ todo # <<>> /\ Head(todo).op = "enter" /\ cwd' = cwd /\ off' = off /\ missed' = missed
      /\ \/ /\ next # NULL
            /\ at' = next /\ todo' = Tail(todo) /\ nodes' = nodes /\ live' = live
         \/ /\ Give_up /\ nodes' = nodes /\ live' = live
         \/ /\ Create(a, name, TRUE) /\ todo' = Tail(todo)
  BY <1>1, <1>2, <1>3 DEF Enter, Doing, vfs
<1>5. Types /\ a \in Node
  BY <1>1, <1>4 DEF DataInv, TodoInv
<1>6. ~OfFile(Head(todo)) /\ Head(todo).op # "make"
  BY <1>4 DEF OfFile
<1>7. next \in Node \cup {NULL}
  <2>1. Parent(a) \in Node
    BY <1>5, NodeFields
  <2>2. dir_find(a, name) \in Node \cup {NULL}
    BY <1>5, DirFindType
  <2>3. QED
    BY <1>3, <1>5, <2>1, <2>2
<1>8. CASE next # NULL /\ at' = next /\ todo' = Tail(todo) /\ nodes' = nodes /\ live' = live
  <2>1. Types'
    BY <1>4, <1>5, <1>7, <1>8 DEF Types
  <2>2. TodoInv'
    BY <1>4, <1>6, <1>7, <1>8, TodoStays
  <2>3. QED
    BY <1>8, <2>1, <2>2, VfsStays DEF Stays, DataInv
<1>9. CASE Give_up /\ nodes' = nodes /\ live' = live
  BY <1>4, <1>9, GivesUp DEF vfs
<1>10. CASE Create(a, name, TRUE) /\ todo' = Tail(todo)
  <2>1. PICK t : t = TRUE
    OBVIOUS
  <2>2. t \in BOOLEAN /\ Create(a, name, t)
    BY <1>10, <2>1 DEF Create
  <2>3. QED
    BY <1>4, <1>5, <1>6, <1>10, <2>2, CreateStays
<1>11. QED
  BY <1>4, <1>8, <1>9, <1>10

LEMMA MakeFileStays ==
  ASSUME DataInv, NEW P, Hangs(P), MakeFile, boot' = boot
  PROVE  Stays(P)
<1>1. PICK a : a = at
  OBVIOUS
<1>2. PICK name : name = Head(todo).name
  OBVIOUS
<1>3. PICK f : f = FALSE
  OBVIOUS
<1>4. /\ todo # <<>> /\ Head(todo).op = "make" /\ cwd' = cwd /\ off' = off /\ missed' = missed
      /\ \/ /\ Create(a, name, FALSE) /\ todo' = Tail(todo)
         \/ /\ Give_up /\ nodes' = nodes /\ live' = live
  BY <1>1, <1>2 DEF MakeFile, Doing, vfs
<1>5. a \in Node /\ f \in BOOLEAN /\ ~f
  BY <1>1, <1>3, <1>4 DEF DataInv, TodoInv
<1>6. ~OfFile(Head(todo))
  BY <1>4 DEF OfFile
<1>7. CASE Give_up /\ nodes' = nodes /\ live' = live
  BY <1>4, <1>7, GivesUp DEF vfs
<1>8. CASE Create(a, name, FALSE) /\ todo' = Tail(todo)
  <2>1. Create(a, name, f)
    BY <1>3, <1>8 DEF Create
  <2>2. QED
    BY <1>4, <1>5, <1>6, <1>8, <2>1, CreateStays
<1>9. QED
  BY <1>4, <1>7, <1>8

\* The contents of the file that is worked on change.
LEMMA ContentStays ==
  ASSUME DataInv, NEW P, Hangs(P), todo # <<>>, OfFile(Head(todo)), todo' = Tail(todo),
         NEW a, a = at, at' = at, live' = live, cwd' = cwd, boot' = boot,
         off' \in Nat, missed' \in BOOLEAN,
         NEW new \in NodeRec, nodes' = [nodes EXCEPT ![a] = new],
         new.name = nodes[a].name, new.parent = nodes[a].parent,
         new.children = nodes[a].children, new.is_dir = nodes[a].is_dir,
         Head(todo).op # "attach" => ~new.readonly,
         a \in DOMAIN P /\ ~new.readonly => Len(new.data) <= new.cap
  PROVE  Stays(P)
<1>1. Types /\ a \in Node /\ ~nodes[a].is_dir /\ ~nodes[a].readonly /\ nodes \in [Node -> NodeRec]
  BY DEF DataInv, TodoInv, Types
<1>2. nodes' \in [Node -> NodeRec] /\ nodes'[a] = new
      /\ \A m \in Node : m # a => nodes'[m] = nodes[m]
  BY <1>1
<1>3. Types'
  BY <1>1, <1>2 DEF Types
<1>4. TodoInv'
  BY <1>1, <1>2, TodoStays
<1>5. SameLinks(a)
  BY <1>2 DEF SameLinks
<1>6. Hangs(P)' /\ (Quiet(P, P) \/ Changes(P, P))
  BY <1>1, <1>2, <1>5, ContentTree
<1>7. QED
  BY <1>3, <1>4, <1>6 DEF Stays, DataInv, Keeps

\* A request that is about a file, and the file.
LEMMA OfFileIs ==
  ASSUME DataInv, todo # <<>>, OfFile(Head(todo))
  PROVE  /\ at \in Node /\ nodes[at] \in NodeRec /\ nodes \in [Node -> NodeRec]
         /\ off \in Nat /\ missed \in BOOLEAN
         /\ ~nodes[at].is_dir /\ ~nodes[at].readonly
         /\ Head(todo).op \in {"put", "attach"} =>
              Head(todo).cells \in Seq(Nat) /\ Len(Head(todo).cells) \in Nat
<1>1. /\ at \in Node /\ nodes[at] \in NodeRec /\ nodes \in [Node -> NodeRec]
      /\ off \in Nat /\ missed \in BOOLEAN
      /\ ~nodes[at].is_dir /\ ~nodes[at].readonly
  BY DEF DataInv, TodoInv, Types
<1>2. Head(todo) \in Request
  BY ListedTail DEF DataInv, TodoInv
<1>3. Head(todo).op \in {"put", "attach"} =>
        Head(todo).cells \in Seq(Nat) /\ Len(Head(todo).cells) \in Nat
  BY <1>2, LenProperties DEF Request
<1>4. QED
  BY <1>1, <1>3

LEMMA TruncateFileStays ==
  ASSUME DataInv, NEW P, Hangs(P), TruncateFile, boot' = boot
  PROVE  Stays(P)
<1>1. PICK a : a = at
  OBVIOUS
<1>2. /\ todo # <<>> /\ Head(todo).op = "truncate" /\ todo' = Tail(todo)
      /\ nodes' = [nodes EXCEPT ![a].data = <<>>]
      /\ live' = live /\ cwd' = cwd /\ at' = at /\ off' = off /\ missed' = missed
  BY <1>1 DEF TruncateFile, Doing
<1>3. OfFile(Head(todo)) /\ Head(todo).op # "attach"
  BY <1>2 DEF OfFile
<1>4. PICK new : new = [nodes[a] EXCEPT !.data = <<>>]
  OBVIOUS
<1>5. /\ nodes[a] \in NodeRec /\ a \in Node /\ ~nodes[a].readonly /\ off \in Nat
      /\ missed \in BOOLEAN
  BY <1>1, <1>2, <1>3, OfFileIs
<1>6. /\ new \in NodeRec /\ new.name = nodes[a].name /\ new.parent = nodes[a].parent
      /\ new.children = nodes[a].children /\ new.is_dir = nodes[a].is_dir
      /\ new.readonly = nodes[a].readonly /\ new.data = <<>>
  <2>1. <<>> \in Seq(Nat)
    BY EmptySeq
  <2>2. QED
    BY <1>4, <1>5, <2>1 DEF NodeRec
<1>7. Len(new.data) <= new.cap /\ ~new.readonly /\ off' \in Nat /\ missed' \in BOOLEAN
  BY <1>2, <1>5, <1>6 DEF NodeRec
<1>8. nodes' = [nodes EXCEPT ![a] = new]
  BY <1>2, <1>4
<1>9. /\ new.name = nodes[a].name /\ new.parent = nodes[a].parent
      /\ new.children = nodes[a].children /\ new.is_dir = nodes[a].is_dir
      /\ a \in DOMAIN P /\ ~new.readonly => Len(new.data) <= new.cap
      /\ Head(todo).op # "attach" => ~new.readonly
  BY <1>6, <1>7
<1>10. todo # <<>> /\ todo' = Tail(todo) /\ live' = live /\ cwd' = cwd /\ at' = at
       /\ new \in NodeRec
  BY <1>2, <1>6
<1>11. off' \in Nat /\ missed' \in BOOLEAN
  BY <1>7
<1>12. QED
  BY <1>1, <1>3, <1>8, <1>9, <1>10, <1>11, ContentStays

LEMMA WriteStays ==
  ASSUME DataInv, NEW P, Hangs(P), vfs_write, boot' = boot
  PROVE  Stays(P)
<1>1. PICK a : a = at
  OBVIOUS
<1>2. PICK cells : cells = Head(todo).cells
  OBVIOUS
<1>3. PICK end : end = off + Len(cells)
  OBVIOUS
<1>4. /\ todo # <<>> /\ Head(todo).op = "put" /\ todo' = Tail(todo)
      /\ \/ /\ nodes' = [nodes EXCEPT
                 ![a].cap = IF end > @ THEN Grown(@, end) ELSE @,
                 ![a].data = Written(@, off, cells)]
            /\ missed' = missed
         \/ /\ missed' = TRUE
            /\ nodes' = nodes
      /\ live' = live /\ cwd' = cwd /\ at' = at /\ off' = end
  BY <1>1, <1>2, <1>3 DEF vfs_write, Doing
<1>5. OfFile(Head(todo)) /\ Head(todo).op # "attach"
  BY <1>4 DEF OfFile
<1>6. /\ nodes[a] \in NodeRec /\ a \in Node /\ ~nodes[a].readonly /\ ~nodes[a].is_dir
      /\ off \in Nat /\ missed \in BOOLEAN /\ cells \in Seq(Nat) /\ Len(cells) \in Nat
      /\ end \in Nat /\ nodes \in [Node -> NodeRec]
  BY <1>1, <1>2, <1>3, <1>4, <1>5, OfFileIs
<1>f. a \in DOMAIN P => Len(nodes[a].data) <= nodes[a].cap
  BY <1>6 DEF Hangs, FileOK
<1>7. nodes[a].data \in Seq(Nat) /\ nodes[a].cap \in Nat /\ Len(nodes[a].data) \in Nat
  BY <1>6, LenProperties DEF NodeRec
<1>8. CASE nodes' = nodes /\ missed' = TRUE
  <2>1. nodes' = [nodes EXCEPT ![a] = nodes[a]]
    BY <1>6, <1>8
  <2>2. off' \in Nat /\ missed' \in BOOLEAN
    BY <1>4, <1>6, <1>8
  <2>3. QED
    BY <1>1, <1>4, <1>5, <1>6, <1>f, <2>1, <2>2, ContentStays
<1>9. CASE /\ nodes' = [nodes EXCEPT
                 ![a].cap = IF end > @ THEN Grown(@, end) ELSE @,
                 ![a].data = Written(@, off, cells)]
           /\ missed' = missed
  <2>1. PICK cap : cap = IF end > nodes[a].cap THEN Grown(nodes[a].cap, end) ELSE nodes[a].cap
    OBVIOUS
  <2>2. PICK data : data = Written(nodes[a].data, off, cells)
    OBVIOUS
  <2>3. PICK new : new = [nodes[a] EXCEPT !.cap = cap, !.data = data]
    OBVIOUS
  <2>4. nodes' = [nodes EXCEPT ![a] = new]
    BY <1>6, <1>9, <2>1, <2>2, <2>3 DEF NodeRec
  <2>5. cap \in Nat /\ cap >= end /\ cap >= nodes[a].cap
    <3>1. CASE end > nodes[a].cap
      <4>1. Grown(nodes[a].cap, end) \in Nat /\ Grown(nodes[a].cap, end) >= end
        BY <1>6, <1>7, GrownIs
      <4>2. QED
        BY <1>6, <1>7, <2>1, <3>1, <4>1
    <3>2. CASE ~(end > nodes[a].cap)
      BY <1>6, <1>7, <2>1, <3>2
    <3>3. QED
      BY <3>1, <3>2
  <2>6. /\ data \in Seq(Nat)
        /\ off + Len(cells) >= Len(nodes[a].data) => Len(data) = off + Len(cells)
        /\ off + Len(cells) < Len(nodes[a].data) => Len(data) = Len(nodes[a].data)
    BY <1>6, <1>7, <2>2, WrittenIs
  <2>7. a \in DOMAIN P => Len(data) <= cap
    BY <1>3, <1>6, <1>7, <1>f, <2>5, <2>6
  <2>8. /\ new \in NodeRec /\ new.name = nodes[a].name /\ new.parent = nodes[a].parent
        /\ new.children = nodes[a].children /\ new.is_dir = nodes[a].is_dir
        /\ new.readonly = nodes[a].readonly /\ new.data = data /\ new.cap = cap
    BY <1>6, <2>3, <2>5, <2>6 DEF NodeRec
  <2>9. off' \in Nat /\ missed' \in BOOLEAN
    BY <1>4, <1>6, <1>9
  <2>10. (a \in DOMAIN P => Len(new.data) <= new.cap) /\ ~new.readonly
    BY <1>6, <2>7, <2>8
  <2>11. QED
    BY <1>1, <1>4, <1>5, <2>4, <2>8, <2>9, <2>10, ContentStays
<1>10. QED
  BY <1>4, <1>8, <1>9

LEMMA RegisterStays ==
  ASSUME DataInv, NEW P, Hangs(P), register_module_file, boot' = boot
  PROVE  Stays(P)
<1>1. PICK a : a = at
  OBVIOUS
<1>2. PICK cells : cells = Head(todo).cells
  OBVIOUS
<1>3. /\ todo # <<>> /\ Head(todo).op = "attach" /\ todo' = Tail(todo)
      /\ nodes' = [nodes EXCEPT ![a].readonly = TRUE, ![a].cap = 0, ![a].data = cells]
      /\ live' = live /\ cwd' = cwd /\ at' = at /\ off' = off /\ missed' = missed
  BY <1>1, <1>2 DEF register_module_file, Doing
<1>4. OfFile(Head(todo))
  BY <1>3 DEF OfFile
<1>5. /\ nodes[a] \in NodeRec /\ a \in Node /\ off \in Nat /\ missed \in BOOLEAN
      /\ cells \in Seq(Nat) /\ nodes \in [Node -> NodeRec]
  BY <1>1, <1>2, <1>3, <1>4, OfFileIs
<1>6. PICK new : new = [nodes[a] EXCEPT !.readonly = TRUE, !.cap = 0, !.data = cells]
  OBVIOUS
<1>7. /\ new \in NodeRec /\ new.name = nodes[a].name /\ new.parent = nodes[a].parent
      /\ new.children = nodes[a].children /\ new.is_dir = nodes[a].is_dir /\ new.readonly
  BY <1>5, <1>6 DEF NodeRec
<1>8. nodes' = [nodes EXCEPT ![a] = new]
  BY <1>3, <1>5, <1>6 DEF NodeRec
<1>9. off' \in Nat /\ missed' \in BOOLEAN
  BY <1>3, <1>5
<1>10. /\ new.name = nodes[a].name /\ new.parent = nodes[a].parent
       /\ new.children = nodes[a].children /\ new.is_dir = nodes[a].is_dir
       /\ a \in DOMAIN P /\ ~new.readonly => Len(new.data) <= new.cap
       /\ Head(todo).op # "attach" => ~new.readonly
  BY <1>3, <1>7
<1>11. todo # <<>> /\ todo' = Tail(todo) /\ live' = live /\ cwd' = cwd /\ at' = at
       /\ new \in NodeRec
  BY <1>3, <1>7
<1>12. QED
  BY <1>1, <1>4, <1>8, <1>9, <1>10, <1>11, ContentStays

LEMMA RebootTree ==
  ASSUME nodes' = OnlyRoot, live' = {}
  PROVE  \E Q : Hangs(Q)' /\ Starts(Q)
<1>1. PICK Q : Q = [n \in {Root} |-> <<>>]
  OBVIOUS
<1>2. DOMAIN Q = {Root} /\ Q[Root] = <<>> /\ Q \in [DOMAIN Q -> Seq(Names)]
  BY <1>1, EmptySeq
<1>3. /\ nodes'[Root].is_dir = TRUE /\ nodes'[Root].readonly = FALSE /\ nodes'[Root].data = <<>>
      /\ nodes'[Root].cap = 0 /\ nodes'[Root].parent = NULL /\ nodes'[Root].children = <<>>
  BY RootIs DEF OnlyRoot, Blank
<1>4. Holds(Q, Root)' /\ FileOK(Root)'
  BY <1>3, EmptySeq DEF Holds, FileOK
<1>5. Contents(Root)' = Promise!Dir
  BY <1>3 DEF Contents, Promise!Dir
<1>6. QED
  BY <1>2, <1>3, <1>4, <1>5 DEF Hangs, Starts

LEMMA RebootGoes ==
  ASSUME DataInv, NEW P, Hangs(P), Reboot
  PROVE  Goes(P)
<1>1. /\ todo = <<>> /\ todo' = todo /\ at' = at /\ off' = off /\ missed' = missed
      /\ nodes' = OnlyRoot /\ live' = {} /\ cwd' = NULL /\ boot' = Tar \o Modules
  BY DEF Reboot, Prompt, request
<1>2. boot' \in Seq(Module)
  <2>1. Tar \in Seq(Module) /\ Modules \in Seq(Module)
    BY FilesAssumption DEF Module
  <2>2. QED
    BY <1>1, <2>1, ConcatProperties
<1>3. Types'
  BY <1>1, <1>2, RootIs DEF DataInv, Types
<1>4. TodoInv'
  BY <1>1, NoneListed DEF TodoInv
<1>5. QED
  BY <1>1, <1>3, <1>4, RebootTree DEF Goes, DataInv, Moves

LEMMA WriteCommandStays ==
  ASSUME DataInv, NEW P, Hangs(P), NEW path \in Paths, NEW words \in Lines,
         cmd_write(path, words)
  PROVE  Stays(P)
<1>1. PICK dir : dir = vfs_resolve_parent(path)
  OBVIOUS
<1>2. PICK f : f = vfs_resolve(path)
  OBVIOUS
<1>3. PICK make : make = Make(Cut(Last(path.comps)))
  OBVIOUS
<1>4. /\ dir # NULL
      /\ \/ /\ f # NULL /\ ~nodes[f].is_dir /\ ~nodes[f].readonly
            /\ at' = f /\ todo' = Fill(words)
         \/ at' = dir /\ todo' = make \o Fill(words)
      /\ nodes' = nodes /\ live' = live /\ cwd' = cwd /\ off' = off /\ missed' = missed
      /\ boot' = boot
  BY <1>1, <1>2, <1>3 DEF cmd_write, vfs
<1>5. Types /\ off \in Nat /\ missed \in BOOLEAN
  BY DEF DataInv, Types
<1>6. dir \in Node /\ f \in Node \cup {NULL} /\ Last(path.comps) \in STRING
  BY <1>1, <1>2, <1>4, <1>5, ResolveType
<1>7. /\ Listed(Fill(words)) /\ Fill(words) # <<>> /\ OfFile(Fill(words)[1])
      /\ Head(Fill(words)) = Fill(words)[1]
  BY FillListed
<1>8. CASE /\ f # NULL /\ ~nodes[f].is_dir /\ ~nodes[f].readonly
           /\ at' = f /\ todo' = Fill(words)
  <2>1. Types'
    BY <1>4, <1>5, <1>6, <1>8 DEF Types
  <2>2. TodoInv'
    BY <1>4, <1>6, <1>7, <1>8 DEF TodoInv
  <2>3. QED
    BY <1>4, <2>1, <2>2, VfsStays DEF Stays, DataInv
<1>9. CASE at' = dir /\ todo' = make \o Fill(words)
  <2>1. Cut(Last(path.comps)) \in Word
    BY <1>6, VfsAssumption DEF Cut, Word
  <2>2. [op |-> "make", name |-> Cut(Last(path.comps))] \in Request
    BY <2>1 DEF Request
  <2>3. Listed(make) /\ Len(make) = 1 /\ make[1].op = "make"
    BY <1>3, <2>2, OneListed DEF Make
  <2>4. \A i \in 1 .. Len(make) : make[i].op # "attach"
    BY <2>3
  <2>b. ~OfFile(make[Len(make)])
    BY <2>3 DEF OfFile
  <2>5. Listed(make \o Fill(words))
    BY <1>7, <2>3, <2>4, <2>b, ListedConcat
  <2>a. make # <<>>
    BY <2>3, NoneListed
  <2>6. make \in Seq(Request) /\ Fill(words) \in Seq(Request) /\ make # <<>>
    BY <1>7, <2>3, <2>a DEF Listed
  <2>7. Head(make \o Fill(words)) = make[1]
    BY <2>6, ConcatIs
  <2>8. ~OfFile(Head(make \o Fill(words)))
    BY <2>3, <2>7 DEF OfFile
  <2>9. Types'
    BY <1>4, <1>5, <1>6, <1>9 DEF Types
  <2>10. TodoInv'
    BY <1>6, <1>9, <2>5, <2>8 DEF TodoInv
  <2>11. QED
    BY <1>4, <2>9, <2>10, VfsStays DEF Stays, DataInv
<1>10. QED
  BY <1>4, <1>8, <1>9

LEMMA MkdirStays ==
  ASSUME DataInv, NEW P, Hangs(P), NEW path \in Paths, cmd_mkdir(path)
  PROVE  Stays(P)
<1>1. /\ at' = Start(path) /\ todo' = Enters(path.comps)
      /\ nodes' = nodes /\ live' = live /\ cwd' = cwd /\ off' = off /\ missed' = missed
      /\ boot' = boot
  BY DEF cmd_mkdir, vfs
<1>2. path.comps \in Seq(STRING) /\ Start(path) \in Node
  BY ResolveType DEF DataInv
<1>3. path.comps \in Seq(Word) /\ Len(path.comps) \in Nat
  <2>1. STRING \subseteq Word
    BY DEF Word
  <2>2. path.comps \in Seq(Word)
    BY <1>2, <2>1, SeqMonotonic
  <2>3. QED
    BY <2>2, LenProperties
<1>4. /\ Listed(Enters(path.comps)) /\ Len(Enters(path.comps)) = Len(path.comps)
      /\ \A i \in 1 .. Len(path.comps) : Enters(path.comps)[i].op = "enter"
  BY <1>3, EntersListed
<1>5. Enters(path.comps) # <<>> => ~OfFile(Head(Enters(path.comps)))
  <2>1. SUFFICES ASSUME Enters(path.comps) # <<>>
                 PROVE  ~OfFile(Head(Enters(path.comps)))
    OBVIOUS
  <2>2. Enters(path.comps) \in Seq(Request)
    BY <1>4 DEF Listed
  <2>3. 1 \in 1 .. Len(path.comps) /\ Head(Enters(path.comps)) = Enters(path.comps)[1]
    BY <1>3, <1>4, <2>1, <2>2, EmptySeq
  <2>4. QED
    BY <1>4, <2>3 DEF OfFile
<1>6. Types'
  BY <1>1, <1>2 DEF DataInv, Types
<1>7. TodoInv'
  BY <1>1, <1>2, <1>4, <1>5 DEF TodoInv
<1>8. QED
  BY <1>1, <1>6, <1>7, VfsStays DEF Stays, DataInv

LEMMA RmIs ==
  ASSUME DataInv, NEW path \in Paths, cmd_rm(path)
  PROVE  /\ vfs_resolve(path) \in Node /\ vfs_unlink(vfs_resolve(path))
         /\ cwd' = cwd /\ boot' = boot /\ at' = at /\ off' = off /\ todo' = todo
         /\ missed' = missed /\ todo = <<>>
<1>1. vfs_resolve(path) \in Node \cup {NULL}
  BY ResolveType DEF DataInv
<1>2. QED
  BY <1>1 DEF cmd_rm, Prompt, request

LEMMA RmGoes ==
  ASSUME DataInv, NEW P, Hangs(P), NEW path \in Paths, cmd_rm(path)
  PROVE  Goes(P)
<1>1. PICK n : n = vfs_resolve(path)
  OBVIOUS
<1>2. /\ n \in Node /\ vfs_unlink(n)
      /\ cwd' = cwd /\ boot' = boot /\ at' = at /\ off' = off /\ todo' = todo
      /\ missed' = missed /\ todo = <<>>
  BY <1>1, RmIs DEF vfs_unlink
<1>3. nodes' \in [Node -> NodeRec] /\ live' = live \ {n}
  BY <1>2, UnlinkIs DEF DataInv
<1>4. Types'
  BY <1>2, <1>3 DEF DataInv, Types
<1>5. TodoInv'
  BY <1>2, NoneListed DEF TodoInv
<1>6. \E Q : Hangs(Q)' /\ (Quiet(P, Q) \/ Shrinks(P, Q, n))
  BY <1>2, UnlinkTree DEF DataInv
<1>7. QED
  BY <1>2, <1>4, <1>5, <1>6 DEF Goes, DataInv, Moves, Keeps

LEMMA CdIs ==
  ASSUME DataInv, NEW P, Hangs(P), NEW path \in Paths, cmd_cd(path)
  PROVE  /\ vfs_resolve(path) \in Node /\ nodes[vfs_resolve(path)].is_dir
         /\ cwd' = vfs_resolve(path) /\ cwd # NULL
         /\ boot' = boot /\ at' = at /\ off' = off /\ todo' = todo /\ missed' = missed
         /\ todo = <<>> /\ live' = live /\ asked' = asked /\ asked = None
         /\ nodes' \in [Node -> NodeRec]
         /\ \A m \in DOMAIN P : nodes'[m] = nodes[m]
<1>1. vfs_resolve(path) \in Node \cup {NULL}
  BY ResolveType DEF DataInv
<1>2. /\ vfs_resolve(path) \in Node /\ nodes[vfs_resolve(path)].is_dir
      /\ cwd' = vfs_resolve(path) /\ cwd # NULL
      /\ boot' = boot /\ at' = at /\ off' = off /\ todo' = todo /\ missed' = missed
      /\ todo = <<>> /\ live' = live /\ asked' = asked /\ asked = None
      /\ nodes' = Forget(nodes, live, vfs_resolve(path))
  BY <1>1 DEF cmd_cd, Prompt, request
<1>3. DOMAIN P \subseteq live \cup {Root} /\ DOMAIN P \subseteq Node
      /\ nodes \in [Node -> NodeRec]
  BY TreeIn DEF Hangs, DataInv, Types
<1>4. /\ nodes' \in [Node -> NodeRec]
      /\ \A m \in Node : m \in live \cup {Root} => nodes'[m] = nodes[m]
  BY <1>2, <1>3, ForgetIs
<1>5. QED
  BY <1>2, <1>3, <1>4

LEMMA CdStays ==
  ASSUME DataInv, NEW P, Hangs(P), NEW path \in Paths, cmd_cd(path)
  PROVE  Stays(P)
<1>1. PICK n : n = vfs_resolve(path)
  OBVIOUS
<1>2. /\ n \in Node /\ cwd' = n
      /\ boot' = boot /\ at' = at /\ off' = off /\ todo' = todo /\ missed' = missed
      /\ todo = <<>> /\ live' = live /\ nodes' \in [Node -> NodeRec]
      /\ \A m \in DOMAIN P : nodes'[m] = nodes[m]
  BY <1>1, CdIs
<1>3. Types'
  BY <1>2 DEF DataInv, Types
<1>4. TodoInv'
  BY <1>2, NoneListed DEF TodoInv
<1>5. DOMAIN P \subseteq live' \cup {Root}
  BY <1>2 DEF Hangs
<1>6. Hangs(P)' /\ Quiet(P, P)
  BY <1>2, <1>5, TreeUntouched DEF DataInv
<1>7. QED
  BY <1>3, <1>4, <1>6 DEF Stays, DataInv, Keeps

LEMMA StutterStays ==
  ASSUME DataInv, NEW P, Hangs(P), UNCHANGED vars
  PROVE  Stays(P)
<1>1. /\ nodes' = nodes /\ live' = live /\ cwd' = cwd /\ boot' = boot /\ at' = at
      /\ off' = off /\ todo' = todo /\ missed' = missed
  BY DEF vars, vfs, request
<1>2. DataInv'
  BY <1>1 DEF DataInv, Types, TodoInv, Listed
<1>3. QED
  BY <1>1, <1>2, VfsStays DEF Stays

LEMMA StepStays ==
  ASSUME DataInv, NEW P, Hangs(P), [Next]_vars, ~Reboot, ~\E path \in Paths : cmd_rm(path)
  PROVE  Stays(P)
<1>1. CASE Requested
  BY <1>1, EnterStays, MakeFileStays, TruncateFileStays, WriteStays, RegisterStays DEF Requested
<1>2. CASE \E path \in Paths, words \in Lines : cmd_write(path, words)
  BY <1>2, WriteCommandStays
<1>3. CASE \E path \in Paths : cmd_mkdir(path)
  BY <1>3, MkdirStays
<1>4. CASE \E path \in Paths : cmd_cd(path)
  BY <1>4, CdStays
<1>5. CASE LoadEntry \/ Return \/ shell_init
  BY <1>5, LoadEntryStays, ReturnStays, ShellInitStays
<1>6. CASE UNCHANGED vars
  BY <1>6, StutterStays
<1>7. QED
  BY <1>1, <1>2, <1>3, <1>4, <1>5, <1>6 DEF Next

LEMMA StepGoes ==
  ASSUME DataInv, NEW P, Hangs(P), [Next]_vars
  PROVE  Goes(P)
<1>1. CASE \E path \in Paths : cmd_rm(path)
  BY <1>1, RmGoes
<1>2. CASE Reboot
  BY <1>2, RebootGoes
<1>3. CASE ~Reboot /\ ~\E path \in Paths : cmd_rm(path)
  BY <1>3, StepStays DEF Stays, Goes, Moves
<1>4. QED
  BY <1>1, <1>2, <1>3

THEOREM FilesStay == Spec => []FilesInv
<1>1. FilesInv /\ [Next]_vars => FilesInv'
  <2>1. SUFFICES ASSUME FilesInv, [Next]_vars
                 PROVE  FilesInv'
    OBVIOUS
  <2>2. PICK P : Hangs(P)
    BY <2>1 DEF FilesInv, TreeInv
  <2>3. Goes(P)
    BY <2>1, <2>2, StepGoes DEF FilesInv
  <2>4. QED
    BY <2>3 DEF Goes, FilesInv, TreeInv
<1>2. QED
  BY InitFiles, <1>1, PTL DEF Spec

-----------------------------------------------------------------------------
(* Paths.                                                                  *)

\* A node below the root: its path is its parent's and its name.
LEMMA HungIs ==
  ASSUME Types, NEW P, Hangs(P), NEW n \in DOMAIN P, n # Root
  PROVE  /\ nodes[n].parent \in DOMAIN P /\ nodes[n].parent # NULL
         /\ nodes[n].name \in Names
         /\ P[n] = Append(P[nodes[n].parent], nodes[n].name)
         /\ Len(P[n]) = Len(P[nodes[n].parent]) + 1
         /\ \E i \in DOMAIN nodes[nodes[n].parent].children :
              nodes[nodes[n].parent].children[i] = n
<1>1. /\ nodes[n].parent \in DOMAIN P /\ nodes[n].name \in Names
      /\ P[n] = Append(P[nodes[n].parent], nodes[n].name)
      /\ \E i \in DOMAIN nodes[nodes[n].parent].children :
           nodes[nodes[n].parent].children[i] = n
  BY DEF Hangs, Hung
<1>2. P[nodes[n].parent] \in Seq(Names) /\ nodes[n].parent # NULL
  BY <1>1, TreeIn
<1>3. Len(P[n]) = Len(P[nodes[n].parent]) + 1
  BY <1>1, <1>2, AppendProperties
<1>4. QED
  BY <1>1, <1>2, <1>3

LEMMA DeepestPath ==
  ASSUME Types, NEW P, Hangs(P), NEW n \in DOMAIN P
  PROVE  Len(P[n]) <= Cardinality(Slots) /\ Cardinality(Slots) \in Nat
<1> DEFINE D == DOMAIN P \ {Root}
           K == {Len(P[m]) : m \in D}
           T == {k \in Nat : \A m \in DOMAIN P : Len(P[m]) = k => 1 .. k \subseteq K}
<1>1. P[Root] = <<>> /\ Len(P[Root]) = 0 /\ \A m \in DOMAIN P : Len(P[m]) \in Nat
  BY TreeIn, NoneListed DEF Hangs
<1>2. 0 \in T
  <2>1. 1 .. 0 = {}
    OBVIOUS
  <2>2. QED
    BY <2>1
<1>3. ASSUME NEW k \in Nat, k \in T
      PROVE  k + 1 \in T
  <2>1. SUFFICES ASSUME NEW m \in DOMAIN P, Len(P[m]) = k + 1
                 PROVE  1 .. k + 1 \subseteq K
    OBVIOUS
  <2>2. m # Root
    BY <1>1, <2>1
  <2>3. PICK p \in DOMAIN P : Len(P[m]) = Len(P[p]) + 1
    BY <2>2, HungIs
  <2>4. Len(P[p]) = k
    BY <1>1, <2>1, <2>3
  <2>5. 1 .. k \subseteq K
    BY <1>3, <2>4
  <2>6. k + 1 \in K
    BY <2>1, <2>2
  <2>7. 1 .. k + 1 = 1 .. k \cup {k + 1}
    OBVIOUS
  <2>8. QED
    BY <2>5, <2>6, <2>7
<1> HIDE DEF T
<1>4. Nat \subseteq T
  BY <1>2, <1>3, AllNumbers
<1>5. 1 .. Len(P[n]) \subseteq K
  BY <1>1, <1>4 DEF T
<1>6. D \subseteq Slots /\ IsFiniteSet(Slots) /\ IsFiniteSet(D)
      /\ Cardinality(D) <= Cardinality(Slots) /\ Cardinality(Slots) \in Nat
      /\ Cardinality(D) \in Nat
  <2>1. D \subseteq Slots
    BY DEF Hangs, Types
  <2>2. IsFiniteSet(Slots)
    BY VfsAssumption
  <2>3. IsFiniteSet(D) /\ Cardinality(D) <= Cardinality(Slots)
    BY <2>1, <2>2, FS_Subset
  <2>4. QED
    BY <2>1, <2>2, <2>3, FS_CardinalityType
<1>7. IsFiniteSet(K) /\ Cardinality(K) <= Cardinality(D) /\ Cardinality(K) \in Nat
  <2>1. PICK f : f = [m \in D |-> Len(P[m])]
    OBVIOUS
  <2>2. f \in [D -> K] /\ \A t \in K : \E m \in D : f[m] = t
    BY <2>1
  <2>3. f \in Surjection(D, K)
    BY <2>2 DEF Surjection
  <2>4. IsFiniteSet(K) /\ Cardinality(K) <= Cardinality(D)
    BY <1>6, <2>3, FS_Surjection
  <2>5. QED
    BY <2>4, FS_CardinalityType
<1> HIDE DEF K, D
<1>8. Cardinality(1 .. Len(P[n])) <= Cardinality(K)
  BY <1>5, <1>7, FS_Subset
<1>9. Cardinality(1 .. Len(P[n])) = Len(P[n])
  <2>1. Len(P[n]) \in Nat
    BY <1>1
  <2>2. Cardinality(1 .. Len(P[n])) = IF 1 > Len(P[n]) THEN 0 ELSE Len(P[n]) - 1 + 1
    BY <2>1, FS_Interval
  <2>3. QED
    BY <2>1, <2>2
<1>10. QED
  BY <1>1, <1>6, <1>7, <1>8, <1>9

LEMMA AppendSame ==
  ASSUME NEW S, NEW s \in Seq(S), NEW t \in Seq(S), NEW e \in S, NEW f \in S,
         Append(s, e) = Append(t, f)
  PROVE  s = t /\ e = f
<1>1. Len(s) = Len(t) /\ Len(s) \in Nat
  BY AppendProperties, LenProperties
<1>2. \A i \in 1 .. Len(s) : s[i] = t[i]
  BY <1>1, AppendProperties
<1>3. e = f
  BY <1>1, AppendProperties
<1>4. QED
  BY <1>1, <1>2, <1>3, SeqEqual

LEMMA PathsDiffer ==
  ASSUME Types, NEW P, Hangs(P), NEW m \in DOMAIN P, NEW n \in DOMAIN P, P[m] = P[n]
  PROVE  m = n
<1> DEFINE T == {k \in Nat : \A x, y \in DOMAIN P : Len(P[x]) = k /\ P[x] = P[y] => x = y}
<1>1. /\ P[Root] = <<>> /\ Len(P[Root]) = 0
      /\ \A x \in DOMAIN P : Len(P[x]) \in Nat /\ P[x] \in Seq(Names)
  BY TreeIn, NoneListed DEF Hangs
<1>2. \A x \in DOMAIN P : Len(P[x]) = 0 <=> x = Root
  <2>1. ASSUME NEW x \in DOMAIN P, x # Root
        PROVE  Len(P[x]) # 0
    <3>1. PICK p \in DOMAIN P : Len(P[x]) = Len(P[p]) + 1
      BY <2>1, HungIs
    <3>2. QED
      BY <1>1, <3>1
  <2>2. QED
    BY <1>1, <2>1
<1>3. 0 \in T
  BY <1>2
<1>4. ASSUME NEW k \in Nat, k \in T
      PROVE  k + 1 \in T
  <2>1. SUFFICES ASSUME NEW x \in DOMAIN P, NEW y \in DOMAIN P, Len(P[x]) = k + 1, P[x] = P[y]
                 PROVE  x = y
    OBVIOUS
  <2>2. x # Root /\ y # Root
    BY <1>2, <2>1
  <2>3. PICK p : p = nodes[x].parent
    OBVIOUS
  <2>4. PICK q : q = nodes[y].parent
    OBVIOUS
  <2>5. /\ p \in DOMAIN P /\ nodes[x].name \in Names /\ P[x] = Append(P[p], nodes[x].name)
        /\ Len(P[x]) = Len(P[p]) + 1 /\ \E i \in DOMAIN nodes[p].children : nodes[p].children[i] = x
    BY <2>2, <2>3, HungIs
  <2>6. /\ q \in DOMAIN P /\ nodes[y].name \in Names /\ P[y] = Append(P[q], nodes[y].name)
        /\ \E i \in DOMAIN nodes[q].children : nodes[q].children[i] = y
    BY <2>2, <2>4, HungIs
  <2>7. P[p] = P[q] /\ nodes[x].name = nodes[y].name
    <3>1. Append(P[p], nodes[x].name) = Append(P[q], nodes[y].name)
      BY <2>1, <2>5, <2>6
    <3>2. P[p] \in Seq(Names) /\ P[q] \in Seq(Names)
      BY <1>1, <2>5, <2>6
    <3>3. nodes[x].name \in Names /\ nodes[y].name \in Names
      BY <2>5, <2>6
    <3>4. QED
      BY <3>1, <3>2, <3>3, AppendSame
  <2>8. p = q
    <3>1. Len(P[p]) = k
      BY <1>1, <2>1, <2>5
    <3>2. QED
      BY <1>4, <2>5, <2>6, <2>7, <3>1
  <2>9. Holds(P, p)
    BY <2>5 DEF Hangs
  <2>10. QED
    BY <2>5, <2>6, <2>7, <2>8, <2>9 DEF Holds
<1> HIDE DEF T
<1>5. Len(P[m]) \in T
  BY <1>1, <1>3, <1>4, AllNumbers
<1>6. QED
  BY <1>5 DEF T

\* The places down to a depth.
Level(P, k) == {<<P[n], n>> : n \in {m \in DOMAIN P : Len(P[m]) <= k}}

LEMMA LevelNext ==
  ASSUME Types, NEW P, Hangs(P), NEW k \in Nat
  PROVE  Level(P, k + 1) =
           UNION {{place} \cup {<<Append(place[1], nodes[c].name), c>> :
                                  c \in Range(nodes[place[2]].children)} :
                    place \in Level(P, k)}
<1> DEFINE Below(place) == {<<Append(place[1], nodes[c].name), c>> :
                              c \in Range(nodes[place[2]].children)}
           All == UNION {{place} \cup Below(place) : place \in Level(P, k)}
<1>1. \A m \in DOMAIN P : Len(P[m]) \in Nat
  BY TreeIn
<1>2. ASSUME NEW place \in Level(P, k)
      PROVE  {place} \cup Below(place) \subseteq Level(P, k + 1)
  <2>1. PICK n \in DOMAIN P : place = <<P[n], n>> /\ Len(P[n]) <= k
    BY DEF Level
  <2>2. place[1] = P[n] /\ place[2] = n
    BY <2>1
  <2>3. place \in Level(P, k + 1)
    <3>1. Len(P[n]) <= k + 1
      BY <1>1, <2>1
    <3>2. QED
      BY <2>1, <3>1 DEF Level
  <2>4. ASSUME NEW c \in Range(nodes[n].children)
        PROVE  <<Append(P[n], nodes[c].name), c>> \in Level(P, k + 1)
    <3>1. PICK i \in DOMAIN nodes[n].children : nodes[n].children[i] = c
      BY DEF Range
    <3>2. c \in DOMAIN P /\ c # Root /\ nodes[c].parent = n
      BY <3>1 DEF Hangs, Holds
    <3>3. P[c] = Append(P[n], nodes[c].name) /\ Len(P[c]) = Len(P[n]) + 1
      BY <3>2, HungIs
    <3>4. Len(P[c]) <= k + 1
      BY <1>1, <2>1, <3>3
    <3>5. QED
      BY <3>2, <3>3, <3>4 DEF Level
  <2>5. QED
    BY <2>2, <2>3, <2>4
<1>3. ASSUME NEW place \in Level(P, k + 1)
      PROVE  place \in All
  <2>1. PICK n \in DOMAIN P : place = <<P[n], n>> /\ Len(P[n]) <= k + 1
    BY DEF Level
  <2>2. CASE Len(P[n]) <= k
    <3>1. place \in Level(P, k)
      BY <2>1, <2>2 DEF Level
    <3>2. QED
      BY <3>1
  <2>3. CASE ~(Len(P[n]) <= k)
    <3>1. Len(P[n]) = k + 1 /\ n # Root
      <4>1. Len(P[Root]) = 0
        BY NoneListed DEF Hangs
      <4>2. QED
        BY <1>1, <2>1, <2>3, <4>1
    <3>2. PICK p : p = nodes[n].parent
      OBVIOUS
    <3>3. /\ p \in DOMAIN P /\ P[n] = Append(P[p], nodes[n].name)
          /\ Len(P[n]) = Len(P[p]) + 1
          /\ \E i \in DOMAIN nodes[p].children : nodes[p].children[i] = n
      BY <3>1, <3>2, HungIs
    <3>4. Len(P[p]) <= k
      BY <1>1, <3>1, <3>3
    <3>5. PICK up : up = <<P[p], p>>
      OBVIOUS
    <3>6. up \in Level(P, k) /\ up[1] = P[p] /\ up[2] = p
      BY <3>3, <3>4, <3>5 DEF Level
    <3>7. n \in Range(nodes[p].children)
      BY <3>3 DEF Range
    <3>8. place \in Below(up)
      BY <2>1, <3>3, <3>6, <3>7
    <3> HIDE DEF Below
    <3>9. QED
      BY <3>6, <3>8
  <2>4. QED
    BY <2>2, <2>3
<1> HIDE DEF Below
<1>4. All = Level(P, k + 1)
  BY <1>2, <1>3
<1>5. QED
  BY <1>4 DEF Below

LEMMA PlacesAre ==
  ASSUME Types, NEW P, Hangs(P)
  PROVE  Places = {<<P[n], n>> : n \in DOMAIN P}
<1> DEFINE N == Cardinality(Slots)
           Below(place) == {<<Append(place[1], nodes[c].name), c>> :
                              c \in Range(nodes[place[2]].children)}
           Up(places) == UNION {{place} \cup Below(place) : place \in places}
           Downs(g) == g = [i \in 0 .. N |->
                              IF i = 0 THEN {<< <<>>, Root>>}
                              ELSE Up(g[i - 1])]
           down == CHOOSE g : Downs(g)
<1>1. Places = down[N]
  BY DEF Places
<1>2. N \in Nat /\ \A n \in DOMAIN P : Len(P[n]) <= N /\ Len(P[n]) \in Nat
  <2>1. Root \in DOMAIN P
    BY DEF Hangs
  <2>2. QED
    BY <2>1, DeepestPath, TreeIn
<1>3. Level(P, 0) = {<< <<>>, Root>>}
  <2>1. P[Root] = <<>> /\ Root \in DOMAIN P
    BY DEF Hangs
  <2>2. \A n \in DOMAIN P : Len(P[n]) <= 0 <=> n = Root
    <3>1. ASSUME NEW n \in DOMAIN P, n # Root
          PROVE  ~(Len(P[n]) <= 0)
      <4>1. PICK p \in DOMAIN P : Len(P[n]) = Len(P[p]) + 1
        BY <3>1, HungIs
      <4>2. QED
        BY <1>2, <4>1
    <3>2. QED
      BY <2>1, <3>1, NoneListed
  <2>3. {m \in DOMAIN P : Len(P[m]) <= 0} = {Root}
    BY <2>1, <2>2
  <2>4. QED
    BY <2>1, <2>3 DEF Level
<1>4. \A k \in Nat : Level(P, k + 1) = Up(Level(P, k))
  BY LevelNext
<1> HIDE DEF Below, N, Up
<1>5. \E g : Downs(g)
  <2>1. PICK g : g = [i \in 0 .. N |-> Level(P, i)]
    OBVIOUS
  <2>2. ASSUME NEW i \in 0 .. N
        PROVE  Level(P, i) = IF i = 0 THEN {<< <<>>, Root>>}
                             ELSE Up(g[i - 1])
    <3>1. CASE i = 0
      BY <3>1, <1>3
    <3>2. CASE i # 0
      <4>1. i - 1 \in Nat /\ i - 1 + 1 = i /\ i - 1 \in 0 .. N
        BY <1>2, <3>2
      <4>2. g[i - 1] = Level(P, i - 1)
        BY <2>1, <4>1
      <4>3. Level(P, i) = Up(Level(P, i - 1))
        BY <1>4, <4>1
      <4>4. QED
        BY <3>2, <4>2, <4>3
    <3>3. QED
      BY <3>1, <3>2
  <2>3. Downs(g)
    BY <2>1, <2>2
  <2>4. QED
    BY <2>3
<1>6. Downs(down)
  <2> HIDE DEF Downs
  <2>1. QED
    BY <1>5
<1> HIDE DEF down
<1>7. ASSUME NEW i \in 0 .. N
      PROVE  down[i] = IF i = 0 THEN {<< <<>>, Root>>}
                       ELSE Up(down[i - 1])
  BY <1>6
<1> DEFINE T == {k \in Nat : k <= N => down[k] = Level(P, k)}
<1>8. 0 \in T
  <2>1. 0 \in 0 .. N
    BY <1>2
  <2>2. QED
    BY <1>3, <1>7, <2>1
<1>9. ASSUME NEW k \in Nat, k \in T
      PROVE  k + 1 \in T
  <2>1. SUFFICES ASSUME k + 1 <= N
                 PROVE  down[k + 1] = Level(P, k + 1)
    OBVIOUS
  <2>2. k + 1 \in 0 .. N /\ k + 1 # 0 /\ k + 1 - 1 = k /\ k <= N
    BY <1>2, <2>1
  <2>3. down[k + 1] = Up(down[k])
    BY <1>7, <2>2
  <2>4. QED
    BY <1>4, <1>9, <2>2, <2>3
<1> HIDE DEF T
<1>10. N \in T
  BY <1>2, <1>8, <1>9, AllNumbers
<1>11. down[N] = Level(P, N)
  BY <1>2, <1>10 DEF T
<1>12. Level(P, N) = {<<P[n], n>> : n \in DOMAIN P}
  <2>1. {m \in DOMAIN P : Len(P[m]) <= N} = DOMAIN P
    BY <1>2
  <2>2. QED
    BY <2>1 DEF Level
<1>13. QED
  BY <1>1, <1>11, <1>12

LEMMA TreeIs ==
  ASSUME Types, NEW P, Hangs(P)
  PROVE  /\ Tree = DOMAIN P
         /\ Held = [p \in {P[n] : n \in DOMAIN P} |->
                      Contents(CHOOSE n \in DOMAIN P : P[n] = p)]
<1>1. PICK places : places = Places
  OBVIOUS
<1>2. places = {<<P[n], n>> : n \in DOMAIN P}
  BY <1>1, PlacesAre
<1>3. Tree = {place[2] : place \in places}
  BY <1>1 DEF Tree
<1>4. \A n \in DOMAIN P : <<P[n], n>>[1] = P[n] /\ <<P[n], n>>[2] = n /\ <<P[n], n>> \in places
  BY <1>2
<1>5. \A place \in places : place[2] \in DOMAIN P /\ place[1] = P[place[2]]
                            /\ place = <<P[place[2]], place[2]>>
  BY <1>2
<1>6. Tree = DOMAIN P
  BY <1>3, <1>4, <1>5
<1>7. {place[1] : place \in places} = {P[n] : n \in DOMAIN P}
  <2>1. ASSUME NEW n \in DOMAIN P
        PROVE  P[n] \in {place[1] : place \in places}
    BY <1>4
  <2>2. ASSUME NEW place \in places
        PROVE  place[1] \in {P[n] : n \in DOMAIN P}
    BY <1>5
  <2>3. QED
    BY <2>1, <2>2
<1>8. ASSUME NEW p \in {P[n] : n \in DOMAIN P}
      PROVE  (CHOOSE place \in places : place[1] = p)[2] = CHOOSE n \in DOMAIN P : P[n] = p
  <2>1. PICK n \in DOMAIN P : P[n] = p
    OBVIOUS
  <2>2. PICK x : x = CHOOSE y \in DOMAIN P : P[y] = p
    OBVIOUS
  <2>3. x \in DOMAIN P /\ P[x] = p
    BY <2>1, <2>2
  <2>4. PICK place : place = CHOOSE y \in places : y[1] = p
    OBVIOUS
  <2>5. place \in places /\ place[1] = p
    BY <1>4, <2>1, <2>4
  <2>6. place[2] \in DOMAIN P /\ P[place[2]] = p
    BY <1>5, <2>5
  <2>7. place[2] = x
    BY <2>3, <2>6, PathsDiffer
  <2>8. QED
    BY <2>2, <2>4, <2>7
<1>9. Held = [p \in {place[1] : place \in places} |->
                Contents((CHOOSE place \in places : place[1] = p)[2])]
  BY <1>1 DEF Held
<1> DEFINE F(p) == (CHOOSE place \in places : place[1] = p)[2]
           G(p) == CHOOSE n \in DOMAIN P : P[n] = p
<1>10. \A p \in {P[n] : n \in DOMAIN P} : F(p) = G(p)
  BY <1>8
<1>11. Held = [p \in {P[n] : n \in DOMAIN P} |-> Contents(F(p))]
  BY <1>7, <1>9
<1>12. Held = [p \in {P[n] : n \in DOMAIN P} |-> Contents(G(p))]
  <2> HIDE DEF F, G
  <2>1. QED
    BY <1>10, <1>11
<1>13. QED
  BY <1>6, <1>12

LEMMA HeldIs ==
  ASSUME Types, NEW P, Hangs(P)
  PROVE  /\ DOMAIN Held = {P[n] : n \in DOMAIN P}
         /\ Held = [p \in DOMAIN Held |-> Held[p]]
         /\ \A n \in DOMAIN P : Held[P[n]] = Contents(n)
<1> DEFINE S == {P[n] : n \in DOMAIN P}
           At(p) == CHOOSE n \in DOMAIN P : P[n] = p
<1>1. Held = [p \in S |-> Contents(At(p))]
  BY TreeIs
<1>2. ASSUME NEW n \in DOMAIN P
      PROVE  Held[P[n]] = Contents(n)
  <2>1. PICK x : x = At(P[n])
    OBVIOUS
  <2>2. x \in DOMAIN P /\ P[x] = P[n]
    BY <2>1
  <2>3. x = n
    BY <2>2, PathsDiffer
  <2>4. P[n] \in S
    OBVIOUS
  <2> HIDE DEF S, At
  <2>5. Held[P[n]] = Contents(At(P[n]))
    BY <1>1, <2>4
  <2>6. QED
    BY <2>1, <2>3, <2>5
<1> HIDE DEF S, At
<1>3. DOMAIN Held = S /\ Held = [p \in DOMAIN Held |-> Held[p]]
  BY <1>1
<1>4. QED
  BY <1>2, <1>3 DEF S

LEMMA PrefixOfAppend ==
  ASSUME NEW S, NEW s \in Seq(S), NEW e \in S, NEW k \in 0 .. Len(s)
  PROVE  /\ SubSeq(Append(s, e), 1, k) = SubSeq(s, 1, k)
         /\ SubSeq(Append(s, e), 1, Len(s)) = s
         /\ SubSeq(Append(s, e), 1, Len(s) + 1) = Append(s, e)
<1> DEFINE t == Append(s, e)
<1>1. /\ t \in Seq(S) /\ Len(t) = Len(s) + 1 /\ Len(s) \in Nat
      /\ \A i \in 1 .. Len(s) : t[i] = s[i]
  BY AppendProperties, LenProperties
<1> HIDE DEF t
<1>2. ASSUME NEW j \in 0 .. Len(s)
      PROVE  SubSeq(t, 1, j) = SubSeq(s, 1, j)
  <2>1. /\ \A i \in 1 .. j : s[i] \in S /\ t[i] \in S /\ t[i] = s[i]
        /\ 1 \in Int /\ j \in Int /\ j - 1 + 1 = j
    <3>1. \A i \in 1 .. j : i \in 1 .. Len(s)
      BY <1>1
    <3>2. \A i \in 1 .. Len(s) : s[i] \in S
      BY ElementOfSeq
    <3>3. QED
      BY <1>1, <3>1, <3>2
  <2>2. /\ SubSeq(s, 1, j) \in Seq(S) /\ Len(SubSeq(s, 1, j)) = j
        /\ \A i \in 1 .. j : SubSeq(s, 1, j)[i] = s[1 + i - 1]
    BY <2>1, SubSeqProperties
  <2>3. /\ SubSeq(t, 1, j) \in Seq(S) /\ Len(SubSeq(t, 1, j)) = j
        /\ \A i \in 1 .. j : SubSeq(t, 1, j)[i] = t[1 + i - 1]
    BY <2>1, SubSeqProperties
  <2>4. \A i \in 1 .. j : SubSeq(t, 1, j)[i] = SubSeq(s, 1, j)[i]
    <3>1. \A i \in 1 .. j : 1 + i - 1 = i
      OBVIOUS
    <3>2. QED
      BY <2>1, <2>2, <2>3, <3>1
  <2>5. QED
    BY <2>2, <2>3, <2>4, SeqEqual
<1>3. SubSeq(s, 1, Len(s)) = s /\ SubSeq(t, 1, Len(s) + 1) = t
  BY <1>1, SubSeqFull
<1>4. Len(s) \in 0 .. Len(s)
  BY <1>1
<1>5. QED
  BY <1>2, <1>3, <1>4 DEF t

\* Every prefix of a path is a path, and its node holds the next.
LEMMA PrefixesAre ==
  ASSUME Types, NEW P, Hangs(P), NEW m \in DOMAIN P, NEW k \in 0 .. Len(P[m]) - 1
  PROVE  \E y \in DOMAIN P : /\ y # Root
                             /\ P[y] = SubSeq(P[m], 1, k + 1)
                             /\ P[nodes[y].parent] = SubSeq(P[m], 1, k)
<1> DEFINE Good(x, j, y) == /\ y # Root
                            /\ P[y] = SubSeq(P[x], 1, j + 1)
                            /\ P[nodes[y].parent] = SubSeq(P[x], 1, j)
           T == {l \in Nat : \A x \in DOMAIN P : Len(P[x]) = l =>
                   \A j \in 0 .. l - 1 : \E y \in DOMAIN P : Good(x, j, y)}
<1>1. /\ P[Root] = <<>> /\ Len(P[Root]) = 0
      /\ \A x \in DOMAIN P : Len(P[x]) \in Nat /\ P[x] \in Seq(Names)
  BY TreeIn, NoneListed DEF Hangs
<1>2. 0 \in T
  <2>1. 0 .. 0 - 1 = {}
    OBVIOUS
  <2>2. QED
    BY <2>1
<1>3. ASSUME NEW l \in Nat, l \in T
      PROVE  l + 1 \in T
  <2>1. SUFFICES ASSUME NEW x \in DOMAIN P, Len(P[x]) = l + 1, NEW j \in 0 .. l
                 PROVE  \E y \in DOMAIN P : Good(x, j, y)
    <3>1. l + 1 - 1 = l /\ l + 1 \in Nat
      OBVIOUS
    <3> HIDE DEF Good
    <3>2. QED
      BY <2>1, <3>1
  <2>2. x # Root
    BY <1>1, <2>1
  <2>3. PICK p : p = nodes[x].parent
    OBVIOUS
  <2>4. /\ p \in DOMAIN P /\ nodes[x].name \in Names /\ P[x] = Append(P[p], nodes[x].name)
        /\ Len(P[x]) = Len(P[p]) + 1
    BY <2>2, <2>3, HungIs
  <2>5. Len(P[p]) = l /\ P[p] \in Seq(Names)
    BY <1>1, <2>1, <2>4
  <2>6. \A i \in 0 .. l : /\ SubSeq(P[x], 1, i) = SubSeq(P[p], 1, i)
                          /\ SubSeq(P[x], 1, l) = P[p]
                          /\ SubSeq(P[x], 1, l + 1) = P[x]
    BY <2>4, <2>5, PrefixOfAppend
  <2>7. CASE j = l
    <3>1. SubSeq(P[x], 1, l) = P[p] /\ SubSeq(P[x], 1, l + 1) = P[x]
      BY <2>1, <2>6
    <3>2. Good(x, j, x)
      BY <2>2, <2>3, <2>7, <3>1
    <3>3. QED
      BY <3>2
  <2>8. CASE j # l
    <3>1. j \in 0 .. l - 1 /\ j \in 0 .. l /\ j + 1 \in 0 .. l
      BY <2>8
    <3>2. PICK y \in DOMAIN P : Good(p, j, y)
      BY <1>3, <2>4, <2>5, <3>1
    <3>3. SubSeq(P[x], 1, j) = SubSeq(P[p], 1, j) /\ SubSeq(P[x], 1, j + 1) = SubSeq(P[p], 1, j + 1)
      BY <2>6, <3>1
    <3>4. Good(x, j, y)
      BY <3>2, <3>3
    <3>5. QED
      BY <3>4
  <2>9. QED
    BY <2>7, <2>8
<1> HIDE DEF T
<1>4. Len(P[m]) \in T
  BY <1>1, <1>2, <1>3, AllNumbers
<1>5. \E y \in DOMAIN P : Good(m, k, y)
  BY <1>4 DEF T
<1>6. QED
  BY <1>5

-----------------------------------------------------------------------------
(* The map from paths to contents.                                         *)

\* The promise's map is made of the contents of the nodes.
Shows(P, map) ==
  /\ DOMAIN map = {P[n] : n \in DOMAIN P}
  /\ map = [p \in DOMAIN map |-> map[p]]
  /\ \A m, n \in DOMAIN P : P[m] = P[n] => m = n

HeldBy(P) == Shows(P, Held) /\ \A n \in DOMAIN P : Held[P[n]] = Contents(n)

LEMMA HeldHolds == \A P : Types /\ Hangs(P) => HeldBy(P)
BY HeldIs, PathsDiffer DEF HeldBy, Shows

LEMMA HeldHoldsNext == (\A P : Types /\ Hangs(P) => HeldBy(P))'
BY HeldHolds, PTL

LEMMA ContentsIs ==
  ASSUME NEW n
  PROVE  /\ nodes[n].is_dir /\ ~nodes[n].readonly /\ nodes[n].data = <<>> => Contents(n) = Promise!Dir
         /\ ~nodes[n].is_dir /\ ~nodes[n].readonly => Contents(n).kind = "file"
         /\ ~nodes[n].is_dir => Contents(n).kind \in {"file", "module"}
<1>1. PICK k : k = CASE nodes[n].is_dir -> "dir"
                     [] nodes[n].readonly -> "module"
                     [] OTHER -> "file"
  OBVIOUS
<1>2. Contents(n) = [kind |-> k, data |-> nodes[n].data]
  BY <1>1 DEF Contents
<1>3. Contents(n).kind = k
  BY <1>2
<1>4. CASE nodes[n].is_dir /\ ~nodes[n].readonly
  <2>1. k = "dir"
    BY <1>1, <1>4
  <2>2. QED
    BY <1>2, <1>4, <2>1 DEF Promise!Dir
<1>5. CASE ~nodes[n].is_dir
  <2>1. CASE nodes[n].readonly
    <3>1. k = "module"
      BY <1>1, <1>5, <2>1
    <3>2. QED
      BY <1>3, <1>5, <2>1, <3>1
  <2>2. CASE ~nodes[n].readonly
    <3>1. k = "file"
      BY <1>1, <1>5, <2>2
    <3>2. QED
      BY <1>3, <1>5, <2>2, <3>1
  <2>3. QED
    BY <2>1, <2>2
<1>6. QED
  BY <1>2, <1>4, <1>5

LEMMA KindNext == (\A n \in Node : ~nodes[n].is_dir => Contents(n).kind \in {"file", "module"})'
<1>1. \A n \in Node : ~nodes[n].is_dir => Contents(n).kind \in {"file", "module"}
  BY ContentsIs
<1>2. QED
  BY <1>1, PTL

LEMMA StepImplements ==
  ASSUME DataInv, DataInv', NEW P, Hangs(P), NEW Q, Hangs(Q)', Moves(P, Q)
  PROVE  [Promise!Next]_Held
<1>1. HeldBy(P) /\ HeldBy(Q)'
  BY HeldHolds, HeldHoldsNext DEF DataInv
<1>2. PICK old : old = Held
  OBVIOUS
<1>3. PICK new : new = Held'
  OBVIOUS
<1>4. Shows(P, old) /\ \A n \in DOMAIN P : old[P[n]] = Contents(n)
  BY <1>1, <1>2 DEF HeldBy
<1>5. Shows(Q, new) /\ \A n \in DOMAIN Q : new[Q[n]] = Contents(n)'
  BY <1>1, <1>3 DEF HeldBy, Shows
<1>6. \A n \in DOMAIN P : P[n] \in Seq(Names) /\ Len(P[n]) \in Nat
  BY TreeIn DEF DataInv
<1>7. \A n \in DOMAIN P : FileOK(n)
  BY DEF Hangs
<1>8. SUFFICES \/ new = old
               \/ Promise!Add(old, new) \/ Promise!Change(old, new)
               \/ Promise!Remove(old, new) \/ Promise!Restart(new)
  BY <1>2, <1>3 DEF Promise!Next
<1>9. CASE Quiet(P, Q)
  <2>1. Q = P /\ \A n \in DOMAIN P : Contents(n)' = Contents(n)
    BY <1>9 DEF Quiet
  <2>2. DOMAIN new = DOMAIN old /\ \A p \in DOMAIN old : new[p] = old[p]
    BY <1>4, <1>5, <2>1 DEF Shows
  <2>3. new = old
    BY <1>4, <1>5, <2>2 DEF Shows
  <2>4. QED
    BY <2>3
<1>10. CASE Grows(P, Q)
  <2>1. PICK n \in Node, dir \in Node, name \in Names :
          /\ n \notin DOMAIN P /\ dir \in DOMAIN P /\ nodes[dir].is_dir
          /\ DOMAIN Q = DOMAIN P \cup {n}
          /\ \A m \in DOMAIN P : Q[m] = P[m] /\ Contents(m)' = Contents(m)
          /\ Q[n] = Append(P[dir], name)
          /\ Contents(n)' \in {Promise!Dir, Promise!Empty}
    BY <1>10 DEF Grows
  <2>2. PICK p : p = Q[n]
    OBVIOUS
  <2>3. p \in DOMAIN new /\ new[p] \in {Promise!Dir, Promise!Empty}
    BY <1>5, <2>1, <2>2 DEF Shows
  <2>4. p \notin DOMAIN old
    <3>1. SUFFICES ASSUME NEW m \in DOMAIN P, P[m] = p
                   PROVE  FALSE
      BY <1>4 DEF Shows
    <3>2. Q[m] = Q[n] /\ m \in DOMAIN Q /\ n \in DOMAIN Q
      BY <2>1, <2>2, <3>1
    <3>3. m = n
      BY <1>5, <3>2 DEF Shows
    <3>4. QED
      BY <2>1, <3>3
  <2>5. Promise!Above(p) = P[dir]
    <3>1. P[dir] \in Seq(Names) /\ Len(P[dir]) \in Nat
      BY <1>6, <2>1
    <3>2. Len(p) = Len(P[dir]) + 1 /\ Len(p) - 1 = Len(P[dir])
      BY <2>1, <2>2, <3>1, AppendProperties
    <3>3. Len(P[dir]) \in 0 .. Len(P[dir])
      BY <3>1
    <3>4. SubSeq(p, 1, Len(P[dir])) = P[dir]
      BY <2>1, <2>2, <3>1, <3>3, PrefixOfAppend
    <3>5. QED
      BY <3>2, <3>4 DEF Promise!Above
  <2>6. P[dir] \in DOMAIN old /\ old[P[dir]] = Promise!Dir
    <3>1. nodes[dir].data = <<>> /\ ~nodes[dir].readonly
      BY <1>7, <2>1 DEF FileOK
    <3>2. Contents(dir) = Promise!Dir
      BY <2>1, <3>1, ContentsIs
    <3>3. QED
      BY <1>4, <2>1, <3>2 DEF Shows
  <2>7. DOMAIN new = DOMAIN old \cup {p} /\ \A q \in DOMAIN old : new[q] = old[q]
    <3>1. ASSUME NEW q \in DOMAIN old
          PROVE  q \in DOMAIN new /\ new[q] = old[q]
      <4>1. PICK m \in DOMAIN P : q = P[m]
        BY <1>4 DEF Shows
      <4>2. m \in DOMAIN Q /\ Q[m] = q /\ Contents(m)' = Contents(m)
        BY <2>1, <4>1
      <4>3. q \in DOMAIN new
        BY <1>5, <4>2 DEF Shows
      <4>4. new[q] = Contents(m)' /\ old[q] = Contents(m)
        BY <1>4, <1>5, <4>1, <4>2
      <4>5. QED
        BY <4>2, <4>3, <4>4
    <3>2. ASSUME NEW q \in DOMAIN new, q # p
          PROVE  q \in DOMAIN old
      <4>1. PICK m \in DOMAIN Q : q = Q[m]
        BY <1>5 DEF Shows
      <4>2. m \in DOMAIN P /\ P[m] = q
        BY <2>1, <2>2, <3>2, <4>1
      <4>3. QED
        BY <1>4, <4>2 DEF Shows
    <3>3. QED
      BY <2>3, <3>1, <3>2
  <2>8. new = Promise!Set(old, p, new[p])
    <3>1. new = [q \in DOMAIN new |-> new[q]]
      BY <1>5 DEF Shows
    <3>2. \A q \in DOMAIN new : new[q] = IF q = p THEN new[p] ELSE old[q]
      BY <2>7
    <3>3. QED
      BY <2>7, <3>1, <3>2 DEF Promise!Set
  <2>9. Promise!Add(old, new)
    BY <2>3, <2>4, <2>5, <2>6, <2>8 DEF Promise!Add
  <2>10. QED
    BY <2>9
<1>11. CASE Changes(P, Q)
  <2>1. Q = P
    BY <1>11 DEF Changes
  <2>2. PICK n \in DOMAIN P :
          /\ ~nodes[n].is_dir /\ ~nodes[n].readonly /\ ~nodes'[n].is_dir
          /\ \A m \in DOMAIN P : m # n => Contents(m)' = Contents(m)
    BY <1>11 DEF Changes
  <2>3. PICK p : p = P[n]
    OBVIOUS
  <2>4. p \in DOMAIN old /\ old[p].kind = "file"
    <3>1. p \in DOMAIN old /\ old[p] = Contents(n)
      BY <1>4, <2>3 DEF Shows
    <3>2. Contents(n).kind = "file"
      BY <2>2, ContentsIs
    <3>3. QED
      BY <3>1, <3>2
  <2>5. DOMAIN new = DOMAIN old
    BY <1>4, <1>5, <2>1 DEF Shows
  <2>6. new[p].kind \in {"file", "module"}
    <3>1. n \in Node /\ n \in DOMAIN Q /\ p = Q[n]
      BY <2>1, <2>3, TreeIn DEF DataInv
    <3>2. (Contents(n)').kind \in {"file", "module"}
      BY <2>2, <3>1, KindNext
    <3>3. new[p] = Contents(n)'
      BY <1>5, <3>1
    <3>4. QED
      BY <3>2, <3>3
  <2>7. \A q \in DOMAIN old : q # p => new[q] = old[q]
    BY <1>4, <1>5, <2>1, <2>2, <2>3 DEF Shows
  <2>8. new = Promise!Set(old, p, new[p])
    <3>1. new = [q \in DOMAIN new |-> new[q]]
      BY <1>5 DEF Shows
    <3>2. DOMAIN new = DOMAIN old \cup {p}
      BY <2>4, <2>5
    <3>3. \A q \in DOMAIN new : new[q] = IF q = p THEN new[p] ELSE old[q]
      BY <2>5, <2>7
    <3>4. QED
      BY <3>1, <3>2, <3>3 DEF Promise!Set
  <2>9. Promise!Change(old, new)
    BY <2>4, <2>5, <2>6, <2>8 DEF Promise!Change
  <2>10. QED
    BY <2>9
<1>12. CASE \E n \in Node : Shrinks(P, Q, n)
  <2>1. PICK n \in Node : Shrinks(P, Q, n)
    BY <1>12
  <2>2. /\ n \in DOMAIN P \ {Root} /\ (nodes[n].is_dir => nodes[n].children = <<>>)
        /\ DOMAIN Q = DOMAIN P \ {n}
        /\ \A m \in DOMAIN Q : Q[m] = P[m] /\ Contents(m)' = Contents(m)
    BY <2>1 DEF Shrinks
  <2>3. PICK p : p = P[n]
    OBVIOUS
  <2>4. p \in DOMAIN old
    BY <1>4, <2>2, <2>3 DEF Shows
  <2>5. p \notin DOMAIN new
    <3>1. SUFFICES ASSUME NEW m \in DOMAIN Q, Q[m] = p
                   PROVE  FALSE
      BY <1>5 DEF Shows
    <3>2. m \in DOMAIN P /\ P[m] = P[n] /\ m # n
      BY <2>2, <2>3, <3>1
    <3>3. QED
      BY <1>4, <2>2, <3>2 DEF Shows
  <2>6. ASSUME NEW q \in DOMAIN old, Promise!IsAbove(p, q)
        PROVE  FALSE
    <3>1. PICK m \in DOMAIN P : q = P[m]
      BY <1>4 DEF Shows
    <3>2. PICK k : k = Len(P[n])
      OBVIOUS
    <3>3. k \in 0 .. Len(P[m]) - 1 /\ SubSeq(P[m], 1, k) = P[n]
      BY <1>6, <2>2, <2>3, <2>6, <3>1, <3>2 DEF Promise!IsAbove
    <3>4. PICK y \in DOMAIN P : y # Root /\ P[nodes[y].parent] = SubSeq(P[m], 1, k)
      BY <3>3, PrefixesAre DEF DataInv
    <3>5. PICK x : x = nodes[y].parent
      OBVIOUS
    <3>6. /\ x \in DOMAIN P
          /\ \E i \in DOMAIN nodes[x].children : nodes[x].children[i] = y
      BY <3>4, <3>5, HungIs DEF DataInv
    <3>7. x = n
      <4>1. P[x] = P[n]
        BY <3>3, <3>4, <3>5
      <4>2. n \in DOMAIN P
        BY <2>2
      <4>3. QED
        BY <1>4, <3>6, <4>1, <4>2 DEF Shows
    <3>8. nodes[n].children = <<>>
      BY <1>7, <2>2 DEF FileOK
    <3>9. DOMAIN nodes[n].children = {}
      BY <3>8
    <3>10. QED
      BY <3>6, <3>7, <3>9
  <2>7. DOMAIN old = DOMAIN new \cup {p} /\ \A q \in DOMAIN new : new[q] = old[q]
    <3>1. \A q \in DOMAIN new : q \in DOMAIN old /\ new[q] = old[q]
      BY <1>4, <1>5, <2>2 DEF Shows
    <3>2. \A q \in DOMAIN old : q # p => q \in DOMAIN new
      BY <1>4, <1>5, <2>2, <2>3 DEF Shows
    <3>3. QED
      BY <2>4, <3>1, <3>2
  <2>8. old = Promise!Set(new, p, old[p])
    <3>1. old = [q \in DOMAIN old |-> old[q]]
      BY <1>4 DEF Shows
    <3>2. \A q \in DOMAIN old : old[q] = IF q = p THEN old[p] ELSE new[q]
      BY <2>7
    <3>3. QED
      BY <2>7, <3>1, <3>2 DEF Promise!Set
  <2>9. Promise!Remove(old, new)
    BY <2>4, <2>5, <2>6, <2>8 DEF Promise!Remove
  <2>10. QED
    BY <2>9
<1>13. CASE Starts(Q)
  <2>1. DOMAIN new = {<<>>} /\ new[<<>>] = Promise!Dir
    BY <1>5, <1>13 DEF Starts, Shows
  <2>2. new = Promise!OnlyRoot
    BY <1>5, <2>1 DEF Shows, Promise!OnlyRoot
  <2>3. QED
    BY <2>2 DEF Promise!Restart
<1>14. QED
  BY <1>9, <1>10, <1>11, <1>12, <1>13 DEF Moves, Keeps

LEMMA InitImplements == Init => Promise!Init
<1>1. SUFFICES ASSUME Init
               PROVE  Promise!Init
  OBVIOUS
<1>2. FilesInv
  BY <1>1, InitFiles
<1>3. nodes = OnlyRoot /\ live = {}
  BY <1>1 DEF Init, VfsInit
<1>4. PICK Q : Hangs(Q) /\ DOMAIN Q = {Root} /\ Q[Root] = <<>> /\ Contents(Root) = Promise!Dir
  BY <1>3, BlankTree
<1>5. HeldBy(Q)
  BY <1>2, <1>4, HeldHolds DEF FilesInv, DataInv
<1>6. DOMAIN Held = {<<>>} /\ Held[<<>>] = Promise!Dir /\ Held = [p \in DOMAIN Held |-> Held[p]]
  BY <1>4, <1>5 DEF HeldBy, Shows
<1>7. Held = Promise!OnlyRoot
  BY <1>6 DEF Promise!OnlyRoot
<1>8. QED
  BY <1>7 DEF Promise!Init

\* The nodes, linked by pointers and freed one by one, implement the map from paths to
\* contents: a step of the boot code, of vfs_mkdirs, vfs_write or a command changes
\* one path, whatever allocation fails and wherever the current directory points.
THEOREM NodesAreAMap == Spec => Implements
<1>1. FilesInv /\ FilesInv' /\ [Next]_vars => [Promise!Next]_Held
  <2>1. SUFFICES ASSUME FilesInv, FilesInv', [Next]_vars
                 PROVE  [Promise!Next]_Held
    OBVIOUS
  <2>2. PICK P : Hangs(P)
    BY <2>1 DEF FilesInv, TreeInv
  <2>3. Goes(P)
    BY <2>1, <2>2, StepGoes DEF FilesInv
  <2>4. PICK Q : Hangs(Q)' /\ Moves(P, Q)
    BY <2>3 DEF Goes
  <2>5. QED
    BY <2>1, <2>2, <2>4, StepImplements DEF FilesInv
<1>2. QED
  BY FilesStay, InitImplements, <1>1, PTL DEF Spec, Implements, Promise!Spec

-----------------------------------------------------------------------------
(* The current directory.                                                  *)

LEMMA TreeHolds == \A P : Types /\ Hangs(P) => Tree = DOMAIN P
BY TreeIs

LEMMA TreeHoldsNext == (\A P : Types /\ Hangs(P) => Tree = DOMAIN P)'
BY TreeHolds, PTL

\* From a node of the tree a component leads to a node of the tree.
LEMMA NextInTree ==
  ASSUME Types, NEW P, Hangs(P), NEW cur \in DOMAIN P, NEW comp, NEW first
  PROVE  Next_of(cur, comp, first) \in DOMAIN P \cup {NULL}
<1>1. cur \in Node /\ Parent(cur) \in DOMAIN P /\ Holds(P, cur)
  BY TreeIn DEF Hangs
<1>2. dir_find(cur, comp) \in DOMAIN P \cup {NULL}
  <2>1. CASE dir_find(cur, comp) = NULL
    BY <2>1
  <2>2. CASE dir_find(cur, comp) # NULL
    <3>1. PICK i \in DOMAIN nodes[cur].children : dir_find(cur, comp) = nodes[cur].children[i]
      BY <1>1, <2>2, DirFindIs
    <3>2. QED
      BY <1>1, <3>1 DEF Holds
  <2>3. QED
    BY <2>1, <2>2
<1>3. QED
  BY <1>1, <1>2 DEF Next_of

\* A path leads from a node of the tree to a node of the tree.
LEMMA WalkInTree ==
  ASSUME Types, NEW P, Hangs(P), NEW path, NEW last \in Nat, Start(path) \in DOMAIN P
  PROVE  Walk(path, last) \in DOMAIN P \cup {NULL}
<1>1. PICK w : Walked(w, path, last)
  BY WalkIs
<1>2. /\ w[0] = Start(path) /\ Walk(path, last) = w[last]
      /\ \A i \in 1 .. last : w[i] = Next_of(w[i - 1], path.comps[i], i = 1)
  BY <1>1 DEF Walked
<1> DEFINE T == {k \in Nat : k <= last => w[k] \in DOMAIN P \cup {NULL}}
<1>3. 0 \in T
  BY <1>2
<1>4. ASSUME NEW k \in Nat, k \in T
      PROVE  k + 1 \in T
  <2>1. SUFFICES ASSUME k + 1 <= last
                 PROVE  w[k + 1] \in DOMAIN P \cup {NULL}
    OBVIOUS
  <2>2. k + 1 \in 1 .. last /\ k + 1 - 1 = k /\ k <= last
    BY <2>1
  <2>3. w[k] \in DOMAIN P \cup {NULL}
    BY <1>4, <2>2
  <2>4. w[k + 1] = Next_of(w[k], path.comps[k + 1], k + 1 = 1)
    BY <1>2, <2>2
  <2>5. CASE w[k] = NULL
    BY <2>4, <2>5 DEF Next_of
  <2>6. CASE w[k] \in DOMAIN P
    <3>1. PICK first : first = (k + 1 = 1)
      OBVIOUS
    <3>2. Next_of(w[k], path.comps[k + 1], first) \in DOMAIN P \cup {NULL}
      BY <2>6, NextInTree
    <3>3. QED
      BY <2>4, <3>1, <3>2
  <2>7. QED
    BY <2>3, <2>5, <2>6
<1> HIDE DEF T
<1>5. last \in T
  BY <1>3, <1>4, AllNumbers
<1>6. QED
  BY <1>2, <1>5 DEF T

\* A directory of the tree that keeps its contents stays a directory.
LEMMA StaysDirectory ==
  ASSUME NEW n \in Node, nodes[n].is_dir, FileOK(n), Contents(n)' = Contents(n)
  PROVE  nodes'[n].is_dir
<1>1. Contents(n) = Promise!Dir
  BY ContentsIs DEF FileOK
<1>2. Contents(n).kind = "dir"
  BY <1>1 DEF Promise!Dir
<1>3. ~nodes'[n].is_dir => (Contents(n)').kind \in {"file", "module"}
  BY KindNext
<1>4. QED
  BY <1>2, <1>3

LEMMA StaysInTree ==
  ASSUME DataInv, NEW P, Hangs(P), Stays(P), NEW n \in DOMAIN P, nodes[n].is_dir
  PROVE  n \in Tree' /\ nodes'[n].is_dir
<1>1. PICK Q : Hangs(Q)' /\ Keeps(P, Q)
  BY DEF Stays
<1>2. Tree' = DOMAIN Q
  BY <1>1, TreeHoldsNext DEF Stays, DataInv
<1>3. n \in Node /\ FileOK(n)
  BY TreeIn DEF Hangs, DataInv
<1>4. n \in DOMAIN Q /\ nodes'[n].is_dir
  <2>1. CASE Quiet(P, Q)
    BY <1>3, <2>1, StaysDirectory DEF Quiet
  <2>2. CASE Grows(P, Q)
    <3>1. n \in DOMAIN Q /\ Contents(n)' = Contents(n)
      BY <2>2 DEF Grows
    <3>2. QED
      BY <1>3, <3>1, StaysDirectory
  <2>3. CASE Changes(P, Q)
    <3>1. n \in DOMAIN Q /\ Contents(n)' = Contents(n)
      BY <2>3 DEF Changes
    <3>2. QED
      BY <1>3, <3>1, StaysDirectory
  <2>4. QED
    BY <1>1, <2>1, <2>2, <2>3 DEF Keeps
<1>5. QED
  BY <1>2, <1>4

\* A step other than cd, rm and a restart leaves the current directory where it is.
LEMMA CwdSame ==
  ASSUME cwd # NULL, [Next]_vars, ~Reboot, ~\E path \in Paths : cmd_rm(path) \/ cmd_cd(path)
  PROVE  cwd' = cwd
<1>1. CASE Requested
  BY <1>1 DEF Requested, Enter, MakeFile, TruncateFile, vfs_write, register_module_file
<1>2. CASE \E path \in Paths, words \in Lines : cmd_write(path, words)
  BY <1>2 DEF cmd_write
<1>3. CASE \E path \in Paths : cmd_mkdir(path)
  BY <1>3 DEF cmd_mkdir
<1>4. CASE LoadEntry \/ Return \/ shell_init
  BY <1>4 DEF LoadEntry, Return, shell_init
<1>5. CASE UNCHANGED vars
  BY <1>5 DEF vars
<1>6. QED
  BY <1>1, <1>2, <1>3, <1>4, <1>5 DEF Next

LEMMA StepKeepsCwd ==
  ASSUME DataInv, NEW P, Hangs(P), [Next]_vars, cwd # NULL, InTree(cwd), ~Reboot,
         ~\E path \in Paths : vfs_resolve(path) = cwd /\ cmd_rm(path)
  PROVE  InTree(cwd)'
<1>1. cwd \in DOMAIN P /\ nodes[cwd].is_dir
  BY TreeHolds DEF InTree, DataInv
<1>2. PICK c \in DOMAIN P : c = cwd
  BY <1>1
<1>3. c \in Node /\ nodes[c].is_dir /\ FileOK(c)
  BY <1>1, <1>2, TreeIn DEF Hangs, DataInv
<1>4. CASE \E path \in Paths : cmd_rm(path)
  <2>1. PICK path \in Paths : cmd_rm(path)
    BY <1>4
  <2>2. PICK n : n = vfs_resolve(path)
    OBVIOUS
  <2>3. n \in Node /\ vfs_unlink(n) /\ cwd' = c
    BY <1>2, <2>1, <2>2, RmIs DEF vfs_unlink
  <2>4. n # c
    BY <1>2, <2>1, <2>2
  <2>5. PICK Q : Hangs(Q)' /\ ((n \notin DOMAIN P /\ Quiet(P, Q)) \/ Shrinks(P, Q, n))
    BY <2>3, UnlinkTree DEF DataInv
  <2>6. c \in DOMAIN Q /\ Contents(c)' = Contents(c)
    BY <2>4, <2>5 DEF Quiet, Shrinks
  <2>7. nodes'[c].is_dir
    BY <1>3, <2>6, StaysDirectory
  <2>8. Types'
    BY <2>1, RmGoes DEF Goes, DataInv
  <2>9. Tree' = DOMAIN Q
    BY <2>5, <2>8, TreeHoldsNext
  <2>10. QED
    BY <2>3, <2>6, <2>7, <2>9 DEF InTree
<1>5. CASE \E path \in Paths : cmd_cd(path)
  <2>1. PICK path \in Paths : cmd_cd(path)
    BY <1>5
  <2>2. PICK n \in Node : n = vfs_resolve(path) /\ nodes[n].is_dir /\ cwd' = n
    BY <2>1, CdIs
  <2>3. Len(path.comps) \in Nat
    BY ResolveType DEF DataInv
  <2>4. Start(path) \in DOMAIN P
    BY <1>1 DEF Start, Hangs
  <2>5. n \in DOMAIN P
    BY <2>2, <2>3, <2>4, WalkInTree, RootIs DEF vfs_resolve, DataInv
  <2>6. n \in Tree' /\ nodes'[n].is_dir
    BY <2>1, <2>2, <2>5, CdStays, StaysInTree
  <2>7. QED
    BY <2>2, <2>6 DEF InTree
<1>6. CASE ~\E path \in Paths : cmd_rm(path) \/ cmd_cd(path)
  <2>1. cwd' = c
    BY <1>2, <1>6, CwdSame
  <2>2. Stays(P)
    BY <1>6, StepStays
  <2>3. c \in Tree' /\ nodes'[c].is_dir
    BY <1>3, <2>2, StaysInTree
  <2>4. QED
    BY <2>1, <2>3 DEF InTree
<1>7. QED
  BY <1>4, <1>5, <1>6

\* The directory the shell is in stays in the tree, whatever is made, written, removed
\* or changed into, until rm is given that very directory: cmd_rm does not look, but
\* vfs_unlink removes no directory with something in it.
THEOREM CwdStays == Spec => CwdKept
<1>1. FilesInv /\ [Next]_vars =>
        (cwd # NULL /\ InTree(cwd) =>
           \/ InTree(cwd)'
           \/ Reboot
           \/ \E path \in Paths : vfs_resolve(path) = cwd /\ cmd_rm(path))
  BY StepKeepsCwd DEF FilesInv, TreeInv
<1>2. QED
  BY FilesStay, <1>1, PTL DEF Spec, CwdKept

-----------------------------------------------------------------------------
(* The invariant of the runs.                                              *)

LEMMA TypesAreOK == Types => TypeOK
<1>1. SUFFICES ASSUME Types
               PROVE  TypeOK
  OBVIOUS
<1>2. \A n \in Node : /\ nodes[n].name \in Names \cup {NULL}
                      /\ nodes[n].parent \in Node \cup {NULL}
                      /\ nodes[n].children \in Seq(Node)
                      /\ nodes[n].cap \in Nat
  <2>1. SUFFICES ASSUME NEW n \in Node
                 PROVE  /\ nodes[n].name \in Names \cup {NULL}
                        /\ nodes[n].parent \in Node \cup {NULL}
                        /\ nodes[n].children \in Seq(Node)
                        /\ nodes[n].cap \in Nat
    OBVIOUS
  <2>2. QED
    BY <1>1, NodeFields
<1>3. QED
  BY <1>1, <1>2 DEF TypeOK, Types

LEMMA TreeIsOK ==
  ASSUME Types, NEW P, Hangs(P)
  PROVE  TreeOK
<1>1. Tree = DOMAIN P
  BY TreeIs
<1>2. ASSUME NEW n \in DOMAIN P
      PROVE  /\ n \in live \cup {Root}
             /\ nodes[n].is_dir \/ nodes[n].children = <<>>
             /\ \A c \in Range(nodes[n].children) : nodes[c].parent = n
             /\ IsInjective(nodes[n].children) /\ IsInjective(cmd_ls(n))
             /\ nodes[n].readonly \/ Len(nodes[n].data) <= nodes[n].cap
  <2>1. /\ n \in live \cup {Root}
        /\ nodes[n].is_dir \/ nodes[n].children = <<>>
        /\ nodes[n].readonly \/ Len(nodes[n].data) <= nodes[n].cap
    BY DEF Hangs, FileOK
  <2>2. Holds(P, n)
    BY DEF Hangs
  <2>3. \A c \in Range(nodes[n].children) : nodes[c].parent = n
    BY <2>2 DEF Holds, Range
  <2>4. IsInjective(cmd_ls(n))
    BY <2>2 DEF Holds, IsInjective, cmd_ls
  <2>5. IsInjective(nodes[n].children)
    BY <2>2 DEF Holds, IsInjective
  <2>6. QED
    BY <2>1, <2>3, <2>4, <2>5
<1>3. QED
  BY <1>1, <1>2 DEF TreeOK

\* What vfs_node_path goes through.
Climbs(up, n, depth) == up[0] = n /\ \A i \in 1 .. depth : up[i] = Parent(up[i - 1])

\* A number of steps up from a node is the node whose path is that much shorter, and the
\* root from there on.
OnWay(P, up, n, i) ==
  IF i <= Len(P[n])
  THEN /\ up[i] \in DOMAIN P /\ Len(P[up[i]]) = Len(P[n]) - i
       /\ \A j \in 1 .. Len(P[n]) - i : P[up[i]][j] = P[n][j]
  ELSE up[i] = Root

LEMMA RootOnly ==
  ASSUME Types, NEW P, Hangs(P), NEW n \in DOMAIN P
  PROVE  Len(P[n]) \in Nat /\ (Len(P[n]) = 0 <=> n = Root)
<1>1. \A m \in DOMAIN P : Len(P[m]) \in Nat
  BY TreeIn
<1>2. ASSUME n # Root
      PROVE  Len(P[n]) # 0
  <2>1. nodes[n].parent \in DOMAIN P /\ Len(P[n]) = Len(P[nodes[n].parent]) + 1
    BY <1>2, HungIs
  <2>2. QED
    BY <1>1, <2>1
<1>3. P[Root] = <<>>
  BY DEF Hangs
<1>4. QED
  BY <1>1, <1>2, <1>3, NoneListed

LEMMA WayUp ==
  ASSUME Types, NEW P, Hangs(P), NEW n \in DOMAIN P, NEW depth \in Nat, NEW up,
         Climbs(up, n, depth)
  PROVE  \A i \in 0 .. depth : OnWay(P, up, n, i)
<1> DEFINE T == {k \in Nat : k <= depth => OnWay(P, up, n, k)}
<1>1. /\ up[0] = n /\ \A i \in 1 .. depth : up[i] = Parent(up[i - 1])
      /\ Len(P[n]) \in Nat /\ \A m \in DOMAIN P : P[m] \in Seq(Names) /\ Len(P[m]) \in Nat
  BY TreeIn DEF Climbs
<1>2. 0 \in T
  BY <1>1 DEF OnWay
<1>3. ASSUME NEW k \in Nat, k \in T
      PROVE  k + 1 \in T
  <2>1. SUFFICES ASSUME k + 1 <= depth
                 PROVE  OnWay(P, up, n, k + 1)
    OBVIOUS
  <2>2. k + 1 \in 1 .. depth /\ k + 1 - 1 = k /\ k <= depth
    BY <2>1
  <2>3. OnWay(P, up, n, k) /\ up[k + 1] = Parent(up[k])
    BY <1>1, <1>3, <2>2
  <2>4. CASE k + 1 <= Len(P[n])
    <3>1. /\ up[k] \in DOMAIN P /\ Len(P[up[k]]) = Len(P[n]) - k
          /\ \A j \in 1 .. Len(P[n]) - k : P[up[k]][j] = P[n][j]
      BY <1>1, <2>3, <2>4 DEF OnWay
    <3>2. up[k] # Root
      BY <1>1, <2>4, <3>1, RootOnly
    <3>3. PICK p : p = nodes[up[k]].parent
      OBVIOUS
    <3>4. PICK name : name = nodes[up[k]].name
      OBVIOUS
    <3>5. /\ p \in DOMAIN P /\ p # NULL /\ name \in Names
          /\ P[up[k]] = Append(P[p], name) /\ Len(P[up[k]]) = Len(P[p]) + 1
      BY <3>1, <3>2, <3>3, <3>4, HungIs
    <3>6. up[k + 1] = p
      BY <2>3, <3>3, <3>5 DEF Parent
    <3>7. Len(P[p]) = Len(P[n]) - (k + 1)
      BY <1>1, <3>1, <3>5
    <3>8. \A j \in 1 .. Len(P[p]) : P[p][j] = P[up[k]][j]
      BY <1>1, <3>5, AppendProperties
    <3>9. ASSUME NEW j \in 1 .. Len(P[n]) - (k + 1)
          PROVE  P[p][j] = P[n][j]
      <4>1. j \in 1 .. Len(P[p]) /\ j \in 1 .. Len(P[n]) - k
        BY <1>1, <3>7
      <4>2. QED
        BY <3>1, <3>8, <4>1
    <3>10. QED
      BY <2>4, <3>5, <3>6, <3>7, <3>9 DEF OnWay
  <2>5. CASE ~(k + 1 <= Len(P[n]))
    <3>1. up[k] = Root
      <4>1. CASE k <= Len(P[n])
        <5>1. up[k] \in DOMAIN P /\ Len(P[up[k]]) = 0
          BY <1>1, <2>3, <2>5, <4>1 DEF OnWay
        <5>2. QED
          BY <5>1, RootOnly
      <4>2. QED
        BY <2>3, <4>1 DEF OnWay
    <3>2. Parent(Root) = Root
      BY DEF Hangs, Parent
    <3>3. QED
      BY <2>3, <2>5, <3>1, <3>2 DEF OnWay
  <2>6. QED
    BY <2>4, <2>5
<1> HIDE DEF T
<1>4. \A k \in Nat : k \in T
  BY <1>2, <1>3, AllNumbers
<1>5. QED
  BY <1>4 DEF T

\* vfs_node_path gives the path of a node of the tree that is not deeper than it goes.
LEMMA NodePathIs ==
  ASSUME Types, NEW P, Hangs(P), NEW n \in DOMAIN P, NEW depth \in Nat, NEW room \in Nat,
         Len(P[n]) <= depth, Len(P[n]) <= room
  PROVE  vfs_node_path(n, depth, room) = [abs |-> TRUE, comps |-> P[n]]
<1> DEFINE On == [x \in Node \X Nat |-> Parent(x[1])]
           Ups(g) == g = [i \in 0 .. depth |-> IF i = 0 THEN n ELSE Parent(g[i - 1])]
           up == CHOOSE g : Ups(g)
           named == {i \in 0 .. (depth - 1) : nodes[up[i]].parent # NULL}
           len == Cardinality(named)
           comps == [i \in 1 .. (IF len < room THEN len ELSE room) |-> nodes[up[len - i]].name]
<1>1. vfs_node_path(n, depth, room) = [abs |-> TRUE, comps |-> comps]
  BY DEF vfs_node_path
<1>2. n \in Node /\ Len(P[n]) \in Nat /\ P[n] \in Seq(Names)
  BY TreeIn
<1>3. \E g : Ups(g)
  <2>1. On \in [Node \X Nat -> Node]
    BY NodeFields
  <2> HIDE DEF On
  <2>2. PICK f \in [0 .. depth -> Node] : Solves(f, n, On, depth)
    BY <1>2, <2>1, Iterates
  <2>3. f[0] = n /\ \A i \in 1 .. depth : f[i] = On[<<f[i - 1], i>>]
    BY <2>2 DEF Solves
  <2> USE DEF On
  <2>4. ASSUME NEW i \in 0 .. depth
        PROVE  f[i] = IF i = 0 THEN n ELSE Parent(f[i - 1])
    <3>1. CASE i = 0
      BY <2>3, <3>1
    <3>2. CASE i # 0
      <4>1. i \in 1 .. depth /\ i - 1 \in 0 .. depth /\ i \in Nat
        BY <3>2
      <4>2. f[i - 1] \in Node
        BY <4>1
      <4>3. QED
        BY <2>3, <3>2, <4>1, <4>2
    <3>3. QED
      BY <3>1, <3>2
  <2>5. Ups(f)
    BY <2>4
  <2> HIDE DEF Ups
  <2>6. QED
    BY <2>5
<1>4. Ups(up)
  <2> HIDE DEF Ups
  <2>1. QED
    BY <1>3
<1> HIDE DEF up
<1>5. \A i \in 0 .. depth : up[i] = IF i = 0 THEN n ELSE Parent(up[i - 1])
  BY <1>4
<1>6. Climbs(up, n, depth)
  <2>1. 0 \in 0 .. depth /\ \A i \in 1 .. depth : i \in 0 .. depth /\ i # 0
    OBVIOUS
  <2>2. QED
    BY <1>5, <2>1 DEF Climbs
<1>7. \A i \in 0 .. depth : OnWay(P, up, n, i)
  BY <1>6, WayUp
<1>8. named = 0 .. Len(P[n]) - 1
  <2>1. ASSUME NEW i \in 0 .. depth - 1, i < Len(P[n])
        PROVE  nodes[up[i]].parent # NULL
    <3>1. up[i] \in DOMAIN P /\ Len(P[up[i]]) = Len(P[n]) - i
      <4>1. i \in 0 .. depth /\ i <= Len(P[n])
        BY <1>2, <2>1
      <4>2. OnWay(P, up, n, i)
        BY <1>7, <4>1
      <4>3. QED
        BY <4>1, <4>2 DEF OnWay
    <3>2. up[i] # Root
      BY <1>2, <2>1, <3>1, RootOnly
    <3>3. QED
      BY <3>1, <3>2, HungIs
  <2>2. ASSUME NEW i \in 0 .. depth - 1, ~(i < Len(P[n]))
        PROVE  nodes[up[i]].parent = NULL
    <3>1. up[i] = Root
      <4>1. CASE i = Len(P[n])
        <5>1. up[i] \in DOMAIN P /\ Len(P[up[i]]) = 0
          BY <1>2, <1>7, <4>1 DEF OnWay
        <5>2. QED
          BY <5>1, RootOnly
      <4>2. CASE i # Len(P[n])
        BY <1>2, <1>7, <2>2, <4>2 DEF OnWay
      <4>3. QED
        BY <4>1, <4>2
    <3>2. QED
      BY <3>1 DEF Hangs
  <2>3. \A i \in 0 .. Len(P[n]) - 1 : i \in 0 .. depth - 1 /\ i < Len(P[n])
    BY <1>2
  <2>4. \A i \in 0 .. depth - 1 : i < Len(P[n]) => i \in 0 .. Len(P[n]) - 1
    BY <1>2
  <2>5. QED
    BY <2>1, <2>2, <2>3, <2>4
<1> HIDE DEF named
<1>9. len = Len(P[n])
  <2>1. 0 \in Int /\ Len(P[n]) - 1 \in Int
    BY <1>2
  <2>2. Cardinality(0 .. Len(P[n]) - 1) =
          IF 0 > Len(P[n]) - 1 THEN 0 ELSE (Len(P[n]) - 1) - 0 + 1
    BY <2>1, FS_Interval
  <2>3. Cardinality(0 .. Len(P[n]) - 1) = Len(P[n])
    BY <1>2, <2>2
  <2>4. QED
    BY <1>8, <2>3
<1> HIDE DEF len
<1>10. comps = [i \in 1 .. Len(P[n]) |-> nodes[up[Len(P[n]) - i]].name]
  <2>1. (IF len < room THEN len ELSE room) = Len(P[n])
    BY <1>2, <1>9
  <2>2. QED
    BY <1>9, <2>1
<1> HIDE DEF comps
<1>11. ASSUME NEW i \in 1 .. Len(P[n])
       PROVE  nodes[up[Len(P[n]) - i]].name = P[n][i]
  <2>1. PICK k \in 0 .. depth : k = Len(P[n]) - i /\ k <= Len(P[n])
    <3>1. Len(P[n]) - i \in 0 .. depth /\ Len(P[n]) - i <= Len(P[n])
      BY <1>2
    <3>2. QED
      BY <3>1
  <2>2. /\ up[k] \in DOMAIN P /\ Len(P[up[k]]) = i
        /\ \A j \in 1 .. i : P[up[k]][j] = P[n][j]
    <3>1. Len(P[n]) - k = i
      BY <1>2, <2>1
    <3>2. QED
      BY <1>7, <2>1, <3>1 DEF OnWay
  <2>3. up[k] # Root
    BY <2>2, RootOnly
  <2>4. /\ nodes[up[k]].parent \in DOMAIN P /\ nodes[up[k]].name \in Names
        /\ P[up[k]] = Append(P[nodes[up[k]].parent], nodes[up[k]].name)
        /\ Len(P[up[k]]) = Len(P[nodes[up[k]].parent]) + 1
    BY <2>2, <2>3, HungIs
  <2>5. P[nodes[up[k]].parent] \in Seq(Names)
    BY <2>4, TreeIn
  <2>6. P[up[k]][i] = nodes[up[k]].name
    BY <2>2, <2>4, <2>5, AppendProperties
  <2>7. i \in 1 .. i
    OBVIOUS
  <2>8. QED
    BY <2>1, <2>2, <2>6, <2>7
<1>12. comps = [i \in 1 .. Len(P[n]) |-> P[n][i]]
  BY <1>10, <1>11
<1>13. P[n] = [i \in 1 .. Len(P[n]) |-> P[n][i]]
  BY <1>2
<1>14. QED
  BY <1>1, <1>12, <1>13

\* A directory finds a child under its name.
LEMMA ChildFound ==
  ASSUME Types, NEW P, Hangs(P), NEW y \in DOMAIN P, y # Root
  PROVE  /\ dir_find(nodes[y].parent, nodes[y].name) = y
         /\ nodes[nodes[y].parent].is_dir
<1>1. PICK p : p = nodes[y].parent
  OBVIOUS
<1>2. /\ p \in DOMAIN P /\ nodes[y].name \in Names
      /\ \E i \in DOMAIN nodes[p].children : nodes[p].children[i] = y
  BY <1>1, HungIs
<1>3. p \in Node /\ Holds(P, p) /\ FileOK(p)
  BY <1>2, TreeIn DEF Hangs
<1>4. nodes[p].is_dir
  <2>1. nodes[p].children # <<>>
    BY <1>2
  <2>2. QED
    BY <1>3, <2>1 DEF FileOK
<1>5. PICK name : name = nodes[y].name
  OBVIOUS
<1>6. PICK j \in DOMAIN nodes[p].children : nodes[p].children[j] = y
  BY <1>2
<1>7. PICK i \in DOMAIN nodes[p].children :
        dir_find(p, name) = nodes[p].children[i] /\ nodes[nodes[p].children[i]].name = name
  BY <1>3, <1>5, <1>6, DirFindIs
<1>8. i = j
  BY <1>3, <1>5, <1>6, <1>7 DEF Holds
<1>9. QED
  BY <1>1, <1>4, <1>5, <1>6, <1>7, <1>8

\* The path of a node of the tree leads from the root to it.
LEMMA PathLeads ==
  ASSUME Types, NEW P, Hangs(P), NEW n \in DOMAIN P, NEW path,
         path.abs, path.comps = P[n]
  PROVE  vfs_resolve(path) = n
<1>1. P[n] \in Seq(Names) /\ Len(P[n]) \in Nat
      /\ \A m \in DOMAIN P : P[m] \in Seq(Names) /\ Len(P[m]) \in Nat
  BY TreeIn
<1>2. PICK last \in Nat : last = Len(P[n])
  BY <1>1
<1>3. PICK w : Walked(w, path, last)
  BY WalkIs
<1>4. /\ w[0] = Root /\ Walk(path, last) = w[last]
      /\ \A i \in 1 .. last : w[i] = Next_of(w[i - 1], P[n][i], i = 1)
  BY <1>3 DEF Walked, Start
<1> DEFINE Fits(y, k) == Len(P[y]) = k /\ \A j \in 1 .. k : P[y][j] = P[n][j]
           T == {k \in Nat : k <= last => \A y \in DOMAIN P : Fits(y, k) => w[k] = y}
<1>5. 0 \in T
  <2>1. ASSUME NEW y \in DOMAIN P, Len(P[y]) = 0
        PROVE  y = Root
    BY <2>1, RootOnly
  <2>2. QED
    BY <1>4, <2>1
<1>6. ASSUME NEW k \in Nat, k \in T
      PROVE  k + 1 \in T
  <2>1. SUFFICES ASSUME k + 1 <= last, NEW y \in DOMAIN P, Fits(y, k + 1)
                 PROVE  w[k + 1] = y
    OBVIOUS
  <2>2. k + 1 \in 1 .. last /\ k + 1 - 1 = k /\ k <= last
    BY <2>1
  <2>3. y # Root
    BY <2>1, RootOnly
  <2>4. PICK p : p = nodes[y].parent
    OBVIOUS
  <2>5. PICK name : name = nodes[y].name
    OBVIOUS
  <2>6. /\ p \in DOMAIN P /\ p # NULL /\ name \in Names
        /\ P[y] = Append(P[p], name) /\ Len(P[y]) = Len(P[p]) + 1
    BY <2>3, <2>4, <2>5, HungIs
  <2>7. Len(P[p]) = k
    BY <1>1, <2>1, <2>6
  <2>8. P[y][k + 1] = name /\ \A j \in 1 .. k : P[y][j] = P[p][j]
    BY <1>1, <2>6, <2>7, AppendProperties
  <2>9. Fits(p, k)
    <3>1. ASSUME NEW j \in 1 .. k
          PROVE  P[p][j] = P[n][j]
      <4>1. j \in 1 .. k + 1
        OBVIOUS
      <4>2. QED
        BY <2>1, <2>8, <4>1
    <3>2. QED
      BY <2>7, <3>1
  <2>10. w[k] = p
    BY <1>6, <2>2, <2>6, <2>9
  <2>11. P[n][k + 1] = name
    <3>1. k + 1 \in 1 .. k + 1
      OBVIOUS
    <3>2. QED
      BY <2>1, <2>8, <3>1
  <2>12. dir_find(p, name) = y /\ nodes[p].is_dir
    BY <2>3, <2>4, <2>5, ChildFound
  <2>13. name # "." /\ name # ".."
    BY <2>6, VfsAssumption
  <2>14. w[k + 1] = Next_of(p, name, k + 1 = 1)
    BY <1>4, <2>2, <2>10, <2>11
  <2>15. QED
    BY <2>6, <2>12, <2>13, <2>14 DEF Next_of
<1> HIDE DEF T
<1>7. last \in T
  BY <1>5, <1>6, AllNumbers
<1>8. w[last] = n
  <2>1. Fits(n, last)
    BY <1>2
  <2>2. QED
    BY <1>7, <2>1 DEF T
<1>9. vfs_resolve(path) = Walk(path, last)
  BY <1>2 DEF vfs_resolve
<1>10. QED
  BY <1>4, <1>8, <1>9

LEMMA PathsAreTrue ==
  ASSUME Types, NEW P, Hangs(P)
  PROVE  PathTruth
<1>1. PATH_DEPTH \in Nat /\ PATH_ROOM \in Nat
  BY FilesAssumption
<1>2. ASSUME NEW n \in DOMAIN P, n = cwd, Len(P[n]) <= PATH_DEPTH, Len(P[n]) <= PATH_ROOM
      PROVE  vfs_resolve(cmd_pwd) = cwd
  <2>1. cmd_pwd = [abs |-> TRUE, comps |-> P[n]]
    BY <1>1, <1>2, NodePathIs DEF cmd_pwd
  <2>2. PICK path : path = [abs |-> TRUE, comps |-> P[n]]
    OBVIOUS
  <2>3. path.abs /\ path.comps = P[n]
    BY <2>2
  <2>4. vfs_resolve(path) = n
    BY <2>3, PathLeads
  <2>5. QED
    BY <1>2, <2>1, <2>2, <2>4
<1>3. ASSUME NEW place \in Places
      PROVE  place[2] = cwd /\ Len(place[1]) <= PATH_DEPTH /\ Len(place[1]) <= PATH_ROOM =>
               vfs_resolve(cmd_pwd) = cwd
  <2>1. PICK n \in DOMAIN P : place = <<P[n], n>>
    BY PlacesAre
  <2>2. place[1] = P[n] /\ place[2] = n
    BY <2>1
  <2>3. QED
    BY <1>2, <2>2
<1>4. QED
  BY <1>3 DEF PathTruth

\* The nodes that hang below the root are allocated and linked as a tree, with one name
\* for each child of a directory and no file longer than its buffer, and the path that
\* pwd and the prompt show leads back to the current directory.
THEOREM NodesAreATree == Spec => []Inv
<1>1. FilesInv => Inv
  BY TypesAreOK, TreeIsOK, PathsAreTrue DEF FilesInv, DataInv, TreeInv, Inv
<1>2. QED
  BY FilesStay, <1>1, PTL

-----------------------------------------------------------------------------
(* What a write leaves.                                                    *)

\* The offset moves, and a write fails, only while a file is worked on.
OffInv == off # 0 \/ missed => at # NULL /\ (todo = <<>> \/ OfFile(Head(todo)))

\* The shell starts when everything is loaded, and then commands come.
ShellInv == (cwd # NULL => boot = <<>>) /\ (asked # None => cwd # NULL)

Calm == OffInv /\ ShellInv

LEMMA RequestedCalm ==
  ASSUME DataInv, Calm, Requested
  PROVE  Calm'
<1>1. boot' = boot /\ asked' = asked
  BY DEF Requested
<1>2. cwd' = cwd /\ todo # <<>>
  BY DEF Requested, Enter, MakeFile, TruncateFile, vfs_write, register_module_file, Doing
<1>3. CASE Enter \/ MakeFile
  <2>1. ~OfFile(Head(todo)) /\ off' = off /\ missed' = missed
    BY <1>3 DEF Enter, MakeFile, Doing, OfFile
  <2>2. off' = 0 /\ ~missed'
    BY <1>2, <2>1 DEF Calm, OffInv
  <2>3. QED
    BY <1>1, <1>2, <2>2 DEF Calm, OffInv, ShellInv
<1>4. CASE TruncateFile \/ vfs_write \/ register_module_file
  <2>1. OfFile(Head(todo)) /\ at' = at /\ todo' = Tail(todo)
    BY <1>4 DEF TruncateFile, vfs_write, register_module_file, Doing, OfFile
  <2>2. at # NULL
    BY <1>2, RootIs DEF DataInv, TodoInv
  <2>3. Tail(todo) # <<>> => OfFile(Head(Tail(todo)))
    BY <1>2, <2>1, ListedTail DEF DataInv, TodoInv
  <2>4. QED
    BY <1>1, <1>2, <2>1, <2>2, <2>3 DEF Calm, OffInv, ShellInv
<1>5. QED
  BY <1>3, <1>4 DEF Requested

LEMMA StepCalm ==
  ASSUME DataInv, Calm, [Next]_vars
  PROVE  Calm'
<1>1. CASE LoadEntry
  <2>1. /\ at = NULL /\ off' = off /\ missed' = missed /\ cwd' = cwd /\ asked' = asked
        /\ boot # <<>>
    BY <1>1 DEF LoadEntry
  <2>2. QED
    BY <2>1 DEF Calm, OffInv, ShellInv
<1>2. CASE Return
  <2>1. off' = 0 /\ missed' = FALSE /\ cwd' = cwd /\ asked' = None /\ boot' = boot
    BY <1>2 DEF Return
  <2>2. QED
    BY <2>1 DEF Calm, OffInv, ShellInv
<1>3. CASE shell_init
  <2>1. /\ at = NULL /\ off' = off /\ missed' = missed /\ boot = <<>> /\ cwd = NULL
        /\ boot' = boot /\ asked' = asked
    BY <1>3 DEF shell_init, request
  <2>2. QED
    BY <2>1 DEF Calm, OffInv, ShellInv
<1>4. CASE Requested
  BY <1>4, RequestedCalm
<1>5. CASE \E path \in Paths, words \in Lines : cmd_write(path, words)
  <2>1. /\ at = NULL /\ off' = off /\ missed' = missed /\ cwd # NULL /\ cwd' = cwd
        /\ boot' = boot
    BY <1>5 DEF cmd_write, Prompt
  <2>2. QED
    BY <2>1 DEF Calm, OffInv, ShellInv
<1>6. CASE \E path \in Paths : cmd_mkdir(path)
  <2>1. /\ at = NULL /\ off' = off /\ missed' = missed /\ cwd' = cwd /\ asked' = asked
        /\ boot' = boot
    BY <1>6 DEF cmd_mkdir, Prompt
  <2>2. QED
    BY <2>1 DEF Calm, OffInv, ShellInv
<1>7. CASE \E path \in Paths : cmd_rm(path)
  <2>1. /\ at = NULL /\ off' = off /\ missed' = missed /\ cwd' = cwd /\ asked' = asked
        /\ boot' = boot
    BY <1>7 DEF cmd_rm, Prompt, request
  <2>2. QED
    BY <2>1 DEF Calm, OffInv, ShellInv
<1>8. CASE \E path \in Paths : cmd_cd(path)
  <2>1. /\ at = NULL /\ off' = off /\ missed' = missed /\ cwd # NULL /\ asked = None
        /\ asked' = asked /\ boot' = boot
    BY <1>8 DEF cmd_cd, Prompt, request
  <2>2. QED
    BY <2>1 DEF Calm, OffInv, ShellInv
<1>9. CASE Reboot
  <2>1. /\ at = NULL /\ off' = off /\ missed' = missed /\ cwd' = NULL /\ asked = None
        /\ asked' = asked
    BY <1>9 DEF Reboot, Prompt, request
  <2>2. QED
    BY <2>1 DEF Calm, OffInv, ShellInv
<1>10. CASE UNCHANGED vars
  BY <1>10 DEF vars, request, Calm, OffInv, ShellInv
<1>11. QED
  BY <1>1, <1>2, <1>3, <1>4, <1>5, <1>6, <1>7, <1>8, <1>9, <1>10 DEF Next

\* The pieces of a line, put together one after another.
Flat(words, flat) ==
  /\ flat \in [0 .. Len(Pieces(words)) -> Seq(Nat)]
  /\ flat[0] = <<>>
  /\ \A i \in 1 .. Len(Pieces(words)) : flat[i] = flat[i - 1] \o Pieces(words)[i]
  /\ flat[Len(Pieces(words))] = Text(words)

LEMMA FlatIs ==
  ASSUME NEW words \in Lines
  PROVE  \E flat : Flat(words, flat)
<1> DEFINE p == Pieces(words)
           last == Len(p)
           S == Seq(Nat)
           On == [x \in S \X Nat |-> IF x[2] \in 1 .. last THEN x[1] \o p[x[2]] ELSE x[1]]
           Flattens(g) == g = [i \in 1 .. last |-> IF i = 1 THEN p[i] ELSE g[i - 1] \o p[i]]
           flatten == CHOOSE g : Flattens(g)
<1>1. p \in Seq(S) /\ last \in Nat /\ last # 0 /\ \A i \in 1 .. last : p[i] \in S
  <2>1. p \in Seq(S) /\ last = 2 * Len(words) /\ Len(words) \in Nat \ {0}
    BY PiecesAre
  <2>2. \A i \in 1 .. last : p[i] \in S
    BY <2>1, ElementOfSeq
  <2>3. QED
    BY <2>1, <2>2
<1>2. Text(words) = flatten[last]
  BY <1>1 DEF Text, FlattenSeq
<1> HIDE DEF p, last
<1>3. PICK flat \in [0 .. last -> S] : Solves(flat, <<>>, On, last)
  <2>1. <<>> \in S
    BY EmptySeq
  <2>2. On \in [S \X Nat -> S]
    <3>1. ASSUME NEW x \in S \X Nat
          PROVE  (IF x[2] \in 1 .. last THEN x[1] \o p[x[2]] ELSE x[1]) \in S
      <4>1. CASE x[2] \in 1 .. last
        <5>1. x[1] \in S /\ p[x[2]] \in S
          BY <1>1, <4>1
        <5>2. x[1] \o p[x[2]] \in S
          BY <5>1, ConcatProperties
        <5>3. QED
          BY <4>1, <5>2
      <4>2. QED
        BY <4>1
    <3>2. QED
      BY <3>1
  <2> HIDE DEF On, S
  <2>3. QED
    BY <1>1, <2>1, <2>2, Iterates
<1>4. flat[0] = <<>> /\ \A i \in 1 .. last : flat[i] = flat[i - 1] \o p[i]
  <2>1. flat[0] = <<>> /\ \A i \in 1 .. last : flat[i] = On[<<flat[i - 1], i>>]
    BY <1>3 DEF Solves
  <2>2. ASSUME NEW i \in 1 .. last
        PROVE  On[<<flat[i - 1], i>>] = flat[i - 1] \o p[i]
    <3>1. i - 1 \in 0 .. last /\ i \in Nat
      BY <1>1
    <3>2. flat[i - 1] \in S
      BY <3>1
    <3> HIDE DEF S
    <3>3. QED
      BY <3>1, <3>2
  <2>3. QED
    BY <2>1, <2>2
<1>5. \A i \in 1 .. last : flat[i] = IF i = 1 THEN p[i] ELSE flat[i - 1] \o p[i]
  <2>1. ASSUME NEW i \in 1 .. last
        PROVE  flat[i] = IF i = 1 THEN p[i] ELSE flat[i - 1] \o p[i]
    <3>1. CASE i = 1
      <4>0. i - 1 = 0
        BY <3>1
      <4>1. p[i] \in S /\ flat[i] = flat[i - 1] \o p[i] /\ i - 1 = 0
        BY <1>1, <1>4, <4>0
      <4>a. flat[i] = <<>> \o p[i]
        BY <1>4, <4>1
      <4>2. QED
        BY <3>1, <4>1, <4>a, ConcatEmptySeq
    <3>2. CASE i # 1
      BY <1>4, <3>2
    <3>3. QED
      BY <3>1, <3>2
  <2>2. QED
    BY <2>1
<1>6. PICK g : g = [i \in 1 .. last |-> flat[i]]
  OBVIOUS
<1>7. Flattens(g)
  <2>1. ASSUME NEW i \in 1 .. last
        PROVE  flat[i] = IF i = 1 THEN p[i] ELSE g[i - 1] \o p[i]
    <3>1. i # 1 => i - 1 \in 1 .. last
      BY <1>1
    <3>2. i # 1 => g[i - 1] = flat[i - 1]
      BY <1>6, <3>1
    <3>3. QED
      BY <1>5, <3>2
  <2>2. QED
    BY <1>6, <2>1
<1>8. Flattens(flatten)
  <2> HIDE DEF Flattens
  <2>1. QED
    BY <1>7
<1> HIDE DEF flatten
<1>9. \A i \in 1 .. last : flatten[i] = IF i = 1 THEN p[i] ELSE flatten[i - 1] \o p[i]
  BY <1>8
<1> DEFINE T == {k \in Nat : k \in 1 .. last => flatten[k] = flat[k]}
<1>10. 0 \in T
  OBVIOUS
<1>11. ASSUME NEW k \in Nat, k \in T
       PROVE  k + 1 \in T
  <2>1. SUFFICES ASSUME k + 1 \in 1 .. last
                 PROVE  flatten[k + 1] = flat[k + 1]
    OBVIOUS
  <2>2. CASE k = 0
    BY <1>5, <1>9, <2>1, <2>2
  <2>3. CASE k # 0
    <3>1. k \in 1 .. last /\ k + 1 - 1 = k /\ k + 1 # 1
      BY <1>1, <2>1, <2>3
    <3>2. flatten[k] = flat[k]
      BY <1>11, <3>1
    <3>3. QED
      BY <1>5, <1>9, <2>1, <3>1, <3>2
  <2>4. QED
    BY <2>2, <2>3
<1> HIDE DEF T
<1>12. last \in T
  BY <1>1, <1>10, <1>11, AllNumbers
<1>13. flat[last] = Text(words)
  <2>1. last \in 1 .. last
    BY <1>1
  <2>2. QED
    BY <1>2, <1>12, <2>1 DEF T
<1>14. QED
  BY <1>4, <1>13 DEF Flat, p, last

\* What is put together first stays in front.
LEMMA FlatFront ==
  ASSUME NEW words \in Lines, NEW flat, Flat(words, flat),
         NEW k \in 0 .. Len(Pieces(words))
  PROVE  /\ flat[k] \in Seq(Nat) /\ Len(flat[k]) \in Nat /\ Text(words) \in Seq(Nat)
         /\ Len(flat[k]) <= Len(Text(words)) /\ Len(Text(words)) \in Nat
         /\ \A i \in 1 .. Len(flat[k]) : flat[k][i] = Text(words)[i]
<1>1. PICK last \in Nat : last = Len(Pieces(words))
  BY PiecesAre
<1>2. /\ flat \in [0 .. last -> Seq(Nat)] /\ flat[last] = Text(words)
      /\ \A i \in 1 .. last : flat[i] = flat[i - 1] \o Pieces(words)[i]
  BY <1>1 DEF Flat
<1>3. \A i \in 0 .. last : flat[i] \in Seq(Nat) /\ Len(flat[i]) \in Nat
  BY <1>2, LenProperties
<1> DEFINE Fronts(j) == /\ Len(flat[k]) <= Len(flat[j])
                        /\ \A i \in 1 .. Len(flat[k]) : flat[k][i] = flat[j][i]
           T == {d \in Nat : k + d <= last => Fronts(k + d)}
<1>4. 0 \in T
  BY <1>1, <1>3
<1>5. ASSUME NEW d \in Nat, d \in T
      PROVE  d + 1 \in T
  <2>1. SUFFICES ASSUME k + (d + 1) <= last
                 PROVE  Fronts(k + (d + 1))
    OBVIOUS
  <2>2. PICK j \in 1 .. last : j = k + (d + 1) /\ j - 1 = k + d /\ j - 1 \in 0 .. last /\ j \in 0 .. last
    BY <1>1, <2>1
  <2>3. Fronts(j - 1)
    BY <1>1, <1>5, <2>2
  <2>4. Pieces(words)[j] \in Seq(Nat)
    BY <1>1, <2>2, PiecesAre, ElementOfSeq
  <2>5. flat[j - 1] \in Seq(Nat) /\ flat[j] = flat[j - 1] \o Pieces(words)[j]
    BY <1>2, <2>2
  <2>6. /\ Len(flat[j]) = Len(flat[j - 1]) + Len(Pieces(words)[j])
        /\ Len(Pieces(words)[j]) \in Nat
        /\ \A i \in 1 .. Len(flat[j - 1]) : flat[j][i] = flat[j - 1][i]
    <3>1. PICK a \in Seq(Nat) : a = flat[j - 1]
      BY <2>5
    <3>2. PICK b \in Seq(Nat) : b = Pieces(words)[j]
      BY <2>4
    <3>3. /\ Len(a \o b) = Len(a) + Len(b) /\ Len(a) \in Nat /\ Len(b) \in Nat
          /\ \A i \in 1 .. Len(a) + Len(b) : (a \o b)[i] = IF i <= Len(a) THEN a[i] ELSE b[i - Len(a)]
      BY ConcatProperties, LenProperties
    <3>4. \A i \in 1 .. Len(a) : i \in 1 .. Len(a) + Len(b) /\ i <= Len(a)
      BY <3>3
    <3>5. \A i \in 1 .. Len(a) : (a \o b)[i] = a[i]
      BY <3>3, <3>4
    <3>6. QED
      BY <2>5, <3>1, <3>2, <3>3, <3>5
  <2>7. k \in 0 .. last /\ Len(flat[k]) \in Nat /\ Len(flat[j - 1]) \in Nat /\ Len(flat[j]) \in Nat
    BY <1>1, <1>3, <2>2
  <2>8. ASSUME NEW i \in 1 .. Len(flat[k])
        PROVE  flat[k][i] = flat[j][i]
    <3>1. i \in 1 .. Len(flat[j - 1])
      BY <2>3, <2>7
    <3>2. QED
      BY <2>3, <2>6, <3>1
  <2>9. Len(flat[k]) <= Len(flat[j])
    <3>1. Len(flat[k]) <= Len(flat[j - 1])
      BY <2>3
    <3>2. Len(flat[j]) = Len(flat[j - 1]) + Len(Pieces(words)[j]) /\ Len(Pieces(words)[j]) \in Nat
      BY <2>6
    <3>3. \A x, y, v \in Nat : x <= y => x <= y + v
      OBVIOUS
    <3>4. Len(flat[k]) <= Len(flat[j - 1]) + Len(Pieces(words)[j])
      BY <2>7, <3>1, <3>2, <3>3
    <3>5. QED
      BY <3>2, <3>4
  <2>10. Fronts(j)
    BY <2>8, <2>9
  <2>11. QED
    BY <2>2, <2>10
<1> HIDE DEF T
<1>6. last - k \in Nat /\ k + (last - k) = last /\ last - k \in T
  <2>1. last - k \in Nat /\ k + (last - k) = last
    BY <1>1
  <2>2. QED
    BY <1>4, <1>5, <2>1, AllNumbers
<1>7. Fronts(last)
  BY <1>6 DEF T
<1>8. k \in 0 .. last /\ last \in 0 .. last
  BY <1>1
<1>9. QED
  BY <1>2, <1>3, <1>7, <1>8

\* Where component i of a path leads from a node.
Leads(cur, path, i) == Next_of(cur, path.comps[i], i = 1)

LEMMA WalkHolds ==
  \A path, last : Types /\ last \in Nat => \E w : Walked(w, path, last)
BY WalkIs

LEMMA WalkHoldsNext ==
  (\A path, last : Types /\ last \in Nat => \E w : Walked(w, path, last))'
BY WalkHolds, PTL

LEMMA DirFindHolds ==
  \A d, name : Types /\ d \in Node =>
    \/ /\ dir_find(d, name) = NULL
       /\ \A i \in DOMAIN nodes[d].children : nodes[nodes[d].children[i]].name # name
    \/ \E i \in DOMAIN nodes[d].children :
         /\ dir_find(d, name) = nodes[d].children[i]
         /\ nodes[nodes[d].children[i]].name = name
BY DirFindIs

LEMMA DirFindHoldsNext ==
  (\A d, name : Types /\ d \in Node =>
    \/ /\ dir_find(d, name) = NULL
       /\ \A i \in DOMAIN nodes[d].children : nodes[nodes[d].children[i]].name # name
    \/ \E i \in DOMAIN nodes[d].children :
         /\ dir_find(d, name) = nodes[d].children[i]
         /\ nodes[nodes[d].children[i]].name = name)'
BY DirFindHolds, PTL

\* A path is walked component by component.
LEMMA WalkStep ==
  ASSUME Types, NEW path, NEW k \in Nat
  PROVE  Walk(path, k + 1) = Leads(Walk(path, k), path, k + 1)
<1>1. PICK last \in Nat : last = k + 1
  OBVIOUS
<1>2. PICK v : Walked(v, path, k)
  BY WalkIs
<1>3. PICK w : Walked(w, path, last)
  BY WalkIs
<1>4. /\ v[0] = Start(path) /\ Walk(path, k) = v[k]
      /\ \A i \in 1 .. k : v[i] = Leads(v[i - 1], path, i)
  BY <1>2 DEF Walked, Leads
<1>5. /\ w[0] = Start(path) /\ Walk(path, last) = w[last]
      /\ \A i \in 1 .. last : w[i] = Leads(w[i - 1], path, i)
  BY <1>3 DEF Walked, Leads
<1> DEFINE T == {j \in Nat : j <= k => w[j] = v[j]}
<1>6. 0 \in T
  BY <1>4, <1>5
<1>7. ASSUME NEW j \in Nat, j \in T
      PROVE  j + 1 \in T
  <2>1. SUFFICES ASSUME j + 1 <= k
                 PROVE  w[j + 1] = v[j + 1]
    OBVIOUS
  <2>2. j + 1 \in 1 .. k /\ j + 1 \in 1 .. last /\ j + 1 - 1 = j /\ j <= k
    BY <1>1, <2>1
  <2>3. w[j] = v[j]
    BY <1>7, <2>2
  <2>4. QED
    BY <1>4, <1>5, <2>2, <2>3
<1> HIDE DEF T
<1>8. k \in T
  BY <1>6, <1>7, AllNumbers
<1>9. w[k] = v[k]
  BY <1>8 DEF T
<1>10. last \in 1 .. last /\ last - 1 = k
  BY <1>1
<1>11. QED
  BY <1>1, <1>4, <1>5, <1>9, <1>10

\* A step that keeps what the components of a path lead to keeps where it leads.
LEMMA WalkKept ==
  ASSUME Types, Types', NEW P, Hangs(P), NEW path, NEW last \in Nat,
         Start(path) \in DOMAIN P, cwd' = cwd,
         \A cur \in DOMAIN P, i \in 1 .. last :
           Leads(cur, path, i) # NULL => Leads(cur, path, i)' = Leads(cur, path, i),
         Walk(path, last) # NULL
  PROVE  Walk(path, last)' = Walk(path, last)
<1>1. PICK w : Walked(w, path, last)
  BY WalkIs
<1>2. PICK v : Walked(v, path, last)'
  BY WalkHoldsNext
<1>3. /\ w[0] = Start(path) /\ Walk(path, last) = w[last]
      /\ \A i \in 1 .. last : w[i] = Leads(w[i - 1], path, i)
  BY <1>1 DEF Walked, Leads
<1>4. /\ v[0] = Start(path) /\ Walk(path, last)' = v[last]
      /\ \A i \in 1 .. last : v[i] = Leads(v[i - 1], path, i)'
  BY <1>2 DEF Walked, Leads, Start
<1>5. NULL \notin DOMAIN P
  BY TreeIn
<1> DEFINE T == {k \in Nat : k <= last /\ w[k] # NULL => w[k] \in DOMAIN P /\ v[k] = w[k]}
<1>6. 0 \in T
  BY <1>3, <1>4
<1>7. ASSUME NEW k \in Nat, k \in T
      PROVE  k + 1 \in T
  <2>1. SUFFICES ASSUME k + 1 <= last, w[k + 1] # NULL
                 PROVE  w[k + 1] \in DOMAIN P /\ v[k + 1] = w[k + 1]
    OBVIOUS
  <2>2. k + 1 \in 1 .. last /\ k + 1 - 1 = k /\ k <= last
    BY <2>1
  <2>3. w[k + 1] = Leads(w[k], path, k + 1) /\ v[k + 1] = Leads(v[k], path, k + 1)'
    BY <1>3, <1>4, <2>2
  <2>4. w[k] # NULL
    BY <2>1, <2>3 DEF Leads, Next_of
  <2>5. w[k] \in DOMAIN P /\ v[k] = w[k]
    BY <1>7, <2>2, <2>4
  <2>6. PICK cur \in DOMAIN P : cur = w[k] /\ cur = v[k]
    BY <2>5
  <2>7. Leads(cur, path, k + 1) # NULL /\ w[k + 1] = Leads(cur, path, k + 1)
    BY <2>1, <2>3, <2>6
  <2>8. v[k + 1] = Leads(cur, path, k + 1)'
    BY <2>3, <2>6
  <2>9. Leads(cur, path, k + 1)' = Leads(cur, path, k + 1)
    BY <2>2, <2>7
  <2>10. Leads(cur, path, k + 1) \in DOMAIN P \cup {NULL}
    <3>1. PICK first : first = (k + 1 = 1)
      OBVIOUS
    <3>2. Next_of(cur, path.comps[k + 1], first) \in DOMAIN P \cup {NULL}
      BY NextInTree
    <3>3. QED
      BY <3>1, <3>2 DEF Leads
  <2>11. QED
    BY <2>7, <2>8, <2>9, <2>10
<1> HIDE DEF T
<1>8. last \in T
  BY <1>6, <1>7, AllNumbers
<1>9. QED
  BY <1>3, <1>4, <1>8 DEF T

\* What a component leads to is found again when the directory still has its children.
LEMMA LeadsKept ==
  ASSUME Types, Types', NEW P, Hangs(P), NEW Q, Hangs(Q)',
         NEW cur \in DOMAIN P, cur \in DOMAIN Q, NEW path, NEW i,
         nodes'[cur].is_dir = nodes[cur].is_dir, nodes'[cur].parent = nodes[cur].parent,
         \A h \in DOMAIN nodes[cur].children :
           \E j \in DOMAIN nodes'[cur].children :
             /\ nodes'[cur].children[j] = nodes[cur].children[h]
             /\ nodes'[nodes[cur].children[h]].name = nodes[nodes[cur].children[h]].name,
         Leads(cur, path, i) # NULL
  PROVE  Leads(cur, path, i)' = Leads(cur, path, i)
<1>1. PICK name : name = path.comps[i]
  OBVIOUS
<1>2. cur \in Node /\ cur # NULL
  BY TreeIn, RootIs
<1>3. Holds(Q, cur)'
  BY DEF Hangs
<1>4. Parent(cur)' = Parent(cur)
  BY DEF Parent
<1>5. dir_find(cur, name) # NULL => dir_find(cur, name)' = dir_find(cur, name)
  <2>1. SUFFICES ASSUME dir_find(cur, name) # NULL
                 PROVE  dir_find(cur, name)' = dir_find(cur, name)
    OBVIOUS
  <2>2. PICK h \in DOMAIN nodes[cur].children :
          /\ dir_find(cur, name) = nodes[cur].children[h]
          /\ nodes[nodes[cur].children[h]].name = name
    BY <1>2, <2>1, DirFindHolds
  <2>3. PICK c : c = nodes[cur].children[h]
    OBVIOUS
  <2>4. PICK j \in DOMAIN nodes'[cur].children :
          nodes'[cur].children[j] = c /\ nodes'[c].name = name
    BY <2>2, <2>3
  <2>5. \/ /\ dir_find(cur, name)' = NULL
           /\ \A g \in DOMAIN nodes'[cur].children : nodes'[nodes'[cur].children[g]].name # name
        \/ \E g \in DOMAIN nodes'[cur].children :
             /\ dir_find(cur, name)' = nodes'[cur].children[g]
             /\ nodes'[nodes'[cur].children[g]].name = name
    BY <1>2, DirFindHoldsNext
  <2>6. PICK g \in DOMAIN nodes'[cur].children :
          /\ dir_find(cur, name)' = nodes'[cur].children[g]
          /\ nodes'[nodes'[cur].children[g]].name = name
    BY <2>4, <2>5
  <2>7. g = j
    BY <1>3, <2>4, <2>6 DEF Holds
  <2>8. QED
    BY <2>2, <2>3, <2>4, <2>6, <2>7
<1>6. QED
  BY <1>1, <1>2, <1>4, <1>5 DEF Leads, Next_of

LEMMA OneIn ==
  ASSUME NEW S, NEW x \in S
  PROVE  \E one \in Seq(S) : one = <<x>> /\ Len(one) = 1 /\ one[1] = x
<1>1. <<x>> \in Seq(S) /\ Len(<<x>>) = 1 /\ <<x>>[1] = x
  OBVIOUS
<1>2. QED
  BY <1>1

LEMMA ChildHolds ==
  \A P : Types /\ Hangs(P) => \A y \in DOMAIN P \ {Root} : dir_find(nodes[y].parent, nodes[y].name) = y
BY ChildFound

LEMMA ChildHoldsNext ==
  (\A P : Types /\ Hangs(P) =>
     \A y \in DOMAIN P \ {Root} : dir_find(nodes[y].parent, nodes[y].name) = y)'
BY ChildHolds, PTL

\* Where the paths lead that lead anywhere.
SameWalks ==
  \A path, last : last \in Nat /\ Walk(path, last) # NULL => Walk(path, last)' = Walk(path, last)

\* A step that changes no links moves no path.
LEMMA LinkedWalks ==
  ASSUME DataInv, NEW P, Hangs(P), Stays(P), live' = live, cwd' = cwd,
         \A m \in Node : SameLinks(m), InTree(cwd)'
  PROVE  InTree(cwd) /\ SameWalks
<1>1. PICK Q : Hangs(Q)' /\ Keeps(P, Q)
  BY DEF Stays
<1>2. Types /\ Types'
  BY DEF Stays, DataInv
<1>3. DOMAIN P \subseteq DOMAIN Q /\ DOMAIN P \subseteq Node
  BY <1>1, <1>2, TreeIn DEF Keeps, Quiet, Grows, Changes
<1>4. \A m \in DOMAIN P : SameLinks(m) /\ FileOK(m)'
  BY <1>1, <1>3 DEF Hangs
<1>5. DOMAIN P \subseteq live' \cup {Root}
  BY DEF Hangs
<1>6. Hangs(P)'
  BY <1>2, <1>4, <1>5, TreeStays
<1>7. PICK c : c = cwd
  OBVIOUS
<1>8. cwd' = c
  BY <1>7
<1>9. c \in Tree' /\ nodes'[c].is_dir
  BY <1>8 DEF InTree
<1>10. c \in DOMAIN P
  BY <1>2, <1>6, <1>9, TreeHoldsNext
<1>11. InTree(cwd)
  <2>1. Tree = DOMAIN P
    BY <1>2, TreeHolds
  <2>2. nodes[c].is_dir
    BY <1>4, <1>9, <1>10 DEF SameLinks
  <2>3. QED
    BY <1>7, <1>10, <2>1, <2>2 DEF InTree
<1>12. ASSUME NEW path, NEW last \in Nat, Walk(path, last) # NULL
       PROVE  Walk(path, last)' = Walk(path, last)
  <2>1. Start(path) \in DOMAIN P
    BY <1>7, <1>10 DEF Start, Hangs
  <2>2. ASSUME NEW cur \in DOMAIN P, NEW i \in 1 .. last, Leads(cur, path, i) # NULL
        PROVE  Leads(cur, path, i)' = Leads(cur, path, i)
    <3>1. /\ nodes'[cur].is_dir = nodes[cur].is_dir /\ nodes'[cur].parent = nodes[cur].parent
          /\ nodes'[cur].children = nodes[cur].children
      BY <1>4 DEF SameLinks
    <3>2. Holds(P, cur)
      BY DEF Hangs
    <3>3. ASSUME NEW h \in DOMAIN nodes[cur].children
          PROVE  \E j \in DOMAIN nodes'[cur].children :
                   /\ nodes'[cur].children[j] = nodes[cur].children[h]
                   /\ nodes'[nodes[cur].children[h]].name = nodes[nodes[cur].children[h]].name
      <4>1. nodes[cur].children[h] \in DOMAIN P
        BY <3>2 DEF Holds
      <4>2. nodes'[nodes[cur].children[h]].name = nodes[nodes[cur].children[h]].name
        BY <1>4, <4>1 DEF SameLinks
      <4>3. QED
        BY <3>1, <4>2
    <3>4. QED
      BY <1>2, <1>6, <2>2, <3>1, <3>3, LeadsKept
  <2>3. QED
    BY <1>2, <1>12, <2>1, <2>2, WalkKept
<1>13. QED
  BY <1>11, <1>12 DEF SameWalks

\* A file that is made moves no path, and its directory finds it.
LEMMA CreateWalks ==
  ASSUME DataInv, DataInv', NEW P, Hangs(P), NEW dir \in Node, NEW name,
         NEW is_dir, is_dir = FALSE, Create(dir, name, is_dir), cwd' = cwd, InTree(cwd)'
  PROVE  /\ InTree(cwd) /\ SameWalks
         /\ at' \in Node /\ ~nodes'[at'].is_dir
         /\ dir \in DOMAIN P => dir_find(dir, name)' = at' /\ nodes'[dir].is_dir
<1>1. Types /\ Types' /\ nodes[dir].is_dir /\ name \in Names
  BY CreateNeeds DEF DataInv
<1>2. PICK n \in Slots \ live : Linked(dir, name, is_dir, n)
  BY <1>1, CreateIs
<1>3. /\ n \in Node /\ n # Root /\ at' = n
      /\ \A m \in Node : m # n /\ m # dir => nodes'[m] = nodes[m]
      /\ nodes'[n].is_dir = FALSE
      /\ dir # n =>
           /\ nodes'[n] = [Blank EXCEPT !.name = name, !.is_dir = is_dir, !.parent = dir]
           /\ nodes'[dir] = [nodes[dir] EXCEPT !.children = <<n>> \o @]
  BY <1>2, RootIs, VfsAssumption DEF Linked
<1>4. PICK Q : /\ Hangs(Q)'
               /\ DOMAIN P \subseteq DOMAIN Q /\ DOMAIN Q \subseteq DOMAIN P \cup {n}
  BY <1>1, <1>3, CreateTree
<1>5. n \notin DOMAIN P /\ DOMAIN P \subseteq Node
  BY <1>1, <1>2, <1>3, TreeIn DEF Hangs
<1>6. PICK c : c = cwd
  OBVIOUS
<1>7. c \in DOMAIN P /\ nodes'[c].is_dir
  <2>1. cwd' = c
    BY <1>6
  <2>2. c \in Tree' /\ nodes'[c].is_dir
    BY <2>1 DEF InTree
  <2>3. c \in DOMAIN Q
    BY <1>1, <1>4, <2>2, TreeHoldsNext
  <2>4. QED
    BY <1>3, <1>4, <2>2, <2>3
\* What the step does to a node of the tree.
<1>8. ASSUME NEW m \in DOMAIN P
      PROVE  /\ nodes'[m].is_dir = nodes[m].is_dir /\ nodes'[m].parent = nodes[m].parent
             /\ nodes'[m].name = nodes[m].name
             /\ m # dir => nodes'[m].children = nodes[m].children
             /\ m = dir => nodes'[m].children = <<n>> \o nodes[m].children
  <2>1. m # n /\ m \in Node /\ nodes[m] \in NodeRec
    BY <1>1, <1>5 DEF Types
  <2>2. CASE m = dir
    BY <1>3, <2>1, <2>2 DEF NodeRec
  <2>3. CASE m # dir
    <3>1. PICK x : x = nodes[m]
      OBVIOUS
    <3>2. nodes'[m] = x
      BY <1>3, <2>1, <2>3, <3>1
    <3>3. /\ nodes'[m].is_dir = nodes[m].is_dir /\ nodes'[m].parent = nodes[m].parent
          /\ nodes'[m].name = nodes[m].name
          /\ nodes'[m].children = nodes[m].children
      BY <3>1, <3>2
    <3>4. QED
      BY <2>3, <3>3
  <2>4. QED
    BY <2>2, <2>3
<1>9. InTree(cwd)
  <2>1. Tree = DOMAIN P
    BY <1>1, TreeHolds
  <2>2. QED
    BY <1>6, <1>7, <1>8, <2>1 DEF InTree
<1>10. ASSUME NEW cur \in DOMAIN P, NEW h \in DOMAIN nodes[cur].children
       PROVE  \E j \in DOMAIN nodes'[cur].children :
                /\ nodes'[cur].children[j] = nodes[cur].children[h]
                /\ nodes'[nodes[cur].children[h]].name = nodes[nodes[cur].children[h]].name
  <2>1. nodes[cur].children[h] \in DOMAIN P
    BY DEF Hangs, Holds
  <2>2. nodes'[nodes[cur].children[h]].name = nodes[nodes[cur].children[h]].name
    BY <1>8, <2>1
  <2>3. CASE cur # dir
    <3>1. nodes'[cur].children = nodes[cur].children
      BY <1>8, <2>3
    <3>2. QED
      BY <2>2, <3>1
  <2>4. CASE cur = dir
    <3>1. PICK old : old = nodes[cur].children
      OBVIOUS
    <3>2. old \in Seq(Node) /\ Len(old) \in Nat /\ DOMAIN old = 1 .. Len(old)
      BY <1>1, <1>5, <3>1, NodeFields, LenProperties
    <3>3. PICK one \in Seq(Node) : one = <<n>> /\ Len(one) = 1
      BY <1>3, OneIn
    <3>4. /\ one \o old \in Seq(Node) /\ Len(one \o old) = 1 + Len(old)
          /\ \A i \in 1 .. 1 + Len(old) : (one \o old)[i] = IF i <= 1 THEN one[i] ELSE old[i - 1]
      BY <3>2, <3>3, ConcatProperties
    <3>5. h + 1 \in 1 .. 1 + Len(old) /\ ~(h + 1 <= 1) /\ h + 1 - 1 = h
      BY <3>1, <3>2
    <3>6. (one \o old)[h + 1] = old[h] /\ h + 1 \in DOMAIN (one \o old)
      <4>1. (one \o old)[h + 1] = old[h]
        <5>1. PICK g \in 1 .. 1 + Len(old) : g = h + 1
          BY <3>5
        <5>2. (one \o old)[g] = old[g - 1] /\ g - 1 = h
          BY <3>1, <3>2, <3>4, <5>1
        <5>3. QED
          BY <5>1, <5>2
      <4>2. DOMAIN (one \o old) = 1 .. 1 + Len(old)
        BY <3>4
      <4>3. QED
        BY <3>5, <4>1, <4>2
    <3>7. nodes'[cur].children = one \o old
      BY <1>8, <2>4, <3>1, <3>3
    <3>8. QED
      BY <2>2, <3>1, <3>6, <3>7
  <2>5. QED
    BY <2>3, <2>4
<1>11. ASSUME NEW path, NEW last \in Nat, Walk(path, last) # NULL
       PROVE  Walk(path, last)' = Walk(path, last)
  <2>1. Start(path) \in DOMAIN P
    BY <1>6, <1>7 DEF Start, Hangs
  <2>2. ASSUME NEW cur \in DOMAIN P, NEW i \in 1 .. last, Leads(cur, path, i) # NULL
        PROVE  Leads(cur, path, i)' = Leads(cur, path, i)
    <3>1. nodes'[cur].is_dir = nodes[cur].is_dir /\ nodes'[cur].parent = nodes[cur].parent
      BY <1>8
    <3>2. cur \in DOMAIN Q
      BY <1>4
    <3>3. QED
      BY <1>1, <1>4, <1>10, <2>2, <3>1, <3>2, LeadsKept
  <2>3. QED
    BY <1>1, <1>11, <2>1, <2>2, WalkKept
<1>12. ASSUME dir \in DOMAIN P
       PROVE  dir_find(dir, name)' = n /\ nodes'[dir].is_dir
  <2>1. dir # n
    BY <1>5, <1>12
  <2>2. nodes'[n].name = name /\ nodes'[n].parent = dir
    <3>1. Blank = [name |-> NULL, is_dir |-> FALSE, readonly |-> FALSE, data |-> <<>>,
                   cap |-> 0, parent |-> NULL, children |-> <<>>]
      BY DEF Blank
    <3>2. QED
      BY <1>3, <2>1, <3>1
  <2>3. \E i \in DOMAIN nodes'[dir].children : nodes'[dir].children[i] = n
    <3>1. PICK old : old = nodes[dir].children
      OBVIOUS
    <3>2. old \in Seq(Node) /\ Len(old) \in Nat
      BY <1>1, <3>1, NodeFields, LenProperties
    <3>3. PICK one \in Seq(Node) : one = <<n>> /\ Len(one) = 1 /\ one[1] = n
      BY <1>3, OneIn
    <3>4. /\ one \o old \in Seq(Node) /\ Len(one \o old) = 1 + Len(old)
          /\ \A i \in 1 .. 1 + Len(old) : (one \o old)[i] = IF i <= 1 THEN one[i] ELSE old[i - 1]
      BY <3>2, <3>3, ConcatProperties
    <3>5. 1 \in DOMAIN (one \o old) /\ (one \o old)[1] = n
      BY <3>2, <3>3, <3>4
    <3>6. nodes'[dir].children = one \o old
      BY <1>1, <1>3, <2>1, <3>1, <3>3 DEF Types, NodeRec
    <3>7. QED
      BY <3>5, <3>6
  <2>4. dir \in DOMAIN Q /\ Holds(Q, dir)'
    BY <1>4, <1>12 DEF Hangs
  <2>5. n \in DOMAIN Q \ {Root}
    BY <2>3, <2>4 DEF Holds
  <2>6. dir_find(nodes[n].parent, nodes[n].name)' = n
    BY <1>1, <1>4, <2>5, ChildHoldsNext
  <2>7. QED
    BY <1>1, <1>8, <1>12, <2>2, <2>6
<1>13. QED
  BY <1>3, <1>9, <1>11, <1>12 DEF SameWalks

\* A list of requests that ends with those of a line, from its piece k on.
Left(list, words, skip, k) ==
  /\ Len(list) = skip + (Len(Pieces(words)) - k)
  /\ \A i \in 1 .. Len(Pieces(words)) - k :
       list[skip + i].op = "put" /\ list[skip + i].cells = Pieces(words)[k + i]

LEMMA FillIs ==
  ASSUME NEW words \in Lines
  PROVE  /\ Fill(words) \in Seq(Request) /\ Left(Fill(words), words, 1, 0)
         /\ Fill(words)[1].op = "truncate"
<1> DEFINE p == Pieces(words)
           l == LineOf(words)
<1>1. p \in Seq(Seq(Nat)) /\ Len(p) \in Nat /\ DOMAIN p = 1 .. Len(p)
  BY PiecesAre
<1>2. l = [i \in 1 .. Len(p) |-> [op |-> "put", cells |-> p[i]]]
  BY <1>1 DEF LineOf, Put
<1>3. Left(Fill(words), words, 1, 0) =
        /\ Len(Fill(words)) = 1 + (Len(p) - 0)
        /\ \A i \in 1 .. Len(p) - 0 :
             Fill(words)[1 + i].op = "put" /\ Fill(words)[1 + i].cells = p[0 + i]
  BY DEF Left
<1>4. Fill(words) = Truncate \o l
  BY DEF Fill
<1> HIDE DEF p, l
<1>5. ASSUME NEW i \in 1 .. Len(p)
      PROVE  [op |-> "put", cells |-> p[i]] \in Request
  <2>1. p[i] \in Seq(Nat)
    BY <1>1, ElementOfSeq
  <2>2. QED
    BY <2>1 DEF Request
<1> HIDE DEF Request
<1>6. /\ l \in Seq(Request) /\ Len(l) = Len(p)
      /\ \A i \in 1 .. Len(p) : l[i].op = "put" /\ l[i].cells = p[i]
  BY <1>1, <1>2, <1>5
<1>7. Truncate \in Seq(Request) /\ Len(Truncate) = 1 /\ Truncate[1].op = "truncate"
  <2>1. [op |-> "truncate"] \in Request
    BY DEF Request
  <2>2. QED
    BY <2>1, OneListed DEF Truncate, Listed
<1>8. /\ Fill(words) \in Seq(Request) /\ Len(Fill(words)) = 1 + Len(p)
      /\ \A i \in 1 .. 1 + Len(p) : Fill(words)[i] = IF i <= 1 THEN Truncate[i] ELSE l[i - 1]
  <2>1. PICK one \in Seq(Request) : one = Truncate /\ Len(one) = 1
    BY <1>7
  <2>2. /\ one \o l \in Seq(Request) /\ Len(one \o l) = 1 + Len(p)
        /\ \A i \in 1 .. 1 + Len(p) : (one \o l)[i] = IF i <= 1 THEN one[i] ELSE l[i - 1]
    <3>1. PICK last \in Nat : last = Len(p) /\ last = Len(l)
      BY <1>1, <1>6
    <3>2. PICK rest \in Seq(Request) : rest = l
      BY <1>6
    <3>3. /\ one \o rest \in Seq(Request) /\ Len(one \o rest) = Len(one) + Len(rest)
          /\ \A i \in 1 .. Len(one) + Len(rest) :
               (one \o rest)[i] = IF i <= Len(one) THEN one[i] ELSE rest[i - Len(one)]
      BY ConcatProperties
    <3>4. QED
      BY <2>1, <3>1, <3>2, <3>3
  <2>3. QED
    BY <1>4, <2>1, <2>2
<1>9. Fill(words)[1].op = "truncate"
  <2>1. 1 \in 1 .. 1 + Len(p) /\ 1 <= 1
    BY <1>1
  <2>2. QED
    BY <1>7, <1>8, <2>1
<1>10. ASSUME NEW i \in 1 .. Len(p)
       PROVE  Fill(words)[1 + i].op = "put" /\ Fill(words)[1 + i].cells = p[0 + i]
  <2>1. PICK j \in 1 .. 1 + Len(p) : j = 1 + i /\ ~(j <= 1) /\ j - 1 = i
    BY <1>1
  <2>2. Fill(words)[j] = l[i]
    BY <1>8, <2>1
  <2>3. 0 + i = i
    OBVIOUS
  <2>4. QED
    BY <1>6, <2>1, <2>2, <2>3
<1>11. Len(p) - 0 = Len(p)
  BY <1>1
<1>12. Left(Fill(words), words, 1, 0)
  BY <1>3, <1>8, <1>10, <1>11
<1>13. QED
  BY <1>8, <1>9, <1>12

\* A request in front of the list.
LEMMA LeftAfter ==
  ASSUME NEW words \in Lines, NEW r \in Request, NEW one, one = <<r>>
  PROVE  /\ Left(one \o Fill(words), words, 2, 0)
         /\ (one \o Fill(words))[1] = r
         /\ (one \o Fill(words))[2].op = "truncate"
<1>1. PICK fill \in Seq(Request) : /\ fill = Fill(words) /\ Left(fill, words, 1, 0)
                                   /\ fill[1].op = "truncate"
  BY FillIs
<1>2. PICK p : p = Pieces(words) /\ Len(p) \in Nat
  BY PiecesAre
<1>3. /\ Len(fill) = 1 + Len(p)
      /\ \A i \in 1 .. Len(p) : fill[1 + i].op = "put" /\ fill[1 + i].cells = p[i]
  <2>1. Len(p) - 0 = Len(p) /\ \A i \in 1 .. Len(p) : 0 + i = i
    BY <1>2
  <2>2. QED
    BY <1>1, <1>2, <2>1 DEF Left
<1>4. one \in Seq(Request) /\ Len(one) = 1 /\ one[1] = r
  BY OneIn
<1> HIDE DEF Request
<1>5. PICK list : list = one \o fill
  OBVIOUS
<1>6. /\ Len(list) = 1 + (1 + Len(p))
      /\ \A i \in 1 .. 1 + (1 + Len(p)) : list[i] = IF i <= 1 THEN one[i] ELSE fill[i - 1]
  BY <1>1, <1>2, <1>3, <1>4, <1>5, ConcatProperties
<1>7. list[1] = r
  <2>1. 1 \in 1 .. 1 + (1 + Len(p)) /\ 1 <= 1
    BY <1>2
  <2>2. QED
    BY <1>4, <1>6, <2>1
<1>8. list[2] = fill[1]
  <2>1. 2 \in 1 .. 1 + (1 + Len(p)) /\ ~(2 <= 1) /\ 2 - 1 = 1
    BY <1>2
  <2>2. QED
    BY <1>6, <2>1
<1>9. ASSUME NEW i \in 1 .. Len(p) - 0
      PROVE  list[2 + i].op = "put" /\ list[2 + i].cells = p[0 + i]
  <2>1. PICK j \in 1 .. 1 + (1 + Len(p)) : j = 2 + i /\ ~(j <= 1) /\ j - 1 = 1 + i
    BY <1>2
  <2>2. list[j] = fill[1 + i]
    BY <1>6, <2>1
  <2>3. i \in 1 .. Len(p) /\ 0 + i = i
    BY <1>2
  <2>4. QED
    BY <1>3, <2>1, <2>2, <2>3
<1>10. Len(list) = 2 + (Len(p) - 0)
  BY <1>2, <1>6
<1>11. Left(list, words, 2, 0)
  BY <1>2, <1>9, <1>10 DEF Left
<1>12. QED
  BY <1>1, <1>5, <1>7, <1>8, <1>11

\* The first of the list is carried out.
LEMMA LeftTail ==
  ASSUME NEW list \in Seq(Request), NEW words \in Lines, NEW skip \in Nat \ {0},
         Left(list, words, skip, 0)
  PROVE  /\ list # <<>> /\ Head(list) = list[1] /\ Left(Tail(list), words, skip - 1, 0)
         /\ skip = 2 => Tail(list)[1] = list[2]
<1>1. PICK p : p = Pieces(words) /\ Len(p) \in Nat
  BY PiecesAre
<1>2. /\ Len(list) = skip + (Len(p) - 0)
      /\ \A i \in 1 .. Len(p) - 0 :
           list[skip + i].op = "put" /\ list[skip + i].cells = p[0 + i]
  BY <1>1 DEF Left
<1> HIDE DEF Request
<1>3. Len(list) \in Nat \ {0} /\ Len(list) >= skip
  BY <1>1, <1>2
<1>4. list # <<>> /\ Head(list) = list[1]
  BY <1>3, EmptySeq
<1>5. /\ Tail(list) \in Seq(Request) /\ Len(Tail(list)) = Len(list) - 1
      /\ \A i \in 1 .. Len(list) - 1 : Tail(list)[i] = list[i + 1]
  BY <1>4, HeadTailProperties
<1>6. ASSUME NEW i \in 1 .. Len(p) - 0
      PROVE  Tail(list)[skip - 1 + i].op = "put" /\ Tail(list)[skip - 1 + i].cells = p[0 + i]
  <2>1. PICK j \in 1 .. Len(list) - 1 : j = skip - 1 + i /\ j + 1 = skip + i
    BY <1>1, <1>2
  <2>2. Tail(list)[j] = list[skip + i]
    BY <1>5, <2>1
  <2>3. QED
    BY <1>2, <2>1, <2>2
<1>7. Len(Tail(list)) = skip - 1 + (Len(p) - 0)
  BY <1>1, <1>2, <1>5
<1>8. Left(Tail(list), words, skip - 1, 0)
  BY <1>1, <1>6, <1>7 DEF Left
<1>9. skip = 2 => Tail(list)[1] = list[2]
  <2>1. SUFFICES ASSUME skip = 2
                 PROVE  Tail(list)[1] = list[2]
    OBVIOUS
  <2>2. 1 \in 1 .. Len(list) - 1 /\ 1 + 1 = 2
    BY <1>3, <2>1
  <2>3. QED
    BY <1>5, <2>2
<1>10. QED
  BY <1>4, <1>8, <1>9

LEMMA LeftMade ==
  ASSUME NEW list \in Seq(Request), NEW words \in Lines, Left(list, words, 2, 0)
  PROVE  /\ list # <<>> /\ Head(list) = list[1] /\ Left(Tail(list), words, 1, 0)
         /\ Tail(list)[1] = list[2]
<1>1. PICK skip \in Nat \ {0} : skip = 2 /\ skip - 1 = 1
  OBVIOUS
<1>2. Left(list, words, skip, 0)
  BY <1>1
<1>3. /\ list # <<>> /\ Head(list) = list[1] /\ Left(Tail(list), words, skip - 1, 0)
      /\ skip = 2 => Tail(list)[1] = list[2]
  BY <1>2, LeftTail
<1>4. QED
  BY <1>1, <1>3

LEMMA LeftCleared ==
  ASSUME NEW list \in Seq(Request), NEW words \in Lines, Left(list, words, 1, 0)
  PROVE  list # <<>> /\ Head(list) = list[1] /\ Left(Tail(list), words, 0, 0)
<1>1. PICK skip \in Nat \ {0} : skip = 1 /\ skip - 1 = 0
  OBVIOUS
<1>2. Left(list, words, skip, 0)
  BY <1>1
<1>3. list # <<>> /\ Head(list) = list[1] /\ Left(Tail(list), words, skip - 1, 0)
  BY <1>2, LeftTail
<1>4. QED
  BY <1>1, <1>3

\* One piece is put.
LEMMA LeftPut ==
  ASSUME NEW list \in Seq(Request), NEW words \in Lines, NEW k \in 0 .. Len(Pieces(words)),
         Left(list, words, 0, k), list # <<>>
  PROVE  /\ k + 1 \in 1 .. Len(Pieces(words)) /\ Left(Tail(list), words, 0, k + 1)
         /\ Head(list).op = "put" /\ Head(list).cells = Pieces(words)[k + 1]
<1>1. PICK p : p = Pieces(words) /\ Len(p) \in Nat
  BY PiecesAre
<1>2. /\ Len(list) = 0 + (Len(p) - k)
      /\ \A i \in 1 .. Len(p) - k :
           list[0 + i].op = "put" /\ list[0 + i].cells = p[k + i]
  BY <1>1 DEF Left
<1> HIDE DEF Request
<1>3. k \in 0 .. Len(p) /\ Len(list) \in Nat /\ Len(list) # 0
  BY <1>1, EmptySeq
<1>4. Len(list) = Len(p) - k /\ 1 \in 1 .. Len(p) - k /\ 0 + 1 = 1 /\ k + 1 \in 1 .. Len(p)
  BY <1>1, <1>2, <1>3
<1>5. list[1].op = "put" /\ list[1].cells = p[k + 1]
  BY <1>2, <1>4
<1>6. Head(list) = list[1]
  OBVIOUS
<1>7. /\ Len(Tail(list)) = Len(list) - 1
      /\ \A i \in 1 .. Len(list) - 1 : Tail(list)[i] = list[i + 1]
  BY HeadTailProperties
<1>8. ASSUME NEW i \in 1 .. Len(p) - (k + 1)
      PROVE  Tail(list)[0 + i].op = "put" /\ Tail(list)[0 + i].cells = p[k + 1 + i]
  <2>1. PICK j \in 1 .. Len(p) - k : j = i + 1 /\ 0 + j = j /\ k + j = k + 1 + i
    BY <1>1, <1>3
  <2>2. i \in 1 .. Len(list) - 1 /\ 0 + i = i
    BY <1>1, <1>3, <1>4
  <2>3. Tail(list)[i] = list[j]
    BY <1>7, <2>1, <2>2
  <2>4. list[j].op = "put" /\ list[j].cells = p[k + j]
    BY <1>2, <2>1
  <2>5. QED
    BY <2>1, <2>2, <2>3, <2>4
<1>9. Len(Tail(list)) = 0 + (Len(p) - (k + 1))
  BY <1>1, <1>3, <1>4, <1>7
<1>10. Left(Tail(list), words, 0, k + 1)
  BY <1>1, <1>8, <1>9 DEF Left
<1>11. QED
  BY <1>1, <1>4, <1>5, <1>6, <1>10

\* A part of the line, with zeros for what did not get memory.
Partly(data, words, flat, k) ==
  /\ data \in Seq(Nat) /\ Len(data) <= Len(flat[k])
  /\ \A i \in 1 .. Len(data) : data[i] = Text(words)[i] \/ data[i] = Zero

\* The file that the path names.
Target(path, a) ==
  /\ a \in Node /\ ~nodes[a].is_dir
  /\ InTree(cwd) /\ Last(path.comps) # Long => vfs_resolve(path) = a

\* The file is to be made, is to be emptied, and has got the first k pieces.
Making(path, words) ==
  /\ Left(todo, words, 2, 0)
  /\ todo[1].op = "make" /\ todo[1].name = Cut(Last(path.comps))
  /\ todo[2].op = "truncate"
  /\ off = 0 /\ ~missed
  /\ InTree(cwd) => at = Walk(path, Len(path.comps) - 1)

Clearing(path, words) ==
  /\ Left(todo, words, 1, 0)
  /\ todo[1].op = "truncate"
  /\ off = 0 /\ ~missed
  /\ Target(path, at)

Filling(path, words, flat, k) ==
  /\ Left(todo, words, 0, k)
  /\ off = Len(flat[k])
  /\ Target(path, at)
  /\ Partly(nodes[at].data, words, flat, k)
  /\ ~missed => nodes[at].data = flat[k]

Working(path, words, flat) ==
  \/ Making(path, words)
  \/ Clearing(path, words)
  \/ \E k \in 0 .. Len(Pieces(words)) : Filling(path, words, flat, k)

Wanted(path, words) ==
  /\ path \in Paths /\ words \in Lines /\ path.comps # <<>>
  /\ asked.path = path /\ asked.line = Text(words)

WriteInv ==
  asked # None /\ at # NULL =>
    \E path, words, flat :
      Wanted(path, words) /\ Flat(words, flat) /\ Working(path, words, flat)

LEMMA PathIs ==
  ASSUME NEW path \in Paths, path.comps # <<>>
  PROVE  /\ path.comps \in Seq(STRING) /\ Len(path.comps) \in Nat \ {0}
         /\ Last(path.comps) = path.comps[Len(path.comps)]
<1>1. path.comps \in Seq(STRING)
  BY FilesAssumption
<1>2. QED
  BY <1>1, EmptySeq DEF Last

Longer(new, old, cells) == Len(new) = Len(old) + Len(cells)

\* One more piece.
LEMMA PutKeeps ==
  ASSUME NEW words \in Lines, NEW flat, Flat(words, flat),
         NEW k \in 0 .. Len(Pieces(words)), k + 1 \in 1 .. Len(Pieces(words)),
         NEW data, Partly(data, words, flat, k),
         NEW cells, cells = Pieces(words)[k + 1]
  PROVE  /\ Longer(flat[k + 1], flat[k], cells)
         /\ Partly(data, words, flat, k + 1)
         /\ Partly(Written(data, Len(flat[k]), cells), words, flat, k + 1)
         /\ data = flat[k] => Written(data, Len(flat[k]), cells) = flat[k + 1]
<1>1. PICK j \in 1 .. Len(Pieces(words)) : j = k + 1 /\ j - 1 = k /\ j \in 0 .. Len(Pieces(words))
  BY PiecesAre
<1>2. PICK a : a = flat[k]
  OBVIOUS
<1>3. PICK b : b = flat[j]
  OBVIOUS
<1>4. PICK text : text = Text(words)
  OBVIOUS
<1>5. /\ a \in Seq(Nat) /\ Len(a) \in Nat /\ b \in Seq(Nat) /\ Len(b) \in Nat
      /\ \A i \in 1 .. Len(b) : b[i] = text[i]
  <2>1. flat[k] \in Seq(Nat) /\ Len(flat[k]) \in Nat
    BY FlatFront
  <2>2. flat[j] \in Seq(Nat) /\ Len(flat[j]) \in Nat
        /\ \A i \in 1 .. Len(flat[j]) : flat[j][i] = Text(words)[i]
    BY <1>1, FlatFront
  <2>3. QED
    BY <1>2, <1>3, <1>4, <2>1, <2>2
<1>6. cells \in Seq(Nat) /\ Len(cells) \in Nat
  BY <1>1, PiecesAre, ElementOfSeq, LenProperties
<1>7. b = a \o cells
  BY <1>1, <1>2, <1>3 DEF Flat
<1>8. /\ Len(b) = Len(a) + Len(cells)
      /\ \A i \in 1 .. Len(a) + Len(cells) : b[i] = IF i <= Len(a) THEN a[i] ELSE cells[i - Len(a)]
  BY <1>5, <1>6, <1>7, ConcatProperties
<1>9. /\ data \in Seq(Nat) /\ Len(data) \in Nat /\ Len(data) <= Len(a)
      /\ \A i \in 1 .. Len(data) : data[i] = text[i] \/ data[i] = Zero
  BY <1>2, <1>4, LenProperties DEF Partly
<1>10. PICK new : new = Written(data, Len(a), cells)
  OBVIOUS
<1>11. /\ new \in Seq(Nat)
       /\ Len(a) + Len(cells) >= Len(data) => Len(new) = Len(a) + Len(cells)
       /\ \A i \in 1 .. Len(new) :
            /\ i > Len(a) /\ i <= Len(a) + Len(cells) => new[i] = cells[i - Len(a)]
            /\ i <= Len(a) /\ i <= Len(data) => new[i] = data[i]
            /\ i <= Len(a) /\ i > Len(data) => new[i] = Zero
  <2>1. PICK o \in Nat : o = Len(a)
    BY <1>5
  <2>2. new = Written(data, o, cells)
    BY <1>10, <2>1
  <2>3. /\ new \in Seq(Nat)
        /\ o + Len(cells) >= Len(data) => Len(new) = o + Len(cells)
        /\ Overwrites(new, data, o, cells)
    BY <1>6, <1>9, <2>2, WrittenIs
  <2>4. QED
    BY <2>1, <2>3 DEF Overwrites
<1>12. Len(new) = Len(b)
  BY <1>5, <1>6, <1>8, <1>9, <1>11
<1>13. ASSUME NEW i \in 1 .. Len(new), i > Len(a)
       PROVE  new[i] = b[i]
  <2>1. i \in 1 .. Len(a) + Len(cells) /\ i <= Len(a) + Len(cells) /\ ~(i <= Len(a))
    BY <1>5, <1>6, <1>8, <1>12, <1>13
  <2>2. new[i] = cells[i - Len(a)]
    BY <1>11, <1>13, <2>1
  <2>3. QED
    BY <1>8, <2>1, <2>2
<1>14. ASSUME NEW i \in 1 .. Len(new)
       PROVE  new[i] = text[i] \/ new[i] = Zero
  <2>1. CASE i > Len(a)
    BY <1>5, <1>12, <1>13, <2>1
  <2>2. CASE i <= Len(a) /\ i <= Len(data)
    <3>1. i \in 1 .. Len(data)
      BY <1>9, <2>2
    <3>2. QED
      BY <1>9, <1>11, <2>2, <3>1
  <2>3. CASE i <= Len(a) /\ i > Len(data)
    BY <1>11, <2>3
  <2>4. i > Len(a) \/ (i <= Len(a) /\ (i <= Len(data) \/ i > Len(data)))
    <3>1. PICK u \in Nat, d \in Nat : u = Len(a) /\ d = Len(data)
      BY <1>5, <1>9
    <3>2. i \in Int
      OBVIOUS
    <3>3. QED
      BY <3>1, <3>2
  <2>5. QED
    BY <2>1, <2>2, <2>3, <2>4
<1>15. Partly(new, words, flat, k + 1)
  <2>1. Len(new) <= Len(flat[k + 1])
    BY <1>1, <1>3, <1>5, <1>12
  <2>2. QED
    BY <1>4, <1>11, <1>14, <2>1 DEF Partly
<1>16. Partly(data, words, flat, k + 1)
  <2>1. Len(data) <= Len(flat[k + 1])
    BY <1>1, <1>3, <1>5, <1>6, <1>8, <1>9
  <2>2. QED
    BY <1>4, <1>9, <2>1 DEF Partly
<1>17. ASSUME data = a
       PROVE  new = b
  <2>1. ASSUME NEW i \in 1 .. Len(b)
        PROVE  new[i] = b[i]
    <3>1. CASE i > Len(a)
      BY <1>12, <1>13, <3>1
    <3>2. CASE i <= Len(a)
      <4>1. i \in 1 .. Len(new) /\ i <= Len(data) /\ i \in 1 .. Len(a) + Len(cells)
        BY <1>5, <1>6, <1>8, <1>12, <1>17, <3>2
      <4>2. new[i] = data[i]
        BY <1>11, <3>2, <4>1
      <4>3. b[i] = a[i]
        BY <1>8, <3>2, <4>1
      <4>4. QED
        BY <1>17, <4>2, <4>3
    <3>3. QED
      BY <1>5, <3>1, <3>2
  <2>2. QED
    BY <1>5, <1>11, <1>12, <2>1, SeqEqual
<1>18. QED
  BY <1>1, <1>2, <1>3, <1>8, <1>10, <1>15, <1>16, <1>17 DEF Longer

\* What changes no links does not move the file.
LEMMA TargetKept ==
  ASSUME DataInv, NEW P, Hangs(P), Stays(P), live' = live, cwd' = cwd,
         \A m \in Node : SameLinks(m), NEW path, Len(path.comps) \in Nat,
         NEW a, Target(path, a)
  PROVE  Target(path, a)'
<1>1. a \in Node /\ ~nodes'[a].is_dir
  BY DEF Target, SameLinks
<1>2. ASSUME InTree(cwd)', Last(path.comps) # Long
      PROVE  vfs_resolve(path)' = a
  <2>1. InTree(cwd) /\ SameWalks
    BY <1>2, LinkedWalks
  <2>2. Walk(path, Len(path.comps)) = a
    BY <1>2, <2>1 DEF Target, vfs_resolve
  <2>3. a # NULL
    BY <1>1, RootIs
  <2>4. Walk(path, Len(path.comps))' = a
    BY <2>1, <2>2, <2>3 DEF SameWalks
  <2>5. QED
    BY <2>4 DEF vfs_resolve
<1>3. QED
  BY <1>1, <1>2 DEF Target

LEMMA WalkStepHolds ==
  \A path, k : Types /\ k \in Nat => Walk(path, k + 1) = Leads(Walk(path, k), path, k + 1)
BY WalkStep

LEMMA WalkStepNext ==
  (\A path, k : Types /\ k \in Nat => Walk(path, k + 1) = Leads(Walk(path, k), path, k + 1))'
BY WalkStepHolds, PTL

\* The command has found the file, or the directory for it.
LEMMA WriteBegins ==
  ASSUME DataInv, NEW P, Hangs(P), Calm, NEW path \in Paths, NEW words \in Lines,
         cmd_write(path, words)
  PROVE  WriteInv'
<1>1. Stays(P) /\ DataInv'
  <2>1. Stays(P)
    BY WriteCommandStays
  <2>2. QED
    BY <2>1 DEF Stays
<1>2. PICK dir : dir = vfs_resolve_parent(path)
  OBVIOUS
<1>3. PICK f : f = vfs_resolve(path)
  OBVIOUS
<1>4. PICK one : one = Make(Cut(Last(path.comps)))
  OBVIOUS
<1>5. /\ Prompt /\ dir # NULL
      /\ \/ /\ f # NULL /\ ~nodes[f].is_dir /\ at' = f /\ todo' = Fill(words)
         \/ /\ f = NULL /\ at' = dir /\ todo' = one \o Fill(words)
      /\ asked' = [path |-> path, line |-> Text(words)]
      /\ nodes' = nodes /\ live' = live /\ cwd' = cwd /\ off' = off /\ missed' = missed
  BY <1>2, <1>3, <1>4 DEF cmd_write, vfs
<1>6. off' = 0 /\ ~missed'
  BY <1>5 DEF Prompt, Calm, OffInv
<1>7. Types /\ path.comps # <<>> /\ dir \in Node /\ f \in Node \cup {NULL}
      /\ Last(path.comps) \in STRING
  <2>1. Types
    BY DEF DataInv
  <2>2. QED
    BY <1>2, <1>3, <1>5, <2>1, ResolveType
<1>8. Wanted(path, words)'
  BY <1>5, <1>7 DEF Wanted
<1>9. PICK flat : Flat(words, flat)
  BY FlatIs
<1>10. \A m \in Node : SameLinks(m)
  BY <1>5 DEF SameLinks
<1>11. InTree(cwd)' => SameWalks
  BY <1>1, <1>5, <1>10, LinkedWalks
<1>12. PICK last \in Nat : last = Len(path.comps) /\ last - 1 \in Nat
  BY <1>7, PathIs
<1>13. CASE f # NULL /\ ~nodes[f].is_dir /\ at' = f /\ todo' = Fill(words)
  <2>1. ASSUME InTree(cwd)'
        PROVE  vfs_resolve(path)' = f
    <3>1. Walk(path, last) = f
      BY <1>3, <1>12 DEF vfs_resolve
    <3>2. Walk(path, last)' = f
      BY <1>11, <1>13, <2>1, <3>1 DEF SameWalks
    <3>3. QED
      BY <1>12, <3>2 DEF vfs_resolve
  <2>2. f \in Node /\ ~nodes'[f].is_dir
    BY <1>5, <1>7, <1>13
  <2>3. Target(path, at)'
    BY <1>13, <2>1, <2>2 DEF Target
  <2>4. Left(todo, words, 1, 0)' /\ todo'[1].op = "truncate"
    BY <1>13, FillIs
  <2>5. Clearing(path, words)'
    BY <1>6, <2>3, <2>4 DEF Clearing
  <2>6. QED
    BY <1>8, <1>9, <2>5 DEF WriteInv, Working
<1>14. CASE f = NULL /\ at' = dir /\ todo' = one \o Fill(words)
  <2>1. ASSUME InTree(cwd)'
        PROVE  Walk(path, Len(path.comps) - 1)' = dir
    <3>1. Walk(path, last - 1) = dir
      BY <1>2, <1>5, <1>7, <1>12 DEF vfs_resolve_parent
    <3>2. Walk(path, last - 1) # NULL
      BY <1>5, <3>1
    <3>3. Walk(path, last - 1)' = dir
      BY <1>11, <1>12, <2>1, <3>1, <3>2 DEF SameWalks
    <3>4. QED
      BY <1>12, <3>3
  <2>2. PICK r \in Request : /\ one = <<r>> /\ r.op = "make"
                             /\ r.name = Cut(Last(path.comps))
    <3>1. Cut(Last(path.comps)) \in Word
      BY <1>7, VfsAssumption DEF Cut, Word
    <3>2. [op |-> "make", name |-> Cut(Last(path.comps))] \in Request
      BY <3>1 DEF Request
    <3>3. QED
      BY <1>4, <3>2 DEF Make
  <2>3. /\ Left(one \o Fill(words), words, 2, 0) /\ (one \o Fill(words))[1] = r
        /\ (one \o Fill(words))[2].op = "truncate"
    <3>1. words \in Lines /\ one = <<r>> /\ r \in Request
      BY <2>2
    <3>2. QED
      BY ONLY <3>1, LeftAfter
  <2>4. Left(todo, words, 2, 0)' /\ todo'[1] = r /\ todo'[2].op = "truncate"
    BY <1>14, <2>3
  <2>5. Making(path, words)'
    BY <1>6, <1>14, <2>1, <2>2, <2>4 DEF Making
  <2>6. QED
    BY <1>8, <1>9, <2>5 DEF WriteInv, Working
<1>15. QED
  BY <1>5, <1>13, <1>14

\* The file is made where the path looks for it.
LEMMA WriteMakes ==
  ASSUME DataInv, DataInv', NEW P, Hangs(P), NEW path, NEW words, Wanted(path, words),
         Making(path, words), todo # <<>>, Create(at, Head(todo).name, FALSE),
         todo' = Tail(todo), UNCHANGED <<cwd, off, missed>>
  PROVE  Clearing(path, words)'
<1>1. /\ path \in Paths /\ path.comps # <<>> /\ words \in Lines
  BY DEF Wanted
<1>2. todo \in Seq(Request) /\ at \in Node /\ Types /\ Types'
  BY DEF DataInv, TodoInv, Listed
<1>3. /\ Left(todo, words, 2, 0) /\ todo[1].name = Cut(Last(path.comps))
      /\ todo[2].op = "truncate" /\ off = 0 /\ ~missed
      /\ InTree(cwd) => at = Walk(path, Len(path.comps) - 1)
  BY DEF Making
<1>4. /\ Head(todo) = todo[1] /\ Left(Tail(todo), words, 1, 0)
      /\ Tail(todo)[1] = todo[2]
  BY <1>1, <1>2, <1>3, LeftMade
<1>5. Left(todo, words, 1, 0)' /\ todo'[1].op = "truncate"
  BY <1>3, <1>4
<1>6. PICK dir \in Node : dir = at
  BY <1>2
<1>7. PICK name : name = Head(todo).name
  OBVIOUS
<1>8. PICK is_dir : is_dir = FALSE
  OBVIOUS
<1>9. Create(dir, name, is_dir) /\ cwd' = cwd
  BY <1>6, <1>7, <1>8
<1>10. at' \in Node /\ ~nodes'[at'].is_dir
  <2>1. Listed(todo)' /\ (todo' # <<>> => at' \in Node)
        /\ (todo' # <<>> /\ OfFile(Head(todo')) => ~nodes'[at'].is_dir)
    BY DEF DataInv, TodoInv
  <2>2. todo' \in Seq(Request)
    BY <2>1 DEF Listed
  <2>3. todo' # <<>> /\ Head(todo') = todo'[1]
    <3>1. PICK list \in Seq(Request) : list = todo' /\ Left(list, words, 1, 0)
      BY <1>5, <2>2
    <3>2. list # <<>> /\ Head(list) = list[1]
      BY <1>1, <3>1, LeftCleared
    <3>3. QED
      BY <3>1, <3>2
  <2>4. QED
    BY <1>5, <2>1, <2>3 DEF OfFile
<1>11. ASSUME InTree(cwd)', Last(path.comps) # Long
       PROVE  vfs_resolve(path)' = at'
  <2>1. /\ InTree(cwd) /\ SameWalks
        /\ dir \in DOMAIN P => dir_find(dir, name)' = at' /\ nodes'[dir].is_dir
    BY <1>8, <1>9, <1>11, CreateWalks
  <2>2. PICK k \in Nat : k = Len(path.comps) - 1 /\ k + 1 = Len(path.comps)
    BY <1>1, PathIs
  <2>3. Walk(path, k) = dir
    BY <1>3, <1>6, <2>1, <2>2
  <2>4. dir # NULL
    BY RootIs
  <2>5. Start(path) \in DOMAIN P
    <3>1. Tree = DOMAIN P /\ Root \in DOMAIN P
      BY <1>2, TreeHolds DEF Hangs
    <3>2. QED
      BY <2>1, <3>1 DEF InTree, Start
  <2>6. dir \in DOMAIN P
    BY <1>2, <2>3, <2>4, <2>5, WalkInTree
  <2>7. Walk(path, k)' = dir
    BY <2>1, <2>3, <2>4 DEF SameWalks
  <2>8. path.comps[k + 1] = name
    BY <1>1, <1>3, <1>4, <1>7, <1>11, <2>2, PathIs DEF Cut
  <2>9. name \in Names
    BY <1>9, CreateNeeds
  <2>10. name # "." /\ name # ".."
    BY <2>9, VfsAssumption
  <2>11. Walk(path, k + 1)' = Leads(Walk(path, k), path, k + 1)'
    BY <1>2, WalkStepNext
  <2>12. Walk(path, k + 1)' = dir_find(dir, name)'
    BY <2>1, <2>4, <2>6, <2>7, <2>8, <2>10, <2>11 DEF Leads, Next_of
  <2>13. QED
    BY <2>1, <2>2, <2>6, <2>12 DEF vfs_resolve
<1>12. Target(path, at)'
  BY <1>10, <1>11 DEF Target
<1>13. off' = 0 /\ ~missed'
  BY <1>3
<1>14. QED
  BY <1>5, <1>12, <1>13 DEF Clearing

\* The file is emptied.
LEMMA WriteClears ==
  ASSUME DataInv, NEW P, Hangs(P), NEW path, NEW words, Wanted(path, words),
         NEW flat, Flat(words, flat), Clearing(path, words), TruncateFile, boot' = boot
  PROVE  Filling(path, words, flat, 0)'
<1>1. /\ path \in Paths /\ path.comps # <<>> /\ words \in Lines /\ Len(path.comps) \in Nat
      /\ todo \in Seq(Request) /\ nodes \in [Node -> NodeRec]
  BY PathIs DEF Wanted, DataInv, TodoInv, Listed, Types
<1>2. /\ Left(todo, words, 1, 0) /\ off = 0 /\ ~missed /\ Target(path, at)
  BY DEF Clearing
<1>3. PICK a : a = at
  OBVIOUS
<1>4. /\ nodes' = [nodes EXCEPT ![a].data = <<>>] /\ todo' = Tail(todo)
      /\ live' = live /\ cwd' = cwd /\ at' = a /\ off' = off /\ missed' = missed
  BY <1>3 DEF TruncateFile
<1>5. a \in Node
  BY <1>2, <1>3 DEF Target
<1>6. (\A m \in Node : SameLinks(m)) /\ nodes'[a].data = <<>>
  BY <1>1, <1>4, <1>5 DEF SameLinks, NodeRec
<1>7. Stays(P)
  BY TruncateFileStays
<1>8. Target(path, a)
  BY <1>2, <1>3
<1>9. Target(path, a)'
  BY <1>1, <1>4, <1>6, <1>7, <1>8, TargetKept
<1>10. Target(path, at)'
  BY <1>4, <1>9 DEF Target
<1>11. Left(todo, words, 0, 0)'
  BY <1>1, <1>2, <1>4, LeftCleared
<1>12. flat[0] = <<>> /\ Len(flat[0]) = 0
  BY DEF Flat
<1>13. Partly(<<>>, words, flat, 0)
  BY <1>12 DEF Partly
<1>14. nodes'[at'].data = <<>>
  BY <1>4, <1>6
<1>15. off' = Len(flat[0])
  BY <1>2, <1>4, <1>12
<1>16. Partly(nodes[at].data, words, flat, 0)'
  BY <1>13, <1>14
<1>17. QED
  BY <1>10, <1>11, <1>12, <1>14, <1>15, <1>16 DEF Filling

\* A piece is put, or there is no memory for it.
LEMMA WritePuts ==
  ASSUME DataInv, NEW P, Hangs(P), NEW path, NEW words, Wanted(path, words),
         NEW flat, Flat(words, flat), NEW k \in 0 .. Len(Pieces(words)),
         Filling(path, words, flat, k), vfs_write, boot' = boot
  PROVE  k + 1 \in 0 .. Len(Pieces(words)) /\ Filling(path, words, flat, k + 1)'
<1>1. /\ path \in Paths /\ path.comps # <<>> /\ words \in Lines /\ Len(path.comps) \in Nat
      /\ todo \in Seq(Request) /\ nodes \in [Node -> NodeRec]
  BY PathIs DEF Wanted, DataInv, TodoInv, Listed, Types
<1>2. /\ Left(todo, words, 0, k) /\ off = Len(flat[k]) /\ Target(path, at)
      /\ Partly(nodes[at].data, words, flat, k)
      /\ ~missed => nodes[at].data = flat[k]
  BY DEF Filling
<1>3. PICK a : a = at
  OBVIOUS
<1>4. PICK cells : cells = Head(todo).cells
  OBVIOUS
<1>5. PICK end : end = off + Len(cells)
  OBVIOUS
<1>6. todo # <<>> /\ todo' = Tail(todo) /\ live' = live /\ cwd' = cwd /\ at' = a /\ off' = end
  BY <1>3, <1>4, <1>5 DEF vfs_write, Doing
<1>7. /\ k + 1 \in 1 .. Len(Pieces(words)) /\ Left(Tail(todo), words, 0, k + 1)
      /\ cells = Pieces(words)[k + 1]
  BY <1>1, <1>2, <1>4, <1>6, LeftPut
<1>8. k + 1 \in 0 .. Len(Pieces(words))
  BY <1>1, <1>7, PiecesAre
<1>9. a \in Node
  BY <1>2, <1>3 DEF Target
<1>10. PICK data : data = nodes[a].data
  OBVIOUS
<1>11. PICK o : o = Len(flat[k]) /\ o = off
  BY <1>2
<1>12. Partly(data, words, flat, k)
  BY <1>2, <1>3, <1>10
<1>13. /\ Len(flat[k + 1]) = o + Len(cells)
       /\ Partly(data, words, flat, k + 1)
       /\ Partly(Written(data, o, cells), words, flat, k + 1)
       /\ data = flat[k] => Written(data, o, cells) = flat[k + 1]
  <2>1. words \in Lines /\ k + 1 \in 1 .. Len(Pieces(words)) /\ cells = Pieces(words)[k + 1]
    BY <1>1, <1>7
  <2>2. Partly(data, words, flat, k + 1)
    BY <1>12, <2>1, PutKeeps
  <2>5. Longer(flat[k + 1], flat[k], cells)
    BY <1>12, <2>1, PutKeeps
  <2>3. Partly(Written(data, Len(flat[k]), cells), words, flat, k + 1)
    BY <1>12, <2>1, PutKeeps
  <2>4. data = flat[k] => Written(data, Len(flat[k]), cells) = flat[k + 1]
    BY <1>12, <2>1, PutKeeps
  <2>6. QED
    BY <1>11, <2>2, <2>3, <2>4, <2>5 DEF Longer
<1>14. off' = Len(flat[k + 1])
  BY <1>5, <1>6, <1>11, <1>13
<1>15. \/ /\ nodes' = [nodes EXCEPT
               ![a].cap = IF end > @ THEN Grown(@, end) ELSE @,
               ![a].data = Written(@, off, cells)]
          /\ missed' = missed
       \/ missed' = TRUE /\ nodes' = nodes
  BY <1>3, <1>4, <1>5 DEF vfs_write
<1>16. Stays(P)
  BY WriteStays
<1>17. ASSUME \A m \in Node : SameLinks(m), Partly(nodes'[a].data, words, flat, k + 1),
              ~missed' => nodes'[a].data = flat[k + 1]
       PROVE  Filling(path, words, flat, k + 1)'
  <2>1. Target(path, a)
    BY <1>2, <1>3
  <2>2. Target(path, a)'
    BY <1>1, <1>6, <1>16, <1>17, <2>1, TargetKept
  <2>3. Target(path, at)'
    BY <1>6, <2>2 DEF Target
  <2>4. Left(todo, words, 0, k + 1)'
    BY <1>6, <1>7
  <2>5. Partly(nodes[at].data, words, flat, k + 1)'
    BY <1>6, <1>17
  <2>6. ~missed' => nodes'[at'].data = flat[k + 1]
    BY <1>6, <1>17
  <2>7. QED
    BY <1>14, <2>3, <2>4, <2>5, <2>6 DEF Filling
<1>18. CASE missed' = TRUE /\ nodes' = nodes
  <2>1. (\A m \in Node : SameLinks(m)) /\ nodes'[a].data = data
    BY <1>10, <1>18 DEF SameLinks
  <2>2. QED
    BY <1>8, <1>13, <1>17, <1>18, <2>1
<1>19. CASE /\ nodes' = [nodes EXCEPT
                 ![a].cap = IF end > @ THEN Grown(@, end) ELSE @,
                 ![a].data = Written(@, off, cells)]
            /\ missed' = missed
  <2>1. PICK cap : cap = IF end > nodes[a].cap THEN Grown(nodes[a].cap, end) ELSE nodes[a].cap
    OBVIOUS
  <2>2. PICK new : new = Written(data, o, cells)
    OBVIOUS
  <2>3. nodes' = [nodes EXCEPT ![a] = [nodes[a] EXCEPT !.cap = cap, !.data = new]]
    BY <1>1, <1>9, <1>10, <1>11, <1>19, <2>1, <2>2 DEF NodeRec
  <2>4. (\A m \in Node : SameLinks(m)) /\ nodes'[a].data = new
    BY <1>1, <1>9, <2>3 DEF SameLinks, NodeRec
  <2>5. ~missed' => nodes'[a].data = flat[k + 1]
    BY <1>2, <1>3, <1>10, <1>13, <1>19, <2>2, <2>4
  <2>6. Partly(nodes'[a].data, words, flat, k + 1)
    BY <1>13, <2>2, <2>4
  <2>7. QED
    BY <1>8, <1>17, <2>4, <2>5, <2>6
<1>20. QED
  BY <1>15, <1>18, <1>19

\* Whatever happens otherwise, no write is carried out, or nothing changes.
LEMMA StepWrites ==
  ASSUME DataInv, NEW P, Hangs(P), Calm, WriteInv, [Next]_vars
  PROVE  WriteInv'
<1>1. CASE \E path \in Paths, words \in Lines : cmd_write(path, words)
  BY <1>1, WriteBegins
<1>2. CASE LoadEntry \/ Return \/ shell_init
  <2>1. CASE LoadEntry
    BY <2>1 DEF LoadEntry, Calm, ShellInv, WriteInv
  <2>2. CASE Return
    BY <2>2 DEF Return, WriteInv
  <2>3. CASE shell_init
    BY <2>3 DEF shell_init, Calm, ShellInv, WriteInv
  <2>4. QED
    BY <1>2, <2>1, <2>2, <2>3
<1>3. CASE \E path \in Paths : cmd_mkdir(path) \/ cmd_rm(path) \/ cmd_cd(path)
  BY <1>3 DEF cmd_mkdir, cmd_rm, cmd_cd, Prompt, WriteInv
<1>4. CASE Reboot
  BY <1>4 DEF Reboot, Prompt, WriteInv
<1>5. CASE UNCHANGED vars
  <2>1. /\ nodes' = nodes /\ live' = live /\ cwd' = cwd /\ at' = at /\ off' = off
        /\ todo' = todo /\ missed' = missed /\ boot' = boot /\ asked' = asked
    BY <1>5 DEF vars, vfs, request
  <2>2. Stays(P)
    BY <1>5, StutterStays
  <2>3. \A m \in Node : SameLinks(m)
    BY <2>1 DEF SameLinks
  <2>4. SUFFICES ASSUME asked # None, at # NULL
                 PROVE  WriteInv'
    BY <2>1 DEF WriteInv
  <2>5. PICK path, words, flat :
          Wanted(path, words) /\ Flat(words, flat) /\ Working(path, words, flat)
    BY <2>4 DEF WriteInv
  <2>6. Len(path.comps) \in Nat \ {0}
    BY <2>5, PathIs DEF Wanted
  <2>7. \A c : Target(path, c) => Target(path, c)'
    BY <2>1, <2>2, <2>3, <2>6, TargetKept
  <2>8. Target(path, at) => Target(path, at)'
    <3>1. PICK a : a = at
      OBVIOUS
    <3>2. Target(path, a) => Target(path, a)'
      BY <2>7
    <3>3. QED
      BY <2>1, <3>1, <3>2 DEF Target
  <2>9. Making(path, words) => Making(path, words)'
    <3>1. ASSUME Making(path, words), InTree(cwd)'
          PROVE  at' = Walk(path, Len(path.comps) - 1)'
      <4>1. InTree(cwd) /\ SameWalks
        BY <2>1, <2>2, <2>3, <3>1, LinkedWalks
      <4>2. PICK a : a = at /\ a # NULL
        BY <2>4
      <4>3. Len(path.comps) - 1 \in Nat
        <5>1. \A i \in Nat \ {0} : i - 1 \in Nat
          OBVIOUS
        <5>2. QED
          BY <2>6, <5>1
      <4>4. PICK k \in Nat : k = Len(path.comps) - 1
        BY <4>3
      <4>5. Walk(path, k) = a
        BY <3>1, <4>1, <4>2, <4>4 DEF Making
      <4>6. Walk(path, k)' = a
        BY <4>1, <4>2, <4>5 DEF SameWalks
      <4>7. QED
        BY <2>1, <4>2, <4>4, <4>6
    <3>2. QED
      BY <2>1, <3>1 DEF Making
  <2>10. Clearing(path, words) => Clearing(path, words)'
    BY <2>1, <2>8 DEF Clearing
  <2>11. ASSUME NEW k \in 0 .. Len(Pieces(words)), Filling(path, words, flat, k)
         PROVE  Filling(path, words, flat, k)'
    BY <2>1, <2>8, <2>11 DEF Filling
  <2>12. Wanted(path, words)'
    BY <2>1, <2>5 DEF Wanted
  <2>13. Working(path, words, flat)'
    BY <2>5, <2>9, <2>10, <2>11 DEF Working
  <2>14. QED
    BY <2>5, <2>12, <2>13 DEF WriteInv
<1>6. CASE Requested
  <2>1. todo # <<>> /\ asked' = asked /\ boot' = boot
    BY <1>6 DEF Requested, Enter, MakeFile, TruncateFile, vfs_write, register_module_file, Doing
  <2>2. SUFFICES ASSUME asked # None, at' # NULL
                 PROVE  WriteInv'
    BY <2>1 DEF WriteInv
  <2>3. todo \in Seq(Request) /\ at \in Node /\ at # NULL
    BY <2>1, RootIs DEF DataInv, TodoInv, Listed
  <2>4. PICK path, words, flat :
          Wanted(path, words) /\ Flat(words, flat) /\ Working(path, words, flat)
    BY <2>2, <2>3 DEF WriteInv
  <2>5. Wanted(path, words)' /\ words \in Lines
    BY <2>1, <2>4 DEF Wanted
  <2>6. CASE Making(path, words)
    <3>1. Head(todo).op = "make"
      <4>1. Head(todo) = todo[1]
        BY <2>3, <2>5, <2>6, LeftMade DEF Making
      <4>2. QED
        BY <2>6, <4>1 DEF Making
    <3>2. MakeFile
      BY <1>6, <3>1 DEF Requested, Enter, TruncateFile, vfs_write, register_module_file, Doing
    <3>3. /\ Create(at, Head(todo).name, FALSE) /\ todo' = Tail(todo)
          /\ UNCHANGED <<cwd, off, missed>>
      BY <2>2, <3>2 DEF MakeFile, Give_up
    <3>4. Stays(P)
      BY <2>1, <3>2, MakeFileStays
    <3>5. DataInv'
      BY <3>4 DEF Stays
    <3>6. Clearing(path, words)'
      BY <2>1, <2>4, <2>6, <3>3, <3>5, WriteMakes
    <3>7. QED
      BY <2>4, <2>5, <3>6 DEF WriteInv, Working
  <2>7. CASE Clearing(path, words)
    <3>1. Head(todo).op = "truncate"
      <4>1. Head(todo) = todo[1]
        BY <2>3, <2>5, <2>7, LeftCleared DEF Clearing
      <4>2. QED
        BY <2>7, <4>1 DEF Clearing
    <3>2. TruncateFile
      BY <1>6, <3>1 DEF Requested, Enter, MakeFile, vfs_write, register_module_file, Doing
    <3>3. Filling(path, words, flat, 0)'
      BY <2>1, <2>4, <2>7, <3>2, WriteClears
    <3>4. 0 \in 0 .. Len(Pieces(words))
      BY <2>5, PiecesAre
    <3>5. QED
      BY <2>4, <2>5, <3>3, <3>4 DEF WriteInv, Working
  <2>8. CASE \E k \in 0 .. Len(Pieces(words)) : Filling(path, words, flat, k)
    <3>1. PICK k \in 0 .. Len(Pieces(words)) : Filling(path, words, flat, k)
      BY <2>8
    <3>2. Head(todo).op = "put"
      BY <2>1, <2>3, <2>5, <3>1, LeftPut DEF Filling
    <3>3. vfs_write
      BY <1>6, <3>2 DEF Requested, Enter, MakeFile, TruncateFile, register_module_file, Doing
    <3>4. k + 1 \in 0 .. Len(Pieces(words)) /\ Filling(path, words, flat, k + 1)'
      BY <2>1, <2>4, <3>1, <3>3, WritePuts
    <3>5. QED
      BY <2>4, <2>5, <3>4 DEF WriteInv, Working
  <2>9. QED
    BY <2>4, <2>6, <2>7, <2>8 DEF Working
<1>7. QED
  BY <1>1, <1>2, <1>3, <1>4, <1>5, <1>6 DEF Next

\* No name in the tree is longer than a node can hold.
LEMMA LongNull ==
  ASSUME Types, NEW P, Hangs(P), NEW path \in Paths, path.comps # <<>>,
         Last(path.comps) = Long, Start(path) \in DOMAIN P
  PROVE  vfs_resolve(path) = NULL
<1>1. PICK k \in Nat : k = Len(path.comps) - 1 /\ k + 1 = Len(path.comps)
  <2>1. PICK last \in Nat \ {0} : last = Len(path.comps)
    BY PathIs
  <2>2. PICK k \in Nat : k = last - 1 /\ k + 1 = last
    OBVIOUS
  <2>3. QED
    BY <2>1, <2>2
<1>2. path.comps[k + 1] = Long
  BY <1>1, PathIs
<1>3. Walk(path, k + 1) = Leads(Walk(path, k), path, k + 1)
  BY WalkStep
<1>4. Walk(path, k) \in DOMAIN P \cup {NULL}
  BY WalkInTree
<1>5. PICK cur : cur = Walk(path, k)
  OBVIOUS
<1>6. Long # "." /\ Long # ".." /\ Long \notin Names
  BY VfsAssumption
<1>7. ASSUME cur \in DOMAIN P
      PROVE  dir_find(cur, Long) = NULL
  <2>1. cur \in Node /\ Holds(P, cur)
    BY <1>7, TreeIn DEF Hangs
  <2>2. ASSUME NEW i \in DOMAIN nodes[cur].children
        PROVE  nodes[nodes[cur].children[i]].name # Long
    <3>1. PICK c \in DOMAIN P \ {Root} : c = nodes[cur].children[i]
      BY <2>1 DEF Holds
    <3>2. nodes[c].name \in Names
      BY HungIs
    <3>3. QED
      BY <1>6, <3>1, <3>2
  <2>3. QED
    BY <2>1, <2>2, DirFindHolds
<1>8. Walk(path, k + 1) = NULL
  BY <1>2, <1>3, <1>4, <1>5, <1>6, <1>7 DEF Leads, Next_of
<1>9. QED
  BY <1>1, <1>8 DEF vfs_resolve

\* When all pieces are put, the file shows them.
LEMMA WritesShow ==
  ASSUME DataInv, NEW P, Hangs(P), WriteInv
  PROVE  WriteShows
<1>1. SUFFICES ASSUME asked # None, todo = <<>>, at # NULL, InTree(cwd)
               PROVE  IF Last(asked.path.comps) = Long THEN cmd_cat(asked.path) = NULL
                      ELSE /\ ~missed => cmd_cat(asked.path) = asked.line
                           /\ Len(cmd_cat(asked.path)) <= Len(asked.line)
                           /\ \A i \in DOMAIN cmd_cat(asked.path) :
                                cmd_cat(asked.path)[i] \in {asked.line[i], Zero}
  BY DEF WriteShows
<1>2. PICK path, words, flat :
        Wanted(path, words) /\ Flat(words, flat) /\ Working(path, words, flat)
  BY <1>1 DEF WriteInv
<1>3. /\ path \in Paths /\ words \in Lines /\ path.comps # <<>>
      /\ asked.path = path /\ asked.line = Text(words)
  BY <1>2 DEF Wanted
<1>4. todo \in Seq(Request) /\ Types
  BY DEF DataInv, TodoInv, Listed
<1>5. ~Making(path, words) /\ ~Clearing(path, words)
  BY <1>1, <1>3, <1>4, LeftMade, LeftCleared DEF Making, Clearing
<1>6. PICK k \in 0 .. Len(Pieces(words)) : Filling(path, words, flat, k)
  BY <1>2, <1>5 DEF Working
<1>7. flat[k] = Text(words)
  <2>1. PICK p : p = Len(Pieces(words)) /\ p \in Nat
    BY <1>3, PiecesAre
  <2>2. Len(todo) = 0 + (p - k) /\ Len(todo) = 0
    BY <1>1, <1>6, <2>1 DEF Filling, Left
  <2>3. k = p
    BY <2>1, <2>2
  <2>4. QED
    BY <1>2, <2>1, <2>3 DEF Flat
<1>8. CASE Last(path.comps) = Long
  <2>1. Start(path) \in DOMAIN P
    <3>1. Tree = DOMAIN P /\ Root \in DOMAIN P
      BY <1>4, TreeHolds DEF Hangs
    <3>2. QED
      BY <1>1, <3>1 DEF InTree, Start
  <2>2. vfs_resolve(path) = NULL
    BY <1>3, <1>4, <1>8, <2>1, LongNull
  <2>3. QED
    BY <1>3, <1>8, <2>2 DEF cmd_cat
<1>9. CASE Last(path.comps) # Long
  <2>1. PICK a \in Node : a = at /\ ~nodes[a].is_dir /\ vfs_resolve(path) = a /\ a # NULL
    BY <1>1, <1>6, <1>9 DEF Filling, Target
  <2>2. PICK shown : shown = nodes[a].data
    OBVIOUS
  <2>3. cmd_cat(path) = shown
    BY <2>1, <2>2 DEF cmd_cat
  <2>4. Partly(shown, words, flat, k) /\ (~missed => shown = flat[k])
    BY <1>6, <2>1, <2>2 DEF Filling
  <2>5. /\ ~missed => shown = Text(words)
        /\ Len(shown) <= Len(Text(words)) /\ shown \in Seq(Nat)
        /\ \A i \in 1 .. Len(shown) : shown[i] \in {Text(words)[i], Zero}
    BY <1>7, <2>4 DEF Partly
  <2>6. \A i \in DOMAIN shown : shown[i] \in {Text(words)[i], Zero}
    BY <2>5
  <2>7. QED
    BY <1>3, <1>9, <2>3, <2>5, <2>6
<1>10. QED
  BY <1>3, <1>8, <1>9

LEMMA InitWrites == Init => Calm /\ WriteInv
BY DEF Init, VfsInit, Calm, OffInv, ShellInv, WriteInv

\* After a write that did not run out of memory cat shows the line under the
\* path it was given, unless its name was cut: cmd_write resolves that path in
\* full, but vfs_create takes the first 63 characters of a name.
THEOREM LinesAreShown == Spec => []WriteShows
<1>1. Init => FilesInv /\ Calm /\ WriteInv
  BY InitFiles, InitWrites
<1>2. FilesInv /\ Calm /\ WriteInv /\ [Next]_vars => (FilesInv /\ Calm /\ WriteInv)'
  <2>1. SUFFICES ASSUME FilesInv, Calm, WriteInv, [Next]_vars
                 PROVE  (FilesInv /\ Calm /\ WriteInv)'
    OBVIOUS
  <2>2. PICK P : Hangs(P)
    BY <2>1 DEF FilesInv, TreeInv
  <2>3. DataInv
    BY <2>1 DEF FilesInv
  <2>4. Goes(P)
    BY <2>1, <2>2, <2>3, StepGoes
  <2>5. FilesInv'
    BY <2>4 DEF Goes, FilesInv, TreeInv
  <2>6. Calm' /\ WriteInv'
    BY <2>1, <2>2, <2>3, StepCalm, StepWrites
  <2>7. QED
    BY <2>5, <2>6
<1>3. FilesInv /\ Calm /\ WriteInv => WriteShows
  BY WritesShow DEF FilesInv, TreeInv
<1>4. QED
  BY <1>1, <1>2, <1>3, PTL DEF Spec
=============================================================================
