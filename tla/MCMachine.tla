----------------------------- MODULE MCMachine ------------------------------
(* Model-checking instance of Machine.                                      *)
EXTENDS Machine

Region(first, count, usable, counted) ==
  [start |-> first, count |-> count, usable |-> usable, counted |-> counted]

\* The boot loader's tables are at pages 3, 4 and 6; the card is far up.
PML4 == 3
Table(to) == [to |-> to, huge |-> FALSE]
Window == << [path |-> <<2, 0, 0, 0>>, to |-> 90],
             [path |-> <<2, 0, 0, 1>>, to |-> 91],
             [path |-> <<2, 0, 1, 0>>, to |-> 92] >>

NoTables == [e \in {} |-> Table(0)]
OneTable == <<PML4, 2>> :> Table(4)
DirectMap == OneTable @@ <<4, 0>> :> Table(6) @@ <<6, 0>> :> [to |-> 90, huge |-> TRUE]

\* Page 0 is in no region.
Plenty == << Region(1, 2, TRUE, TRUE), Region(3, 4, FALSE, TRUE),
             Region(7, 13, TRUE, TRUE) >>
Scattered == << Region(1, 2, TRUE, TRUE), Region(3, 4, FALSE, TRUE),
                Region(8, 1, TRUE, TRUE), Region(12, 1, TRUE, TRUE),
                Region(15, 5, FALSE, FALSE) >>
Small == << Region(1, 2, TRUE, TRUE), Region(3, 4, FALSE, TRUE) >>
Unsuited == << Region(1, 1, TRUE, TRUE), Region(3, 8, FALSE, TRUE) >>

\* The shell starts on the first one only.
MCMachines ==
  { [map |-> Plenty, pml4 |-> PML4, entries |-> OneTable, window |-> Window],
    [map |-> Scattered, pml4 |-> PML4, entries |-> DirectMap, window |-> Window],
    [map |-> Scattered, pml4 |-> PML4, entries |-> OneTable, window |-> Window],
    [map |-> Small, pml4 |-> PML4, entries |-> NoTables, window |-> Window],
    [map |-> Small, pml4 |-> PML4, entries |-> NoTables, window |-> <<>>],
    [map |-> Unsuited, pml4 |-> PML4, entries |-> NoTables, window |-> Window] }

MCStart == <<1, 1>>

MCPrograms == <<"s", "l">> :> <<"m", "\n">>
MCUnknown == <<"?", "\t", "s", "\n">>
MCPROMPT == <<"$">>
MCSnakeWord == <<"s">>
MCLlmWord == <<"l">>
MCStory == <<"o", "\n">>

\* The bytes 1 to 4: the space, a letter, and the two of a code point.
A == 2
L == 3
C == 4
Piece(str, score) == [str |-> str, score |-> score]
Special ==
  << Piece(<<20>>, 0), Piece(<<21>>, 0), Piece(<<22>>, 0) >>
    \o [b \in 1 .. BYTES |-> Piece(<<Byte(b - 1)>>, 0)]
MCVocabularies ==
  { Special \o << Piece(<<SPACE>>, 1), Piece(<<A, A>>, 4), Piece(<<A>>, 2),
                  Piece(<<SPACE, A>>, 3), Piece(<<L, C>>, 0),
                  Piece(<<A, A, A>>, 5), Piece(<<SPACE, A, A, A>>, 5) >>,
    Special \o << Piece(<<A>>, 2), Piece(<<A, L, C>>, 2), Piece(<<A, A>>, 2),
                  Piece(<<L, C>>, 0) >> }
MCTexts ==
  { <<>>, <<A>>, <<A, A, A>>, <<SPACE, A>>, <<A, A, A, A, A>>, <<A, L, C>>,
    <<L, A>>, <<C, L, C, C>>, <<SPACE>> }
MCDists ==
  { <<50, 25, 25>>, <<34, 33, 33>>, <<20, 60, 20>>, <<10, 40, 10, 40>>,
    <<25, 25, 25, 25>>, <<5, 5, 70, 20>> }
=============================================================================
