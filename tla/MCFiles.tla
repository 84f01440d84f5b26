------------------------------ MODULE MCFiles -------------------------------
(* Model-checking instance of Files.                                        *)
EXTENDS Files

A == 1
B == 2

MCTar == << [type |-> "0", comps |-> <<"a", "a">>, data |-> <<B, B, B>>],
            [type |-> "0", comps |-> <<"a", "a">>, data |-> <<A>>] >>
MCModules == << [type |-> "module", comps |-> <<"a">>, data |-> <<B>>] >>

Path(abs, comps) == [abs |-> abs, comps |-> comps]
MCPaths == { Path(FALSE, <<"a">>), Path(FALSE, <<"a", "a">>),
             Path(FALSE, <<"..">>),
             Path(FALSE, <<"..", "a">>), Path(TRUE, <<>>),
             Path(FALSE, <<"longer">>),
             Path(TRUE, <<"models", "a">>) }
MCLines == { << <<A>> >> }

Perms == Permutations(Slots)
=============================================================================
