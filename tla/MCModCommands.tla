--------------------------- MODULE MCModCommands ---------------------------
EXTENDS ModCommands, TLC

\* Every version of a requires the last one of b, which is a leaf.
MCContents == [m \in Modules |-> IF m = "a" THEN {GalaMod, "other"} ELSE {GalaMod}]
MCRequires == [k \in Keys |-> IF k[1] = "a" THEN {<<"b", MaxVersion>>} ELSE {}]
MCGalaFiles == {GalaMod}
MCFirstTags == [m \in Modules |-> IF m = "a" THEN Versions ELSE {1}]
MCStarting == {{<<"b", 1>>}}
MCProvider == [m \in Modules |-> m]

\* A module and a package of it.
SubProvider == [m \in Modules |-> "a"]
SubRequires == [k \in Keys |-> {}]
SubStarting == {{<<"a", 1>>}}
Interchangeable == Permutations(Projects)
=============================================================================
