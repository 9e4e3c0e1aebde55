--------------------------- MODULE MCLibraryScan ---------------------------
EXTENDS LibraryScanSpec, TLC
CONSTANTS a, b, c
\* A folder with a file in a directory of it and two paths it may be moved or
\* copied to.
MCRootOf == a :> "r" @@ b :> "r" @@ c :> "r"
MCDirOf == a :> "d" @@ b :> "r" @@ c :> "r"
MCStart == a :> [stamp |-> 1, holds |-> "x"] @@ b :> NoFile @@ c :> NoFile
Alike == Permutations({b, c})
\* Bounds: only the first file comes to hold anything else, and one scan at a time
\* has been cancelled.
OthersHoldTheSame == \A p \in {b, c} : file[p].holds # "y"
OneCancelled == \A m, n \in Ids : scan[m].cancelled /\ scan[n].cancelled => m = n
=============================================================================
