----------------------------- MODULE MCStarSync -----------------------------
\* Instances of the star sync for TLC.

EXTENDS StarSyncSpec

CONSTANTS a, d1

\* The local files are copies of the same track, on the first desktop.
MatchAll == [x \in Files |-> a]
OwnedByFirst == [x \in Files |-> d1]

=============================================================================
