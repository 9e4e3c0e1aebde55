------------------------------ MODULE MCPlayer ------------------------------
(***************************************************************************)
(* Instances of the player for TLC.                                        *)
(***************************************************************************)
EXTENDS PlayerSpec

\* No track, one, two, and one track listed twice.
ListsToTwo == UNION {[1..n -> Tracks] : n \in 0..2}
=============================================================================
