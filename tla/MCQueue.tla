------------------------------ MODULE MCQueue ------------------------------
(***************************************************************************)
(* Instances of the explicit queue for TLC.  Tracks are interchangeable,   *)
(* so they form a symmetry set in the safety runs.                         *)
(***************************************************************************)
EXTENDS QueueSpec

TrackSymmetry == Permutations(Tracks)
=============================================================================
