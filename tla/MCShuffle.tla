----------------------------- MODULE MCShuffle -----------------------------
(***************************************************************************)
(* Instances of the scoped shuffle for TLC.  Nothing in shuffle.rs         *)
(* compares paths, so one path stands for all of them.                     *)
(***************************************************************************)
EXTENDS ShuffleSpec

\* Scopes of every length up to two, or three, tracks.
ScopesToTwo == UNION {[1..n -> Tracks] : n \in 0..2}
ScopesToThree == UNION {[1..n -> Tracks] : n \in 0..3}
=============================================================================
