---------------------------- MODULE OncePerCycle ----------------------------
(***************************************************************************)
(* What a scoped shuffle promises a listener (crates/player/src/queue/     *)
(* shuffle.rs:7, "every track plays once per cycle"): a track leaves the   *)
(* pending ones only by being played or dropped by the user, a track       *)
(* played in this cycle is heard again only by walking the history, and a  *)
(* new cycle, with everything pending again, starts only when nothing is   *)
(* pending and the listener asked to repeat.                               *)
(***************************************************************************)
EXTENDS Naturals

VARIABLES
  count,      (* the scope's tracks are 1..count            *)
  pending,    (* those still to play in this cycle          *)
  heard,      (* those the history of this cycle holds      *)
  playing,    (* the current one, 0 before the first        *)
  looping     (* whether the scope repeats                  *)

vars == <<count, pending, heard, playing, looping>>

Init ==
  /\ count \in Nat
  /\ pending = 1..count
  /\ heard = {}
  /\ playing = 0
  /\ looping \in BOOLEAN

\* Play a pending track; entries ahead of the current one may be forgotten.
Play(i) ==
  /\ i \in pending
  /\ pending' = pending \ {i}
  /\ playing' = i
  /\ heard' \subseteq heard \cup {i}
  /\ {playing, i} \ {0} \subseteq heard'
  /\ UNCHANGED <<count, looping>>

\* Walk back or forward through the history.
Replay(i) ==
  /\ i \in heard
  /\ playing' = i
  /\ UNCHANGED <<count, pending, heard, looping>>

NewCycle(i) ==
  /\ looping
  /\ pending = {}
  /\ i \in 1..count
  /\ pending' = 1..count \ {i}
  /\ heard' = {i}
  /\ playing' = i
  /\ UNCHANGED <<count, looping>>

Add ==
  /\ count' = count + 1
  /\ pending' = pending \cup {count + 1}
  /\ UNCHANGED <<heard, playing, looping>>

Drop(i) ==
  /\ i \in pending
  /\ pending' = pending \ {i}
  /\ UNCHANGED <<count, heard, playing, looping>>

SetLooping ==
  /\ looping' \in BOOLEAN
  /\ UNCHANGED <<count, pending, heard, playing>>

Next ==
  \/ \E i \in 1..count : Play(i) \/ Replay(i) \/ NewCycle(i) \/ Drop(i)
  \/ Add
  \/ SetLooping

Spec == Init /\ [][Next]_vars
=============================================================================
