------------------------------- MODULE Orders -------------------------------
(***************************************************************************)
(* Navigation orders: permutations of a list's indices, as both kinds of   *)
(* queue in crates/player/src/queue draw and walk them.                    *)
(*                                                                         *)
(* Indices and slots count from 1 here and from 0 in the code, so that     *)
(* None, an absent Option<usize>, can be 0.                                *)
(***************************************************************************)
EXTENDS Naturals, Sequences, SequencesExt

None == 0
RepeatMode == {"Off", "All", "One"}

Identity(n) == [i \in 1..n |-> i]

\* is_permutation: right length, every index in range, none seen twice.
IsPermutation(order, n) ==
  /\ Len(order) = n
  /\ \A s \in 1..n : order[s] \in 1..n
  /\ \A s, t \in 1..n : order[s] = order[t] => s = t

\* What SliceRandom::shuffle may leave of 0..n.
Orders(n) == {order \in [1..n -> 1..n] : IsPermutation(order, n)}

\* order.iter().position(|&i| i == index), for an index the order holds.
SlotOf(order, index) == CHOOSE s \in 1..Len(order) : order[s] = index
=============================================================================
