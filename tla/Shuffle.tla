------------------------------ MODULE Shuffle ------------------------------
(***************************************************************************)
(* The lazy shuffle over a scope of crates/player/src/queue/shuffle.rs as  *)
(* a data type: the scope, a bag of indices still to play in this cycle    *)
(* (the next one is the bag's last), the history of indices played in it,  *)
(* the cursor on the current entry of the history and the repeat mode.     *)
(* The cursor of an empty history rests on its first slot to come.         *)
(***************************************************************************)
EXTENDS Orders

CONSTANTS
  Tracks,   (* the paths a scope can hold                 *)
  NoTrack   (* the absent path, Option::<PathBuf>::None   *)

ASSUME NoTrackAssumption == NoTrack \notin Tracks

SourceType ==
  [items: Seq(Tracks), bag: Seq(Nat), history: Seq(Nat), cursor: Nat,
   repeat: RepeatMode]

CurrentItemIndex(q) ==
  IF q.cursor <= Len(q.history) THEN q.history[q.cursor] ELSE None
Current(q) ==
  IF CurrentItemIndex(q) = None THEN NoTrack ELSE q.items[CurrentItemIndex(q)]

\* The indices not yet played, in the order they will be.
Upcoming(q) == Reverse(q.bag)

New(items, repeat) ==
  {[items |-> items, bag |-> bag, history |-> <<>>, cursor |-> 1,
    repeat |-> repeat] : bag \in Orders(Len(items))}

SetRepeatMode(q, mode) == [q EXCEPT !.repeat = mode]

(***************************************************************************)
(* Navigation.                                                             *)
(***************************************************************************)

\* A new current track drops the history ahead of the one it follows.
PlayFreshDropsCurrent(q, index) ==       \* mutant: truncates one entry too many
  LET kept == SubSeq(q.history, 1, q.cursor - 1)
  IN  [q EXCEPT !.history = Append(kept, index), !.cursor = Len(kept) + 1]
PlayFresh(q, index) ==
  LET kept == IF q.history = <<>> THEN <<>> ELSE SubSeq(q.history, 1, q.cursor)
  IN  [q EXCEPT !.history = Append(kept, index), !.cursor = Len(kept) + 1]

CanReplay(q) == q.cursor < Len(q.history)
ReplayForward(q) == [q EXCEPT !.cursor = @ + 1]

\* A new cycle: the whole scope back in the bag, the history forgotten.
ReshuffleForgetsLast(q) ==               \* mutant: the range ends one short
  {[q EXCEPT !.history = <<>>, !.cursor = 1, !.bag = bag] :
     bag \in Orders(IF Len(q.items) > 1 THEN Len(q.items) - 1 ELSE 1)}
Reshuffle(q) ==
  {[q EXCEPT !.history = <<>>, !.cursor = 1, !.bag = bag] :
     bag \in Orders(Len(q.items))}

DrawLast(q) == PlayFresh([q EXCEPT !.bag = Front(@)], Last(q.bag))

MayReshuffle(q) == q.repeat = "All" /\ q.items # <<>>

\* The sources a draw may leave, none when the method returns no path.
DrawFromBagReshuffles(q, reshuffle) ==   \* mutant: a skip reshuffles as well
  IF q.bag # <<>> THEN {DrawLast(q)}
  ELSE IF MayReshuffle(q) THEN {DrawLast(r) : r \in Reshuffle(q)} ELSE {}
DrawFromBag(q, reshuffle) ==
  IF q.bag # <<>> THEN {DrawLast(q)}
  ELSE IF reshuffle /\ MayReshuffle(q) THEN {DrawLast(r) : r \in Reshuffle(q)}
  ELSE {}

\* advance and advance_skip: forward through the history, then the bag.
Moves(q, reshuffle) ==
  IF CanReplay(q) THEN {ReplayForward(q)} ELSE DrawFromBag(q, reshuffle)

OrStay(q, moves) == IF moves = {} THEN {q} ELSE moves
Advance(q) == OrStay(q, Moves(q, TRUE))
AdvanceSkip(q) == OrStay(q, Moves(q, FALSE))

CanRetreat(q) == q.cursor > 1
Retreat(q) == IF CanRetreat(q) THEN [q EXCEPT !.cursor = @ - 1] ELSE q

InBag(q, index) == \E s \in 1..Len(q.bag) : q.bag[s] = index
TakeOut(q, index) == [q EXCEPT !.bag = RemoveAt(@, SlotOf(@, index))]

\* Only an upcoming track can be jumped to.
JumpToLeavesBag(q, index) ==             \* mutant: the track stays in the bag
  IF InBag(q, index) THEN PlayFresh(q, index) ELSE q
JumpTo(q, index) ==
  IF InBag(q, index) THEN PlayFresh(TakeOut(q, index), index) ELSE q

(***************************************************************************)
(* Changing what the source holds.                                         *)
(***************************************************************************)

\* Only an upcoming track can be removed, and the scope keeps it.
RemoveItem(q, index) == IF InBag(q, index) THEN TakeOut(q, index) ELSE q

Enqueue(q, track) ==
  [q EXCEPT !.items = Append(@, track), !.bag = <<Len(q.items) + 1>> \o @]
PlayNext(q, track) ==
  [q EXCEPT !.items = Append(@, track), !.bag = Append(@, Len(q.items) + 1)]

\* ShuffleSource::from_snapshot: indices out of range are dropped, the
\* cursor is brought back onto the history.
Sanitize(indices, n) == SelectSeq(indices, LAMBDA i : i \in 1..n)
FromSnapshot(snapshot) ==
  LET n == Len(snapshot.items)
      history == Sanitize(snapshot.history, n)
  IN  [snapshot EXCEPT
         !.history = history,
         !.bag     = Sanitize(@, n),
         !.cursor  = IF @ <= Len(history) THEN @
                     ELSE IF history = <<>> THEN 1 ELSE Len(history)]
=============================================================================
