------------------------------- MODULE Queue -------------------------------
(***************************************************************************)
(* The explicit playback queue of crates/player/src/queue/mod.rs as a data *)
(* type: a record holding the track list, the navigation order (always a   *)
(* permutation of the list's indices), the position in that order, the     *)
(* shuffle flag and the repeat mode.  An operation that draws on the       *)
(* queue's random generator denotes the set of queues it may leave.        *)
(***************************************************************************)
EXTENDS Orders

CONSTANTS
  Tracks,   (* the paths a queue can hold                 *)
  NoTrack   (* the absent path, Option::<PathBuf>::None   *)

ASSUME NoTrackAssumption == NoTrack \notin Tracks

(***************************************************************************)
(* The record and what is read from it.                                    *)
(***************************************************************************)
QueueType ==
  [items: Seq(Tracks), order: Seq(Nat), pos: Nat, shuffle: BOOLEAN,
   repeat: RepeatMode]

EmptyQueue ==
  [items |-> <<>>, order |-> <<>>, pos |-> None, shuffle |-> FALSE,
   repeat |-> "Off"]

\* What every operation of the type maintains.
WellFormed(q) ==
  /\ q \in QueueType
  /\ IsPermutation(q.order, Len(q.items))
  /\ q.pos <= Len(q.items)

CurrentItemIndex(q) == IF q.pos = None THEN None ELSE q.order[q.pos]
Current(q) == IF q.pos = None THEN NoTrack ELSE q.items[q.order[q.pos]]

\* The item indices still to come, in the order they will be played.
Upcoming(q) == SubSeq(q.order, q.pos + 1, Len(q.order))

(***************************************************************************)
(* Changing what the queue holds.                                          *)
(***************************************************************************)

\* A fresh order: the identity, or when shuffled a random permutation into
\* whose first slot the kept item is swapped.
RebuildOrder(q, keep) ==
  LET n      == Len(q.items)
      kept   == keep \in 1..n
      orders == IF q.shuffle
                THEN {o \in Orders(n) : kept => o[1] = keep}
                ELSE {Identity(n)}
      slot(o) == IF kept THEN SlotOf(o, keep)
                 ELSE IF n = 0 THEN None ELSE 1
  IN  {[q EXCEPT !.order = o, !.pos = slot(o)] : o \in orders}

Replace(q, items, start) == RebuildOrder([q EXCEPT !.items = items], start)

\* The slots already visited, 1..pos, stay; when shuffled the new track is
\* shuffled in among the others.
OrdersAfterEnqueueFromPos(q) ==          \* mutant: reshuffles the current slot
  LET n == Len(q.items) + 1
      pushed == Append(q.order, n)
  IN  IF q.shuffle
      THEN {o \in Orders(n) : \A s \in 1..(q.pos - 1) : o[s] = pushed[s]}
      ELSE {pushed}
OrdersAfterEnqueue(q) ==
  LET n == Len(q.items) + 1
      pushed == Append(q.order, n)
  IN  IF q.shuffle
      THEN {o \in Orders(n) : \A s \in 1..q.pos : o[s] = pushed[s]}
      ELSE {pushed}

Enqueue(q, track) ==
  {[q EXCEPT !.items = Append(@, track), !.order = o] : o \in OrdersAfterEnqueue(q)}

\* Where the position goes when `slot` is taken out of the order, leaving
\* `left` slots: with the current track gone, to the track behind it if any.
PosAfterRemoveAtEnd(pos, slot, left) ==  \* mutant: forgets the last track
  IF slot < pos THEN pos - 1 ELSE pos
PosAfterRemove(pos, slot, left) ==
  IF slot < pos THEN pos - 1
  ELSE IF slot = pos /\ slot > left THEN None
  ELSE pos

\* With item `index` gone, the items behind it are numbered one less.
CloseGap(order, index) ==
  [s \in 1..Len(order) |-> IF order[s] > index THEN order[s] - 1 ELSE order[s]]

RemoveItem(q, index) ==
  LET slot == SlotOf(q.order, index)
      rest == RemoveAt(q.order, slot)
  IN  IF index \notin 1..Len(q.items) THEN q
      ELSE [q EXCEPT
              !.items = RemoveAt(@, index),
              !.order = CloseGap(rest, index),
              !.pos   = PosAfterRemove(@, slot, Len(rest))]

RemapIndexAfterMove(index, from, to) ==
  IF index = from THEN to
  ELSE IF from < to /\ index > from /\ index <= to THEN index - 1
  ELSE IF to < from /\ index >= to /\ index < from THEN index + 1
  ELSE index

\* A shuffled order keeps its sequence of tracks, any other follows the list.
OrderAfterMoveRemaps(q, from, to) ==     \* mutant: remaps the plain order too
  [s \in 1..Len(q.items) |-> RemapIndexAfterMove(q.order[s], from, to)]
OrderAfterMove(q, from, to) ==
  IF q.shuffle
  THEN [s \in 1..Len(q.items) |-> RemapIndexAfterMove(q.order[s], from, to)]
  ELSE Identity(Len(q.items))

PosAfterMove(q, from, to) ==
  IF q.pos = None THEN None
  ELSE SlotOf(OrderAfterMove(q, from, to),
              RemapIndexAfterMove(CurrentItemIndex(q), from, to))

MoveTrack(q, from, to) ==
  IF from \notin 1..Len(q.items) \/ to \notin 1..Len(q.items) \/ from = to THEN q
  ELSE [q EXCEPT !.items = InsertAt(RemoveAt(@, from), to, q.items[from]),
                 !.order = OrderAfterMove(q, from, to),
                 !.pos   = PosAfterMove(q, from, to)]

SetShuffle(q, enabled) ==
  IF q.shuffle = enabled THEN {q}
  ELSE RebuildOrder([q EXCEPT !.shuffle = enabled], CurrentItemIndex(q))

SetRepeatMode(q, mode) == [q EXCEPT !.repeat = mode]

\* QueueSource::play_next on an explicit queue: enqueue, then move the new
\* last item to just behind the current one in the list.
PlayNextTargetBefore(q) == CurrentItemIndex(q)      \* mutant: before the current
PlayNextTarget(q) == CurrentItemIndex(q) + 1

PlayNext(q, track) ==
  LET new == Len(q.items) + 1
  IN  {IF q.pos # None /\ PlayNextTarget(q) < new
       THEN MoveTrack(e, new, PlayNextTarget(q)) ELSE e : e \in Enqueue(q, track)}

(***************************************************************************)
(* Navigation.  The slot an operation moves to is None when the method     *)
(* returns no path, and then the position stays where it is.               *)
(***************************************************************************)
AdvanceSlot(q) ==
  IF q.pos = None THEN None
  ELSE IF q.pos < Len(q.order) THEN q.pos + 1
  ELSE IF q.repeat = "Off" THEN None
  ELSE 1

RetreatSlotWrapsShort(q) ==              \* mutant: wraps one short of the end
  IF q.pos = None THEN None
  ELSE IF q.pos > 1 THEN q.pos - 1
  ELSE IF q.repeat = "Off" \/ Len(q.order) = 1 THEN None
  ELSE Len(q.order) - 1
RetreatSlot(q) ==
  IF q.pos = None THEN None
  ELSE IF q.pos > 1 THEN q.pos - 1
  ELSE IF q.repeat = "Off" THEN None
  ELSE Len(q.order)

JumpSlot(q, index) ==
  IF \E s \in 1..Len(q.order) : q.order[s] = index
  THEN SlotOf(q.order, index) ELSE None

MoveTo(q, slot) == IF slot = None THEN q ELSE [q EXCEPT !.pos = slot]

Advance(q) == MoveTo(q, AdvanceSlot(q))
Retreat(q) == MoveTo(q, RetreatSlot(q))
JumpTo(q, index) == MoveTo(q, JumpSlot(q, index))

\* Queue::from_snapshot: an order that is no permutation becomes the
\* identity, a position out of range becomes None.
FromSnapshotPosShort(snapshot) ==        \* mutant: the last slot is out of range
  LET n == Len(snapshot.items)
  IN  [snapshot EXCEPT
         !.order = IF IsPermutation(@, n) THEN @ ELSE Identity(n),
         !.pos   = IF @ < n THEN @ ELSE None]
FromSnapshot(snapshot) ==
  LET n == Len(snapshot.items)
  IN  [snapshot EXCEPT
         !.order = IF IsPermutation(@, n) THEN @ ELSE Identity(n),
         !.pos   = IF @ <= n THEN @ ELSE None]
=============================================================================
