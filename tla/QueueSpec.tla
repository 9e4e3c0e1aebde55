----------------------------- MODULE QueueSpec -----------------------------
(***************************************************************************)
(* The explicit queue as a state machine: one action per public method of  *)
(* crates/player/src/queue/mod.rs, called in any order.                    *)
(***************************************************************************)
EXTENDS Queue

CONSTANTS
  MaxItems    (* bound: the longest list an action may build *)

ASSUME MaxItemsAssumption == MaxItems \in Nat

VARIABLE queue

\* One past the longest list stands for every index out of range.
Indices == 1..(MaxItems + 1)
Lists == UNION {[1..n -> Tracks] : n \in 0..MaxItems}

Init == queue = EmptyQueue

DoReplace == \E items \in Lists, start \in Indices :
               queue' \in Replace(queue, items, start)
DoEnqueue == /\ Len(queue.items) < MaxItems
             /\ \E track \in Tracks : queue' \in Enqueue(queue, track)
DoPlayNext == /\ Len(queue.items) < MaxItems
              /\ \E track \in Tracks : queue' \in PlayNext(queue, track)
DoRemove == \E index \in Indices : queue' = RemoveItem(queue, index)
DoMoveTrack == \E from, to \in Indices : queue' = MoveTrack(queue, from, to)
DoSetShuffle == \E enabled \in BOOLEAN : queue' \in SetShuffle(queue, enabled)
DoSetRepeat == \E mode \in RepeatMode : queue' = SetRepeatMode(queue, mode)
DoAdvance == queue' = Advance(queue)
DoRetreat == queue' = Retreat(queue)
DoJumpTo == \E index \in Indices : queue' = JumpTo(queue, index)

Next ==
  \/ DoReplace \/ DoEnqueue \/ DoPlayNext \/ DoRemove \/ DoMoveTrack
  \/ DoSetShuffle \/ DoSetRepeat \/ DoAdvance \/ DoRetreat \/ DoJumpTo

Spec == Init /\ [][Next]_queue

(***************************************************************************)
(* The same, started from a session restored from a config.toml the user   *)
(* may have edited by hand: any order and position, in or out of range.    *)
(***************************************************************************)
EditedInit ==
  \E items \in Lists :
    \E order \in UNION {[1..n -> Indices] : n \in 0..Len(items)},
       pos \in 0..(MaxItems + 1), shuffle \in BOOLEAN, repeat \in RepeatMode :
      queue = FromSnapshot([items |-> items, order |-> order, pos |-> pos,
                            shuffle |-> shuffle, repeat |-> repeat])

EditedSpec == EditedInit /\ [][Next]_queue
-----------------------------------------------------------------------------
(***************************************************************************)
(* Properties.                                                             *)
(***************************************************************************)

\* Type invariant and more: whatever the calls, and whatever a hand-edited
\* session held, the order is a permutation of the list's indices and the
\* position is inside it, so no method indexes out of bounds.
QueueOK == WellFormed(queue)

\* "Unshuffled navigation always follows list order directly" (mod.rs:150):
\* with shuffle off the order is the identity, after any mix of edits made
\* while shuffled or not.
ListOrderUnlessShuffled ==
  ~queue.shuffle => queue.order = Identity(Len(queue.items))

\* retreat() "just walks the same permutation backwards" (mod.rs:37): going
\* forward and then back, or back and then forward, returns to the very same
\* queue, the wrap at either end included.
RetreatUndoesAdvance ==
  /\ AdvanceSlot(queue) # None => Retreat(Advance(queue)) = queue
  /\ RetreatSlot(queue) # None => Advance(Retreat(queue)) = queue

\* A session saved on exit and restored on the next launch resumes exactly
\* where it left off (snapshot.rs:3): repairing a snapshot the queue took of
\* itself changes nothing.
SnapshotRoundTrip == FromSnapshot(queue) = queue

\* Queueing, queueing next and (when shuffled) moving a track leave what has
\* been played alone: the paths in slots 1..pos, the current one included,
\* stay, so previous still walks back through what was heard.  Moving a track
\* in the list and switching shuffle on or off never change which track is
\* current (mod.rs:159 "keeping the current track current").
Played(q) == [s \in 1..q.pos |-> q.items[q.order[s]]]
EditsKeepPlayed ==
  \A track \in Tracks, from, to \in Indices, enabled \in BOOLEAN :
    /\ \A edited \in Enqueue(queue, track) \cup PlayNext(queue, track)
                       \cup (IF queue.shuffle THEN {MoveTrack(queue, from, to)} ELSE {}) :
         Played(edited) = Played(queue)
    /\ \A edited \in {MoveTrack(queue, from, to)}
                       \cup (IF queue.pos # None THEN SetShuffle(queue, enabled) ELSE {}) :
         Current(edited) = Current(queue)

\* Removing a track leaves the playing order of the others alone, and when
\* it is the current one that goes the one behind it becomes current
\* (mod.rs:117).
PathsAt(q, indices) == [s \in 1..Len(indices) |-> q.items[indices[s]]]
RemoveKeepsOrder ==
  \A index \in 1..Len(queue.items) :
    LET left == RemoveItem(queue, index)
        kept == RemoveAt(queue.order, SlotOf(queue.order, index))
        due  == IF CurrentItemIndex(queue) # index THEN <<CurrentItemIndex(queue)>>
                ELSE Upcoming(queue)
    IN  /\ PathsAt(left, left.order) = PathsAt(queue, kept)
        /\ Current(left) = IF due \in {<<>>, <<None>>} THEN NoTrack
                           ELSE queue.items[due[1]]

\* A track queued to play next plays next, as long as shuffle is off.
PlaysNext(q, track) ==
  Upcoming(q) # <<>> /\ q.items[Upcoming(q)[1]] = track
PlayNextIsNextInList ==
  queue.pos # None /\ ~queue.shuffle =>
    \A track \in Tracks : \A q \in PlayNext(queue, track) : PlaysNext(q, track)

\* What comes up next is what the edits of the list say.
EditsKeepUpcoming == RemoveKeepsOrder /\ PlayNextIsNextInList
=============================================================================
