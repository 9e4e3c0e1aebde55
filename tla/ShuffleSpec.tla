---------------------------- MODULE ShuffleSpec ----------------------------
(***************************************************************************)
(* The scoped shuffle as a state machine: one action per public method of  *)
(* crates/player/src/queue/shuffle.rs, called in any order.                *)
(***************************************************************************)
EXTENDS Shuffle

CONSTANTS
  Scopes,     (* the scopes a shuffle may be started over        *)
  MaxItems    (* bound: the longest scope an action may build    *)

ASSUME ScopesAssumption == Scopes \subseteq Seq(Tracks)
ASSUME MaxItemsAssumption == MaxItems \in Nat

VARIABLE source

vars == source

Indices == 1..(MaxItems + 1)

Init ==
  \E items \in Scopes, repeat \in RepeatMode : source \in New(items, repeat)

DoAdvance == source' \in Advance(source)
DoAdvanceSkip == source' \in AdvanceSkip(source)
DoRetreat == source' = Retreat(source)
DoJumpTo == \E index \in Indices :
              source' = JumpTo(source, index)
DoRemove == \E index \in Indices :
              source' = RemoveItem(source, index)
DoEnqueue == /\ Len(source.items) < MaxItems
             /\ \E track \in Tracks : source' = Enqueue(source, track)
DoPlayNext == /\ Len(source.items) < MaxItems
              /\ \E track \in Tracks : source' = PlayNext(source, track)
DoSetRepeat == \E mode \in RepeatMode :
                 source' = SetRepeatMode(source, mode)

Next ==
  \/ DoAdvance \/ DoAdvanceSkip \/ DoRetreat \/ DoJumpTo
  \/ DoRemove \/ DoEnqueue \/ DoPlayNext \/ DoSetRepeat

Spec == Init /\ [][Next]_vars

(***************************************************************************)
(* The same, started from a scope restored from a config.toml the user may *)
(* have edited by hand.                                                    *)
(***************************************************************************)
EditedInit ==
  \E items \in Scopes, repeat \in RepeatMode, cursor \in Indices :
    \E bag, history \in UNION {[1..n -> Indices] : n \in 0..Len(items)} :
      source = FromSnapshot([items |-> items, bag |-> bag, history |-> history,
                             cursor |-> cursor, repeat |-> repeat])

EditedSpec == EditedInit /\ [][Next]_vars
-----------------------------------------------------------------------------
(***************************************************************************)
(* Properties.                                                             *)
(***************************************************************************)

\* Type invariant and more, edited snapshots included: every index names a
\* track of the scope, and the cursor rests on the history if it has any.
InRange(q) ==
  /\ q \in SourceType
  /\ \A s \in 1..Len(q.bag) : q.bag[s] \in 1..Len(q.items)
  /\ \A s \in 1..Len(q.history) : q.history[s] \in 1..Len(q.items)
  /\ q.cursor >= 1
  /\ q.cursor <= Len(q.history) \/ (q.history = <<>> /\ q.cursor = 1)
ShuffleInRange == InRange(source)

\* Bag and history never hold an index twice, so no track is drawn twice in
\* a cycle whatever jumps, removals and insertions happen in between.
NoneTwice(q) ==
  /\ IsInjective(q.bag) /\ IsInjective(q.history)
  /\ ToSet(q.bag) \cap ToSet(q.history) = {}
NoTrackTwice == NoneTwice(source)

\* The scope implements its promise to the listener.
Promise == INSTANCE OncePerCycle WITH
  count   <- Len(source.items),
  pending <- ToSet(source.bag),
  heard   <- ToSet(source.history),
  playing <- CurrentItemIndex(source),
  looping <- source.repeat = "All"
PlaysOncePerCycle == Promise!Spec

\* "previous walks back through" the history (shuffle.rs:10): back and then
\* forward is the very same source, and forward and then back is the same
\* track unless a new cycle forgot the history.
RetreatUndoesAdvance ==
  /\ CanRetreat(source) => Advance(Retreat(source)) = {source}
  /\ CurrentItemIndex(source) # None /\ Moves(source, FALSE) # {} =>
       \A q \in Advance(source) :
         CurrentItemIndex(Retreat(q)) = CurrentItemIndex(source)

\* advance_skip never loops ("an all-offline scope can't loop forever",
\* shuffle.rs:137): what is left to visit shrinks with every skip.
LeftToVisit(q) == Len(q.bag) + Len(q.history) - q.cursor
SkipTerminates ==
  \A q \in Moves(source, FALSE) :
    LeftToVisit(q) < LeftToVisit(source)
      \/ (source.history = <<>> /\ Len(q.bag) < Len(source.bag))

\* Once the listener leaves a repeating scope to play by itself, every track
\* of it comes round again and again.
Listening == Spec /\ WF_vars(DoAdvance)
EveryTrackPlays ==
  <>[](source.repeat = "All") /\ <>[][DoAdvance]_vars =>
    \A index \in Indices :
      []<>(index \in 1..Len(source.items) => CurrentItemIndex(source) = index)
=============================================================================
