---------------------------- MODULE QueueSource ----------------------------
(***************************************************************************)
(* Where the player's next track comes from (crates/player/src/queue/      *)
(* source.rs): an explicit queue or a scoped shuffle, behind one set of    *)
(* operations.  A navigating operation denotes the set of its outcomes: a  *)
(* source and the path it returned, NoTrack when it returned none.         *)
(***************************************************************************)
EXTENDS Orders

CONSTANTS
  Tracks,   (* the paths a source can hold                *)
  NoTrack   (* the absent path, Option::<PathBuf>::None   *)

ASSUME NoTrackAssumption == NoTrack \notin Tracks

Q == INSTANCE Queue
S == INSTANCE Shuffle

Explicit(queue) == [kind |-> "explicit", queue |-> queue]
Scoped(scope) == [kind |-> "shuffle", queue |-> scope]

EmptySource == Explicit(Q!EmptyQueue)
IsShuffle(source) == source.kind = "shuffle"
SourceOK(source) ==
  IF IsShuffle(source) THEN source.queue \in S!SourceType
  ELSE source.kind = "explicit" /\ Q!WellFormed(source.queue)

Current(source) ==
  IF IsShuffle(source) THEN S!Current(source.queue) ELSE Q!Current(source.queue)

Found(source) == [source |-> source, path |-> Current(source)]
NotFound(source) == [source |-> source, path |-> NoTrack]

(***************************************************************************)
(* Navigation.                                                             *)
(***************************************************************************)
Advance(source) ==
  LET q == source.queue
  IN  IF IsShuffle(source)
      THEN IF S!Moves(q, TRUE) = {} THEN {NotFound(source)}
           ELSE {Found(Scoped(s)) : s \in S!Moves(q, TRUE)}
      ELSE {IF Q!AdvanceSlot(q) = None THEN NotFound(source)
            ELSE Found(Explicit(Q!Advance(q)))}

\* Past a track that cannot be opened: never reshuffles.
AdvanceSkipReshuffles(source) == Advance(source)   \* mutant: skips with advance
AdvanceSkip(source) ==
  IF IsShuffle(source)
  THEN IF S!Moves(source.queue, FALSE) = {} THEN {NotFound(source)}
       ELSE {Found(Scoped(s)) : s \in S!Moves(source.queue, FALSE)}
  ELSE Advance(source)

Retreat(source) ==
  LET q == source.queue
  IN  IF IsShuffle(source)
      THEN IF S!CanRetreat(q) THEN Found(Scoped(S!Retreat(q)))
           ELSE NotFound(source)
      ELSE IF Q!RetreatSlot(q) = None THEN NotFound(source)
           ELSE Found(Explicit(Q!Retreat(q)))

JumpTo(source, index) ==
  LET q == source.queue
  IN  IF IsShuffle(source)
      THEN IF S!InBag(q, index) THEN Found(Scoped(S!JumpTo(q, index)))
           ELSE NotFound(source)
      ELSE IF Q!JumpSlot(q, index) = None THEN NotFound(source)
           ELSE Found(Explicit(Q!JumpTo(q, index)))

(***************************************************************************)
(* Edits.                                                                  *)
(***************************************************************************)

\* An explicit list, keeping the shuffle flag only of an explicit queue.
Replace(source, items, start) ==
  LET base == IF IsShuffle(source)
              THEN [Q!EmptyQueue EXCEPT !.repeat = source.queue.repeat]
              ELSE source.queue
  IN  {Found(Explicit(q)) : q \in Q!Replace(base, items, start)}

Enqueue(source, track) ==
  IF IsShuffle(source) THEN {Scoped(S!Enqueue(source.queue, track))}
  ELSE {Explicit(q) : q \in Q!Enqueue(source.queue, track)}

PlayNext(source, track) ==
  IF IsShuffle(source) THEN {Scoped(S!PlayNext(source.queue, track))}
  ELSE {Explicit(q) : q \in Q!PlayNext(source.queue, track)}

RemoveItem(source, index) ==
  IF IsShuffle(source) THEN Scoped(S!RemoveItem(source.queue, index))
  ELSE Explicit(Q!RemoveItem(source.queue, index))

\* Reordering and the shuffle flag are the explicit queue's alone.
MoveTrack(source, from, to) ==
  IF IsShuffle(source) THEN source
  ELSE Explicit(Q!MoveTrack(source.queue, from, to))

SetShuffle(source, enabled) ==
  IF IsShuffle(source) THEN {source}
  ELSE {Explicit(q) : q \in Q!SetShuffle(source.queue, enabled)}

SetRepeatMode(source, mode) == [source EXCEPT !.queue.repeat = mode]
=============================================================================
