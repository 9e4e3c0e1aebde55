------------------------------- MODULE Player -------------------------------
(***************************************************************************)
(* The playback engine of crates/player/src/player: transport, loading of  *)
(* tracks on worker threads, end-of-track handling and listen accounting   *)
(* around a queue source.                                                  *)
(*                                                                         *)
(* Player's methods run one at a time on the UI thread.  Concurrent with   *)
(* them are the workers opening files, the audio backend reaching the end  *)
(* of a track, and the clock.  A method that calls several others in turn  *)
(* is the composition of operators on the player record.                   *)
(***************************************************************************)
EXTENDS QueueSource

CONSTANTS
  Lists,        (* the track lists a call may hand over                    *)
  Faults,       (* what may fail: see Failures                             *)
  Settings,     (* values of volume and tracker settings                   *)
  MaxItems,     (* bound: the longest queue a call builds                  *)
  MaxCalls,     (* bound: the calls of the user interface                  *)
  MaxTime       (* bound: the last reading of the clock                    *)

ASSUME ListsAssumption == Lists \subseteq Seq(Tracks)
\* Opening a file, spawning the worker for it, the worker itself, and what the
\* audio backend may refuse of an open channel.
Failures == {"open", "spawn", "panic", "play", "pause", "stop", "settings"}
ASSUME FaultsAssumption == Faults \subseteq Failures
ASSUME SettingsAssumption == Settings # {}
ASSUME BoundsAssumption == MaxItems \in Nat /\ MaxCalls \in Nat /\ MaxTime \in Nat

VARIABLES
  player,       (* the Player                                              *)
  now,          (* Instant::now                                            *)
  calls         (* calls made so far, bounded by MaxCalls                  *)

vars == <<player, now, calls>>

NoSetting == "unset"
Refused == "refused"
Unloaded == [path |-> NoTrack, chan |-> "stopped", applied |-> NoSetting, refused |-> "nothing"]
NotOpening == [path |-> NoTrack, outcome |-> "none"]
NoResume == [path |-> NoTrack, intent |-> "none"]

\* The path of a resume, what a channel does, the settings it took and what it
\* refused, and that the queue ran out are history: no method reads them.
PlayerType(p) ==
  /\ SourceOK(p.source)
  /\ p.state \in {"Stopped", "Playing", "Paused"}
  /\ p.settings \in Settings
  /\ p.current \in {Unloaded} \cup
       [path: Tracks, chan: {"playing", "paused", "stopped", "ended"},
        applied: Settings \cup {Refused}, refused: {"nothing", "pause", "stop"}]
  /\ p.pending \in {NotOpening} \cup
       [path: Tracks, outcome: {"opening", "ready", "failed", "dead"}]
  /\ p.resume \in {NoResume} \cup
       [path: Tracks \cup {NoTrack}, intent: {"play", "pause"}]
  /\ p.ended \subseteq {"own", "stale"}
  /\ p.lastTick \in 0..now /\ p.listened \in Nat
  /\ p.halted \subseteq {"ran out"}

NewPlayer(settings) ==
  [source |-> EmptySource, state |-> "Stopped", settings |-> settings,
   current |-> Unloaded, pending |-> NotOpening, resume |-> NoResume,
   ended |-> {}, lastTick |-> None, listened |-> 0, halted |-> {}]

Loaded(p) == p.current.path # NoTrack
Opening(p) == p.pending.path # NoTrack

\* Whether a call is accepted.
Accepted(call) == IF call \in Faults THEN BOOLEAN ELSE {TRUE}

(***************************************************************************)
(* The steps the methods are made of.                                      *)
(***************************************************************************)
SetState(p, state) == [p EXCEPT !.state = state]

\* drop_current_and_account.  The channel is closed with the track, whatever
\* the stop before it says.  An end signal already sent outlives the track it
\* came from; PlayFinished takes the listened time with it.
DropCurrentKeepsResume(p) ==             \* mutant: a pending resume survives
  [p EXCEPT !.current = Unloaded, !.listened = 0, !.lastTick = None,
            !.ended = IF @ = {} THEN {} ELSE {"stale"}]
DropCurrent(p) ==
  [p EXCEPT !.current = Unloaded, !.listened = 0, !.lastTick = None,
            !.resume = NoResume,
            !.ended = IF @ = {} THEN {} ELSE {"stale"}]

\* start_open.  The receiver of an earlier open is dropped with its result;
\* when no thread can be spawned it stays.
StartOpen(p, path, spawned) ==
  IF spawned THEN [p EXCEPT !.pending = [path |-> path, outcome |-> "opening"]]
  ELSE p

OpenCurrentOrStop(p, path, spawned) ==
  IF path = NoTrack THEN [p EXCEPT !.state = "Stopped", !.halted = @ \cup {"ran out"}]
  ELSE StartOpen([p EXCEPT !.halted = @ \ {"ran out"}], path, spawned)

Spawns == Accepted("spawn")

\* Move to the outcome of a navigating operation and open what it found.
GoTo(p, outcome, spawned) ==
  OpenCurrentOrStop([p EXCEPT !.source = outcome.source], outcome.path, spawned)

(***************************************************************************)
(* tick: a finished open, then end signals, then listen time.              *)
(***************************************************************************)

\* A channel that opened and may or may not start.  When it refuses the
\* settings, or the pause of a restored track, it is loaded all the same.
Ready(p, plays, pauses, applies) ==
  LET opened == [p EXCEPT !.pending = NotOpening, !.resume = NoResume]
      paused == p.resume.intent = "pause"
  IN  IF ~plays THEN opened
      ELSE [opened EXCEPT
              !.current  = [path    |-> p.pending.path,
                            applied |-> IF applies THEN p.settings ELSE Refused,
                            chan    |-> IF paused /\ pauses THEN "paused" ELSE "playing",
                            refused |-> IF paused /\ ~pauses THEN "pause" ELSE "nothing"],
              !.lastTick = IF paused THEN None ELSE now,
              !.state    = IF paused THEN "Paused" ELSE "Playing"]

Opened(p) ==
  UNION {{Ready(p, plays, pauses, applies) : plays \in Accepted("play")} :
           pauses \in Accepted("pause"), applies \in Accepted("settings")}

\* A scoped shuffle skips an unreadable track, an explicit queue stops.
Failed(p, spawned) ==
  LET failed == [p EXCEPT !.pending = NotOpening, !.resume = NoResume]
  IN  IF IsShuffle(p.source)
      THEN {GoTo(failed, outcome, spawned) : outcome \in AdvanceSkip(p.source)}
      ELSE {SetState(failed, "Stopped")}

ProcessPendingOpen(p) ==
  CASE p.pending.outcome = "ready"  -> Opened(p)
    [] p.pending.outcome = "failed" -> UNION {Failed(p, spawned) : spawned \in Spawns}
    [] p.pending.outcome = "dead"   -> {[p EXCEPT !.pending = NotOpening, !.resume = NoResume]}
    [] OTHER                        -> {p}

Accrue(p) ==
  IF p.state = "Playing"
  THEN [p EXCEPT !.lastTick = now,
                 !.listened = IF p.lastTick = None THEN @ ELSE @ + (now - p.lastTick)]
  ELSE [p EXCEPT !.lastTick = None]

\* The end of the current track: repeat-one opens it again, else advance.
HandleTrackEnded(p) ==
  LET dropped == DropCurrent(Accrue(p))
  IN  IF p.source.queue.repeat = "One"
      THEN {StartOpen(dropped, p.current.path, spawned) : spawned \in Spawns}
      ELSE {GoTo(dropped, outcome, spawned) :
              outcome \in Advance(p.source), spawned \in Spawns}

ProcessEndSignals(p) ==
  LET drained == [p EXCEPT !.ended = {}]
  IN  IF p.ended # {} /\ Loaded(p) THEN HandleTrackEnded(drained) ELSE {drained}

TickResults(p) ==
  {Accrue(r) : r \in UNION {ProcessEndSignals(q) : q \in ProcessPendingOpen(p)}}

Tick ==
  /\ player' \in TickResults(player)
  /\ UNCHANGED <<now, calls>>

(***************************************************************************)
(* Transport calls.                                                        *)
(***************************************************************************)

\* One call of the user interface with one of the given results.
Call(results) ==
  /\ calls < MaxCalls
  /\ calls' = calls + 1
  /\ player' \in results
  /\ UNCHANGED now

\* A call that asks for sound ends any wish for silence.
Wanting(p) == [p EXCEPT !.halted = {}]

\* The possible results of dropping the current track and going on to one
\* of the outcomes; the user asked for it.
Dropped(p) == DropCurrent(Wanting(p))
Go(p, outcomes) == {GoTo(p, outcome, spawned) : outcome \in outcomes, spawned \in Spawns}

\* A channel that has reached its end may refuse to pause, and so may any;
\* then nothing changes, as when it refuses to play.
PausedAnyway(p) ==                       \* mutant: goes on after a refusal
  {[p EXCEPT !.lastTick = None, !.state = "Paused",
             !.current.chan = IF paused /\ @ # "ended" THEN "paused" ELSE @] :
     paused \in Accepted("pause")}
Paused(p) ==
  LET ended == p.current.chan = "ended"
  IN  {[p EXCEPT !.lastTick = None, !.state = "Paused",
                 !.current.chan = IF ended THEN "ended" ELSE "paused"]}
        \cup (IF ended \/ "pause" \in Faults THEN {p} ELSE {})

Played(p) ==
  {IF plays THEN [p EXCEPT !.lastTick = now, !.state = "Playing",
                           !.current.chan = "playing", !.current.refused = "nothing"]
   ELSE p : plays \in Accepted("play")}

PlayPause ==
  /\ Loaded(player)
  /\ Call(IF player.state = "Playing" THEN Paused(player) ELSE Played(player))

\* A stop that the channel refuses is shown as one all the same.
Stopped(p, stops) ==
  [p EXCEPT !.lastTick = None, !.state = "Stopped",
            !.current.chan    = IF stops THEN "stopped" ELSE @,
            !.current.refused = IF stops THEN "nothing" ELSE "stop"]
Stop ==
  Call({Stopped(player, stops) :
          stops \in IF Loaded(player) THEN Accepted("stop") ELSE {TRUE}})

Skip == Call(Go(Dropped(player), Advance(player.source)))

\* Past the first seconds of a track, previous seeks to its start.
Previous ==
  \/ Loaded(player) /\ Call({player})
  \/ Call(Go(Dropped(player), {Retreat(player.source)}))

SetSettingsForLater ==                   \* mutant: the loaded channel is left out
  \E settings \in Settings : Call({[player EXCEPT !.settings = settings]})
SetSettings ==
  \E settings \in Settings :
    Call({[player EXCEPT !.settings = settings,
                         !.current.applied = IF ~Loaded(player) THEN @
                             ELSE IF applies THEN settings ELSE Refused] :
            applies \in Accepted("settings")})

(***************************************************************************)
(* Queue calls.                                                            *)
(***************************************************************************)
WithSource(p, sources) == {[p EXCEPT !.source = source] : source \in sources}

ReplaceAndPlay ==
  \E items \in Lists, start \in 1..MaxItems :
    Call(Go(Dropped(player), Replace(player.source, items, start)))

\* The resume is set even when the list turns out to hold no track.
WithResume(p, path, intent) == [p EXCEPT !.resume = [path |-> path, intent |-> intent]]
ReplaceAndPlayAt ==
  \E items \in Lists, start \in 1..MaxItems, intent \in {"play", "pause"} :
    Call(UNION {Go(WithResume(Dropped(player), outcome.path, intent), {outcome}) :
                  outcome \in Replace(player.source, items, start)})

\* restore_queue runs once, at startup, with what an earlier session saved:
\* an explicit queue at its current track, or a scope at its first.
Saved ==
  (UNION {Replace(EmptySource, items, start) : items \in Lists, start \in 1..MaxItems})
    \cup (UNION {UNION {Advance(Scoped(s)) : s \in S!New(items, "Off")} : items \in Lists})
RestoreQueue ==
  /\ calls = 0
  /\ \E saved \in Saved, intent \in {"play", "pause"} :
       IF saved.path = NoTrack
       THEN Call({[SetState(Dropped(player), "Stopped") EXCEPT !.source = saved.source,
                                                               !.halted = {"ran out"}]})
       ELSE Call(Go(WithResume(Dropped(player), saved.path, intent), {saved}))

PlayShuffled ==
  \E scope \in Lists :
    Call(Go(Dropped(player),
            UNION {Advance(Scoped(s)) : s \in S!New(scope, player.source.queue.repeat)}))

HasRoom == Len(player.source.queue.items) < MaxItems
DoEnqueue ==
  /\ HasRoom
  /\ \E track \in Tracks : Call(WithSource(player, Enqueue(player.source, track)))
DoPlayNext ==
  /\ HasRoom
  /\ \E track \in Tracks : Call(WithSource(player, PlayNext(player.source, track)))

\* When the current path changes, playback moves on to the new one.
DoRemoveKeepsTrack ==                      \* mutant: the loaded track is not dropped
  \E index \in 1..MaxItems :
    LET source == RemoveItem(player.source, index)
    IN  IF Current(source) = Current(player.source) THEN Call(WithSource(player, {source}))
        ELSE Call(Go(Wanting(player), {Found(source)}))
DoRemoveStays ==                         \* mutant: playback does not move on
  \E index \in 1..MaxItems :
    Call(WithSource(player, {RemoveItem(player.source, index)}))
DoRemove ==
  \E index \in 1..MaxItems :
    LET source == RemoveItem(player.source, index)
    IN  IF Current(source) = Current(player.source) THEN Call(WithSource(player, {source}))
        ELSE Call(Go(Dropped(player), {Found(source)}))

DoMoveTrack ==
  \E from, to \in 1..MaxItems :
    Call(WithSource(player, {MoveTrack(player.source, from, to)}))

DoSetRepeatMode ==
  \E mode \in RepeatMode : Call(WithSource(player, {SetRepeatMode(player.source, mode)}))

\* Ending a scope leaves its current track as a one-item queue.
EndShuffleScope(source) ==
  LET queue == [EmptySource EXCEPT !.queue.repeat = source.queue.repeat]
  IN  IF Current(source) = NoTrack THEN {queue}
      ELSE {outcome.source : outcome \in Replace(queue, <<Current(source)>>, 1)}
DoSetShuffle ==
  \E enabled \in BOOLEAN :
    Call(WithSource(player, IF ~enabled /\ IsShuffle(player.source)
                            THEN EndShuffleScope(player.source)
                            ELSE SetShuffle(player.source, enabled)))

DoJumpTo ==
  \E index \in 1..MaxItems : Call(Go(Dropped(player), {JumpTo(player.source, index)}))

(***************************************************************************)
(* The workers, the audio backend and the clock.                           *)
(***************************************************************************)
Outcomes ==
  {"ready"} \cup (IF "open" \in Faults THEN {"failed"} ELSE {})
            \cup (IF "panic" \in Faults THEN {"dead"} ELSE {})

OpenFinishes ==
  /\ player.pending.outcome = "opening"
  /\ \E outcome \in Outcomes :
       player' = [player EXCEPT !.pending.outcome = outcome]
  /\ UNCHANGED <<now, calls>>

ChannelEnds ==
  /\ player.current.chan = "playing"
  /\ player' = [player EXCEPT !.current.chan = "ended", !.ended = @ \cup {"own"}]
  /\ UNCHANGED <<now, calls>>

Elapse ==
  /\ now < MaxTime
  /\ now' = now + 1
  /\ UNCHANGED <<player, calls>>

Init ==
  /\ \E settings \in Settings : player = NewPlayer(settings)
  /\ now = 1
  /\ calls = 0

Transport == PlayPause \/ Stop \/ Skip \/ Previous \/ SetSettings
QueueCalls ==
  \/ ReplaceAndPlay \/ ReplaceAndPlayAt \/ RestoreQueue \/ PlayShuffled
  \/ DoEnqueue \/ DoPlayNext \/ DoRemove \/ DoMoveTrack
  \/ DoSetRepeatMode \/ DoSetShuffle \/ DoJumpTo
Next == Tick \/ Transport \/ QueueCalls \/ OpenFinishes \/ ChannelEnds \/ Elapse

Spec == Init /\ [][Next]_vars

\* The UI ticks the player once per frame and an open returns in the end.
FairSpec == Spec /\ WF_vars(Tick) /\ WF_vars(OpenFinishes)
=============================================================================
