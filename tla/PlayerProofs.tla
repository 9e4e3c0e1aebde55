---------------------------- MODULE PlayerProofs ----------------------------
(***************************************************************************)
(* What the transport state tells of the loaded track, for queues          *)
(* of any length, any tracks, settings and faults, and any number of       *)
(* calls.  Nothing is needed of the queue for that: whatever track it      *)
(* names, the player drops the one before.  That the loaded track is the   *)
(* queue's current one rests on what is proved of both kinds of queue.     *)
(***************************************************************************)
EXTENDS PlayerSpec, SequenceTheorems, TLAPS

-----------------------------------------------------------------------------
(***************************************************************************)
(* The inductive invariant, stated of one player p.                        *)
(***************************************************************************)
Fields == {"source", "state", "settings", "current", "pending", "resume", "ended",
           "lastTick", "listened", "halted"}

Shape(p) ==
  /\ DOMAIN p = Fields
  /\ DOMAIN p.current = {"path", "chan", "applied", "refused"}
  /\ DOMAIN p.pending = {"path", "outcome"}

\* A channel is loaded only while nothing is being opened, it has the settings
\* of the player or refused them, and the state tells what it does unless the
\* channel refused the pause or the stop that set the state.
LoadedOK(p) ==
  Loaded(p) =>
    /\ ~Opening(p)
    /\ p.current.applied \in {p.settings, Refused}
    /\ \/ /\ p.current.refused = "nothing"
          /\ \/ p.state = "Playing" /\ p.current.chan \in {"playing", "ended"}
             \/ p.state = "Paused"  /\ p.current.chan \in {"paused", "ended"}
             \/ p.state = "Stopped" /\ p.current.chan = "stopped"
       \/ p.current.refused = "pause" /\ p.state = "Paused"
       \/ p.current.refused = "stop"  /\ p.state = "Stopped"

\* Only an open has an outcome.
OutcomeOK(p) == ~Opening(p) => p.pending.outcome = "none"

PlayerOK(p) == Shape(p) /\ LoadedOK(p) /\ OutcomeOK(p)

PlayerInv == PlayerOK(player)

\* A player between two tracks.
Between(p) == PlayerOK(p) /\ ~Loaded(p)

-----------------------------------------------------------------------------
(***************************************************************************)
(* The steps the methods are made of.                                      *)
(***************************************************************************)
LEMMA DropOK ==
  ASSUME NEW p, PlayerOK(p)
  PROVE  Between(DropCurrent(p)) /\ Between(Dropped(p))
<1>1. Between(DropCurrent(p))
  BY DEF PlayerOK, Shape, Fields, LoadedOK, OutcomeOK, Between, Loaded, Opening, DropCurrent, Unloaded
<1>2. PlayerOK(Wanting(p))
  BY DEF PlayerOK, Shape, Fields, LoadedOK, OutcomeOK, Loaded, Opening, Wanting
<1>3. Between(DropCurrent(Wanting(p)))
  BY <1>2 DEF PlayerOK, Shape, Fields, LoadedOK, OutcomeOK, Between, Loaded, Opening, DropCurrent, Unloaded
<1> QED
  BY <1>1, <1>3 DEF Dropped

LEMMA StartOpenOK ==
  ASSUME NEW p, Between(p), NEW path, path # NoTrack, NEW spawned \in BOOLEAN
  PROVE  Between(StartOpen(p, path, spawned))
  BY DEF PlayerOK, Shape, Fields, LoadedOK, OutcomeOK, Between, Loaded, Opening, StartOpen

LEMMA GoToOK ==
  ASSUME NEW p, Between(p), NEW outcome, NEW spawned \in BOOLEAN
  PROVE  Between(GoTo(p, outcome, spawned))
<1> DEFINE m == [p EXCEPT !.source = outcome.source]
           stop == [m EXCEPT !.state = "Stopped", !.halted = @ \cup {"ran out"}]
           go == [m EXCEPT !.halted = @ \ {"ran out"}]
<1>1. Between(m)
  BY DEF PlayerOK, Shape, Fields, LoadedOK, OutcomeOK, Between, Loaded, Opening
<1> HIDE DEF m
<1>2. Between(stop) /\ Between(go)
  BY <1>1 DEF PlayerOK, Shape, Fields, LoadedOK, OutcomeOK, Between, Loaded, Opening
<1> HIDE DEF stop, go
<1>3. outcome.path # NoTrack => Between(StartOpen(go, outcome.path, spawned))
  BY <1>2, StartOpenOK
<1> QED
  BY <1>2, <1>3 DEF GoTo, OpenCurrentOrStop, m, stop, go

LEMMA AccrueOK ==
  ASSUME NEW p, PlayerOK(p)
  PROVE  PlayerOK(Accrue(p))
  BY DEF PlayerOK, Shape, Fields, LoadedOK, OutcomeOK, Loaded, Opening, Accrue

-----------------------------------------------------------------------------
(***************************************************************************)
(* tick.                                                                   *)
(***************************************************************************)

\* While something is being opened, nothing is loaded.
LEMMA OpeningIsBetween ==
  ASSUME NEW p, PlayerOK(p), p.pending.outcome # "none"
  PROVE  Between(p)
  BY DEF PlayerOK, LoadedOK, OutcomeOK, Between

\* The open is over, its resume with it.
LEMMA OverOK ==
  ASSUME NEW p, Between(p)
  PROVE  Between([p EXCEPT !.pending = NotOpening, !.resume = NoResume])
  BY DEF PlayerOK, Shape, Fields, LoadedOK, OutcomeOK, Between, Loaded, Opening, NotOpening

LEMMA ReadyOK ==
  ASSUME NEW p, Between(p), NEW plays \in BOOLEAN, NEW pauses \in BOOLEAN, NEW applies \in BOOLEAN
  PROVE  PlayerOK(Ready(p, plays, pauses, applies))
<1> DEFINE opened == [p EXCEPT !.pending = NotOpening, !.resume = NoResume]
           paused == p.resume.intent = "pause"
           chan == IF paused /\ pauses THEN "paused" ELSE "playing"
           refused == IF paused /\ ~pauses THEN "pause" ELSE "nothing"
           applied == IF applies THEN p.settings ELSE Refused
           state == IF paused THEN "Paused" ELSE "Playing"
           loaded == [opened EXCEPT
                        !.current  = [path |-> p.pending.path, applied |-> applied,
                                      chan |-> chan, refused |-> refused],
                        !.lastTick = IF paused THEN None ELSE now,
                        !.state    = state]
<1>1. Between(opened) /\ ~Opening(opened) /\ opened.settings = p.settings
  BY OverOK DEF Between, PlayerOK, Shape, Fields, Opening, NotOpening
<1>2. \/ refused = "nothing" /\ state = "Playing" /\ chan = "playing"
      \/ refused = "nothing" /\ state = "Paused" /\ chan = "paused"
      \/ refused = "pause" /\ state = "Paused"
  OBVIOUS
<1>3. applied \in {p.settings, Refused}
  OBVIOUS
<1> HIDE DEF opened, chan, refused, applied, state
<1>4. PlayerOK(loaded)
  BY <1>1, <1>2, <1>3 DEF PlayerOK, Shape, Fields, LoadedOK, OutcomeOK, Between, Loaded, Opening
<1> HIDE DEF loaded
<1>5. Ready(p, plays, pauses, applies) = IF ~plays THEN opened ELSE loaded
  BY DEF Ready, opened, loaded, chan, refused, applied, state
<1> QED
  BY <1>1, <1>4, <1>5 DEF Between

LEMMA OpenedAre ==
  ASSUME NEW p, NEW r \in Opened(p)
  PROVE  \E plays \in Accepted("play") : \E pauses \in BOOLEAN : \E applies \in BOOLEAN :
           r = Ready(p, plays, pauses, applies)
<1>1. PICK pauses \in Accepted("pause"), applies \in Accepted("settings") :
        r \in {Ready(p, plays, pauses, applies) : plays \in Accepted("play")}
  BY DEF Opened
<1>2. pauses \in BOOLEAN /\ applies \in BOOLEAN
  BY DEF Accepted
<1>3. PICK plays \in Accepted("play") : r = Ready(p, plays, pauses, applies)
  BY <1>1
<1> QED
  BY <1>2, <1>3

LEMMA FailedOK ==
  ASSUME NEW p, Between(p), NEW spawned \in BOOLEAN, NEW r \in Failed(p, spawned)
  PROVE  Between(r)
<1> DEFINE failed == [p EXCEPT !.pending = NotOpening, !.resume = NoResume]
<1>1. Between(failed)
  BY OverOK
<1> HIDE DEF failed
<1>2. Between(SetState(failed, "Stopped"))
  BY <1>1 DEF PlayerOK, Shape, Fields, LoadedOK, OutcomeOK, Between, Loaded, Opening, SetState
<1>3. \A outcome : Between(GoTo(failed, outcome, spawned))
  BY <1>1, GoToOK
<1> QED
  BY <1>2, <1>3 DEF Failed, failed

LEMMA PendingOK ==
  ASSUME NEW p, PlayerOK(p), NEW r \in ProcessPendingOpen(p)
  PROVE  PlayerOK(r)
<1>1. CASE p.pending.outcome = "ready"
  <2>0. r \in Opened(p)
    BY <1>1 DEF ProcessPendingOpen
  <2>1. PICK plays \in BOOLEAN, pauses \in BOOLEAN, applies \in BOOLEAN :
          r = Ready(p, plays, pauses, applies)
    BY <2>0, OpenedAre DEF Accepted
  <2> QED
    BY <1>1, <2>1, OpeningIsBetween, ReadyOK
<1>2. CASE p.pending.outcome = "failed"
  <2>1. PICK spawned \in BOOLEAN : r \in Failed(p, spawned)
    BY <1>2 DEF ProcessPendingOpen, Spawns, Accepted
  <2> QED
    BY <1>2, <2>1, OpeningIsBetween, FailedOK DEF Between
<1>3. CASE p.pending.outcome = "dead"
  <2>1. r = [p EXCEPT !.pending = NotOpening, !.resume = NoResume]
    BY <1>3 DEF ProcessPendingOpen
  <2> QED
    BY <1>3, <2>1, OpeningIsBetween, OverOK DEF Between
<1>4. CASE p.pending.outcome \notin {"ready", "failed", "dead"}
  BY <1>4 DEF ProcessPendingOpen
<1> QED
  BY <1>1, <1>2, <1>3, <1>4

LEMMA TrackEndedOK ==
  ASSUME NEW p, PlayerOK(p), Loaded(p), NEW r \in HandleTrackEnded(p)
  PROVE  PlayerOK(r)
<1> DEFINE dropped == DropCurrent(Accrue(p))
<1>0. Spawns \subseteq BOOLEAN
  BY DEF Spawns, Accepted
<1>1. Between(dropped)
  BY AccrueOK, DropOK
<1> HIDE DEF dropped
<1>2. p.current.path # NoTrack
  BY DEF Loaded
<1>3. CASE p.source.queue.repeat = "One"
  <2>0. r \in {StartOpen(dropped, p.current.path, spawned) : spawned \in Spawns}
    BY <1>3 DEF HandleTrackEnded, dropped
  <2>1. PICK spawned \in BOOLEAN : r = StartOpen(dropped, p.current.path, spawned)
    BY <1>0, <2>0
  <2> QED
    BY <1>1, <1>2, <2>1, StartOpenOK DEF Between
<1>4. CASE p.source.queue.repeat # "One"
  <2>0. r \in {GoTo(dropped, outcome, spawned) : outcome \in Advance(p.source), spawned \in Spawns}
    BY <1>4 DEF HandleTrackEnded, dropped
  <2>1. PICK outcome \in Advance(p.source), spawned \in BOOLEAN : r = GoTo(dropped, outcome, spawned)
    BY <1>0, <2>0
  <2> QED
    BY <1>1, <2>1, GoToOK DEF Between
<1> QED
  BY <1>3, <1>4

LEMMA EndSignalsOK ==
  ASSUME NEW p, PlayerOK(p), NEW r \in ProcessEndSignals(p)
  PROVE  PlayerOK(r)
<1> DEFINE drained == [p EXCEPT !.ended = {}]
<1>1. PlayerOK(drained) /\ (Loaded(drained) <=> Loaded(p))
  BY DEF PlayerOK, Shape, Fields, LoadedOK, OutcomeOK, Loaded, Opening
<1> HIDE DEF drained
<1>2. CASE p.ended # {} /\ Loaded(p)
  <2>1. r \in HandleTrackEnded(drained)
    BY <1>2 DEF ProcessEndSignals, drained
  <2> QED
    BY <1>1, <1>2, <2>1, TrackEndedOK
<1>3. CASE ~(p.ended # {} /\ Loaded(p))
  BY <1>1, <1>3 DEF ProcessEndSignals, drained
<1> QED
  BY <1>2, <1>3

LEMMA TickOK == ASSUME PlayerInv, Tick PROVE PlayerInv'
<1>1. PICK q \in ProcessPendingOpen(player) : \E r \in ProcessEndSignals(q) : player' = Accrue(r)
  BY DEF Tick, TickResults
<1>2. PICK r \in ProcessEndSignals(q) : player' = Accrue(r)
  BY <1>1
<1>3. PlayerOK(r)
  BY PendingOK, EndSignalsOK DEF PlayerInv
<1>4. PlayerOK(Accrue(r))
  BY <1>3, AccrueOK
<1> QED
  BY <1>2, <1>4 DEF PlayerInv

-----------------------------------------------------------------------------
(***************************************************************************)
(* Calls.                                                                  *)
(***************************************************************************)

\* Going on from a player between two tracks, wherever that leads.
LEMMA GoOK ==
  ASSUME NEW p, Between(p), NEW outcomes, NEW r \in Go(p, outcomes)
  PROVE  PlayerOK(r)
<1>1. PICK outcome \in outcomes, spawned \in Spawns : r = GoTo(p, outcome, spawned)
  BY DEF Go
<1>2. spawned \in BOOLEAN
  BY DEF Spawns, Accepted
<1> QED
  BY <1>1, <1>2, GoToOK DEF Between

\* The queue is no part of the invariant.
LEMMA SourceOnly ==
  ASSUME NEW p, PlayerOK(p), NEW sources, NEW r \in WithSource(p, sources)
  PROVE  PlayerOK(r)
<1>1. PICK source \in sources : r = [p EXCEPT !.source = source]
  BY DEF WithSource
<1> QED
  BY <1>1 DEF PlayerOK, Shape, Fields, LoadedOK, OutcomeOK, Loaded, Opening

LEMMA ResumeOnly ==
  ASSUME NEW p, Between(p), NEW path, NEW intent
  PROVE  Between(WithResume(p, path, intent))
  BY DEF PlayerOK, Shape, Fields, LoadedOK, OutcomeOK, Between, Loaded, Opening, WithResume

\* The transport calls that keep the loaded track, each with its results.
LEMMA TransportIs ==
  ASSUME Shape(player)
  PROVE  /\ PlayPause =>
              \/ player' = player
              \/ /\ player.state = "Playing"
                 /\ player' = [player EXCEPT !.lastTick = None, !.state = "Paused",
                                 !.current.chan = IF player.current.chan = "ended" THEN "ended" ELSE "paused"]
              \/ player' = [player EXCEPT !.lastTick = now, !.state = "Playing",
                              !.current.chan = "playing", !.current.refused = "nothing"]
         /\ Stop => \E stops \in BOOLEAN : player' = Stopped(player, stops)
         /\ SetSettings =>
              \E settings \in Settings : \E applied :
                /\ player' = [player EXCEPT !.settings = settings, !.current.applied = applied]
                /\ Loaded(player) => applied \in {settings, Refused}
<1>1. ASSUME PlayPause
      PROVE  \/ player' = player
             \/ /\ player.state = "Playing"
                /\ player' = [player EXCEPT !.lastTick = None, !.state = "Paused",
                                !.current.chan = IF player.current.chan = "ended" THEN "ended" ELSE "paused"]
             \/ player' = [player EXCEPT !.lastTick = now, !.state = "Playing",
                             !.current.chan = "playing", !.current.refused = "nothing"]
  <2>1. CASE player.state = "Playing"
    <3>1. player' \in Paused(player)
      BY <1>1, <2>1 DEF PlayPause, Call
    <3> QED
      BY <2>1, <3>1 DEF Paused
  <2>2. CASE player.state # "Playing"
    <3>1. player' \in Played(player)
      BY <1>1, <2>2 DEF PlayPause, Call
    <3> QED
      BY <3>1 DEF Played
  <2> QED
    BY <2>1, <2>2
<1>2. ASSUME Stop PROVE \E stops \in BOOLEAN : player' = Stopped(player, stops)
  BY <1>2 DEF Stop, Call, Accepted
<1>3. ASSUME SetSettings
      PROVE  \E settings \in Settings : \E applied :
               /\ player' = [player EXCEPT !.settings = settings, !.current.applied = applied]
               /\ Loaded(player) => applied \in {settings, Refused}
  <2>1. PICK settings \in Settings, applies \in Accepted("settings") :
          player' = [player EXCEPT !.settings = settings,
                       !.current.applied = IF ~Loaded(player) THEN @
                                           ELSE IF applies THEN settings ELSE Refused]
    BY <1>3 DEF SetSettings, Call
  <2> DEFINE applied == IF ~Loaded(player) THEN player.current.applied
                        ELSE IF applies THEN settings ELSE Refused
  <2>2. Loaded(player) => applied \in {settings, Refused}
    OBVIOUS
  <2>3. player' = [player EXCEPT !.settings = settings, !.current.applied = applied]
    BY <2>1 DEF Shape, Fields
  <2> QED
    BY <2>2, <2>3
<1> QED
  BY <1>1, <1>2, <1>3

\* They leave the queue, what is loaded or being opened, and its resume alone.
SameTrack(p, r) ==
  /\ r.source = p.source /\ r.current.path = p.current.path /\ r.pending = p.pending
  /\ r.resume = p.resume /\ r.halted = p.halted

LEMMA TransportKeeps ==
  ASSUME Shape(player), PlayPause \/ Stop \/ SetSettings
  PROVE  /\ SameTrack(player, player')
         /\ player'.state = "Playing" => player.state = "Playing" \/ Loaded(player)
<1>1. CASE PlayPause
  <2>0. Loaded(player)
    BY <1>1 DEF PlayPause
  <2>1. CASE player' = player
    BY <2>0, <2>1 DEF SameTrack
  <2>2. ASSUME NEW chan, player' = [player EXCEPT !.lastTick = None, !.state = "Paused", !.current.chan = chan]
        PROVE  SameTrack(player, player')
    BY <2>2 DEF SameTrack, Shape, Fields
  <2>3. CASE player' = [player EXCEPT !.lastTick = now, !.state = "Playing",
                          !.current.chan = "playing", !.current.refused = "nothing"]
    BY <2>0, <2>3 DEF SameTrack, Shape, Fields
  <2> QED
    BY <1>1, <2>0, <2>1, <2>2, <2>3, TransportIs
<1>2. CASE Stop
  <2>1. PICK stops \in BOOLEAN : player' = Stopped(player, stops)
    BY <1>2, TransportIs
  <2> QED
    BY <2>1 DEF Stopped, SameTrack, Shape, Fields
<1>3. CASE SetSettings
  <2>1. PICK settings \in Settings :
          \E applied : player' = [player EXCEPT !.settings = settings, !.current.applied = applied]
    BY <1>3, TransportIs
  <2>2. PICK applied : player' = [player EXCEPT !.settings = settings, !.current.applied = applied]
    BY <2>1
  <2>3. player'.state = player.state
    BY <2>2 DEF Shape, Fields
  <2>4. SameTrack(player, player')
    BY <2>2 DEF SameTrack, Shape, Fields
  <2> QED
    BY <2>3, <2>4
<1> QED
  BY <1>1, <1>2, <1>3

LEMMA TransportOK == ASSUME PlayerInv, Transport PROVE PlayerInv'
<1>0. PlayerOK(player) /\ Shape(player)
  BY DEF PlayerInv, PlayerOK
<1>1. CASE PlayPause
  <2>1. CASE player' = player
    BY <2>1 DEF PlayerInv
  <2>2. CASE /\ player.state = "Playing"
             /\ player' = [player EXCEPT !.lastTick = None, !.state = "Paused",
                             !.current.chan = IF player.current.chan = "ended" THEN "ended" ELSE "paused"]
    BY <2>2 DEF PlayerInv, PlayerOK, Shape, Fields, LoadedOK, OutcomeOK, Loaded, Opening
  <2>3. CASE player' = [player EXCEPT !.lastTick = now, !.state = "Playing",
                          !.current.chan = "playing", !.current.refused = "nothing"]
    BY <2>3 DEF PlayerInv, PlayerOK, Shape, Fields, LoadedOK, OutcomeOK, Loaded, Opening
  <2> QED
    BY <1>0, <1>1, <2>1, <2>2, <2>3, TransportIs
<1>2. CASE Stop
  <2>1. PICK stops \in BOOLEAN : player' = Stopped(player, stops)
    BY <1>0, <1>2, TransportIs
  <2>2. /\ Shape(player') /\ player'.state = "Stopped" /\ player'.settings = player.settings
        /\ player'.pending = player.pending /\ player'.current.path = player.current.path
        /\ player'.current.applied = player.current.applied
        /\ \/ player'.current.chan = "stopped" /\ player'.current.refused = "nothing"
           \/ player'.current.refused = "stop"
    BY <1>0, <2>1 DEF Stopped, Shape, Fields
  <2> QED
    BY <1>0, <2>2 DEF PlayerInv, PlayerOK, LoadedOK, OutcomeOK, Loaded, Opening
<1>3. CASE Skip
  BY <1>3, DropOK, GoOK DEF Skip, Call, PlayerInv
<1>4. CASE Previous
  BY <1>4, DropOK, GoOK DEF Previous, Call, PlayerInv
<1>5. CASE SetSettings
  <2>1. PICK settings \in Settings :
          \E applied :
            /\ player' = [player EXCEPT !.settings = settings, !.current.applied = applied]
            /\ Loaded(player) => applied \in {settings, Refused}
    BY <1>0, <1>5, TransportIs
  <2>2. PICK applied :
          /\ player' = [player EXCEPT !.settings = settings, !.current.applied = applied]
          /\ Loaded(player) => applied \in {settings, Refused}
    BY <2>1
  <2> QED
    BY <2>2 DEF PlayerInv, PlayerOK, Shape, Fields, LoadedOK, OutcomeOK, Loaded, Opening
<1> QED
  BY <1>1, <1>2, <1>3, <1>4, <1>5 DEF Transport

LEMMA QueueCallsOK == ASSUME PlayerInv, QueueCalls PROVE PlayerInv'
<1>1. PlayerOK(player) /\ Between(Dropped(player))
  BY DropOK DEF PlayerInv
<1>2. ASSUME NEW sources, player' \in WithSource(player, sources) PROVE PlayerInv'
  BY <1>1, <1>2, SourceOnly DEF PlayerInv
<1>3. ASSUME NEW outcomes, player' \in Go(Dropped(player), outcomes) PROVE PlayerInv'
  BY <1>1, <1>3, GoOK DEF PlayerInv
<1>4. ASSUME NEW path, NEW intent, NEW outcomes,
             player' \in Go(WithResume(Dropped(player), path, intent), outcomes)
      PROVE  PlayerInv'
  BY <1>1, <1>4, ResumeOnly, GoOK DEF PlayerInv
<1>5. CASE ReplaceAndPlay \/ PlayShuffled \/ DoJumpTo
  BY <1>3, <1>5 DEF ReplaceAndPlay, PlayShuffled, DoJumpTo, Call
<1>6. CASE ReplaceAndPlayAt
  <2>1. PICK items \in Lists, start \in 1..MaxItems, intent \in {"play", "pause"} :
          player' \in UNION {Go(WithResume(Dropped(player), outcome.path, intent), {outcome}) :
                               outcome \in Replace(player.source, items, start)}
    BY <1>6 DEF ReplaceAndPlayAt, Call
  <2>2. PICK outcome : player' \in Go(WithResume(Dropped(player), outcome.path, intent), {outcome})
    BY <2>1
  <2> QED
    BY <1>4, <2>2
<1>7. CASE RestoreQueue
  <2>1. PICK saved \in Saved, intent \in {"play", "pause"} :
          player' \in IF saved.path = NoTrack
                      THEN {[SetState(Dropped(player), "Stopped") EXCEPT
                               !.source = saved.source, !.halted = {"ran out"}]}
                      ELSE Go(WithResume(Dropped(player), saved.path, intent), {saved})
    BY <1>7 DEF RestoreQueue, Call
  <2>2. CASE saved.path = NoTrack
    BY <1>1, <2>1, <2>2 DEF SetState, PlayerInv, PlayerOK, Shape, Fields, LoadedOK, OutcomeOK, Between, Loaded, Opening
  <2>3. CASE saved.path # NoTrack
    BY <1>4, <2>1, <2>3
  <2> QED
    BY <2>2, <2>3
<1>8. CASE DoEnqueue \/ DoPlayNext \/ DoMoveTrack \/ DoSetRepeatMode
  BY <1>2, <1>8 DEF DoEnqueue, DoPlayNext, DoMoveTrack, DoSetRepeatMode, Call
<1>9. CASE DoSetShuffle
  BY <1>2, <1>9 DEF DoSetShuffle, Call
<1>10. CASE DoRemove
  BY <1>2, <1>3, <1>10 DEF DoRemove, Call
<1> QED
  BY <1>5, <1>6, <1>7, <1>8, <1>9, <1>10 DEF QueueCalls

\* The worker that opens, the audio backend and the clock.
LEMMA OutsideOK == ASSUME PlayerInv, OpenFinishes \/ ChannelEnds \/ Elapse PROVE PlayerInv'
<1>1. CASE OpenFinishes
  BY <1>1 DEF OpenFinishes, PlayerInv, PlayerOK, Shape, Fields, LoadedOK, OutcomeOK, Loaded, Opening
<1>2. CASE ChannelEnds
  BY <1>2 DEF ChannelEnds, PlayerInv, PlayerOK, Shape, Fields, LoadedOK, OutcomeOK, Loaded, Opening
<1>3. CASE Elapse
  BY <1>3 DEF Elapse, PlayerInv, PlayerOK, Shape, Fields, LoadedOK, OutcomeOK, Loaded, Opening
<1> QED
  BY <1>1, <1>2, <1>3

-----------------------------------------------------------------------------

LEMMA InitOK == Init => PlayerInv
  BY DEF Init, NewPlayer, Unloaded, NotOpening, PlayerInv, PlayerOK, Shape, Fields, LoadedOK,
         OutcomeOK, Loaded, Opening

LEMMA NextOK == PlayerInv /\ [Next]_vars => PlayerInv'
<1> SUFFICES ASSUME PlayerInv, [Next]_vars PROVE PlayerInv'
  OBVIOUS
<1>1. CASE UNCHANGED vars
  BY <1>1 DEF vars, PlayerInv
<1>2. CASE Next
  BY <1>2, TickOK, TransportOK, QueueCallsOK, OutsideOK DEF Next
<1> QED
  BY <1>1, <1>2

LEMMA PlayerInvariant == Spec => []PlayerInv
  BY InitOK, NextOK, PTL DEF Spec

\* Whatever the queue, the faults and the calls: no track is opened while one is
\* loaded, so two channels never sound at once (drop_current_and_account).
THEOREM NeverTwoChannels == Spec => []OneChannelAtMost
<1>1. PlayerInv => OneChannelAtMost
  BY DEF PlayerInv, PlayerOK, LoadedOK, OneChannelAtMost
<1> QED
  BY <1>1, PlayerInvariant, PTL

\* What the transport shows of a loaded track is what its channel does, whatever
\* fails, but for a pause of a restored track or a stop that the backend refused
\* last: "playing" is never shown of a channel held, and after the next call the
\* backend accepts the state is true again.
THEOREM StateIsTrue == Spec => []StateIsWhatIsHeard
<1>1. PlayerInv => StateIsWhatIsHeard
  BY DEF PlayerInv, PlayerOK, LoadedOK, StateIsWhatIsHeard, Heard
<1> QED
  BY <1>1, PlayerInvariant, PTL

\* The channel has the settings last chosen, also while it was being opened, or
\* has refused them.
THEOREM SettingsAreApplied == Spec => []SettingsReachChannel
<1>1. PlayerInv => SettingsReachChannel
  BY DEF PlayerInv, PlayerOK, LoadedOK, SettingsReachChannel
<1> QED
  BY <1>1, PlayerInvariant, PTL

-----------------------------------------------------------------------------
(***************************************************************************)
(* The queue, by what is proved of its two kinds.                          *)
(***************************************************************************)
QP == INSTANCE QueueProofs WITH queue <- player.source.queue
SP == INSTANCE ShuffleProofs WITH source <- player.source.queue, Scopes <- Lists

\* Both instances speak of the operators the player uses.
LEMMA QueueIs ==
  /\ QP!EmptyQueue = Q!EmptyQueue
  /\ \A q : /\ QP!WellFormed(q) <=> Q!WellFormed(q)
            /\ QP!Current(q) = Q!Current(q)
            /\ QP!CurrentItemIndex(q) = Q!CurrentItemIndex(q)
            /\ QP!Advance(q) = Q!Advance(q)
            /\ QP!Retreat(q) = Q!Retreat(q)
            /\ \A index : QP!JumpTo(q, index) = Q!JumpTo(q, index)
  BY DEF QP!None, Q!None, QP!EmptyQueue, Q!EmptyQueue, QP!WellFormed, Q!WellFormed, QP!QueueType, Q!QueueType,
     QP!RepeatMode, Q!RepeatMode, QP!IsPermutation, Q!IsPermutation, QP!Current, Q!Current, QP!CurrentItemIndex, Q!CurrentItemIndex,
     QP!Advance, Q!Advance, QP!MoveTo, Q!MoveTo, QP!AdvanceSlot, Q!AdvanceSlot, QP!Retreat, Q!Retreat, QP!RetreatSlot, Q!RetreatSlot,
     QP!JumpTo, Q!JumpTo, QP!JumpSlot, Q!JumpSlot, QP!SlotOf, Q!SlotOf

LEMMA MoveTrackIs == \A q, from, to : QP!MoveTrack(q, from, to) = Q!MoveTrack(q, from, to)
  BY DEF QP!MoveTrack, Q!MoveTrack, QP!OrderAfterMove, Q!OrderAfterMove, QP!PosAfterMove, Q!PosAfterMove,
     QP!RemapIndexAfterMove, Q!RemapIndexAfterMove, QP!CurrentItemIndex, Q!CurrentItemIndex, QP!None, Q!None,
     QP!Identity, Q!Identity, QP!SlotOf, Q!SlotOf, QP!InsertAt, Q!InsertAt, QP!RemoveAt, Q!RemoveAt

LEMMA RemoveItemIs == \A q, index : QP!RemoveItem(q, index) = Q!RemoveItem(q, index)
  BY DEF QP!RemoveItem, Q!RemoveItem, QP!CloseGap, Q!CloseGap, QP!PosAfterRemove, Q!PosAfterRemove,
     QP!None, Q!None, QP!SlotOf, Q!SlotOf, QP!RemoveAt, Q!RemoveAt

LEMMA OrdersIs == \A n : QP!Orders(n) = Q!Orders(n)
  BY DEF QP!Orders, Q!Orders, QP!IsPermutation, Q!IsPermutation

LEMMA RebuildIs == \A q, keep : QP!RebuildOrder(q, keep) = Q!RebuildOrder(q, keep)
<1>1. \A order, index : QP!SlotOf(order, index) = Q!SlotOf(order, index)
  BY DEF QP!SlotOf, Q!SlotOf
<1>2. \A n : QP!Identity(n) = Q!Identity(n)
  BY DEF QP!Identity, Q!Identity
<1> QED
  BY <1>1, <1>2, OrdersIs DEF QP!RebuildOrder, Q!RebuildOrder, QP!None, Q!None

LEMMA EnqueueIs == \A q, track : QP!Enqueue(q, track) = Q!Enqueue(q, track)
<1>1. \A q : QP!OrdersAfterEnqueue(q) = Q!OrdersAfterEnqueue(q)
  BY OrdersIs DEF QP!OrdersAfterEnqueue, Q!OrdersAfterEnqueue
<1> QED
  BY <1>1 DEF QP!Enqueue, Q!Enqueue

LEMMA PlayNextIs == \A q, track : QP!PlayNext(q, track) = Q!PlayNext(q, track)
<1>1. \A q : QP!PlayNextTarget(q) = Q!PlayNextTarget(q)
  BY QueueIs DEF QP!PlayNextTarget, Q!PlayNextTarget
<1> QED
  BY <1>1, EnqueueIs, MoveTrackIs DEF QP!PlayNext, Q!PlayNext, QP!None, Q!None

LEMMA ReplaceIs ==
  /\ \A q, items, start : QP!Replace(q, items, start) = Q!Replace(q, items, start)
  /\ \A q, enabled : QP!SetShuffle(q, enabled) = Q!SetShuffle(q, enabled)
  BY RebuildIs, QueueIs DEF QP!Replace, Q!Replace, QP!SetShuffle, Q!SetShuffle

LEMMA ScopeIs ==
  /\ \A q : /\ SP!Current(q) = S!Current(q)
            /\ SP!CanRetreat(q) <=> S!CanRetreat(q)
            /\ SP!Retreat(q) = S!Retreat(q)
            /\ \A r : SP!Moves(q, r) = S!Moves(q, r)
            /\ \A i : /\ SP!InBag(q, i) <=> S!InBag(q, i)
                      /\ SP!JumpTo(q, i) = S!JumpTo(q, i)
                      /\ SP!RemoveItem(q, i) = S!RemoveItem(q, i)
                      /\ SP!Enqueue(q, i) = S!Enqueue(q, i)
                      /\ SP!PlayNext(q, i) = S!PlayNext(q, i)
  /\ \A items, repeat : SP!New(items, repeat) = S!New(items, repeat)
<1>1. \A q, i : SP!PlayFresh(q, i) = S!PlayFresh(q, i)
  BY DEF SP!PlayFresh, S!PlayFresh
<1>2. \A q : SP!DrawLast(q) = S!DrawLast(q)
  BY <1>1 DEF SP!DrawLast, S!DrawLast, SP!Front, S!Front, SP!Last, S!Last
<1>3. \A n : SP!Orders(n) = S!Orders(n)
  BY DEF SP!Orders, S!Orders, SP!IsPermutation, S!IsPermutation
<1>4. \A q : SP!Reshuffle(q) = S!Reshuffle(q)
  BY <1>3 DEF SP!Reshuffle, S!Reshuffle
<1>5. \A q, r : SP!Moves(q, r) = S!Moves(q, r)
  BY <1>2, <1>4 DEF SP!Moves, S!Moves, SP!CanReplay, S!CanReplay, SP!ReplayForward, S!ReplayForward,
     SP!DrawFromBag, S!DrawFromBag, SP!MayReshuffle, S!MayReshuffle
<1>6. \A q, i : SP!InBag(q, i) <=> S!InBag(q, i)
  BY DEF SP!InBag, S!InBag
<1>7. \A q, i : SP!TakeOut(q, i) = S!TakeOut(q, i)
  BY DEF SP!TakeOut, S!TakeOut, SP!SlotOf, S!SlotOf, SP!RemoveAt, S!RemoveAt
<1>8. \A q, i : SP!JumpTo(q, i) = S!JumpTo(q, i) /\ SP!RemoveItem(q, i) = S!RemoveItem(q, i)
  BY <1>1, <1>6, <1>7 DEF SP!JumpTo, S!JumpTo, SP!RemoveItem, S!RemoveItem
<1>9. \A q, i : SP!Enqueue(q, i) = S!Enqueue(q, i) /\ SP!PlayNext(q, i) = S!PlayNext(q, i)
  BY DEF SP!Enqueue, S!Enqueue, SP!PlayNext, S!PlayNext
<1>10. \A items, repeat : SP!New(items, repeat) = S!New(items, repeat)
  BY <1>3 DEF SP!New, S!New
<1>11. \A q : SP!Current(q) = S!Current(q)
  BY DEF SP!Current, S!Current, SP!CurrentItemIndex, S!CurrentItemIndex, SP!None, S!None
<1>12. \A q : (SP!CanRetreat(q) <=> S!CanRetreat(q)) /\ SP!Retreat(q) = S!Retreat(q)
  BY DEF SP!CanRetreat, S!CanRetreat, SP!Retreat, S!Retreat
<1> QED
  BY <1>5, <1>6, <1>8, <1>9, <1>10, <1>11, <1>12

\* What holds of the player's source: the invariant of its kind.
SourceInv(source) ==
  \/ source = Scoped(source.queue) /\ SP!Sound(source.queue)
  \/ source = Explicit(source.queue) /\ Q!WellFormed(source.queue)

LEMMA KindIs ==
  ASSUME NEW queue
  PROVE  /\ Scoped(queue).queue = queue /\ IsShuffle(Scoped(queue))
         /\ Current(Scoped(queue)) = S!Current(queue)
         /\ Explicit(queue).queue = queue /\ ~IsShuffle(Explicit(queue))
         /\ Current(Explicit(queue)) = Q!Current(queue)
         /\ SourceInv(Scoped(queue)) <=> SP!Sound(queue)
         /\ SourceInv(Explicit(queue)) <=> Q!WellFormed(queue)
<1>1. Scoped(queue).queue = queue /\ Explicit(queue).queue = queue
      /\ IsShuffle(Scoped(queue)) /\ ~IsShuffle(Explicit(queue))
  BY DEF Scoped, Explicit, IsShuffle
<1>2. Scoped(queue) # Explicit(queue)
  BY <1>1
<1> QED
  BY <1>1, <1>2 DEF Current, SourceInv

-----------------------------------------------------------------------------
(***************************************************************************)
(* Navigating and editing keep the invariant of the source, and the path   *)
(* an operation returns is the current one.                                *)
(***************************************************************************)

\* Where navigating leads: to a current track, or nowhere.
Leads(outcome) ==
  SourceInv(outcome.source) /\ outcome.path \in {NoTrack, Current(outcome.source)}

LEMMA LeadsBy ==
  ASSUME NEW source, SourceInv(source)
  PROVE  Leads(Found(source)) /\ Leads(NotFound(source))
  BY DEF Leads, Found, NotFound

LEMMA ExplicitNavigation ==
  ASSUME NEW q, Q!WellFormed(q)
  PROVE  /\ Q!WellFormed(Q!Advance(q)) /\ Q!WellFormed(Q!Retreat(q))
         /\ \A index \in Nat : Q!WellFormed(Q!JumpTo(q, index))
<1>1. QP!WellFormed(q)
  BY QueueIs
<1> QED
  BY <1>1, QP!NavigationWellFormed, QueueIs, NoTrackAssumption, BoundsAssumption

LEMMA ScopedNavigation ==
  ASSUME NEW q, SP!Sound(q)
  PROVE  /\ \A reshuffle \in BOOLEAN : \A r \in S!Moves(q, reshuffle) : SP!Sound(r)
         /\ SP!Sound(S!Retreat(q))
         /\ \A index : SP!Sound(S!JumpTo(q, index))
<1>1. \A reshuffle \in BOOLEAN : \A r \in SP!Moves(q, reshuffle) : SP!Sound(r)
  BY SP!MovesAre, NoTrackAssumption, BoundsAssumption, ListsAssumption
<1>2. SP!Sound(SP!Retreat(q))
  BY SP!RetreatIs, NoTrackAssumption, BoundsAssumption, ListsAssumption
<1>3. \A index : SP!Sound(SP!JumpTo(q, index))
  BY SP!JumpToIs, NoTrackAssumption, BoundsAssumption, ListsAssumption
<1> QED
  BY <1>1, <1>2, <1>3, ScopeIs

LEMMA NavigationLeads ==
  ASSUME NEW source, SourceInv(source)
  PROVE  /\ \A outcome \in Advance(source) \cup AdvanceSkip(source) : Leads(outcome)
         /\ Leads(Retreat(source))
         /\ \A index \in Nat : Leads(JumpTo(source, index))
<1> DEFINE q == source.queue
<1>1. CASE source = Scoped(q) /\ SP!Sound(q)
  <2>1. IsShuffle(source)
    BY <1>1 DEF Scoped, IsShuffle
  <2>2. \A r : SP!Sound(r) => Leads(Found(Scoped(r)))
    BY KindIs, LeadsBy
  <2>3. Leads(NotFound(source))
    BY LeadsBy
  <2>4. \A outcome \in Advance(source) \cup AdvanceSkip(source) : Leads(outcome)
    BY <1>1, <2>1, <2>2, <2>3, ScopedNavigation DEF Advance, AdvanceSkip
  <2>5. Leads(Retreat(source)) /\ \A index \in Nat : Leads(JumpTo(source, index))
    BY <1>1, <2>1, <2>2, <2>3, ScopedNavigation DEF Retreat, JumpTo
  <2> QED
    BY <2>4, <2>5
<1>2. CASE source = Explicit(q) /\ Q!WellFormed(q)
  <2>1. ~IsShuffle(source)
    BY <1>2 DEF Explicit, IsShuffle
  <2>2. \A r : Q!WellFormed(r) => Leads(Found(Explicit(r)))
    BY KindIs, LeadsBy
  <2>3. Leads(NotFound(source))
    BY LeadsBy
  <2> QED
    BY <1>2, <2>1, <2>2, <2>3, ExplicitNavigation DEF Advance, AdvanceSkip, Retreat, JumpTo
<1> QED
  BY <1>1, <1>2 DEF SourceInv

\* A list put in the place of the source.
LEMMA ReplaceLeads ==
  ASSUME NEW source, SourceInv(source), NEW items \in Seq(Tracks), NEW start \in Nat,
         NEW outcome \in Replace(source, items, start)
  PROVE  Leads(outcome)
<1> DEFINE base == IF IsShuffle(source) THEN [Q!EmptyQueue EXCEPT !.repeat = source.queue.repeat]
                   ELSE source.queue
<1>1. QP!WellFormed(base)
  <2>1. CASE source = Scoped(source.queue) /\ SP!Sound(source.queue)
    <3>1. IsShuffle(source) /\ source.queue.repeat \in SP!RepeatMode
      BY <2>1 DEF Scoped, IsShuffle, SP!Sound, SP!SourceType
    <3>2. QP!WellFormed(QP!EmptyQueue) /\ source.queue.repeat \in QP!RepeatMode
      BY <3>1, QP!EmptyWellFormed, NoTrackAssumption, BoundsAssumption DEF SP!RepeatMode, QP!RepeatMode
    <3>3. QP!WellFormed([QP!EmptyQueue EXCEPT !.repeat = source.queue.repeat])
      BY <3>2 DEF QP!WellFormed, QP!QueueType
    <3> QED
      BY <3>1, <3>3, QueueIs
  <2>2. CASE source = Explicit(source.queue) /\ Q!WellFormed(source.queue)
    BY <2>2, QueueIs DEF Explicit, IsShuffle
  <2> QED
    BY <2>1, <2>2 DEF SourceInv
<1> HIDE DEF base
<1>2. PICK q \in Q!Replace(base, items, start) : outcome = Found(Explicit(q))
  BY DEF Replace, base
<1>3. Q!WellFormed(q)
  <2>1. q \in QP!Replace(base, items, start) /\ base \in QP!QueueType
    BY <1>1, <1>2, ReplaceIs DEF QP!WellFormed
  <2>2. QP!WellFormed(q)
    BY <1>1, <2>1, QP!ReplaceWellFormed, NoTrackAssumption, BoundsAssumption
  <2> QED
    BY <2>2, QueueIs
<1> QED
  BY <1>2, <1>3, KindIs, LeadsBy

\* A scope to be shuffled from its start.
LEMMA ShuffledLeads ==
  ASSUME NEW items \in Seq(Tracks), NEW mode \in RepeatMode, NEW s \in S!New(items, mode)
  PROVE  SourceInv(Scoped(s))
<1>1. s \in SP!New(items, mode) /\ mode \in SP!RepeatMode
  BY ScopeIs DEF RepeatMode, SP!RepeatMode
<1>2. SP!Sound(s)
  BY <1>1, SP!NewIs, NoTrackAssumption, BoundsAssumption, ListsAssumption
<1> QED
  BY <1>2, KindIs

\* What an edit leaves: a source whose current track, if it had one, is the same.
Keeps(source, edited) ==
  /\ SourceInv(edited)
  /\ Current(source) # NoTrack => Current(edited) = Current(source)

LEMMA ScopedEdits ==
  ASSUME NEW q, SP!Sound(q)
  PROVE  /\ \A track \in Tracks : /\ Keeps(Scoped(q), Scoped(S!Enqueue(q, track)))
                                  /\ Keeps(Scoped(q), Scoped(S!PlayNext(q, track)))
         /\ \A index : Keeps(Scoped(q), Scoped(S!RemoveItem(q, index)))
         /\ \A mode \in RepeatMode : Keeps(Scoped(q), Scoped([q EXCEPT !.repeat = mode]))
<1>1. ASSUME NEW r, SP!Sound(r), r.history = q.history, r.cursor = q.cursor,
             \A i \in 1..Len(q.items) : r.items[i] = q.items[i]
      PROVE  Keeps(Scoped(q), Scoped(r))
  <2>1. /\ q.cursor \in Nat /\ q.cursor >= 1 /\ Len(q.history) \in Nat
        /\ \A k \in 1..Len(q.history) : q.history[k] \in 1..Len(q.items)
    BY SP!SoundMeans, NoTrackAssumption, BoundsAssumption, ListsAssumption DEF SP!InRange
  <2>2. q.cursor <= Len(q.history) => q.history[q.cursor] \in 1..Len(q.items)
    BY <2>1
  <2>3. S!Current(r) = S!Current(q)
    BY <1>1, <2>2 DEF S!Current, S!CurrentItemIndex
  <2> QED
    BY <1>1, <2>3, KindIs DEF Keeps
<1>2. ASSUME NEW track \in Tracks PROVE Keeps(Scoped(q), Scoped(S!Enqueue(q, track)))
                                       /\ Keeps(Scoped(q), Scoped(S!PlayNext(q, track)))
  <2>1. SP!Sound(SP!Enqueue(q, track)) /\ SP!Sound(SP!PlayNext(q, track))
    BY SP!EnqueueIs, NoTrackAssumption, BoundsAssumption, ListsAssumption
  <2>2. q \in S!SourceType
    BY DEF SP!Sound, SP!SourceType, S!SourceType, SP!RepeatMode, S!RepeatMode
  <2>3. /\ \A r \in {S!Enqueue(q, track), S!PlayNext(q, track)} :
             r.history = q.history /\ r.cursor = q.cursor /\ r.items = Append(q.items, track)
    BY <2>2 DEF S!Enqueue, S!PlayNext, S!SourceType
  <2>4. \A i \in 1..Len(q.items) : Append(q.items, track)[i] = q.items[i]
    BY <2>2, AppendProperties DEF S!SourceType
  <2>5. SP!Sound(S!Enqueue(q, track)) /\ SP!Sound(S!PlayNext(q, track))
    BY <2>1, ScopeIs
  <2> QED
    BY <1>1, <2>3, <2>4, <2>5
<1>3. ASSUME NEW index PROVE Keeps(Scoped(q), Scoped(S!RemoveItem(q, index)))
  <2>1. SP!Sound(SP!RemoveItem(q, index))
    BY SP!RemoveItemIs, NoTrackAssumption, BoundsAssumption, ListsAssumption
  <2>2. q \in S!SourceType
    BY DEF SP!Sound, SP!SourceType, S!SourceType, SP!RepeatMode, S!RepeatMode
  <2>3. LET r == S!RemoveItem(q, index)
        IN  r.history = q.history /\ r.cursor = q.cursor /\ r.items = q.items
    BY <2>2 DEF S!RemoveItem, S!TakeOut, S!SourceType
  <2>4. SP!Sound(S!RemoveItem(q, index))
    BY <2>1, ScopeIs
  <2> QED
    BY <1>1, <2>3, <2>4
<1>4. ASSUME NEW mode \in RepeatMode PROVE Keeps(Scoped(q), Scoped([q EXCEPT !.repeat = mode]))
  <2>1. SP!Sound([q EXCEPT !.repeat = mode])
    BY DEF SP!Sound, SP!SourceType, RepeatMode, SP!RepeatMode
  <2>2. q \in S!SourceType
    BY DEF SP!Sound, SP!SourceType, S!SourceType, SP!RepeatMode, S!RepeatMode
  <2> QED
    BY <1>1, <2>1, <2>2 DEF S!SourceType
<1> QED
  BY <1>2, <1>3, <1>4

LEMMA ExplicitEdits ==
  ASSUME NEW q, Q!WellFormed(q)
  PROVE  /\ \A track \in Tracks : \A r \in Q!Enqueue(q, track) \cup Q!PlayNext(q, track) :
              Keeps(Explicit(q), Explicit(r))
         /\ \A from, to \in Nat : Keeps(Explicit(q), Explicit(Q!MoveTrack(q, from, to)))
         /\ \A enabled \in BOOLEAN : \A r \in Q!SetShuffle(q, enabled) :
              Keeps(Explicit(q), Explicit(r))
         /\ \A mode \in RepeatMode : Keeps(Explicit(q), Explicit([q EXCEPT !.repeat = mode]))
         /\ \A index \in Nat : Q!WellFormed(Q!RemoveItem(q, index))
<1>0. QP!WellFormed(q) /\ NoTrackAssumption /\ BoundsAssumption
  BY QueueIs, NoTrackAssumption, BoundsAssumption
<1>1. ASSUME NEW r, QP!WellFormed(r), QP!Current(q) # NoTrack => QP!Current(r) = QP!Current(q)
      PROVE  Keeps(Explicit(q), Explicit(r))
  BY <1>1, QueueIs, KindIs DEF Keeps
<1>2. ASSUME NEW track \in Tracks, NEW e \in QP!Enqueue(q, track)
      PROVE  QP!WellFormed(e) /\ QP!Current(e) = QP!Current(q)
  <2>1. QP!WellFormed(e)
    BY <1>0, QP!EnqueueWellFormed
  <2>2. /\ e.pos = q.pos
        /\ \A s \in 1..q.pos : e.order[s] = q.order[s]
        /\ \A i \in 1..Len(q.items) : e.items[i] = q.items[i]
    BY <1>0, QP!EnqueueKeepsSlots
  <2>3. q.pos # 0 => q.pos \in 1..q.pos /\ q.order[q.pos] \in 1..Len(q.items)
    BY <1>0 DEF QP!WellFormed, QP!IsPermutation, QP!QueueType
  <2> QED
    BY <2>1, <2>2, <2>3 DEF QP!Current, QP!None
<1>3. ASSUME NEW r, QP!WellFormed(r), NEW from \in Nat, NEW to \in Nat
      PROVE  QP!WellFormed(QP!MoveTrack(r, from, to)) /\ QP!Current(QP!MoveTrack(r, from, to)) = QP!Current(r)
  BY <1>0, <1>3, QP!MoveTrackWellFormed, QP!MoveTrackKeepsCurrent
<1>4. ASSUME NEW track \in Tracks, NEW r \in QP!PlayNext(q, track)
      PROVE  QP!WellFormed(r) /\ QP!Current(r) = QP!Current(q)
  <2>1. PICK e \in QP!Enqueue(q, track) :
          r = IF q.pos # QP!None /\ QP!PlayNextTarget(q) < Len(q.items) + 1
              THEN QP!MoveTrack(e, Len(q.items) + 1, QP!PlayNextTarget(q)) ELSE e
    BY DEF QP!PlayNext
  <2>2. q.pos # QP!None => QP!PlayNextTarget(q) \in Nat /\ Len(q.items) + 1 \in Nat
    BY <1>0 DEF QP!PlayNextTarget, QP!CurrentItemIndex, QP!WellFormed, QP!IsPermutation, QP!QueueType, QP!None
  <2> QED
    BY <1>2, <1>3, <2>1, <2>2
<1>5. ASSUME NEW enabled \in BOOLEAN, NEW r \in QP!SetShuffle(q, enabled)
      PROVE  QP!WellFormed(r) /\ (QP!Current(q) # NoTrack => QP!Current(r) = QP!Current(q))
  <2>1. QP!WellFormed(r)
    BY <1>0, QP!SetShuffleWellFormed
  <2>2. q.pos # QP!None => QP!Current(r) = QP!Current(q)
    BY <1>0, QP!SetShuffleKeepsCurrent
  <2> QED
    BY <2>1, <2>2 DEF QP!Current
<1>6. ASSUME NEW mode \in RepeatMode PROVE Keeps(Explicit(q), Explicit([q EXCEPT !.repeat = mode]))
  <2>1. QP!WellFormed([q EXCEPT !.repeat = mode]) /\ QP!Current([q EXCEPT !.repeat = mode]) = QP!Current(q)
    BY <1>0 DEF QP!WellFormed, QP!QueueType, QP!Current, RepeatMode, QP!RepeatMode
  <2> QED
    BY <1>1, <2>1
<1>7. ASSUME NEW index \in Nat PROVE Q!WellFormed(Q!RemoveItem(q, index))
  <2>1. QP!WellFormed(QP!RemoveItem(q, index))
    BY <1>0, QP!RemoveItemWellFormed
  <2> QED
    BY <2>1, RemoveItemIs, QueueIs
<1>8. \A track \in Tracks : \A r \in Q!Enqueue(q, track) \cup Q!PlayNext(q, track) :
        Keeps(Explicit(q), Explicit(r))
  BY <1>1, <1>2, <1>4, EnqueueIs, PlayNextIs
<1>9. \A from, to \in Nat : Keeps(Explicit(q), Explicit(Q!MoveTrack(q, from, to)))
  BY <1>0, <1>1, <1>3, MoveTrackIs
<1>10. \A enabled \in BOOLEAN : \A r \in Q!SetShuffle(q, enabled) : Keeps(Explicit(q), Explicit(r))
  BY <1>1, <1>5, ReplaceIs
<1> QED
  BY <1>6, <1>7, <1>8, <1>9, <1>10

LEMMA EditsKeep ==
  ASSUME NEW source, SourceInv(source)
  PROVE  /\ \A track \in Tracks : \A r \in Enqueue(source, track) \cup PlayNext(source, track) :
              Keeps(source, r)
         /\ \A from, to \in Nat : Keeps(source, MoveTrack(source, from, to))
         /\ \A enabled \in BOOLEAN : \A r \in SetShuffle(source, enabled) : Keeps(source, r)
         /\ \A mode \in RepeatMode : Keeps(source, SetRepeatMode(source, mode))
         /\ \A index \in Nat : SourceInv(RemoveItem(source, index))
<1> DEFINE q == source.queue
<1>1. CASE source = Scoped(q) /\ SP!Sound(q)
  <2>1. IsShuffle(source)
    BY <1>1 DEF Scoped, IsShuffle
  <2>2. \A mode : SetRepeatMode(source, mode) = Scoped([q EXCEPT !.repeat = mode])
    BY <1>1 DEF SetRepeatMode, Scoped
  <2>3. Keeps(source, source)
    BY DEF Keeps
  <2>4. \A index : SourceInv(Scoped(S!RemoveItem(q, index)))
    BY <1>1, ScopedEdits DEF Keeps
  <2> QED
    BY <1>1, <2>1, <2>2, <2>3, <2>4, ScopedEdits DEF Enqueue, PlayNext, MoveTrack, SetShuffle, RemoveItem
<1>2. CASE source = Explicit(q) /\ Q!WellFormed(q)
  <2>1. ~IsShuffle(source)
    BY <1>2 DEF Explicit, IsShuffle
  <2>2. \A mode : SetRepeatMode(source, mode) = Explicit([q EXCEPT !.repeat = mode])
    BY <1>2 DEF SetRepeatMode, Explicit
  <2>4. \A index \in Nat : SourceInv(Explicit(Q!RemoveItem(q, index)))
    BY <1>2, ExplicitEdits, KindIs
  <2> QED
    BY <1>2, <2>1, <2>2, <2>4, ExplicitEdits DEF Enqueue, PlayNext, MoveTrack, SetShuffle, RemoveItem
<1> QED
  BY <1>1, <1>2 DEF SourceInv

LEMMA EmptyIs ==
  ASSUME NEW source, SourceInv(source)
  PROVE  /\ SourceInv(EmptySource)
         /\ SourceInv([EmptySource EXCEPT !.queue.repeat = source.queue.repeat])
<1>1. QP!WellFormed(QP!EmptyQueue)
  BY QP!EmptyWellFormed, NoTrackAssumption, BoundsAssumption
<1>2. source.queue.repeat \in QP!RepeatMode
  BY DEF SourceInv, SP!Sound, SP!SourceType, SP!RepeatMode, QP!RepeatMode, Q!RepeatMode, Q!WellFormed, Q!QueueType
<1>3. QP!WellFormed([QP!EmptyQueue EXCEPT !.repeat = source.queue.repeat])
  BY <1>1, <1>2 DEF QP!WellFormed, QP!QueueType
<1>4. [EmptySource EXCEPT !.queue.repeat = source.queue.repeat]
        = Explicit([Q!EmptyQueue EXCEPT !.repeat = source.queue.repeat])
  BY DEF EmptySource, Explicit
<1> QED
  BY <1>1, <1>3, <1>4, QueueIs, KindIs DEF EmptySource

\* The one-item list a scope leaves starts at its item.
LEMMA EndShuffleKeeps ==
  ASSUME NEW source, SourceInv(source), NEW r \in EndShuffleScope(source)
  PROVE  Keeps(source, r)
<1> DEFINE empty == [EmptySource EXCEPT !.queue.repeat = source.queue.repeat]
           c == Current(source)
<1>1. SourceInv(empty)
  BY EmptyIs
<1>2. CASE c = NoTrack
  BY <1>1, <1>2 DEF EndShuffleScope, Keeps
<1>3. CASE c # NoTrack
  <2>1. c \in Tracks
    <3>1. CASE source = Scoped(source.queue) /\ SP!Sound(source.queue)
      <4> DEFINE q == source.queue
      <4>1. /\ q.cursor \in Nat /\ q.cursor >= 1 /\ Len(q.history) \in Nat
            /\ \A k \in 1..Len(q.history) : q.history[k] \in 1..Len(q.items)
        BY <3>1, SP!SoundMeans, NoTrackAssumption, BoundsAssumption, ListsAssumption DEF SP!InRange
      <4>2. c = S!Current(q)
        BY <3>1, KindIs
      <4>3. q.cursor <= Len(q.history) /\ c = q.items[q.history[q.cursor]]
        BY <1>3, <4>2 DEF S!Current, S!CurrentItemIndex
      <4>4. q.items \in Seq(Tracks) /\ q.history[q.cursor] \in 1..Len(q.items)
        BY <3>1, <4>1, <4>3 DEF SP!Sound, SP!SourceType
      <4> QED
        BY <4>3, <4>4, ElementOfSeq
    <3>2. CASE source = Explicit(source.queue) /\ Q!WellFormed(source.queue)
      <4> DEFINE q == source.queue
      <4>1. q.pos # Q!None /\ c = q.items[q.order[q.pos]]
        BY <1>3, <3>2, KindIs DEF Q!Current
      <4>2. q.items \in Seq(Tracks) /\ q.pos \in 1..Len(q.items) /\ q.order[q.pos] \in 1..Len(q.items)
        BY <3>2, <4>1 DEF Q!WellFormed, Q!QueueType, Q!IsPermutation, Q!None
      <4> QED
        BY <4>1, <4>2, ElementOfSeq
    <3> QED
      BY <3>1, <3>2 DEF SourceInv
  <2>2. <<c>> \in Seq(Tracks) /\ 1 \in 1..Len(<<c>>) /\ <<c>>[1] = c
    BY <2>1
  <2> HIDE DEF empty, c
  <2>3. r \in {outcome.source : outcome \in Replace(empty, <<c>>, 1)}
    BY <1>3 DEF EndShuffleScope, empty, c
  <2>4. PICK outcome \in Replace(empty, <<c>>, 1) : r = outcome.source
    BY <2>3
  <2>5. SourceInv(r)
    BY <1>1, <2>2, <2>4, ReplaceLeads DEF Leads
  <2>6. empty = Explicit(empty.queue) /\ ~IsShuffle(empty) /\ Q!WellFormed(empty.queue)
    BY <1>1 DEF empty, EmptySource, SourceInv, Explicit, Scoped, IsShuffle
  <2>7. PICK q \in Q!Replace(empty.queue, <<c>>, 1) : outcome = Found(Explicit(q))
    BY <2>4, <2>6 DEF Replace
  <2>8. q \in QP!Replace(empty.queue, <<c>>, 1) /\ empty.queue \in QP!QueueType
    BY <2>6, <2>7, ReplaceIs, QueueIs DEF QP!WellFormed
  <2>9. QP!Current(q) = c
    <3> DEFINE items == <<c>>
    <3>1. items \in Seq(Tracks) /\ 1 \in 1..Len(items) /\ items[1] = c
      BY <2>2
    <3> HIDE DEF items
    <3>2. QP!Current(q) = items[1]
      BY <2>8, <3>1, QP!ReplaceStartsAt, NoTrackAssumption, BoundsAssumption DEF items
    <3> QED
      BY <3>1, <3>2
  <2>10. Current(r) = c
    BY <2>4, <2>7, <2>9, QueueIs, KindIs DEF Found
  <2> QED
    BY <2>5, <2>10 DEF Keeps, c
<1> QED
  BY <1>2, <1>3

-----------------------------------------------------------------------------
(***************************************************************************)
(* What is loaded or opened follows the queue.  Only a thread that cannot  *)
(* be spawned, a channel that does not start and a worker that dies can    *)
(* part them, so these faults are excluded.                                *)
(***************************************************************************)

\* The transport is never left playing with no track, and unless the queue ran
\* out the player is at its current track.
AtCurrent(p) ==
  "ran out" \notin p.halted =>
    /\ Loaded(p) => p.current.path = Current(p.source)
    /\ Opening(p) => p.pending.path = Current(p.source)
NoneDead(p) == p.pending.outcome # "dead"
PlaysOne(p) == p.state = "Playing" => Loaded(p) \/ Opening(p)

Follows(p) == SourceInv(p.source) /\ NoneDead(p) /\ PlaysOne(p) /\ AtCurrent(p)

FollowInv == PlayerInv /\ Follows(player)

LEMMA StartFollows ==
  ASSUME NEW p, PlayerOK(p), ~Loaded(p), SourceInv(p.source), NEW path, path # NoTrack,
         "ran out" \notin p.halted => path = Current(p.source)
  PROVE  Follows(StartOpen(p, path, TRUE))
<1> DEFINE r == StartOpen(p, path, TRUE)
<1>1. /\ r.source = p.source /\ r.state = p.state /\ r.current = p.current /\ r.halted = p.halted
  BY DEF StartOpen, PlayerOK, Shape, Fields
<1>2. r.pending.path = path /\ r.pending.outcome = "opening"
  BY DEF StartOpen, PlayerOK, Shape, Fields
<1> HIDE DEF r
<1>3. Opening(r) /\ ~Loaded(r) /\ NoneDead(r) /\ PlaysOne(r)
  BY <1>1, <1>2 DEF NoneDead, PlaysOne, Loaded, Opening
<1>4. AtCurrent(r) /\ SourceInv(r.source)
  BY <1>1, <1>2, <1>3 DEF AtCurrent
<1>5. Follows(r)
  BY <1>3, <1>4 DEF Follows
<1> QED
  BY <1>5 DEF r

\* Wherever a navigating operation led.
LEMMA GoToFollows ==
  ASSUME NEW p, Between(p), NoneDead(p), NEW outcome, Leads(outcome)
  PROVE  Follows(GoTo(p, outcome, TRUE))
<1> DEFINE m == [p EXCEPT !.source = outcome.source]
           stop == [m EXCEPT !.state = "Stopped", !.halted = @ \cup {"ran out"}]
           go == [m EXCEPT !.halted = @ \ {"ran out"}]
<1>1. Between(m) /\ m.source = outcome.source /\ m.pending = p.pending
  BY DEF PlayerOK, Shape, Fields, LoadedOK, OutcomeOK, Between, Loaded, Opening
<1> HIDE DEF m
<1>2. /\ Between(stop) /\ Between(go)
      /\ stop.source = m.source /\ stop.pending = m.pending /\ stop.state = "Stopped"
      /\ "ran out" \in stop.halted
      /\ go.source = m.source /\ "ran out" \notin go.halted
  BY <1>1 DEF PlayerOK, Shape, Fields, LoadedOK, OutcomeOK, Between, Loaded, Opening
<1> HIDE DEF stop, go
<1>3. CASE outcome.path = NoTrack
  <2>1. GoTo(p, outcome, TRUE) = stop
    BY <1>3 DEF GoTo, OpenCurrentOrStop, m, stop
  <2> QED
    BY <1>1, <1>2, <2>1 DEF Leads, Follows, NoneDead, PlaysOne, AtCurrent
<1>4. CASE outcome.path # NoTrack
  <2>1. GoTo(p, outcome, TRUE) = StartOpen(go, outcome.path, TRUE)
    BY <1>4 DEF GoTo, OpenCurrentOrStop, m, go
  <2>2. outcome.path = Current(go.source) /\ SourceInv(go.source)
    BY <1>1, <1>2, <1>4 DEF Leads
  <2> QED
    BY <1>2, <1>4, <2>1, <2>2, StartFollows DEF Between
<1> QED
  BY <1>3, <1>4

\* A step that leaves source, loaded and opened track alone, and does not start
\* to play.
LEMMA SameFollows ==
  ASSUME NEW p, Follows(p), NEW r, r.source = p.source, r.current.path = p.current.path,
         r.pending = p.pending,
         "ran out" \in r.halted <=> "ran out" \in p.halted,
         r.state = "Playing" => p.state = "Playing" \/ Loaded(p)
  PROVE  Follows(r)
  BY DEF Follows, NoneDead, PlaysOne, AtCurrent, Loaded, Opening

LEMMA AccrueFollows ==
  ASSUME NEW p, PlayerOK(p), Follows(p)
  PROVE  Follows(Accrue(p))
<1> DEFINE r == Accrue(p)
<1>1. r.source = p.source /\ r.current = p.current /\ r.pending = p.pending /\ r.halted = p.halted
      /\ r.state = p.state
  BY DEF Accrue, PlayerOK, Shape, Fields
<1> HIDE DEF r
<1>2. Follows(r)
  BY <1>1, SameFollows
<1> QED
  BY <1>2 DEF r

\* tick: a finished open, then the end of a track.
LEMMA PendingFollows ==
  ASSUME Faults \cap {"spawn", "panic", "play"} = {}, NEW p, PlayerOK(p), Follows(p), NEW r \in ProcessPendingOpen(p)
  PROVE  Follows(r)
<1>1. CASE p.pending.outcome = "ready"
  <2>0. r \in Opened(p) /\ Accepted("play") = {TRUE}
    BY <1>1 DEF ProcessPendingOpen, Accepted
  <2>1. PICK pauses \in BOOLEAN, applies \in BOOLEAN : r = Ready(p, TRUE, pauses, applies)
    BY <2>0, OpenedAre
  <2>2. /\ r.source = p.source /\ r.halted = p.halted /\ r.pending = NotOpening
        /\ r.current.path = p.pending.path
    BY <2>1 DEF Ready, PlayerOK, Shape, Fields
  <2>3. Opening(p)
    BY <1>1 DEF PlayerOK, OutcomeOK
  <2>4. Loaded(r) /\ ~Opening(r) /\ NoneDead(r)
    BY <2>2, <2>3 DEF NoneDead, Loaded, Opening, NotOpening
  <2>5. AtCurrent(r) /\ PlaysOne(r) /\ SourceInv(r.source)
    BY <2>2, <2>3, <2>4 DEF Follows, PlaysOne, AtCurrent
  <2> QED
    BY <2>4, <2>5 DEF Follows
<1>2. CASE p.pending.outcome = "failed"
  <2> DEFINE failed == [p EXCEPT !.pending = NotOpening, !.resume = NoResume]
  <2>1. Between(failed) /\ failed.pending = NotOpening /\ failed.source = p.source
    BY <1>2, OpeningIsBetween, OverOK DEF PlayerOK, Shape, Fields
  <2>2. Spawns = {TRUE}
    BY DEF Spawns, Accepted
  <2>3. r \in Failed(p, TRUE)
    BY <1>2, <2>2 DEF ProcessPendingOpen
  <2> HIDE DEF failed
  <2>4. CASE IsShuffle(p.source)
    <3>1. PICK outcome \in AdvanceSkip(p.source) : r = GoTo(failed, outcome, TRUE)
      BY <2>3, <2>4 DEF Failed, failed
    <3>2. Leads(outcome)
      BY <3>1, NavigationLeads DEF Follows
    <3>3. NoneDead(failed)
      BY <2>1 DEF NoneDead, NotOpening
    <3> QED
      BY <2>1, <3>1, <3>2, <3>3, GoToFollows
  <2>5. CASE ~IsShuffle(p.source)
    <3>1. r = SetState(failed, "Stopped")
      BY <2>3, <2>5 DEF Failed, failed
    <3>2. r.state = "Stopped" /\ r.source = p.source /\ r.pending = NotOpening /\ r.current = failed.current
      BY <2>1, <3>1 DEF SetState, Between, PlayerOK, Shape, Fields
    <3>3. ~Loaded(r) /\ ~Opening(r) /\ NoneDead(r)
      BY <2>1, <3>2 DEF NoneDead, Loaded, Opening, NotOpening, Between
    <3> QED
      BY <3>2, <3>3 DEF Follows, PlaysOne, AtCurrent
  <2> QED
    BY <2>4, <2>5
<1>3. CASE p.pending.outcome \notin {"ready", "failed"}
  BY <1>3 DEF ProcessPendingOpen, Follows, NoneDead
<1> QED
  BY <1>1, <1>2, <1>3

LEMMA TrackEndedFollows ==
  ASSUME Faults \cap {"spawn", "panic", "play"} = {}, NEW p, PlayerOK(p), Follows(p), Loaded(p),
         NEW r \in HandleTrackEnded(p)
  PROVE  Follows(r)
<1> DEFINE accrued == Accrue(p)
           dropped == DropCurrent(accrued)
<1>1. PlayerOK(accrued) /\ accrued.source = p.source /\ accrued.halted = p.halted /\ accrued.pending = p.pending
  BY AccrueOK DEF Accrue, PlayerOK, Shape, Fields
<1> HIDE DEF accrued
<1>2. /\ Between(dropped) /\ dropped.source = p.source /\ dropped.halted = p.halted
      /\ dropped.pending = p.pending
  BY <1>1, DropOK DEF DropCurrent, PlayerOK, Shape, Fields
<1> HIDE DEF dropped
<1>3. Spawns = {TRUE}
  BY DEF Spawns, Accepted
<1>4. CASE p.source.queue.repeat = "One"
  <2>1. r = StartOpen(dropped, p.current.path, TRUE)
    BY <1>3, <1>4 DEF HandleTrackEnded, dropped, accrued
  <2>2. p.current.path # NoTrack /\ ("ran out" \notin dropped.halted => p.current.path = Current(dropped.source))
    BY <1>2 DEF Follows, AtCurrent, Loaded
  <2>3. PlayerOK(dropped) /\ ~Loaded(dropped) /\ SourceInv(dropped.source)
    BY <1>2 DEF Follows, Between
  <2>4. Follows(StartOpen(dropped, p.current.path, TRUE))
    BY <2>2, <2>3, StartFollows, Zenon
  <2> QED
    BY <2>1, <2>4
<1>5. CASE p.source.queue.repeat # "One"
  <2>0. r \in {GoTo(dropped, outcome, spawned) : outcome \in Advance(p.source), spawned \in Spawns}
    BY <1>5 DEF HandleTrackEnded, dropped, accrued
  <2>1. PICK outcome \in Advance(p.source), spawned \in Spawns : r = GoTo(dropped, outcome, spawned)
    BY <2>0
  <2>2. r = GoTo(dropped, outcome, TRUE)
    BY <1>3, <2>1
  <2>3. Leads(outcome)
    BY <2>1, NavigationLeads DEF Follows
  <2> QED
    BY <1>2, <2>2, <2>3, GoToFollows DEF Follows, NoneDead
<1> QED
  BY <1>4, <1>5

LEMMA EndSignalsFollow ==
  ASSUME Faults \cap {"spawn", "panic", "play"} = {}, NEW p, PlayerOK(p), Follows(p), NEW r \in ProcessEndSignals(p)
  PROVE  Follows(r)
<1> DEFINE drained == [p EXCEPT !.ended = {}]
<1>1. /\ PlayerOK(drained) /\ drained.source = p.source /\ drained.current = p.current
      /\ drained.pending = p.pending /\ drained.halted = p.halted /\ drained.state = p.state
  BY DEF PlayerOK, Shape, Fields, LoadedOK, OutcomeOK, Loaded, Opening
<1> HIDE DEF drained
<1>2. Follows(drained)
  BY <1>1, SameFollows
<1>3. CASE p.ended # {} /\ Loaded(p)
  <2>1. r \in HandleTrackEnded(drained) /\ Loaded(drained)
    BY <1>1, <1>3 DEF ProcessEndSignals, drained, Loaded
  <2> QED
    BY <1>1, <1>2, <2>1, TrackEndedFollows
<1>4. CASE ~(p.ended # {} /\ Loaded(p))
  BY <1>2, <1>4 DEF ProcessEndSignals, drained
<1> QED
  BY <1>3, <1>4

LEMMA TickFollows ==
  ASSUME Faults \cap {"spawn", "panic", "play"} = {}, FollowInv, Tick
  PROVE  Follows(player')
<1>1. PICK q \in ProcessPendingOpen(player) : \E r \in ProcessEndSignals(q) : player' = Accrue(r)
  BY DEF Tick, TickResults
<1>2. PICK r \in ProcessEndSignals(q) : player' = Accrue(r)
  BY <1>1
<1>3. PlayerOK(q) /\ Follows(q)
  BY PendingOK, PendingFollows DEF FollowInv, PlayerInv
<1>4. PlayerOK(r) /\ Follows(r)
  BY <1>3, EndSignalsOK, EndSignalsFollow
<1> QED
  BY <1>2, <1>4, AccrueFollows

\* A call that goes on to where a navigating operation led.
LEMMA GoFollows ==
  ASSUME Faults \cap {"spawn", "panic", "play"} = {}, NEW p, Between(p), NoneDead(p), NEW outcomes,
         \A outcome \in outcomes : Leads(outcome), NEW r \in Go(p, outcomes)
  PROVE  Follows(r)
<1>1. PICK outcome \in outcomes, spawned \in Spawns : r = GoTo(p, outcome, spawned)
  BY DEF Go
<1>2. spawned = TRUE
  BY DEF Spawns, Accepted
<1> QED
  BY <1>1, <1>2, GoToFollows

\* Neither dropping the track nor setting a resume starts an open.
LEMMA DroppedIs ==
  ASSUME NEW p, PlayerOK(p), NoneDead(p)
  PROVE  Between(Dropped(p)) /\ NoneDead(Dropped(p))
  BY DropOK DEF NoneDead, Dropped, Wanting, DropCurrent, PlayerOK, Shape, Fields

LEMMA ResumedIs ==
  ASSUME NEW p, Between(p), NoneDead(p), NEW path, NEW intent
  PROVE  Between(WithResume(p, path, intent)) /\ NoneDead(WithResume(p, path, intent))
  BY ResumeOnly DEF NoneDead, WithResume, Between, PlayerOK, Shape, Fields

\* An edit that keeps the current track, if there was one.
LEMMA EditFollows ==
  ASSUME NEW p, PlayerOK(p), Follows(p), NEW source, SourceInv(source),
         \/ Current(p.source) # NoTrack => Current(source) = Current(p.source)
  PROVE  Follows([p EXCEPT !.source = source])
<1> DEFINE r == [p EXCEPT !.source = source]
<1>1. r.source = source /\ r.current = p.current /\ r.pending = p.pending /\ r.halted = p.halted
      /\ r.state = p.state
  BY DEF PlayerOK, Shape, Fields
<1> HIDE DEF r
<1>2. AtCurrent(r)
  BY <1>1 DEF Follows, AtCurrent, Loaded, Opening
<1>3. Follows(r)
  BY <1>1, <1>2 DEF Follows, NoneDead, PlaysOne, Loaded, Opening
<1> QED
  BY <1>3 DEF r

LEMMA TransportFollows ==
  ASSUME Faults \cap {"spawn", "panic", "play"} = {}, FollowInv, Transport
  PROVE  Follows(player')
<1>0. /\ PlayerOK(player) /\ Follows(player) /\ SourceInv(player.source)
      /\ Between(Dropped(player)) /\ NoneDead(Dropped(player))
  BY DroppedIs DEF FollowInv, PlayerInv, Follows
<1>1. CASE PlayPause \/ Stop \/ SetSettings
  <2>1. /\ SameTrack(player, player')
        /\ player'.state = "Playing" => player.state = "Playing" \/ Loaded(player)
    BY <1>0, <1>1, TransportKeeps DEF PlayerOK
  <2> QED
    BY <1>0, <2>1, SameFollows DEF SameTrack
<1>2. CASE Skip
  BY <1>0, <1>2, NavigationLeads, GoFollows DEF Skip, Call
<1>3. CASE Previous
  BY <1>0, <1>3, NavigationLeads, GoFollows DEF Previous, Call
<1> QED
  BY <1>1, <1>2, <1>3 DEF Transport

\* What an earlier session saved.
LEMMA SavedLeads ==
  ASSUME NEW saved \in Saved
  PROVE  Leads(saved)
<1>1. SourceInv(EmptySource)
  BY QueueIs, KindIs, QP!EmptyWellFormed, NoTrackAssumption, BoundsAssumption DEF EmptySource
<1>2. ASSUME NEW items \in Lists, NEW start \in 1..MaxItems, saved \in Replace(EmptySource, items, start)
      PROVE  Leads(saved)
  BY <1>1, <1>2, ReplaceLeads, ListsAssumption
<1>3. ASSUME NEW items \in Lists, NEW s \in S!New(items, "Off"), saved \in Advance(Scoped(s))
      PROVE  Leads(saved)
  <2>1. SourceInv(Scoped(s))
    BY ShuffledLeads, ListsAssumption DEF RepeatMode
  <2> QED
    BY <1>3, <2>1, NavigationLeads
<1>4. \/ \E items \in Lists, start \in 1..MaxItems : saved \in Replace(EmptySource, items, start)
      \/ \E items \in Lists : \E s \in S!New(items, "Off") : saved \in Advance(Scoped(s))
  <2>1. CASE saved \in UNION {Replace(EmptySource, items, start) : items \in Lists, start \in 1..MaxItems}
    <3>1. PICK found \in {Replace(EmptySource, items, start) : items \in Lists, start \in 1..MaxItems} :
            saved \in found
      BY <2>1
    <3>2. \E items \in Lists, start \in 1..MaxItems : found = Replace(EmptySource, items, start)
      BY <3>1
    <3> QED
      BY <3>1, <3>2
  <2>2. CASE saved \in UNION {UNION {Advance(Scoped(s)) : s \in S!New(items, "Off")} : items \in Lists}
    BY <2>2
  <2> QED
    BY <2>1, <2>2 DEF Saved
<1> QED
  BY <1>2, <1>3, <1>4

LEMMA QueueCallsFollow ==
  ASSUME Faults \cap {"spawn", "panic", "play"} = {}, FollowInv, QueueCalls
  PROVE  Follows(player')
<1> DEFINE s == player.source
<1>0. /\ PlayerOK(player) /\ Follows(player) /\ SourceInv(s)
      /\ Between(Dropped(player)) /\ NoneDead(Dropped(player))
  BY DroppedIs DEF FollowInv, PlayerInv, Follows
<1>1. Lists \subseteq Seq(Tracks) /\ 1..MaxItems \subseteq Nat
  BY ListsAssumption, BoundsAssumption
<1>2. ASSUME NEW outcomes, \A outcome \in outcomes : Leads(outcome),
             player' \in Go(Dropped(player), outcomes)
      PROVE  Follows(player')
  BY <1>0, <1>2, GoFollows
<1>3. ASSUME NEW outcome, Leads(outcome), NEW path, NEW intent,
             player' \in Go(WithResume(Dropped(player), path, intent), {outcome})
      PROVE  Follows(player')
  BY <1>0, <1>3, ResumedIs, GoFollows
<1>4. ASSUME NEW sources, \A source \in sources : Keeps(s, source),
             player' \in WithSource(player, sources)
      PROVE  Follows(player')
  BY <1>0, <1>4, EditFollows DEF WithSource, Keeps
<1>5. CASE ReplaceAndPlay
  BY <1>0, <1>1, <1>2, <1>5, ReplaceLeads DEF ReplaceAndPlay, Call
<1>6. CASE ReplaceAndPlayAt
  <2>1. PICK items \in Lists, start \in 1..MaxItems, intent \in {"play", "pause"} :
          player' \in UNION {Go(WithResume(Dropped(player), outcome.path, intent), {outcome}) :
                               outcome \in Replace(s, items, start)}
    BY <1>6 DEF ReplaceAndPlayAt, Call
  <2>2. PICK outcome \in Replace(s, items, start) :
          player' \in Go(WithResume(Dropped(player), outcome.path, intent), {outcome})
    BY <2>1
  <2>3. Leads(outcome)
    BY <1>0, <1>1, ReplaceLeads
  <2> QED
    BY <1>3, <2>2, <2>3
<1>7. CASE RestoreQueue
  <2>1. PICK saved \in Saved, intent \in {"play", "pause"} :
          player' \in IF saved.path = NoTrack
                      THEN {[SetState(Dropped(player), "Stopped") EXCEPT
                               !.source = saved.source, !.halted = {"ran out"}]}
                      ELSE Go(WithResume(Dropped(player), saved.path, intent), {saved})
    BY <1>7 DEF RestoreQueue, Call
  <2>2. Leads(saved)
    BY SavedLeads
  <2>3. CASE saved.path = NoTrack
    <3>1. player' = [SetState(Dropped(player), "Stopped") EXCEPT
                       !.source = saved.source, !.halted = {"ran out"}]
      BY <2>1, <2>3
    <3>2. /\ player'.source = saved.source /\ player'.halted = {"ran out"} /\ player'.state = "Stopped"
          /\ player'.pending = Dropped(player).pending
      BY <1>0, <3>1 DEF SetState, Between, PlayerOK, Shape, Fields
    <3> QED
      BY <1>0, <2>2, <3>2 DEF Follows, NoneDead, PlaysOne, AtCurrent, Leads
  <2>4. CASE saved.path # NoTrack
    BY <1>3, <2>1, <2>2, <2>4
  <2> QED
    BY <2>3, <2>4
<1>8. CASE PlayShuffled
  <2>1. s.queue.repeat \in RepeatMode
    BY <1>0 DEF SourceInv, SP!Sound, SP!SourceType, SP!RepeatMode, Q!RepeatMode, Q!WellFormed, Q!QueueType, RepeatMode
  <2>2. PICK scope \in Lists :
          player' \in Go(Dropped(player), UNION {Advance(Scoped(r)) : r \in S!New(scope, s.queue.repeat)})
    BY <1>8 DEF PlayShuffled, Call
  <2>3. \A r \in S!New(scope, s.queue.repeat) : SourceInv(Scoped(r))
    BY <1>1, <2>1, ShuffledLeads
  <2>4. \A outcome \in UNION {Advance(Scoped(r)) : r \in S!New(scope, s.queue.repeat)} : Leads(outcome)
    BY <2>3, NavigationLeads
  <2> QED
    BY <1>2, <2>2, <2>4
<1>9. CASE DoJumpTo
  BY <1>0, <1>1, <1>2, <1>9, NavigationLeads DEF DoJumpTo, Call
<1>10. CASE DoEnqueue \/ DoPlayNext
  <2>1. PICK track \in Tracks : \/ player' \in WithSource(player, Enqueue(s, track))
                                \/ player' \in WithSource(player, PlayNext(s, track))
    BY <1>10 DEF DoEnqueue, DoPlayNext, Call
  <2>2. /\ \A source \in Enqueue(s, track) : Keeps(s, source)
        /\ \A source \in PlayNext(s, track) : Keeps(s, source)
    BY <1>0, EditsKeep
  <2>3. CASE player' \in WithSource(player, Enqueue(s, track))
    BY <1>4, <2>2, <2>3
  <2>4. CASE player' \in WithSource(player, PlayNext(s, track))
    BY <1>4, <2>2, <2>4
  <2> QED
    BY <2>1, <2>3, <2>4
<1>11. CASE DoMoveTrack
  <2>1. PICK from, to \in 1..MaxItems : player' \in WithSource(player, {MoveTrack(s, from, to)})
    BY <1>11 DEF DoMoveTrack, Call
  <2>2. Keeps(s, MoveTrack(s, from, to))
    BY <1>0, <1>1, EditsKeep
  <2> QED
    BY <1>4, <2>1, <2>2
<1>12. CASE DoSetRepeatMode
  <2>1. PICK mode \in RepeatMode : player' \in WithSource(player, {SetRepeatMode(s, mode)})
    BY <1>12 DEF DoSetRepeatMode, Call
  <2>2. Keeps(s, SetRepeatMode(s, mode))
    BY <1>0, EditsKeep
  <2> QED
    BY <1>4, <2>1, <2>2
<1>13. CASE DoSetShuffle
  BY <1>0, <1>4, <1>13, EditsKeep, EndShuffleKeeps DEF DoSetShuffle, Call
<1>14. CASE DoRemove
  <2>1. PICK index \in 1..MaxItems :
          IF Current(RemoveItem(s, index)) = Current(s)
          THEN player' \in WithSource(player, {RemoveItem(s, index)})
          ELSE player' \in Go(Dropped(player), {Found(RemoveItem(s, index))})
    BY <1>14 DEF DoRemove, Call
  <2>2. SourceInv(RemoveItem(s, index))
    BY <1>0, <1>1, EditsKeep
  <2>3. CASE Current(RemoveItem(s, index)) = Current(s)
    BY <1>4, <2>1, <2>2, <2>3 DEF Keeps
  <2>4. CASE Current(RemoveItem(s, index)) # Current(s)
    BY <1>2, <2>1, <2>2, <2>4, LeadsBy
  <2> QED
    BY <2>3, <2>4
<1> QED
  BY <1>5, <1>6, <1>7, <1>8, <1>9, <1>10, <1>11, <1>12, <1>13, <1>14 DEF QueueCalls

LEMMA OutsideFollows ==
  ASSUME Faults \cap {"spawn", "panic", "play"} = {}, FollowInv, OpenFinishes \/ ChannelEnds \/ Elapse
  PROVE  Follows(player')
<1>0. PlayerOK(player) /\ Follows(player)
  BY DEF FollowInv, PlayerInv
<1>1. CASE OpenFinishes
  <2>1. PICK outcome \in Outcomes : player' = [player EXCEPT !.pending.outcome = outcome]
    BY <1>1 DEF OpenFinishes
  <2>2. outcome # "dead"
    BY DEF Outcomes
  <2>3. /\ player'.source = player.source /\ player'.current = player.current /\ player'.halted = player.halted
        /\ player'.state = player.state /\ player'.pending.path = player.pending.path
        /\ player'.pending.outcome = outcome
    BY <1>0, <2>1 DEF PlayerOK, Shape, Fields
  <2> QED
    BY <1>0, <2>2, <2>3 DEF Follows, NoneDead, PlaysOne, AtCurrent, Loaded, Opening
<1>2. CASE ChannelEnds
  <2>1. player' = [player EXCEPT !.current.chan = "ended", !.ended = @ \cup {"own"}]
    BY <1>2 DEF ChannelEnds
  <2>2. /\ player'.source = player.source /\ player'.current.path = player.current.path
        /\ player'.halted = player.halted /\ player'.state = player.state
        /\ player'.pending = player.pending
    BY <1>0, <2>1 DEF PlayerOK, Shape, Fields
  <2> QED
    BY <1>0, <2>2, SameFollows
<1>3. CASE Elapse
  BY <1>0, <1>3 DEF Elapse
<1> QED
  BY <1>1, <1>2, <1>3

LEMMA InitFollows == Init => FollowInv
<1> SUFFICES ASSUME Init PROVE FollowInv
  OBVIOUS
<1>1. PlayerInv
  BY InitOK
<1>2. SourceInv(EmptySource)
  BY QueueIs, KindIs, QP!EmptyWellFormed, NoTrackAssumption, BoundsAssumption DEF EmptySource
<1>3. /\ player.source = EmptySource /\ player.state = "Stopped" /\ player.pending = NotOpening
      /\ player.current = Unloaded
  BY DEF Init, NewPlayer
<1> QED
  BY <1>1, <1>2, <1>3 DEF FollowInv, Follows, NoneDead, PlaysOne, AtCurrent, Loaded, Opening, NotOpening, Unloaded

LEMMA NextFollows == ASSUME Faults \cap {"spawn", "panic", "play"} = {} PROVE FollowInv /\ [Next]_vars => FollowInv'
<1> SUFFICES ASSUME FollowInv, [Next]_vars PROVE FollowInv'
  OBVIOUS
<1>1. PlayerInv'
  BY NextOK DEF FollowInv
<1>2. Follows(player')
  <2>1. CASE UNCHANGED vars
    BY <2>1 DEF vars, FollowInv
  <2>2. CASE Next
    BY <2>2, TickFollows, TransportFollows, QueueCallsFollow, OutsideFollows DEF Next
  <2> QED
    BY <2>1, <2>2
<1> QED
  BY <1>1, <1>2 DEF FollowInv

\* What is loaded or being opened is the queue's current track, and "playing" is
\* shown only while there is one, for queues and scopes of any length, as long as
\* only opening a file can fail.
THEOREM PlaysTheCurrent ==
  ASSUME Faults \cap {"spawn", "panic", "play"} = {}
  PROVE  Spec => []PlayingIsCurrent
<1>1. FollowInv /\ [Next]_vars => FollowInv'
  BY NextFollows
<1>2. FollowInv => PlayingIsCurrent
  BY DEF FollowInv, Follows, PlaysOne, AtCurrent, PlayingIsCurrent
<1>3. Init => FollowInv
  BY InitFollows
<1> QED
  BY <1>1, <1>2, <1>3, PTL DEF Spec

-----------------------------------------------------------------------------
(***************************************************************************)
(* A pending resume is for the open in flight.  Every path that ends an    *)
(* open or starts another drops it or sets it anew.                        *)
(***************************************************************************)
ResumeOK(p) ==
  p.resume # NoResume /\ "ran out" \notin p.halted => p.pending.path = p.resume.path

ResumeInv == PlayerInv /\ ResumeOK(player)

\* A player that may go on to a path.
For(p, path) == p.resume = NoResume \/ p.resume.path = path

LEMMA StartResumes ==
  ASSUME NEW p, Shape(p), NEW path, For(p, path)
  PROVE  ResumeOK(StartOpen(p, path, TRUE))
  BY DEF ResumeOK, For, StartOpen, Shape, Fields

LEMMA GoToResumes ==
  ASSUME NEW p, Shape(p), NEW outcome, For(p, outcome.path)
  PROVE  ResumeOK(GoTo(p, outcome, TRUE))
<1> DEFINE m == [p EXCEPT !.source = outcome.source]
           stop == [m EXCEPT !.state = "Stopped", !.halted = @ \cup {"ran out"}]
           go == [m EXCEPT !.halted = @ \ {"ran out"}]
<1>1. Shape(m) /\ m.resume = p.resume
  BY DEF Shape, Fields
<1> HIDE DEF m
<1>2. "ran out" \in stop.halted /\ Shape(go) /\ go.resume = p.resume
  BY <1>1 DEF Shape, Fields
<1> HIDE DEF stop, go
<1>3. CASE outcome.path = NoTrack
  BY <1>2, <1>3 DEF GoTo, OpenCurrentOrStop, ResumeOK, m, stop
<1>4. CASE outcome.path # NoTrack
  <2>1. GoTo(p, outcome, TRUE) = StartOpen(go, outcome.path, TRUE)
    BY <1>4 DEF GoTo, OpenCurrentOrStop, m, go
  <2>2. For(go, outcome.path)
    BY <1>2 DEF For
  <2> QED
    BY <1>2, <2>1, <2>2, StartResumes
<1> QED
  BY <1>3, <1>4

\* A step that leaves the open and its resume alone, or that drops the resume.
LEMMA SameResumes ==
  ASSUME NEW p, ResumeOK(p), NEW r,
         \/ r.resume = NoResume
         \/ /\ r.resume = p.resume /\ r.pending.path = p.pending.path
            /\ "ran out" \in r.halted <=> "ran out" \in p.halted
  PROVE  ResumeOK(r)
  BY DEF ResumeOK

LEMMA DroppedResumes ==
  ASSUME NEW p, PlayerOK(p)
  PROVE  /\ DropCurrent(p).resume = NoResume /\ Dropped(p).resume = NoResume
         /\ Shape(DropCurrent(p)) /\ Shape(Dropped(p))
<1>1. Shape(DropCurrent(p)) /\ Shape(Dropped(p))
  BY DropOK DEF Between, PlayerOK
<1>2. Shape(Wanting(p))
  BY DEF Wanting, PlayerOK, Shape, Fields
<1> QED
  BY <1>1, <1>2 DEF DropCurrent, Dropped, PlayerOK, Shape, Fields

LEMMA TickResumes ==
  ASSUME "spawn" \notin Faults, ResumeInv, Tick
  PROVE  ResumeOK(player')
<1>1. PICK q \in ProcessPendingOpen(player) : \E r \in ProcessEndSignals(q) : player' = Accrue(r)
  BY DEF Tick, TickResults
<1>2. PICK r \in ProcessEndSignals(q) : player' = Accrue(r)
  BY <1>1
<1>3. Spawns = {TRUE}
  BY DEF Spawns, Accepted
<1>4. PlayerOK(player) /\ ResumeOK(player) /\ PlayerOK(q) /\ PlayerOK(r)
  BY PendingOK, EndSignalsOK DEF ResumeInv, PlayerInv
<1>5. ResumeOK(q)
  <2> DEFINE over == [player EXCEPT !.pending = NotOpening, !.resume = NoResume]
  <2>1. Shape(over) /\ over.resume = NoResume
    BY <1>4 DEF PlayerOK, Shape, Fields, NotOpening
  <2>2. CASE player.pending.outcome = "ready"
    <3>0. q \in Opened(player)
      BY <2>2 DEF ProcessPendingOpen
    <3>1. PICK plays, pauses, applies : q = Ready(player, plays, pauses, applies)
      BY <3>0, OpenedAre
    <3>2. q.resume = NoResume
      BY <1>4, <3>1 DEF Ready, PlayerOK, Shape, Fields
    <3> QED
      BY <3>2 DEF ResumeOK
  <2>3. CASE player.pending.outcome = "failed"
    <3>1. q \in Failed(player, TRUE)
      BY <1>3, <2>3 DEF ProcessPendingOpen
    <3> HIDE DEF over
    <3>2. CASE IsShuffle(player.source)
      <4>1. PICK outcome \in AdvanceSkip(player.source) : q = GoTo(over, outcome, TRUE)
        BY <3>1, <3>2 DEF Failed, over
      <4> QED
        BY <2>1, <4>1, GoToResumes DEF For
    <3>3. CASE ~IsShuffle(player.source)
      <4>1. q = SetState(over, "Stopped")
        BY <3>1, <3>3 DEF Failed, over
      <4> QED
        BY <2>1, <4>1 DEF SetState, ResumeOK, Shape, Fields
    <3> QED
      BY <3>2, <3>3
  <2>4. CASE player.pending.outcome = "dead"
    BY <2>1, <2>4 DEF ProcessPendingOpen, ResumeOK
  <2>5. CASE player.pending.outcome \notin {"ready", "failed", "dead"}
    BY <1>4, <2>5 DEF ProcessPendingOpen
  <2> QED
    BY <2>2, <2>3, <2>4, <2>5
<1>6. ResumeOK(r)
  <2> DEFINE drained == [q EXCEPT !.ended = {}]
             accrued == Accrue(drained)
             dropped == DropCurrent(accrued)
  <2>1. /\ PlayerOK(drained) /\ drained.resume = q.resume /\ drained.pending = q.pending
        /\ drained.halted = q.halted
    BY <1>4 DEF PlayerOK, Shape, Fields, LoadedOK, OutcomeOK, Loaded, Opening
  <2>2. ResumeOK(drained)
    BY <1>5, <2>1, SameResumes
  <2> HIDE DEF drained
  <2>3. Shape(dropped) /\ dropped.resume = NoResume
    BY <2>1, AccrueOK, DroppedResumes
  <2> HIDE DEF accrued, dropped
  <2>4. CASE ~(q.ended # {} /\ Loaded(q))
    BY <2>2, <2>4 DEF ProcessEndSignals, drained
  <2>5. CASE q.ended # {} /\ Loaded(q)
    <3>1. r \in HandleTrackEnded(drained)
      BY <2>5 DEF ProcessEndSignals, drained
    <3>2. CASE drained.source.queue.repeat = "One"
      <4>1. r = StartOpen(dropped, drained.current.path, TRUE)
        BY <1>3, <3>1, <3>2 DEF HandleTrackEnded, dropped, accrued
      <4> QED
        BY <2>3, <4>1, StartResumes DEF For
    <3>3. CASE drained.source.queue.repeat # "One"
      <4>1. r \in {GoTo(dropped, outcome, spawned) : outcome \in Advance(drained.source), spawned \in Spawns}
        BY <3>1, <3>3 DEF HandleTrackEnded, dropped, accrued
      <4>2. PICK outcome \in Advance(drained.source), spawned \in Spawns : r = GoTo(dropped, outcome, spawned)
        BY <4>1
      <4>3. r = GoTo(dropped, outcome, TRUE) /\ For(dropped, outcome.path)
        BY <1>3, <2>3, <4>2 DEF For
      <4> QED
        BY <2>3, <4>3, GoToResumes
    <3> QED
      BY <3>2, <3>3
  <2> QED
    BY <2>4, <2>5
<1>7. ResumeOK(Accrue(r))
  <2>1. Accrue(r).resume = r.resume /\ Accrue(r).pending = r.pending /\ Accrue(r).halted = r.halted
    BY <1>4 DEF Accrue, PlayerOK, Shape, Fields
  <2> QED
    BY <1>6, <2>1, SameResumes
<1> QED
  BY <1>2, <1>7

\* A call that goes on from a player that has dropped its track.
LEMMA GoResumes ==
  ASSUME "spawn" \notin Faults, NEW p, Shape(p), NEW outcomes,
         \A outcome \in outcomes : For(p, outcome.path), NEW r \in Go(p, outcomes)
  PROVE  ResumeOK(r)
<1>1. PICK outcome \in outcomes, spawned \in Spawns : r = GoTo(p, outcome, spawned)
  BY DEF Go
<1>2. spawned = TRUE
  BY DEF Spawns, Accepted
<1> QED
  BY <1>1, <1>2, GoToResumes

LEMMA CallsResume ==
  ASSUME "spawn" \notin Faults, ResumeInv, Transport \/ QueueCalls
  PROVE  ResumeOK(player')
<1>0. /\ PlayerOK(player) /\ ResumeOK(player) /\ Shape(player)
      /\ Shape(Dropped(player)) /\ Dropped(player).resume = NoResume
  BY DroppedResumes DEF ResumeInv, PlayerInv, PlayerOK
<1>1. ASSUME NEW outcomes, player' \in Go(Dropped(player), outcomes)
      PROVE  ResumeOK(player')
  BY <1>0, <1>1, GoResumes DEF For
<1>2. ASSUME NEW outcome, NEW intent,
             player' \in Go(WithResume(Dropped(player), outcome.path, intent), {outcome})
      PROVE  ResumeOK(player')
  <2> DEFINE p == WithResume(Dropped(player), outcome.path, intent)
  <2>1. Shape(p) /\ For(p, outcome.path)
    BY <1>0 DEF WithResume, For, Shape, Fields
  <2> HIDE DEF p
  <2>2. player' \in Go(p, {outcome})
    BY <1>2 DEF p
  <2> QED
    BY <2>1, <2>2, GoResumes
<1>3. ASSUME NEW sources, player' \in WithSource(player, sources)
      PROVE  ResumeOK(player')
  <2>1. PICK source \in sources : player' = [player EXCEPT !.source = source]
    BY <1>3 DEF WithSource
  <2>2. player'.resume = player.resume /\ player'.pending = player.pending /\ player'.halted = player.halted
    BY <1>0, <2>1 DEF Shape, Fields
  <2> QED
    BY <1>0, <2>2, SameResumes
<1>4. CASE PlayPause \/ Stop \/ SetSettings
  BY <1>0, <1>4, TransportKeeps, SameResumes DEF SameTrack
<1>5. CASE Skip
  BY <1>1, <1>5 DEF Skip, Call
<1>6. CASE Previous
  BY <1>0, <1>1, <1>6 DEF Previous, Call
<1>7. CASE ReplaceAndPlay \/ PlayShuffled \/ DoJumpTo
  BY <1>1, <1>7 DEF ReplaceAndPlay, PlayShuffled, DoJumpTo, Call
<1>8. CASE ReplaceAndPlayAt
  <2>1. PICK items \in Lists, start \in 1..MaxItems, intent \in {"play", "pause"} :
          player' \in UNION {Go(WithResume(Dropped(player), outcome.path, intent), {outcome}) :
                               outcome \in Replace(player.source, items, start)}
    BY <1>8 DEF ReplaceAndPlayAt, Call
  <2>2. PICK outcome : player' \in Go(WithResume(Dropped(player), outcome.path, intent), {outcome})
    BY <2>1
  <2> QED
    BY <1>2, <2>2
<1>9. CASE RestoreQueue
  <2>1. PICK saved \in Saved, intent \in {"play", "pause"} :
          player' \in IF saved.path = NoTrack
                      THEN {[SetState(Dropped(player), "Stopped") EXCEPT
                               !.source = saved.source, !.halted = {"ran out"}]}
                      ELSE Go(WithResume(Dropped(player), saved.path, intent), {saved})
    BY <1>9 DEF RestoreQueue, Call
  <2>2. CASE saved.path = NoTrack
    BY <1>0, <2>1, <2>2 DEF SetState, ResumeOK, Shape, Fields
  <2>3. CASE saved.path # NoTrack
    BY <1>2, <2>1, <2>3
  <2> QED
    BY <2>2, <2>3
<1>10. CASE DoEnqueue \/ DoPlayNext \/ DoMoveTrack \/ DoSetRepeatMode
  BY <1>3, <1>10 DEF DoEnqueue, DoPlayNext, DoMoveTrack, DoSetRepeatMode, Call
<1>11. CASE DoSetShuffle
  BY <1>3, <1>11 DEF DoSetShuffle, Call
<1>12. CASE DoRemove
  BY <1>1, <1>3, <1>12 DEF DoRemove, Call
<1> QED
  BY <1>4, <1>5, <1>6, <1>7, <1>8, <1>9, <1>10, <1>11, <1>12 DEF Transport, QueueCalls

LEMMA OutsideResumes ==
  ASSUME ResumeInv, OpenFinishes \/ ChannelEnds \/ Elapse
  PROVE  ResumeOK(player')
<1>1. PlayerOK(player) /\ ResumeOK(player)
  BY DEF ResumeInv, PlayerInv
<1>2. /\ player'.resume = player.resume /\ player'.pending.path = player.pending.path
      /\ player'.halted = player.halted
  BY <1>1 DEF OpenFinishes, ChannelEnds, Elapse, PlayerOK, Shape, Fields
<1> QED
  BY <1>1, <1>2, SameResumes

LEMMA NextResumes == ASSUME "spawn" \notin Faults PROVE ResumeInv /\ [Next]_vars => ResumeInv'
<1> SUFFICES ASSUME ResumeInv, [Next]_vars PROVE ResumeInv'
  OBVIOUS
<1>1. PlayerInv'
  BY NextOK DEF ResumeInv
<1>2. CASE UNCHANGED vars
  BY <1>1, <1>2 DEF vars, ResumeInv
<1>3. CASE Next
  BY <1>1, <1>3, TickResumes, CallsResume, OutsideResumes DEF Next, ResumeInv
<1> QED
  BY <1>2, <1>3

\* A resume in waiting is for the track being opened, whatever calls and failures
\* came in between, as long as a worker can be spawned; a worker may even die.
THEOREM ResumesTheTrackOpened ==
  ASSUME "spawn" \notin Faults
  PROVE  Spec => []ResumeIsForItsTrack
<1>1. ResumeInv /\ [Next]_vars => ResumeInv'
  BY NextResumes
<1>2. ResumeInv => ResumeIsForItsTrack
  BY DEF ResumeInv, ResumeOK, ResumeIsForItsTrack
<1>3. Init => player.resume = NoResume
  BY DEF Init, NewPlayer
<1>4. Init => ResumeInv
  BY <1>3, InitOK DEF ResumeInv, ResumeOK
<1> QED
  BY <1>1, <1>2, <1>4, PTL DEF Spec

=============================================================================
