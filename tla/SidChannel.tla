----------------------------- MODULE SidChannel -----------------------------
(***************************************************************************)
(* Playback of SID tunes: crates/player/src/sid/channel.rs, the lease on   *)
(* the one emulator of crates/sid/src/ffi.rs, the push stream of           *)
(* crates/bass/src/push.rs and the calls of the player on the channel.     *)
(*                                                                         *)
(* A channel is opened on a worker, which waits until the feeder thread of *)
(* the channel has the emulator and has loaded the tune.  The feeder then  *)
(* renders chunks into the queue of the push stream between the commands   *)
(* it is sent; the audio thread plays the queue.  The player holds at most *)
(* one channel and at most one that is being opened.  Lengths are counted  *)
(* in rendered chunks.                                                     *)
(***************************************************************************)
EXTENDS Naturals, Sequences

CONSTANTS
  Lengths,      (* the subtunes' lengths in the database, or Unknown       *)
  Default,      (* the subtune a tune starts with                          *)
  Fallback,     (* how long a subtune of unknown length plays              *)
  MaxQueued,    (* the queue above which the feeder idles                  *)
  Faults,       (* what may fail: see Failures                             *)
  MaxOpens,     (* bound: the channels opened                              *)
  MaxCalls      (* bound: the calls on the channels                        *)

Unknown == 0
NoChannel == 0
Channels == 1..MaxOpens
Subtunes == DOMAIN Lengths

ASSUME LengthsAssumption == Lengths \in Seq(Nat) /\ Len(Lengths) > 0
ASSUME DefaultAssumption == Default \in Subtunes
ASSUME FallbackAssumption == Fallback \in Nat \ {0}
ASSUME SidBoundsAssumption ==
  MaxQueued \in Nat /\ MaxOpens \in Nat /\ MaxCalls \in Nat
\* The engine at loading a tune and later on; the push stream at taking a
\* chunk, the mark of its end and the reset of its queue.
Failures == {"load", "engine", "push", "mark", "reset"}
ASSUME SidFaultsAssumption == Faults \subseteq Failures

VARIABLES
  chan,         (* every channel, its feeder and its push stream           *)
  lease,        (* the channel whose feeder has the emulator               *)
  player,       (* the part of the player that deals with the channel      *)
  signal,       (* the player's end channel holds an end signal            *)
  calls         (* calls made so far, bounded by MaxCalls                  *)

vars == <<chan, lease, player, signal, calls>>

Restart == [type |-> "restart"]
SelectSubtune(n) == [type |-> "select", subtune |-> n]
StopFeeder == [type |-> "stop"]
Commands == {Restart, StopFeeder} \cup {SelectSubtune(n) : n \in Subtunes}

PlayLength(n) == IF Lengths[n] = Unknown THEN Fallback ELSE Lengths[n]
KnownLength(n) == Lengths[n]

\* held is where the SidChannel is: not there yet, with the worker, in the
\* message to the player, with the player, or nowhere.  History are silenced,
\* stop was called on the channel, and failed, what failed its feeder since.
ChanType ==
  [held: {"none", "worker", "message", "player", "nowhere"},
   commands: Seq(Commands), silenced: BOOLEAN, failed: SUBSET Failures,
   pc: {"none", "lease", "recv", "store", "length", "reset", "feed", "done"},
   next: Subtunes \cup {0}, current: Subtunes, total: Nat, remaining: Nat,
   active: {"stopped", "playing", "paused"}, queue: Seq(Subtunes),
   eos: BOOLEAN, heard: Nat, ended: BOOLEAN, duration: Nat]

Fresh ==
  [held |-> "none", commands |-> <<>>, silenced |-> FALSE, failed |-> {}, pc |-> "none",
   next |-> 0, current |-> Default, total |-> 0, remaining |-> 0,
   active |-> "stopped", queue |-> <<>>, eos |-> FALSE, heard |-> 0,
   ended |-> FALSE, duration |-> KnownLength(Default)]

PlayerType ==
  [state: {"Stopped", "Playing", "Paused"}, current: Channels \cup {NoChannel},
   pending: Channels \cup {NoChannel}, opened: 0..MaxOpens,
   refreshing: BOOLEAN, shown: Nat]

Init ==
  /\ chan = [c \in Channels |-> Fresh]
  /\ lease = NoChannel
  /\ player = [state |-> "Stopped", current |-> NoChannel, pending |-> NoChannel,
               opened |-> 0, refreshing |-> FALSE, shown |-> Unknown]
  /\ signal = FALSE
  /\ calls = 0

(***************************************************************************)
(* The feeder thread: run_feeder.  Every step ends at an access to what it *)
(* shares with the other threads.                                          *)
(***************************************************************************)

\* CrsidDecoder::from_bytes waits for the lease and loads the tune.
FeederLoads(c) ==
  /\ chan[c].pc = "lease" /\ lease = NoChannel
  /\ \/ /\ lease' = c
        /\ LET frames == PlayLength(chan[c].current)
           IN  chan' = [chan EXCEPT ![c].pc = "recv",
                                    ![c].total = frames, ![c].remaining = frames]
     \/ /\ "load" \in Faults
        /\ chan' = [chan EXCEPT ![c].pc = "done"]
        /\ UNCHANGED lease
  /\ UNCHANGED <<player, signal, calls>>

\* The feeder returns: its decoder is dropped, and the lease with it.
Exits(c, ch) == /\ chan' = [chan EXCEPT ![c] = [ch EXCEPT !.pc = "done"]]
                /\ lease' = NoChannel

\* end_of_stream; nobody hears when the stream refuses the mark.
FinishedSilently(ch) == ch               \* mutant: the end of the stream is not marked
Finished(ch) == [ch EXCEPT !.eos = TRUE]
Unmarked(ch) == [ch EXCEPT !.failed = @ \cup {"mark"}]
Ends(c, ch) == Exits(c, Finished(ch)) \/ ("mark" \in Faults /\ Exits(c, Unmarked(ch)))

\* A restart, a switch or a chunk the engine fails ends the stream as well.
EngineFails(c, ch) ==
  "engine" \in Faults /\ Ends(c, [ch EXCEPT !.failed = @ \cup {"engine"}])

TakesRestartLate(ch) ==                  \* mutant: goes on counting down
  [ch EXCEPT !.pc = "reset"]
TakesRestart(ch) == [ch EXCEPT !.remaining = ch.total, !.pc = "reset"]
TakesSubtune(ch, n) == [ch EXCEPT !.next = n, !.pc = "store"]

MayReceiveWithRoom(ch) ==                \* mutant: waits for room in the queue
  ch.pc = "recv" /\ Len(ch.queue) <= MaxQueued
MayReceive(ch) == ch.pc = "recv"

FeederReceives(c) ==
  LET ch == chan[c]
      rest == [ch EXCEPT !.commands = Tail(@)]
  IN  /\ MayReceive(ch)
      /\ \/ /\ ch.commands = <<>>
            /\ IF ch.held = "nowhere" THEN Exits(c, ch)        \* disconnected
               ELSE chan' = [chan EXCEPT ![c].pc = "feed"] /\ UNCHANGED lease
         \/ /\ ch.commands # <<>> /\ Head(ch.commands) = StopFeeder
            /\ Exits(c, rest)
         \/ /\ ch.commands # <<>> /\ Head(ch.commands) = Restart
            /\ chan' = [chan EXCEPT ![c] = TakesRestart(rest)]
            /\ UNCHANGED lease
         \/ /\ ch.commands # <<>> /\ Head(ch.commands).type = "select"
            /\ chan' = [chan EXCEPT ![c] = TakesSubtune(rest, Head(ch.commands).subtune)]
            /\ UNCHANGED lease
         \/ ch.commands # <<>> /\ Head(ch.commands) # StopFeeder /\ EngineFails(c, rest)
      /\ UNCHANGED <<player, signal, calls>>

FeederStoresSubtune(c) ==
  /\ chan[c].pc = "store"
  /\ chan' = [chan EXCEPT ![c].current = chan[c].next, ![c].pc = "length"]
  /\ UNCHANGED <<lease, player, signal, calls>>

SetsLength(ch) ==
  [ch EXCEPT !.duration = IF KnownLength(ch.next) = Unknown THEN @ ELSE KnownLength(ch.next),
             !.total = PlayLength(ch.next), !.remaining = PlayLength(ch.next),
             !.next = 0, !.pc = "reset"]
FeederSetsLength(c) ==
  /\ chan[c].pc = "length"
  /\ chan' = [chan EXCEPT ![c] = SetsLength(chan[c])]
  /\ UNCHANGED <<lease, player, signal, calls>>

\* set_position_bytes(0) empties the queue of the push stream, unless it
\* fails, which nobody hears.
Emptied(ch) ==
  [ch EXCEPT !.queue = <<>>, !.heard = 0, !.pc = "feed", !.failed = @ \ {"reset"}]
Kept(ch) == [ch EXCEPT !.pc = "feed", !.failed = @ \cup {"reset"}]
FeederResetsQueue(c) ==
  /\ chan[c].pc = "reset"
  /\ \/ chan' = [chan EXCEPT ![c] = Emptied(chan[c])]
     \/ "reset" \in Faults /\ chan' = [chan EXCEPT ![c] = Kept(chan[c])]
  /\ UNCHANGED <<lease, player, signal, calls>>

IsFull(ch) == Len(ch.queue) > MaxQueued
Pushed(ch) == [ch EXCEPT !.queue = Append(@, ch.current), !.remaining = @ - 1, !.pc = "recv"]

\* A feeder whose chunk the stream refuses returns without marking the end.
PushRefused(ch) == [ch EXCEPT !.failed = @ \cup {"push"}]

FeederFeeds(c) ==
  LET ch == chan[c]
      renders == ch.remaining > 0 /\ ~IsFull(ch)
  IN  /\ ch.pc = "feed"
      /\ \/ ch.remaining = 0 /\ Ends(c, ch)
         \/ /\ ch.remaining > 0 /\ IsFull(ch)
            /\ chan' = [chan EXCEPT ![c].pc = "recv"] /\ UNCHANGED lease
         \/ renders /\ chan' = [chan EXCEPT ![c] = Pushed(ch)] /\ UNCHANGED lease
         \/ renders /\ EngineFails(c, ch)
         \/ renders /\ "push" \in Faults /\ Exits(c, PushRefused(ch))
      /\ UNCHANGED <<player, signal, calls>>

Feeder(c) ==
  \/ FeederLoads(c)          \/ FeederReceives(c)   \/ FeederStoresSubtune(c)
  \/ FeederSetsLength(c)     \/ FeederResetsQueue(c) \/ FeederFeeds(c)

(***************************************************************************)
(* The audio thread: BASS plays what is queued and, once the queue of an   *)
(* ended stream is empty, stops and calls the end sync, which lives as     *)
(* long as the player holds the channel.                                   *)
(***************************************************************************)
StreamExists(ch) == ch.held # "nowhere" \/ ch.pc # "done"

AudioPlays(c) ==
  /\ chan[c].active = "playing" /\ chan[c].queue # <<>> /\ StreamExists(chan[c])
  /\ chan' = [chan EXCEPT ![c].queue = Tail(@), ![c].heard = @ + 1]
  /\ UNCHANGED <<lease, player, signal, calls>>

AudioEnds(c) ==
  /\ chan[c].active = "playing" /\ chan[c].queue = <<>> /\ chan[c].eos
  /\ StreamExists(chan[c])
  /\ chan' = [chan EXCEPT ![c].active = "stopped", ![c].ended = TRUE]
  /\ signal' = (signal \/ chan[c].held = "player")
  /\ UNCHANGED <<lease, player, calls>>

(***************************************************************************)
(* The player.  A call is the composition of steps on the channels and the *)
(* player, kept together in a record of the two.                           *)
(***************************************************************************)
World == [chan |-> chan, player |-> player]

\* Drop of a SidChannel, with or without the stop the player sends before it:
\* the feeder returns at the first of the two.
Dropped(ch) == [ch EXCEPT !.held = "nowhere", !.commands = Append(@, StopFeeder)]

DropCurrent(w) ==
  IF w.player.current = NoChannel THEN w
  ELSE [chan   |-> [w.chan EXCEPT ![w.player.current] = Dropped(@)],
        player |-> [w.player EXCEPT !.current = NoChannel, !.shown = Unknown]]

\* start_open drops the receiver of the open before it, and the channel in
\* the message it may hold.
StartOpen(w) ==
  LET c == w.player.opened + 1
      p == w.player.pending
      left == IF p # NoChannel /\ w.chan[p].held = "message"
              THEN [w.chan EXCEPT ![p] = Dropped(@)] ELSE w.chan
  IN  [chan   |-> [left EXCEPT ![c] = [Fresh EXCEPT !.held = "worker", !.pc = "lease"]],
       player |-> [w.player EXCEPT !.pending = c, !.opened = c]]

Becomes(w) == chan' = w.chan /\ player' = w.player

Failed(ch) == ch.pc = "done" /\ ch.total = 0

\* The worker has waited for the feeder; what it opened is lost when the
\* player has opened something else since.
Abandoned(c) == Dropped(chan[c])
WorkerFinishes(c) ==
  /\ chan[c].held = "worker" /\ chan[c].pc # "lease"
  /\ chan' = [chan EXCEPT ![c] =
                IF player.pending = c THEN [chan[c] EXCEPT !.held = "message"]
                ELSE Abandoned(c)]
  /\ UNCHANGED <<lease, player, signal, calls>>

\* capabilities, and the duration when it is known.
ShownDuration(ch) ==
  IF KnownLength(ch.current) = Unknown THEN Unknown ELSE ch.duration

ProcessPendingOpen(w) ==
  LET c == w.player.pending
  IN  IF c = NoChannel \/ w.chan[c].held # "message" THEN w
      ELSE IF Failed(w.chan[c])
      THEN [chan   |-> [w.chan EXCEPT ![c].held = "nowhere"],
            player |-> [w.player EXCEPT !.pending = NoChannel, !.state = "Stopped"]]
      ELSE [chan   |-> [w.chan EXCEPT ![c].held = "player", ![c].active = "playing"],
            player |-> [w.player EXCEPT !.pending = NoChannel, !.current = c,
                          !.state = "Playing", !.shown = ShownDuration(w.chan[c])]]

\* What follows a track that ended is another one or, with the queue at its
\* end, nothing.
OpenNextOrStop(w) ==
  {[w EXCEPT !.player.state = "Stopped"]} \cup
  (IF w.player.opened < MaxOpens THEN {StartOpen(w)} ELSE {})

Tick ==
  /\ ~player.refreshing
  /\ LET w == ProcessPendingOpen(World)
     IN  \E after \in IF signal /\ w.player.current # NoChannel
                      THEN OpenNextOrStop(DropCurrent(w)) ELSE {w} : Becomes(after)
  /\ signal' = FALSE
  /\ UNCHANGED <<lease, calls>>

Call == /\ calls < MaxCalls /\ ~player.refreshing
        /\ calls' = calls + 1
        /\ UNCHANGED <<lease, signal>>

OpenTrack ==
  /\ player.opened < MaxOpens
  /\ Call
  /\ Becomes(StartOpen(DropCurrent(World)))

\* BASS refuses to pause what is not playing.
PlayPause ==
  LET c == player.current
  IN  /\ c # NoChannel
      /\ Call
      /\ \/ /\ player.state = "Playing" /\ chan[c].active = "playing"
            /\ Becomes([chan   |-> [chan EXCEPT ![c].active = "paused"],
                        player |-> [player EXCEPT !.state = "Paused"]])
         \/ /\ player.state # "Playing"
            /\ Becomes([chan   |-> [chan EXCEPT ![c].active = "playing"],
                        player |-> [player EXCEPT !.state = "Playing"]])

\* BASS goes back to the start; whether the queue survives is its own affair.
Silenced(ch, queue) ==
  [ch EXCEPT !.commands = Append(@, StopFeeder), !.silenced = TRUE,
             !.active = "stopped", !.heard = 0, !.queue = queue]
Stop ==
  /\ Call
  /\ player' = [player EXCEPT !.state = "Stopped"]
  /\ IF player.current = NoChannel THEN UNCHANGED chan
     ELSE \E queue \in {<<>>, chan[player.current].queue} :
            chan' = [chan EXCEPT ![player.current] = Silenced(@, queue)]

\* Only a seek to the start is honoured.
SeekToStart ==
  /\ player.current # NoChannel
  /\ Call
  /\ chan' = [chan EXCEPT ![player.current].commands = Append(@, Restart)]
  /\ UNCHANGED player

Clamped(n) == IF n < 1 THEN 1 ELSE IF n > Len(Lengths) THEN Len(Lengths) ELSE n

SelectSubsong(n) ==
  /\ player.current # NoChannel
  /\ Call
  /\ chan' = [chan EXCEPT ![player.current].commands = Append(@, SelectSubtune(Clamped(n)))]
  /\ player' = [player EXCEPT !.refreshing = TRUE]

\* The second half of select_subsong, on whatever the feeder has done by now.
SelectRefreshes ==
  /\ player.refreshing
  /\ player' = [player EXCEPT !.refreshing = FALSE,
                              !.shown = ShownDuration(chan[player.current])]
  /\ UNCHANGED <<chan, lease, signal, calls>>

Next ==
  \/ OpenTrack \/ PlayPause \/ Stop \/ SeekToStart \/ SelectRefreshes \/ Tick
  \/ \E n \in 0..(Len(Lengths) + 1) : SelectSubsong(n)
  \/ \E c \in Channels : Feeder(c) \/ WorkerFinishes(c) \/ AudioPlays(c) \/ AudioEnds(c)

(***************************************************************************)
(* The threads are scheduled, the user interface keeps ticking.  No call   *)
(* of the user is ever due.                                                *)
(***************************************************************************)
Spec == /\ Init /\ [][Next]_vars
        /\ WF_vars(Tick) /\ WF_vars(SelectRefreshes)
        /\ \A c \in Channels : /\ WF_vars(Feeder(c)) /\ WF_vars(WorkerFinishes(c))
                               /\ WF_vars(AudioPlays(c)) /\ WF_vars(AudioEnds(c))
=============================================================================
