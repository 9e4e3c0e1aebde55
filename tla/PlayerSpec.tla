----------------------------- MODULE PlayerSpec -----------------------------
(***************************************************************************)
(* What the playback engine promises its user: which track is loaded, what *)
(* the transport state says about it, and where playback ends up.          *)
(***************************************************************************)
EXTENDS Player

\* A track is dropped before the next one is opened, whichever of the calls,
\* the end of a track or a failed open asks for it, so no two channels of the
\* player can sound at once.
OneChannelAtMost == ~(Loaded(player) /\ Opening(player))

\* While the queue has not run out, what is loaded or being opened is the
\* queue's current track: every edit of the queue that changes the current
\* track also reloads.  The transport shows "playing" only while a track is
\* loaded or on its way: a failed open leaves the next track opening or the
\* player stopped.
PlayingIsCurrent ==
  /\ player.state = "Playing" => Loaded(player) \/ Opening(player)
  /\ "ran out" \notin player.halted =>
       /\ Loaded(player) => player.current.path = Current(player.source)
       /\ Opening(player) => player.pending.path = Current(player.source)

\* A loaded channel has the volume and tracker settings the user last chose,
\* also when they were chosen while it was being opened, unless it refused
\* them: it never goes on with settings nobody tried to replace.
SettingsReachChannel ==
  Loaded(player) => player.current.applied \in {player.settings, Refused}

\* The transport state tells what is heard: a channel held paused or stopped
\* is never shown as playing, and one that plays is shown as paused or
\* stopped only while the pause of a restored track, or the last stop, stands
\* refused by the backend.  Any call it accepts ends that.
Heard(chan) ==
  CASE player.state = "Playing" -> chan \in {"playing", "ended"}
    [] player.state = "Paused"  -> chan \in {"paused", "ended"}
    [] OTHER                    -> chan = "stopped"
StateIsWhatIsHeard ==
  Loaded(player) =>
    CASE player.current.refused = "pause" -> player.state = "Paused"
      [] player.current.refused = "stop"  -> player.state = "Stopped"
      [] OTHER                            -> Heard(player.current.chan)

\* "A failed open drops them, so they never leak onto a later track": a
\* pending resume is for the open in flight, whatever calls and failures came
\* in between, as long as the restored queue had a track to open.
ResumeIsForItsTrack ==
  player.resume # NoResume /\ "ran out" \notin player.halted =>
    player.pending.path = player.resume.path

\* Left to itself, an open ends with a loaded track or a stopped player, also
\* when every track is offline and the shuffled scope repeats.
OpensSettle == Opening(player) ~> Loaded(player) \/ player.state = "Stopped"
=============================================================================
