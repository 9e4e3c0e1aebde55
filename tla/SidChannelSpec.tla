--------------------------- MODULE SidChannelSpec ---------------------------
(***************************************************************************)
(* What playing a SID tune promises the listener and the next tune.        *)
(***************************************************************************)
EXTENDS SidChannel

\* Between two commands a feeder has neither lost nor repeated a chunk: what
\* was heard, what is queued and what is left to render make up the subtune
\* selected last, whatever selects, restarts and pauses came before, and
\* nothing of a subtune left behind is still queued (channel.rs:352, 366, 397).
\* A tune reports its end only when the subtune it is at was heard to its
\* length in the database or to the fallback (channel.rs:373) or the engine
\* failed it.  A reset the stream refused leaves the old chunks in the queue,
\* until one is accepted.
Untouched(ch) == ~ch.silenced /\ "reset" \notin ch.failed
Settled(ch) == ch.pc \in {"recv", "done"} /\ ch.total # 0 /\ Untouched(ch)
SubtuneIsWhole ==
  \A c \in Channels :
    LET ch == chan[c]
    IN  /\ Settled(ch) => /\ ch.heard + Len(ch.queue) + ch.remaining = PlayLength(ch.current)
                          /\ \A i \in DOMAIN ch.queue : ch.queue[i] = ch.current
        /\ ch.ended /\ Untouched(ch) /\ "engine" \notin ch.failed =>
             ch.heard = PlayLength(ch.current)

\* The emulator goes round: the track opened last gets it, however many
\* tunes opened before it are playing, paused or no longer wanted
\* (sid/src/ffi.rs:43, loading.rs:43), because a feeder ends after its channel
\* is dropped, also one whose queue is full as playback is paused
\* (channel.rs:369, 379).
EmulatorGoesRound ==
  \A c \in Channels : /\ player.pending = c ~> player.pending # c
                      /\ chan[c].held = "nowhere" ~> chan[c].pc = "done"

\* A tune that is playing comes to its end, unless it is paused, stopped or
\* left, also when nobody knows its length (channel.rs:75, 175) and when the
\* engine fails it half-way; only a stream that refuses a chunk or the mark of
\* its end keeps it from there (channel.rs:394).
StreamRefused(ch) == ch.failed \cap {"push", "mark"} # {}
TuneEnds ==
  \A c \in Channels :
    player.current = c /\ chan[c].active = "playing" /\ ~chan[c].silenced
      ~> \/ chan[c].ended \/ chan[c].active # "playing" \/ player.current # c
         \/ StreamRefused(chan[c])

\* Stopping keeps the track loaded and play_pause resumes it from the start
\* (transport.rs:40): a channel that plays has something to play.
PlayingIsFed ==
  \A c \in Channels : player.current = c /\ chan[c].active = "playing" =>
    chan[c].pc # "done" \/ chan[c].queue # <<>> \/ chan[c].eos
=============================================================================
