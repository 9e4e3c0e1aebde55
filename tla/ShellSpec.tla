------------------------------ MODULE ShellSpec ------------------------------
(***************************************************************************)
(* What the desktop promises about what it shows of the library.           *)
(***************************************************************************)
EXTENDS Shell

Queued(t) == Cardinality({i \in DOMAIN records : records[i].track = t /\ records[i].completed})

\* A play is listed once, whether its row came with a snapshot or was written
\* under the UI's eyes, and stored once, whether its start was recorded, removed
\* or missed (store/stats.rs:61, ui/src/backend/library/source.rs:155).
OneRowPerPlay ==
  /\ \A p, q \in view.history : p.at = q.at => p = q
  /\ \A p, q \in store.history : p.at = q.at => p = q

\* What the UI counts ahead of the store is never more than what the recorder has
\* still to write or was refused: no snapshot brings a play that is counted again
\* (ui/src/backend/library/source.rs:185).
CountedOnce ==
  \A t \in Tracks : Stored(t) => view.counts[t] <= store.counts[t] + Queued(t) + dropped[t]

\* A search that is not waiting shows what its own text finds in the tracks sent
\* last, never the answer to an earlier text or earlier tracks
\* (ui/src/search/engine.rs:23).
AnswerIsOfQuery ==
  engine.query # 0 /\ ~engine.pending =>
    engine.matches = Only(Found(engine.sent, engine.query))

\* A scan shown as running still runs, or the UI thread has its end to take:
\* nothing leaves the indicator on for good (ui/src/backend/library/scan.rs:91).
ScanningEnds ==
  active # 0 =>
    \/ worker[active].pc # "off"
    \/ \E i \in DOMAIN updates : updates[i].type = "finished" /\ updates[i].scan = active

\* A search that waits for its answer has its query, or the answer, on the way.
SearchIsAnswered ==
  engine.pending =>
    \/ \E i \in DOMAIN requests : requests[i].type = "query" /\ Current(engine, requests[i])
    \/ \E i \in DOMAIN answers : Current(engine, answers[i])

Settled ==
  /\ updates = <<>> /\ records = <<>> /\ playing = None
  /\ \A n \in Workers : worker[n].pc = "off"

\* When nothing is under way, the UI shows the stars the store holds: the UI
\* "already holds a snapshot of the same store" (scan.rs:44).
SettledStarsAreStored ==
  Settled /\ Loaded => \A t \in Tracks : Shown(t) => (t \in view.starred <=> t \in store.starred)

=============================================================================
