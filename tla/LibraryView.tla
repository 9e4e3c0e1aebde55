----------------------------- MODULE LibraryView -----------------------------
(***************************************************************************)
(* The library as the desktop shows it: crates/ui/src/backend/library.     *)
(*                                                                         *)
(* The UI thread shows a snapshot of the store in memory.  It writes stars *)
(* and history to the store and to the snapshot at once, under the lock of *)
(* the store; plays that end go to a recorder thread.  Loader, scans, tag  *)
(* edits and syncs with a server run on threads of their own: they change  *)
(* the store through their own connection, build a new snapshot and send   *)
(* it, and the UI thread swaps it in.                                      *)
(***************************************************************************)
EXTENDS Naturals, Sequences, FiniteSets, FiniteSetsExt

CONSTANTS
  Tracks,       (* the ids of tracks, in the order of their paths          *)
  Remote,       (* the tracks in the cache of a remote server              *)
  Tags,         (* what the tags of a track may say; 0: no such row        *)
  Faults,       (* what may fail: a thread's first snapshot may not be     *)
                (* readable, or the store refuse a write of the UI thread  *)
                (* or of the recorder                                      *)
  MaxWorkers,   (* bound: the threads started                              *)
  MaxClicks,    (* bound: the user's edits                                 *)
  MaxPlays      (* bound: the plays begun                                  *)

ASSUME ViewAssumption ==
  /\ Tracks \subseteq Nat \ {0} /\ IsFiniteSet(Tracks) /\ Remote \subseteq Tracks
  /\ Tags \subseteq Nat \ {0} /\ IsFiniteSet(Tags) /\ Tags # {}
  /\ Faults \subseteq {"start", "filter", "store"}
  /\ MaxWorkers \in Nat /\ MaxClicks \in Nat /\ MaxPlays \in Nat

VARIABLES
  store,        (* the database: tracks, stars, history and play counts;   *)
                (* a history is its rows, which are listed by their start  *)
  view,         (* the snapshot the UI thread shows, of the same shape     *)
  serverOnly,   (* the switch that hides the local tracks                  *)
  active,       (* the scan shown as running, 0 for none                   *)
  worker,       (* every thread started                                    *)
  updates,      (* the channel from the threads to the UI thread           *)
  playing,      (* the play going on                                       *)
  records,      (* the channel to the recorder thread                      *)
  dropped,      (* history: the plays of each track that were completed    *)
                (* and that the store refused to record                    *)
  used          (* the threads, clicks and plays so far                    *)

viewVars ==
  <<store, view, serverOnly, active, worker, updates, playing, records, dropped, used>>

Workers == 1..MaxWorkers
None == [track |-> 0, at |-> 0]
NoView == [tracks |-> [t \in Tracks |-> 0], starred |-> {}, history |-> {},
           counts |-> [t \in Tracks |-> 0]]
Unspawned == [pc |-> "off", job |-> "none", track |-> 0, only |-> FALSE, built |-> NoView]

Stored(t) == store.tracks[t] # 0
Shown(t) == view.tracks[t] # 0

ViewInit ==
  /\ store = [NoView EXCEPT !.tracks = [t \in Tracks |-> CHOOSE v \in Tags : TRUE]]
  /\ view = NoView /\ serverOnly = FALSE /\ active = 0
  /\ worker = [n \in Workers |-> Unspawned]
  /\ updates = <<>> /\ playing = None /\ records = <<>>
  /\ dropped = [t \in Tracks |-> 0]
  /\ used = [workers |-> 0, clicks |-> 0, plays |-> 0]

FromStore(only) ==
  LET kept == {t \in Tracks : Stored(t) /\ (only => t \in Remote)} IN
  [tracks |-> [t \in Tracks |-> IF t \in kept THEN store.tracks[t] ELSE 0],
   starred |-> store.starred \cap kept,
   history |-> {p \in store.history : p.track \in kept},
   counts |-> [t \in Tracks |-> IF t \in kept THEN store.counts[t] ELSE 0]]

----------------------------------------------------------------------------
(* Starting threads, on the UI thread.                                     *)

Loaded == \E n \in Workers : worker[n].job = "start"

FirstPc(job) ==
  IF job \in {"start", "filter"} THEN "load" ELSE IF job = "sync" THEN "queued" ELSE "work"

Spawn(job, t, only) ==
  /\ used.workers < MaxWorkers
  /\ used' = [used EXCEPT !.workers = @ + 1]
  /\ worker' = [worker EXCEPT ![used.workers + 1] =
       [Unspawned EXCEPT !.pc = FirstPc(job), !.job = job, !.track = t, !.only = only]]
  /\ UNCHANGED <<store, view, updates, playing, records, dropped>>

BeginScan(job) ==
  /\ Spawn(job, 0, serverOnly)
  /\ active' = used.workers + 1
  /\ UNCHANGED serverOnly

FirstFolders == ~Loaded /\ BeginScan("start")
ChangeFolders == Loaded /\ BeginScan("folders")
Rescan == Loaded /\ BeginScan("rescan")

RequestTagEdits(t) ==
  /\ Loaded /\ Shown(t) /\ Spawn("edit", t, serverOnly)
  /\ UNCHANGED <<serverOnly, active>>

\* Before the loader was started there is nothing to build anew; the switch then
\* counts as a click.
SetServerOnly ==
  /\ serverOnly' = ~serverOnly
  /\ IF Loaded THEN Spawn("filter", 0, ~serverOnly)
     ELSE /\ used.clicks < MaxClicks /\ used' = [used EXCEPT !.clicks = @ + 1]
          /\ UNCHANGED <<store, view, worker, updates, playing, records, dropped>>
  /\ UNCHANGED active

QueuedSyncs == {n \in Workers : worker[n].pc = "queued"}

\* A request, a new list of servers or a timer asks for a sync, at any moment;
\* a pass that still waits for the one before takes the newer request.
SyncRemote ==
  /\ IF QueuedSyncs = {} THEN Spawn("sync", 0, serverOnly)
     ELSE /\ worker' = [n \in Workers |->
                          IF n \in QueuedSyncs THEN [worker[n] EXCEPT !.only = serverOnly] ELSE worker[n]]
          /\ UNCHANGED <<store, view, updates, playing, records, dropped, used>>
  /\ UNCHANGED <<serverOnly, active>>

----------------------------------------------------------------------------
(* The threads.                                                            *)

Goes(n, pc) == worker' = [worker EXCEPT ![n].pc = pc]
Keeps == UNCHANGED <<view, serverOnly, active, playing, records, dropped, used>>

LoadSnapshot(n) ==
  /\ worker[n].pc = "load"
  /\ worker' = [worker EXCEPT ![n].pc = "loaded", ![n].built = FromStore(worker[n].only)]
  /\ UNCHANGED <<store, updates>> /\ Keeps

LoadFails(n) ==
  /\ worker[n].pc = "load" /\ worker[n].job \in Faults
  /\ Goes(n, "off")
  /\ UNCHANGED <<store, updates>> /\ Keeps

SnapshotOf(n) == [type |-> "snapshot", view |-> worker[n].built, scan |-> 0]
Finished(n) == [type |-> "finished", view |-> NoView, scan |-> n]

Sends(n, messages, next) ==
  /\ updates' = updates \o messages
  /\ worker' = [worker EXCEPT ![n].pc = next, ![n].built = NoView]
  /\ UNCHANGED store /\ Keeps

SendLoaded(n) ==
  /\ worker[n].pc = "loaded"
  /\ Sends(n, <<SnapshotOf(n)>>, IF worker[n].job = "filter" THEN "off" ELSE "work")

ScanJobs == {"start", "folders", "rescan"}
Scans(n) == worker[n].pc \in {"work", "changed"} /\ worker[n].job \in ScanJobs
MayFail(n) == worker[n].pc \in {"work", "changed", "build"}

Without(s, t) ==
  [s EXCEPT !.tracks[t] = 0, !.starred = @ \ {t}, !.counts[t] = 0,
            !.history = {p \in @ : p.track # t}]

\* A scan stores another version of a file, or deletes the row of one, and a
\* sync those of a server; a file that comes back gets another id.  Bound: one
\* change in a scan or a sync.
ScanChanges(n, t, v) ==
  /\ worker[n].pc = "work" /\ worker[n].job \in ScanJobs \cup {"sync"}
  /\ t \in Remote <=> worker[n].job = "sync"
  /\ Stored(t) /\ v # store.tracks[t]
  /\ store' = IF v = 0 THEN Without(store, t) ELSE [store EXCEPT !.tracks[t] = v]
  /\ Goes(n, "changed") /\ UNCHANGED updates /\ Keeps

\* Whether the scan calls for a snapshot; one that was cancelled does.
Needed(n, cancelled) == worker[n].pc = "changed" \/ cancelled \/ worker[n].job = "folders"

ScanEnds(n, cancelled) ==
  /\ Scans(n)
  /\ Goes(n, IF Needed(n, cancelled) THEN "build" ELSE "finish")
  /\ UNCHANGED <<store, updates>> /\ Keeps

ScanFailsEarly(n) ==
  /\ MayFail(n) /\ worker[n].job \in ScanJobs /\ Goes(n, "off")
  /\ UNCHANGED <<store, updates>> /\ Keeps

ScanFails(n) ==
  /\ MayFail(n) /\ worker[n].job \in ScanJobs /\ Goes(n, "finish")
  /\ UNCHANGED <<store, updates>> /\ Keeps

EditTags(n, v) ==
  LET t == worker[n].track IN
  /\ worker[n].pc = "work" /\ worker[n].job = "edit"
  /\ store' = IF Stored(t) THEN [store EXCEPT !.tracks[t] = v] ELSE store
  /\ Goes(n, "build") /\ UNCHANGED updates /\ Keeps

\* Nothing could be edited, or the snapshot cannot be read afterwards.
EditFails(n) ==
  /\ MayFail(n) /\ worker[n].job = "edit"
  /\ Goes(n, "off") /\ UNCHANGED <<store, updates>> /\ Keeps

Syncs(n) == worker[n].job = "sync" /\ worker[n].pc \in {"work", "changed", "starred"}

\* One thread runs the passes of the sync one after the other.
TakeSync(n) ==
  /\ worker[n].pc = "queued"
  /\ \A m \in Workers \ {n} : worker[m].job = "sync" => worker[m].pc = "off"
  /\ Goes(n, "work") /\ UNCHANGED <<store, updates>> /\ Keeps

\* The stars a sync brings go to the store alone, for tracks of the server or
\* local ones.  Bound: one star in a sync.
SyncStars(n, t) ==
  /\ Syncs(n) /\ worker[n].pc # "starred" /\ Stored(t)
  /\ store' = [store EXCEPT !.starred = IF t \in @ THEN @ \ {t} ELSE @ \cup {t}]
  /\ Goes(n, "starred") /\ UNCHANGED updates /\ Keeps

\* A snapshot is built whatever failed on the way.
SyncEnds(n) ==
  /\ Syncs(n) /\ Goes(n, "build")
  /\ UNCHANGED <<store, updates>> /\ Keeps

\* The snapshot cannot be read.
SyncFails(n) ==
  /\ worker[n].job = "sync" /\ worker[n].pc = "build" /\ Goes(n, "off")
  /\ UNCHANGED <<store, updates>> /\ Keeps

\* The lock of the store is held while it is read, but not while it is sent.
Build(n) ==
  /\ worker[n].pc = "build"
  /\ worker' = [worker EXCEPT ![n].pc = "built", ![n].built = FromStore(worker[n].only)]
  /\ UNCHANGED <<store, updates>> /\ Keeps

\* A scan sends that it has finished right after its snapshot.
SendSnapshot(n) ==
  /\ worker[n].pc = "built"
  /\ Sends(n, IF worker[n].job \in ScanJobs THEN <<SnapshotOf(n), Finished(n)>> ELSE <<SnapshotOf(n)>>,
           "off")

FinishScan(n) ==
  /\ worker[n].pc = "finish"
  /\ Sends(n, <<Finished(n)>>, "off")

Worker(n) ==
  \/ LoadSnapshot(n) \/ LoadFails(n) \/ SendLoaded(n)
  \/ \E t \in Tracks, v \in Tags \cup {0} : ScanChanges(n, t, v)
  \/ \E cancelled \in BOOLEAN : ScanEnds(n, cancelled)
  \/ ScanFails(n) \/ EditFails(n) \/ \E v \in Tags : EditTags(n, v)
  \/ TakeSync(n) \/ SyncEnds(n) \/ SyncFails(n) \/ \E t \in Tracks : SyncStars(n, t)
  \/ Build(n) \/ SendSnapshot(n) \/ FinishScan(n)

----------------------------------------------------------------------------
(* The UI thread: updates, edits and plays.                                *)

Snapshots == {i \in DOMAIN updates : updates[i].type = "snapshot"}

\* A tick takes every update there is.
TakeUpdates ==
  /\ view' = IF Snapshots = {} THEN view ELSE updates[Max(Snapshots)].view
  /\ active' = IF \E i \in DOMAIN updates : updates[i].type = "finished" /\ updates[i].scan = active
               THEN 0 ELSE active
  /\ updates' = <<>>
  /\ UNCHANGED <<store, serverOnly, worker, playing, records, dropped, used>>

Click ==
  /\ used.clicks < MaxClicks
  /\ used' = [used EXCEPT !.clicks = @ + 1]
  /\ UNCHANGED <<serverOnly, active, worker, updates, playing, records, dropped>>

\* A write of the store that fails is warned about and not taken back on screen.
Refused == "store" \in Faults /\ UNCHANGED store

Starred(s, t, on) == [s EXCEPT !.starred = IF on THEN @ \cup {t} ELSE @ \ {t}]

SetStarred(t) ==
  LET on == t \notin view.starred IN
  /\ Shown(t) /\ Click
  /\ store' = (IF Stored(t) THEN Starred(store, t, on) ELSE store) \/ Refused
  /\ view' = Starred(view, t, on)

WithoutEntry(s, id) == [s EXCEPT !.history = {p \in @ : p.id # id}]

RemoveHistoryEntry(id) ==
  /\ \E p \in view.history : p.id = id
  /\ Click
  /\ store' = WithoutEntry(store, id) \/ Refused
  /\ view' = WithoutEntry(view, id)

ClearHistory ==
  /\ Click
  /\ store' = [store EXCEPT !.history = {}] \/ Refused
  /\ view' = [view EXCEPT !.history = {}]

Listed(s, p) == [s EXCEPT !.history = @ \cup {p}]

\* The adapter's started_at is the second the track began in.
BeginPlay(t) ==
  LET n == used.plays + 1
      row == [id |-> 2 * n, track |-> t, at |-> n, finished |-> FALSE] IN
  /\ playing = None /\ used.plays < MaxPlays
  /\ used' = [used EXCEPT !.plays = n]
  /\ playing' = [track |-> t, at |-> n]
  /\ \/ /\ store' = IF Stored(t) THEN Listed(store, row) ELSE store
        /\ view' = IF Stored(t) /\ Shown(t) THEN Listed(view, row) ELSE view
     \/ Refused /\ UNCHANGED view
  /\ UNCHANGED <<serverOnly, active, worker, updates, records, dropped>>

IsOf(p, r) == p.track = r.track /\ p.at = r.at

Finalized(history, r) ==
  {IF IsOf(p, r) THEN [p EXCEPT !.finished = TRUE] ELSE p : p \in history}

Counted(s, r) == IF r.completed THEN [s EXCEPT !.counts[r.track] = @ + 1] ELSE s

FinishPlay(completed) ==
  LET r == [track |-> playing.track, at |-> playing.at, completed |-> completed] IN
  /\ playing # None
  /\ playing' = None
  /\ records' = Append(records, r)
  /\ view' = IF Shown(r.track) THEN Counted([view EXCEPT !.history = Finalized(@, r)], r) ELSE view
  /\ UNCHANGED <<store, serverOnly, active, worker, updates, dropped, used>>

RecordedAlways(s, r) ==
  Listed(s, [id |-> 2 * r.at + 1, track |-> r.track, at |-> r.at, finished |-> TRUE])

RunsOn(s, r) == \E p \in s.history : IsOf(p, r) /\ ~p.finished

\* The recorder thread; an entry that was removed meanwhile is written anew.
Recorded(s, r) ==
  IF RunsOn(s, r) THEN [s EXCEPT !.history = Finalized(@, r)]
  ELSE Listed(s, [id |-> 2 * r.at + 1, track |-> r.track, at |-> r.at, finished |-> TRUE])

StatsIfListed(s, r) == IF RunsOn(s, r) THEN Counted(Recorded(s, r), r) ELSE Recorded(s, r)

Stats(s, r) == Counted(Recorded(s, r), r)

DroppedToo(r) == IF r.completed THEN [dropped EXCEPT ![r.track] = @ + 1] ELSE dropped

\* A record that cannot be written is gone.
RecordPlay ==
  LET r == Head(records) IN
  /\ records # <<>>
  /\ records' = Tail(records)
  /\ \/ store' = (IF Stored(r.track) THEN Stats(store, r) ELSE store) /\ UNCHANGED dropped
     \/ Refused /\ dropped' = DroppedToo(r)
  /\ UNCHANGED <<view, serverOnly, active, worker, updates, playing, used>>

Library ==
  \/ FirstFolders \/ ChangeFolders \/ Rescan \/ SetServerOnly \/ SyncRemote
  \/ ClearHistory \/ RecordPlay
  \/ \E t \in Tracks : RequestTagEdits(t) \/ SetStarred(t) \/ BeginPlay(t)
  \/ \E p \in view.history : RemoveHistoryEntry(p.id)
  \/ \E completed \in BOOLEAN : FinishPlay(completed)
  \/ \E n \in Workers : Worker(n)

=============================================================================
