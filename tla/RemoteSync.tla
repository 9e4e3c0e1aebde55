----------------------------- MODULE RemoteSync -----------------------------
\* How a desktop mirrors the library of a server it is paired with.
\*
\* The user interface asks for a sync; a worker thread runs passes until no request
\* is left. A pass asks the server for everything newer than the version it last
\* stored: the server answers from three reads that are not one transaction (its
\* version, its tracks, its tombstones), and the desktop writes the answer in
\* three transactions (rows, deletions, version). Scans change the server's
\* library, and the user unpairs and pairs again, between any two of these steps.

EXTENDS Naturals, FiniteSets

CONSTANTS
  Tracks,     \* ids the server's library may have
  Threads,    \* the threads a worker may run on
  MaxEvents   \* bound on scans, failures, restarts, unpairings and pairings

ASSUME RemoteSyncAssumption == MaxEvents \in Nat

VARIABLES
  lib,       \* the server's library
  store,     \* the desktop's rows of it, and the version they are at
  paired,    \* the server is in the desktop's list
  queued,    \* a sync has been asked for that no worker has taken
  running,   \* the flag that a worker exists
  ui,        \* the step the user interface is at in spawn_sync
  worker,    \* worker[w]: the step thread w is at, and its locals
  events,    \* events so far
  forgot     \* history: the server has been unpaired

vars == <<lib, store, paired, queued, running, ui, worker, events, forgot>>

-----------------------------------------------------------------------------
\* The server's library. Every batch takes one version; 0 stands for "no such row".

None == 0

NewLibrary == [at      |-> [t \in Tracks |-> None],   \* version a track last changed at
               tomb    |-> [t \in Tracks |-> None],   \* version a track was deleted at
               version |-> 0]

Present(l) == {t \in Tracks : l.at[t] # None}

\* A batch of new and changed tracks clears their tombstones.
UpsertTracks(l, ids) ==
  [at      |-> [t \in Tracks |-> IF t \in ids THEN l.version + 1 ELSE l.at[t]],
   tomb    |-> [t \in Tracks |-> IF t \in ids THEN None ELSE l.tomb[t]],
   version |-> l.version + 1]

DeleteTracks(l, ids) ==
  [at      |-> [t \in Tracks |-> IF t \in ids THEN None ELSE l.at[t]],
   tomb    |-> [t \in Tracks |-> IF t \in ids THEN l.version + 1 ELSE l.tomb[t]],
   version |-> l.version + 1]

PurgeTombstone(l, t) == [l EXCEPT !.tomb[t] = None]

-----------------------------------------------------------------------------

Ticks == events < MaxEvents /\ events' = events + 1

ThreadSteps == {"none", "take", "version", "tracks", "tombs", "upsert", "delete", "since",
                "clear", "recheck", "reclaim"}

\* The steps of a pass, from the request to the stored version.
PassSteps == {"version", "tracks", "tombs", "upsert", "delete", "since"}

NoThread == [step |-> "none", since |-> 0, version |-> 0,
             tracks |-> [t \in Tracks |-> None], gone |-> {}]

Goes(w, step) == worker' = [worker EXCEPT ![w].step = step]

Scan ==
  /\ Ticks
  /\ \/ \E ids \in SUBSET Tracks \ {{}} : lib' = UpsertTracks(lib, ids)
     \/ \E ids \in SUBSET Present(lib) \ {{}} : lib' = DeleteTracks(lib, ids)
     \/ \E t \in Tracks : lib.tomb[t] # None /\ lib' = PurgeTombstone(lib, t)
  /\ UNCHANGED <<store, paired, queued, running, ui, worker, forgot>>

-----------------------------------------------------------------------------
\* The user interface: spawn_sync queues a job, then starts a worker if the flag
\* was down.

Request ==
  /\ ui = "idle" /\ paired
  /\ ui' = "swap" /\ queued' = TRUE
  /\ UNCHANGED <<lib, store, paired, running, worker, events, forgot>>

Swap ==
  /\ ui = "swap"
  /\ ui' = "idle" /\ running' = TRUE
  /\ IF running THEN UNCHANGED worker
     ELSE \E w \in Threads : worker[w].step = "none" /\ Goes(w, "take")
  /\ UNCHANGED <<lib, store, paired, queued, events, forgot>>

\* Unpairing drops the rows of the server (and the base of the star sync), not the
\* version. A worker in the middle of a pass is not told.
Unpair ==
  /\ ui = "idle" /\ paired /\ Ticks
  /\ paired' = FALSE /\ forgot' = TRUE
  /\ store' = [store EXCEPT !.rows = [t \in Tracks |-> None]]
  /\ UNCHANGED <<lib, queued, running, ui, worker>>

\* The same server again: its id is made from its address.
Pair ==
  /\ ui = "idle" /\ ~paired /\ Ticks
  /\ paired' = TRUE /\ ui' = "swap" /\ queued' = TRUE
  /\ UNCHANGED <<lib, store, running, worker, forgot>>

\* The program is closed and started again.
Restart ==
  /\ Ticks
  /\ queued' = FALSE /\ running' = FALSE /\ ui' = "idle"
  /\ worker' = [w \in Threads |-> NoThread]
  /\ UNCHANGED <<lib, store, paired, forgot>>

-----------------------------------------------------------------------------
\* The worker: drain.

Take(w) ==
  /\ worker[w].step = "take"
  /\ queued' = FALSE
  /\ Goes(w, IF queued THEN "version" ELSE "clear")
  /\ UNCHANGED <<lib, store, paired, running, ui, events, forgot>>

Clear(w) ==
  /\ worker[w].step = "clear"
  /\ running' = FALSE
  /\ Goes(w, "recheck")
  /\ UNCHANGED <<lib, store, paired, queued, ui, events, forgot>>

\* Mutant: nobody looks again after the flag is down.
RecheckSkipped(w) ==
  /\ worker[w].step = "recheck"
  /\ Goes(w, "none")
  /\ UNCHANGED <<lib, store, paired, queued, running, ui, events, forgot>>

\* A request may have come between the last look and the flag.
Recheck(w) ==
  /\ worker[w].step = "recheck"
  /\ Goes(w, IF queued THEN "reclaim" ELSE "none")
  /\ UNCHANGED <<lib, store, paired, queued, running, ui, events, forgot>>

\* Mutant: takes the request without a look at the flag.
ReclaimAnyway(w) ==
  /\ worker[w].step = "reclaim"
  /\ running' = TRUE
  /\ Goes(w, "take")
  /\ UNCHANGED <<lib, store, paired, queued, ui, events, forgot>>

\* Its spawn_sync may have started a worker by now.
Reclaim(w) ==
  /\ worker[w].step = "reclaim"
  /\ running' = TRUE
  /\ Goes(w, IF running THEN "none" ELSE "take")
  /\ UNCHANGED <<lib, store, paired, queued, ui, events, forgot>>

-----------------------------------------------------------------------------
\* One pass: the three reads of the server, then the three writes of the desktop.

ReadVersion(w) ==
  /\ worker[w].step = "version"
  /\ worker' = [worker EXCEPT ![w].step = "tracks", ![w].since = store.since,
                              ![w].version = lib.version]
  /\ UNCHANGED <<lib, store, paired, queued, running, ui, events, forgot>>

ReadTracks(w) ==
  /\ worker[w].step = "tracks"
  /\ worker' = [worker EXCEPT ![w].step = "tombs",
       ![w].tracks = [t \in Tracks |-> IF lib.at[t] > worker[w].since THEN lib.at[t] ELSE None]]
  /\ UNCHANGED <<lib, store, paired, queued, running, ui, events, forgot>>

\* Mutant: the version is the last thing the server reads.
ReadTombsThenVersion(w) ==
  /\ worker[w].step = "tombs"
  /\ worker' = [worker EXCEPT ![w].step = "upsert", ![w].version = lib.version,
                              ![w].gone = {t \in Tracks : lib.tomb[t] > worker[w].since}]
  /\ UNCHANGED <<lib, store, paired, queued, running, ui, events, forgot>>

ReadTombs(w) ==
  /\ worker[w].step = "tombs"
  /\ worker' = [worker EXCEPT ![w].step = "upsert",
                              ![w].gone = {t \in Tracks : lib.tomb[t] > worker[w].since}]
  /\ UNCHANGED <<lib, store, paired, queued, running, ui, events, forgot>>

\* A first, full sync also drops the rows the server did not report.
Upsert(w) ==
  LET got  == worker[w].tracks
      seen == {t \in Tracks : got[t] # None}
      old  == {t \in Tracks : store.rows[t] # None}
  IN /\ worker[w].step = "upsert"
     /\ store' = [store EXCEPT !.rows = [t \in Tracks |-> IF t \in seen THEN got[t] ELSE @[t]]]
     /\ worker' = [worker EXCEPT ![w].step = "delete",
                     ![w].gone = @ \cup IF worker[w].since = 0 THEN old \ seen ELSE {}]
     /\ UNCHANGED <<lib, paired, queued, running, ui, events, forgot>>

Delete(w) ==
  /\ worker[w].step = "delete"
  /\ store' = [store EXCEPT !.rows = [t \in Tracks |-> IF t \in worker[w].gone THEN None ELSE @[t]]]
  /\ Goes(w, "since")
  /\ UNCHANGED <<lib, paired, queued, running, ui, events, forgot>>

\* The end of a pass; the locals are gone.
PassEnds(w) == worker' = [worker EXCEPT ![w] = [NoThread EXCEPT !.step = "take"]]

SetSince(w) ==
  /\ worker[w].step = "since"
  /\ store' = [store EXCEPT !.since = worker[w].version]
  /\ PassEnds(w)
  /\ UNCHANGED <<lib, paired, queued, running, ui, events, forgot>>

\* A request or a write fails; the pass reports it and is over.
Fail(w) ==
  /\ worker[w].step \in PassSteps /\ Ticks
  /\ PassEnds(w)
  /\ UNCHANGED <<lib, store, paired, queued, running, ui, forgot>>

-----------------------------------------------------------------------------

Init ==
  /\ lib = NewLibrary
  /\ store = [rows |-> [t \in Tracks |-> None], since |-> 0]
  /\ paired = TRUE /\ queued = FALSE /\ running = FALSE /\ ui = "idle"
  /\ worker = [w \in Threads |-> NoThread]
  /\ events = 0 /\ forgot = FALSE

Works(w) ==
  \/ Take(w) \/ Clear(w) \/ Recheck(w) \/ Reclaim(w)
  \/ ReadVersion(w) \/ ReadTracks(w) \/ ReadTombs(w)
  \/ Upsert(w) \/ Delete(w) \/ SetSince(w)

Next ==
  \/ Scan \/ Request \/ Swap \/ Unpair \/ Pair \/ Restart
  \/ \E w \in Threads : Works(w) \/ Fail(w)

Spec == Init /\ [][Next]_vars

\* Threads run, and spawn_sync does not stop half way.
FairSpec == Spec /\ WF_vars(Swap) /\ \A w \in Threads : WF_vars(Works(w))

-----------------------------------------------------------------------------

\* Types; a track is there or has a tombstone, never both, and no version is ahead
\* of the library's.
RemoteTypeOK ==
  /\ lib \in [at : [Tracks -> Nat], tomb : [Tracks -> Nat], version : Nat]
  /\ \A t \in Tracks : /\ lib.at[t] = None \/ lib.tomb[t] = None
                       /\ lib.at[t] <= lib.version /\ lib.tomb[t] <= lib.version
                       /\ store.rows[t] <= lib.version
  /\ store \in [rows : [Tracks -> Nat], since : 0 .. lib.version]
  /\ paired \in BOOLEAN /\ queued \in BOOLEAN /\ running \in BOOLEAN /\ forgot \in BOOLEAN
  /\ ui \in {"idle", "swap"}
  /\ worker \in [Threads -> [step : ThreadSteps, since : Nat, version : Nat,
                             tracks : [Tracks -> Nat], gone : SUBSET Tracks]]
  /\ events \in 0 .. MaxEvents

\* No two workers are ever at it together, though each drops the flag before it
\* looks for one more request, and requests come at any moment.
OneWorker ==
  \A v, w \in Threads :
    (v # w /\ worker[v].step \in PassSteps \cup {"take", "clear"})
      => worker[w].step \notin PassSteps \cup {"take", "clear"}

\* A request that came while a worker was running, or was about to finish, is taken
\* by a pass that starts after it.
RequestsServed == queued ~> ~queued

\* Every row the server has had since the version the desktop is at is there as the
\* server has it, and no row stays whose tombstone the desktop is past: neither the
\* three separate reads, nor a pass that failed half way, nor a track that went
\* and came back makes a delta miss anything.
UpToSince ==
  \A t \in Tracks :
    /\ (lib.at[t] # None /\ lib.at[t] <= store.since) => store.rows[t] = lib.at[t]
    /\ (lib.tomb[t] # None /\ store.rows[t] # None) => lib.tomb[t] > store.since

DeltaMissesNothing == ~forgot => UpToSince

=============================================================================
