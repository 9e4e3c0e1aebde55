------------------------------ MODULE StarSync ------------------------------
\* Two-way sync of starred tracks between desktops and one server.
\*
\* Each desktop has a row for every server track its last library delta brought,
\* and files of its own that match a server track by their metadata. A click on a
\* star writes the row at once, with its time. The sync worker later brings the
\* library up to date, fetches the starred set, merges it with the rows against
\* the base of the last sync, pushes what the desktop changed and commits what
\* the server changed together with the new base. The worker can fail or crash
\* between any two steps; nothing is rolled back on the server then.
\*
\* The clock ticks with every event from outside (a click, a request of another
\* device, a scan, a failure), so that no two of them share an instant; the clocks
\* of all machines agree.

EXTENDS StarredSet, FiniteSets

CONSTANTS
  Desktops,
  Files,       \* local files that match a server track
  Match,       \* Match[f]: the track that file f matches
  Owner,       \* Owner[f]: the desktop that file f is on
  Batch,       \* most ids one push request carries
  MaxTime      \* bound on the clock

ASSUME StarSyncAssumption ==
  /\ Match \in [Files -> Tracks] /\ Owner \in [Files -> Desktops]
  /\ Files \cap Tracks = {}
  /\ Batch \in Nat \ {0}
  /\ MaxTime \in Nat

VARIABLES
  server,   \* the server's library and starred set
  desk,     \* desk[d]: the store of desktop d
  job,      \* job[d]: what the sync worker of d is doing
  now       \* the clock

vars == <<server, desk, job, now>>

Rows == Tracks \cup Files

-----------------------------------------------------------------------------
\* The store of a desktop.

NoVersion == -1   \* the version before the first sync

NewDesk(d) ==
           [files   |-> {f \in Files : Owner[f] = d},
            rows    |-> {},                            \* server tracks it has rows of
            star    |-> [r \in Rows |-> FALSE],
            changed |-> [r \in Rows |-> 0],            \* 0: not known
            base    |-> [version |-> NoVersion, synced |-> 0, ids |-> {}]]

\* The row of a star exists: a file always does, a remote row once it was synced.
HasRow(k, r) == r \in k.files \cup k.rows

\* An actual change is stamped with the time.
SetStarredAt(k, r, s, at) ==
  [k EXCEPT !.star[r] = s, !.changed[r] = IF k.star[r] = s THEN @ ELSE at]

\* A library delta: rows of new tracks come without star or stamp.
ApplyDelta(k, tracks) ==
  LET fresh == (Tracks \ k.rows) \cup (Tracks \ tracks)
  IN [k EXCEPT !.rows    = tracks,
               !.star    = [r \in Rows |-> r \notin fresh /\ k.star[r]],
               !.changed = [r \in Rows |-> IF r \in fresh THEN 0 ELSE k.changed[r]]]

-----------------------------------------------------------------------------
\* The three-way merge.

\* The rows that stand for one server track: a file needs the remote row to match.
Group(k, t) == IF t \in k.rows THEN {t} \cup {f \in k.files : Match[f] = t} ELSE {}

GroupChanged(k, t) == CHOOSE at \in {k.changed[r] : r \in Group(k, t)} :
                        \A r \in Group(k, t) : k.changed[r] <= at

\* The row changed last speaks for the group; on a tie a star wins.
GroupStarred(k, t) ==
  \E r \in Group(k, t) : k.changed[r] = GroupChanged(k, t) /\ k.star[r]

\* The server starred the track after the last local change (or at a time that is
\* not known to be earlier).
ServerIsLater(k, at, t) == at[t] # Never /\ GroupChanged(k, t) <= at[t] * Second

LocalChanged(k, t) == \/ GroupStarred(k, t) # (t \in k.base.ids)
                      \/ GroupChanged(k, t) > k.base.synced

\* The merged star of a track: `at` are the star times the server reported.
Decide(k, at, t) ==
  LET onServer      == at[t] # Never
      serverChanged == onServer # (t \in k.base.ids)
  IN IF Group(k, t) = {} \/ ~LocalChanged(k, t) THEN onServer
     ELSE IF serverChanged /\ ServerIsLater(k, at, t) THEN TRUE
     ELSE GroupStarred(k, t)

Merged(k, at) == {t \in Tracks : Decide(k, at, t)}

-----------------------------------------------------------------------------

Ticks == now < MaxTime /\ now' = now + 1

\* The sync worker.

Idle == [step |-> "idle", version |-> NoVersion, at |-> [t \in Tracks |-> Never],
         readAt |-> 0, star |-> {}, unstar |-> {}, ids |-> {}, on |-> {}, off |-> {}]

\* The library delta, then (in order) the starred set, the local rows, the pushes
\* and the commit.
Begin(d) ==
  /\ job[d].step = "idle"
  /\ desk' = [desk EXCEPT ![d] = ApplyDelta(@, server.tracks)]
  /\ job' = [job EXCEPT ![d].step = "fetch"]
  /\ UNCHANGED <<server, now>>

\* A 304 stands for the base, at times nobody will look at.
Fetched(base) ==
  IF base.version = server.version
  THEN [t \in Tracks |-> IF t \in base.ids THEN 0 ELSE Never]
  ELSE [t \in Tracks |-> IF t \in Visible(server) THEN server.at[t] ELSE Never]

Fetch(d) ==
  /\ job[d].step = "fetch"
  /\ job' = [job EXCEPT ![d].step = "read", ![d].version = server.version,
                        ![d].at = Fetched(desk[d].base)]
  /\ UNCHANGED <<server, desk, now>>

\* Mutant: only the rows synced from the server get the merged star.
ToApplyRemoteOnly(k, merged, s) == {t \in k.rows : (t \in merged) = s /\ k.star[t] # s}

\* The rows whose star differs from the merged one.
ToApply(k, merged, s) ==
  {r \in Rows : \E t \in Tracks : r \in Group(k, t) /\ (t \in merged) = s /\ k.star[r] # s}

Plan(j, k) ==
  LET merged   == Merged(k, j.at)
      onServer == {t \in Tracks : j.at[t] # Never}
  IN [j EXCEPT !.step = "push", !.readAt = now, !.ids = merged,
               !.star = merged \ onServer, !.unstar = onServer \ merged,
               !.on = ToApply(k, merged, TRUE), !.off = ToApply(k, merged, FALSE),
               !.at = Idle.at]

Read(d) ==
  /\ job[d].step = "read"
  /\ job' = [job EXCEPT ![d] = Plan(@, desk[d])]
  /\ UNCHANGED <<server, desk, now>>

Chunks(ids) ==
  {c \in SUBSET ids : Cardinality(c) = IF Cardinality(ids) < Batch THEN Cardinality(ids) ELSE Batch}

\* One request of the star pushes; what the server does not know leaves the base.
PushStars(d) ==
  /\ job[d].step = "push" /\ job[d].star # {}
  /\ \E c \in Chunks(job[d].star) :
       /\ server' = ApplyStarred(server, c, {}, now)
       /\ job' = [job EXCEPT ![d].star = @ \ c, ![d].ids = @ \ Unknown(server, c)]
  /\ UNCHANGED <<desk, now>>

PushUnstars(d) ==
  /\ job[d].step = "push" /\ job[d].star = {} /\ job[d].unstar # {}
  /\ \E c \in Chunks(job[d].unstar) :
       /\ server' = ApplyStarred(server, {}, c, now)
       /\ job' = [job EXCEPT ![d].unstar = @ \ c]
  /\ UNCHANGED <<desk, now>>

\* Mutant: the merged star is written whatever the user did meanwhile.
CommittedAnyway(k, j) ==
  [k EXCEPT !.star = [r \in Rows |-> HasRow(k, r) /\ (k.star[r] \/ r \in j.on) /\ r \notin j.off],
            !.base = [version |-> j.version, synced |-> j.readAt, ids |-> j.ids]]

\* A row the user changed after it was read keeps its star.
Committed(k, j) ==
  [k EXCEPT !.star = [r \in Rows |-> IF k.changed[r] > j.readAt \/ ~HasRow(k, r) THEN k.star[r]
                                     ELSE (k.star[r] \/ r \in j.on) /\ r \notin j.off],
            !.base = [version |-> j.version, synced |-> j.readAt, ids |-> j.ids]]

Commit(d) ==
  /\ job[d].step = "push" /\ job[d].star = {} /\ job[d].unstar = {}
  /\ desk' = [desk EXCEPT ![d] = Committed(@, job[d])]
  /\ job' = [job EXCEPT ![d] = Idle]
  /\ UNCHANGED <<server, now>>

\* A request fails, its answer is lost, or the program is closed: the worker gives
\* up and what it already pushed stays on the server.
Abort(d) ==
  /\ job[d].step # "idle" /\ Ticks
  /\ job' = [job EXCEPT ![d] = Idle]
  /\ UNCHANGED <<server, desk>>

-----------------------------------------------------------------------------
\* The users and the scan of the server's library.

Click(d, r, s) ==
  /\ HasRow(desk[d], r) /\ desk[d].star[r] # s /\ Ticks
  /\ desk' = [desk EXCEPT ![d] = SetStarredAt(@, r, s, now + 1)]
  /\ UNCHANGED <<server, job>>

\* A device that talks to the server directly.
Request(star, unstar) ==
  /\ Ticks
  /\ server' = ApplyStarred(server, star, unstar, now + 1)
  /\ UNCHANGED <<desk, job>>

Scan ==
  /\ Ticks
  /\ \E t \in Tracks : server' \in {UpsertTracks(server, {t}), DeleteTracks(server, {t})}
  /\ UNCHANGED <<desk, job>>

-----------------------------------------------------------------------------

Init ==
  /\ server = NewServer(Tracks)
  /\ now = 0
  /\ desk = [d \in Desktops |-> NewDesk(d)]
  /\ job = [d \in Desktops |-> Idle]

Worker(d) == Fetch(d) \/ Read(d) \/ PushStars(d) \/ PushUnstars(d) \/ Commit(d)

Next ==
  \/ \E d \in Desktops : \/ Begin(d) \/ Worker(d) \/ Abort(d)
                         \/ \E r \in Rows, s \in BOOLEAN : Click(d, r, s)
  \/ \E t \in Tracks : Request({t}, {}) \/ Request({}, {t})
  \/ Scan

Spec == Init /\ [][Next]_vars

\* The worker is a thread: a sync that was begun goes on until it ends.
FairSpec == Spec /\ \A d \in Desktops : WF_vars(Worker(d))

=============================================================================
