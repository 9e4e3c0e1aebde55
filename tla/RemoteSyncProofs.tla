-------------------------- MODULE RemoteSyncProofs --------------------------
\* Why a delta misses nothing and no two workers run together, for any number of
\* tracks, threads, scans, failures and restarts.

EXTENDS RemoteSync, TLAPS

-----------------------------------------------------------------------------
\* The inductive invariant, stated of a library l, a store st and a thread j.

LibType == [at : [Tracks -> Nat], tomb : [Tracks -> Nat], version : Nat]

LibOK(l) ==
  /\ l \in LibType
  /\ \A t \in Tracks : /\ l.at[t] = None \/ l.tomb[t] = None
                       /\ l.at[t] <= l.version /\ l.tomb[t] <= l.version

StoreOK(l, st) ==
  /\ st \in [rows : [Tracks -> Nat], since : Nat]
  /\ st.since <= l.version /\ \A t \in Tracks : st.rows[t] <= l.version

ThreadOK(l, j) ==
  /\ j \in [step : ThreadSteps, since : Nat, version : Nat, tracks : [Tracks -> Nat],
            gone : SUBSET Tracks]
  /\ j.version <= l.version /\ \A t \in Tracks : j.tracks[t] <= l.version

\* The rows are up to version v of the library.
UpTo(l, rows, v) ==
  \A t \in Tracks : /\ (l.at[t] # None /\ l.at[t] <= v) => rows[t] = l.at[t]
                    /\ (l.tomb[t] # None /\ rows[t] # None) => l.tomb[t] > v

\* What was read of the tracks: those of the pass as they are, and no track the
\* library has lost by the version of the pass.
TracksRead(l, j) ==
  \A t \in Tracks :
    /\ (l.at[t] > j.since /\ l.at[t] <= j.version) => j.tracks[t] = l.at[t]
    /\ j.tracks[t] # None => /\ l.at[t] # None => l.at[t] > j.since
                             /\ l.tomb[t] # None => l.tomb[t] > j.version

\* What is to be deleted: all the tombstones of the pass, and no track that is there
\* at the version of the pass.
TombsRead(l, j) ==
  \A t \in Tracks : /\ (l.tomb[t] > j.since /\ l.tomb[t] <= j.version) => t \in j.gone
                    /\ (t \in j.gone /\ l.at[t] # None) => l.at[t] > j.version

RowsWritten(l, st, j) ==
  \A t \in Tracks : (l.at[t] # None /\ l.at[t] <= j.version) => st.rows[t] = l.at[t]

\* How far the pass is, and that it goes from the version of the store to one the
\* library has reached.
PassOK(l, st, j) ==
  /\ j.step \in PassSteps \ {"version"} => j.since = st.since /\ st.since <= j.version
  /\ j.step \in {"tombs", "upsert"} => TracksRead(l, j)
  /\ j.step \in {"upsert", "delete"} => TombsRead(l, j)
  /\ j.step = "delete" => RowsWritten(l, st, j)
  /\ j.step = "since" => UpTo(l, st.rows, j.version)

Active(step) == step \in PassSteps \cup {"take", "clear"}

\* The flag is up while a worker may take a request, and there is only one such.
FlagOK ==
  /\ \A w \in Threads : Active(worker[w].step) => running
  /\ \A v, w \in Threads : Active(worker[v].step) /\ Active(worker[w].step) => v = w

TypeInv ==
  /\ LibOK(lib) /\ StoreOK(lib, store)
  /\ DOMAIN worker = Threads /\ worker = [w \in Threads |-> worker[w]]
  /\ \A w \in Threads : ThreadOK(lib, worker[w])
  /\ paired \in BOOLEAN /\ queued \in BOOLEAN /\ running \in BOOLEAN /\ forgot \in BOOLEAN
  /\ ui \in {"idle", "swap"} /\ events \in 0 .. MaxEvents

DeltaOK ==
  ~forgot => /\ UpTo(lib, store.rows, store.since)
             /\ \A w \in Threads : PassOK(lib, store, worker[w])

RemoteInv == TypeInv /\ FlagOK /\ DeltaOK

-----------------------------------------------------------------------------
\* What the server does to its library.

\* Whatever is new carries a version the library had not reached.
Moves(l, n) ==
  /\ LibOK(n) /\ l.version <= n.version
  /\ \A t \in Tracks : /\ n.at[t] = l.at[t] \/ n.at[t] = None \/ n.at[t] > l.version
                       /\ n.tomb[t] = l.tomb[t] \/ n.tomb[t] = None \/ n.tomb[t] > l.version

LEMMA UpsertMoves ==
  ASSUME NEW l, LibOK(l), NEW ids \in SUBSET Tracks
  PROVE  Moves(l, UpsertTracks(l, ids))
<1> DEFINE n == UpsertTracks(l, ids)
<1>1. /\ n \in LibType /\ n.version = l.version + 1
      /\ \A t \in ids : n.at[t] = l.version + 1 /\ n.tomb[t] = None
      /\ \A t \in Tracks \ ids : n.at[t] = l.at[t] /\ n.tomb[t] = l.tomb[t]
  BY DEF UpsertTracks, LibOK, LibType, None
<1> HIDE DEF n
<1>2. Moves(l, n)
  BY <1>1 DEF Moves, LibOK, LibType, None
<1> QED
  BY <1>2 DEF n

LEMMA DeleteMoves ==
  ASSUME NEW l, LibOK(l), NEW ids \in SUBSET Tracks
  PROVE  Moves(l, DeleteTracks(l, ids))
<1> DEFINE n == DeleteTracks(l, ids)
<1>1. /\ n \in LibType /\ n.version = l.version + 1
      /\ \A t \in ids : n.tomb[t] = l.version + 1 /\ n.at[t] = None
      /\ \A t \in Tracks \ ids : n.at[t] = l.at[t] /\ n.tomb[t] = l.tomb[t]
  BY DEF DeleteTracks, LibOK, LibType, None
<1> HIDE DEF n
<1>2. Moves(l, n)
  BY <1>1 DEF Moves, LibOK, LibType, None
<1> QED
  BY <1>2 DEF n

LEMMA PurgeMoves ==
  ASSUME NEW l, LibOK(l), NEW t \in Tracks
  PROVE  Moves(l, PurgeTombstone(l, t))
<1> DEFINE n == PurgeTombstone(l, t)
<1>1. /\ n \in LibType /\ n.version = l.version /\ n.at = l.at
      /\ n.tomb[t] = None /\ \A u \in Tracks \ {t} : n.tomb[u] = l.tomb[u]
  BY DEF PurgeTombstone, LibOK, LibType, None
<1> HIDE DEF n
<1>2. Moves(l, n)
  BY <1>1 DEF Moves, LibOK, LibType, None
<1> QED
  BY <1>2 DEF n

\* Rows that were up to a version stay so: what is new is newer.
LEMMA UpToKept ==
  ASSUME NEW l, LibOK(l), NEW n, Moves(l, n), NEW rows \in [Tracks -> Nat], NEW v \in Nat,
         v <= l.version, UpTo(l, rows, v)
  PROVE  UpTo(n, rows, v)
  BY DEF UpTo, Moves, LibOK, LibType, None

LEMMA PassKept ==
  ASSUME NEW l, LibOK(l), NEW n, Moves(l, n), NEW st, StoreOK(l, st), NEW j, ThreadOK(l, j),
         PassOK(l, st, j)
  PROVE  PassOK(n, st, j)
<1>1. /\ j.since \in Nat /\ j.version \in Nat /\ j.version <= l.version /\ l.version \in Nat
      /\ st.since \in Nat /\ st.rows \in [Tracks -> Nat] /\ j.tracks \in [Tracks -> Nat]
  BY DEF ThreadOK, StoreOK, LibOK, LibType
<1>2. \A t \in Tracks : /\ l.at[t] \in Nat /\ l.tomb[t] \in Nat /\ n.at[t] \in Nat /\ n.tomb[t] \in Nat
                        /\ n.at[t] = l.at[t] \/ n.at[t] = None \/ n.at[t] > l.version
                        /\ n.tomb[t] = l.tomb[t] \/ n.tomb[t] = None \/ n.tomb[t] > l.version
  BY DEF Moves, LibOK, LibType
<1>3. ASSUME j.step \in PassSteps \ {"version"} PROVE j.since = st.since /\ st.since <= j.version
  BY <1>3 DEF PassOK
<1>4. ASSUME j.step \in {"tombs", "upsert"} PROVE TracksRead(n, j)
  <2>1. TracksRead(l, j) /\ j.since <= j.version
    BY <1>4 DEF PassOK, PassSteps
  <2> QED
    BY <1>1, <1>2, <2>1 DEF TracksRead, None
<1>5. ASSUME j.step \in {"upsert", "delete"} PROVE TombsRead(n, j)
  <2>1. TombsRead(l, j)
    BY <1>5 DEF PassOK
  <2> QED
    BY <1>1, <1>2, <2>1 DEF TombsRead, None
<1>6. ASSUME j.step = "delete" PROVE RowsWritten(n, st, j)
  <2>1. RowsWritten(l, st, j)
    BY <1>6 DEF PassOK
  <2> QED
    BY <1>1, <1>2, <2>1 DEF RowsWritten, None
<1>7. ASSUME j.step = "since" PROVE UpTo(n, st.rows, j.version)
  BY <1>1, <1>7, UpToKept DEF PassOK
<1> QED
  BY <1>3, <1>4, <1>5, <1>6, <1>7 DEF PassOK

-----------------------------------------------------------------------------
\* The steps of a pass on the store.

LEMMA TracksReadOK ==
  ASSUME NEW l, LibOK(l), NEW j, ThreadOK(l, j), j.since <= j.version
  PROVE  LET i == [j EXCEPT !.step = "tombs",
                     !.tracks = [t \in Tracks |-> IF l.at[t] > j.since THEN l.at[t] ELSE None]]
         IN ThreadOK(l, i) /\ TracksRead(l, i)
<1> DEFINE got == [t \in Tracks |-> IF l.at[t] > j.since THEN l.at[t] ELSE None]
           i   == [j EXCEPT !.step = "tombs", !.tracks = got]
<1>1. /\ got \in [Tracks -> Nat]
      /\ \A t \in Tracks : /\ l.at[t] > j.since => got[t] = l.at[t]
                           /\ got[t] # None => got[t] = l.at[t] /\ l.at[t] > j.since
                           /\ got[t] <= l.version
  BY DEF LibOK, LibType, None
<1> HIDE DEF got
<1>2. /\ i.step = "tombs" /\ i.since = j.since /\ i.version = j.version /\ i.tracks = got
      /\ i.gone = j.gone
  BY DEF ThreadOK
<1>3. i \in [step : ThreadSteps, since : Nat, version : Nat, tracks : [Tracks -> Nat],
             gone : SUBSET Tracks]
  BY <1>1 DEF ThreadOK, ThreadSteps
<1> HIDE DEF i
<1>4. ThreadOK(l, i)
  BY <1>1, <1>2, <1>3 DEF ThreadOK
<1>5. TracksRead(l, i)
  BY <1>1, <1>2 DEF TracksRead, LibOK, None
<1> QED
  BY <1>4, <1>5 DEF i, got

LEMMA TombsReadOK ==
  ASSUME NEW l, LibOK(l), NEW j, ThreadOK(l, j), TracksRead(l, j)
  PROVE  LET i == [j EXCEPT !.step = "upsert", !.gone = {t \in Tracks : l.tomb[t] > j.since}]
         IN ThreadOK(l, i) /\ TracksRead(l, i) /\ TombsRead(l, i)
<1> DEFINE gone == {t \in Tracks : l.tomb[t] > j.since}
           i    == [j EXCEPT !.step = "upsert", !.gone = gone]
<1>1. /\ i.step = "upsert" /\ i.since = j.since /\ i.version = j.version /\ i.tracks = j.tracks
      /\ i.gone = gone
  BY DEF ThreadOK
<1>2. ThreadOK(l, i)
  BY DEF ThreadOK, ThreadSteps
<1>3. \A t \in gone : l.at[t] = None
  BY DEF LibOK, LibType, ThreadOK, None
<1>4. TombsRead(l, i)
  BY <1>1, <1>3 DEF TombsRead
<1>5. TracksRead(l, i)
  BY <1>1 DEF TracksRead
<1> QED
  BY <1>2, <1>4, <1>5

\* The three facts of an upsert: it takes away nothing the store had, writes what the
\* library has at the version of the pass, and what a full sync drops is gone.
LEMMA UpsertOK ==
  ASSUME NEW l, LibOK(l), NEW st, StoreOK(l, st), NEW j, ThreadOK(l, j), j.step = "upsert",
         PassOK(l, st, j), UpTo(l, st.rows, st.since)
  PROVE  LET seen == {t \in Tracks : j.tracks[t] # None}
             old  == {t \in Tracks : st.rows[t] # None}
             rows == [t \in Tracks |-> IF t \in seen THEN j.tracks[t] ELSE st.rows[t]]
             n    == [st EXCEPT !.rows = rows]
             i    == [j EXCEPT !.step = "delete",
                               !.gone = @ \cup IF j.since = 0 THEN old \ seen ELSE {}]
         IN UpTo(l, n.rows, n.since) /\ PassOK(l, n, i)
<1> DEFINE seen == {t \in Tracks : j.tracks[t] # None}
           old  == {t \in Tracks : st.rows[t] # None}
           rows == [t \in Tracks |-> IF t \in seen THEN j.tracks[t] ELSE st.rows[t]]
           n    == [st EXCEPT !.rows = rows]
           more == IF j.since = 0 THEN old \ seen ELSE {}
           i    == [j EXCEPT !.step = "delete", !.gone = @ \cup more]
<1>1. /\ j.since = st.since /\ st.since <= j.version /\ TracksRead(l, j) /\ TombsRead(l, j)
      /\ l \in LibType /\ st.since \in Nat /\ j.version \in Nat /\ j.tracks \in [Tracks -> Nat]
      /\ st.rows \in [Tracks -> Nat]
  BY DEF PassOK, PassSteps, LibOK, StoreOK, ThreadOK
<1>2. /\ \A t \in seen : rows[t] = j.tracks[t] /\ j.tracks[t] # None
      /\ \A t \in Tracks \ seen : rows[t] = st.rows[t] /\ j.tracks[t] = None
  OBVIOUS
<1>3. \A t \in more : t \in Tracks /\ j.since = 0 /\ j.tracks[t] = None
  OBVIOUS
<1>4. n.rows = rows /\ n.since = st.since
  BY DEF StoreOK
<1>5. i.step = "delete" /\ i.since = j.since /\ i.version = j.version /\ i.gone = j.gone \cup more
  BY DEF ThreadOK
<1> HIDE DEF seen, old, rows, n, more, i
<1>6. seen \subseteq Tracks
  BY DEF seen
<1>7. UpTo(l, rows, st.since)
  BY <1>1, <1>2, <1>6 DEF UpTo, TracksRead, LibType, None
<1>8. TombsRead(l, i)
  BY <1>1, <1>3, <1>5 DEF TombsRead, TracksRead, LibType, None
<1>9. RowsWritten(l, n, i)
  BY <1>1, <1>2, <1>4, <1>5 DEF RowsWritten, UpTo, TracksRead, LibType, None
<1>10. UpTo(l, n.rows, n.since) /\ PassOK(l, n, i)
  BY <1>1, <1>4, <1>5, <1>7, <1>8, <1>9 DEF PassOK
<1> QED
  BY <1>10 DEF seen, old, rows, n, more, i

LEMMA DeleteOK ==
  ASSUME NEW l, LibOK(l), NEW st, StoreOK(l, st), NEW j, ThreadOK(l, j), j.step = "delete",
         PassOK(l, st, j), UpTo(l, st.rows, st.since)
  PROVE  LET n == [st EXCEPT !.rows = [t \in Tracks |-> IF t \in j.gone THEN None ELSE st.rows[t]]]
             i == [j EXCEPT !.step = "since"]
         IN UpTo(l, n.rows, n.since) /\ PassOK(l, n, i)
<1> DEFINE rows == [t \in Tracks |-> IF t \in j.gone THEN None ELSE st.rows[t]]
           n    == [st EXCEPT !.rows = rows]
           i    == [j EXCEPT !.step = "since"]
<1>1. /\ j.since = st.since /\ st.since <= j.version /\ RowsWritten(l, st, j) /\ TombsRead(l, j)
      /\ l \in LibType /\ st.since \in Nat /\ j.version \in Nat
  BY DEF PassOK, PassSteps, LibOK, StoreOK, ThreadOK
<1>2. \A t \in Tracks : /\ t \in j.gone => rows[t] = None
                        /\ t \notin j.gone => rows[t] = st.rows[t]
  OBVIOUS
<1>3. n.rows = rows /\ n.since = st.since
  BY DEF StoreOK
<1>4. i.step = "since" /\ i.since = j.since /\ i.version = j.version
  BY DEF ThreadOK
<1> HIDE DEF rows, n, i
<1>5. UpTo(l, rows, st.since)
  BY <1>1, <1>2 DEF UpTo, TombsRead, LibType, None
<1>6. UpTo(l, rows, j.version)
  BY <1>1, <1>2 DEF UpTo, TombsRead, RowsWritten, LibType, None
<1>7. UpTo(l, n.rows, n.since) /\ PassOK(l, n, i)
  BY <1>1, <1>3, <1>4, <1>5, <1>6 DEF PassOK
<1> QED
  BY <1>7 DEF rows, n, i

-----------------------------------------------------------------------------
\* How the steps fit together.

LEMMA NoThreadOK ==
  ASSUME NEW l, LibOK(l), NEW step \in ThreadSteps
  PROVE  ThreadOK(l, [NoThread EXCEPT !.step = step])
  BY DEF ThreadOK, NoThread, LibOK, LibType, None

\* A thread outside a pass has nothing to keep.
LEMMA NoPass ==
  ASSUME NEW l, NEW st, NEW j, j.step \notin PassSteps \ {"version"}
  PROVE  PassOK(l, st, j)
  BY DEF PassOK, PassSteps

\* A thread that takes a step while the flag stays, and the store perhaps.
LEMMA ThreadStep ==
  ASSUME RemoteInv, NEW w \in Threads, NEW j, ThreadOK(lib, j), StoreOK(lib, store'),
         lib' = lib, paired' = paired, running' = running, ui' = ui, forgot' = forgot,
         queued' \in BOOLEAN, events' \in 0 .. MaxEvents,
         worker' = [worker EXCEPT ![w] = j],
         Active(j.step) => Active(worker[w].step),
         store' = store \/ worker[w].step \in PassSteps,
         ~forgot => UpTo(lib, store'.rows, store'.since) /\ PassOK(lib, store', j)
  PROVE  RemoteInv'
<1>1. worker'[w] = j /\ \A v \in Threads \ {w} : worker'[v] = worker[v]
  BY DEF RemoteInv, TypeInv
<1>2. TypeInv'
  <2>1. DOMAIN worker' = Threads /\ worker' = [v \in Threads |-> worker'[v]]
    BY DEF RemoteInv, TypeInv
  <2>2. \A v \in Threads : ThreadOK(lib, worker'[v])
    BY <1>1 DEF RemoteInv, TypeInv
  <2> QED
    BY <2>1, <2>2 DEF RemoteInv, TypeInv
<1>3. FlagOK'
  BY <1>1 DEF RemoteInv, FlagOK
<1>4. ASSUME ~forgot, NEW v \in Threads PROVE PassOK(lib, store', worker'[v])
  <2>1. CASE v = w
    BY <1>1, <1>4, <2>1
  <2>2. CASE v # w /\ store' = store
    BY <1>1, <1>4, <2>2 DEF RemoteInv, DeltaOK
  <2>3. CASE v # w /\ worker[w].step \in PassSteps
    <3>1. worker[v].step \notin PassSteps
      BY <2>3 DEF RemoteInv, FlagOK, Active
    <3> QED
      BY <1>1, <2>3, <3>1, NoPass
  <2> QED
    BY <2>1, <2>2, <2>3
<1>5. DeltaOK'
  BY <1>4 DEF DeltaOK
<1> QED
  BY <1>2, <1>3, <1>5 DEF RemoteInv

\* What the invariant says of one thread, ready to cite.
LEMMA OfThread ==
  ASSUME RemoteInv, NEW w \in Threads
  PROVE  /\ LibOK(lib) /\ StoreOK(lib, store) /\ ThreadOK(lib, worker[w])
         /\ queued \in BOOLEAN /\ events \in 0 .. MaxEvents
         /\ ~forgot => UpTo(lib, store.rows, store.since) /\ PassOK(lib, store, worker[w])
  BY DEF RemoteInv, TypeInv, DeltaOK

LEMMA GoesOK ==
  ASSUME NEW l, NEW j, ThreadOK(l, j), NEW step \in ThreadSteps
  PROVE  /\ ThreadOK(l, [j EXCEPT !.step = step])
         /\ [j EXCEPT !.step = step].step = step
  BY DEF ThreadOK

LEMMA TakeInv == ASSUME RemoteInv, NEW w \in Threads, Take(w) PROVE RemoteInv'
<1> DEFINE step == IF queued THEN "version" ELSE "clear"
           j    == [worker[w] EXCEPT !.step = step]
<1>1. /\ worker' = [worker EXCEPT ![w] = j] /\ queued' = FALSE /\ worker[w].step = "take"
      /\ UNCHANGED <<lib, store, paired, running, ui, events, forgot>>
  BY DEF Take, Goes
<1>2. step \in ThreadSteps /\ step \notin PassSteps \ {"version"}
  BY DEF ThreadSteps, PassSteps
<1> HIDE DEF step
<1>3. ThreadOK(lib, j) /\ j.step = step
  BY <1>2, OfThread, GoesOK
<1>4. PassOK(lib, store, j)
  BY <1>2, <1>3, NoPass
<1>5. Active(worker[w].step)
  BY <1>1 DEF Active
<1> HIDE DEF j
<1> QED
  BY <1>1, <1>3, <1>4, <1>5, OfThread, ThreadStep

LEMMA RecheckInv == ASSUME RemoteInv, NEW w \in Threads, Recheck(w) PROVE RemoteInv'
<1> DEFINE step == IF queued THEN "reclaim" ELSE "none"
           j    == [worker[w] EXCEPT !.step = step]
<1>1. /\ worker' = [worker EXCEPT ![w] = j]
      /\ UNCHANGED <<lib, store, paired, queued, running, ui, events, forgot>>
  BY DEF Recheck, Goes
<1>2. step \in ThreadSteps /\ step \notin PassSteps \ {"version"} /\ ~Active(step)
  BY DEF ThreadSteps, PassSteps, Active
<1> HIDE DEF step
<1>3. ThreadOK(lib, j) /\ j.step = step
  BY <1>2, OfThread, GoesOK
<1>4. PassOK(lib, store, j)
  BY <1>2, <1>3, NoPass
<1> HIDE DEF j
<1> QED
  BY <1>1, <1>2, <1>3, <1>4, OfThread, ThreadStep

LEMMA ReadVersionInv == ASSUME RemoteInv, NEW w \in Threads, ReadVersion(w) PROVE RemoteInv'
<1> DEFINE j == [worker[w] EXCEPT !.step = "tracks", !.since = store.since, !.version = lib.version]
<1>1. /\ worker' = [worker EXCEPT ![w] = j] /\ worker[w].step = "version"
      /\ UNCHANGED <<lib, store, paired, queued, running, ui, events, forgot>>
  BY DEF ReadVersion
<1>2. ThreadOK(lib, worker[w]) /\ StoreOK(lib, store) /\ LibOK(lib)
  BY OfThread
<1>3. ThreadOK(lib, j) /\ j.step = "tracks" /\ j.since = store.since /\ j.version = lib.version
  <2>1. store.since \in Nat /\ lib.version \in Nat /\ "tracks" \in ThreadSteps
    BY <1>2 DEF StoreOK, LibOK, LibType, ThreadSteps
  <2>2. /\ j.step = "tracks" /\ j.since = store.since /\ j.version = lib.version
        /\ j.tracks = worker[w].tracks
    BY <1>2 DEF ThreadOK
  <2>3. j \in [step : ThreadSteps, since : Nat, version : Nat, tracks : [Tracks -> Nat],
               gone : SUBSET Tracks]
    BY <1>2, <2>1 DEF ThreadOK
  <2> HIDE DEF j
  <2> QED
    BY <1>2, <2>1, <2>2, <2>3 DEF ThreadOK
<1>4. PassOK(lib, store, j)
  BY <1>2, <1>3 DEF PassOK, StoreOK
<1>5. Active(worker[w].step)
  BY <1>1 DEF Active, PassSteps
<1> HIDE DEF j
<1> QED
  BY <1>1, <1>2, <1>3, <1>4, <1>5, OfThread, ThreadStep

LEMMA ReadTracksInv == ASSUME RemoteInv, NEW w \in Threads, ReadTracks(w) PROVE RemoteInv'
<1> DEFINE j == [worker[w] EXCEPT !.step = "tombs",
                   !.tracks = [t \in Tracks |-> IF lib.at[t] > worker[w].since THEN lib.at[t] ELSE None]]
<1>1. /\ worker' = [worker EXCEPT ![w] = j] /\ worker[w].step = "tracks"
      /\ UNCHANGED <<lib, store, paired, queued, running, ui, events, forgot>>
  BY DEF ReadTracks
<1>2. ThreadOK(lib, worker[w]) /\ StoreOK(lib, store) /\ LibOK(lib)
  BY OfThread
<1>3. j.step = "tombs" /\ j.since = worker[w].since /\ j.version = worker[w].version
  BY <1>2 DEF ThreadOK
<1>4. ThreadOK(lib, j)
  <2> DEFINE got == [t \in Tracks |-> IF lib.at[t] > worker[w].since THEN lib.at[t] ELSE None]
  <2>1. got \in [Tracks -> Nat] /\ \A t \in Tracks : got[t] <= lib.version
    BY <1>2 DEF LibOK, LibType, None
  <2> HIDE DEF got
  <2>2. ThreadOK(lib, [worker[w] EXCEPT !.step = "tombs", !.tracks = got])
    BY <1>2, <2>1 DEF ThreadOK, ThreadSteps
  <2> QED
    BY <2>2 DEF got
<1>5. ASSUME ~forgot PROVE PassOK(lib, store, j)
  <2>1. worker[w].since = store.since /\ store.since <= worker[w].version
    BY <1>1, <1>5, OfThread DEF PassOK, PassSteps
  <2>2. TracksRead(lib, j)
    BY <1>2, <2>1, TracksReadOK
  <2> QED
    BY <1>3, <2>1, <2>2 DEF PassOK
<1>6. Active(worker[w].step)
  BY <1>1 DEF Active, PassSteps
<1> HIDE DEF j
<1> QED
  BY <1>1, <1>2, <1>4, <1>5, <1>6, OfThread, ThreadStep

LEMMA ReadTombsInv == ASSUME RemoteInv, NEW w \in Threads, ReadTombs(w) PROVE RemoteInv'
<1> DEFINE j == [worker[w] EXCEPT !.step = "upsert",
                                  !.gone = {t \in Tracks : lib.tomb[t] > worker[w].since}]
<1>1. /\ worker' = [worker EXCEPT ![w] = j] /\ worker[w].step = "tombs"
      /\ UNCHANGED <<lib, store, paired, queued, running, ui, events, forgot>>
  BY DEF ReadTombs
<1>2. ThreadOK(lib, worker[w]) /\ StoreOK(lib, store) /\ LibOK(lib)
  BY OfThread
<1>3. /\ j.step = "upsert" /\ j.since = worker[w].since /\ j.version = worker[w].version
      /\ ThreadOK(lib, j)
  BY <1>2 DEF ThreadOK, ThreadSteps
<1>4. ASSUME ~forgot PROVE PassOK(lib, store, j)
  <2>1. /\ worker[w].since = store.since /\ store.since <= worker[w].version
        /\ TracksRead(lib, worker[w])
    BY <1>1, <1>4, OfThread DEF PassOK, PassSteps
  <2>2. TracksRead(lib, j) /\ TombsRead(lib, j)
    BY <1>2, <2>1, TombsReadOK
  <2> QED
    BY <1>3, <2>1, <2>2 DEF PassOK
<1>5. Active(worker[w].step)
  BY <1>1 DEF Active, PassSteps
<1> HIDE DEF j
<1> QED
  BY <1>1, <1>2, <1>3, <1>4, <1>5, OfThread, ThreadStep

LEMMA UpsertInv == ASSUME RemoteInv, NEW w \in Threads, Upsert(w) PROVE RemoteInv'
<1> DEFINE seen == {t \in Tracks : worker[w].tracks[t] # None}
           old  == {t \in Tracks : store.rows[t] # None}
           rows == [t \in Tracks |-> IF t \in seen THEN worker[w].tracks[t] ELSE store.rows[t]]
           more == IF worker[w].since = 0 THEN old \ seen ELSE {}
           j    == [worker[w] EXCEPT !.step = "delete", !.gone = @ \cup more]
           st   == [store EXCEPT !.rows = rows]
<1>1. /\ worker' = [worker EXCEPT ![w] = j] /\ worker[w].step = "upsert" /\ store' = st
      /\ UNCHANGED <<lib, paired, queued, running, ui, events, forgot>>
  BY DEF Upsert
<1>2. ThreadOK(lib, worker[w]) /\ StoreOK(lib, store) /\ LibOK(lib)
  BY OfThread
<1>3. rows \in [Tracks -> Nat] /\ \A t \in Tracks : rows[t] <= lib.version
  BY <1>2 DEF ThreadOK, StoreOK
<1>4. more \subseteq Tracks
  OBVIOUS
<1>5. ASSUME ~forgot PROVE UpTo(lib, st.rows, st.since) /\ PassOK(lib, st, j)
  BY <1>1, <1>2, <1>5, OfThread, UpsertOK
<1> HIDE DEF seen, old, rows, more
<1>6. StoreOK(lib, st)
  BY <1>2, <1>3 DEF StoreOK
<1>7. ThreadOK(lib, j)
  BY <1>2, <1>4 DEF ThreadOK, ThreadSteps
<1>8. Active(worker[w].step) /\ worker[w].step \in PassSteps
  BY <1>1 DEF Active, PassSteps
<1> HIDE DEF j, st
<1> QED
  BY <1>1, <1>5, <1>6, <1>7, <1>8, OfThread, ThreadStep

LEMMA DeleteInv == ASSUME RemoteInv, NEW w \in Threads, Delete(w) PROVE RemoteInv'
<1> DEFINE rows == [t \in Tracks |-> IF t \in worker[w].gone THEN None ELSE store.rows[t]]
           j    == [worker[w] EXCEPT !.step = "since"]
           st   == [store EXCEPT !.rows = rows]
<1>1. /\ worker' = [worker EXCEPT ![w] = j] /\ worker[w].step = "delete" /\ store' = st
      /\ UNCHANGED <<lib, paired, queued, running, ui, events, forgot>>
  BY DEF Delete, Goes
<1>2. ThreadOK(lib, worker[w]) /\ StoreOK(lib, store) /\ LibOK(lib)
  BY OfThread
<1>3. rows \in [Tracks -> Nat] /\ \A t \in Tracks : rows[t] <= lib.version
  BY <1>2 DEF StoreOK, LibOK, LibType, None
<1>4. ASSUME ~forgot PROVE UpTo(lib, st.rows, st.since) /\ PassOK(lib, st, j)
  BY <1>1, <1>2, <1>4, OfThread, DeleteOK
<1> HIDE DEF rows
<1>5. StoreOK(lib, st)
  BY <1>2, <1>3 DEF StoreOK
<1>6. ThreadOK(lib, j)
  BY <1>2, GoesOK DEF ThreadSteps
<1>7. Active(worker[w].step) /\ worker[w].step \in PassSteps
  BY <1>1 DEF Active, PassSteps
<1> HIDE DEF j, st
<1> QED
  BY <1>1, <1>4, <1>5, <1>6, <1>7, OfThread, ThreadStep

\* The end of a pass, good or bad, leaves a thread that has nothing to keep.
LEMMA EndOK ==
  ASSUME RemoteInv, NEW w \in Threads, NEW st
  PROVE  LET j == [NoThread EXCEPT !.step = "take"]
         IN ThreadOK(lib, j) /\ j.step = "take" /\ PassOK(lib, st, j)
<1> DEFINE j == [NoThread EXCEPT !.step = "take"]
<1>1. ThreadOK(lib, j)
  BY OfThread, NoThreadOK DEF ThreadSteps
<1>2. j.step = "take"
  BY DEF NoThread
<1> QED
  BY <1>1, <1>2, NoPass DEF PassSteps

LEMMA SetSinceInv == ASSUME RemoteInv, NEW w \in Threads, SetSince(w) PROVE RemoteInv'
<1> DEFINE j  == [NoThread EXCEPT !.step = "take"]
           st == [store EXCEPT !.since = worker[w].version]
<1>1. /\ worker' = [worker EXCEPT ![w] = j] /\ worker[w].step = "since" /\ store' = st
      /\ UNCHANGED <<lib, paired, queued, running, ui, events, forgot>>
  BY DEF SetSince, PassEnds
<1>2. ThreadOK(lib, worker[w]) /\ StoreOK(lib, store) /\ LibOK(lib)
  BY OfThread
<1>3. StoreOK(lib, st) /\ st.rows = store.rows /\ st.since = worker[w].version
  BY <1>2 DEF StoreOK, ThreadOK
<1>4. ThreadOK(lib, j) /\ PassOK(lib, st, j)
  BY EndOK
<1>5. ASSUME ~forgot PROVE UpTo(lib, st.rows, st.since)
  BY <1>1, <1>3, <1>5, OfThread DEF PassOK
<1>6. Active(worker[w].step) /\ worker[w].step \in PassSteps
  BY <1>1 DEF Active, PassSteps
<1> HIDE DEF j, st
<1> QED
  BY <1>1, <1>3, <1>4, <1>5, <1>6, OfThread, ThreadStep

LEMMA FailInv == ASSUME RemoteInv, NEW w \in Threads, Fail(w) PROVE RemoteInv'
<1> DEFINE j == [NoThread EXCEPT !.step = "take"]
<1>1. /\ worker' = [worker EXCEPT ![w] = j] /\ worker[w].step \in PassSteps /\ Ticks
      /\ UNCHANGED <<lib, store, paired, queued, running, ui, forgot>>
  BY DEF Fail, PassEnds
<1>2. ThreadOK(lib, j) /\ PassOK(lib, store, j)
  BY EndOK
<1>3. events' \in 0 .. MaxEvents
  BY <1>1, OfThread, RemoteSyncAssumption DEF Ticks
<1>4. Active(worker[w].step)
  BY <1>1 DEF Active
<1> HIDE DEF j
<1> QED
  BY <1>1, <1>2, <1>3, <1>4, OfThread, ThreadStep

-----------------------------------------------------------------------------
\* The steps that move the flag, and those of the server and the user.

LEMMA ClearInv == ASSUME RemoteInv, NEW w \in Threads, Clear(w) PROVE RemoteInv'
<1> DEFINE j == [worker[w] EXCEPT !.step = "recheck"]
<1>1. /\ worker' = [worker EXCEPT ![w] = j] /\ worker[w].step = "clear" /\ running' = FALSE
      /\ UNCHANGED <<lib, store, paired, queued, ui, events, forgot>>
  BY DEF Clear, Goes
<1>2. ThreadOK(lib, j) /\ j.step = "recheck"
  <2>1. ThreadOK(lib, worker[w]) /\ "recheck" \in ThreadSteps
    BY OfThread DEF ThreadSteps
  <2> QED
    BY <2>1, GoesOK
<1> HIDE DEF j
<1>3. worker'[w] = j /\ \A v \in Threads \ {w} : worker'[v] = worker[v]
  BY <1>1 DEF RemoteInv, TypeInv
<1>4. TypeInv'
  <2>1. DOMAIN worker' = Threads /\ worker' = [v \in Threads |-> worker'[v]]
    BY <1>1 DEF RemoteInv, TypeInv
  <2> QED
    BY <1>1, <1>2, <1>3, <2>1 DEF RemoteInv, TypeInv
<1>5. FlagOK'
  <2>1. Active(worker[w].step) /\ ~Active(j.step)
    BY <1>1, <1>2 DEF Active, PassSteps
  <2>2. \A v \in Threads : ~Active(worker'[v].step)
    BY <1>3, <2>1 DEF RemoteInv, FlagOK
  <2> QED
    BY <2>2 DEF FlagOK
<1>6. PassOK(lib, store, j)
  BY <1>2, NoPass DEF PassSteps
<1>7. DeltaOK'
  BY <1>1, <1>3, <1>6 DEF RemoteInv, DeltaOK
<1> QED
  BY <1>4, <1>5, <1>7 DEF RemoteInv

\* A thread starts to take requests when the flag was down.
LEMMA Started ==
  ASSUME RemoteInv, ~running, running' = TRUE, NEW w \in Threads, Goes(w, "take"),
         lib' = lib, store' = store, paired' = paired, forgot' = forgot, events' = events,
         queued' = queued, ui' \in {"idle", "swap"}
  PROVE  RemoteInv'
<1> DEFINE j == [worker[w] EXCEPT !.step = "take"]
<1>1. ThreadOK(lib, j) /\ j.step = "take"
  <2>1. ThreadOK(lib, worker[w]) /\ "take" \in ThreadSteps
    BY OfThread DEF ThreadSteps
  <2> QED
    BY <2>1, GoesOK
<1>2. worker' = [worker EXCEPT ![w] = j]
  BY DEF Goes
<1> HIDE DEF j
<1>3. worker'[w] = j /\ \A v \in Threads \ {w} : worker'[v] = worker[v]
  BY <1>2 DEF RemoteInv, TypeInv
<1>4. TypeInv'
  <2>1. DOMAIN worker' = Threads /\ worker' = [v \in Threads |-> worker'[v]]
    BY <1>2 DEF RemoteInv, TypeInv
  <2> QED
    BY <1>1, <1>3, <2>1 DEF RemoteInv, TypeInv
<1>5. FlagOK'
  BY <1>3 DEF RemoteInv, FlagOK
<1>6. PassOK(lib, store, j)
  BY <1>1, NoPass DEF PassSteps
<1>7. DeltaOK'
  BY <1>3, <1>6 DEF RemoteInv, DeltaOK
<1> QED
  BY <1>4, <1>5, <1>7 DEF RemoteInv

\* The user interface moved, no thread did, and the flag did not go down.
LEMMA UiStep ==
  ASSUME RemoteInv, UNCHANGED <<lib, store, worker, forgot>>, running => running',
         running' \in BOOLEAN, paired' \in BOOLEAN, queued' \in BOOLEAN,
         ui' \in {"idle", "swap"}, events' \in 0 .. MaxEvents
  PROVE  RemoteInv'
<1>1. TypeInv'
  BY DEF RemoteInv, TypeInv
<1>2. FlagOK'
  BY DEF RemoteInv, FlagOK
<1>3. DeltaOK'
  BY DEF RemoteInv, DeltaOK
<1> QED
  BY <1>1, <1>2, <1>3 DEF RemoteInv

LEMMA Ticking == ASSUME events \in 0 .. MaxEvents, Ticks PROVE events' \in 0 .. MaxEvents
  BY RemoteSyncAssumption DEF Ticks

LEMMA ReclaimInv == ASSUME RemoteInv, NEW w \in Threads, Reclaim(w) PROVE RemoteInv'
<1>1. CASE running
  <2> DEFINE j == [worker[w] EXCEPT !.step = "none"]
  <2>1. /\ worker' = [worker EXCEPT ![w] = j] /\ running' = running
        /\ UNCHANGED <<lib, store, paired, queued, ui, events, forgot>>
    BY <1>1 DEF Reclaim, Goes, RemoteInv, TypeInv
  <2>2. ThreadOK(lib, j) /\ j.step = "none"
    <3>1. ThreadOK(lib, worker[w]) /\ "none" \in ThreadSteps
      BY OfThread DEF ThreadSteps
    <3> QED
      BY <3>1, GoesOK
  <2>3. PassOK(lib, store, j) /\ ~Active(j.step)
    BY <2>2, NoPass DEF PassSteps, Active
  <2> HIDE DEF j
  <2> QED
    BY <2>1, <2>2, <2>3, OfThread, ThreadStep
<1>2. CASE ~running
  <2>1. Goes(w, "take") /\ running' = TRUE
        /\ UNCHANGED <<lib, store, paired, queued, ui, events, forgot>>
    BY <1>2 DEF Reclaim
  <2>2. ui' \in {"idle", "swap"}
    BY <2>1 DEF RemoteInv, TypeInv
  <2> QED
    BY <1>2, <2>1, <2>2, Started
<1> QED
  BY <1>1, <1>2

LEMMA SwapInv == ASSUME RemoteInv, Swap PROVE RemoteInv'
<1>1. /\ ui' = "idle" /\ running' = TRUE
      /\ UNCHANGED <<lib, store, paired, queued, events, forgot>>
  BY DEF Swap
<1>2. CASE running
  <2>1. UNCHANGED worker
    BY <1>2 DEF Swap
  <2> QED
    BY <1>1, <2>1, UiStep DEF RemoteInv, TypeInv
<1>3. CASE ~running
  <2>1. PICK w \in Threads : Goes(w, "take")
    BY <1>3 DEF Swap
  <2> QED
    BY <1>1, <1>3, <2>1, Started
<1> QED
  BY <1>2, <1>3

LEMMA UserInv ==
  ASSUME RemoteInv, Request \/ Unpair \/ Pair \/ Restart
  PROVE  RemoteInv'
<1>0. events \in 0 .. MaxEvents /\ RemoteInv
  BY DEF RemoteInv, TypeInv
<1>1. CASE Request
  BY <1>0, <1>1, UiStep DEF Request, RemoteInv, TypeInv
<1>2. CASE Pair
  <2>1. events' \in 0 .. MaxEvents
    BY <1>0, <1>2, Ticking DEF Pair
  <2> QED
    BY <1>2, <2>1, UiStep DEF Pair, RemoteInv, TypeInv
<1>3. CASE Unpair
  <2>1. events' \in 0 .. MaxEvents
    BY <1>0, <1>3, Ticking DEF Unpair
  <2>2. LibOK(lib) /\ StoreOK(lib, store)
    BY DEF RemoteInv, TypeInv
  <2>3. StoreOK(lib, store')
    BY <1>3, <2>2 DEF Unpair, StoreOK, LibOK, LibType, None
  <2>4. TypeInv'
    BY <1>3, <2>1, <2>3 DEF Unpair, RemoteInv, TypeInv
  <2>5. FlagOK' /\ DeltaOK'
    BY <1>3 DEF Unpair, RemoteInv, FlagOK, DeltaOK
  <2> QED
    BY <2>4, <2>5 DEF RemoteInv
<1>4. CASE Restart
  <2>1. events' \in 0 .. MaxEvents
    BY <1>0, <1>4, Ticking DEF Restart
  <2>2. /\ UNCHANGED <<lib, store, paired, forgot>> /\ worker' = [w \in Threads |-> NoThread]
        /\ queued' = FALSE /\ running' = FALSE /\ ui' = "idle"
    BY <1>4 DEF Restart
  <2>3. ThreadOK(lib, NoThread) /\ ~Active(NoThread.step) /\ PassOK(lib, store, NoThread)
    <3>1. ThreadOK(lib, [NoThread EXCEPT !.step = "none"])
      BY NoThreadOK DEF RemoteInv, TypeInv, ThreadSteps
    <3>2. NoThread = [NoThread EXCEPT !.step = "none"] /\ NoThread.step = "none"
      BY DEF NoThread
    <3> QED
      BY <3>1, <3>2, NoPass DEF Active, PassSteps
  <2> HIDE DEF NoThread
  <2>4. \A w \in Threads : worker'[w] = NoThread
    BY <2>2
  <2>5. TypeInv'
    BY <2>1, <2>2, <2>3, <2>4 DEF RemoteInv, TypeInv
  <2>6. FlagOK' /\ DeltaOK'
    BY <2>2, <2>3, <2>4 DEF RemoteInv, FlagOK, DeltaOK
  <2> QED
    BY <2>5, <2>6 DEF RemoteInv
<1> QED
  BY <1>1, <1>2, <1>3, <1>4

LEMMA ScanInv == ASSUME RemoteInv, Scan PROVE RemoteInv'
<1>1. LibOK(lib) /\ StoreOK(lib, store) /\ events \in 0 .. MaxEvents
  BY DEF RemoteInv, TypeInv
<1>2. UNCHANGED <<store, paired, queued, running, ui, worker, forgot>>
  BY DEF Scan
<1>3. events' \in 0 .. MaxEvents
  BY <1>1, Ticking DEF Scan
<1>4. Moves(lib, lib')
  <2>1. ASSUME NEW ids \in SUBSET Tracks, lib' = UpsertTracks(lib, ids) PROVE Moves(lib, lib')
    BY <1>1, <2>1, UpsertMoves
  <2>2. ASSUME NEW ids \in SUBSET Present(lib), lib' = DeleteTracks(lib, ids)
        PROVE  Moves(lib, lib')
    <3>1. ids \in SUBSET Tracks
      BY DEF Present
    <3> QED
      BY <1>1, <2>2, <3>1, DeleteMoves
  <2>3. ASSUME NEW t \in Tracks, lib' = PurgeTombstone(lib, t) PROVE Moves(lib, lib')
    BY <1>1, <2>3, PurgeMoves
  <2> QED
    BY <2>1, <2>2, <2>3 DEF Scan
<1>5. LibOK(lib') /\ lib.version <= lib'.version /\ lib.version \in Nat /\ lib'.version \in Nat
  BY <1>1, <1>4 DEF Moves, LibOK, LibType
<1>6. StoreOK(lib', store)
  BY <1>1, <1>5 DEF StoreOK
<1>7. ASSUME NEW w \in Threads PROVE ThreadOK(lib', worker[w])
  BY <1>5, OfThread DEF ThreadOK
<1>8. TypeInv'
  BY <1>2, <1>3, <1>5, <1>6, <1>7 DEF RemoteInv, TypeInv
<1>9. FlagOK'
  BY <1>2 DEF RemoteInv, FlagOK
<1>10. ASSUME ~forgot PROVE UpTo(lib', store.rows, store.since)
  BY <1>1, <1>4, <1>10, UpToKept DEF RemoteInv, DeltaOK, StoreOK
<1>11. ASSUME ~forgot, NEW w \in Threads PROVE PassOK(lib', store, worker[w])
  BY <1>1, <1>4, <1>11, OfThread, PassKept
<1>12. DeltaOK'
  BY <1>2, <1>10, <1>11 DEF DeltaOK
<1> QED
  BY <1>8, <1>9, <1>12 DEF RemoteInv

-----------------------------------------------------------------------------

LEMMA InitInv == Init => RemoteInv
<1> SUFFICES ASSUME Init PROVE RemoteInv
  OBVIOUS
<1>1. LibOK(lib) /\ StoreOK(lib, store) /\ UpTo(lib, store.rows, store.since)
  BY DEF Init, NewLibrary, LibOK, LibType, StoreOK, UpTo, None
<1>2. NoThread.step = "none" /\ ThreadOK(lib, NoThread)
  BY <1>1 DEF NoThread, ThreadOK, ThreadSteps, LibOK, LibType, None
<1> HIDE DEF NoThread
<1>3. worker = [w \in Threads |-> NoThread] /\ \A w \in Threads : worker[w] = NoThread
  BY DEF Init
<1>4. TypeInv
  <2>1. DOMAIN worker = Threads /\ worker = [w \in Threads |-> worker[w]]
    BY <1>3
  <2>2. /\ paired \in BOOLEAN /\ queued \in BOOLEAN /\ running \in BOOLEAN /\ forgot \in BOOLEAN
        /\ ui \in {"idle", "swap"}
    BY DEF Init
  <2>3. events \in 0 .. MaxEvents
    BY RemoteSyncAssumption DEF Init
  <2> QED
    BY <1>1, <1>2, <1>3, <2>1, <2>2, <2>3 DEF TypeInv
<1>5. FlagOK
  BY <1>2, <1>3 DEF FlagOK, Active, PassSteps
<1>6. DeltaOK
  BY <1>1, <1>2, <1>3, NoPass DEF DeltaOK, PassSteps
<1> QED
  BY <1>4, <1>5, <1>6 DEF RemoteInv

LEMMA NextInv == RemoteInv /\ [Next]_vars => RemoteInv'
<1> SUFFICES ASSUME RemoteInv, [Next]_vars PROVE RemoteInv'
  OBVIOUS
<1>1. CASE UNCHANGED vars
  BY <1>1 DEF vars, RemoteInv, TypeInv, FlagOK, DeltaOK
<1>2. ASSUME NEW w \in Threads, Works(w) PROVE RemoteInv'
  BY <1>2, TakeInv, ClearInv, RecheckInv, ReclaimInv, ReadVersionInv, ReadTracksInv,
     ReadTombsInv, UpsertInv, DeleteInv, SetSinceInv DEF Works
<1> QED
  BY <1>1, <1>2, ScanInv, SwapInv, UserInv, FailInv DEF Next

LEMMA RemoteInvariant == Spec => []RemoteInv
  BY InitInv, NextInv, PTL DEF Spec

\* Whatever scans, failures, restarts, unpairings and requests come, the library has
\* a track or its tombstone, and nobody is at a version it has not reached.
THEOREM TypeCorrect == Spec => []RemoteTypeOK
<1>1. RemoteInv => RemoteTypeOK
  BY DEF RemoteInv, TypeInv, LibOK, LibType, StoreOK, ThreadOK, RemoteTypeOK
<1> QED
  BY <1>1, RemoteInvariant, PTL

\* For any number of threads: no two take requests together (spawn_sync and drain).
THEOREM WorkersExclude == Spec => []OneWorker
<1>1. RemoteInv => OneWorker
  BY DEF RemoteInv, FlagOK, Active, OneWorker
<1> QED
  BY <1>1, RemoteInvariant, PTL

\* For any number of tracks and scans: a delta of three separate reads, written in
\* three transactions, leaves nothing out (library_delta and sync_server).
THEOREM DeltaSound == Spec => []DeltaMissesNothing
<1>1. RemoteInv => DeltaMissesNothing
  BY DEF RemoteInv, DeltaOK, UpTo, UpToSince, DeltaMissesNothing
<1> QED
  BY <1>1, RemoteInvariant, PTL

=============================================================================
