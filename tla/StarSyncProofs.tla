--------------------------- MODULE StarSyncProofs ---------------------------
\* Why no 304 hides a change and no click is lost, for any number of desktops,
\* tracks, files and events, and any size of a batch.

EXTENDS StarSyncSpec, TLAPS

-----------------------------------------------------------------------------
\* The transactions of the server.

StarTime == Nat \cup {Never}

LEMMA Seconds ==
  ASSUME NEW at \in Nat
  PROVE  at \div Second \in Nat
  BY StarredSetAssumption

\* A step of the server moves the version or leaves what is visible.
Moves(s, n) == \/ n.version = s.version + 1
               \/ n.version = s.version /\ Visible(n) = Visible(s)

LEMMA ApplyType ==
  ASSUME NEW s \in ServerType, NEW star, NEW unstar, NEW at \in Nat
  PROVE  ApplyStarred(s, star, unstar, at) \in ServerType
<1> DEFINE new  == (star \cap s.tracks) \ Starred(s)
           gone == unstar \cap (Starred(s) \cup new)
           sec  == at \div Second
           at2  == [t \in Tracks |-> IF t \in gone THEN Never
                                     ELSE IF t \in new THEN sec ELSE s.at[t]]
           v2   == IF new = gone THEN s.version ELSE s.version + 1
<1>1. sec \in Nat
  BY Seconds
<1> HIDE DEF sec, new, gone
<1>2. at2 \in [Tracks -> Nat \cup {Never}]
  BY <1>1 DEF ServerType
<1>3. v2 \in Nat
  BY DEF ServerType
<1> HIDE DEF at2, v2
<1>4. ApplyStarred(s, star, unstar, at) = [s EXCEPT !.at = at2, !.version = v2]
  BY DEF ApplyStarred, at2, v2, sec, new, gone
<1> QED
  BY <1>2, <1>3, <1>4 DEF ServerType

\* A batch that leaves the version leaves everything.
LEMMA ApplyMoves ==
  ASSUME NEW s \in ServerType, NEW star, NEW unstar, NEW at \in Nat
  PROVE  LET n == ApplyStarred(s, star, unstar, at)
         IN n = s \/ n.version = s.version + 1
<1> DEFINE new  == (star \cap s.tracks) \ Starred(s)
           gone == unstar \cap (Starred(s) \cup new)
           n    == ApplyStarred(s, star, unstar, at)
<1>1. CASE new = gone
  <2>1. \A t \in Tracks : t \in new => s.at[t] = Never
    BY DEF Starred
  <2>2. n.at = s.at
    BY <1>1, <2>1 DEF ApplyStarred, ServerType
  <2>3. n.version = s.version /\ n.tracks = s.tracks
    BY <1>1 DEF ApplyStarred, ServerType
  <2>4. n \in ServerType
    BY ApplyType
  <2> QED
    BY <2>2, <2>3, <2>4 DEF ServerType
<1>2. CASE new # gone
  BY <1>2 DEF ApplyStarred, ServerType
<1> QED
  BY <1>1, <1>2

LEMMA TouchMoves ==
  ASSUME NEW s \in ServerType, NEW n \in ServerType, NEW ids \in SUBSET Tracks,
         n.at = s.at, n.version = s.version,
         n.tracks \ ids = s.tracks \ ids
  PROVE  TouchStarred(n, ids) \in ServerType /\ Moves(s, TouchStarred(n, ids))
<1>1. CASE ids \cap Starred(n) = {}
  <2>1. Visible(n) = Visible(s)
    BY <1>1 DEF Visible, Starred, ServerType
  <2> QED
    BY <1>1, <2>1 DEF TouchStarred, Moves
<1>2. CASE ids \cap Starred(n) # {}
  BY <1>2 DEF TouchStarred, Moves, ServerType
<1> QED
  BY <1>1, <1>2

LEMMA ScanMoves ==
  ASSUME NEW s \in ServerType, NEW t \in Tracks
  PROVE  /\ UpsertTracks(s, {t}) \in ServerType /\ Moves(s, UpsertTracks(s, {t}))
         /\ DeleteTracks(s, {t}) \in ServerType /\ Moves(s, DeleteTracks(s, {t}))
<1> DEFINE u == [s EXCEPT !.tracks = @ \cup {t}]
           d == [s EXCEPT !.tracks = @ \ {t}]
<1>1. u \in ServerType /\ u.at = s.at /\ u.version = s.version /\ u.tracks \ {t} = s.tracks \ {t}
  BY DEF ServerType
<1>2. TouchStarred(u, {t}) \in ServerType /\ Moves(s, TouchStarred(u, {t}))
  BY <1>1, TouchMoves
<1>3. d \in ServerType /\ d.at = s.at /\ d.version = s.version
      /\ d.tracks \ ({t} \cap s.tracks) = s.tracks \ ({t} \cap s.tracks)
  BY DEF ServerType
<1>4. {t} \cap s.tracks \in SUBSET Tracks
  BY DEF ServerType
<1>5. TouchStarred(d, {t} \cap s.tracks) \in ServerType /\ Moves(s, TouchStarred(d, {t} \cap s.tracks))
  BY <1>3, <1>4, TouchMoves
<1> QED
  BY <1>2, <1>5 DEF UpsertTracks, DeleteTracks

-----------------------------------------------------------------------------
\* The inductive invariant, stated of one desktop k, its worker j and server s.

DeskType == [files : SUBSET Files, rows : SUBSET Tracks, star : [Rows -> BOOLEAN],
             changed : [Rows -> Nat],
             base : [version : Nat \cup {NoVersion}, synced : Nat, ids : SUBSET Tracks]]

JobType == [step : {"idle", "fetch", "read", "push"}, version : Nat \cup {NoVersion},
            at : [Tracks -> StarTime], readAt : Nat, star : SUBSET Tracks,
            unstar : SUBSET Tracks, ids : SUBSET Tracks, on : SUBSET Rows, off : SUBSET Rows]

\* The base is right if it has the server's version. While nothing moved the version
\* since the fetch, what was fetched is what is visible, and what is left to push
\* is the difference between the merged set and what is visible.
EtagOK(s, k, j) ==
  /\ k.base.version <= s.version
  /\ k.base.version = s.version => k.base.ids = Visible(s)
  /\ j.step \in {"read", "push"} => j.version <= s.version
  /\ (j.step = "read" /\ j.version = s.version) => {t \in Tracks : j.at[t] # Never} = Visible(s)
  /\ (j.step = "push" /\ j.version = s.version)
       => /\ j.star \cap Visible(s) = {} /\ j.unstar \subseteq Visible(s)
          /\ j.ids = (Visible(s) \cup j.star) \ j.unstar

\* Every star changed since the last read is as the user left it, and the read of the
\* running sync is not before the last one.
ClickOK(k, j, c, at) ==
  /\ k.base.synced <= at /\ j.readAt <= at
  /\ j.step = "push" => k.base.synced <= j.readAt
  /\ \A r \in Rows : k.changed[r] <= at /\ (k.changed[r] > k.base.synced => k.star[r] = c[r])

\* What is left to push or to write is not to be both set and cleared.
JobOK(j) == j.on \cap j.off = {} /\ j.star \cap j.unstar = {}

TypeInv ==
  /\ server \in ServerType /\ now \in 0 .. MaxTime
  /\ desk \in [Desktops -> DeskType] /\ job \in [Desktops -> JobType]
  /\ clicked \in [Desktops -> [Rows -> BOOLEAN]]

SyncInv ==
  /\ TypeInv
  /\ \A d \in Desktops : /\ EtagOK(server, desk[d], job[d])
                         /\ ClickOK(desk[d], job[d], clicked[d], now)
                         /\ JobOK(job[d])

-----------------------------------------------------------------------------
\* The operators of the desktop keep the types.

LEMMA IdleType == Idle \in JobType /\ JobOK(Idle)
  BY DEF Idle, JobType, JobOK, NoVersion, StarTime

LEMMA ClickType ==
  ASSUME NEW k \in DeskType, NEW r \in Rows, NEW v \in BOOLEAN, NEW at \in Nat
  PROVE  SetStarredAt(k, r, v, at) \in DeskType
  BY DEF SetStarredAt, DeskType

LEMMA DeltaType ==
  ASSUME NEW k \in DeskType, NEW tracks \in SUBSET Tracks
  PROVE  ApplyDelta(k, tracks) \in DeskType
<1> DEFINE fresh == (Tracks \ k.rows) \cup (Tracks \ tracks)
           star  == [r \in Rows |-> r \notin fresh /\ k.star[r]]
           chg   == [r \in Rows |-> IF r \in fresh THEN 0 ELSE k.changed[r]]
<1>1. star \in [Rows -> BOOLEAN]
  OBVIOUS
<1>2. chg \in [Rows -> Nat]
  BY DEF DeskType
<1> HIDE DEF star, chg
<1>3. ApplyDelta(k, tracks) = [k EXCEPT !.rows = tracks, !.star = star, !.changed = chg]
  BY DEF ApplyDelta, star, chg
<1> QED
  BY <1>1, <1>2, <1>3 DEF DeskType

LEMMA CommitType ==
  ASSUME NEW k \in DeskType, NEW j \in JobType
  PROVE  Committed(k, j) \in DeskType
<1> DEFINE star == [r \in Rows |-> IF k.changed[r] > j.readAt \/ ~HasRow(k, r) THEN k.star[r]
                                   ELSE (k.star[r] \/ r \in j.on) /\ r \notin j.off]
           base == [version |-> j.version, synced |-> j.readAt, ids |-> j.ids]
<1>1. star \in [Rows -> BOOLEAN]
  BY DEF DeskType
<1>2. base \in [version : Nat \cup {NoVersion}, synced : Nat, ids : SUBSET Tracks]
  BY DEF JobType
<1> HIDE DEF star, base
<1>3. Committed(k, j) = [k EXCEPT !.star = star, !.base = base]
  BY DEF Committed, star, base
<1> QED
  BY <1>1, <1>2, <1>3 DEF DeskType

LEMMA PlanType ==
  ASSUME NEW k \in DeskType, NEW j \in JobType, now \in Nat
  PROVE  Plan(j, k) \in JobType /\ JobOK(Plan(j, k))
<1> DEFINE m  == Merged(k, j.at)
           sv == {t \in Tracks : j.at[t] # Never}
           on == ToApply(k, m, TRUE)
           off == ToApply(k, m, FALSE)
<1>1. m \in SUBSET Tracks /\ m \ sv \in SUBSET Tracks /\ sv \ m \in SUBSET Tracks
  BY DEF Merged
<1>2. on \in SUBSET Rows /\ off \in SUBSET Rows /\ on \cap off = {}
  <2>1. on \in SUBSET Rows /\ off \in SUBSET Rows
    BY DEF ToApply
  <2>2. \A r \in on : k.star[r] # TRUE
    BY DEF ToApply
  <2>3. \A r \in off : k.star[r] # FALSE
    BY DEF ToApply
  <2>4. \A r \in Rows : k.star[r] \in BOOLEAN
    BY DEF DeskType
  <2> HIDE DEF on, off
  <2>5. \A r \in Rows : ~(r \in on /\ r \in off)
    BY <2>2, <2>3, <2>4
  <2> QED
    BY <2>1, <2>5
<1>3. (m \ sv) \cap (sv \ m) = {}
  OBVIOUS
<1>4. Idle.at \in [Tracks -> StarTime]
  BY DEF Idle, StarTime
<1> DEFINE p == Plan(j, k)
<1> HIDE DEF m, sv, on, off
<1>5. p = [j EXCEPT !.step = "push", !.readAt = now, !.ids = m, !.star = m \ sv,
                    !.unstar = sv \ m, !.on = on, !.off = off, !.at = Idle.at]
  BY DEF Plan, m, sv, on, off
<1>6. p \in JobType
  BY <1>1, <1>2, <1>4, <1>5 DEF JobType
<1>7. p.on = on /\ p.off = off /\ p.star = m \ sv /\ p.unstar = sv \ m
  BY <1>5 DEF JobType
<1> QED
  BY <1>2, <1>3, <1>6, <1>7 DEF JobOK

-----------------------------------------------------------------------------
\* The version of a base, step by step.

\* Whatever the server does, a base stays right.
LEMMA EtagServer ==
  ASSUME NEW s \in ServerType, NEW n \in ServerType, Moves(s, n),
         NEW k \in DeskType, NEW j \in JobType, EtagOK(s, k, j)
  PROVE  EtagOK(n, k, j)
<1>1. CASE n.version = s.version + 1
  BY <1>1 DEF EtagOK, ServerType, DeskType, JobType, NoVersion
<1>2. CASE n.version = s.version /\ Visible(n) = Visible(s)
  BY <1>2 DEF EtagOK
<1> QED
  BY <1>1, <1>2 DEF Moves

\* It depends on the base and the locals of the worker only.
LEMMA EtagSame ==
  ASSUME NEW s, NEW k, NEW n, n.base = k.base, NEW j, EtagOK(s, k, j)
  PROVE  EtagOK(s, n, j)
  BY DEF EtagOK

LEMMA EtagIdle ==
  ASSUME NEW s, NEW k, NEW j, NEW i, EtagOK(s, k, j), i.step \in {"idle", "fetch"}
  PROVE  EtagOK(s, k, i)
  BY DEF EtagOK

\* What a fetch brings is what is visible, a 304 included.
LEMMA EtagFetched ==
  ASSUME server \in ServerType, NEW k \in DeskType, NEW j \in JobType, EtagOK(server, k, j)
  PROVE  LET n == [j EXCEPT !.step = "read", !.version = server.version, !.at = Fetched(k.base)]
         IN n \in JobType /\ EtagOK(server, k, n)
<1> DEFINE at == Fetched(k.base)
           n  == [j EXCEPT !.step = "read", !.version = server.version, !.at = at]
<1>1. at \in [Tracks -> StarTime]
  BY DEF Fetched, StarTime, ServerType
<1>2. {t \in Tracks : at[t] # Never} = Visible(server)
  <2>1. CASE k.base.version = server.version
    <3>1. k.base.ids = Visible(server) /\ k.base.ids \subseteq Tracks
      BY <2>1 DEF EtagOK, DeskType
    <3>2. \A t \in Tracks : at[t] = IF t \in Visible(server) THEN 0 ELSE Never
      BY <2>1, <3>1 DEF Fetched
    <3> HIDE DEF at
    <3> QED
      BY <3>1, <3>2 DEF Never
  <2>2. CASE k.base.version # server.version
    BY <2>2 DEF Fetched, Visible, Starred
  <2> QED
    BY <2>1, <2>2
<1> HIDE DEF at
<1>3. n \in JobType
  BY <1>1 DEF JobType, ServerType
<1>4. n.step = "read" /\ n.version = server.version /\ n.at = at
  BY DEF JobType
<1>5. EtagOK(server, k, n)
  BY <1>2, <1>4 DEF EtagOK, ServerType
<1> QED
  BY <1>3, <1>5 DEF at

LEMMA EtagPlan ==
  ASSUME NEW s \in ServerType, NEW k \in DeskType, NEW j \in JobType, EtagOK(s, k, j),
         j.step = "read", now \in Nat
  PROVE  EtagOK(s, k, Plan(j, k))
<1> DEFINE m  == Merged(k, j.at)
           sv == {t \in Tracks : j.at[t] # Never}
           p  == Plan(j, k)
<1>1. p.step = "push" /\ p.version = j.version /\ p.ids = m /\ p.star = m \ sv /\ p.unstar = sv \ m
  BY DEF Plan, JobType
<1>2. j.version <= s.version /\ (j.version = s.version => sv = Visible(s))
  BY DEF EtagOK
<1> HIDE DEF m, sv, p
<1>3. j.version = s.version => /\ p.star \cap Visible(s) = {} /\ p.unstar \subseteq Visible(s)
                               /\ p.ids = (Visible(s) \cup p.star) \ p.unstar
  BY <1>1, <1>2
<1> QED
  BY <1>1, <1>2, <1>3 DEF EtagOK, p

\* A push that moves nothing found only ids the server does not know; they leave
\* both the work and the merged set.
LEMMA EtagPushed ==
  ASSUME NEW s \in ServerType, NEW k \in DeskType, NEW j \in JobType, EtagOK(s, k, j),
         j.step = "push", NEW c \in SUBSET j.star, NEW at \in Nat
  PROVE  LET n == ApplyStarred(s, c, {}, at)
             i == [j EXCEPT !.star = @ \ c, !.ids = @ \ Unknown(s, c)]
         IN EtagOK(n, k, i)
<1> DEFINE n == ApplyStarred(s, c, {}, at)
           i == [j EXCEPT !.star = @ \ c, !.ids = @ \ Unknown(s, c)]
<1>1. n \in ServerType
  BY ApplyType
<1>2. /\ i.step = "push" /\ i.version = j.version /\ i.unstar = j.unstar
      /\ i.star = j.star \ c /\ i.ids = j.ids \ Unknown(s, c)
  BY DEF JobType
<1>3. n = s \/ n.version = s.version + 1
  BY ApplyMoves
<1>4. CASE n.version = s.version + 1
  <2>1. n.version # k.base.version /\ n.version # j.version
    BY <1>4 DEF EtagOK, ServerType, DeskType, JobType, NoVersion
  <2>2. k.base.version <= n.version /\ j.version <= n.version
    BY <1>4 DEF EtagOK, ServerType, DeskType, JobType, NoVersion
  <2> HIDE DEF n, i
  <2>3. EtagOK(n, k, i)
    BY <1>2, <2>1, <2>2 DEF EtagOK
  <2> QED
    BY <2>3 DEF n, i
<1>5. CASE n = s
  <2>1. s.version # s.version + 1
    BY DEF ServerType
  <2>2. (c \cap s.tracks) \ Starred(s) = {}
    BY <1>5, <2>1 DEF ApplyStarred, ServerType
  <2>3. ASSUME j.version = s.version
        PROVE  /\ i.star \cap Visible(s) = {} /\ i.unstar \subseteq Visible(s)
               /\ i.ids = (Visible(s) \cup i.star) \ i.unstar
    <3>1. /\ j.star \cap Visible(s) = {} /\ j.unstar \subseteq Visible(s)
          /\ j.ids = (Visible(s) \cup j.star) \ j.unstar
      BY <2>3 DEF EtagOK
    <3>2. Unknown(s, c) = c
      BY <2>2, <3>1 DEF Visible, Unknown
    <3> HIDE DEF n, i
    <3> QED
      BY <1>2, <3>1, <3>2
  <2> HIDE DEF i
  <2> QED
    BY <1>2, <1>5, <2>3 DEF EtagOK
<1> QED
  BY <1>3, <1>4, <1>5

LEMMA EtagUnpushed ==
  ASSUME NEW s \in ServerType, NEW k \in DeskType, NEW j \in JobType, EtagOK(s, k, j),
         j.step = "push", NEW c \in SUBSET j.unstar, NEW at \in Nat
  PROVE  LET n == ApplyStarred(s, {}, c, at)
             i == [j EXCEPT !.unstar = @ \ c]
         IN EtagOK(n, k, i)
<1> DEFINE n == ApplyStarred(s, {}, c, at)
           i == [j EXCEPT !.unstar = @ \ c]
<1>1. /\ i.step = "push" /\ i.version = j.version /\ i.ids = j.ids
      /\ i.star = j.star /\ i.unstar = j.unstar \ c
  BY DEF JobType
<1>2. n = s \/ n.version = s.version + 1
  BY ApplyMoves
<1>3. CASE n.version = s.version + 1
  <2>1. n.version # k.base.version /\ n.version # j.version
    BY <1>3 DEF EtagOK, ServerType, DeskType, JobType, NoVersion
  <2>2. k.base.version <= n.version /\ j.version <= n.version
    BY <1>3 DEF EtagOK, ServerType, DeskType, JobType, NoVersion
  <2> HIDE DEF n, i
  <2>3. EtagOK(n, k, i)
    BY <1>1, <2>1, <2>2 DEF EtagOK
  <2> QED
    BY <2>3 DEF n, i
<1>4. CASE n = s
  <2>1. s.version # s.version + 1
    BY DEF ServerType
  <2>2. c \cap Starred(s) = {}
    BY <1>4, <2>1 DEF ApplyStarred, ServerType
  <2>3. j.version = s.version => c = {}
    BY <2>2 DEF EtagOK, Visible
  <2> HIDE DEF i
  <2> QED
    BY <1>1, <1>4, <2>3 DEF EtagOK
<1> QED
  BY <1>2, <1>3, <1>4

LEMMA EtagCommitted ==
  ASSUME NEW s \in ServerType, NEW k \in DeskType, NEW j \in JobType, EtagOK(s, k, j),
         j.step = "push", j.star = {}, j.unstar = {}
  PROVE  EtagOK(s, Committed(k, j), Idle)
<1>1. Committed(k, j).base = [version |-> j.version, synced |-> j.readAt, ids |-> j.ids]
  BY DEF Committed, DeskType
<1>2. Idle.step = "idle"
  BY DEF Idle
<1> QED
  BY <1>1, <1>2 DEF EtagOK

-----------------------------------------------------------------------------
\* The stars of a user, step by step.

LEMMA ClickLater ==
  ASSUME NEW k \in DeskType, NEW j \in JobType, NEW c, NEW at \in Nat, NEW later \in Nat,
         at <= later, ClickOK(k, j, c, at)
  PROVE  ClickOK(k, j, c, later)
  BY DEF ClickOK, DeskType, JobType

LEMMA ClickSame ==
  ASSUME NEW k, NEW j, NEW i, NEW c, NEW at, ClickOK(k, j, c, at), i.readAt = j.readAt,
         i.step = "push" => j.step = "push"
  PROVE  ClickOK(k, i, c, at)
  BY DEF ClickOK

LEMMA ClickIdle ==
  ASSUME NEW k, NEW j, NEW c, NEW at \in Nat, ClickOK(k, j, c, at)
  PROVE  ClickOK(k, Idle, c, at)
  BY DEF ClickOK, Idle

LEMMA ClickClicked ==
  ASSUME NEW k \in DeskType, NEW j \in JobType, NEW c \in [Rows -> BOOLEAN], NEW at \in Nat,
         NEW r \in Rows, NEW v \in BOOLEAN, k.star[r] # v, ClickOK(k, j, c, at)
  PROVE  ClickOK(SetStarredAt(k, r, v, at + 1), j, [c EXCEPT ![r] = v], at + 1)
<1> DEFINE n == SetStarredAt(k, r, v, at + 1)
           e == [c EXCEPT ![r] = v]
<1>1. /\ n.base = k.base /\ n.star = [k.star EXCEPT ![r] = v]
      /\ n.changed = [k.changed EXCEPT ![r] = at + 1]
  BY DEF SetStarredAt, DeskType
<1>2. /\ n.star[r] = v /\ n.changed[r] = at + 1 /\ e[r] = v
      /\ \A q \in Rows \ {r} : n.star[q] = k.star[q] /\ n.changed[q] = k.changed[q] /\ e[q] = c[q]
  BY <1>1 DEF DeskType
<1>3. \A q \in Rows : k.changed[q] \in Nat
  BY DEF DeskType
<1>4. k.base.synced \in Nat /\ j.readAt \in Nat
  BY DEF DeskType, JobType
<1> HIDE DEF n, e
<1>5. ClickOK(n, j, e, at + 1)
  BY <1>1, <1>2, <1>3, <1>4 DEF ClickOK
<1> QED
  BY <1>5 DEF n, e

LEMMA ClickDelta ==
  ASSUME NEW k \in DeskType, NEW j, NEW c, NEW at \in Nat, NEW tracks \in SUBSET Tracks,
         ClickOK(k, j, c, at)
  PROVE  ClickOK(ApplyDelta(k, tracks), j, c, at)
<1> DEFINE n == ApplyDelta(k, tracks)
           fresh == (Tracks \ k.rows) \cup (Tracks \ tracks)
<1>1. /\ n.base = k.base
      /\ n.star = [r \in Rows |-> r \notin fresh /\ k.star[r]]
      /\ n.changed = [r \in Rows |-> IF r \in fresh THEN 0 ELSE k.changed[r]]
  BY DEF ApplyDelta, DeskType
<1>2. \A r \in Rows : \/ n.changed[r] = 0
                      \/ n.changed[r] = k.changed[r] /\ n.star[r] = k.star[r]
  <2> HIDE DEF n, fresh
  <2>1. \A r \in Rows : k.star[r] \in BOOLEAN
    BY DEF DeskType
  <2> QED
    BY <1>1, <2>1
<1>3. k.base.synced \in Nat /\ \A r \in Rows : k.changed[r] \in Nat
  BY DEF DeskType
<1> HIDE DEF n, fresh
<1>4. ClickOK(n, j, c, at)
  BY <1>1, <1>2, <1>3 DEF ClickOK
<1> QED
  BY <1>4 DEF n

\* The commit leaves alone what was changed after the read.
LEMMA ClickCommitted ==
  ASSUME NEW k \in DeskType, NEW j \in JobType, NEW c, NEW at \in Nat, ClickOK(k, j, c, at),
         j.step = "push"
  PROVE  ClickOK(Committed(k, j), Idle, c, at)
<1> DEFINE n == Committed(k, j)
<1>1. n.base.synced = j.readAt /\ n.changed = k.changed
  BY DEF Committed, DeskType
<1>2. \A r \in Rows : k.changed[r] > j.readAt => n.star[r] = k.star[r]
  BY DEF Committed, DeskType
<1>3. /\ k.base.synced \in Nat /\ j.readAt \in Nat /\ \A r \in Rows : k.changed[r] \in Nat
      /\ k.base.synced <= j.readAt /\ j.readAt <= at
  BY DEF DeskType, JobType, ClickOK
<1>4. Idle.readAt = 0 /\ Idle.step = "idle"
  BY DEF Idle
<1> HIDE DEF n
<1>5. \A r \in Rows : k.changed[r] > j.readAt => k.star[r] = c[r]
  BY <1>3 DEF ClickOK
<1>6. \A r \in Rows : k.changed[r] <= at
  BY DEF ClickOK
<1>7. ClickOK(n, Idle, c, at)
  BY <1>1, <1>2, <1>3, <1>4, <1>5, <1>6 DEF ClickOK
<1> QED
  BY <1>7 DEF n

LEMMA ClickPlan ==
  ASSUME NEW k \in DeskType, NEW j \in JobType, NEW c, now \in Nat, ClickOK(k, j, c, now)
  PROVE  ClickOK(k, Plan(j, k), c, now)
<1>1. Plan(j, k).readAt = now
  BY DEF Plan, JobType
<1> QED
  BY <1>1 DEF ClickOK

-----------------------------------------------------------------------------
\* The steps of the system.

\* Only the server moved: every desktop and its worker stay right.
LEMMA ServerStep ==
  ASSUME SyncInv, server' \in ServerType, Moves(server, server'),
         now' \in 0 .. MaxTime, now <= now', UNCHANGED <<desk, job, clicked>>
  PROVE  SyncInv'
<1>1. TypeInv'
  BY DEF SyncInv, TypeInv
<1>2. now \in Nat /\ now' \in Nat
  BY StarSyncAssumption DEF SyncInv, TypeInv
<1>3. ASSUME NEW d \in Desktops
      PROVE  /\ EtagOK(server', desk[d], job[d])
             /\ ClickOK(desk[d], job[d], clicked[d], now') /\ JobOK(job[d])
  <2>1. /\ server \in ServerType /\ desk[d] \in DeskType /\ job[d] \in JobType
        /\ EtagOK(server, desk[d], job[d]) /\ ClickOK(desk[d], job[d], clicked[d], now)
        /\ JobOK(job[d])
    BY <1>3 DEF SyncInv, TypeInv
  <2>2. EtagOK(server', desk[d], job[d])
    BY <2>1, EtagServer
  <2>3. ClickOK(desk[d], job[d], clicked[d], now')
    BY <1>2, <2>1, ClickLater
  <2> QED
    BY <2>1, <2>2, <2>3
<1> QED
  BY <1>1, <1>3 DEF SyncInv

\* One desktop and its worker moved, and the server perhaps: the others stay right.
LEMMA DeskStep ==
  ASSUME SyncInv, server' \in ServerType, Moves(server, server'),
         now' \in 0 .. MaxTime, now <= now',
         NEW d \in Desktops, NEW k \in DeskType, NEW i \in JobType, NEW c \in [Rows -> BOOLEAN],
         desk' = [desk EXCEPT ![d] = k], job' = [job EXCEPT ![d] = i],
         clicked' = [clicked EXCEPT ![d] = c],
         EtagOK(server', k, i), ClickOK(k, i, c, now'), JobOK(i)
  PROVE  SyncInv'
<1>1. TypeInv'
  BY DEF SyncInv, TypeInv
<1>2. now \in Nat /\ now' \in Nat
  BY StarSyncAssumption DEF SyncInv, TypeInv
<1>3. ASSUME NEW e \in Desktops
      PROVE  /\ EtagOK(server', desk'[e], job'[e])
             /\ ClickOK(desk'[e], job'[e], clicked'[e], now') /\ JobOK(job'[e])
  <2>1. CASE e = d
    <3>1. desk'[e] = k /\ job'[e] = i /\ clicked'[e] = c
      BY <2>1 DEF SyncInv, TypeInv
    <3> QED
      BY <3>1
  <2>2. CASE e # d
    <3>1. desk'[e] = desk[e] /\ job'[e] = job[e] /\ clicked'[e] = clicked[e]
      BY <2>2 DEF SyncInv, TypeInv
    <3>2. /\ server \in ServerType /\ desk[e] \in DeskType /\ job[e] \in JobType
          /\ EtagOK(server, desk[e], job[e]) /\ ClickOK(desk[e], job[e], clicked[e], now)
          /\ JobOK(job[e])
      BY <1>3 DEF SyncInv, TypeInv
    <3>3. EtagOK(server', desk[e], job[e])
      BY <3>2, EtagServer
    <3>4. ClickOK(desk[e], job[e], clicked[e], now')
      BY <1>2, <3>2, ClickLater
    <3> QED
      BY <3>1, <3>2, <3>3, <3>4
  <2> QED
    BY <2>1, <2>2
<1> QED
  BY <1>1, <1>3 DEF SyncInv

\* What the invariant says of one desktop, ready to cite.
LEMMA OfDesktop ==
  ASSUME SyncInv, NEW d \in Desktops
  PROVE  /\ server \in ServerType /\ now \in Nat /\ now \in 0 .. MaxTime
         /\ desk[d] \in DeskType /\ job[d] \in JobType /\ clicked[d] \in [Rows -> BOOLEAN]
         /\ EtagOK(server, desk[d], job[d])
         /\ ClickOK(desk[d], job[d], clicked[d], now) /\ JobOK(job[d])
         /\ desk = [desk EXCEPT ![d] = desk[d]] /\ job = [job EXCEPT ![d] = job[d]]
         /\ clicked = [clicked EXCEPT ![d] = clicked[d]]
  BY StarSyncAssumption DEF SyncInv, TypeInv

\* A step of the worker: the clock and the user stand still.
LEMMA WorkerStep ==
  ASSUME SyncInv, server' \in ServerType, Moves(server, server'), now' = now, clicked' = clicked,
         NEW d \in Desktops, NEW k \in DeskType, NEW i \in JobType,
         desk' = [desk EXCEPT ![d] = k], job' = [job EXCEPT ![d] = i],
         EtagOK(server', k, i), ClickOK(k, i, clicked[d], now), JobOK(i)
  PROVE  SyncInv'
<1>1. now' \in 0 .. MaxTime /\ now <= now'
  BY OfDesktop
<1>2. clicked' = [clicked EXCEPT ![d] = clicked[d]] /\ clicked[d] \in [Rows -> BOOLEAN]
  BY OfDesktop
<1>3. ClickOK(k, i, clicked[d], now')
  OBVIOUS
<1> QED
  BY <1>1, <1>2, <1>3, DeskStep

LEMMA Ticking ==
  ASSUME now \in 0 .. MaxTime, Ticks
  PROVE  now' = now + 1 /\ now' \in 0 .. MaxTime /\ now <= now' /\ now' \in Nat
  BY StarSyncAssumption DEF Ticks

LEMMA Still == ASSUME server \in ServerType PROVE Moves(server, server)
  BY DEF Moves

-----------------------------------------------------------------------------

LEMMA InitInv == HistInit => SyncInv
<1> SUFFICES ASSUME HistInit PROVE SyncInv
  OBVIOUS
<1>1. server \in ServerType /\ server.version = 0
  BY DEF HistInit, Init, NewServer, ServerType
<1>2. now = 0 /\ now \in 0 .. MaxTime
  BY StarSyncAssumption DEF HistInit, Init
<1>3. clicked \in [Desktops -> [Rows -> BOOLEAN]]
  BY DEF HistInit
<1>4. \A d \in Desktops : NewDesk(d) \in DeskType
  BY DEF NewDesk, DeskType, NoVersion
<1>5. TypeInv
  BY <1>1, <1>2, <1>3, <1>4, IdleType DEF HistInit, Init, TypeInv
<1>6. ASSUME NEW d \in Desktops
      PROVE  /\ EtagOK(server, desk[d], job[d]) /\ ClickOK(desk[d], job[d], clicked[d], now)
             /\ JobOK(job[d])
  <2>1. desk[d] = NewDesk(d) /\ job[d] = Idle /\ clicked[d] = [r \in Rows |-> FALSE]
    BY DEF HistInit, Init
  <2>2. EtagOK(server, NewDesk(d), Idle)
    BY <1>1 DEF EtagOK, NewDesk, Idle, NoVersion
  <2>3. ClickOK(NewDesk(d), Idle, clicked[d], 0)
    BY <2>1 DEF ClickOK, NewDesk, Idle
  <2> QED
    BY <1>2, <2>1, <2>2, <2>3, IdleType
<1> QED
  BY <1>5, <1>6 DEF SyncInv

-----------------------------------------------------------------------------
\* One lemma per action.

LEMMA BeginInv ==
  ASSUME SyncInv, NEW d \in Desktops, Begin(d), UNCHANGED clicked
  PROVE  SyncInv'
<1> DEFINE k == ApplyDelta(desk[d], server.tracks)
           i == [job[d] EXCEPT !.step = "fetch"]
<1>1. /\ server' = server /\ now' = now /\ clicked' = clicked
      /\ desk' = [desk EXCEPT ![d] = k] /\ job' = [job EXCEPT ![d] = i]
  BY DEF Begin
<1>2. server.tracks \in SUBSET Tracks
  BY OfDesktop DEF ServerType
<1>3. k \in DeskType /\ k.base = desk[d].base
  <2>1. desk[d] \in DeskType
    BY OfDesktop
  <2>2. k.base = desk[d].base
    BY <2>1 DEF ApplyDelta, DeskType
  <2> QED
    BY <1>2, <2>1, <2>2, DeltaType
<1>4. /\ i \in JobType /\ i.step = "fetch" /\ i.readAt = job[d].readAt
      /\ JobOK(i)
  BY OfDesktop DEF JobType, JobOK
<1>5. EtagOK(server, k, i)
  <2>1. EtagOK(server, k, job[d])
    BY <1>3, OfDesktop, EtagSame
  <2> QED
    BY <1>4, <2>1, EtagIdle
<1>6. ClickOK(k, job[d], clicked[d], now)
  BY <1>2, OfDesktop, ClickDelta
<1>7. ClickOK(k, i, clicked[d], now)
  BY <1>4, <1>6, ClickSame
<1>8. server' \in ServerType /\ Moves(server, server')
  BY <1>1, OfDesktop, Still
<1> HIDE DEF k, i
<1> QED
  BY <1>1, <1>3, <1>4, <1>5, <1>7, <1>8, WorkerStep

LEMMA FetchInv ==
  ASSUME SyncInv, NEW d \in Desktops, Fetch(d), UNCHANGED clicked
  PROVE  SyncInv'
<1> DEFINE i == [job[d] EXCEPT !.step = "read", !.version = server.version,
                               !.at = Fetched(desk[d].base)]
<1>1. /\ server' = server /\ now' = now /\ clicked' = clicked
      /\ desk' = desk /\ job' = [job EXCEPT ![d] = i]
  BY OfDesktop DEF Fetch, JobType
<1>2. i \in JobType /\ EtagOK(server, desk[d], i)
  BY OfDesktop, EtagFetched
<1>3. i.step = "read" /\ i.readAt = job[d].readAt /\ JobOK(i)
  BY OfDesktop DEF JobType, JobOK
<1>4. ClickOK(desk[d], i, clicked[d], now)
  BY <1>3, OfDesktop, ClickSame
<1>8. server' \in ServerType /\ Moves(server, server')
  BY <1>1, OfDesktop, Still
<1>9. desk' = [desk EXCEPT ![d] = desk[d]] /\ desk[d] \in DeskType
  BY <1>1, OfDesktop
<1> HIDE DEF i
<1> QED
  BY <1>1, <1>2, <1>3, <1>4, <1>8, <1>9, WorkerStep

LEMMA ReadInv ==
  ASSUME SyncInv, NEW d \in Desktops, Read(d), UNCHANGED clicked
  PROVE  SyncInv'
<1> DEFINE i == Plan(job[d], desk[d])
<1>1. /\ server' = server /\ now' = now /\ clicked' = clicked
      /\ desk' = desk /\ job' = [job EXCEPT ![d] = i] /\ job[d].step = "read"
  BY DEF Read
<1>2. i \in JobType /\ JobOK(i)
  BY OfDesktop, PlanType
<1>3. EtagOK(server, desk[d], i) /\ ClickOK(desk[d], i, clicked[d], now)
  BY <1>1, OfDesktop, EtagPlan, ClickPlan
<1>8. server' \in ServerType /\ Moves(server, server')
  BY <1>1, OfDesktop, Still
<1>9. desk' = [desk EXCEPT ![d] = desk[d]] /\ desk[d] \in DeskType
  BY <1>1, OfDesktop
<1> HIDE DEF i
<1> QED
  BY <1>1, <1>2, <1>3, <1>8, <1>9, WorkerStep

LEMMA PushStarsInv ==
  ASSUME SyncInv, NEW d \in Desktops, PushStars(d), UNCHANGED clicked
  PROVE  SyncInv'
<1>1. PICK c \in Chunks(job[d].star) :
        /\ server' = ApplyStarred(server, c, {}, now)
        /\ job' = [job EXCEPT ![d].star = @ \ c, ![d].ids = @ \ Unknown(server, c)]
  BY DEF PushStars
<1> DEFINE i == [job[d] EXCEPT !.star = @ \ c, !.ids = @ \ Unknown(server, c)]
<1>2. /\ now' = now /\ clicked' = clicked /\ desk' = desk /\ job[d].step = "push"
      /\ job' = [job EXCEPT ![d] = i] /\ c \in SUBSET job[d].star
  <2>1. job[d] \in JobType /\ job[d].step = "push" /\ UNCHANGED <<now, clicked, desk>>
    BY OfDesktop DEF PushStars
  <2>2. job' = [job EXCEPT ![d] = i]
    BY <1>1
  <2>3. c \in SUBSET job[d].star
    BY <1>1 DEF Chunks
  <2> QED
    BY <2>1, <2>2, <2>3
<1>3. /\ i \in JobType /\ JobOK(i) /\ i.step = job[d].step /\ i.readAt = job[d].readAt
  BY <1>2, OfDesktop DEF JobType, JobOK
<1>4. server' \in ServerType /\ Moves(server, server')
  BY <1>1, OfDesktop, ApplyType, ApplyMoves, Still DEF Moves
<1>5. EtagOK(server', desk[d], i)
  BY <1>1, <1>2, OfDesktop, EtagPushed
<1>6. ClickOK(desk[d], i, clicked[d], now)
  <2>1. ClickOK(desk[d], job[d], clicked[d], now)
    BY OfDesktop
  <2> QED
    BY <1>3, <2>1, ClickSame
<1>9. desk' = [desk EXCEPT ![d] = desk[d]] /\ desk[d] \in DeskType
  BY <1>2, OfDesktop
<1> HIDE DEF i
<1> QED
  BY <1>2, <1>3, <1>4, <1>5, <1>6, <1>9, WorkerStep

LEMMA PushUnstarsInv ==
  ASSUME SyncInv, NEW d \in Desktops, PushUnstars(d), UNCHANGED clicked
  PROVE  SyncInv'
<1>1. PICK c \in Chunks(job[d].unstar) :
        /\ server' = ApplyStarred(server, {}, c, now)
        /\ job' = [job EXCEPT ![d].unstar = @ \ c]
  BY DEF PushUnstars
<1> DEFINE i == [job[d] EXCEPT !.unstar = @ \ c]
<1>2. /\ now' = now /\ clicked' = clicked /\ desk' = desk /\ job[d].step = "push"
      /\ job' = [job EXCEPT ![d] = i] /\ c \in SUBSET job[d].unstar
  <2>1. job[d] \in JobType /\ job[d].step = "push" /\ UNCHANGED <<now, clicked, desk>>
    BY OfDesktop DEF PushUnstars
  <2>2. job' = [job EXCEPT ![d] = i]
    BY <1>1
  <2>3. c \in SUBSET job[d].unstar
    BY <1>1 DEF Chunks
  <2> QED
    BY <2>1, <2>2, <2>3
<1>3. /\ i \in JobType /\ JobOK(i) /\ i.step = job[d].step /\ i.readAt = job[d].readAt
  BY <1>2, OfDesktop DEF JobType, JobOK
<1>4. server' \in ServerType /\ Moves(server, server')
  BY <1>1, OfDesktop, ApplyType, ApplyMoves, Still DEF Moves
<1>5. EtagOK(server', desk[d], i)
  BY <1>1, <1>2, OfDesktop, EtagUnpushed
<1>6. ClickOK(desk[d], i, clicked[d], now)
  <2>1. ClickOK(desk[d], job[d], clicked[d], now)
    BY OfDesktop
  <2> QED
    BY <1>3, <2>1, ClickSame
<1>9. desk' = [desk EXCEPT ![d] = desk[d]] /\ desk[d] \in DeskType
  BY <1>2, OfDesktop
<1> HIDE DEF i
<1> QED
  BY <1>2, <1>3, <1>4, <1>5, <1>6, <1>9, WorkerStep

LEMMA CommitInv ==
  ASSUME SyncInv, NEW d \in Desktops, Commit(d), UNCHANGED clicked
  PROVE  SyncInv'
<1> DEFINE k == Committed(desk[d], job[d])
<1>1. /\ server' = server /\ now' = now /\ clicked' = clicked
      /\ desk' = [desk EXCEPT ![d] = k] /\ job' = [job EXCEPT ![d] = Idle]
      /\ job[d].step = "push" /\ job[d].star = {} /\ job[d].unstar = {}
  BY DEF Commit
<1>2. k \in DeskType
  BY OfDesktop, CommitType
<1>3. EtagOK(server, k, Idle)
  BY <1>1, OfDesktop, EtagCommitted
<1>4. ClickOK(k, Idle, clicked[d], now)
  BY <1>1, OfDesktop, ClickCommitted
<1>8. server' \in ServerType /\ Moves(server, server')
  BY <1>1, OfDesktop, Still
<1> HIDE DEF k
<1> QED
  BY <1>1, <1>2, <1>3, <1>4, <1>8, IdleType, WorkerStep

LEMMA AbortInv ==
  ASSUME SyncInv, NEW d \in Desktops, Abort(d), UNCHANGED clicked
  PROVE  SyncInv'
<1>1. /\ server' = server /\ clicked' = clicked /\ desk' = desk
      /\ job' = [job EXCEPT ![d] = Idle] /\ Ticks
  BY DEF Abort
<1>2. now' = now + 1 /\ now' \in 0 .. MaxTime /\ now <= now' /\ now' \in Nat
  BY <1>1, OfDesktop, Ticking
<1>3. EtagOK(server, desk[d], Idle)
  BY OfDesktop, EtagIdle DEF Idle
<1>4. ClickOK(desk[d], Idle, clicked[d], now')
  BY <1>2, OfDesktop, ClickIdle, ClickLater, IdleType
<1>5. /\ server' \in ServerType /\ Moves(server, server') /\ desk[d] \in DeskType
      /\ desk' = [desk EXCEPT ![d] = desk[d]] /\ clicked' = [clicked EXCEPT ![d] = clicked[d]]
      /\ clicked[d] \in [Rows -> BOOLEAN]
  BY <1>1, OfDesktop, Still
<1>6. EtagOK(server', desk[d], Idle)
  BY <1>1, <1>3
<1> QED
  BY <1>1, <1>2, <1>4, <1>5, <1>6, IdleType, DeskStep

LEMMA ClickInv ==
  ASSUME SyncInv, NEW d \in Desktops, NEW r \in Rows, NEW v \in BOOLEAN, UserClicks(d, r, v)
  PROVE  SyncInv'
<1> DEFINE k == SetStarredAt(desk[d], r, v, now + 1)
           c == [clicked[d] EXCEPT ![r] = v]
<1>1. /\ server' = server /\ job' = job /\ desk' = [desk EXCEPT ![d] = k] /\ Ticks
      /\ clicked' = [clicked EXCEPT ![d] = c] /\ desk[d].star[r] # v
  BY DEF UserClicks, Click
<1>2. now' = now + 1 /\ now' \in 0 .. MaxTime /\ now <= now' /\ now' \in Nat
  BY <1>1, OfDesktop, Ticking
<1>3. k \in DeskType /\ k.base = desk[d].base
  <2>1. desk[d] \in DeskType /\ now + 1 \in Nat
    BY <1>2, OfDesktop
  <2>2. k.base = desk[d].base
    BY <2>1 DEF SetStarredAt, DeskType
  <2> QED
    BY <2>1, <2>2, ClickType
<1>4. c \in [Rows -> BOOLEAN]
  BY OfDesktop
<1>5. EtagOK(server, k, job[d])
  BY <1>3, OfDesktop, EtagSame
<1>6. ClickOK(k, job[d], c, now')
  BY <1>1, <1>2, OfDesktop, ClickClicked
<1> HIDE DEF k, c
<1> QED
  BY <1>1, <1>2, <1>3, <1>4, <1>5, <1>6, OfDesktop, Still, DeskStep

LEMMA ServerInv ==
  ASSUME SyncInv, UNCHANGED clicked,
         Scan \/ \E t \in Tracks : Request({t}, {}) \/ Request({}, {t})
  PROVE  SyncInv'
<1>1. server \in ServerType /\ now \in 0 .. MaxTime
  BY DEF SyncInv, TypeInv
<1>2. Ticks /\ UNCHANGED <<desk, job>>
  BY DEF Request, Scan
<1>3. now' \in 0 .. MaxTime /\ now <= now' /\ now + 1 \in Nat
  BY <1>1, <1>2, Ticking
<1>4. server' \in ServerType /\ Moves(server, server')
  <2>1. CASE Scan
    BY <1>1, <2>1, ScanMoves DEF Scan
  <2>2. ASSUME NEW star, NEW unstar, Request(star, unstar)
        PROVE  server' \in ServerType /\ Moves(server, server')
    BY <1>1, <1>3, <2>2, ApplyType, ApplyMoves, Still DEF Request, Moves
  <2> QED
    BY <2>1, <2>2
<1> QED
  BY <1>2, <1>3, <1>4, ServerStep

LEMMA NextInv == SyncInv /\ [HistNext]_hvars => SyncInv'
<1> SUFFICES ASSUME SyncInv, [HistNext]_hvars PROVE SyncInv'
  OBVIOUS
<1>1. CASE UNCHANGED hvars
  BY <1>1 DEF hvars, SyncInv, TypeInv
<1>2. ASSUME NEW d \in Desktops, Works(d) PROVE SyncInv'
  BY <1>2, FetchInv, ReadInv, PushStarsInv, PushUnstarsInv, CommitInv DEF Works, Worker
<1>3. ASSUME NEW d \in Desktops, NEW r \in Rows, NEW s \in BOOLEAN, UserClicks(d, r, s)
      PROVE  SyncInv'
  BY <1>3, ClickInv
<1>4. ASSUME NEW d \in Desktops, Begin(d) \/ Abort(d), UNCHANGED clicked PROVE SyncInv'
  BY <1>4, BeginInv, AbortInv
<1>5. ASSUME Scan \/ \E t \in Tracks : Request({t}, {}) \/ Request({}, {t}), UNCHANGED clicked
      PROVE  SyncInv'
  BY <1>5, ServerInv
<1> QED
  BY <1>1, <1>2, <1>3, <1>4, <1>5 DEF HistNext

-----------------------------------------------------------------------------

LEMMA SyncInvariant == HistSpec => []SyncInv
  BY InitInv, NextInv, PTL DEF HistSpec

\* The store, the jobs and the clock have their types, no stamp is ahead of the
\* clock, and no worker is to set and to clear the same star.
THEOREM TypeCorrect == HistSpec => []StarTypeOK
<1>1. SyncInv => StarTypeOK
  <2> SUFFICES ASSUME SyncInv PROVE StarTypeOK
    OBVIOUS
  <2>1. ASSUME NEW d \in Desktops
        PROVE  /\ desk[d] \in [files : SUBSET Files, rows : SUBSET Tracks, star : [Rows -> BOOLEAN],
                               changed : [Rows -> 0 .. MaxTime],
                               base : [version : Nat \cup {NoVersion}, synced : 0 .. MaxTime,
                                       ids : SUBSET Tracks]]
               /\ \A r \in Rows : desk[d].changed[r] <= now
               /\ desk[d].base.synced <= now
               /\ job[d].step \in {"idle", "fetch", "read", "push"}
               /\ job[d].on \cap job[d].off = {} /\ job[d].star \cap job[d].unstar = {}
    <3>1. /\ \A r \in Rows : desk[d].changed[r] \in Nat /\ desk[d].changed[r] <= now
          /\ desk[d].base.synced \in Nat /\ desk[d].base.synced <= now
      BY OfDesktop DEF ClickOK, DeskType
    <3>2. /\ \A r \in Rows : desk[d].changed[r] \in 0 .. MaxTime
          /\ desk[d].base.synced \in 0 .. MaxTime
      BY <3>1, OfDesktop, StarSyncAssumption
    <3>3. desk[d].changed \in [Rows -> 0 .. MaxTime]
      BY <3>2, OfDesktop DEF DeskType
    <3>4. desk[d].base \in [version : Nat \cup {NoVersion}, synced : 0 .. MaxTime, ids : SUBSET Tracks]
      BY <3>2, OfDesktop DEF DeskType
    <3> QED
      BY <3>1, <3>3, <3>4, OfDesktop DEF DeskType, JobType, JobOK
  <2>2. server \in ServerType /\ desk = [d \in Desktops |-> desk[d]]
    BY DEF SyncInv, TypeInv
  <2> QED
    BY <2>1, <2>2 DEF StarTypeOK
<1> QED
  BY <1>1, SyncInvariant, PTL

\* However many desktops, tracks and batches: a desktop that a 304 will answer has
\* the server's starred set as its base (sync_starred, apply_starred and the scan's
\* transactions).
THEOREM EtagSound == HistSpec => []EtagMeansSameSet
<1>1. SyncInv => EtagMeansSameSet
  BY OfDesktop DEF EtagMeansSameSet, EtagOK
<1> QED
  BY <1>1, SyncInvariant, PTL

\* However many desktops, rows and syncs: what the user clicked after the last read
\* is never overwritten (set_starred_at, commit_starred and the library delta).
THEOREM ClicksKept == HistSpec => []ClicksSurvive
<1>1. SyncInv => ClicksSurvive
  BY OfDesktop DEF ClicksSurvive, ClickOK
<1> QED
  BY <1>1, SyncInvariant, PTL

=============================================================================
