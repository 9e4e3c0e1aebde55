------------------------------- MODULE UiProofs -------------------------------
(***************************************************************************)
(* The desktop's UI: what it shows of plays, scans and searches is right,  *)
(* and of stars unless one set is overtaken by a snapshot on its way,      *)
(* refused by the store or synced and never shown, for every library and   *)
(* any number of threads, clicks, plays and texts, and its images are      *)
(* asked for once, for any number of images and decode threads.            *)
(***************************************************************************)
EXTENDS ShellSpec, ImageCacheSpec, FiniteSetTheorems, SequenceTheorems, WellFoundedInduction, TLAPS

(***************************************************************************)
(* What the variables hold.                                                *)
(***************************************************************************)
Row == [id : Nat, track : Tracks, at : Nat, finished : BOOLEAN]
Contents ==
  [tracks : [Tracks -> Nat], starred : SUBSET Tracks, history : SUBSET Row,
   counts : [Tracks -> Nat]]
Pcs == {"off", "load", "loaded", "queued", "work", "changed", "starred", "build", "built", "finish"}
ViewThread ==
  [pc : Pcs, job : ScanJobs \cup {"none", "edit", "filter", "sync"}, track : Tracks \cup {0},
   only : BOOLEAN, built : Contents]
Update == [type : {"snapshot", "finished"}, view : Contents, scan : Nat]
Play == [track : Tracks, at : Nat]
PlayRecord == [track : Tracks, at : Nat, completed : BOOLEAN]

\* Threads are numbered as they start, and a scan shown is one of them.
TypeOK ==
  /\ store \in Contents /\ view \in Contents
  /\ serverOnly \in BOOLEAN
  /\ used \in [workers : 0..MaxWorkers, clicks : Nat, plays : Nat]
  /\ active \in 0..used.workers
  /\ worker \in [Workers -> ViewThread]
  /\ updates \in Seq(Update)
  /\ playing \in Play \cup {None}
  /\ records \in Seq(PlayRecord)
  /\ dropped \in [Tracks -> Nat]

(***************************************************************************)
(* What the threads do.                                                    *)
(***************************************************************************)

\* Only a scan is shown as running, and a scan ends with a message that says so.
ScanThreadsOK ==
  /\ active # 0 => worker[active].job \in ScanJobs
  /\ "start" \notin Faults => ScanningEnds

(***************************************************************************)
(* Plays: the rows of the store and of its copies, and the counts.         *)
(***************************************************************************)

\* A play is known by the time it began (at): it has one row, and it began before now.
Distinct(h) == \A p, q \in h : p.at = q.at => p = q
Past(h, plays) == \A p \in h : p.at \in 1..plays

\* A play that runs, or waits for the recorder, is not finished in the store.
PlaysOK ==
  /\ playing # None => playing.at \in 1..used.plays
  /\ \A i \in DOMAIN records : records[i].at \in 1..used.plays
  /\ \A i \in DOMAIN records : records[i].at # playing.at
  /\ \A i, j \in DOMAIN records : records[i].at = records[j].at => i = j
  /\ \A p \in store.history : p.at = playing.at => p.track = playing.track /\ ~p.finished
  /\ \A p \in store.history, i \in DOMAIN records :
       p.at = records[i].at => p.track = records[i].track /\ ~p.finished

RowsOK ==
  /\ Distinct(store.history) /\ Past(store.history, used.plays)
  /\ Distinct(view.history) /\ Past(view.history, used.plays)

\* What a thread read from the store before it came to hold s: it counts no play
\* that s does not, of the tracks that s still has.
CopyOf(v, s, plays) ==
  /\ Distinct(v.history) /\ Past(v.history, plays)
  /\ \A t \in Tracks : s.tracks[t] # 0 => v.counts[t] <= s.counts[t]

CopiesOK ==
  /\ \A n \in Workers : CopyOf(worker[n].built, store, used.plays)
  /\ \A i \in DOMAIN updates : CopyOf(updates[i].view, store, used.plays)

\* The library part of the invariant.
LibOK == PlaysOK /\ RowsOK /\ CopiesOK /\ CountedOnce

(***************************************************************************)
(* The search.                                                             *)
(***************************************************************************)
Texts == Queries \cup {0}
QueryRequest ==
  [type : {"reindex", "query"}, tracks : [TrackIds -> Nat], generation : Nat, query : Texts]
Answer == [generation : Nat, ids : SUBSET TrackIds]

Signatures == {Signature(tracks) : tracks \in [TrackIds -> Nat]}
Engine ==
  [generation : Nat, signature : Signatures, query : Texts,
   matches : [on : BOOLEAN, ids : SUBSET TrackIds], pending : BOOLEAN, sent : [TrackIds -> Nat]]

SearchTypeOK ==
  /\ requests \in Seq(QueryRequest) /\ answers \in Seq(Answer)
  /\ engine \in Engine /\ index \in [TrackIds -> Nat] /\ typed \in Texts

\* A worker that begins with the tracks had holds these at the request at i.
Reads(q, had, i, tracks) ==
  \/ had = tracks /\ \A k \in 1..(i - 1) : q[k].type # "reindex"
  \/ \E j \in 1..(i - 1) : /\ q[j].type = "reindex" /\ q[j].tracks = tracks
                           /\ \A k \in (j + 1)..(i - 1) : q[k].type # "reindex"

\* No query is of a later generation, and the tracks sent last come last.
ChannelInOrder(q, had, e) ==
  /\ \A i \in 1..Len(q) : q[i].type = "query" => q[i].generation <= e.generation
  /\ Reads(q, had, Len(q) + 1, e.sent)

\* The query that counts has the text, and is answered from the tracks, of the engine.
ChannelOK(q, had, e) ==
  /\ ChannelInOrder(q, had, e)
  /\ \A i \in 1..Len(q) :
       q[i].type = "query" /\ Current(e, q[i]) /\ e.query # 0 =>
         q[i].query = e.query /\ Reads(q, had, i, e.sent)

AnswersOK(as, e) ==
  \A i \in 1..Len(as) :
    /\ as[i].generation <= e.generation
    /\ Current(e, as[i]) /\ e.query # 0 => as[i].ids = Found(e.sent, e.query)

SearchOK == ChannelOK(requests, index, engine) /\ AnswersOK(answers, engine) /\ AnswerIsOfQuery

SInv == SearchTypeOK /\ SearchOK /\ SearchIsAnswered

\* The invariant of the desktop.
Inv == TypeOK /\ ScanThreadsOK /\ LibOK /\ SInv

(***************************************************************************)
(* Types.                                                                  *)
(***************************************************************************)

\* A thread begins with no copy, and reads one of the right kind.
LEMMA NoViewIs == NoView \in Contents
BY DEF NoView, Contents

LEMMA CopyIs == ASSUME TypeOK, NEW only \in BOOLEAN PROVE FromStore(only) \in Contents
BY DEF TypeOK, FromStore, Contents, Stored

\* A set of numbers up to n has a largest one.
LEMMA MaxIsIn ==
  ASSUME NEW n \in Nat, NEW S, S \subseteq 0..n, S # {}
  PROVE  Max(S) \in S /\ \A x \in S : x <= Max(S)
<1> DEFINE T == {n - x : x \in S}
<1>1. T \subseteq Nat /\ T # {}
  <2>1. \A x \in S : n - x \in Nat
    OBVIOUS
  <2>2. PICK x \in S : TRUE
    OBVIOUS
  <2>3. n - x \in T
    BY <2>2
  <2> QED BY <2>1, <2>3
<1>2. PICK m \in T : \A y \in T : ~(<<y, m>> \in OpToRel(<, Nat))
  BY <1>1, NatLessThanWellFounded, WFMin
<1>3. PICK x \in S : m = n - x
  BY <1>2
<1>4. ASSUME NEW y \in S PROVE x >= y
  <2>1. n - y \in T /\ n - y \in Nat /\ m \in Nat /\ y \in Nat /\ x \in Nat
    BY <1>1
  <2>2. ~(n - y < m)
    BY <1>2, <2>1 DEF OpToRel
  <2> QED BY <1>3, <2>1, <2>2
<1>5. \E z \in S : \A y \in S : z >= y
  BY <1>4
<1>6. Max(S) \in S /\ \A y \in S : Max(S) >= y
  BY <1>5 DEF Max
<1> QED BY <1>6

LEMMA InitTypeOK == Init => TypeOK
<1> SUFFICES ASSUME Init PROVE TypeOK
  OBVIOUS
<1>1. (CHOOSE v \in Tags : TRUE) \in Nat
  BY ViewAssumption
<1>2. store \in Contents
  BY <1>1, NoViewIs DEF Init, ViewInit, NoView, Contents
<1>3. <<>> \in Seq(Update) /\ <<>> \in Seq(PlayRecord)
  BY EmptySeq
<1>4. worker \in [Workers -> ViewThread]
  BY NoViewIs DEF Init, ViewInit, ViewThread, Unspawned, Pcs
<1>5. used \in [workers : 0..MaxWorkers, clicks : Nat, plays : Nat] /\ active \in 0..used.workers
  BY ViewAssumption DEF Init, ViewInit
<1>6. dropped \in [Tracks -> Nat]
  BY DEF Init, ViewInit
<1> QED BY <1>2, <1>3, <1>4, <1>5, <1>6, NoViewIs DEF Init, ViewInit, TypeOK

\* What a step of a thread does to it.
LEMMA SetPc ==
  ASSUME TypeOK, NEW n \in Workers, NEW pc \in Pcs, NEW built \in Contents
  PROVE  /\ [worker EXCEPT ![n].pc = pc] \in [Workers -> ViewThread]
         /\ [worker EXCEPT ![n].pc = pc, ![n].built = built] \in [Workers -> ViewThread]
<1>1. /\ [worker[n] EXCEPT !.pc = pc] \in ViewThread
      /\ [worker[n] EXCEPT !.pc = pc, !.built = built] \in ViewThread
  <2>1. worker[n] \in ViewThread
    BY DEF TypeOK
  <2> QED BY <2>1 DEF ViewThread
<1>2. \A t \in ViewThread : [worker EXCEPT ![n] = t] \in [Workers -> ViewThread]
  BY DEF TypeOK
<1>3. /\ [worker EXCEPT ![n].pc = pc] = [worker EXCEPT ![n] = [worker[n] EXCEPT !.pc = pc]]
      /\ [worker EXCEPT ![n].pc = pc, ![n].built = built]
           = [worker EXCEPT ![n] = [worker[n] EXCEPT !.pc = pc, !.built = built]]
  BY DEF TypeOK
<1> QED BY <1>1, <1>2, <1>3

\* A click that starts a thread.
LEMMA SpawnTypes ==
  ASSUME TypeOK, NEW job \in ScanJobs \cup {"edit", "filter", "sync"}, NEW t \in Tracks \cup {0},
         NEW only \in BOOLEAN, Spawn(job, t, only), serverOnly' \in BOOLEAN,
         active' \in 0..(used.workers + 1)
  PROVE  TypeOK'
<1>1. [Unspawned EXCEPT !.pc = FirstPc(job), !.job = job, !.track = t, !.only = only] \in ViewThread
  <2>1. FirstPc(job) \in Pcs
    BY DEF FirstPc, Pcs
  <2> QED BY <2>1, NoViewIs DEF Unspawned, ViewThread, Pcs
<1>2. worker' \in [Workers -> ViewThread]
  BY <1>1 DEF Spawn, TypeOK
<1>3. used.workers + 1 \in 0..MaxWorkers /\ used' \in [workers : 0..MaxWorkers, clicks : Nat, plays : Nat]
      /\ used'.workers = used.workers + 1
  <2>1. /\ used \in [workers : 0..MaxWorkers, clicks : Nat, plays : Nat] /\ used.workers < MaxWorkers
        /\ used' = [used EXCEPT !.workers = @ + 1]
    BY DEF Spawn, TypeOK
  <2> QED BY <2>1, ViewAssumption
<1> QED BY <1>2, <1>3 DEF Spawn, TypeOK

\* A thread that sends and goes on.
LEMMA SendTypes ==
  ASSUME TypeOK, NEW n \in Workers, NEW messages \in Seq(Update), NEW next \in Pcs,
         Sends(n, messages, next)
  PROVE  TypeOK'
<1>1. updates' \in Seq(Update)
  BY ConcatProperties DEF Sends, TypeOK
<1> QED BY <1>1, SetPc, NoViewIs DEF Sends, TypeOK, Keeps

\* The messages of a thread, and the sequences it sends them in.
LEMMA MessagesAre ==
  ASSUME TypeOK, NEW n \in Workers
  PROVE  /\ SnapshotOf(n) \in Update /\ Finished(n) \in Update
         /\ <<SnapshotOf(n)>> \in Seq(Update) /\ Len(<<SnapshotOf(n)>>) = 1
         /\ <<Finished(n)>> \in Seq(Update) /\ Len(<<Finished(n)>>) = 1
         /\ <<SnapshotOf(n), Finished(n)>> \in Seq(Update) /\ Len(<<SnapshotOf(n), Finished(n)>>) = 2
<1>1. n \in Nat /\ worker[n] \in ViewThread
  BY ViewAssumption DEF Workers, TypeOK
<1>2. SnapshotOf(n) \in Update /\ Finished(n) \in Update
  BY <1>1, NoViewIs DEF SnapshotOf, Finished, Update, ViewThread
<1> QED BY <1>2

LEMMA WorkerTypes == ASSUME TypeOK, NEW n \in Workers, Worker(n) PROVE TypeOK'
<1>1. worker[n] \in ViewThread
  BY DEF TypeOK
<1>2. CASE LoadSnapshot(n)
  <2>1. FromStore(worker[n].only) \in Contents /\ "loaded" \in Pcs
    BY <1>1, CopyIs DEF ViewThread, Pcs
  <2> QED BY <1>2, <2>1, SetPc DEF LoadSnapshot, TypeOK, Keeps
<1>3. CASE LoadFails(n) \/ ScanFails(n) \/ EditFails(n) \/ TakeSync(n) \/ SyncEnds(n) \/ SyncFails(n)
  <2>1. /\ \E pc \in Pcs : Goes(n, pc)
        /\ UNCHANGED <<store, updates>> /\ Keeps
    BY <1>3 DEF LoadFails, ScanFails, EditFails, TakeSync, SyncEnds, SyncFails, Pcs
  <2>2. PICK pc \in Pcs : Goes(n, pc)
    BY <2>1
  <2>3. worker' \in [Workers -> ViewThread]
    BY <2>2, SetPc, NoViewIs DEF Goes
  <2> QED BY <2>1, <2>3 DEF TypeOK, Keeps
<1>4. CASE SendLoaded(n)
  BY <1>4, SendTypes, MessagesAre DEF SendLoaded, Pcs
<1>5. CASE \E t \in Tracks, v \in Tags \cup {0} : ScanChanges(n, t, v)
  <2>1. PICK t \in Tracks, v \in Tags \cup {0} : ScanChanges(n, t, v)
    BY <1>5
  <2>2. store' \in Contents
    <3>1. v \in Nat
      BY ViewAssumption
    <3>2. Without(store, t) \in Contents
      BY DEF Without, TypeOK, Contents
    <3>3. [store EXCEPT !.tracks[t] = v] \in Contents
      BY <3>1 DEF TypeOK, Contents
    <3> QED BY <2>1, <3>2, <3>3 DEF ScanChanges
  <2> QED BY <2>1, <2>2, SetPc DEF ScanChanges, Goes, TypeOK, Keeps, Pcs
<1>6. CASE \E cancelled \in BOOLEAN : ScanEnds(n, cancelled)
  <2>1. /\ \E pc \in Pcs : Goes(n, pc)
        /\ UNCHANGED <<store, updates>> /\ Keeps
    BY <1>6 DEF ScanEnds, Pcs
  <2>2. PICK pc \in Pcs : Goes(n, pc)
    BY <2>1
  <2>3. worker' \in [Workers -> ViewThread]
    BY <2>2, SetPc, NoViewIs DEF Goes
  <2> QED BY <2>1, <2>3 DEF TypeOK, Keeps
<1>7. CASE \E v \in Tags : EditTags(n, v)
  <2>1. PICK v \in Tags : EditTags(n, v)
    BY <1>7
  <2>2. store' \in Contents
    <3>1. v \in Nat
      BY ViewAssumption
    <3>2. worker[n].track \in Tracks => [store EXCEPT !.tracks[worker[n].track] = v] \in Contents
      BY <3>1 DEF TypeOK, Contents
    <3>3. Stored(worker[n].track) => [store EXCEPT !.tracks[worker[n].track] = v] \in Contents
      BY <3>1, <1>1 DEF TypeOK, Contents, Stored, ViewThread
    <3> QED BY <2>1, <3>3 DEF EditTags, TypeOK
  <2> QED BY <2>1, <2>2, SetPc DEF EditTags, Goes, TypeOK, Keeps, Pcs
<1>8. CASE Build(n)
  <2>1. FromStore(worker[n].only) \in Contents /\ "built" \in Pcs
    BY <1>1, CopyIs DEF ViewThread, Pcs
  <2> QED BY <1>8, <2>1, SetPc DEF Build, TypeOK, Keeps
<1>9. CASE SendSnapshot(n)
  BY <1>9, SendTypes, MessagesAre DEF SendSnapshot, Pcs
<1>10. CASE FinishScan(n)
  BY <1>10, SendTypes, MessagesAre DEF FinishScan, Pcs
<1>11. CASE \E t \in Tracks : SyncStars(n, t)
  <2>1. PICK t \in Tracks : SyncStars(n, t)
    BY <1>11
  <2>2. store' \in Contents
    BY <2>1 DEF SyncStars, TypeOK, Contents
  <2> QED BY <2>1, <2>2, SetPc DEF SyncStars, Goes, TypeOK, Keeps, Pcs
<1> QED BY <1>2, <1>3, <1>4, <1>5, <1>6, <1>7, <1>8, <1>9, <1>10, <1>11 DEF Worker

\* What the recorder makes of a history and of the counts.
LEMMA FinalizedIs ==
  ASSUME NEW h \in SUBSET Row, NEW r
  PROVE  Finalized(h, r) \in SUBSET Row
<1> SUFFICES ASSUME NEW p \in h PROVE (IF IsOf(p, r) THEN [p EXCEPT !.finished = TRUE] ELSE p) \in Row
  BY DEF Finalized
<1> QED BY DEF Row

LEMMA CountedIs ==
  ASSUME NEW s \in Contents, NEW r \in PlayRecord
  PROVE  Counted(s, r) \in Contents
BY DEF Counted, Contents, PlayRecord

LEMMA TakeUpdatesTypes == ASSUME TypeOK, TakeUpdates PROVE TypeOK'
<1>1. Snapshots # {} => Max(Snapshots) \in Snapshots
  <2>1. Len(updates) \in Nat /\ Snapshots \subseteq 0..Len(updates)
    BY LenProperties DEF Snapshots, TypeOK
  <2> QED BY <2>1, MaxIsIn
<1>2. Snapshots # {} => updates[Max(Snapshots)].view \in Contents
  <2>1. \A i \in DOMAIN updates : updates[i] \in Update
    BY LenProperties, ElementOfSeq DEF TypeOK
  <2> QED BY <1>1, <2>1 DEF Snapshots, Update
<1>3. updates' \in Seq(Update)
  BY EmptySeq DEF TakeUpdates
<1> QED BY <1>2, <1>3 DEF TakeUpdates, TypeOK

LEMMA UiTypes ==
  ASSUME TypeOK,
         \/ FirstFolders \/ ChangeFolders \/ Rescan \/ SetServerOnly \/ SyncRemote
         \/ ClearHistory \/ RecordPlay
         \/ \E t \in Tracks : RequestTagEdits(t) \/ SetStarred(t) \/ BeginPlay(t)
         \/ \E p \in view.history : RemoveHistoryEntry(p.id)
         \/ \E completed \in BOOLEAN : FinishPlay(completed)
  PROVE  TypeOK'
<1>1. CASE FirstFolders \/ ChangeFolders \/ Rescan
  <2>1. PICK job \in ScanJobs : BeginScan(job)
    BY <1>1 DEF FirstFolders, ChangeFolders, Rescan, ScanJobs
  <2>2. serverOnly \in BOOLEAN /\ used.workers \in Nat
    BY DEF TypeOK
  <2>3. /\ Spawn(job, 0, serverOnly)
        /\ active' \in 0..(used.workers + 1) /\ serverOnly' \in BOOLEAN
    BY <2>1, <2>2 DEF BeginScan
  <2> QED BY <2>1, <2>2, <2>3, SpawnTypes
<1>2. CASE SetServerOnly
  <2>1. CASE Loaded
    <3>1. used.workers \in Nat /\ serverOnly' \in BOOLEAN /\ active' \in 0..(used.workers + 1)
          /\ (~serverOnly) \in BOOLEAN
      BY <1>2 DEF SetServerOnly, TypeOK
    <3>2. Spawn("filter", 0, ~serverOnly)
      BY <1>2, <2>1 DEF SetServerOnly
    <3> QED BY <3>1, <3>2, SpawnTypes
  <2>2. CASE ~Loaded
    BY <1>2, <2>2 DEF SetServerOnly, TypeOK
  <2> QED BY <2>1, <2>2
<1>3. CASE ClearHistory \/ \E p \in view.history : RemoveHistoryEntry(p.id)
  <2>1. /\ used' = [used EXCEPT !.clicks = @ + 1]
        /\ UNCHANGED <<serverOnly, active, worker, updates, playing, records, dropped>>
    BY <1>3 DEF ClearHistory, RemoveHistoryEntry, Click
  <2>2. store' \in Contents /\ view' \in Contents
    <3>1. \A s \in Contents : /\ [s EXCEPT !.history = {}] \in Contents
                              /\ \A id : WithoutEntry(s, id) \in Contents
      BY DEF WithoutEntry, Contents
    <3>2. store \in Contents /\ view \in Contents
      BY DEF TypeOK
    <3>3. CASE ClearHistory
      BY <3>1, <3>2, <3>3 DEF ClearHistory, Refused
    <3>4. CASE \E p \in view.history : RemoveHistoryEntry(p.id)
      BY <3>1, <3>2, <3>4 DEF RemoveHistoryEntry, Refused
    <3> QED BY <1>3, <3>3, <3>4
  <2>3. used' \in [workers : 0..MaxWorkers, clicks : Nat, plays : Nat] /\ used'.workers = used.workers
    <3>1. used \in [workers : 0..MaxWorkers, clicks : Nat, plays : Nat]
      BY DEF TypeOK
    <3> QED BY <2>1, <3>1
  <2> QED BY <2>1, <2>2, <2>3 DEF TypeOK
<1>4. CASE RecordPlay
  <2> DEFINE r == Head(records)
  <2>1. r \in PlayRecord /\ records' \in Seq(PlayRecord)
    BY <1>4, HeadTailProperties DEF RecordPlay, TypeOK
  <2> HIDE DEF r
  <2>2. [id |-> 2 * r.at + 1, track |-> r.track, at |-> r.at, finished |-> TRUE] \in Row
    BY <2>1 DEF Row, PlayRecord
  <2>3. Recorded(store, r) \in Contents
    <3>1. [store EXCEPT !.history = Finalized(@, r)] \in Contents
      BY FinalizedIs DEF TypeOK, Contents
    <3>2. Listed(store, [id |-> 2 * r.at + 1, track |-> r.track, at |-> r.at, finished |-> TRUE]) \in Contents
      BY <2>2 DEF Listed, TypeOK, Contents
    <3> QED BY <3>1, <3>2 DEF Recorded
  <2>4. Stats(store, r) \in Contents
    BY <2>1, <2>3, CountedIs DEF Stats
  <2>5. dropped' \in [Tracks -> Nat]
    BY <1>4, <2>1 DEF RecordPlay, DroppedToo, TypeOK, PlayRecord, r
  <2>6. store' \in {store, Stats(store, r)}
        /\ UNCHANGED <<view, serverOnly, active, worker, updates, playing, used>>
    BY <1>4 DEF RecordPlay, Refused, r
  <2> QED BY <2>1, <2>4, <2>5, <2>6 DEF TypeOK
<1>5. ASSUME NEW t \in Tracks, RequestTagEdits(t) PROVE TypeOK'
  <2>1. serverOnly \in BOOLEAN /\ used.workers \in Nat /\ active' \in 0..(used.workers + 1)
        /\ serverOnly' \in BOOLEAN /\ Spawn("edit", t, serverOnly)
    BY <1>5 DEF RequestTagEdits, TypeOK
  <2> QED BY <2>1, SpawnTypes
<1>6. ASSUME NEW t \in Tracks, SetStarred(t) PROVE TypeOK'
  <2>1. /\ used' = [used EXCEPT !.clicks = @ + 1]
        /\ UNCHANGED <<serverOnly, active, worker, updates, playing, records, dropped>>
    BY <1>6 DEF SetStarred, Click
  <2>2. store' \in Contents /\ view' \in Contents
    <3>1. \A s \in Contents, on \in BOOLEAN : Starred(s, t, on) \in Contents
      BY DEF Starred, Contents
    <3>2. store \in Contents /\ view \in Contents /\ (t \notin view.starred) \in BOOLEAN
      BY DEF TypeOK
    <3> QED BY <1>6, <3>1, <3>2 DEF SetStarred, Refused
  <2>3. used' \in [workers : 0..MaxWorkers, clicks : Nat, plays : Nat] /\ used'.workers = used.workers
    <3>1. used \in [workers : 0..MaxWorkers, clicks : Nat, plays : Nat]
      BY DEF TypeOK
    <3> QED BY <2>1, <3>1
  <2> QED BY <2>1, <2>2, <2>3 DEF TypeOK
<1>7. ASSUME NEW t \in Tracks, BeginPlay(t) PROVE TypeOK'
  <2> DEFINE n == used.plays + 1
             row == [id |-> 2 * n, track |-> t, at |-> n, finished |-> FALSE]
  <2>1. row \in Row /\ n \in Nat
    BY DEF Row, TypeOK
  <2>2. Listed(store, row) \in Contents /\ Listed(view, row) \in Contents
    <3> HIDE DEF row
    <3> QED BY <2>1 DEF Listed, TypeOK, Contents
  <2>3. used' \in [workers : 0..MaxWorkers, clicks : Nat, plays : Nat] /\ used'.workers = used.workers
    BY <1>7, <2>1 DEF BeginPlay, TypeOK
  <2>4. playing' \in Play
    BY <1>7, <2>1 DEF BeginPlay, Play
  <2>5. store' \in {store, Listed(store, row)} /\ view' \in {view, Listed(view, row)}
        /\ UNCHANGED <<serverOnly, active, worker, updates, records, dropped>>
    BY <1>7 DEF BeginPlay, Refused
  <2> HIDE DEF row
  <2> QED BY <2>2, <2>3, <2>4, <2>5 DEF TypeOK
<1>8. ASSUME NEW completed \in BOOLEAN, FinishPlay(completed) PROVE TypeOK'
  <2> DEFINE r == [track |-> playing.track, at |-> playing.at, completed |-> completed]
  <2>1. r \in PlayRecord
    BY <1>8 DEF FinishPlay, TypeOK, Play, PlayRecord
  <2>2. records' = Append(records, r) /\ playing' = None
        /\ UNCHANGED <<store, serverOnly, active, worker, updates, dropped, used>>
    BY <1>8 DEF FinishPlay
  <2>5. view' \in {view, Counted([view EXCEPT !.history = Finalized(@, r)], r)}
    BY <1>8 DEF FinishPlay
  <2> HIDE DEF r
  <2>3. records' \in Seq(PlayRecord)
    BY <2>1, <2>2, AppendProperties DEF TypeOK
  <2>4. [view EXCEPT !.history = Finalized(@, r)] \in Contents
    BY FinalizedIs DEF TypeOK, Contents
  <2>6. view' \in Contents
    BY <2>1, <2>4, <2>5, CountedIs DEF TypeOK
  <2> QED BY <2>2, <2>3, <2>6 DEF TypeOK
<1>9. CASE SyncRemote
  <2>1. CASE QueuedSyncs = {}
    <3>1. used.workers \in Nat /\ serverOnly \in BOOLEAN /\ serverOnly' \in BOOLEAN
          /\ active' \in 0..(used.workers + 1) /\ Spawn("sync", 0, serverOnly)
      BY <1>9, <2>1 DEF SyncRemote, TypeOK
    <3> QED BY <3>1, SpawnTypes
  <2>2. CASE QueuedSyncs # {}
    <3>1. worker' \in [Workers -> ViewThread]
      <4>1. \A m \in Workers : worker[m] \in ViewThread /\ [worker[m] EXCEPT !.only = serverOnly] \in ViewThread
        BY DEF TypeOK, ViewThread
      <4> QED BY <1>9, <2>2, <4>1 DEF SyncRemote
    <3> QED BY <1>9, <2>2, <3>1 DEF SyncRemote, TypeOK
  <2> QED BY <2>1, <2>2
<1> QED BY <1>1, <1>2, <1>3, <1>4, <1>5, <1>6, <1>7, <1>8, <1>9

(***************************************************************************)
(* Threads.                                                                *)
(***************************************************************************)
LEMMA InitScanThreadsOK == Init => ScanThreadsOK
BY DEF Init, ViewInit, ScanThreadsOK, ScanningEnds

\* A thread that is not the scan shown, or does not end, or says that it ends.
LEMMA ThreadStep ==
  ASSUME TypeOK, ScanThreadsOK, NEW n \in Workers, UNCHANGED <<active, used>>,
         NEW t \in ViewThread, worker' = [worker EXCEPT ![n] = t], t.job = worker[n].job,
         NEW ms \in Seq(Update), updates' = updates \o ms,
         "start" \notin Faults /\ worker[n].pc # "off" /\ t.pc = "off" /\ t.job \in ScanJobs =>
           \E i \in 1..Len(ms) : ms[i].type = "finished" /\ ms[i].scan = n
  PROVE  ScanThreadsOK'
<1>1. \A m \in Workers : worker'[m] = IF m = n THEN t ELSE worker[m]
  BY DEF TypeOK
<1>2. active' # 0 => active' \in Workers
  BY ViewAssumption DEF TypeOK, Workers
<1>3. active' # 0 => worker'[active'].job \in ScanJobs
  BY <1>1, <1>2 DEF ScanThreadsOK
<1>4. /\ Len(updates) \in Nat /\ Len(ms) \in Nat
      /\ DOMAIN updates = 1..Len(updates) /\ DOMAIN updates' = 1..(Len(updates) + Len(ms))
      /\ \A i \in 1..Len(updates) : updates'[i] = updates[i]
      /\ \A i \in 1..Len(ms) : updates'[Len(updates) + i] = ms[i]
  <2>1. updates \o ms \in Seq(Update) /\ Len(updates \o ms) = Len(updates) + Len(ms)
        /\ \A i \in 1..(Len(updates) + Len(ms)) :
             (updates \o ms)[i] = IF i <= Len(updates) THEN updates[i] ELSE ms[i - Len(updates)]
    BY ConcatProperties DEF TypeOK
  <2>2. Len(updates) \in Nat /\ Len(ms) \in Nat /\ DOMAIN updates = 1..Len(updates)
        /\ DOMAIN updates' = 1..Len(updates')
    BY <2>1, LenProperties DEF TypeOK
  <2> QED BY <2>1, <2>2
<1>5. ASSUME "start" \notin Faults, active' # 0, worker'[active'].pc = "off"
      PROVE  \E i \in DOMAIN updates' : updates'[i].type = "finished" /\ updates'[i].scan = active'
  <2>1. CASE active = n /\ worker[n].pc # "off"
    <3>1. PICK i \in 1..Len(ms) : ms[i].type = "finished" /\ ms[i].scan = n
      BY <1>1, <1>2, <1>5, <2>1 DEF ScanThreadsOK
    <3>2. Len(updates) + i \in DOMAIN updates'
      BY <1>4
    <3> QED BY <1>4, <2>1, <3>1, <3>2
  <2>2. CASE ~(active = n /\ worker[n].pc # "off")
    <3>1. worker[active].pc = "off"
      BY <1>1, <1>2, <1>5, <2>2
    <3>2. PICK i \in DOMAIN updates : updates[i].type = "finished" /\ updates[i].scan = active
      BY <1>5, <3>1 DEF ScanThreadsOK, ScanningEnds
    <3>3. i \in DOMAIN updates'
      BY <1>4
    <3> QED BY <1>4, <3>2, <3>3
  <2> QED BY <2>1, <2>2
<1> QED BY <1>3, <1>5 DEF ScanThreadsOK, ScanningEnds

LEMMA WorkerThreads == ASSUME TypeOK, ScanThreadsOK, NEW n \in Workers, Worker(n) PROVE ScanThreadsOK'
<1> DEFINE t == worker[n]
<1>1. t \in ViewThread /\ UNCHANGED <<active, used>> /\ TypeOK'
  BY WorkerTypes DEF TypeOK, Worker, LoadSnapshot, LoadFails, SendLoaded, ScanChanges, ScanEnds,
     ScanFails, EditTags, EditFails, TakeSync, SyncStars, SyncEnds, SyncFails, Build,
     SendSnapshot, FinishScan, Sends, Keeps
<1>2. worker'[n] \in ViewThread
  BY <1>1 DEF TypeOK
<1>3. worker' = [worker EXCEPT ![n] = worker'[n]] /\ worker'[n].job = t.job
  BY <1>1, <1>2 DEF TypeOK, ViewThread, Worker, LoadSnapshot, LoadFails, SendLoaded, ScanChanges,
     ScanEnds,
     ScanFails, EditTags, EditFails, TakeSync, SyncStars, SyncEnds, SyncFails, Build,
     SendSnapshot, FinishScan, Sends, Goes
<1>4. CASE ~(SendLoaded(n) \/ SendSnapshot(n) \/ FinishScan(n))
  <2>1. UNCHANGED updates
    BY <1>4 DEF Worker, LoadSnapshot, LoadFails, ScanChanges, ScanEnds,
       ScanFails, EditTags, EditFails, TakeSync, SyncStars, SyncEnds, SyncFails, Build
  <2>2. <<>> \in Seq(Update) /\ updates' = updates \o <<>> /\ Len(<<>>) = 0
    BY <2>1, ConcatEmptySeq DEF TypeOK
  <2>3. CASE LoadFails(n)
    <3>1. ~("start" \notin Faults /\ t.job \in ScanJobs)
      BY <2>3, ViewAssumption DEF LoadFails, ScanJobs
    <3> QED BY <1>1, <1>2, <1>3, <2>2, <3>1, ThreadStep
  <2>4. CASE EditFails(n)
    BY <1>1, <1>2, <1>3, <2>2, <2>4, ThreadStep DEF EditFails, ScanJobs
  <2>5. CASE SyncFails(n)
    BY <1>1, <1>2, <1>3, <2>2, <2>5, ThreadStep DEF SyncFails, ScanJobs
  <2>6. CASE ~(LoadFails(n) \/ EditFails(n) \/ SyncFails(n))
    <3>1. worker'[n].pc # "off"
      BY <1>1, <1>4, <2>6 DEF TypeOK, Worker, LoadSnapshot, ScanChanges, ScanEnds,
         ScanFails, EditTags, TakeSync, SyncStars, SyncEnds, Build, Goes, ViewThread
    <3> QED BY <1>1, <1>2, <1>3, <2>2, <3>1, ThreadStep
  <2> QED BY <2>3, <2>4, <2>5, <2>6
<1>5. CASE SendLoaded(n)
  <2>1. updates' = updates \o <<SnapshotOf(n)>> /\ ~(worker'[n].pc = "off" /\ t.job \in ScanJobs)
    BY <1>1, <1>5 DEF TypeOK, SendLoaded, Sends, ScanJobs, ViewThread
  <2>2. <<SnapshotOf(n)>> \in Seq(Update)
    BY MessagesAre
  <2> QED BY <1>1, <1>2, <1>3, <2>1, <2>2, ThreadStep
<1>6. CASE SendSnapshot(n)
  <2>1. CASE t.job \notin ScanJobs
    <3>1. updates' = updates \o <<SnapshotOf(n)>>
      BY <1>6, <2>1 DEF SendSnapshot, Sends
    <3>2. <<SnapshotOf(n)>> \in Seq(Update)
      BY MessagesAre
    <3> QED BY <1>1, <1>2, <1>3, <2>1, <3>1, <3>2, ThreadStep
  <2>2. CASE t.job \in ScanJobs
    <3> DEFINE ms == <<SnapshotOf(n), Finished(n)>>
    <3>1. updates' = updates \o ms
      BY <1>6, <2>2 DEF SendSnapshot, Sends
    <3>2. ms \in Seq(Update) /\ 2 \in 1..Len(ms) /\ ms[2].type = "finished" /\ ms[2].scan = n
      BY MessagesAre DEF Finished
    <3> HIDE DEF ms
    <3> QED BY <1>1, <1>2, <1>3, <3>1, <3>2, ThreadStep
  <2> QED BY <2>1, <2>2
<1>7. CASE FinishScan(n)
  <2> DEFINE ms == <<Finished(n)>>
  <2>1. updates' = updates \o ms
    BY <1>7 DEF FinishScan, Sends
  <2>2. ms \in Seq(Update) /\ 1 \in 1..Len(ms) /\ ms[1].type = "finished" /\ ms[1].scan = n
    BY MessagesAre DEF Finished
  <2> HIDE DEF ms
  <2> QED BY <1>1, <1>2, <1>3, <2>1, <2>2, ThreadStep
<1> QED BY <1>4, <1>5, <1>6, <1>7

\* A thread started is shown as the scan, or none is shown that was not.
LEMMA SpawnThreads ==
  ASSUME TypeOK, ScanThreadsOK, NEW job, NEW t, NEW only, Spawn(job, t, only),
         \/ UNCHANGED active
         \/ active' = used.workers + 1 /\ job \in ScanJobs
  PROVE  ScanThreadsOK'
<1>1. /\ used.workers + 1 \in Workers /\ used.workers \in Nat /\ active \in 0..used.workers
      /\ \A m \in Workers : m # used.workers + 1 => worker'[m] = worker[m]
      /\ worker'[used.workers + 1].pc # "off" /\ worker'[used.workers + 1].job = job
      /\ UNCHANGED updates
  BY ViewAssumption DEF Spawn, FirstPc, TypeOK, Workers, Unspawned
<1>2. CASE UNCHANGED active
  <2>1. active # 0 => active \in Workers /\ worker'[active] = worker[active]
    BY <1>1, ViewAssumption DEF Workers, TypeOK
  <2> QED BY <1>1, <1>2, <2>1 DEF ScanThreadsOK, ScanningEnds
<1>3. CASE active' = used.workers + 1 /\ job \in ScanJobs
  BY <1>1, <1>3 DEF ScanThreadsOK, ScanningEnds
<1> QED BY <1>2, <1>3

\* A step of the user interface, one that takes the updates or one of the recorder.
LEMMA UiThreads ==
  ASSUME TypeOK, ScanThreadsOK,
         \/ FirstFolders \/ ChangeFolders \/ Rescan \/ SetServerOnly \/ SyncRemote
         \/ ClearHistory \/ RecordPlay
         \/ \E t \in Tracks : RequestTagEdits(t) \/ SetStarred(t) \/ BeginPlay(t)
         \/ \E p \in view.history : RemoveHistoryEntry(p.id)
         \/ \E completed \in BOOLEAN : FinishPlay(completed)
         \/ TakeUpdates
  PROVE  ScanThreadsOK'
<1>1. CASE FirstFolders \/ ChangeFolders \/ Rescan
  <2>1. PICK job \in ScanJobs : BeginScan(job)
    BY <1>1 DEF FirstFolders, ChangeFolders, Rescan, ScanJobs
  <2> QED BY <2>1, SpawnThreads DEF BeginScan
<1>2. CASE SetServerOnly
  <2>1. CASE Loaded
    BY <1>2, <2>1, SpawnThreads DEF SetServerOnly
  <2>2. CASE ~Loaded
    BY <1>2, <2>2 DEF SetServerOnly, ScanThreadsOK, ScanningEnds
  <2> QED BY <2>1, <2>2
<1>3. ASSUME NEW t \in Tracks, RequestTagEdits(t) PROVE ScanThreadsOK'
  BY <1>3, SpawnThreads DEF RequestTagEdits
<1>4. CASE TakeUpdates
  BY <1>4 DEF TakeUpdates, ScanThreadsOK, ScanningEnds
<1>5. CASE UNCHANGED <<active, worker, updates>>
  BY <1>5 DEF ScanThreadsOK, ScanningEnds
<1>6. CASE SyncRemote
  <2>1. CASE QueuedSyncs = {}
    BY <1>6, <2>1, SpawnThreads DEF SyncRemote
  <2>2. CASE QueuedSyncs # {}
    <3>1. \A m \in Workers : worker'[m].pc = worker[m].pc /\ worker'[m].job = worker[m].job
      BY <1>6, <2>2 DEF SyncRemote, TypeOK, ViewThread
    <3>2. active # 0 => active \in Workers
      BY ViewAssumption DEF TypeOK, Workers
    <3> QED BY <1>6, <2>2, <3>1, <3>2 DEF SyncRemote, ScanThreadsOK, ScanningEnds
  <2> QED BY <2>1, <2>2
<1> QED BY <1>1, <1>2, <1>3, <1>4, <1>5, <1>6 DEF ClearHistory, RecordPlay, SetStarred, BeginPlay,
     RemoveHistoryEntry, FinishPlay, Click

(***************************************************************************)
(* Plays waiting for the recorder.                                         *)
(***************************************************************************)
QueuedIn(q, t) == {i \in DOMAIN q : q[i].track = t /\ q[i].completed}

\* The plays of a track that wait are finitely many.
LEMMA QueuedType ==
  ASSUME NEW q \in Seq(PlayRecord), NEW t
  PROVE  IsFiniteSet(QueuedIn(q, t)) /\ Cardinality(QueuedIn(q, t)) \in Nat
<1>1. Len(q) \in Nat /\ DOMAIN q = 1..Len(q)
  BY LenProperties
<1>2. IsFiniteSet(1..Len(q)) /\ QueuedIn(q, t) \in SUBSET (1..Len(q))
  BY <1>1, FS_Interval DEF QueuedIn
<1> QED BY <1>2, FS_Subset, FS_CardinalityType

\* A play queued is one more of its track, if it was completed.
LEMMA QueuedAppended ==
  ASSUME NEW q \in Seq(PlayRecord), NEW r \in PlayRecord, NEW t
  PROVE  Cardinality(QueuedIn(Append(q, r), t)) =
           Cardinality(QueuedIn(q, t)) + IF r.track = t /\ r.completed THEN 1 ELSE 0
<1>1. /\ Len(q) \in Nat /\ DOMAIN q = 1..Len(q) /\ DOMAIN Append(q, r) = 1..(Len(q) + 1)
      /\ \A i \in 1..Len(q) : Append(q, r)[i] = q[i]
      /\ Append(q, r)[Len(q) + 1] = r
  <2>1. Append(q, r) \in Seq(PlayRecord) /\ Len(Append(q, r)) = Len(q) + 1
        /\ \A i \in 1..Len(q) : Append(q, r)[i] = q[i]
        /\ Append(q, r)[Len(q) + 1] = r
    BY AppendProperties
  <2>2. DOMAIN Append(q, r) = 1..Len(Append(q, r)) /\ DOMAIN q = 1..Len(q) /\ Len(q) \in Nat
    BY <2>1, LenProperties
  <2> QED BY <2>1, <2>2
<1>2. QueuedIn(Append(q, r), t) =
        QueuedIn(q, t) \cup IF r.track = t /\ r.completed THEN {Len(q) + 1} ELSE {}
  BY <1>1 DEF QueuedIn
<1>3. Len(q) + 1 \notin QueuedIn(q, t)
  BY <1>1 DEF QueuedIn
<1>4. IsFiniteSet(QueuedIn(q, t)) /\ Cardinality(QueuedIn(q, t)) \in Nat
  BY QueuedType
<1>5. Cardinality(QueuedIn(q, t) \cup {Len(q) + 1}) = Cardinality(QueuedIn(q, t)) + 1
  BY <1>3, <1>4, FS_AddElement
<1>6. CASE r.track = t /\ r.completed
  <2>1. QueuedIn(Append(q, r), t) = QueuedIn(q, t) \cup {Len(q) + 1}
    BY <1>2, <1>6
  <2> QED BY <2>1, <1>5, <1>6
<1>7. CASE ~(r.track = t /\ r.completed)
  <2>1. QueuedIn(Append(q, r), t) = QueuedIn(q, t)
    BY <1>2, <1>7
  <2> QED BY <2>1, <1>4, <1>7
<1> QED BY <1>6, <1>7

\* A play taken is one less of its track, if it was completed.
LEMMA QueuedTail ==
  ASSUME NEW q \in Seq(PlayRecord), q # <<>>, NEW t
  PROVE  Cardinality(QueuedIn(q, t)) =
           Cardinality(QueuedIn(Tail(q), t)) + IF Head(q).track = t /\ Head(q).completed THEN 1 ELSE 0
<1>1. /\ Len(q) \in Nat /\ Len(q) > 0 /\ DOMAIN q = 1..Len(q) /\ Head(q) = q[1]
      /\ Tail(q) \in Seq(PlayRecord) /\ DOMAIN Tail(q) = 1..(Len(q) - 1)
      /\ \A i \in 1..(Len(q) - 1) : Tail(q)[i] = q[i + 1]
  <2>1. Tail(q) \in Seq(PlayRecord) /\ Len(Tail(q)) = Len(q) - 1
        /\ \A i \in 1..Len(Tail(q)) : Tail(q)[i] = q[i + 1]
    BY HeadTailProperties
  <2>2. DOMAIN Tail(q) = 1..Len(Tail(q)) /\ DOMAIN q = 1..Len(q) /\ Len(q) \in Nat
    BY <2>1, LenProperties
  <2>3. Head(q) = q[1] /\ Len(q) # 0
    BY HeadTailProperties, EmptySeq
  <2> QED BY <2>1, <2>2, <2>3
<1> DEFINE R == QueuedIn(Tail(q), t)
           Q == QueuedIn(q, t)
           f == [i \in R |-> i + 1]
<1>2. /\ \A i \in R : i \in 1..(Len(q) - 1) /\ i + 1 \in Q \ {1}
      /\ \A j \in Q \ {1} : j - 1 \in R /\ (j - 1) + 1 = j
      /\ 1 \in Q <=> Head(q).track = t /\ Head(q).completed
  BY <1>1 DEF QueuedIn
<1>3. IsFiniteSet(R) /\ Cardinality(R) \in Nat /\ IsFiniteSet(Q) /\ Cardinality(Q) \in Nat
  BY <1>1, QueuedType
<1> HIDE DEF R, Q
<1>4. f \in Bijection(R, Q \ {1})
  BY <1>2 DEF Bijection, Injection, IsInjective, Surjection
<1>5. Cardinality(Q \ {1}) = Cardinality(R)
  BY <1>3, <1>4, FS_Bijection DEF ExistsBijection
<1>6. Cardinality(Q \ {1}) = IF 1 \in Q THEN Cardinality(Q) - 1 ELSE Cardinality(Q)
  BY <1>3, FS_RemoveElement
<1>7. CASE 1 \in Q
  BY <1>2, <1>3, <1>5, <1>6, <1>7 DEF R, Q
<1>8. CASE 1 \notin Q
  BY <1>2, <1>3, <1>5, <1>6, <1>8 DEF R, Q
<1> QED BY <1>7, <1>8

LEMMA QueuedIs == ASSUME NEW t PROVE Queued(t) = Cardinality(QueuedIn(records, t))
BY DEF Queued, QueuedIn

(***************************************************************************)
(* Copies of the store.                                                    *)
(***************************************************************************)
\* No copy and a copy just read are copies.
LEMMA NoViewIsCopy == ASSUME NEW s \in Contents, NEW plays PROVE CopyOf(NoView, s, plays)
BY DEF CopyOf, NoView, Distinct, Past, Contents

LEMMA StoreIsCopy ==
  ASSUME TypeOK, RowsOK, NEW only \in BOOLEAN
  PROVE  CopyOf(FromStore(only), store, used.plays)
BY DEF TypeOK, RowsOK, CopyOf, FromStore, Distinct, Past, Contents, Stored

\* A copy stays one while the counts grow and tracks leave.
LEMMA CopyStays ==
  ASSUME NEW v \in Contents, NEW s \in Contents, NEW s2 \in Contents, NEW m \in Nat, NEW n \in Nat,
         m <= n, CopyOf(v, s, m),
         \A t \in Tracks : s2.tracks[t] # 0 => s.tracks[t] # 0 /\ s.counts[t] <= s2.counts[t]
  PROVE  CopyOf(v, s2, n)
<1>1. Past(v.history, n)
  BY DEF CopyOf, Past
<1>2. ASSUME NEW t \in Tracks, s2.tracks[t] # 0 PROVE v.counts[t] <= s2.counts[t]
  <2>1. v.counts[t] \in Nat /\ s.counts[t] \in Nat /\ s2.counts[t] \in Nat
    BY DEF Contents
  <2>2. v.counts[t] <= s.counts[t] /\ s.counts[t] <= s2.counts[t]
    BY <1>2 DEF CopyOf
  <2> QED BY <2>1, <2>2
<1> QED BY <1>1, <1>2 DEF CopyOf

LEMMA InitLibrary == Init => PlaysOK /\ RowsOK /\ CopiesOK /\ CountedOnce
<1> SUFFICES ASSUME Init PROVE PlaysOK /\ RowsOK /\ CopiesOK /\ CountedOnce
  OBVIOUS
<1>1. TypeOK
  BY InitTypeOK
<1>2. PlaysOK /\ RowsOK
  <2>1. DOMAIN records = {}
    BY DEF Init, ViewInit
  <2>2. playing = None /\ store.history = {} /\ view.history = {}
    BY DEF Init, ViewInit, NoView
  <2>3. PlaysOK
    BY <2>1, <2>2 DEF PlaysOK
  <2>4. RowsOK
    BY <2>2 DEF RowsOK, Distinct, Past
  <2> QED BY <2>3, <2>4
<1>3. CopiesOK
  <2>1. DOMAIN updates = {} /\ store \in Contents /\ \A n \in Workers : worker[n].built = NoView
    BY <1>1 DEF Init, ViewInit, Unspawned, TypeOK
  <2> QED BY <2>1, NoViewIsCopy DEF CopiesOK
<1>4. ASSUME NEW t \in Tracks PROVE view.counts[t] <= store.counts[t] + Queued(t) + dropped[t]
  <2>1. Queued(t) \in Nat /\ dropped[t] \in Nat
    BY <1>1, QueuedIs, QueuedType DEF TypeOK
  <2>2. view.counts[t] = 0 /\ store.counts[t] = 0
    BY DEF Init, ViewInit, NoView
  <2> QED BY <2>1, <2>2
<1> QED BY <1>2, <1>3, <1>4 DEF CountedOnce

\* So the copies of threads and messages stay copies.
LEMMA CopiesStay ==
  ASSUME TypeOK, TypeOK', used.plays <= used'.plays,
         \A t \in Tracks : store'.tracks[t] # 0 => store.tracks[t] # 0 /\ store.counts[t] <= store'.counts[t],
         \A n \in Workers : CopyOf(worker'[n].built, store, used.plays),
         \A i \in DOMAIN updates' : CopyOf(updates'[i].view, store, used.plays)
  PROVE  CopiesOK'
<1>1. store \in Contents /\ store' \in Contents /\ used.plays \in Nat /\ used'.plays \in Nat
      /\ \A n \in Workers : worker'[n].built \in Contents
  BY DEF TypeOK, ViewThread
<1>2. \A i \in DOMAIN updates' : updates'[i].view \in Contents
  <2>1. \A i \in DOMAIN updates' : updates'[i] \in Update
    BY LenProperties, ElementOfSeq DEF TypeOK
  <2> QED BY <2>1 DEF Update
<1>3. \A n \in Workers : CopyOf(worker'[n].built, store', used'.plays)
  BY <1>1, CopyStays
<1>4. \A i \in DOMAIN updates' : CopyOf(updates'[i].view, store', used'.plays)
  BY <1>1, <1>2, CopyStays
<1> QED BY <1>3, <1>4 DEF CopiesOK

\* A step that begins, ends and records no play and takes rows from the store at most.
LEMMA QuietStep ==
  ASSUME TypeOK, TypeOK', PlaysOK, RowsOK, CountedOnce,
         UNCHANGED <<playing, records, dropped>>, used'.plays = used.plays,
         store'.history \subseteq store.history,
         \A t \in Tracks : store'.tracks[t] # 0 => store.tracks[t] # 0 /\ store'.counts[t] = store.counts[t],
         \/ view'.history \subseteq view.history /\ view'.counts = view.counts
         \/ CopyOf(view', store, used.plays)
  PROVE  PlaysOK' /\ RowsOK' /\ CountedOnce'
<1>1. PlaysOK'
  BY DEF PlaysOK
<1>2. RowsOK'
  BY DEF RowsOK, CopyOf, Distinct, Past
<1>3. ASSUME NEW t \in Tracks, store'.tracks[t] # 0 PROVE view'.counts[t] <= store'.counts[t] + Queued(t)' + dropped'[t]
  <2>1. Queued(t)' = Queued(t) /\ Queued(t) \in Nat /\ dropped' = dropped /\ dropped[t] \in Nat
    BY QueuedIs, QueuedType DEF TypeOK, Queued
  <2>2. view'.counts[t] \in Nat /\ view.counts[t] \in Nat /\ store.counts[t] \in Nat /\ store'.counts[t] = store.counts[t]
        /\ Stored(t)
    BY <1>3 DEF TypeOK, Contents, Stored
  <2>3. CASE view'.counts = view.counts
    BY <2>1, <2>2, <2>3 DEF CountedOnce
  <2>4. CASE CopyOf(view', store, used.plays)
    BY <2>1, <2>2, <2>4 DEF CopyOf, Stored
  <2> QED BY <2>3, <2>4
<1>4. CountedOnce'
  BY <1>3 DEF CountedOnce, Stored
<1> QED BY <1>1, <1>2, <1>4

\* A step of a thread: it takes rows at most, and its copy is one of the store.
\* What a thread reads and sends: the store as it is, and what it has read.
LEMMA WorkerBuilds ==
  ASSUME TypeOK, NEW n \in Workers, Worker(n)
  PROVE  \A m \in Workers : worker'[m].built \in {worker[m].built, NoView, FromStore(worker[n].only)}
<1>1. CASE LoadSnapshot(n) \/ Build(n)
  <2>1. worker \in [Workers -> ViewThread]
    BY DEF TypeOK
  <2>2. \E next : worker' = [worker EXCEPT ![n].pc = next, ![n].built = FromStore(worker[n].only)]
    BY <1>1 DEF LoadSnapshot, Build
  <2> QED BY <2>1, <2>2 DEF ViewThread
<1>2. CASE SendLoaded(n) \/ SendSnapshot(n) \/ FinishScan(n)
  <2>1. \E ms, next : Sends(n, ms, next)
    BY <1>2 DEF SendLoaded, SendSnapshot, FinishScan
  <2>2. \E next : worker' = [worker EXCEPT ![n].pc = next, ![n].built = NoView]
    BY <2>1 DEF Sends
  <2> QED BY <2>2 DEF TypeOK, ViewThread
<1>3. CASE \E pc : Goes(n, pc)
  BY <1>3 DEF TypeOK, Goes, ViewThread
<1> QED BY <1>1, <1>2, <1>3 DEF Worker, LoadFails, ScanChanges, ScanEnds, ScanFails, EditTags,
   EditFails,
     TakeSync, SyncStars, SyncEnds, SyncFails

SentBy(n, i) ==
  \/ updates'[i].view \in {NoView, worker[n].built}
  \/ \E k \in DOMAIN updates : updates'[i].view = updates[k].view

LEMMA WorkerSends ==
  ASSUME TypeOK, NEW n \in Workers, Worker(n)
  PROVE  \A i \in DOMAIN updates' : SentBy(n, i)
<1>1. CASE UNCHANGED updates
  BY <1>1 DEF SentBy
<1>2. ASSUME NEW ms \in Seq(Update), updates' = updates \o ms,
             \A j \in 1..Len(ms) : ms[j].view \in {NoView, worker[n].built}
      PROVE  \A i \in DOMAIN updates' : SentBy(n, i)
  <2>1. /\ Len(updates) \in Nat /\ Len(ms) \in Nat /\ DOMAIN updates = 1..Len(updates)
        /\ DOMAIN updates' = 1..(Len(updates) + Len(ms))
        /\ \A i \in 1..(Len(updates) + Len(ms)) :
             updates'[i] = IF i <= Len(updates) THEN updates[i] ELSE ms[i - Len(updates)]
    <3>1. updates \o ms \in Seq(Update) /\ Len(updates \o ms) = Len(updates) + Len(ms)
          /\ \A i \in 1..(Len(updates) + Len(ms)) :
               (updates \o ms)[i] = IF i <= Len(updates) THEN updates[i] ELSE ms[i - Len(updates)]
      BY ConcatProperties DEF TypeOK
    <3>2. Len(updates) \in Nat /\ Len(ms) \in Nat /\ DOMAIN updates = 1..Len(updates)
          /\ DOMAIN updates' = 1..Len(updates')
      BY <1>2, <3>1, LenProperties DEF TypeOK
    <3> QED BY <1>2, <3>1, <3>2
  <2>2. ASSUME NEW i \in DOMAIN updates' PROVE SentBy(n, i)
    <3>1. CASE i <= Len(updates)
      BY <2>1, <3>1 DEF SentBy
    <3>2. CASE i > Len(updates)
      <4>1. i - Len(updates) \in 1..Len(ms) /\ updates'[i] = ms[i - Len(updates)]
        BY <2>1, <3>2
      <4> QED BY <1>2, <4>1 DEF SentBy
    <3> QED BY <2>1, <3>1, <3>2
  <2> QED BY <2>2
<1>3. CASE SendLoaded(n) \/ (SendSnapshot(n) /\ worker[n].job \notin ScanJobs)
  <2> DEFINE ms == <<SnapshotOf(n)>>
  <2>1. updates' = updates \o ms
    BY <1>3 DEF SendLoaded, SendSnapshot, Sends
  <2>2. ms \in Seq(Update) /\ Len(ms) = 1 /\ ms[1].view = worker[n].built
    BY MessagesAre DEF SnapshotOf
  <2> HIDE DEF ms
  <2>3. \A j \in 1..Len(ms) : ms[j].view \in {NoView, worker[n].built}
    BY <2>2
  <2> QED BY <1>2, <2>1, <2>2, <2>3
<1>4. CASE SendSnapshot(n) /\ worker[n].job \in ScanJobs
  <2> DEFINE ms == <<SnapshotOf(n), Finished(n)>>
  <2>1. updates' = updates \o ms
    BY <1>4 DEF SendSnapshot, Sends
  <2>2. ms \in Seq(Update) /\ Len(ms) = 2 /\ ms[1].view = worker[n].built /\ ms[2].view = NoView
    BY MessagesAre DEF SnapshotOf, Finished
  <2> HIDE DEF ms
  <2>3. \A j \in 1..Len(ms) : ms[j].view \in {NoView, worker[n].built}
    <3>1. \A j \in 1..2 : j = 1 \/ j = 2
      OBVIOUS
    <3> QED BY <2>2, <3>1
  <2> QED BY <1>2, <2>1, <2>2, <2>3
<1>5. CASE FinishScan(n)
  <2> DEFINE ms == <<Finished(n)>>
  <2>1. updates' = updates \o ms
    BY <1>5 DEF FinishScan, Sends
  <2>2. ms \in Seq(Update) /\ Len(ms) = 1 /\ ms[1].view = NoView
    BY MessagesAre DEF Finished
  <2> HIDE DEF ms
  <2>3. \A j \in 1..Len(ms) : ms[j].view \in {NoView, worker[n].built}
    BY <2>2
  <2> QED BY <1>2, <2>1, <2>2, <2>3
<1> QED BY <1>1, <1>3, <1>4, <1>5 DEF Worker, LoadSnapshot, LoadFails, ScanChanges, ScanEnds,
     ScanFails, EditTags, EditFails, TakeSync, SyncStars, SyncEnds, SyncFails, Build

LEMMA WorkerPlays ==
  ASSUME TypeOK, PlaysOK, RowsOK, CopiesOK, CountedOnce, NEW n \in Workers, Worker(n)
  PROVE  PlaysOK' /\ RowsOK' /\ CopiesOK' /\ CountedOnce'
<1>1. TypeOK' /\ worker[n] \in ViewThread
  BY WorkerTypes DEF TypeOK
<1>2. UNCHANGED <<view, playing, records, dropped, used>>
  BY DEF Worker, LoadSnapshot, LoadFails, SendLoaded, ScanChanges, ScanEnds,
     ScanFails, EditTags, EditFails, TakeSync, SyncStars, SyncEnds, SyncFails, Build,
     SendSnapshot, FinishScan, Sends, Keeps
<1>3. /\ store'.history \subseteq store.history
      /\ \A t \in Tracks : store'.tracks[t] # 0 => store.tracks[t] # 0 /\ store'.counts[t] = store.counts[t]
  <2>1. CASE UNCHANGED store
    BY <2>1
  <2>2. CASE \E t \in Tracks, v \in Tags \cup {0} : ScanChanges(n, t, v)
    <3>1. PICK t \in Tracks, v \in Tags \cup {0} : ScanChanges(n, t, v)
      BY <2>2
    <3>2. CASE v = 0
      BY <3>1, <3>2 DEF ScanChanges, Without, TypeOK, Contents
    <3>3. CASE v # 0
      BY <3>1, <3>3 DEF ScanChanges, TypeOK, Contents, Stored
    <3> QED BY <3>2, <3>3
  <2>3. CASE \E v \in Tags : EditTags(n, v)
    BY <2>3 DEF EditTags, TypeOK, Contents, Stored
  <2>4. CASE \E t \in Tracks : SyncStars(n, t)
    BY <2>4 DEF SyncStars, TypeOK, Contents
  <2> QED BY <2>1, <2>2, <2>3, <2>4 DEF Worker, LoadSnapshot, LoadFails, SendLoaded, ScanEnds,
     ScanFails, EditFails, TakeSync, SyncEnds, SyncFails, Build, SendSnapshot, FinishScan, Sends
<1>4. PlaysOK' /\ RowsOK' /\ CountedOnce'
  BY <1>1, <1>2, <1>3, QuietStep
<1>5. \A m \in Workers : CopyOf(worker'[m].built, store, used.plays)
  <2>1. CopyOf(NoView, store, used.plays)
    BY NoViewIsCopy DEF TypeOK
  <2>2. CopyOf(FromStore(worker[n].only), store, used.plays)
    BY <1>1, StoreIsCopy DEF ViewThread
  <2> QED BY <2>1, <2>2, WorkerBuilds DEF CopiesOK
<1>6. \A i \in DOMAIN updates' : CopyOf(updates'[i].view, store, used.plays)
  <2>1. CopyOf(NoView, store, used.plays) /\ CopyOf(worker[n].built, store, used.plays)
    BY NoViewIsCopy DEF TypeOK, CopiesOK
  <2> QED BY <2>1, WorkerSends DEF SentBy, CopiesOK
<1>7. CopiesOK'
  <2>1. used.plays <= used'.plays
    BY <1>2 DEF TypeOK
  <2>2. \A t \in Tracks : store'.tracks[t] # 0 => store.tracks[t] # 0 /\ store.counts[t] <= store'.counts[t]
    BY <1>3 DEF TypeOK, Contents
  <2> QED BY <1>1, <1>5, <1>6, <2>1, <2>2, CopiesStay
<1> QED BY <1>4, <1>7

LEMMA FinalizedKeeps ==
  ASSUME NEW h \in SUBSET Row, NEW r, NEW plays
  PROVE  /\ Distinct(h) => Distinct(Finalized(h, r))
         /\ Past(h, plays) => Past(Finalized(h, r), plays)
         /\ \A p \in Finalized(h, r) : p.at # r.at => p \in h
<1> DEFINE g(p) == IF IsOf(p, r) THEN [p EXCEPT !.finished = TRUE] ELSE p
<1>1. \A p \in h : g(p).at = p.at /\ (p.at # r.at => g(p) = p)
  BY DEF IsOf, Row
<1>2. Finalized(h, r) = {g(p) : p \in h}
  BY DEF Finalized
<1> HIDE DEF g
<1>3. \A u \in Finalized(h, r) : \E p \in h : u = g(p)
  BY <1>2
<1>4. ASSUME Distinct(h), NEW u \in Finalized(h, r), NEW v \in Finalized(h, r), u.at = v.at
      PROVE  u = v
  <2>1. PICK p \in h : u = g(p)
    BY <1>3
  <2>2. PICK q \in h : v = g(q)
    BY <1>3
  <2>3. p.at = q.at
    BY <1>1, <1>4, <2>1, <2>2
  <2>4. p = q
    BY <1>4, <2>3 DEF Distinct
  <2> QED BY <2>1, <2>2, <2>4
<1>5. Past(h, plays) => Past(Finalized(h, r), plays)
  BY <1>1, <1>3 DEF Past
<1>6. \A p \in Finalized(h, r) : p.at # r.at => p \in h
  BY <1>1, <1>3
<1> QED BY <1>4, <1>5, <1>6 DEF Distinct

\* A step of the user interface that neither begins nor ends a play.
LEMMA UiQuiet ==
  ASSUME TypeOK, LibOK,
         \/ FirstFolders \/ ChangeFolders \/ Rescan \/ SetServerOnly \/ SyncRemote \/ ClearHistory
         \/ \E t \in Tracks : RequestTagEdits(t) \/ SetStarred(t)
         \/ \E p \in view.history : RemoveHistoryEntry(p.id)
         \/ TakeUpdates
  PROVE  LibOK'
<1>1. TypeOK'
  BY UiTypes, TakeUpdatesTypes
<1>2. UNCHANGED <<playing, records, dropped>> /\ used'.plays = used.plays
  BY DEF FirstFolders, ChangeFolders, Rescan, BeginScan, SetServerOnly, SyncRemote, Spawn,
     ClearHistory, Click,
     RequestTagEdits, SetStarred, RemoveHistoryEntry, TakeUpdates, TypeOK
<1>3. store'.history \subseteq store.history /\ store'.tracks = store.tracks /\ store'.counts = store.counts
  <2>1. store \in Contents
    BY DEF TypeOK
  <2>2. CASE ClearHistory \/ \E p \in view.history : RemoveHistoryEntry(p.id)
    BY <2>1, <2>2 DEF ClearHistory, RemoveHistoryEntry, WithoutEntry, Refused, Contents
  <2>3. CASE \E t \in Tracks : SetStarred(t)
    BY <2>1, <2>3 DEF SetStarred, Starred, Refused, Contents
  <2>4. CASE UNCHANGED store
    BY <2>4
  <2> QED BY <2>2, <2>3, <2>4
       DEF FirstFolders, ChangeFolders, Rescan, BeginScan, SetServerOnly, SyncRemote, Spawn,
       RequestTagEdits, TakeUpdates
<1>4. \/ view'.history \subseteq view.history /\ view'.counts = view.counts
      \/ CopyOf(view', store, used.plays)
  <2>1. CASE TakeUpdates
    <3>1. Len(updates) \in Nat /\ Snapshots \subseteq 0..Len(updates) /\ Snapshots \subseteq DOMAIN updates
      BY LenProperties DEF Snapshots, TypeOK
    <3>2. Snapshots # {} => Max(Snapshots) \in DOMAIN updates
      BY <3>1, MaxIsIn
    <3> QED BY <2>1, <3>2 DEF TakeUpdates, LibOK, CopiesOK
  <2>2. CASE ~TakeUpdates
    <3>1. view \in Contents
      BY DEF TypeOK
    <3>2. CASE ClearHistory \/ (\E t \in Tracks : SetStarred(t)) \/ \E p \in view.history : RemoveHistoryEntry(p.id)
      BY <3>1, <3>2 DEF ClearHistory, SetStarred, Starred, RemoveHistoryEntry, WithoutEntry,
         Contents
    <3>3. CASE UNCHANGED view
      BY <3>3
    <3> QED BY <2>2, <3>2, <3>3
         DEF FirstFolders, ChangeFolders, Rescan, BeginScan, SetServerOnly, SyncRemote, Spawn,
         RequestTagEdits
  <2> QED BY <2>1, <2>2
<1>5. PlaysOK' /\ RowsOK' /\ CountedOnce'
  BY <1>1, <1>2, <1>3, <1>4, QuietStep DEF LibOK
<1>6. \A n \in Workers : worker'[n].built \in {worker[n].built, NoView}
  <2>1. CASE \E job, t, only : Spawn(job, t, only)
    BY <2>1 DEF Spawn, Unspawned, TypeOK
  <2>2. CASE UNCHANGED worker
    BY <2>2
  <2>3. CASE SyncRemote /\ QueuedSyncs # {}
    BY <2>3 DEF SyncRemote, TypeOK, ViewThread
  <2> QED BY <2>1, <2>2, <2>3 DEF FirstFolders, ChangeFolders, Rescan, BeginScan, SetServerOnly,
     SyncRemote, ClearHistory, Click,
     RequestTagEdits, SetStarred, RemoveHistoryEntry, TakeUpdates
<1>7. \A n \in Workers : CopyOf(worker'[n].built, store, used.plays)
  BY <1>6, NoViewIsCopy DEF TypeOK, LibOK, CopiesOK
<1>8. \A i \in DOMAIN updates' : CopyOf(updates'[i].view, store, used.plays)
  <2>1. UNCHANGED updates \/ updates' = <<>>
    BY DEF FirstFolders, ChangeFolders, Rescan, BeginScan, SetServerOnly, SyncRemote, Spawn,
       ClearHistory, Click,
     RequestTagEdits, SetStarred, RemoveHistoryEntry, TakeUpdates
  <2> QED BY <2>1 DEF LibOK, CopiesOK
<1>9. \A t \in Tracks : store'.tracks[t] # 0 => store.tracks[t] # 0 /\ store.counts[t] <= store'.counts[t]
  BY <1>1, <1>3 DEF TypeOK, Contents
<1>10. used.plays <= used'.plays
  BY <1>2 DEF TypeOK
<1>11. CopiesOK'
  BY <1>1, <1>7, <1>8, <1>9, <1>10, CopiesStay
<1> QED BY <1>5, <1>11 DEF LibOK

\* A play that begins is listed on both sides under a new time.
LEMMA BeginPlayLib == ASSUME TypeOK, LibOK, NEW t \in Tracks, BeginPlay(t) PROVE LibOK'
<1> DEFINE n == used.plays + 1
           row == [id |-> 2 * n, track |-> t, at |-> n, finished |-> FALSE]
<1>1. TypeOK'
  BY UiTypes
<1>2. n \in Nat /\ used.plays \in Nat /\ used'.plays = n /\ playing = None /\ playing' = [track |-> t, at |-> n]
      /\ UNCHANGED <<updates, worker, records, dropped>>
  BY DEF BeginPlay, TypeOK
<1>3. row.at = n /\ row.track = t /\ row.finished = FALSE
  OBVIOUS
<1>4. /\ store'.history \in {store.history, store.history \cup {row}}
      /\ store'.tracks = store.tracks /\ store'.counts = store.counts
      /\ view'.history \in {view.history, view.history \cup {row}}
      /\ view'.counts = view.counts
  BY DEF BeginPlay, Listed, Refused, TypeOK, Contents
<1>5. Len(records) \in Nat /\ \A i \in DOMAIN records : records[i].at \in 1..used.plays
  BY LenProperties DEF LibOK, PlaysOK, TypeOK
<1> HIDE DEF row
<1>6. n \notin 1..used.plays /\ 1..used.plays \subseteq 1..n /\ n \in 1..n
  BY <1>2
<1> HIDE DEF n
<1>7. RowsOK'
  BY <1>2, <1>3, <1>4, <1>6 DEF LibOK, RowsOK, Distinct, Past
<1>8. PlaysOK'
  <2>1. \A i \in DOMAIN records : records[i].at # n
    BY <1>5, <1>6
  <2>2. \A p \in store'.history : p.at = n => p.track = t /\ ~p.finished
    BY <1>3, <1>4, <1>6 DEF LibOK, RowsOK, Past
  <2>3. \A p \in store'.history, i \in DOMAIN records : p.at = records[i].at => p \in store.history
    BY <1>3, <1>4, <2>1
  <2>4. \A i \in DOMAIN records : records[i].at \in 1..n
    BY <1>5, <1>6
  <2> QED BY <1>2, <1>6, <2>1, <2>2, <2>3, <2>4 DEF LibOK, PlaysOK
<1>9. CopiesOK'
  <2>1. used.plays <= used'.plays
    BY <1>2 DEF n
  <2>2. \A s \in Tracks : store'.tracks[s] # 0 => store.tracks[s] # 0 /\ store.counts[s] <= store'.counts[s]
    BY <1>1, <1>4 DEF TypeOK, Contents
  <2> QED BY <1>1, <1>2, <2>1, <2>2, CopiesStay DEF LibOK, CopiesOK
<1>10. CountedOnce'
  BY <1>2, <1>4 DEF LibOK, CountedOnce, Queued, Stored
<1> QED BY <1>7, <1>8, <1>9, <1>10 DEF LibOK

\* A play that ends is counted by the UI and waits for the recorder.
LEMMA FinishPlayLib ==
  ASSUME TypeOK, LibOK, NEW completed \in BOOLEAN, FinishPlay(completed)
  PROVE  LibOK'
<1> DEFINE r == [track |-> playing.track, at |-> playing.at, completed |-> completed]
<1>1. TypeOK'
  BY UiTypes
<1>2. r \in PlayRecord /\ r.at = playing.at /\ r.track = playing.track /\ r.completed = completed
  BY DEF FinishPlay, TypeOK, Play, PlayRecord
<1>3. playing # None /\ playing' = None /\ records' = Append(records, r)
      /\ UNCHANGED <<store, worker, updates, dropped, used>>
  BY DEF FinishPlay
<1>4. view' \in {view, Counted([view EXCEPT !.history = Finalized(@, r)], r)}
      /\ (view'.counts # view.counts => completed)
  BY DEF FinishPlay, Counted
<1> HIDE DEF r
<1>5. /\ view'.history \in {view.history, Finalized(view.history, r)}
      /\ \A t \in Tracks : view'.counts[t] <= view.counts[t] + IF r.track = t /\ r.completed THEN 1 ELSE 0
  <2> DEFINE v == [view EXCEPT !.history = Finalized(@, r)]
  <2>1. v \in Contents /\ v.history = Finalized(view.history, r) /\ v.counts = view.counts
    BY FinalizedIs DEF TypeOK, Contents
  <2>2. view \in Contents /\ view' \in {view, Counted(v, r)}
    BY <1>4 DEF TypeOK
  <2> HIDE DEF v
  <2>3. /\ Counted(v, r).history = v.history
        /\ \A t \in Tracks : Counted(v, r).counts[t] =
             v.counts[t] + IF r.track = t /\ r.completed THEN 1 ELSE 0
    <3>1. CASE r.completed
      BY <1>2, <2>1, <3>1 DEF Counted, Contents, PlayRecord
    <3>2. CASE ~r.completed
      BY <1>2, <2>1, <3>2 DEF Counted, Contents, PlayRecord
    <3> QED BY <3>1, <3>2
  <2>4. \A t \in Tracks : view.counts[t] <= view.counts[t] + IF r.track = t /\ r.completed THEN 1 ELSE 0
    BY <2>2 DEF Contents
  <2>5. CASE view' = view
    BY <2>4, <2>5
  <2>6. CASE view' = Counted(v, r)
    <3>1. view'.history = Finalized(view.history, r)
      BY <2>1, <2>3, <2>6
    <3>2. \A t \in Tracks : view'.counts[t] = view.counts[t] + IF r.track = t /\ r.completed THEN 1 ELSE 0
      BY <2>1, <2>3, <2>6
    <3>3. \A t \in Tracks : view'.counts[t] \in Nat
      BY <1>1 DEF TypeOK, Contents
    <3>4. \A t \in Tracks : view'.counts[t] <= view.counts[t] + IF r.track = t /\ r.completed THEN 1 ELSE 0
      BY <3>2, <3>3
    <3> QED BY <3>1, <3>4
  <2> QED BY <2>2, <2>5, <2>6
<1>6. RowsOK'
  <2>1. view.history \in SUBSET Row
    BY DEF TypeOK, Contents
  <2>2. Distinct(view'.history) /\ Past(view'.history, used.plays)
    BY <1>5, <2>1, FinalizedKeeps DEF LibOK, RowsOK
  <2> QED BY <1>3, <2>2 DEF LibOK, RowsOK
<1>7. /\ Len(records) \in Nat /\ DOMAIN records' = 1..(Len(records) + 1) /\ DOMAIN records = 1..Len(records)
      /\ \A i \in 1..Len(records) : records'[i] = records[i]
      /\ records'[Len(records) + 1] = r
  <2>1. Append(records, r) \in Seq(PlayRecord) /\ Len(Append(records, r)) = Len(records) + 1
        /\ \A i \in 1..Len(records) : Append(records, r)[i] = records[i]
        /\ Append(records, r)[Len(records) + 1] = r
    BY <1>2, AppendProperties DEF TypeOK
  <2>2. DOMAIN Append(records, r) = 1..Len(Append(records, r)) /\ DOMAIN records = 1..Len(records) /\ Len(records) \in Nat
    BY <2>1, LenProperties DEF TypeOK
  <2> QED BY <1>3, <2>1, <2>2
<1>8. PlaysOK'
  <2>1. playing.at \in 1..used.plays /\ playing'.at = 0 /\ used.plays \in Nat
    BY <1>3 DEF LibOK, PlaysOK, TypeOK, None
  <2>2. \A i \in DOMAIN records' : records'[i].at \in 1..used.plays
    BY <1>2, <1>7, <2>1 DEF LibOK, PlaysOK
  <2>3. \A i, j \in DOMAIN records' : records'[i].at = records'[j].at => i = j
    BY <1>2, <1>7 DEF LibOK, PlaysOK
  <2>4. \A p \in store.history, i \in DOMAIN records' :
          p.at = records'[i].at => p.track = records'[i].track /\ ~p.finished
    BY <1>2, <1>7 DEF LibOK, PlaysOK
  <2>5. \A p \in store.history : p.at # 0
    BY <2>1 DEF LibOK, RowsOK, Past
  <2>6. \A i \in DOMAIN records' : records'[i].at # 0
    BY <2>1, <2>2
  <2> QED BY <1>3, <2>1, <2>2, <2>3, <2>4, <2>5, <2>6 DEF PlaysOK
<1>9. CopiesOK'
  BY <1>3 DEF LibOK, CopiesOK
<1>10. CountedOnce'
  <2>1. ASSUME NEW t \in Tracks, Stored(t) PROVE view'.counts[t] <= store.counts[t] + Queued(t)' + dropped[t]
    <3>1. Queued(t)' = Queued(t) + (IF r.track = t /\ r.completed THEN 1 ELSE 0) /\ Queued(t) \in Nat
      <4>1. records \in Seq(PlayRecord) /\ Queued(t) = Cardinality(QueuedIn(records, t))
            /\ Queued(t)' = Cardinality(QueuedIn(Append(records, r), t))
        BY <1>3 DEF TypeOK, Queued, QueuedIn
      <4> QED BY <1>2, <4>1, QueuedAppended, QueuedType
    <3>2. view.counts[t] <= store.counts[t] + Queued(t) + dropped[t]
          /\ view.counts[t] \in Nat /\ store.counts[t] \in Nat /\ dropped[t] \in Nat
          /\ view'.counts[t] \in Nat
      BY <1>1, <2>1 DEF LibOK, CountedOnce, TypeOK, Contents
    <3>3. CASE r.track = t /\ r.completed
      BY <1>5, <3>1, <3>2, <3>3
    <3>4. CASE ~(r.track = t /\ r.completed)
      BY <1>5, <3>1, <3>2, <3>4
    <3> QED BY <3>3, <3>4
  <2> QED BY <1>3, <2>1 DEF CountedOnce, Stored
<1> QED BY <1>6, <1>8, <1>9, <1>10 DEF LibOK

\* The recorder finalizes the row of the play, or lists one, and counts it.
LEMMA RecordPlayLib == ASSUME TypeOK, LibOK, RecordPlay PROVE LibOK'
<1> DEFINE r == Head(records)
           row == [id |-> 2 * r.at + 1, track |-> r.track, at |-> r.at, finished |-> TRUE]
<1>1. TypeOK'
  BY UiTypes
<1>2. /\ Len(records) \in Nat /\ Len(records) > 0 /\ DOMAIN records = 1..Len(records) /\ r = records[1]
      /\ DOMAIN records' = 1..(Len(records) - 1)
      /\ \A i \in 1..(Len(records) - 1) : records'[i] = records[i + 1]
      /\ r \in PlayRecord
  <2>1. records # <<>> /\ records' = Tail(records) /\ records \in Seq(PlayRecord)
    BY DEF RecordPlay, TypeOK
  <2>2. Tail(records) \in Seq(PlayRecord) /\ Len(Tail(records)) = Len(records) - 1
        /\ \A i \in 1..Len(Tail(records)) : Tail(records)[i] = records[i + 1]
        /\ Head(records) = records[1] /\ Head(records) \in PlayRecord
    BY <2>1, HeadTailProperties
  <2>3. DOMAIN Tail(records) = 1..Len(Tail(records)) /\ DOMAIN records = 1..Len(records) /\ Len(records) \in Nat
        /\ Len(records) # 0
    BY <2>1, <2>2, LenProperties, EmptySeq
  <2> QED BY <2>1, <2>2, <2>3
<1>3. row \in Row /\ row.at = r.at /\ row.track = r.track
  BY <1>2 DEF Row, PlayRecord
<1>4. UNCHANGED <<view, worker, updates, playing, used>>
  BY DEF RecordPlay
<1>5. \/ store' = (IF Stored(r.track) THEN Stats(store, r) ELSE store) /\ dropped' = dropped
      \/ store' = store /\ dropped' = DroppedToo(r)
  BY DEF RecordPlay, Refused
<1> HIDE DEF r
<1> DEFINE rec == Recorded(store, r)
<1>6. /\ rec \in Contents /\ rec.tracks = store.tracks /\ rec.counts = store.counts
      /\ \/ rec.history = Finalized(store.history, r)
         \/ rec.history = store.history \cup {row} /\ ~RunsOn(store, r)
  <2>1. store \in Contents /\ Finalized(store.history, r) \in SUBSET Row
    BY FinalizedIs DEF TypeOK, Contents
  <2>2. [store EXCEPT !.history = Finalized(@, r)] \in Contents
        /\ [store EXCEPT !.history = Finalized(@, r)].tracks = store.tracks
        /\ [store EXCEPT !.history = Finalized(@, r)].counts = store.counts
        /\ [store EXCEPT !.history = Finalized(@, r)].history = Finalized(store.history, r)
    BY <2>1 DEF Contents
  <2>3. Listed(store, row) \in Contents /\ Listed(store, row).tracks = store.tracks
        /\ Listed(store, row).counts = store.counts /\ Listed(store, row).history = store.history \cup {row}
    <3> HIDE DEF row
    <3> QED BY <1>3, <2>1 DEF Listed, Contents
  <2> QED BY <2>2, <2>3 DEF Recorded
<1> HIDE DEF rec, row
<1>7. /\ Stats(store, r).tracks = store.tracks /\ Stats(store, r).history = rec.history
      /\ \A t \in Tracks : Stats(store, r).counts[t] =
           store.counts[t] + IF r.track = t /\ r.completed THEN 1 ELSE 0
  <2>1. Stats(store, r) = Counted(rec, r)
    BY DEF Stats, rec
  <2>2. CASE r.completed
    BY <1>2, <1>6, <2>1, <2>2 DEF Counted, Contents, PlayRecord
  <2>3. CASE ~r.completed
    BY <1>2, <1>6, <2>1, <2>3 DEF Counted, Contents, PlayRecord
  <2> QED BY <2>2, <2>3
<1>8. store'.tracks = store.tracks
      /\ \A t \in Tracks : store.counts[t] <= store'.counts[t]
  <2>1. \A t \in Tracks : store.counts[t] \in Nat
    BY DEF TypeOK, Contents
  <2>2. \A t \in Tracks : store.counts[t] <= Stats(store, r).counts[t]
    BY <1>7, <2>1
  <2>3. CASE store' = Stats(store, r)
    BY <1>7, <2>2, <2>3
  <2>4. CASE store' = store
    BY <2>1, <2>4
  <2> QED BY <1>5, <2>3, <2>4
<1>9. \A p \in store.history : p.at = r.at => p.track = r.track /\ ~p.finished
  BY <1>2 DEF LibOK, PlaysOK
<1>10. store.history \in SUBSET Row /\ r.at \in 1..used.plays
  <2>1. 1 \in DOMAIN records
    BY <1>2
  <2> QED BY <1>2, <2>1 DEF TypeOK, Contents, LibOK, PlaysOK
<1>11. /\ Distinct(rec.history) /\ Past(rec.history, used.plays)
       /\ \A p \in rec.history : p.at # r.at => p \in store.history
  <2>1. CASE rec.history = Finalized(store.history, r)
    BY <1>10, <2>1, FinalizedKeeps DEF LibOK, RowsOK
  <2>2. CASE rec.history = store.history \cup {row} /\ ~RunsOn(store, r)
    <3>1. \A p \in store.history : p.at # r.at
      BY <1>9, <2>2 DEF RunsOn, IsOf
    <3> QED BY <1>3, <1>10, <2>2, <3>1 DEF LibOK, RowsOK, Distinct, Past
  <2> QED BY <1>6, <2>1, <2>2
<1>12. RowsOK' /\ \A p \in store'.history : p.at # r.at => p \in store.history
  BY <1>4, <1>5, <1>7, <1>11 DEF LibOK, RowsOK
<1>13. \A i \in DOMAIN records' :
         i + 1 \in DOMAIN records /\ records'[i] = records[i + 1] /\ records[i + 1].at # r.at
  <2>1. \A i \in DOMAIN records' : i \in Nat /\ i + 1 \in DOMAIN records /\ records'[i] = records[i + 1] /\ i + 1 # 1 /\ 1 \in DOMAIN records
    BY <1>2
  <2> QED BY <1>2, <2>1 DEF LibOK, PlaysOK
<1>14. PlaysOK'
  <2>1. \A i \in DOMAIN records' : records'[i].at \in 1..used.plays /\ records'[i].at # playing.at
    BY <1>13 DEF LibOK, PlaysOK
  <2>2. \A i, j \in DOMAIN records' : records'[i].at = records'[j].at => i = j
    <3>1. \A i, j \in DOMAIN records' : records'[i].at = records'[j].at => i + 1 = j + 1 /\ i \in Nat /\ j \in Nat
      BY <1>2, <1>13 DEF LibOK, PlaysOK
    <3> QED BY <3>1
  <2>3. \A p \in store'.history : p.at = playing.at => p.track = playing.track /\ ~p.finished
    <3>1. r.at # playing.at
      BY <1>2 DEF LibOK, PlaysOK
    <3> QED BY <1>12, <3>1 DEF LibOK, PlaysOK
  <2>4. \A p \in store'.history, i \in DOMAIN records' :
          p.at = records'[i].at => p.track = records'[i].track /\ ~p.finished
    BY <1>12, <1>13 DEF LibOK, PlaysOK
  <2>5. playing # None => playing.at \in 1..used.plays
    BY DEF LibOK, PlaysOK
  <2> QED BY <1>4, <2>1, <2>2, <2>3, <2>4, <2>5 DEF PlaysOK
<1>15. CopiesOK'
  <2>1. used.plays <= used'.plays
    BY <1>4 DEF TypeOK
  <2> QED BY <1>1, <1>4, <1>8, <2>1, CopiesStay DEF LibOK, CopiesOK
<1>16. CountedOnce'
  <2>1. ASSUME NEW t \in Tracks, Stored(t)
        PROVE  view.counts[t] <= store'.counts[t] + Queued(t)' + dropped'[t]
    <3>1. Queued(t) = Queued(t)' + (IF r.track = t /\ r.completed THEN 1 ELSE 0) /\ Queued(t)' \in Nat
      <4>1. records \in Seq(PlayRecord) /\ Queued(t) = Cardinality(QueuedIn(records, t)) /\ records # <<>>
            /\ Queued(t)' = Cardinality(QueuedIn(Tail(records), t)) /\ Tail(records) \in Seq(PlayRecord)
        BY <1>1 DEF TypeOK, Queued, QueuedIn, RecordPlay
      <4>2. Cardinality(QueuedIn(Tail(records), t)) \in Nat
        BY <4>1, QueuedType
      <4> QED BY <4>1, <4>2, QueuedTail DEF r
    <3>2. view.counts[t] <= store.counts[t] + Queued(t) + dropped[t]
          /\ view.counts[t] \in Nat /\ store.counts[t] \in Nat /\ dropped[t] \in Nat
      BY <2>1 DEF LibOK, CountedOnce, TypeOK, Contents
    <3>3. \/ /\ store'.counts[t] = store.counts[t] + IF r.track = t /\ r.completed THEN 1 ELSE 0
             /\ dropped'[t] = dropped[t]
          \/ /\ store'.counts[t] = store.counts[t]
             /\ dropped'[t] = dropped[t] + IF r.track = t /\ r.completed THEN 1 ELSE 0
          \/ ~(r.track = t /\ r.completed) /\ store'.counts[t] = store.counts[t] /\ dropped'[t] = dropped[t]
      <4>1. CASE store' = store /\ dropped' = DroppedToo(r)
        <5>1. dropped'[t] = dropped[t] + IF r.track = t /\ r.completed THEN 1 ELSE 0
          <6>1. dropped \in [Tracks -> Nat] /\ r.completed \in BOOLEAN /\ r.track \in Tracks
            BY <1>2 DEF TypeOK, PlayRecord
          <6>2. CASE r.completed
            BY <4>1, <6>1, <6>2 DEF DroppedToo
          <6>3. CASE ~r.completed
            BY <3>2, <4>1, <6>3 DEF DroppedToo
          <6> QED BY <6>2, <6>3
        <5> QED BY <4>1, <5>1
      <4>2. CASE store' = Stats(store, r) /\ dropped' = dropped
        BY <1>7, <4>2
      <4>3. CASE ~Stored(r.track) /\ store' = store /\ dropped' = dropped
        BY <2>1, <4>3
      <4> QED BY <1>5, <4>1, <4>2, <4>3
    <3>4. CASE r.track = t /\ r.completed
      BY <3>1, <3>2, <3>3, <3>4
    <3>5. CASE ~(r.track = t /\ r.completed)
      BY <3>1, <3>2, <3>3, <3>5
    <3> QED BY <3>4, <3>5
  <2> QED BY <1>4, <1>8, <2>1 DEF CountedOnce, Stored
<1> QED BY <1>12, <1>14, <1>15, <1>16 DEF LibOK

(***************************************************************************)
(* The requests to the search worker.                                      *)
(***************************************************************************)
\* A request sent changes nothing for those before it.
LEMMA ReadsAppended ==
  ASSUME NEW q \in Seq(QueryRequest), NEW r \in QueryRequest, NEW had, NEW tracks
  PROVE  /\ Append(q, r) \in Seq(QueryRequest) /\ Len(Append(q, r)) = Len(q) + 1 /\ Len(q) \in Nat
         /\ \A i \in 1..Len(q) : Append(q, r)[i] = q[i]
         /\ Append(q, r)[Len(q) + 1] = r
         /\ \A i \in 1..(Len(q) + 1) : Reads(q, had, i, tracks) => Reads(Append(q, r), had, i, tracks)
         /\ r.type = "reindex" => Reads(Append(q, r), had, Len(q) + 2, r.tracks)
         /\ r.type # "reindex" /\ Reads(q, had, Len(q) + 1, tracks) =>
              Reads(Append(q, r), had, Len(q) + 2, tracks)
<1> DEFINE a == Append(q, r)
<1>1. a \in Seq(QueryRequest) /\ Len(a) = Len(q) + 1 /\ Len(q) \in Nat
      /\ (\A i \in 1..Len(q) : a[i] = q[i]) /\ a[Len(q) + 1] = r
  BY AppendProperties, LenProperties
<1> HIDE DEF a
<1> DEFINE n == Len(q)
<1>2. n \in Nat /\ a[n + 1] = r /\ \A i \in 1..n : a[i] = q[i]
  BY <1>1
<1> HIDE DEF n
<1>3. ASSUME NEW i \in 1..(n + 1), Reads(q, had, i, tracks) PROVE Reads(a, had, i, tracks)
  BY <1>2, <1>3 DEF Reads
<1>4. ASSUME r.type = "reindex" PROVE Reads(a, had, n + 2, r.tracks)
  <2>1. n + 1 \in 1..((n + 2) - 1) /\ \A k \in ((n + 1) + 1)..((n + 2) - 1) : FALSE
    BY <1>2
  <2> QED BY <1>2, <1>4, <2>1 DEF Reads
<1>5. ASSUME r.type # "reindex", Reads(q, had, n + 1, tracks) PROVE Reads(a, had, n + 2, tracks)
  <2>1. (n + 1) - 1 = n /\ (n + 2) - 1 = n + 1
    BY <1>2
  <2>2. CASE had = tracks /\ \A k \in 1..n : q[k].type # "reindex"
    <3>1. \A k \in 1..(n + 1) : a[k].type # "reindex"
      BY <1>2, <1>5, <2>2
    <3> QED BY <2>1, <2>2, <3>1 DEF Reads
  <2>3. ASSUME NEW j \in 1..n, q[j].type = "reindex", q[j].tracks = tracks,
               \A k \in (j + 1)..n : q[k].type # "reindex"
        PROVE  Reads(a, had, n + 2, tracks)
    <3>1. \A k \in (j + 1)..(n + 1) : a[k].type # "reindex"
      BY <1>2, <1>5, <2>3
    <3>2. a[j].type = "reindex" /\ a[j].tracks = tracks /\ j \in 1..(n + 1)
      BY <1>2, <2>3
    <3> QED BY <2>1, <3>1, <3>2 DEF Reads
  <2> QED BY <1>5, <2>1, <2>2, <2>3 DEF Reads
<1> QED BY <1>1, <1>3, <1>4, <1>5 DEF a, n

\* A request taken: the worker then holds what it said, or what it had.
LEMMA ReadsTail ==
  ASSUME NEW q \in Seq(QueryRequest), q # <<>>, NEW had, NEW tracks, NEW i \in 2..(Len(q) + 1),
         Reads(q, had, i, tracks)
  PROVE  Reads(Tail(q), IF Head(q).type = "reindex" THEN Head(q).tracks ELSE had, i - 1, tracks)
<1> DEFINE n == Len(q)
           a == Tail(q)
           h == IF Head(q).type = "reindex" THEN Head(q).tracks ELSE had
           m == i - 1
<1>1. n \in Nat /\ Head(q) = q[1] /\ \A k \in 1..(n - 1) : a[k] = q[k + 1]
  BY HeadTailProperties, LenProperties
<1>2. i \in 2..(n + 1)
  OBVIOUS
<1> HIDE DEF n, a
<1>3. i \in Nat /\ m \in 1..n /\ m \in Nat
  BY <1>1, <1>2
<1>4. CASE had = tracks /\ \A k \in 1..(i - 1) : q[k].type # "reindex"
  <2>1. \A k \in 1..(m - 1) : k + 1 \in 1..(i - 1) /\ k \in 1..(n - 1)
    BY <1>1, <1>3
  <2>2. \A k \in 1..(m - 1) : a[k].type # "reindex"
    BY <1>1, <1>4, <2>1
  <2>3. h = tracks
    BY <1>1, <1>2, <1>3, <1>4
  <2> QED BY <2>2, <2>3 DEF Reads, a
<1>5. ASSUME NEW j \in 1..(i - 1), q[j].type = "reindex", q[j].tracks = tracks,
             \A k \in (j + 1)..(i - 1) : q[k].type # "reindex"
      PROVE  Reads(a, h, m, tracks)
  <2>1. CASE j = 1
    <3>1. \A k \in 1..(m - 1) : k + 1 \in (j + 1)..(i - 1) /\ k \in 1..(n - 1)
      BY <1>1, <1>3, <2>1
    <3>2. \A k \in 1..(m - 1) : a[k].type # "reindex"
      BY <1>1, <1>5, <3>1
    <3>3. h = tracks
      BY <1>1, <1>5, <2>1
    <3> QED BY <3>2, <3>3 DEF Reads
  <2>2. CASE j # 1
    <3>1. j - 1 \in 1..(m - 1) /\ j - 1 \in 1..(n - 1) /\ (j - 1) + 1 = j
      BY <1>1, <1>3, <2>2
    <3>2. \A k \in ((j - 1) + 1)..(m - 1) : k + 1 \in (j + 1)..(i - 1) /\ k \in 1..(n - 1)
      BY <1>1, <1>3, <3>1
    <3>3. \A k \in ((j - 1) + 1)..(m - 1) : a[k].type # "reindex"
      BY <1>1, <1>5, <3>2
    <3>4. a[j - 1].type = "reindex" /\ a[j - 1].tracks = tracks
      BY <1>1, <1>5, <3>1
    <3> QED BY <3>1, <3>3, <3>4 DEF Reads
  <2> QED BY <2>1, <2>2
<1> QED BY <1>4, <1>5 DEF Reads, a

\* The tracks are sent: the next queries are answered from them.
LEMMA ReindexSent ==
  ASSUME NEW q \in Seq(QueryRequest), NEW had, NEW e, NEW f, ChannelInOrder(q, had, e),
         NEW tracks \in [TrackIds -> Nat], f.generation = e.generation, f.sent = tracks
  PROVE  Reindex(tracks) \in QueryRequest /\ ChannelInOrder(Append(q, Reindex(tracks)), had, f)
<1> DEFINE r == Reindex(tracks)
<1>1. r \in QueryRequest /\ r.type = "reindex" /\ r.tracks = tracks
  BY DEF Reindex, QueryRequest, Texts
<1> HIDE DEF r
<1>2. /\ Len(Append(q, r)) = Len(q) + 1 /\ Len(q) \in Nat
      /\ \A i \in 1..Len(q) : Append(q, r)[i] = q[i]
      /\ Append(q, r)[Len(q) + 1] = r
      /\ Reads(Append(q, r), had, Len(q) + 2, tracks)
  BY <1>1, ReadsAppended
<1>3. \A i \in 1..(Len(q) + 1) : Append(q, r)[i].type = "query" => Append(q, r)[i].generation <= f.generation
  BY <1>1, <1>2 DEF ChannelInOrder
<1>4. Len(Append(q, r)) + 1 = Len(q) + 2
  BY <1>2
<1> QED BY <1>1, <1>2, <1>3, <1>4 DEF ChannelInOrder, r

\* A query is sent: it is the one that counts, all others are of the past.
LEMMA QuerySent ==
  ASSUME NEW q \in Seq(QueryRequest), NEW had, NEW e \in Engine, ChannelInOrder(q, had, e), typed \in Texts
  PROVE  /\ Query(Asked(e)) \in QueryRequest /\ Asked(e) \in Engine
         /\ ChannelOK(Append(q, Query(Asked(e))), had, Asked(e))
<1> DEFINE f == Asked(e)
           r == Query(f)
<1>1. f \in Engine /\ f.generation = e.generation + 1 /\ f.sent = e.sent /\ f.query = typed
  <2>1. e.generation + 1 \in Nat /\ typed \in Texts
    BY DEF Engine
  <2>2. f = [e EXCEPT !.generation = e.generation + 1, !.query = typed, !.pending = TRUE]
    BY DEF Asked
  <2> HIDE DEF f
  <2> QED BY <2>1, <2>2 DEF Engine
<1> HIDE DEF f
<1>2. r \in QueryRequest /\ r.type = "query" /\ r.query = f.query /\ r.generation = f.generation
  <2>1. NoTracks \in [TrackIds -> Nat]
    BY DEF NoTracks
  <2> QED BY <1>1, <2>1 DEF Query, QueryRequest, Engine
<1> HIDE DEF r
<1>3. /\ Len(Append(q, r)) = Len(q) + 1 /\ Len(q) \in Nat
      /\ \A i \in 1..Len(q) : Append(q, r)[i] = q[i]
      /\ Append(q, r)[Len(q) + 1] = r
      /\ Reads(Append(q, r), had, Len(q) + 2, f.sent)
      /\ Reads(Append(q, r), had, Len(q) + 1, f.sent)
  BY <1>1, <1>2, ReadsAppended DEF ChannelInOrder
<1>4. \A i \in 1..Len(q) : q[i].type = "query" => q[i].generation \in Nat /\ q[i].generation < f.generation
  <2>1. ASSUME NEW i \in 1..Len(q), q[i].type = "query" PROVE q[i].generation \in Nat /\ q[i].generation < f.generation
    <3>0. q[i] \in QueryRequest
      BY ElementOfSeq
    <3>1. q[i].generation \in Nat
      BY <3>0 DEF QueryRequest
    <3>2. q[i].generation <= e.generation /\ e.generation \in Nat
      BY <2>1 DEF ChannelInOrder, Engine
    <3> QED BY <1>1, <3>1, <3>2
  <2> QED BY <2>1
<1>5. Len(Append(q, r)) + 1 = Len(q) + 2 /\ f.generation \in Nat
  BY <1>1, <1>3 DEF Engine
<1>6. \A i \in 1..(Len(q) + 1) : Append(q, r)[i].type = "query" =>
         \/ Append(q, r)[i].generation \in Nat /\ Append(q, r)[i].generation < f.generation
         \/ i = Len(q) + 1 /\ Append(q, r)[i] = r
  <2>1. ASSUME NEW i \in 1..(Len(q) + 1) PROVE i \in 1..Len(q) \/ i = Len(q) + 1
    BY <1>3
  <2> QED BY <1>3, <1>4, <2>1
<1>7. ChannelInOrder(Append(q, r), had, f)
  BY <1>2, <1>3, <1>5, <1>6 DEF ChannelInOrder
<1>8. \A i \in 1..Len(Append(q, r)) : Append(q, r)[i].type = "query" /\ Current(f, Append(q, r)[i]) =>
         Append(q, r)[i].query = f.query /\ Reads(Append(q, r), had, i, f.sent)
  BY <1>2, <1>3, <1>5, <1>6 DEF Current
<1> QED BY <1>1, <1>2, <1>7, <1>8 DEF ChannelOK, f, r

\* The kinds of what Search computes.
LEMMA SignatureIs == ASSUME NEW tracks \in [TrackIds -> Nat] PROVE Signature(tracks) \in Signatures
BY DEF Signatures

LEMMA FoundIs == ASSUME NEW tracks, NEW query PROVE Found(tracks, query) \subseteq TrackIds
BY DEF Found, Present

\* What the answers taken leave of the engine.
LEMMA DrainedIs ==
  ASSUME NEW e \in Engine, NEW as \in Seq(Answer)
  PROVE  /\ Drained(e, as) \in Engine
         /\ Drained(e, as).generation = e.generation /\ Drained(e, as).query = e.query
         /\ Drained(e, as).sent = e.sent
         /\ \/ Drained(e, as) = e /\ \A i \in 1..Len(as) : ~Current(e, as[i])
            \/ \E i \in 1..Len(as) : /\ Current(e, as[i]) /\ ~Drained(e, as).pending
                                     /\ Drained(e, as).matches = Only(as[i].ids)
<1> DEFINE mine == {i \in DOMAIN as : Current(e, as[i])}
<1>1. Len(as) \in Nat /\ DOMAIN as = 1..Len(as) /\ mine \subseteq 0..Len(as)
  <2>1. Len(as) \in Nat /\ DOMAIN as = 1..Len(as)
    BY LenProperties
  <2>2. \A n \in Nat : 1..n \subseteq 0..n
    OBVIOUS
  <2> QED BY <2>1, <2>2
<1>2. CASE mine = {}
  BY <1>1, <1>2 DEF Drained
<1>3. CASE mine # {}
  <2>1. Max(mine) \in mine
    BY <1>1, <1>3, MaxIsIn
  <2> DEFINE m == Max(mine)
  <2>2. m \in 1..Len(as) /\ Current(e, as[m])
    BY <1>1, <2>1
  <2>3. Drained(e, as) = [e EXCEPT !.matches = Only(as[m].ids), !.pending = FALSE]
    BY <1>3 DEF Drained
  <2> HIDE DEF m, mine
  <2>4. as[m] \in Answer
    BY <2>2, ElementOfSeq
  <2>5. Only(as[m].ids) \in [on : BOOLEAN, ids : SUBSET TrackIds]
    BY <2>4 DEF Answer, Only
  <2> QED BY <2>2, <2>3, <2>5 DEF Engine
<1> QED BY <1>2, <1>3

LEMMA InitSearch == Init => SInv
<1> SUFFICES ASSUME Init PROVE SInv
  OBVIOUS
<1>1. /\ typed = 0 /\ index = NoTracks /\ requests = <<>> /\ answers = <<>>
      /\ engine = [generation |-> 0, signature |-> <<0, 0, 0>>, query |-> 0, matches |-> All,
                   pending |-> FALSE, sent |-> NoTracks]
  BY DEF Init, SearchInit
<1>2. NoTracks \in [TrackIds -> Nat] /\ Signature(NoTracks) = <<0, 0, 0>>
  BY DEF NoTracks, Signature, Present
<1>3. engine \in Engine
  <2>1. <<0, 0, 0>> \in Signatures
    BY <1>2, SignatureIs
  <2>2. All \in [on : BOOLEAN, ids : SUBSET TrackIds]
    BY DEF All
  <2> QED BY <1>1, <1>2, <2>1, <2>2 DEF Engine, Texts
<1>4. requests \in Seq(QueryRequest) /\ answers \in Seq(Answer) /\ Len(requests) = 0 /\ Len(answers) = 0
  BY <1>1, EmptySeq
<1>5. SearchTypeOK
  BY <1>1, <1>2, <1>3, <1>4 DEF SearchTypeOK, Texts
<1>6. ChannelOK(requests, index, engine) /\ AnswersOK(answers, engine)
  BY <1>1, <1>4 DEF ChannelOK, ChannelInOrder, Reads, AnswersOK
<1>7. AnswerIsOfQuery /\ SearchIsAnswered
  BY <1>1 DEF AnswerIsOfQuery, SearchIsAnswered
<1> QED BY <1>5, <1>6, <1>7 DEF SInv, SearchOK

\* Typing asks nothing before the next frame.
LEMMA TypeSearch == ASSUME SInv, NEW q \in Texts, Type(q) PROVE SInv'
BY DEF SInv, SearchTypeOK, SearchOK, SearchIsAnswered, AnswerIsOfQuery, Type, ChannelOK,
   ChannelInOrder, AnswersOK

\* Taking the request at the head keeps the order of the others.
LEMMA ChannelTail ==
  ASSUME NEW q \in Seq(QueryRequest), q # <<>>, NEW had, NEW e, ChannelOK(q, had, e)
  PROVE  ChannelOK(Tail(q), IF Head(q).type = "reindex" THEN Head(q).tracks ELSE had, e)
<1> DEFINE n == Len(q)
           a == Tail(q)
           h == IF Head(q).type = "reindex" THEN Head(q).tracks ELSE had
<1>1. n \in Nat /\ n > 0 /\ Len(a) = n - 1 /\ \A k \in 1..(n - 1) : a[k] = q[k + 1]
  BY HeadTailProperties, LenProperties, EmptySeq
<1>2. ASSUME NEW i \in 2..(n + 1), Reads(q, had, i, e.sent) PROVE Reads(a, h, i - 1, e.sent)
  BY <1>2, ReadsTail
<1> HIDE DEF n, a, h
<1>3. \A k \in 1..(n - 1) : k + 1 \in 1..n /\ k + 1 \in 2..(n + 1) /\ (k + 1) - 1 = k
  BY <1>1
<1>4. Reads(a, h, n, e.sent)
  <2>1. n + 1 \in 2..(n + 1) /\ (n + 1) - 1 = n
    BY <1>1
  <2>2. Reads(q, had, n + 1, e.sent)
    BY DEF ChannelOK, ChannelInOrder, n
  <2>3. Reads(a, h, (n + 1) - 1, e.sent)
    BY <1>2, <2>1, <2>2
  <2> QED BY <2>1, <2>3
<1>5. ChannelInOrder(a, h, e)
  <2>1. Len(a) + 1 = n
    BY <1>1
  <2> QED BY <1>1, <1>3, <1>4, <2>1 DEF ChannelOK, ChannelInOrder, n
<1>6. ASSUME NEW k \in 1..Len(a), a[k].type = "query", Current(e, a[k]), e.query # 0
      PROVE  a[k].query = e.query /\ Reads(a, h, k, e.sent)
  <2>1. k \in 1..(n - 1) /\ a[k] = q[k + 1]
    BY <1>1
  <2>2. q[k + 1].query = e.query /\ Reads(q, had, k + 1, e.sent)
    BY <1>3, <1>6, <2>1 DEF ChannelOK, n
  <2>3. Reads(a, h, (k + 1) - 1, e.sent)
    BY <1>2, <1>3, <2>1, <2>2
  <2> QED BY <1>3, <2>1, <2>2, <2>3
<1> QED BY <1>5, <1>6 DEF ChannelOK, a, h

\* The answer to the request taken is from the tracks the engine sent.
LEMMA WorkerSearch == ASSUME SInv, SearchWorker PROVE SInv'
<1> DEFINE r == Head(requests)
           a == [generation |-> r.generation, ids |-> Found(index, r.query)]
           n == Len(requests)
<1>1. /\ requests \in Seq(QueryRequest) /\ requests # <<>> /\ answers \in Seq(Answer)
      /\ engine \in Engine /\ index \in [TrackIds -> Nat] /\ typed \in Texts
      /\ UNCHANGED <<typed, engine>>
      /\ requests' = Tail(requests)
  BY DEF SInv, SearchTypeOK, SearchWorker
<1>2. /\ n \in Nat /\ n > 0 /\ r = requests[1] /\ r \in QueryRequest
      /\ requests' \in Seq(QueryRequest) /\ Len(requests') = n - 1
      /\ \A i \in 1..(n - 1) : requests'[i] = requests[i + 1]
  BY <1>1, HeadTailProperties, LenProperties, EmptySeq
<1>3. index' = (IF r.type = "reindex" THEN r.tracks ELSE index) /\ index' \in [TrackIds -> Nat]
  BY <1>1, <1>2 DEF SearchWorker, QueryRequest
<1>4. a \in Answer
  BY <1>2, FoundIs DEF Answer, QueryRequest
<1>5. ChannelOK(requests', index', engine')
  BY <1>1, <1>3, ChannelTail DEF SInv, SearchOK
<1>6. /\ \/ r.type = "reindex" /\ answers' = answers
         \/ r.type = "query" /\ answers' = Append(answers, a)
      /\ Len(answers) \in Nat
  BY <1>1, <1>2, LenProperties DEF SearchWorker, QueryRequest
<1>7. /\ Append(answers, a) \in Seq(Answer) /\ Len(Append(answers, a)) = Len(answers) + 1
      /\ \A i \in 1..Len(answers) : Append(answers, a)[i] = answers[i]
      /\ Append(answers, a)[Len(answers) + 1] = a
      /\ DOMAIN Append(answers, a) = 1..(Len(answers) + 1) /\ DOMAIN answers = 1..Len(answers)
  <2>1. /\ Append(answers, a) \in Seq(Answer) /\ Len(Append(answers, a)) = Len(answers) + 1
        /\ \A i \in 1..Len(answers) : Append(answers, a)[i] = answers[i]
        /\ Append(answers, a)[Len(answers) + 1] = a
    BY <1>1, <1>4, AppendProperties
  <2>2. DOMAIN Append(answers, a) = 1..Len(Append(answers, a)) /\ DOMAIN answers = 1..Len(answers)
    BY <1>1, <2>1, LenProperties
  <2> QED BY <2>1, <2>2
<1>8. r.type = "query" => a.generation <= engine.generation
        /\ (Current(engine, a) /\ engine.query # 0 => a.ids = Found(engine.sent, engine.query))
  <2>1. ASSUME r.type = "query" PROVE a.generation <= engine.generation
    BY <1>2, <2>1 DEF SInv, SearchOK, ChannelOK, ChannelInOrder
  <2>2. ASSUME r.type = "query", Current(engine, a), engine.query # 0
        PROVE  a.ids = Found(engine.sent, engine.query)
    <3>1. r.query = engine.query /\ Reads(requests, index, 1, engine.sent)
      BY <1>2, <2>2 DEF SInv, SearchOK, ChannelOK, Current
    <3>2. index = engine.sent
      BY <3>1 DEF Reads
    <3> QED BY <3>1, <3>2
  <2> QED BY <2>1, <2>2
<1> HIDE DEF a
<1>9. AnswersOK(answers', engine')
  <2>1. \A i \in 1..(Len(answers) + 1) : i \in 1..Len(answers) \/ i = Len(answers) + 1
    BY <1>6
  <2> QED BY <1>1, <1>6, <1>7, <1>8, <2>1 DEF SInv, SearchOK, AnswersOK
<1>10. SearchTypeOK'
  BY <1>1, <1>2, <1>3, <1>6, <1>7 DEF SInv, SearchTypeOK
<1>11. AnswerIsOfQuery'
  BY <1>1 DEF SInv, SearchOK, AnswerIsOfQuery
<1>12. ASSUME engine.pending
       PROVE  \/ \E i \in DOMAIN requests' : requests'[i].type = "query" /\ Current(engine, requests'[i])
              \/ \E i \in DOMAIN answers' : Current(engine, answers'[i])
  <2>1. DOMAIN requests = 1..n /\ DOMAIN requests' = 1..(n - 1)
    BY <1>1, <1>2, LenProperties
  <2>2. CASE \E i \in DOMAIN answers : Current(engine, answers[i])
    BY <1>6, <1>7, <2>2
  <2>3. ASSUME NEW i \in DOMAIN requests, requests[i].type = "query", Current(engine, requests[i])
        PROVE  \/ \E k \in DOMAIN requests' : requests'[k].type = "query" /\ Current(engine, requests'[k])
               \/ \E k \in DOMAIN answers' : Current(engine, answers'[k])
    <3>1. CASE i = 1
      <4>1. answers' = Append(answers, a) /\ Current(engine, a) /\ Len(answers) + 1 \in DOMAIN answers'
        BY <1>2, <1>6, <1>7, <2>3, <3>1 DEF Current, a
      <4> QED BY <1>7, <4>1
    <3>2. CASE i # 1
      <4>1. i - 1 \in 1..(n - 1) /\ (i - 1) + 1 = i
        BY <1>2, <2>1, <3>2
      <4> QED BY <1>2, <2>1, <2>3, <4>1
    <3> QED BY <3>1, <3>2
  <2> QED BY <1>12, <2>2, <2>3 DEF SInv, SearchIsAnswered
<1>13. SearchIsAnswered'
  BY <1>1, <1>12 DEF SearchIsAnswered
<1> QED BY <1>1, <1>5, <1>9, <1>10, <1>11, <1>13 DEF SInv, SearchOK

\* A frame: drain, send the tracks if they changed, ask if the text did.
LEMMA TickSearch ==
  ASSUME SInv, NEW tracks \in [TrackIds -> Nat], SearchTick(tracks)
  PROVE  SInv'
<1> DEFINE changed == Changed(tracks)
           seen == IF changed THEN [engine EXCEPT !.signature = Signature(tracks), !.sent = tracks]
                   ELSE engine
           asks == typed # 0 /\ (typed # engine.query \/ changed)
           asked == IF typed = 0 THEN Cleared(seen) ELSE IF asks THEN Asked(seen) ELSE seen
           mid == requests \o (IF changed THEN <<Reindex(tracks)>> ELSE <<>>)
           r == Query(asked)
<1>1. /\ requests \in Seq(QueryRequest) /\ answers \in Seq(Answer)
      /\ engine \in Engine /\ index \in [TrackIds -> Nat] /\ typed \in Texts
      /\ UNCHANGED <<typed, index>> /\ answers' = <<>>
      /\ engine' = Drained(asked, answers)
      /\ requests' = mid \o (IF asks THEN <<Query(asked)>> ELSE <<>>)
      /\ changed \in BOOLEAN
  BY DEF SInv, SearchTypeOK, SearchTick, Changed
<1>2. mid = (IF changed THEN Append(requests, Reindex(tracks)) ELSE requests)
  BY <1>1, ConcatEmptySeq, AppendIsConcat
<1>3. seen \in Engine /\ seen.generation = engine.generation /\ seen.query = engine.query
      /\ seen.sent = (IF changed THEN tracks ELSE engine.sent)
  <2>1. Signature(tracks) \in Signatures
    BY SignatureIs
  <2> QED BY <1>1, <2>1 DEF Engine
<1> HIDE DEF seen
<1>4. mid \in Seq(QueryRequest) /\ ChannelInOrder(mid, index, seen)
  <2>1. CASE changed
    <3>1. Reindex(tracks) \in QueryRequest /\ ChannelInOrder(Append(requests, Reindex(tracks)), index, seen)
      <4>1. ChannelInOrder(requests, index, engine)
        BY DEF SInv, SearchOK, ChannelOK
      <4>2. seen.generation = engine.generation /\ seen.sent = tracks
        BY <1>3, <2>1
      <4> QED BY <1>1, <4>1, <4>2, ReindexSent
    <3>2. Append(requests, Reindex(tracks)) \in Seq(QueryRequest)
      BY <1>1, <3>1, AppendProperties
    <3>3. mid = Append(requests, Reindex(tracks))
      BY <1>2, <2>1
    <3> HIDE DEF mid
    <3> QED BY <3>1, <3>2, <3>3
  <2>2. CASE ~changed
    BY <1>1, <1>2, <1>3, <2>2 DEF SInv, SearchOK, ChannelOK, ChannelInOrder
  <2> QED BY <2>1, <2>2
<1> HIDE DEF mid
<1>5. \A f \in Engine : /\ Drained(f, answers) \in Engine
        /\ Drained(f, answers).generation = f.generation /\ Drained(f, answers).query = f.query
        /\ Drained(f, answers).sent = f.sent
        /\ \/ Drained(f, answers) = f /\ \A i \in 1..Len(answers) : ~Current(f, answers[i])
           \/ \E i \in 1..Len(answers) : /\ Current(f, answers[i]) /\ ~Drained(f, answers).pending
                                         /\ Drained(f, answers).matches = Only(answers[i].ids)
  BY <1>1, DrainedIs
<1>6. AnswersOK(answers', engine') /\ answers' \in Seq(Answer)
  BY <1>1, EmptySeq DEF AnswersOK
<1>7. CASE typed = 0
  <2>1. asked = Cleared(seen) /\ requests' = mid
    BY <1>1, <1>4, <1>7, ConcatEmptySeq
  <2>2. asked \in Engine /\ asked.query = 0 /\ ~asked.pending
        /\ asked.generation = seen.generation /\ asked.sent = seen.sent
    <3>1. All \in [on : BOOLEAN, ids : SUBSET TrackIds] /\ 0 \in Texts
      BY DEF All, Texts
    <3> QED BY <1>3, <2>1, <3>1 DEF Cleared, Engine
  <2> HIDE DEF asked
  <2>3. engine' \in Engine /\ engine'.query = 0 /\ ~engine'.pending
        /\ engine'.generation = seen.generation /\ engine'.sent = seen.sent
    BY <1>1, <1>5, <2>2
  <2>4. ChannelOK(requests', index', engine')
    BY <1>1, <1>4, <2>1, <2>3 DEF ChannelOK, ChannelInOrder
  <2> QED BY <1>1, <1>4, <1>6, <2>1, <2>3, <2>4
       DEF SInv, SearchTypeOK, SearchOK, AnswerIsOfQuery, SearchIsAnswered
<1>8. CASE asks
  <2>1. asked = Asked(seen) /\ requests' = mid \o <<r>>
    BY <1>1, <1>8
  <2>2. r \in QueryRequest /\ asked \in Engine /\ ChannelOK(Append(mid, r), index, asked)
    BY <1>1, <1>3, <1>4, <2>1, QuerySent
  <2>3. asked.generation = seen.generation + 1 /\ asked.pending
    BY <1>3, <2>1 DEF Asked, Engine
  <2>4. r.type = "query" /\ Current(asked, r)
    BY DEF Query, Current
  <2> HIDE DEF asked, r
  <2>5. /\ requests' = Append(mid, r) /\ requests' \in Seq(QueryRequest)
        /\ Len(mid) + 1 \in DOMAIN requests' /\ requests'[Len(mid) + 1] = r
    <3>1. Append(mid, r) = mid \o <<r>> /\ Append(mid, r) \in Seq(QueryRequest)
          /\ Len(Append(mid, r)) = Len(mid) + 1 /\ Append(mid, r)[Len(mid) + 1] = r
      BY <1>4, <2>2, AppendProperties, AppendIsConcat
    <3>2. DOMAIN Append(mid, r) = 1..Len(Append(mid, r)) /\ Len(mid) \in Nat
      BY <1>4, <3>1, LenProperties
    <3> QED BY <2>1, <3>1, <3>2
  <2>6. \A i \in 1..Len(answers) : ~Current(asked, answers[i])
    <3>1. \A i \in 1..Len(answers) : answers[i].generation <= engine.generation /\ answers[i].generation \in Nat
      <4>1. \A i \in 1..Len(answers) : answers[i] \in Answer
        BY <1>1, ElementOfSeq
      <4> QED BY <4>1 DEF SInv, SearchOK, AnswersOK, Answer
    <3>2. engine.generation \in Nat
      BY <1>1 DEF Engine
    <3> QED BY <1>3, <2>3, <3>1, <3>2 DEF Current
  <2>7. engine' = asked
    BY <1>1, <1>5, <2>2, <2>6
  <2> QED BY <1>1, <1>6, <2>2, <2>3, <2>4, <2>5, <2>7
       DEF SInv, SearchTypeOK, SearchOK, AnswerIsOfQuery, SearchIsAnswered
<1>9. CASE typed # 0 /\ ~asks
  <2>1. ~changed /\ asked = engine /\ requests' = requests
    <3>1. ~changed
      BY <1>1, <1>9
    <3>2. seen = engine
      BY <3>1 DEF seen
    <3> QED BY <1>1, <1>2, <1>4, <1>9, <3>1, <3>2, ConcatEmptySeq
  <2>2. /\ engine' \in Engine /\ engine' = Drained(engine, answers)
        /\ engine'.generation = engine.generation /\ engine'.query = engine.query /\ engine'.sent = engine.sent
    BY <1>1, <1>5, <2>1
  <2>3. \/ engine' = engine /\ \A i \in 1..Len(answers) : ~Current(engine, answers[i])
        \/ \E i \in 1..Len(answers) : /\ Current(engine, answers[i]) /\ ~engine'.pending
                                      /\ engine'.matches = Only(answers[i].ids)
    BY <1>1, <1>5, <2>2
  <2>4. ChannelOK(requests', index', engine')
    BY <1>1, <2>1, <2>2 DEF SInv, SearchOK, ChannelOK, ChannelInOrder, Current
  <2>5. AnswerIsOfQuery'
    BY <2>2, <2>3 DEF SInv, SearchOK, AnswersOK, AnswerIsOfQuery
  <2>6. SearchIsAnswered'
    <3>1. DOMAIN answers = 1..Len(answers)
      BY <1>1, LenProperties
    <3> QED BY <2>1, <2>3, <3>1 DEF SInv, SearchIsAnswered
  <2> QED BY <1>1, <1>6, <2>1, <2>2, <2>4, <2>5, <2>6 DEF SInv, SearchTypeOK, SearchOK
<1> QED BY <1>7, <1>8, <1>9

(***************************************************************************)
(* The desktop.                                                            *)
(***************************************************************************)
LEMMA InitInv == Init => Inv
BY InitTypeOK, InitScanThreadsOK, InitLibrary, InitSearch DEF Inv, LibOK

LEMMA NextInv == Inv /\ [Next]_vars => Inv'
<1> SUFFICES ASSUME Inv, [Next]_vars PROVE Inv'
  OBVIOUS
<1> USE DEF Inv
<1>1. CASE UNCHANGED vars
  <2> USE <1>1 DEF vars, viewVars, searchVars
  <2>1. TypeOK' /\ ScanThreadsOK'
    BY DEF TypeOK, ScanThreadsOK, ScanningEnds
  <2>2. LibOK'
    BY DEF LibOK, PlaysOK, RowsOK, CopiesOK, CountedOnce, Stored, Queued
  <2>3. SInv'
    BY DEF SInv, SearchTypeOK, SearchOK, AnswerIsOfQuery, SearchIsAnswered
  <2> QED BY <2>1, <2>2, <2>3
<1>2. CASE Tick
  <2>1. TypeOK' /\ ScanThreadsOK' /\ LibOK'
    BY <1>2, TakeUpdatesTypes, UiThreads, UiQuiet DEF Tick
  <2>2. view'.tracks \in [TrackIds -> Nat]
    BY <2>1, ShellAssumption DEF TypeOK, Contents
  <2>3. SInv'
    BY <1>2, <2>2, TickSearch DEF Tick
  <2> QED BY <2>1, <2>3
<1>3. CASE Library /\ UNCHANGED searchVars
  <2>1. TypeOK' /\ ScanThreadsOK' /\ LibOK'
    <3>1. ASSUME NEW n \in Workers, Worker(n) PROVE TypeOK' /\ ScanThreadsOK' /\ LibOK'
      BY <3>1, WorkerTypes, WorkerThreads, WorkerPlays DEF LibOK
    <3>2. CASE ~\E n \in Workers : Worker(n)
      <4>1. \/ FirstFolders \/ ChangeFolders \/ Rescan \/ SetServerOnly \/ SyncRemote \/ ClearHistory \/ RecordPlay
            \/ \E t \in Tracks : RequestTagEdits(t) \/ SetStarred(t) \/ BeginPlay(t)
            \/ \E p \in view.history : RemoveHistoryEntry(p.id)
            \/ \E completed \in BOOLEAN : FinishPlay(completed)
        BY <1>3, <3>2 DEF Library
      <4>2. TypeOK' /\ ScanThreadsOK'
        BY <4>1, UiTypes, UiThreads
      <4>3. LibOK'
        BY <4>1, UiQuiet, BeginPlayLib, FinishPlayLib, RecordPlayLib
      <4> QED BY <4>2, <4>3
    <3> QED BY <3>1, <3>2
  <2>2. SInv'
    BY <1>3 DEF searchVars, SInv, SearchTypeOK, SearchOK, AnswerIsOfQuery, SearchIsAnswered
  <2> QED BY <2>1, <2>2
<1>4. CASE (SearchWorker \/ \E q \in Queries \cup {0} : Type(q)) /\ UNCHANGED viewVars
  <2>1. TypeOK' /\ ScanThreadsOK'
    BY <1>4 DEF viewVars, TypeOK, ScanThreadsOK, ScanningEnds
  <2>2. LibOK'
    BY <1>4 DEF viewVars, LibOK, PlaysOK, RowsOK, CopiesOK, CountedOnce, Stored, Queued
  <2>3. SInv'
    BY <1>4, WorkerSearch, TypeSearch DEF Texts
  <2> QED BY <2>1, <2>2, <2>3
<1> QED BY <1>1, <1>2, <1>3, <1>4 DEF Next

LEMMA Invariance == Spec => []Inv
BY InitInv, NextInv, PTL DEF Spec

\* No play is listed or stored twice, whatever snapshots replace the one shown
\* and whatever removes the row it began with.
THEOREM PlaysAreListedOnce == Spec => []OneRowPerPlay
<1>1. Inv => OneRowPerPlay
  BY DEF Inv, LibOK, RowsOK, Distinct, OneRowPerPlay
<1> QED BY <1>1, Invariance, PTL

\* The UI is never ahead of what is stored, what the recorder has still to store
\* and what the store refused it, also after a snapshot.
THEOREM PlaysAreCountedOnce == Spec => []CountedOnce
<1>1. Inv => CountedOnce
  BY DEF Inv, LibOK
<1> QED BY <1>1, Invariance, PTL

\* A scan shown as running runs, or its end is on the way, if a snapshot can be
\* read when the program starts.
THEOREM ScansShownEnd ==
  ASSUME "start" \notin Faults
  PROVE  Spec => []ScanningEnds
<1>1. Inv => ScanningEnds
  BY DEF Inv, ScanThreadsOK
<1> QED BY <1>1, Invariance, PTL

\* A search that does not wait shows what its text finds in the tracks it sent.
THEOREM AnswersAreOfTheirQuery == Spec => []AnswerIsOfQuery
<1>1. Inv => AnswerIsOfQuery
  BY DEF Inv, SInv, SearchOK
<1> QED BY <1>1, Invariance, PTL

\* A search that waits is answered: its query or its answer is on the way.
THEOREM SearchesAreAnswered == Spec => []SearchIsAnswered
<1>1. Inv => SearchIsAnswered
  BY DEF Inv, SInv
<1> QED BY <1>1, Invariance, PTL

-----------------------------------------------------------------------------
(***************************************************************************)
(* Stars: what the store and its copies hold, while no star is overtaken,  *)
(* refused or never shown.                                                 *)
(***************************************************************************)
SameStars(v, s) ==
  \A t \in Tracks : v.tracks[t] # 0 /\ s.tracks[t] # 0 => (t \in v.starred <=> t \in s.starred)

\* A snapshot that shows the stars of a sync is on its way, or will be.
NewsDue ==
  \/ Snapshots # {}
  \/ \E n \in Workers : worker[n].job = "sync" /\ worker[n].pc \in {"starred", "build", "built"}

StarsOK ==
  /\ SameStars(view, store) \/ NewsDue
  /\ \A n \in Workers : SameStars(worker[n].built, store)
  /\ \A i \in DOMAIN updates : SameStars(updates[i].view, store)

OnItsWay(t) ==
  \/ \E n \in Workers : worker[n].built.tracks[t] # 0
  \/ \E i \in DOMAIN updates : updates[i].view.tracks[t] # 0

\* A star is set, by the user or by a sync, while a snapshot that shows the track
\* is on its way.
StarOvertaken ==
  \E t \in Tracks : OnItsWay(t) /\ (SetStarred(t) \/ \E n \in Workers : SyncStars(n, t))

\* The user sets a star, but the store does not take it.
StarRefused ==
  \E t \in Tracks : SetStarred(t) /\ Stored(t) /\ ~(t \in view'.starred <=> t \in store'.starred)

\* A sync ends without the snapshot that brings its stars.
StarUnseen == \E n \in Workers : SyncFails(n)

LEMMA NoViewStars == ASSUME NEW s PROVE SameStars(NoView, s)
BY DEF SameStars, NoView

LEMMA StoreStars == ASSUME TypeOK, NEW only PROVE SameStars(FromStore(only), store)
BY DEF SameStars, FromStore, TypeOK, Contents, Stored

\* A step of the store that sets no star.
StoreKeepsStars ==
  \A t \in Tracks :
    store'.tracks[t] # 0 => store.tracks[t] # 0 /\ (t \in store'.starred <=> t \in store.starred)

LEMMA StarsStay ==
  ASSUME StoreKeepsStars, SameStars(view', store) \/ NewsDue',
         \A n \in Workers : SameStars(worker'[n].built, store),
         \A i \in DOMAIN updates' : SameStars(updates'[i].view, store)
  PROVE  StarsOK'
<1>1. \A v : SameStars(v, store) => SameStars(v, store')
  BY DEF StoreKeepsStars, SameStars
<1> QED BY <1>1 DEF StarsOK

\* Threads are numbered as they start.
Numbered == \A n \in Workers : worker[n].pc # "off" => n <= used.workers

LEMMA NextNumbered == ASSUME TypeOK, Numbered, [Next]_vars PROVE Numbered'
<1>1. ASSUME NEW job, NEW t, NEW only, Spawn(job, t, only) PROVE Numbered'
  <2>1. /\ used.workers \in Nat /\ used'.workers = used.workers + 1
        /\ \A n \in Workers : n # used.workers + 1 => worker'[n] = worker[n]
    BY <1>1 DEF Spawn, TypeOK
  <2>2. \A n \in Workers : n \in Nat
    BY ViewAssumption DEF Workers
  <2> QED BY <2>1, <2>2 DEF Numbered
<1>2. ASSUME NEW n \in Workers, Worker(n) PROVE Numbered'
  <2>1. worker[n].pc # "off" /\ UNCHANGED used /\ \A m \in Workers \ {n} : worker'[m] = worker[m]
    BY <1>2 DEF Worker, LoadSnapshot, LoadFails, SendLoaded, ScanChanges, ScanEnds, ScanFails,
       EditTags,
       EditFails, TakeSync, SyncStars, SyncEnds, SyncFails, Build, SendSnapshot, FinishScan, Sends, Keeps,
       Goes, Scans, Syncs, MayFail, TypeOK
  <2> QED BY <2>1 DEF Numbered
<1>3. CASE SyncRemote /\ QueuedSyncs # {}
  BY <1>3 DEF SyncRemote, Numbered, TypeOK, ViewThread
<1>4. CASE used'.workers = used.workers /\ UNCHANGED worker
  BY <1>4 DEF Numbered
<1>5. CASE UNCHANGED viewVars \/ TakeUpdates
  BY <1>4, <1>5 DEF viewVars, TakeUpdates
<1>6. CASE Library
  <2>1. CASE ClearHistory \/ RecordPlay \/ \E p \in view.history : RemoveHistoryEntry(p.id)
    BY <1>4, <2>1 DEF ClearHistory, RecordPlay, RemoveHistoryEntry, Click, TypeOK
  <2>2. CASE \E t \in Tracks : SetStarred(t) \/ BeginPlay(t)
    BY <1>4, <2>2 DEF SetStarred, BeginPlay, Click, TypeOK
  <2>3. CASE \E completed \in BOOLEAN : FinishPlay(completed)
    BY <1>4, <2>3 DEF FinishPlay
  <2>4. CASE SetServerOnly /\ ~Loaded
    BY <1>4, <2>4 DEF SetServerOnly, TypeOK
  <2> QED BY <1>1, <1>2, <1>3, <1>6, <2>1, <2>2, <2>3, <2>4 DEF Library, FirstFolders,
     ChangeFolders,
     Rescan, BeginScan, SetServerOnly, SyncRemote, RequestTagEdits
<1> QED BY <1>5, <1>6 DEF Next, Tick, vars

\* News is due until it is shown.
LEMMA NewsStays ==
  ASSUME TypeOK, NEW n \in Workers, Worker(n), ~StarUnseen, NewsDue
  PROVE  NewsDue'
<1>1. CASE SendLoaded(n) \/ SendSnapshot(n)
  <2>1. Snapshots' # {}
    <3>1. updates' = updates \o <<SnapshotOf(n), Finished(n)>> \/ updates' = updates \o <<SnapshotOf(n)>>
      BY <1>1 DEF SendLoaded, SendSnapshot, Sends
    <3>2. ASSUME NEW ms \in Seq(Update), Len(ms) \in Nat \ {0}, ms[1].type = "snapshot",
                 updates' = updates \o ms
          PROVE  Snapshots' # {}
      <4>1. /\ updates \o ms \in Seq(Update) /\ Len(updates \o ms) = Len(updates) + Len(ms)
            /\ \A i \in 1..(Len(updates) + Len(ms)) :
                 (updates \o ms)[i] = IF i <= Len(updates) THEN updates[i] ELSE ms[i - Len(updates)]
        BY ConcatProperties DEF TypeOK
      <4>2. Len(updates) \in Nat /\ DOMAIN updates' = 1..Len(updates')
        BY <3>2, <4>1, LenProperties DEF TypeOK
      <4>3. Len(updates) + 1 \in DOMAIN updates' /\ updates'[Len(updates) + 1] = ms[1]
        BY <3>2, <4>1, <4>2
      <4> QED BY <3>2, <4>3 DEF Snapshots
    <3>3. SnapshotOf(n).type = "snapshot"
      BY DEF SnapshotOf
    <3>4. <<SnapshotOf(n), Finished(n)>>[1].type = "snapshot" /\ <<SnapshotOf(n)>>[1].type = "snapshot"
      BY <3>3
    <3>5. CASE updates' = updates \o <<SnapshotOf(n), Finished(n)>>
      <4>1. <<SnapshotOf(n), Finished(n)>> \in Seq(Update) /\ Len(<<SnapshotOf(n), Finished(n)>>) \in Nat \ {0}
        BY MessagesAre
      <4> QED BY <3>2, <3>4, <3>5, <4>1
    <3>6. CASE updates' = updates \o <<SnapshotOf(n)>>
      <4>1. <<SnapshotOf(n)>> \in Seq(Update) /\ Len(<<SnapshotOf(n)>>) \in Nat \ {0}
        BY MessagesAre
      <4> QED BY <3>2, <3>4, <3>6, <4>1
    <3> QED BY <3>1, <3>5, <3>6
  <2> QED BY <2>1 DEF NewsDue
<1>2. CASE FinishScan(n)
  <2>1. updates' = updates \o <<Finished(n)>> /\ worker[n].pc = "finish"
        /\ worker' = [worker EXCEPT ![n].pc = "off", ![n].built = NoView]
    BY <1>2 DEF FinishScan, Sends
  <2>2. Snapshots \subseteq Snapshots'
    <3>1. /\ updates \o <<Finished(n)>> \in Seq(Update)
          /\ Len(updates \o <<Finished(n)>>) = Len(updates) + 1
          /\ \A i \in 1..(Len(updates) + 1) :
               (updates \o <<Finished(n)>>)[i] =
                 IF i <= Len(updates) THEN updates[i] ELSE <<Finished(n)>>[i - Len(updates)]
      BY MessagesAre, ConcatProperties DEF TypeOK
    <3>2. Len(updates) \in Nat /\ DOMAIN updates = 1..Len(updates) /\ DOMAIN updates' = 1..(Len(updates) + 1)
      BY <2>1, <3>1, LenProperties DEF TypeOK
    <3> QED BY <2>1, <3>1, <3>2 DEF Snapshots
  <2>3. \A m \in Workers : worker[m].pc # "finish" => worker'[m] = worker[m]
    BY <2>1 DEF TypeOK, ViewThread
  <2>4. CASE Snapshots # {}
    BY <2>2, <2>4 DEF NewsDue
  <2>5. CASE Snapshots = {}
    <3>1. PICK m \in Workers : worker[m].job = "sync" /\ worker[m].pc \in {"starred", "build", "built"}
      BY <2>5 DEF NewsDue
    <3>2. worker'[m] = worker[m]
      BY <2>3, <3>1
    <3> QED BY <3>1, <3>2 DEF NewsDue
  <2> QED BY <2>4, <2>5
<1>3. CASE ~(SendLoaded(n) \/ SendSnapshot(n) \/ FinishScan(n))
  <2>1. UNCHANGED updates
    BY <1>3 DEF Worker, LoadSnapshot, LoadFails, ScanChanges, ScanEnds, ScanFails, EditTags,
       EditFails, TakeSync, SyncStars, SyncEnds, SyncFails, Build
  <2>2. \A m \in Workers \ {n} : worker'[m] = worker[m]
    BY <1>3 DEF TypeOK, Worker, LoadSnapshot, LoadFails, ScanChanges, ScanEnds, ScanFails, EditTags,
       EditFails, TakeSync, SyncStars, SyncEnds, SyncFails, Build, Goes
  <2>3. worker[n].job = "sync" /\ worker[n].pc \in {"starred", "build", "built"} =>
          worker'[n].job = "sync" /\ worker'[n].pc \in {"starred", "build", "built"}
    BY <1>3 DEF TypeOK, ViewThread, Worker, LoadSnapshot, LoadFails, ScanChanges, ScanEnds,
       ScanFails, EditTags,
       EditFails, TakeSync, SyncStars, SyncEnds, SyncFails, StarUnseen, Build, Goes, Scans,
       MayFail, ScanJobs
  <2> QED BY <2>1, <2>2, <2>3 DEF NewsDue, Snapshots
<1> QED BY <1>1, <1>2, <1>3

LEMMA WorkerStars ==
  ASSUME TypeOK, StarsOK, NEW n \in Workers, Worker(n), ~\E t \in Tracks : SyncStars(n, t), ~StarUnseen
  PROVE  StarsOK'
<1>1. UNCHANGED view
  BY DEF Worker, LoadSnapshot, LoadFails, SendLoaded, ScanChanges, ScanEnds,
     ScanFails, EditTags, EditFails, TakeSync, SyncEnds, SyncFails, Build, SendSnapshot,
     FinishScan, Sends, Keeps
<1>2. StoreKeepsStars
  <2>1. CASE UNCHANGED store
    BY <2>1 DEF StoreKeepsStars
  <2>2. ASSUME NEW t \in Tracks, NEW v \in Tags \cup {0}, ScanChanges(n, t, v) PROVE StoreKeepsStars
    <3>1. CASE v = 0
      BY <2>2, <3>1 DEF ScanChanges, Without, TypeOK, Contents, StoreKeepsStars
    <3>2. CASE v # 0
      BY <2>2, <3>2 DEF ScanChanges, TypeOK, Contents, Stored, StoreKeepsStars
    <3> QED BY <3>1, <3>2
  <2>3. CASE \E v \in Tags : EditTags(n, v)
    BY <2>3 DEF EditTags, TypeOK, Contents, Stored, StoreKeepsStars
  <2> QED BY <2>1, <2>2, <2>3 DEF Worker, LoadSnapshot, LoadFails, SendLoaded, ScanEnds,
     ScanFails, EditFails, TakeSync, SyncEnds, SyncFails, Build, SendSnapshot, FinishScan, Sends
<1>3. \A m \in Workers : SameStars(worker'[m].built, store)
  BY WorkerBuilds, NoViewStars, StoreStars DEF StarsOK
<1>4. \A i \in DOMAIN updates' : SameStars(updates'[i].view, store)
  BY WorkerSends, NoViewStars DEF SentBy, StarsOK
<1>5. SameStars(view', store) \/ NewsDue'
  BY <1>1, NewsStays DEF StarsOK
<1> QED BY <1>2, <1>3, <1>4, <1>5, StarsStay

\* A star set while no copy shows the track.
LEMMA CopiesKeepStars ==
  ASSUME StarsOK, NEW t \in Tracks, ~OnItsWay(t), UNCHANGED updates, store'.tracks = store.tracks,
         \A n \in Workers : worker'[n].built = worker[n].built,
         \A u \in Tracks \ {t} : u \in store'.starred <=> u \in store.starred
  PROVE  /\ \A n \in Workers : SameStars(worker'[n].built, store')
         /\ \A i \in DOMAIN updates' : SameStars(updates'[i].view, store')
<1>1. \A v : v.tracks[t] = 0 /\ SameStars(v, store) => SameStars(v, store')
  BY DEF SameStars
<1> QED BY <1>1 DEF StarsOK, OnItsWay

LEMMA SyncStarsStars ==
  ASSUME TypeOK, StarsOK, NEW n \in Workers, NEW t \in Tracks, SyncStars(n, t), ~OnItsWay(t)
  PROVE  StarsOK'
<1>1. /\ UNCHANGED updates /\ store'.tracks = store.tracks
      /\ \A m \in Workers : worker'[m].built = worker[m].built
      /\ \A u \in Tracks \ {t} : u \in store'.starred <=> u \in store.starred
  <2>1. store \in Contents /\ worker \in [Workers -> ViewThread]
    BY DEF TypeOK
  <2>2. store'.tracks = store.tracks /\ \A u \in Tracks \ {t} : u \in store'.starred <=> u \in store.starred
    BY <2>1 DEF SyncStars, Contents
  <2>3. \A m \in Workers : worker'[m].built = worker[m].built
    BY <2>1 DEF SyncStars, Goes, ViewThread
  <2> QED BY <2>2, <2>3 DEF SyncStars
<1>2. worker'[n].job = "sync" /\ worker'[n].pc = "starred"
  BY DEF SyncStars, Syncs, Goes, TypeOK, ViewThread
<1> QED BY <1>1, <1>2, CopiesKeepStars DEF StarsOK, NewsDue

LEMMA SetStarredStars ==
  ASSUME TypeOK, StarsOK, NEW t \in Tracks, SetStarred(t), ~OnItsWay(t), ~StarRefused
  PROVE  StarsOK'
<1> DEFINE on == t \notin view.starred
<1>1. /\ UNCHANGED <<worker, updates>>
      /\ view' = Starred(view, t, on)
      /\ store' \in {store, Starred(store, t, on)}
      /\ Stored(t) => (t \in view'.starred <=> t \in store'.starred)
  BY DEF SetStarred, Click, Refused, StarRefused
<1> HIDE DEF on
<1>2. /\ view'.tracks = view.tracks /\ store'.tracks = store.tracks
      /\ \A u \in Tracks \ {t} : /\ u \in view'.starred <=> u \in view.starred
                                 /\ u \in store'.starred <=> u \in store.starred
  BY <1>1 DEF Starred, TypeOK, Contents
<1>3. SameStars(view, store) => SameStars(view', store')
  BY <1>1, <1>2 DEF SameStars, Stored
<1>4. NewsDue => NewsDue'
  BY <1>1 DEF NewsDue, Snapshots
<1> QED BY <1>1, <1>2, <1>3, <1>4, CopiesKeepStars DEF StarsOK

\* The other steps of the user interface and the recorder.
LEMMA UiStars ==
  ASSUME TypeOK, Numbered, StarsOK,
         \/ FirstFolders \/ ChangeFolders \/ Rescan \/ SetServerOnly \/ SyncRemote
         \/ ClearHistory \/ RecordPlay
         \/ \E t \in Tracks : RequestTagEdits(t) \/ BeginPlay(t)
         \/ \E p \in view.history : RemoveHistoryEntry(p.id)
         \/ \E completed \in BOOLEAN : FinishPlay(completed)
         \/ TakeUpdates
  PROVE  StarsOK'
<1>1. store'.tracks = store.tracks /\ store'.starred = store.starred
  <2>1. store \in Contents
    BY DEF TypeOK
  <2>2. CASE RecordPlay
    BY <2>1, <2>2 DEF RecordPlay, Stats, Recorded, Counted, Listed, Refused, Contents
  <2>3. CASE ClearHistory \/ \E p \in view.history : RemoveHistoryEntry(p.id)
    BY <2>1, <2>3 DEF ClearHistory, RemoveHistoryEntry, WithoutEntry, Refused, Contents
  <2>4. CASE \E t \in Tracks : BeginPlay(t)
    BY <2>1, <2>4 DEF BeginPlay, Listed, Refused, Contents
  <2>5. CASE UNCHANGED store
    BY <2>5
  <2> QED BY <2>2, <2>3, <2>4, <2>5 DEF FirstFolders, ChangeFolders, Rescan, BeginScan,
     SetServerOnly,
     SyncRemote, Spawn, RequestTagEdits, FinishPlay, TakeUpdates
<1>2. \A n \in Workers : /\ worker'[n].built \in {worker[n].built, NoView}
                         /\ worker[n].pc # "off" => worker'[n].pc = worker[n].pc /\ worker'[n].job = worker[n].job
  <2>1. ASSUME NEW job, NEW t, NEW only, Spawn(job, t, only)
        PROVE  \A n \in Workers : n # used.workers + 1 => worker'[n] = worker[n]
    BY <2>1 DEF Spawn, TypeOK
  <2>2. ASSUME NEW job, NEW t, NEW only, Spawn(job, t, only)
        PROVE  \A n \in Workers : n = used.workers + 1 => worker'[n].built = NoView /\ worker[n].pc = "off"
    <3>1. used.workers \in Nat
      BY DEF TypeOK
    <3> QED BY <2>2, <3>1 DEF Spawn, Unspawned, TypeOK, Numbered
  <2>3. CASE \E job, t, only : Spawn(job, t, only)
    BY <2>1, <2>2, <2>3
  <2>4. CASE UNCHANGED worker
    BY <2>4
  <2>5. CASE SyncRemote /\ QueuedSyncs # {}
    BY <2>5 DEF SyncRemote, TypeOK, ViewThread
  <2> QED BY <2>3, <2>4, <2>5 DEF FirstFolders, ChangeFolders, Rescan, BeginScan, SetServerOnly,
     SyncRemote,
     ClearHistory, RecordPlay, Click, RequestTagEdits, BeginPlay, RemoveHistoryEntry, FinishPlay, TakeUpdates
<1>3. UNCHANGED updates \/ updates' = <<>>
  BY DEF FirstFolders, ChangeFolders, Rescan, BeginScan, SetServerOnly, SyncRemote, Spawn,
     ClearHistory, RecordPlay,
     Click, RequestTagEdits, BeginPlay, RemoveHistoryEntry, FinishPlay, TakeUpdates
<1>4. SameStars(view', store) \/ NewsDue'
  <2>1. CASE TakeUpdates /\ Snapshots # {}
    <3>1. Len(updates) \in Nat /\ Snapshots \subseteq 0..Len(updates) /\ Snapshots \subseteq DOMAIN updates
      BY LenProperties DEF Snapshots, TypeOK
    <3>2. Max(Snapshots) \in DOMAIN updates
      BY <2>1, <3>1, MaxIsIn
    <3> QED BY <2>1, <3>2 DEF TakeUpdates, StarsOK
  <2>2. CASE ~(TakeUpdates /\ Snapshots # {})
    <3>1. view'.tracks = view.tracks /\ view'.starred = view.starred
      <4>1. view \in Contents
        BY DEF TypeOK
      <4>2. CASE ClearHistory \/ \E p \in view.history : RemoveHistoryEntry(p.id)
        BY <4>1, <4>2 DEF ClearHistory, RemoveHistoryEntry, WithoutEntry, Contents
      <4>3. CASE \E t \in Tracks : BeginPlay(t)
        BY <4>1, <4>3 DEF BeginPlay, Listed, Contents
      <4>4. CASE \E completed \in BOOLEAN : FinishPlay(completed)
        BY <4>1, <4>4 DEF FinishPlay, Counted, Contents
      <4>5. CASE UNCHANGED view
        BY <4>5
      <4> QED BY <2>2, <4>2, <4>3, <4>4, <4>5 DEF FirstFolders, ChangeFolders, Rescan, BeginScan,
         SetServerOnly, SyncRemote, Spawn, RecordPlay, RequestTagEdits, TakeUpdates
    <3>2. NewsDue => NewsDue'
      <4>1. Snapshots # {} => Snapshots' # {}
        <5>1. Snapshots # {} => UNCHANGED updates
          BY <2>2 DEF FirstFolders, ChangeFolders, Rescan, BeginScan, SetServerOnly, SyncRemote,
             Spawn,
             ClearHistory, RecordPlay, Click, RequestTagEdits, BeginPlay, RemoveHistoryEntry, FinishPlay
        <5> QED BY <5>1 DEF Snapshots
      <4> QED BY <1>2, <4>1 DEF NewsDue
    <3> QED BY <3>1, <3>2 DEF StarsOK, SameStars
  <2> QED BY <2>1, <2>2
<1>5. StoreKeepsStars
  BY <1>1 DEF StoreKeepsStars
<1>6. \A n \in Workers : SameStars(worker'[n].built, store)
  BY <1>2, NoViewStars DEF StarsOK
<1>7. \A i \in DOMAIN updates' : SameStars(updates'[i].view, store)
  BY <1>3 DEF StarsOK
<1> QED BY <1>4, <1>5, <1>6, <1>7, StarsStay

LEMMA InitStars == Init => Numbered /\ StarsOK
<1> SUFFICES ASSUME Init PROVE Numbered /\ StarsOK
  OBVIOUS
<1>1. view = NoView /\ updates = <<>> /\ \A n \in Workers : worker[n].built = NoView
  BY DEF Init, ViewInit, Unspawned
<1>2. Numbered
  BY DEF Init, ViewInit, Unspawned, Numbered
<1> QED BY <1>1, <1>2, NoViewStars DEF StarsOK

LEMMA NextStars ==
  ASSUME Inv, Numbered, StarsOK, [Next]_vars, ~StarOvertaken, ~StarRefused, ~StarUnseen
  PROVE  StarsOK'
<1>1. TypeOK
  BY DEF Inv
<1>2. CASE UNCHANGED viewVars
  BY <1>2 DEF viewVars, StarsOK, NewsDue, Snapshots
<1>3. CASE TakeUpdates
  BY <1>1, <1>3, UiStars
<1>4. CASE Library
  <2>1. ASSUME NEW n \in Workers, Worker(n) PROVE StarsOK'
    <3>1. ASSUME NEW t \in Tracks, SyncStars(n, t) PROVE StarsOK'
      BY <1>1, <3>1, SyncStarsStars DEF StarOvertaken
    <3> QED BY <1>1, <2>1, <3>1, WorkerStars
  <2>2. ASSUME NEW t \in Tracks, SetStarred(t) PROVE StarsOK'
    BY <1>1, <2>2, SetStarredStars DEF StarOvertaken
  <2>3. CASE ~(\E n \in Workers : Worker(n)) /\ ~(\E t \in Tracks : SetStarred(t))
    <3>1. \/ FirstFolders \/ ChangeFolders \/ Rescan \/ SetServerOnly \/ SyncRemote \/ ClearHistory \/ RecordPlay
          \/ \E t \in Tracks : RequestTagEdits(t) \/ BeginPlay(t)
          \/ \E p \in view.history : RemoveHistoryEntry(p.id)
          \/ \E completed \in BOOLEAN : FinishPlay(completed)
      BY <1>4, <2>3 DEF Library
    <3> QED BY <1>1, <3>1, UiStars
  <2> QED BY <2>1, <2>2, <2>3
<1> QED BY <1>2, <1>3, <1>4 DEF Next, Tick, vars

\* The stars shown of the tracks that are stored are right or about to be
\* replaced, and so are those of every snapshot on its way.
ShownStarsAreStored ==
  /\ \A t \in Tracks :
       Shown(t) /\ Stored(t) => (t \in view.starred <=> t \in store.starred) \/ NewsDue
  /\ \A i \in Snapshots, t \in Tracks :
       updates[i].view.tracks[t] # 0 /\ Stored(t) =>
         (t \in updates[i].view.starred <=> t \in store.starred)

\* The stars shown are those stored, or a snapshot that shows them is due,
\* whatever scans, edits, filters and syncs run and replace the snapshot, as long
\* as (1) no star is set, by the user or by a sync, while a snapshot that shows
\* the track is on its way (ui/src/backend/library/mod.rs:494), (2) the store
\* takes the stars the user sets (mod.rs:394) and (3) every sync can read its
\* snapshot in the end (ui/src/backend/library/remote.rs:216).
THEOREM ShownStarsAreRight ==
  Spec /\ [][~StarOvertaken /\ ~StarRefused /\ ~StarUnseen]_vars => []ShownStarsAreStored
<1> DEFINE Told == ~StarOvertaken /\ ~StarRefused /\ ~StarUnseen
<1>1. Inv /\ Numbered /\ StarsOK /\ [Next]_vars /\ [Told]_vars => Numbered' /\ StarsOK'
  <2> SUFFICES ASSUME Inv, Numbered, StarsOK, [Next]_vars, Told \/ UNCHANGED vars
               PROVE  Numbered' /\ StarsOK'
    OBVIOUS
  <2>1. UNCHANGED vars => StarsOK'
    BY DEF vars, viewVars, StarsOK, NewsDue, Snapshots
  <2> QED BY <2>1, NextStars, NextNumbered DEF Inv
<1>2. StarsOK => ShownStarsAreStored
  BY DEF StarsOK, SameStars, ShownStarsAreStored, Shown, Stored, Snapshots
<1> HIDE DEF Told
<1>3. Spec /\ [][Told]_vars => []ShownStarsAreStored
  BY <1>1, <1>2, InitStars, Invariance, PTL DEF Spec
<1> QED BY <1>3 DEF Told

-----------------------------------------------------------------------------
(***************************************************************************)
(* The image cache.                                                        *)
(***************************************************************************)
USE DEF At

Result == [key : Keys, image : BOOLEAN]

PoolOK ==
  /\ DOMAIN poolWorker = Pool
  /\ \A w \in Pool : poolWorker[w] = [pc |-> poolWorker[w].pc, key |-> poolWorker[w].key]
  /\ jobs \in Seq(Keys)

Free == {w \in Pool : At(w, "free")}
Due == IF ui = "notify" THEN 1 ELSE 0

LEMMA FreeFinite == IsFiniteSet(Free) /\ Cardinality(Free) \in Nat
BY CacheAssumption, FS_Subset, FS_CardinalityType DEF Free

\* The stack without its newest job.
LEMMA FrontIs ==
  ASSUME NEW S, NEW s \in Seq(S), s # <<>>
  PROVE  Front(s) \in Seq(S) /\ Len(Front(s)) = Len(s) - 1
<1> DEFINE n == Len(s) - 1
<1>1. Len(s) \in Nat /\ \A i \in 1..Len(s) : s[i] \in S
  BY LenProperties, ElementOfSeq
<1>2. Len(s) # 0
  BY EmptySeq
<1>3. n \in Nat /\ \A i \in 1..n : s[i] \in S
  BY <1>1, <1>2
<1> HIDE DEF n
<1>4. SubSeq(s, 1, n) \in Seq(S) /\ Len(SubSeq(s, 1, n)) = n
  BY <1>3, SubSeqProperties
<1> QED BY <1>4 DEF Front, n

(* Shape of the pool.                                                      *)
LEMMA InitPoolOK == CacheInit => PoolOK
BY DEF CacheInit, PoolOK, Unstarted

LEMMA NextPoolOK == PoolOK /\ [CacheNext]_imageVars => PoolOK'
<1> SUFFICES ASSUME PoolOK, [CacheNext]_imageVars PROVE PoolOK'
  OBVIOUS
<1>1. CASE UNCHANGED imageVars
  BY <1>1 DEF PoolOK, imageVars
<1>2. ASSUME NEW k \in Keys, UseImage(k) \/ UsePlaceholder(k) PROVE PoolOK'
  BY <1>2 DEF PoolOK, UseImage, UsePlaceholder, poolVars
<1>3. ASSUME NEW k \in Keys, Request(k) PROVE PoolOK'
  BY <1>3 DEF PoolOK, Request, Started, Unstarted
<1>4. CASE Notify
  BY <1>4 DEF PoolOK, Notify, Notifies
<1>5. CASE Frame \/ WakeTaken \/ Drain
  BY <1>5 DEF PoolOK, Frame, WakeTaken, Drain, poolVars
<1>6. CASE Drop
  BY <1>6 DEF PoolOK, Drop
<1>7. CASE NotifyAll
  BY <1>7 DEF PoolOK, NotifyAll
<1>8. ASSUME NEW w \in Pool, TakeJob(w) PROVE PoolOK'
  <2>1. jobs' \in Seq(Keys)
    BY <1>8, FrontIs DEF TakeJob, PoolOK
  <2> QED BY <1>8, <2>1 DEF PoolOK, TakeJob, Becomes
<1>9. ASSUME NEW w \in Pool, Wait(w) \/ Leave(w) \/ WaitEnds(w) \/ Disconnected(w) \/ Wake(w)
      PROVE PoolOK'
  BY <1>9 DEF PoolOK, Wait, Leave, WaitEnds, Disconnected, Wake, Becomes
<1>10. ASSUME NEW w \in Pool, NEW image \in BOOLEAN, Decoded(w, image) PROVE PoolOK'
  BY <1>10 DEF PoolOK, Decoded, Becomes
<1> QED BY <1>1, <1>2, <1>3, <1>4, <1>5, <1>6, <1>7, <1>8, <1>9, <1>10 DEF CacheNext, Thread

----------------------------------------------------------------------------

LEMMA InitNoIdleHands == CacheInit => NoIdleHands
BY DEF CacheInit, NoIdleHands, Unstarted

LEMMA NextNoIdleHands == PoolOK /\ NoIdleHands /\ [CacheNext]_imageVars => NoIdleHands'
<1> SUFFICES ASSUME PoolOK, NoIdleHands, [CacheNext]_imageVars,
                    NEW z \in Pool, At(z, "wait")', ~closed'
             PROVE (Len(jobs) <= Cardinality(Free) + Due)'
  BY DEF NoIdleHands, Free, Due
<1>a. (\E w \in Pool : At(w, "wait")) /\ ~closed => Len(jobs) <= Cardinality(Free) + Due
  BY DEF NoIdleHands, Free, Due
<1>b. Len(jobs) \in Nat /\ Cardinality(Free) \in Nat /\ IsFiniteSet(Free)
  BY FreeFinite DEF PoolOK
<1>c. IsFiniteSet(Free') /\ Cardinality(Free') \in Nat
  BY CacheAssumption, FS_Subset, FS_CardinalityType DEF Free
<1>1. CASE UNCHANGED imageVars
  <2>1. poolWorker' = poolWorker /\ closed' = closed /\ jobs' = jobs /\ ui' = ui
    BY <1>1 DEF imageVars
  <2>2. Free' = Free
    BY <2>1 DEF Free
  <2> QED BY <2>1, <2>2, <1>a DEF Due
<1>2. ASSUME NEW k \in Keys, UseImage(k) \/ UsePlaceholder(k) PROVE (Len(jobs) <= Cardinality(Free) + Due)'
  <2>1. poolWorker' = poolWorker /\ closed' = closed /\ jobs' = jobs /\ ui' = ui
    BY <1>2 DEF UseImage, UsePlaceholder, poolVars
  <2>2. Free' = Free
    BY <2>1 DEF Free
  <2> QED BY <2>1, <2>2, <1>a DEF Due
<1>3. ASSUME NEW k \in Keys, Request(k) PROVE (Len(jobs) <= Cardinality(Free) + Due)'
  <2>1. At(z, "wait") /\ ~closed /\ ui = "idle" /\ ui' = "notify" /\ Len(jobs') = Len(jobs) + 1
    BY <1>3 DEF Request, Started, Unstarted, PoolOK
  <2>2. Free \subseteq Free'
    BY <1>3 DEF Request, Started, Free
  <2>3. Cardinality(Free) <= Cardinality(Free')
    BY <2>2, <1>c, FS_Subset
  <2> QED BY <2>1, <2>3, <1>a, <1>b, <1>c DEF Due
<1>4. CASE Notify
  <2>1. PICK w \in Pool : At(w, "wait") /\ poolWorker' = [poolWorker EXCEPT ![w].pc = "free"]
    BY <1>4 DEF Notify, Notifies
  <2>2. Free' = Free \cup {w} /\ w \notin Free
    BY <2>1 DEF Free, PoolOK
  <2>3. Cardinality(Free') = Cardinality(Free) + 1
    BY <2>2, <1>b, FS_AddElement
  <2>4. ui = "notify" /\ ui' = "idle" /\ jobs' = jobs /\ closed' = closed
    BY <1>4 DEF Notify
  <2> QED BY <2>1, <2>3, <2>4, <1>a, <1>b, <1>c DEF Due
<1>5. CASE Frame \/ WakeTaken \/ Drain
  <2>1. poolWorker' = poolWorker /\ closed' = closed /\ jobs' = jobs /\ ui # "notify" /\ ui' # "notify"
    BY <1>5 DEF Frame, WakeTaken, Drain, poolVars
  <2>2. Free' = Free
    BY <2>1 DEF Free
  <2> QED BY <2>1, <2>2, <1>a DEF Due
<1>6. CASE Drop
  BY <1>6 DEF Drop
<1>7. CASE NotifyAll
  BY <1>7 DEF NotifyAll, PoolOK
<1>8. ASSUME NEW w \in Pool, TakeJob(w) PROVE (Len(jobs) <= Cardinality(Free) + Due)'
  <2>0. poolWorker' = [poolWorker EXCEPT ![w] = [pc |-> "decode", key |-> Last(jobs)]] /\ ~closed /\ ui' = ui
    BY <1>8 DEF TakeJob, Becomes
  <2>a. DOMAIN poolWorker = Pool /\ poolWorker'[z].pc = "wait"
    BY DEF PoolOK
  <2>b. poolWorker'[w].pc = "decode"
    BY <2>0, <2>a
  <2>c. poolWorker'[z] = poolWorker[z]
    BY <2>0, <2>a, <2>b
  <2>1. At(z, "wait") /\ ~closed /\ ui' = ui
    BY <2>0, <2>a, <2>c
  <2>2. Len(jobs') = Len(jobs) - 1
    BY <1>8, FrontIs DEF TakeJob, PoolOK
  <2>3. Free' = Free \ {w} /\ w \in Free
    BY <1>8 DEF TakeJob, Becomes, Free, PoolOK
  <2>4. Cardinality(Free') = Cardinality(Free) - 1
    BY <2>3, <1>b, FS_RemoveElement
  <2> QED BY <2>1, <2>2, <2>4, <1>a, <1>b DEF Due
<1>9. ASSUME NEW w \in Pool, Wait(w) PROVE (Len(jobs) <= Cardinality(Free) + Due)'
  BY <1>9, <1>c DEF Wait, Due
<1>10. ASSUME NEW w \in Pool, Leave(w) \/ Disconnected(w) PROVE FALSE
  BY <1>10 DEF Leave, Disconnected
<1>11. ASSUME NEW w \in Pool, WaitEnds(w) \/ Wake(w) \/ \E image \in BOOLEAN : Decoded(w, image)
       PROVE (Len(jobs) <= Cardinality(Free) + Due)'
  <2>1. (\E y \in Pool : At(y, "wait")) /\ ~closed /\ ui' = ui /\ jobs' = jobs
    <3>a. DOMAIN poolWorker = Pool /\ poolWorker'[z].pc = "wait"
      BY DEF PoolOK
    <3>b. PICK pc, key : pc # "wait" /\ poolWorker' = [poolWorker EXCEPT ![w] = [pc |-> pc, key |-> key]]
      BY <1>11 DEF WaitEnds, Wake, Decoded, Becomes
    <3>c. poolWorker'[w].pc = pc
      BY <3>a, <3>b
    <3>d. poolWorker'[z] = poolWorker[z]
      BY <3>a, <3>b, <3>c
    <3>e. ~closed /\ ui' = ui /\ jobs' = jobs
      <4>1. CASE WaitEnds(w)
        BY <4>1 DEF WaitEnds
      <4>2. CASE Wake(w)
        BY <4>2 DEF Wake
      <4>3. ASSUME NEW image \in BOOLEAN, Decoded(w, image)
            PROVE ~closed /\ ui' = ui /\ jobs' = jobs
        BY <4>3 DEF Decoded
      <4> QED BY <1>11, <4>1, <4>2, <4>3
    <3> QED BY <3>a, <3>d, <3>e
  <2>2. Free \subseteq Free'
    BY <1>11 DEF WaitEnds, Wake, Decoded, Becomes, Free, PoolOK
  <2>3. Cardinality(Free) <= Cardinality(Free')
    BY <2>2, <1>c, FS_Subset
  <2> QED BY <2>1, <2>3, <1>a, <1>b, <1>c DEF Due
<1> QED BY <1>1, <1>2, <1>3, <1>4, <1>5, <1>6, <1>7, <1>8, <1>9, <1>10, <1>11 DEF CacheNext, Thread

----------------------------------------------------------------------------

LEMMA InitResultsWake == CacheInit => ResultsWake
BY DEF CacheInit, ResultsWake, Results

LEMMA NextResultsWake == PoolOK /\ ResultsWake /\ [CacheNext]_imageVars => ResultsWake'
<1> SUFFICES ASSUME PoolOK, ResultsWake, [CacheNext]_imageVars, Results' # <<>>, ~closed'
             PROVE (woken \/ ui = "frame" \/ \E w \in Pool : At(w, "wake"))'
  BY DEF ResultsWake
<1>a. Results # <<>> /\ ~closed => woken \/ ui = "frame" \/ \E w \in Pool : At(w, "wake")
  BY DEF ResultsWake
<1>1. CASE UNCHANGED imageVars
  BY <1>1, <1>a DEF imageVars, Results
<1>2. ASSUME NEW k \in Keys, UseImage(k) \/ UsePlaceholder(k) \/ Request(k)
      PROVE (woken \/ ui = "frame" \/ \E w \in Pool : At(w, "wake"))'
  BY <1>2, <1>a DEF UseImage, UsePlaceholder, Request, Started, poolVars, Results, PoolOK
<1>3. CASE Notify
  BY <1>3, <1>a DEF Notify, Notifies, cacheVars, Results, PoolOK
<1>4. CASE Frame \/ WakeTaken
  BY <1>4 DEF Frame, WakeTaken
<1>5. CASE Drain
  <2>1. woken' = (woken \/ WakesFor(Rest(pending \o finished)))
    BY <1>5 DEF Drain
  <2>2. Results' = Rest(pending \o finished) \o <<>>
    BY <1>5 DEF Drain, Results
  <2>3. Rest(pending \o finished) # <<>>
    BY <2>2
  <2> QED BY <2>1, <2>3 DEF WakesFor
<1>6. CASE Drop \/ NotifyAll
  BY <1>6, <1>a DEF Drop, NotifyAll, cacheVars, Results, PoolOK
<1>7. ASSUME NEW w \in Pool, TakeJob(w) \/ Wait(w) \/ Leave(w) \/ Disconnected(w) \/ WaitEnds(w)
      PROVE (woken \/ ui = "frame" \/ \E y \in Pool : At(y, "wake"))'
  <2>1. Results' = Results /\ woken' = woken /\ ui' = ui /\ closed' = closed
    BY <1>7 DEF TakeJob, Wait, Leave, Disconnected, WaitEnds, Becomes, cacheVars, Results
  <2>2. ~At(w, "wake")
    BY <1>7 DEF TakeJob, Wait, Leave, Disconnected, WaitEnds
  <2>3. \A y \in Pool \ {w} : poolWorker'[y] = poolWorker[y]
    BY <1>7 DEF TakeJob, Wait, Leave, Disconnected, WaitEnds, Becomes, PoolOK
  <2>4. ~closed /\ Results # <<>>
    BY <2>1
  <2>5. CASE woken \/ ui = "frame"
    BY <2>1, <2>5
  <2>6. ASSUME NEW y \in Pool, At(y, "wake") PROVE At(y, "wake")'
    BY <2>2, <2>3, <2>6
  <2> QED BY <2>4, <2>5, <2>6, <1>a
<1>8. ASSUME NEW w \in Pool, Wake(w) \/ \E image \in BOOLEAN : Decoded(w, image)
      PROVE (woken \/ ui = "frame" \/ \E y \in Pool : At(y, "wake"))'
  <2>1. CASE Wake(w)
    BY <2>1 DEF Wake
  <2>2. ASSUME NEW image \in BOOLEAN, Decoded(w, image) PROVE At(w, "wake")'
    BY <2>2 DEF Decoded, Becomes, PoolOK
  <2> QED BY <1>8, <2>1, <2>2
<1> QED BY <1>1, <1>2, <1>3, <1>4, <1>5, <1>6, <1>7, <1>8 DEF CacheNext, Thread

----------------------------------------------------------------------------
(* Counting up to n: induction over what the recursive functions compute.  *)

LEMMA CountUp ==
  ASSUME NEW n \in Nat, NEW S, 0 \in S, \A i \in 1..n : i - 1 \in S => i \in S
  PROVE  \A i \in 0..n : i \in S
<1> DEFINE B == {i \in 0..n : i \notin S}
<1> SUFFICES ASSUME B # {} PROVE FALSE
  OBVIOUS
<1>1. B \subseteq Nat
  OBVIOUS
<1>2. PICK m \in B : \A i \in B : ~(<<i, m>> \in OpToRel(<, Nat))
  BY <1>1, NatLessThanWellFounded, WFMin
<1>3. m # 0 /\ m \in 1..n
  OBVIOUS
<1>4. m - 1 \notin B
  <2>1. m - 1 \in Nat /\ m \in Nat /\ m - 1 < m
    BY <1>1, <1>3
  <2>2. <<m - 1, m>> \in OpToRel(<, Nat)
    BY <2>1 DEF OpToRel
  <2> QED BY <1>2, <2>2
<1>5. m - 1 \in S
  <2>1. m - 1 \in 0..n
    BY <1>3
  <2> QED BY <1>4, <2>1
<1> QED BY <1>3, <1>5

\* The running sums of the sizes of ks.
Sums(ks, n, f) ==
  /\ f \in [0..n -> Nat] /\ f[0] = 0
  /\ \A i \in 1..n : f[i] = f[i - 1] + Bytes[ks[i]]

LEMMA SumsExist == ASSUME NEW ks \in Seq(Keys) PROVE \E f : Sums(ks, Len(ks), f)
<1> DEFINE n == Len(ks)
           S == {i \in 0..n : \E f : Sums(ks, i, f)}
<1>1. n \in Nat /\ \A i \in 1..n : Bytes[ks[i]] \in Nat
  BY CacheAssumption, LenProperties
<1> HIDE DEF n
<1>2. 0 \in S
  <2>1. Sums(ks, 0, [j \in 0..0 |-> 0])
    BY DEF Sums
  <2> QED BY <1>1, <2>1
<1>3. ASSUME NEW i \in 1..n, i - 1 \in S PROVE i \in S
  <2>1. PICK f : Sums(ks, i - 1, f)
    BY <1>3
  <2> DEFINE b == Bytes[ks[i]]
             g == [j \in 0..i |-> IF j = i THEN f[i - 1] + b ELSE f[j]]
  <2>2. b \in Nat /\ i - 1 \in Nat /\ i \in Nat
    BY <1>1
  <2>3. f[i - 1] \in Nat /\ f[0] = 0 /\ i - 1 \in 0..(i - 1) /\ \A j \in 0..(i - 1) : f[j] \in Nat
    BY <2>1, <2>2 DEF Sums
  <2> HIDE DEF b
  <2>4. g \in [0..i -> Nat] /\ g[0] = 0
    BY <2>2, <2>3
  <2>5. ASSUME NEW j \in 1..i PROVE g[j] = g[j - 1] + Bytes[ks[j]]
    <3>1. CASE j = i
      BY <2>2, <3>1 DEF b
    <3>2. CASE j # i
      <4>1. j \in 1..(i - 1) /\ j - 1 \in 0..(i - 1) /\ j \in 0..i /\ j - 1 \in 0..i
            /\ j - 1 # i /\ j # i
        BY <2>2, <3>2
      <4>2. g[j] = f[j] /\ g[j - 1] = f[j - 1]
        BY <4>1
      <4> HIDE DEF g
      <4> QED BY <2>1, <4>1, <4>2 DEF Sums
    <3> QED BY <3>1, <3>2
  <2> HIDE DEF g
  <2>6. Sums(ks, i, g)
    BY <2>4, <2>5 DEF Sums
  <2> QED BY <1>3, <2>6
<1> HIDE DEF S
<1>4. n \in S
  <2>1. \A i \in 1..n : i - 1 \in S => i \in S
    BY <1>3
  <2>2. \A i \in 0..n : i \in S
    BY <1>1, <1>2, <2>1, CountUp
  <2>3. n \in 0..n
    BY <1>1
  <2> QED BY <2>2, <2>3
<1> QED BY <1>4 DEF S, n

LEMMA SizeIs ==
  ASSUME NEW ks \in Seq(Keys), NEW f, Sums(ks, Len(ks), f) PROVE Size(ks) = f[Len(ks)]
<1> DEFINE n == Len(ks)
           Sum(g) == g = [i \in 0..n |-> IF i = 0 THEN 0 ELSE g[i - 1] + Bytes[ks[i]]]
           h == CHOOSE g : Sum(g)
<1>1. n \in Nat
  BY LenProperties
<1>2. Size(ks) = h[n]
  BY DEF Size
<1> HIDE DEF n, h
<1>3. Sum(f)
  <2>1. \A i \in 0..n : i # 0 => i \in 1..n
    BY <1>1
  <2>2. f = [i \in 0..n |-> f[i]]
    BY DEF Sums, n
  <2>3. \A i \in 0..n : f[i] = IF i = 0 THEN 0 ELSE f[i - 1] + Bytes[ks[i]]
    BY <2>1 DEF Sums, n
  <2> QED BY <2>2, <2>3
<1>4. Sum(h)
  BY <1>3 DEF h
<1> DEFINE S == {i \in 0..n : h[i] = f[i]}
<1>5. 0 \in S
  BY <1>1, <1>3, <1>4
<1>6. ASSUME NEW i \in 1..n, i - 1 \in S PROVE i \in S
  <2>1. i \in 0..n /\ i # 0 /\ h[i - 1] = f[i - 1]
    BY <1>1, <1>6
  <2>2. h[i] = h[i - 1] + Bytes[ks[i]] /\ f[i] = f[i - 1] + Bytes[ks[i]]
    BY <1>3, <1>4, <2>1
  <2> QED BY <2>1, <2>2
<1> HIDE DEF S, Sum
<1>7. n \in S
  <2>1. \A i \in 1..n : i - 1 \in S => i \in S
    BY <1>6
  <2>2. \A i \in 0..n : i \in S
    BY <1>1, <1>5, <2>1, CountUp
  <2>3. n \in 0..n
    BY <1>1
  <2> QED BY <2>2, <2>3
<1> QED BY <1>2, <1>7 DEF S, n

LEMMA SizeConcat ==
  ASSUME NEW s \in Seq(Keys), NEW t \in Seq(Keys)
  PROVE  Size(s) \in Nat /\ Size(t) \in Nat /\ Size(s \o t) = Size(s) + Size(t)
<1> DEFINE m == Len(s)
           n == Len(t)
<1>1. m \in Nat /\ n \in Nat
  BY LenProperties
<1>2. PICK f : Sums(s, m, f)
  BY SumsExist
<1>3. PICK g : Sums(t, n, g)
  BY SumsExist
<1>4. Size(s) = f[m] /\ Size(t) = g[n]
  BY <1>2, <1>3, SizeIs
<1>5. /\ s \o t \in Seq(Keys) /\ Len(s \o t) = m + n
      /\ \A i \in 1..(m + n) : (s \o t)[i] = IF i <= m THEN s[i] ELSE t[i - m]
  BY ConcatProperties
<1> HIDE DEF m, n
<1> DEFINE h == [i \in 0..(m + n) |-> IF i <= m THEN f[i] ELSE f[m] + g[i - m]]
<1>6. f[m] \in Nat /\ g[n] \in Nat /\ g[0] = 0
  BY <1>1, <1>2, <1>3 DEF Sums
<1>7. h \in [0..(m + n) -> Nat]
  <2>1. ASSUME NEW i \in 0..(m + n), i <= m PROVE f[i] \in Nat
    BY <1>1, <1>2, <2>1 DEF Sums
  <2>2. ASSUME NEW i \in 0..(m + n), ~(i <= m) PROVE f[m] + g[i - m] \in Nat
    <3>1. i - m \in 0..n
      BY <1>1, <2>2
    <3>2. g[i - m] \in Nat
      BY <1>3, <3>1 DEF Sums
    <3> QED BY <1>6, <3>2
  <2> QED BY <2>1, <2>2
<1>8. h[0] = 0
  BY <1>1, <1>2 DEF Sums
<1>9. ASSUME NEW i \in 1..(m + n) PROVE h[i] = h[i - 1] + Bytes[(s \o t)[i]]
  <2>0. i \in 0..(m + n) /\ i - 1 \in 0..(m + n)
    BY <1>1
  <2>1. CASE i <= m
    <3>1. h[i] = f[i] /\ h[i - 1] = f[i - 1] /\ (s \o t)[i] = s[i] /\ i \in 1..m
      BY <1>1, <1>5, <2>0, <2>1
    <3> HIDE DEF h
    <3> QED BY <1>2, <3>1 DEF Sums
  <2>2. CASE ~(i <= m)
    <3> DEFINE j == i - m
    <3>1. j \in 1..n /\ (s \o t)[i] = t[j] /\ h[i] = f[m] + g[j]
      BY <1>1, <1>5, <2>0, <2>2
    <3>2. h[i - 1] = f[m] + g[j - 1]
      <4>1. CASE i - 1 = m
        <5>1. j - 1 = 0 /\ i - 1 <= m
          BY <1>1, <4>1
        <5>2. h[i - 1] = f[m]
          BY <2>0, <4>1, <5>1
        <5> HIDE DEF h, j
        <5> QED BY <1>6, <5>1, <5>2
      <4>2. CASE i - 1 # m
        <5>1. ~(i - 1 <= m) /\ (i - 1) - m = j - 1
          BY <1>1, <2>2, <4>2
        <5> QED BY <2>0, <5>1
      <4> QED BY <4>1, <4>2
    <3>3. g[j] = g[j - 1] + Bytes[t[j]]
      BY <1>3, <3>1 DEF Sums
    <3>4. g[j - 1] \in Nat /\ g[j] \in Nat /\ Bytes[t[j]] \in Nat
      <4>1. j - 1 \in 0..n /\ j \in 0..n
        BY <1>1, <3>1
      <4>2. t[j] \in Keys
        BY <3>1, ElementOfSeq DEF n
      <4> HIDE DEF j
      <4> QED BY <1>3, <4>1, <4>2, CacheAssumption DEF Sums
    <3> HIDE DEF h, j
    <3> QED BY <1>6, <3>1, <3>2, <3>3, <3>4
  <2> QED BY <2>1, <2>2
<1> HIDE DEF h
<1>10. Sums(s \o t, m + n, h)
  BY <1>7, <1>8, <1>9 DEF Sums
<1>11. Size(s \o t) = h[m + n]
  BY <1>5, <1>10, SizeIs
<1>12. h[m + n] = f[m] + g[n]
  <2>1. CASE n = 0
    <3>1. m + n = m /\ m <= m /\ m \in 0..(m + n)
      BY <1>1, <2>1
    <3>2. h[m + n] = f[m]
      BY <3>1 DEF h
    <3> QED BY <1>6, <2>1, <3>2
  <2>2. CASE n # 0
    <3>1. ~(m + n <= m) /\ (m + n) - m = n /\ m + n \in 0..(m + n)
      BY <1>1, <2>2
    <3> QED BY <3>1 DEF h
  <2> QED BY <2>1, <2>2
<1> QED BY <1>4, <1>6, <1>11, <1>12

LEMMA SizeOne == ASSUME NEW k \in Keys PROVE <<k>> \in Seq(Keys) /\ Size(<<k>>) = Bytes[k]
<1>1. <<k>> \in Seq(Keys) /\ Len(<<k>>) = 1 /\ <<k>>[1] = k
  OBVIOUS
<1>2. Bytes[k] \in Nat
  BY CacheAssumption
<1> DEFINE f == [i \in 0..1 |-> IF i = 0 THEN 0 ELSE Bytes[k]]
<1>3. Sums(<<k>>, 1, f)
  <2>1. f \in [0..1 -> Nat] /\ f[0] = 0 /\ f[1] = Bytes[k] /\ 1 - 1 = 0
    BY <1>2
  <2> HIDE DEF f
  <2>2. \A i \in 1..1 : i = 1
    OBVIOUS
  <2>3. f[1] = f[1 - 1] + Bytes[<<k>>[1]]
    BY <1>1, <1>2, <2>1
  <2> QED BY <2>1, <2>2, <2>3 DEF Sums
<1>4. f[1] = Bytes[k]
  OBVIOUS
<1> QED BY <1>1, <1>3, <1>4, SizeIs

LEMMA SizeEmpty == Size(<<>>) = 0
<1>1. <<>> \in Seq(Keys) /\ Len(<<>>) = 0
  BY EmptySeq
<1>2. Sums(<<>>, 0, [i \in 0..0 |-> 0])
  BY DEF Sums
<1> QED BY <1>1, <1>2, SizeIs

----------------------------------------------------------------------------
(* What Among keeps.                                                        *)

\* The first n elements of s, filtered one by one.
Sieve(s, S, T, n, f) ==
  /\ f \in [0..n -> Seq(S)] /\ f[0] = <<>>
  /\ \A i \in 1..n : f[i] = IF s[i] \in T THEN Append(f[i - 1], s[i]) ELSE f[i - 1]

LEMMA SieveExists == ASSUME NEW S, NEW s \in Seq(S), NEW T PROVE \E f : Sieve(s, S, T, Len(s), f)
<1> DEFINE n == Len(s)
           N == {i \in 0..n : \E f : Sieve(s, S, T, i, f)}
<1>1. n \in Nat /\ \A i \in 1..n : s[i] \in S
  BY LenProperties, ElementOfSeq
<1> HIDE DEF n
<1>2. 0 \in N
  <2>1. <<>> \in Seq(S)
    BY EmptySeq
  <2>2. Sieve(s, S, T, 0, [j \in 0..0 |-> <<>>])
    BY <2>1 DEF Sieve
  <2> QED BY <1>1, <2>2
<1>3. ASSUME NEW i \in 1..n, i - 1 \in N PROVE i \in N
  <2>1. PICK f : Sieve(s, S, T, i - 1, f)
    BY <1>3
  <2> DEFINE v == IF s[i] \in T THEN Append(f[i - 1], s[i]) ELSE f[i - 1]
             g == [j \in 0..i |-> IF j = i THEN v ELSE f[j]]
  <2>2. i - 1 \in Nat /\ i \in Nat /\ s[i] \in S
    BY <1>1
  <2>3. f[0] = <<>> /\ i - 1 \in 0..(i - 1) /\ \A j \in 0..(i - 1) : f[j] \in Seq(S)
    BY <2>1, <2>2 DEF Sieve
  <2>4. v \in Seq(S)
    BY <2>2, <2>3, AppendProperties
  <2> HIDE DEF v
  <2>5. g \in [0..i -> Seq(S)] /\ g[0] = <<>>
    BY <2>2, <2>3, <2>4
  <2>6. ASSUME NEW j \in 1..i PROVE g[j] = IF s[j] \in T THEN Append(g[j - 1], s[j]) ELSE g[j - 1]
    <3>1. CASE j = i
      <4>1. g[j] = v /\ g[j - 1] = f[i - 1]
        BY <2>2, <3>1
      <4> HIDE DEF g
      <4> QED BY <3>1, <4>1 DEF v
    <3>2. CASE j # i
      <4>1. j \in 1..(i - 1) /\ j - 1 \in 0..(i - 1) /\ j \in 0..i /\ j - 1 \in 0..i
            /\ j - 1 # i /\ j # i
        BY <2>2, <3>2
      <4>2. g[j] = f[j] /\ g[j - 1] = f[j - 1]
        BY <4>1
      <4> HIDE DEF g
      <4> QED BY <2>1, <4>1, <4>2 DEF Sieve
    <3> QED BY <3>1, <3>2
  <2> HIDE DEF g
  <2>7. Sieve(s, S, T, i, g)
    BY <2>5, <2>6 DEF Sieve
  <2> QED BY <1>3, <2>7
<1> HIDE DEF N
<1>4. n \in N
  <2>1. \A i \in 1..n : i - 1 \in N => i \in N
    BY <1>3
  <2>2. \A i \in 0..n : i \in N
    BY <1>1, <1>2, <2>1, CountUp
  <2>3. n \in 0..n
    BY <1>1
  <2> QED BY <2>2, <2>3
<1> QED BY <1>4 DEF N, n

LEMMA AmongIs ==
  ASSUME NEW S, NEW s \in Seq(S), NEW T, NEW f, Sieve(s, S, T, Len(s), f)
  PROVE  Among(s, T) = f[Len(s)]
<1> DEFINE n == Len(s)
           Kept(g) == g = [i \in 0..n |-> IF i = 0 THEN <<>>
                                          ELSE IF s[i] \in T THEN Append(g[i - 1], s[i]) ELSE g[i - 1]]
           h == CHOOSE g : Kept(g)
<1>1. n \in Nat
  BY LenProperties
<1>2. Among(s, T) = h[n]
  BY DEF Among
<1> HIDE DEF n, h
<1>3. Kept(f)
  <2>1. \A i \in 0..n : i # 0 => i \in 1..n
    BY <1>1
  <2>2. f = [i \in 0..n |-> f[i]]
    BY DEF Sieve, n
  <2>3. \A i \in 0..n : f[i] = IF i = 0 THEN <<>>
                                ELSE IF s[i] \in T THEN Append(f[i - 1], s[i]) ELSE f[i - 1]
    BY <2>1 DEF Sieve, n
  <2> QED BY <2>2, <2>3
<1>4. Kept(h)
  BY <1>3 DEF h
<1> DEFINE N == {i \in 0..n : h[i] = f[i]}
<1>5. 0 \in N
  BY <1>1, <1>3, <1>4
<1>6. ASSUME NEW i \in 1..n, i - 1 \in N PROVE i \in N
  <2>1. i \in 0..n /\ i # 0 /\ h[i - 1] = f[i - 1]
    BY <1>1, <1>6
  <2>2. /\ h[i] = IF s[i] \in T THEN Append(h[i - 1], s[i]) ELSE h[i - 1]
        /\ f[i] = IF s[i] \in T THEN Append(f[i - 1], s[i]) ELSE f[i - 1]
    BY <1>3, <1>4, <2>1
  <2> QED BY <2>1, <2>2
<1> HIDE DEF N, Kept
<1>7. n \in N
  <2>1. \A i \in 1..n : i - 1 \in N => i \in N
    BY <1>6
  <2>2. \A i \in 0..n : i \in N
    BY <1>1, <1>5, <2>1, CountUp
  <2>3. n \in 0..n
    BY <1>1
  <2> QED BY <2>2, <2>3
<1> QED BY <1>2, <1>7 DEF N, n

\* Among keeps elements of s, each once, and all of them when all are in T.
LEMMA AmongKeeps ==
  ASSUME NEW S, NEW s \in Seq(S), NEW T
  PROVE  /\ Among(s, T) \in Seq(S)
         /\ \A a \in 1..Len(Among(s, T)) : \E j \in 1..Len(s) : Among(s, T)[a] = s[j]
         /\ IsInjective(s) => IsInjective(Among(s, T))
         /\ (\A i \in 1..Len(s) : s[i] \in T) => Among(s, T) = s
<1> DEFINE n == Len(s)
<1>1. n \in Nat /\ DOMAIN s = 1..n /\ \A i \in 1..n : s[i] \in S
  BY LenProperties, ElementOfSeq
<1>2. PICK f : Sieve(s, S, T, n, f)
  BY SieveExists
<1>3. Among(s, T) = f[n]
  BY <1>2, AmongIs
<1> HIDE DEF n
<1> DEFINE Whole(i) == (\A j \in 1..n : s[j] \in T) => Len(f[i]) = i /\ \A a \in 1..i : f[i][a] = s[a]
           From(i) == \A a \in 1..Len(f[i]) : \E j \in 1..i : f[i][a] = s[j]
           Once(i) == IsInjective(s) => \A a, b \in 1..Len(f[i]) : f[i][a] = f[i][b] => a = b
           N == {i \in 0..n : Whole(i) /\ From(i) /\ Once(i)}
<1>4. \A i \in 0..n : f[i] \in Seq(S) /\ Len(f[i]) \in Nat /\ DOMAIN f[i] = 1..Len(f[i])
  <2>1. \A i \in 0..n : f[i] \in Seq(S)
    BY <1>2 DEF Sieve
  <2> QED BY <2>1, LenProperties
<1>5. 0 \in N
  <2>1. f[0] = <<>> /\ Len(f[0]) = 0 /\ 0 \in 0..n
    BY <1>1, <1>2 DEF Sieve
  <2> QED BY <2>1
<1>6. ASSUME NEW i \in 1..n, i - 1 \in N PROVE i \in N
  <2>1. Whole(i - 1) /\ From(i - 1) /\ Once(i - 1) /\ i - 1 \in 0..n /\ i \in 0..n
    BY <1>1, <1>6
  <2>2. f[i] = IF s[i] \in T THEN Append(f[i - 1], s[i]) ELSE f[i - 1]
    BY <1>2 DEF Sieve
  <2> DEFINE m == Len(f[i - 1])
  <2>3. m \in Nat /\ f[i - 1] \in Seq(S) /\ s[i] \in S
    BY <1>1, <1>4, <2>1
  <2>4. CASE s[i] \notin T
    <3>1. f[i] = f[i - 1] /\ 1..(i - 1) \subseteq 1..i
      BY <1>1, <2>2, <2>4
    <3>2. Whole(i)
      BY <2>4
    <3>3. From(i)
      BY <2>1, <3>1
    <3>4. Once(i)
      BY <2>1, <3>1
    <3> QED BY <2>1, <3>2, <3>3, <3>4
  <2>5. CASE s[i] \in T
    <3>1. /\ Len(f[i]) = m + 1 /\ f[i][m + 1] = s[i]
          /\ \A a \in 1..m : f[i][a] = f[i - 1][a]
      BY <2>2, <2>3, <2>5, AppendProperties
    <3>2. \A a \in 1..(m + 1) : a = m + 1 \/ a \in 1..m
      BY <2>3
    <3>3. i \in 1..i /\ 1..(i - 1) \subseteq 1..i /\ \A j \in 1..(i - 1) : j # i /\ j \in 1..n
      BY <1>1
    <3>4. Whole(i)
      <4> SUFFICES ASSUME \A j \in 1..n : s[j] \in T
                   PROVE Len(f[i]) = i /\ \A a \in 1..i : f[i][a] = s[a]
        OBVIOUS
      <4>1. m = i - 1 /\ \A a \in 1..(i - 1) : f[i - 1][a] = s[a]
        BY <2>1
      <4>2. m + 1 = i
        BY <1>1, <4>1
      <4> HIDE DEF m
      <4> QED BY <3>1, <3>2, <4>1, <4>2
    <3>5. From(i)
      BY <2>1, <3>1, <3>2, <3>3
    <3>6. Once(i)
      <4> SUFFICES ASSUME IsInjective(s), NEW a \in 1..Len(f[i]), NEW b \in 1..Len(f[i]),
                          f[i][a] = f[i][b]
                   PROVE a = b
        OBVIOUS
      <4>1. \A c \in 1..m : f[i][c] # s[i]
        <5>1. ASSUME NEW c \in 1..m, f[i][c] = s[i] PROVE FALSE
          <6>1. PICK j \in 1..(i - 1) : f[i - 1][c] = s[j]
            BY <2>1
          <6>2. s[j] = s[i] /\ j \in DOMAIN s /\ i \in DOMAIN s /\ j # i
            BY <1>1, <3>1, <3>3, <5>1, <6>1
          <6> QED BY <6>2 DEF IsInjective
        <5> QED BY <5>1
      <4>2. CASE a \in 1..m /\ b \in 1..m
        BY <2>1, <3>1, <4>2
      <4> HIDE DEF m
      <4> QED BY <3>1, <3>2, <4>1, <4>2
    <3> QED BY <2>1, <3>4, <3>5, <3>6
  <2> QED BY <2>4, <2>5
<1>7. n \in N
  <2> HIDE DEF N
  <2>1. \A i \in 1..n : i - 1 \in N => i \in N
    BY <1>6
  <2>2. \A i \in 0..n : i \in N
    BY <1>1, <1>5, <2>1, CountUp
  <2>3. n \in 0..n
    BY <1>1
  <2> QED BY <2>2, <2>3
<1>8. f[n] \in Seq(S) /\ DOMAIN f[n] = 1..Len(f[n])
  BY <1>1, <1>4
<1>9. IsInjective(s) => IsInjective(f[n])
  BY <1>7, <1>8 DEF IsInjective
<1>10. ASSUME \A i \in 1..n : s[i] \in T PROVE f[n] = s
  <2>1. Len(f[n]) = n /\ \A a \in 1..n : f[n][a] = s[a]
    BY <1>7, <1>10
  <2> QED BY <1>8, <2>1, SeqEqual DEF n
<1> QED BY <1>3, <1>7, <1>8, <1>9, <1>10 DEF n

----------------------------------------------------------------------------
(* How often a key occurs.                                                 *)

LEMMA TimesIs ==
  ASSUME NEW S, NEW s \in Seq(S), NEW k
  PROVE  /\ Times(k, s) \in Nat
         /\ Times(k, s) = 0 <=> k \notin Range(s)
         /\ Times(k, s) <= 1 => \A i, j \in DOMAIN s : s[i] = k /\ s[j] = k => i = j
<1> DEFINE I == {i \in DOMAIN s : s[i] = k}
<1>1. IsFiniteSet(DOMAIN s)
  BY LenProperties, FS_Interval
<1>2. IsFiniteSet(I)
  BY <1>1, FS_Subset
<1>3. Cardinality(I) \in Nat /\ (Cardinality(I) = 0 <=> I = {})
  BY <1>2, FS_CardinalityType, FS_EmptySet
<1>4. k \notin Range(s) <=> I = {}
  BY DEF Range
<1>5. ASSUME Cardinality(I) <= 1, NEW i \in I, NEW j \in I PROVE i = j
  <2> SUFFICES ASSUME i # j PROVE FALSE
    OBVIOUS
  <2>1. Cardinality({i, j}) = 2
    <3>1. Cardinality({i}) = 1 /\ IsFiniteSet({i})
      BY FS_Singleton
    <3>2. {i, j} = {i} \cup {j} /\ j \notin {i}
      OBVIOUS
    <3>3. Cardinality({i} \cup {j}) = Cardinality({i}) + 1
      BY <3>1, <3>2, FS_AddElement
    <3>4. 1 + 1 = 2
      OBVIOUS
    <3> QED BY <3>1, <3>2, <3>3, <3>4
  <2>2. Cardinality({i, j}) <= Cardinality(I)
    BY <1>2, FS_Subset
  <2> QED BY <1>3, <1>5, <2>1, <2>2
<1> QED BY <1>2, <1>3, <1>4, <1>5 DEF Times

LEMMA TimesConcat ==
  ASSUME NEW S, NEW s \in Seq(S), NEW t \in Seq(S), NEW k
  PROVE  Times(k, s \o t) = Times(k, s) + Times(k, t)
<1> DEFINE m == Len(s)
           n == Len(t)
           I == {i \in DOMAIN s : s[i] = k}
           J == {i \in DOMAIN t : t[i] = k}
           L == {i \in DOMAIN (s \o t) : (s \o t)[i] = k}
           R == L \ I
<1>1. m \in Nat /\ n \in Nat /\ DOMAIN s = 1..m /\ DOMAIN t = 1..n
  BY LenProperties
<1>2. /\ s \o t \in Seq(S) /\ DOMAIN (s \o t) = 1..(m + n)
      /\ \A i \in 1..(m + n) : (s \o t)[i] = IF i <= m THEN s[i] ELSE t[i - m]
  <2>1. s \o t \in Seq(S) /\ Len(s \o t) = m + n
    BY ConcatProperties
  <2>2. DOMAIN (s \o t) = 1..(m + n)
    BY <2>1, LenProperties
  <2>3. \A i \in 1..(m + n) : (s \o t)[i] = IF i <= m THEN s[i] ELSE t[i - m]
    BY ConcatProperties
  <2> QED BY <2>1, <2>2, <2>3
<1>3. IsFiniteSet(I) /\ IsFiniteSet(J) /\ IsFiniteSet(L)
  <2>1. I \subseteq 1..m /\ J \subseteq 1..n /\ L \subseteq 1..(m + n)
    BY <1>1, <1>2
  <2>2. IsFiniteSet(1..m) /\ IsFiniteSet(1..n) /\ IsFiniteSet(1..(m + n))
    BY <1>1, FS_Interval
  <2> HIDE DEF I, J, L, m, n
  <2> QED BY <2>1, <2>2, FS_Subset
<1> HIDE DEF m, n
<1>4. I \subseteq L /\ I \cup R = L /\ I \cap R = {}
  BY <1>1, <1>2
<1>5. \A i \in 1..(m + n) : i \in R <=> i > m /\ t[i - m] = k
  BY <1>1, <1>2
<1>6. IsFiniteSet(R)
  BY <1>3, FS_Subset
<1>7. Cardinality(L) = Cardinality(I) + Cardinality(R)
  <2> HIDE DEF I, L, R
  <2>1. Cardinality(I \cup R) = Cardinality(I) + Cardinality(R) - Cardinality(I \cap R)
    BY <1>3, <1>6, FS_Union
  <2>2. Cardinality(I \cap R) = 0
    BY <1>4, FS_EmptySet
  <2>3. Cardinality(I) \in Nat /\ Cardinality(R) \in Nat
    BY <1>3, <1>6, FS_CardinalityType
  <2>4. Cardinality(L) = Cardinality(I) + Cardinality(R) - 0
    BY <1>4, <2>1, <2>2
  <2> QED BY <2>3, <2>4
<1>8. Cardinality(R) = Cardinality(J)
  <2> DEFINE sh == [i \in J |-> i + m]
  <2>1. \A i \in J : i \in 1..n /\ t[i] = k /\ i + m \in 1..(m + n) /\ i + m > m /\ (i + m) - m = i
    BY <1>1
  <2>2. \A i \in J : sh[i] \in R
    BY <1>5, <2>1
  <2>3. \A i \in R : i \in 1..(m + n) /\ i - m \in J /\ (i - m) + m = i
    <3>1. R \subseteq 1..(m + n)
      BY <1>2
    <3> QED BY <1>1, <1>5, <3>1
  <2>4. \A i, j \in J : sh[i] = sh[j] => i = j
    BY <2>1
  <2>5. sh \in [J -> R]
    BY <2>2
  <2>6. \A i \in R : \E j \in J : sh[j] = i
    BY <2>3
  <2> HIDE DEF sh, J, R
  <2>7. sh \in Injection(J, R)
    BY <2>4, <2>5 DEF Injection, IsInjective
  <2>8. sh \in Surjection(J, R)
    BY <2>5, <2>6 DEF Surjection
  <2>9. sh \in Bijection(J, R)
    BY <2>7, <2>8 DEF Bijection
  <2> QED BY <1>3, <2>9, FS_Bijection DEF J, ExistsBijection
<1> QED BY <1>7, <1>8 DEF Times

LEMMA TimesAppend ==
  ASSUME NEW S, NEW s \in Seq(S), NEW v \in S, NEW k
  PROVE  Times(k, Append(s, v)) = Times(k, s) + (IF k = v THEN 1 ELSE 0)
<1>1. <<v>> \in Seq(S) /\ Append(s, v) = s \o <<v>>
  OBVIOUS
<1>2. Times(k, <<v>>) = IF k = v THEN 1 ELSE 0
  <2>1. {i \in DOMAIN <<v>> : <<v>>[i] = k} = IF k = v THEN {1} ELSE {}
    OBVIOUS
  <2> QED BY <2>1, FS_Singleton, FS_EmptySet DEF Times
<1> QED BY <1>1, <1>2, TimesConcat

LEMMA KeysOfIs ==
  ASSUME NEW s \in Seq(Result)
  PROVE  /\ KeysOf(s) \in Seq(Keys) /\ Len(KeysOf(s)) = Len(s)
         /\ \A i \in 1..Len(s) : KeysOf(s)[i] = s[i].key
<1>1. Len(s) \in Nat /\ DOMAIN s = 1..Len(s) /\ \A i \in 1..Len(s) : s[i] \in Result
  BY LenProperties, ElementOfSeq
<1>2. KeysOf(s) = [i \in 1..Len(s) |-> s[i].key] /\ \A i \in 1..Len(s) : s[i].key \in Keys
  BY <1>1 DEF KeysOf, Result
<1> QED BY <1>1, <1>2, IsASeq

LEMMA KeysOfConcat ==
  ASSUME NEW s \in Seq(Result), NEW t \in Seq(Result)
  PROVE  KeysOf(s \o t) = KeysOf(s) \o KeysOf(t)
<1> DEFINE m == Len(s)
           n == Len(t)
<1>1. m \in Nat /\ n \in Nat
  BY LenProperties
<1>2. /\ s \o t \in Seq(Result) /\ Len(s \o t) = m + n
      /\ \A i \in 1..(m + n) : (s \o t)[i] = IF i <= m THEN s[i] ELSE t[i - m]
  BY ConcatProperties
<1>3. /\ KeysOf(s \o t) \in Seq(Keys) /\ Len(KeysOf(s \o t)) = m + n
      /\ \A i \in 1..(m + n) : KeysOf(s \o t)[i] = (s \o t)[i].key
  BY <1>2, KeysOfIs
<1>4. /\ KeysOf(s) \in Seq(Keys) /\ Len(KeysOf(s)) = m /\ \A i \in 1..m : KeysOf(s)[i] = s[i].key
      /\ KeysOf(t) \in Seq(Keys) /\ Len(KeysOf(t)) = n /\ \A i \in 1..n : KeysOf(t)[i] = t[i].key
  BY KeysOfIs
<1>5. /\ KeysOf(s) \o KeysOf(t) \in Seq(Keys) /\ Len(KeysOf(s) \o KeysOf(t)) = m + n
      /\ \A i \in 1..(m + n) : (KeysOf(s) \o KeysOf(t))[i]
                                 = IF i <= m THEN KeysOf(s)[i] ELSE KeysOf(t)[i - m]
  <2> DEFINE a == KeysOf(s)
             b == KeysOf(t)
  <2>1. a \in Seq(Keys) /\ b \in Seq(Keys) /\ Len(a) = m /\ Len(b) = n
    BY <1>4
  <2> HIDE DEF a, b, m, n
  <2>2. /\ a \o b \in Seq(Keys) /\ Len(a \o b) = m + n
        /\ \A i \in 1..(m + n) : (a \o b)[i] = IF i <= m THEN a[i] ELSE b[i - m]
    BY <2>1, ConcatProperties
  <2> QED BY <2>2 DEF a, b
<1> HIDE DEF m, n
<1>6. ASSUME NEW i \in 1..(m + n) PROVE KeysOf(s \o t)[i] = (KeysOf(s) \o KeysOf(t))[i]
  <2>1. CASE i <= m
    <3>1. i \in 1..m
      BY <1>1, <2>1
    <3> QED BY <1>2, <1>3, <1>4, <1>5, <2>1, <3>1
  <2>2. CASE ~(i <= m)
    <3>1. i - m \in 1..n
      BY <1>1, <2>2
    <3> QED BY <1>2, <1>3, <1>4, <1>5, <2>2, <3>1
  <2> QED BY <2>1, <2>2
<1> QED BY <1>3, <1>5, <1>6, SeqEqual

----------------------------------------------------------------------------
(* A source asked for is at one place.                                     *)

Shape ==
  /\ held \in Seq(Keys) /\ pending \in Seq(Result) /\ finished \in Seq(Result)
  /\ \A w \in Decoding : poolWorker[w].key \in Keys
  /\ closed => ui \in {"closing", "gone"}

DecodingOf(k) == {w \in Decoding : poolWorker[w].key = k}
Places(k) == Times(k, jobs) + Times(k, KeysOf(Results)) + Cardinality(DecodingOf(k))

PlaceOK(k) ==
  /\ Places(k) = IF k \in loading THEN 1 ELSE 0
  /\ k \in loading => k \notin Held \cup failed

OnceOK == ~closed => \A k \in Keys : PlaceOK(k)
HeldOK == IsInjective(held) /\ bytes = Size(held)
CacheInv == PoolOK /\ Shape /\ OnceOK /\ HeldOK

LEMMA PlacesAreNumbers ==
  ASSUME PoolOK, Shape, NEW k
  PROVE  /\ Times(k, jobs) \in Nat /\ Times(k, KeysOf(Results)) \in Nat
         /\ IsFiniteSet(DecodingOf(k)) /\ Cardinality(DecodingOf(k)) \in Nat
<1>1. Results \in Seq(Result)
  BY ConcatProperties DEF Shape, Results
<1>2. KeysOf(Results) \in Seq(Keys)
  BY <1>1, KeysOfIs
<1>3. Times(k, KeysOf(Results)) \in Nat
  BY <1>2, TimesIs
<1>4. Times(k, jobs) \in Nat
  BY TimesIs DEF PoolOK
<1>5. DecodingOf(k) \subseteq Pool
  BY DEF DecodingOf, Decoding
<1> QED BY <1>3, <1>4, <1>5, CacheAssumption, FS_Subset, FS_CardinalityType

\* A sequence in two parts.
LEMMA SplitAt ==
  ASSUME NEW S, NEW s \in Seq(S), NEW i \in 0..Len(s)
  PROVE  /\ SubSeq(s, 1, i) \in Seq(S) /\ Len(SubSeq(s, 1, i)) = i
         /\ SubSeq(s, i + 1, Len(s)) \in Seq(S) /\ Len(SubSeq(s, i + 1, Len(s))) = Len(s) - i
         /\ s = SubSeq(s, 1, i) \o SubSeq(s, i + 1, Len(s))
         /\ \A j \in 1..i : SubSeq(s, 1, i)[j] = s[j]
         /\ \A j \in 1..(Len(s) - i) : SubSeq(s, i + 1, Len(s))[j] = s[i + j]
<1> DEFINE n == Len(s)
<1>1. n \in Nat /\ \A j \in 1..n : s[j] \in S
  BY LenProperties, ElementOfSeq
<1>2. SubSeq(s, 1, i) \o SubSeq(s, i + 1, n) = s
  <2>1. 1 \in 1..(n + 1) /\ i \in (1 - 1)..n /\ n \in i..n
    BY <1>1
  <2>2. SubSeq(s, 1, i) \o SubSeq(s, i + 1, n) = SubSeq(s, 1, n)
    BY <2>1, ConcatAdjacentSubSeq
  <2> QED BY <2>2, SubSeqFull
<1> HIDE DEF n
<1>3. i \in Nat /\ i <= n
  BY <1>1 DEF n
<1>4. /\ SubSeq(s, 1, i) \in Seq(S) /\ Len(SubSeq(s, 1, i)) = IF 1 <= i THEN i - 1 + 1 ELSE 0
      /\ \A j \in 1..(i - 1 + 1) : SubSeq(s, 1, i)[j] = s[1 + j - 1]
  <2>1. \A j \in 1..i : s[j] \in S
    BY <1>1, <1>3
  <2> QED BY <1>3, <2>1, SubSeqProperties
<1>5. /\ SubSeq(s, i + 1, n) \in Seq(S)
      /\ Len(SubSeq(s, i + 1, n)) = IF i + 1 <= n THEN n - (i + 1) + 1 ELSE 0
      /\ \A j \in 1..(n - (i + 1) + 1) : SubSeq(s, i + 1, n)[j] = s[(i + 1) + j - 1]
  <2>1. \A j \in (i + 1)..n : s[j] \in S
    BY <1>1, <1>3
  <2>2. i + 1 \in Int /\ n \in Int
    BY <1>1, <1>3
  <2> QED BY <2>1, <2>2, SubSeqProperties
<1>6. Len(SubSeq(s, 1, i)) = i /\ Len(SubSeq(s, i + 1, n)) = n - i
  BY <1>1, <1>3, <1>4, <1>5
<1>7. \A j \in 1..i : SubSeq(s, 1, i)[j] = s[j]
  <2>1. i - 1 + 1 = i /\ \A j \in 1..i : 1 + j - 1 = j
    BY <1>3
  <2> QED BY <1>4, <2>1
<1>8. \A j \in 1..(n - i) : SubSeq(s, i + 1, n)[j] = s[i + j]
  <2>1. n - (i + 1) + 1 = n - i /\ \A j \in 1..(n - i) : (i + 1) + j - 1 = i + j
    BY <1>1, <1>3
  <2> QED BY <1>5, <2>1
<1> QED BY <1>2, <1>4, <1>5, <1>6, <1>7, <1>8 DEF n

LEMMA LastOfFront ==
  ASSUME NEW S, NEW s \in Seq(S), s # <<>>
  PROVE  Front(s) \in Seq(S) /\ Last(s) \in S /\ s = Append(Front(s), Last(s))
<1> DEFINE n == Len(s)
<1>1. n \in Nat /\ n # 0
  BY LenProperties, EmptySeq
<1>2. Last(s) \in S
  BY <1>1, ElementOfSeq DEF Last
<1>3. n - 1 \in 0..n /\ (n - 1) + 1 = n /\ n \in 1..n /\ n \in n..n /\ n \in 1..Len(s) /\ 1 \in 1..n
  BY <1>1
<1>4. Front(s) \in Seq(S)
  BY <1>3, SplitAt DEF Front
<1>5. s = Front(s) \o <<Last(s)>>
  <2>1. SubSeq(s, 1, n) = SubSeq(s, 1, n - 1) \o <<s[n]>>
    BY <1>3, SubSeqRecursiveSecond
  <2>2. SubSeq(s, 1, n) = s
    BY SubSeqFull
  <2> QED BY <2>1, <2>2 DEF Front, Last
<1> QED BY <1>2, <1>4, <1>5, AppendIsConcat

\* An image moved to the end.
LEMMA Moved ==
  ASSUME NEW s \in Seq(Keys), NEW i \in DOMAIN s, IsInjective(s)
  PROVE  LET t == Append(RemoveAt(s, i), s[i])
         IN  t \in Seq(Keys) /\ Range(t) = Range(s) /\ IsInjective(t) /\ Size(t) = Size(s)
<1> DEFINE n == Len(s)
           k == s[i]
           a == SubSeq(s, 1, i - 1)
           b == SubSeq(s, i + 1, n)
           t == Append(RemoveAt(s, i), k)
<1>1. n \in Nat /\ i \in 1..n /\ DOMAIN s = 1..n /\ k \in Keys
  <2>1. n \in Nat /\ DOMAIN s = 1..n
    BY LenProperties
  <2> QED BY <2>1, ElementOfSeq
<1>2. /\ a \in Seq(Keys) /\ Len(a) = i - 1 /\ s = a \o SubSeq(s, i, n)
      /\ \A j \in 1..(i - 1) : a[j] = s[j]
  <2>1. i - 1 \in 0..Len(s) /\ (i - 1) + 1 = i
    BY <1>1
  <2> QED BY <2>1, SplitAt
<1>3. /\ b \in Seq(Keys) /\ Len(b) = n - i
      /\ \A j \in 1..(n - i) : b[j] = s[i + j]
  <2>1. i \in 0..Len(s)
    BY <1>1
  <2> QED BY <2>1, SplitAt
<1>4. SubSeq(s, i, n) = <<k>> \o b
  <2>1. i \in 1..Len(s) /\ n \in i..Len(s)
    BY <1>1
  <2> QED BY <2>1, SubSeqRecursiveFirst
<1>5. t = Append(a \o b, k)
  BY DEF RemoveAt
<1> HIDE DEF n, a, b, k, t
<1>6. /\ a \o b \in Seq(Keys) /\ Len(a \o b) = n - 1
      /\ \A j \in 1..(n - 1) : (a \o b)[j] = IF j <= i - 1 THEN a[j] ELSE b[j - (i - 1)]
  <2>1. /\ a \o b \in Seq(Keys) /\ Len(a \o b) = Len(a) + Len(b)
        /\ \A j \in 1..(Len(a) + Len(b)) : (a \o b)[j] = IF j <= Len(a) THEN a[j] ELSE b[j - Len(a)]
    BY <1>2, <1>3, ConcatProperties
  <2>2. Len(a) = i - 1 /\ Len(a) + Len(b) = n - 1
    BY <1>1, <1>2, <1>3
  <2> QED BY <2>1, <2>2
<1>7. t \in Seq(Keys) /\ Len(t) = n /\ t[n] = k /\ \A j \in 1..(n - 1) : t[j] = (a \o b)[j]
  <2>1. /\ t \in Seq(Keys) /\ Len(t) = (n - 1) + 1 /\ t[(n - 1) + 1] = k
        /\ \A j \in 1..(n - 1) : t[j] = (a \o b)[j]
    BY <1>1, <1>5, <1>6, AppendProperties
  <2>2. (n - 1) + 1 = n
    BY <1>1
  <2> QED BY <2>1, <2>2
<1>8. Size(t) = Size(s)
  <2>1. <<k>> \in Seq(Keys) /\ Size(<<k>>) = Bytes[k]
    BY <1>1, SizeOne
  <2>2. <<k>> \o b \in Seq(Keys) /\ Size(<<k>> \o b) = Size(<<k>>) + Size(b)
    BY <1>3, <2>1, SizeConcat, ConcatProperties
  <2>3. Size(s) = Size(a) + Size(<<k>> \o b)
    BY <1>2, <1>4, <2>2, SizeConcat
  <2>4. t = (a \o b) \o <<k>>
    BY <1>1, <1>5, <1>6, AppendIsConcat
  <2>5. Size(t) = Size(a \o b) + Size(<<k>>) /\ Size(a \o b) = Size(a) + Size(b)
    BY <1>2, <1>3, <1>6, <2>1, <2>4, SizeConcat
  <2>6. Size(a) \in Nat /\ Size(b) \in Nat /\ Size(<<k>>) \in Nat
    BY <1>2, <1>3, <2>1, SizeConcat
  <2> QED BY <2>2, <2>3, <2>5, <2>6
<1> DEFINE p(j) == IF j < i THEN j ELSE IF j < n THEN j + 1 ELSE i
<1>9. ASSUME NEW j \in 1..n PROVE t[j] = s[p(j)] /\ p(j) \in 1..n
  <2>1. CASE j < i
    <3>1. j \in 1..(i - 1) /\ j \in 1..(n - 1) /\ j <= i - 1
      BY <1>1, <2>1
    <3> QED BY <1>2, <1>6, <1>7, <2>1, <3>1
  <2>2. CASE ~(j < i) /\ j < n
    <3>1. j - (i - 1) \in 1..(n - i) /\ j \in 1..(n - 1) /\ ~(j <= i - 1) /\ i + (j - (i - 1)) = j + 1
          /\ j + 1 \in 1..n
      BY <1>1, <2>2
    <3> QED BY <1>3, <1>6, <1>7, <2>2, <3>1
  <2>3. CASE ~(j < i) /\ ~(j < n)
    <3>1. j = n
      BY <1>1, <2>3
    <3> QED BY <1>1, <1>7, <2>3, <3>1 DEF k
  <2> QED BY <2>1, <2>2, <2>3
<1>10. DOMAIN t = 1..n
  BY <1>7, LenProperties
<1>11. IsInjective(t)
  <2> SUFFICES ASSUME NEW j \in 1..n, NEW l \in 1..n, t[j] = t[l] PROVE j = l
    BY <1>10 DEF IsInjective
  <2>1. s[p(j)] = s[p(l)] /\ p(j) \in 1..n /\ p(l) \in 1..n
    BY <1>9
  <2>2. p(j) = p(l)
    <3> HIDE DEF p
    <3> QED BY <1>1, <2>1 DEF IsInjective
  <2>3. ASSUME NEW h \in 1..n
        PROVE  (h < i => p(h) = h) /\ (~(h < i) /\ h < n => p(h) = h + 1) /\ (~(h < n) => h = n /\ p(h) = i)
    <3>1. h \in Nat /\ (~(h < n) => h = n) /\ ~(n < i)
      BY <1>1
    <3> QED BY <3>1
  <2> HIDE DEF p
  <2>4. i \in Nat /\ n \in Nat /\ j \in Nat /\ l \in Nat
    BY <1>1
  <2> QED BY <2>2, <2>3, <2>4
<1>12. Range(t) = Range(s)
  <2>1. ASSUME NEW j \in 1..n PROVE t[j] \in Range(s)
    <3> HIDE DEF p
    <3> QED BY <1>1, <1>9 DEF Range
  <2>2. ASSUME NEW l \in 1..n PROVE s[l] \in Range(t)
    <3> DEFINE j == IF l < i THEN l ELSE IF l = i THEN n ELSE l - 1
    <3>1. j \in 1..n /\ p(j) = l
      BY <1>1
    <3> HIDE DEF p, j
    <3>2. t[j] = s[l]
      BY <1>9, <3>1
    <3> QED BY <1>10, <3>1, <3>2 DEF Range
  <2> QED BY <1>1, <1>10, <2>1, <2>2 DEF Range
<1> QED BY <1>7, <1>8, <1>11, <1>12 DEF t, k

----------------------------------------------------------------------------

LEMMA InjectiveConcat ==
  ASSUME NEW s \in Seq(Keys), NEW t \in Seq(Keys), IsInjective(s), IsInjective(t),
         Range(s) \cap Range(t) = {}
  PROVE  /\ s \o t \in Seq(Keys) /\ IsInjective(s \o t)
         /\ Range(s \o t) = Range(s) \cup Range(t)
<1> DEFINE m == Len(s)
           n == Len(t)
           u == s \o t
<1>1. m \in Nat /\ n \in Nat /\ DOMAIN s = 1..m /\ DOMAIN t = 1..n
  BY LenProperties
<1>2. /\ u \in Seq(Keys) /\ Len(u) = m + n
      /\ \A i \in 1..(m + n) : u[i] = IF i <= m THEN s[i] ELSE t[i - m]
  BY ConcatProperties
<1>3. DOMAIN u = 1..(m + n)
  BY <1>2, LenProperties
<1> HIDE DEF m, n, u
<1>4. ASSUME NEW i \in 1..(m + n)
      PROVE  \/ i \in DOMAIN s /\ u[i] = s[i]
             \/ i - m \in DOMAIN t /\ u[i] = t[i - m] /\ i > m
  <2>1. CASE i <= m
    BY <1>1, <1>2, <2>1
  <2>2. CASE ~(i <= m)
    BY <1>1, <1>2, <2>2
  <2> QED BY <2>1, <2>2
<1>5. ASSUME NEW i \in 1..(m + n), NEW j \in 1..(m + n), u[i] = u[j] PROVE i = j
  <2>1. \A x \in DOMAIN s, y \in DOMAIN t : s[x] # t[y]
    BY DEF Range
  <2>2. CASE i \in DOMAIN s /\ u[i] = s[i] /\ j \in DOMAIN s /\ u[j] = s[j]
    BY <1>5, <2>2 DEF IsInjective
  <2>3. CASE i - m \in DOMAIN t /\ u[i] = t[i - m] /\ j - m \in DOMAIN t /\ u[j] = t[j - m]
    <3>1. i - m = j - m
      BY <1>5, <2>3 DEF IsInjective
    <3> QED BY <1>1, <3>1
  <2> QED BY <1>4, <1>5, <2>1, <2>2, <2>3
<1>6. IsInjective(u)
  BY <1>3, <1>5 DEF IsInjective
<1>7. Range(u) \subseteq Range(s) \cup Range(t)
  BY <1>3, <1>4 DEF Range
<1>8. ASSUME NEW i \in DOMAIN s PROVE s[i] \in Range(u)
  <2>1. i \in 1..(m + n) /\ u[i] = s[i]
    BY <1>1, <1>2
  <2> QED BY <1>3, <2>1 DEF Range
<1>9. ASSUME NEW i \in DOMAIN t PROVE t[i] \in Range(u)
  <2>1. i + m \in 1..(m + n) /\ ~(i + m <= m) /\ (i + m) - m = i
    BY <1>1
  <2>2. u[i + m] = t[i]
    BY <1>2, <2>1
  <2> QED BY <1>3, <2>1, <2>2 DEF Range
<1>10. Range(u) = Range(s) \cup Range(t)
  BY <1>7, <1>8, <1>9 DEF Range
<1> QED BY <1>2, <1>6, <1>10 DEF u

LEMMA TakenRest ==
  ASSUME NEW s \in Seq(Result)
  PROVE  /\ Taken(s) \in Seq(Result) /\ Rest(s) \in Seq(Result)
         /\ s = Taken(s) \o Rest(s)
<1> DEFINE C == {i \in DOMAIN s : Cardinality({j \in 1..i : s[j].image}) <= MaxUploads}
           c == Cardinality(C)
           n == Len(s)
<1>1. n \in Nat /\ DOMAIN s = 1..n
  BY LenProperties
<1>2. IsFiniteSet(1..n) /\ Cardinality(1..n) = n
  BY <1>1, FS_Interval
<1>3. C \subseteq 1..n
  BY <1>1
<1> HIDE DEF C
<1>4. c \in 0..n
  <2>1. IsFiniteSet(C) /\ c <= n
    BY <1>2, <1>3, FS_Subset
  <2>2. c \in Nat
    BY <2>1, FS_CardinalityType
  <2> QED BY <1>1, <2>1, <2>2
<1>5. Taken(s) = SubSeq(s, 1, c)
  BY DEF Taken, C
<1> HIDE DEF c
<1>6. Taken(s) \in Seq(Result) /\ Len(Taken(s)) = c
  BY <1>4, <1>5, SplitAt
<1>7. Rest(s) = SubSeq(s, c + 1, n)
  BY <1>6 DEF Rest
<1> QED BY <1>4, <1>5, <1>6, <1>7, SplitAt

LEMMA EvictedIs ==
  ASSUME NEW ks \in Seq(Keys), NEW size PROVE Evicted(ks, size) \in 0..Len(ks)
<1> DEFINE E == {n \in 1..Len(ks) : n < Len(ks) /\ size - Size(SubSeq(ks, 1, n - 1)) > Budget}
           m == Len(ks)
<1>1. m \in Nat
  BY LenProperties
<1>2. IsFiniteSet(1..m) /\ Cardinality(1..m) = m
  BY <1>1, FS_Interval
<1>3. E \subseteq 1..m
  OBVIOUS
<1>4. Evicted(ks, size) = Cardinality(E)
  BY DEF Evicted
<1> HIDE DEF E, m
<1>5. IsFiniteSet(E) /\ Cardinality(E) <= m
  BY <1>2, <1>3, FS_Subset
<1>6. Cardinality(E) \in Nat
  BY <1>5, FS_CardinalityType
<1> QED BY <1>1, <1>4, <1>5, <1>6 DEF m

\* What a frame keeps of the images held and uploaded.
LEMMA KeptAfter ==
  ASSUME NEW now \in Seq(Keys), IsInjective(now), NEW gone \in 0..Len(now)
  PROVE  LET kept == SubSeq(now, gone + 1, Len(now))
         IN  /\ kept \in Seq(Keys) /\ IsInjective(kept) /\ Range(kept) \subseteq Range(now)
             /\ Size(now) - Size(SubSeq(now, 1, gone)) = Size(kept)
<1> DEFINE n == Len(now)
           kept == SubSeq(now, gone + 1, n)
           front == SubSeq(now, 1, gone)
<1>1. n \in Nat /\ gone \in Nat /\ gone <= n /\ DOMAIN now = 1..n
  BY LenProperties
<1>2. /\ front \in Seq(Keys) /\ kept \in Seq(Keys) /\ Len(kept) = n - gone
      /\ now = front \o kept /\ \A j \in 1..(n - gone) : kept[j] = now[gone + j]
  BY SplitAt
<1>3. DOMAIN kept = 1..(n - gone)
  BY <1>2, LenProperties
<1> HIDE DEF n, kept, front
<1>4. \A j \in 1..(n - gone) : gone + j \in DOMAIN now
  BY <1>1
<1>5. IsInjective(kept)
  <2> SUFFICES ASSUME NEW i \in 1..(n - gone), NEW j \in 1..(n - gone), kept[i] = kept[j]
               PROVE  i = j
    BY <1>3 DEF IsInjective
  <2>1. now[gone + i] = now[gone + j]
    BY <1>2
  <2>2. gone + i = gone + j
    BY <1>4, <2>1 DEF IsInjective
  <2>3. i \in Nat /\ j \in Nat
    BY <1>1
  <2> QED BY <1>1, <2>2, <2>3
<1>6. Range(kept) \subseteq Range(now)
  BY <1>2, <1>3, <1>4 DEF Range
<1>7. Size(now) = Size(front) + Size(kept) /\ Size(front) \in Nat /\ Size(kept) \in Nat
  BY <1>2, SizeConcat
<1>8. Size(now) - Size(front) = Size(kept)
  BY <1>7
<1> QED BY <1>2, <1>5, <1>6, <1>8 DEF kept, front, n

\* The keys of the images among results that name each source once.
LEMMA ImagesOnce ==
  ASSUME NEW s \in Seq(Result), IsInjective(KeysOf(s))
  PROVE  LET new == KeysOf(Images(s))
         IN  new \in Seq(Keys) /\ IsInjective(new) /\ Range(new) \subseteq Range(KeysOf(s))
<1> DEFINE r == Images(s)
           ks == KeysOf(s)
           new == KeysOf(r)
<1>1. /\ ks \in Seq(Keys) /\ DOMAIN ks = 1..Len(s) /\ DOMAIN s = 1..Len(s)
      /\ \A i \in 1..Len(s) : ks[i] = s[i].key
  BY KeysOfIs, LenProperties
<1>2. IsInjective(s)
  BY <1>1 DEF IsInjective
<1>3. /\ r \in Seq(Result) /\ IsInjective(r)
      /\ \A a \in 1..Len(r) : \E j \in 1..Len(s) : r[a] = s[j]
  BY <1>2, AmongKeeps DEF Images
<1> HIDE DEF r
<1>4. /\ new \in Seq(Keys) /\ DOMAIN new = 1..Len(r) /\ DOMAIN r = 1..Len(r)
      /\ \A a \in 1..Len(r) : new[a] = r[a].key
  BY <1>3, KeysOfIs, LenProperties
<1> HIDE DEF new, ks
<1>5. \A a \in 1..Len(r) : \E j \in 1..Len(s) : r[a] = s[j] /\ new[a] = ks[j]
  BY <1>1, <1>3, <1>4
<1>6. IsInjective(new)
  <2> SUFFICES ASSUME NEW a \in 1..Len(r), NEW b \in 1..Len(r), new[a] = new[b] PROVE a = b
    BY <1>4 DEF IsInjective
  <2>1. PICK i \in 1..Len(s) : r[a] = s[i] /\ new[a] = ks[i]
    BY <1>5
  <2>2. PICK j \in 1..Len(s) : r[b] = s[j] /\ new[b] = ks[j]
    BY <1>5
  <2>3. i = j
    <3>1. ks[i] = ks[j] /\ i \in DOMAIN ks /\ j \in DOMAIN ks
      BY <1>1, <2>1, <2>2
    <3> QED BY <3>1 DEF IsInjective, ks
  <2> QED BY <1>3, <1>4, <2>1, <2>2, <2>3 DEF IsInjective
<1>7. Range(new) \subseteq Range(ks)
  BY <1>1, <1>4, <1>5 DEF Range
<1> QED BY <1>4, <1>6, <1>7 DEF new, ks, r

----------------------------------------------------------------------------

LEMMA InitCacheInv == CacheInit => Shape /\ OnceOK /\ HeldOK
<1> SUFFICES ASSUME CacheInit PROVE Shape /\ OnceOK /\ HeldOK
  OBVIOUS
<1>1. Decoding = {}
  BY DEF CacheInit, Decoding, Unstarted
<1>2. Shape
  BY <1>1, EmptySeq DEF CacheInit, Shape
<1>3. HeldOK
  BY SizeEmpty DEF CacheInit, HeldOK, IsInjective
<1>4. ASSUME NEW k \in Keys PROVE PlaceOK(k)
  <2>1. Results = <<>>
    BY DEF CacheInit, Results
  <2>2. KeysOf(Results) = <<>>
    BY <2>1 DEF KeysOf
  <2>3. Times(k, <<>>) = 0
    <3>1. {i \in DOMAIN <<>> : <<>>[i] = k} = {}
      OBVIOUS
    <3> QED BY <3>1, FS_EmptySet DEF Times
  <2>4. Cardinality(DecodingOf(k)) = 0
    <3>1. DecodingOf(k) = {}
      BY <1>1 DEF DecodingOf
    <3> QED BY <3>1, FS_EmptySet
  <2> QED BY <2>2, <2>3, <2>4 DEF CacheInit, PlaceOK, Places
<1> QED BY <1>2, <1>3, <1>4 DEF OnceOK

\* A step that moves no source.
LEMMA NothingMoves ==
  ASSUME Shape, OnceOK, closed' = closed, jobs' = jobs, Results' = Results, loading' = loading,
         failed' = failed, \A k \in Keys : DecodingOf(k)' = DecodingOf(k),
         \A k \in Keys : k \in loading => k \notin Held' \ Held
  PROVE  OnceOK'
<1> SUFFICES ASSUME ~closed, NEW k \in Keys PROVE PlaceOK(k)'
  BY DEF OnceOK
<1>1. PlaceOK(k)
  BY DEF OnceOK
<1>2. Places(k)' = Places(k)
  BY DEF Places
<1> QED BY <1>1, <1>2 DEF PlaceOK

\* A thread at the same decode as before.
LEMMA SameDecodes ==
  ASSUME NEW w \in Pool, NEW pc, NEW key, PoolOK, Becomes(w, pc, key), ~At(w, "decode"), pc # "decode"
  PROVE  Decoding' = Decoding /\ \A k : DecodingOf(k)' = DecodingOf(k)
<1>1. ~At(w, "decode")' /\ \A y \in Pool \ {w} : poolWorker'[y] = poolWorker[y]
  BY DEF Becomes, PoolOK
<1> QED BY <1>1 DEF Decoding, DecodingOf

LEMMA UseImageOK == ASSUME CacheInv, NEW k \in Keys, UseImage(k) PROVE (Shape /\ OnceOK /\ HeldOK)'
<1>1. PICK i \in DOMAIN held : held[i] = k /\ held' = Append(RemoveAt(held, i), k)
  BY DEF UseImage
<1>2. held' \in Seq(Keys) /\ Range(held') = Range(held) /\ IsInjective(held') /\ Size(held') = Size(held)
  BY <1>1, Moved DEF CacheInv, Shape, HeldOK
<1>3. UNCHANGED <<bytes, loading, failed, poolVars, pending, woken, ui>>
  BY DEF UseImage
<1>4. Decoding' = Decoding /\ (\A y : DecodingOf(y)' = DecodingOf(y)) /\ Results' = Results
  BY <1>3 DEF Decoding, DecodingOf, Results, poolVars
<1>5. OnceOK'
  BY <1>2, <1>3, <1>4, NothingMoves DEF CacheInv, Held, poolVars
<1> QED BY <1>2, <1>3, <1>4, <1>5 DEF CacheInv, Shape, HeldOK, poolVars

LEMMA UsePlaceholderOK ==
  ASSUME CacheInv, NEW k \in Keys, UsePlaceholder(k) PROVE (Shape /\ OnceOK /\ HeldOK)'
<1>1. /\ held' = Append(held, k) /\ bytes' = bytes + Bytes[k] /\ k \notin Held /\ k \notin loading
      /\ UNCHANGED <<loading, failed, poolVars, pending, woken, ui>>
  BY DEF UsePlaceholder, IsKnown
<1>2. held \in Seq(Keys) /\ IsInjective(held) /\ bytes = Size(held)
  BY DEF CacheInv, Shape, HeldOK
<1> DEFINE one == <<k>>
<1>3. one \in Seq(Keys) /\ Size(one) = Bytes[k] /\ held' = held \o one
  BY <1>1, <1>2, SizeOne, AppendIsConcat
<1>4. IsInjective(one) /\ Range(one) = {k}
  BY DEF IsInjective, Range
<1> HIDE DEF one
<1>5. Range(held) \cap Range(one) = {}
  BY <1>1, <1>4 DEF Held
<1>6. held' \in Seq(Keys) /\ IsInjective(held') /\ Range(held') = Range(held) \cup {k}
  BY <1>2, <1>3, <1>4, <1>5, InjectiveConcat
<1>7. bytes' = Size(held')
  BY <1>1, <1>2, <1>3, SizeConcat
<1>8. Decoding' = Decoding /\ (\A y : DecodingOf(y)' = DecodingOf(y)) /\ Results' = Results
  BY <1>1 DEF Decoding, DecodingOf, Results, poolVars
<1>9. OnceOK'
  <2>1. \A y \in Keys : y \in loading => y \notin Held' \ Held
    BY <1>1, <1>6 DEF Held
  <2> QED BY <1>1, <1>8, <2>1, NothingMoves DEF CacheInv, poolVars
<1> QED BY <1>1, <1>6, <1>7, <1>8, <1>9 DEF CacheInv, Shape, HeldOK, poolVars

LEMMA RequestOK == ASSUME CacheInv, NEW k \in Keys, Request(k) PROVE (Shape /\ OnceOK /\ HeldOK)'
<1>1. /\ ui = "idle" /\ k \notin Held \cup loading \cup failed
      /\ loading' = loading \cup {k} /\ jobs' = Append(jobs, k) /\ ui' = "notify"
      /\ UNCHANGED <<held, bytes, failed, closed, finished, pending, woken>>
  BY DEF Request, IsKnown
<1>2. Decoding' = Decoding /\ \A y : DecodingOf(y)' = DecodingOf(y)
  <2>1. \A w \in Pool : \/ poolWorker'[w] = poolWorker[w]
                        \/ poolWorker[w].pc = "off" /\ poolWorker'[w].pc = "free"
    BY DEF Request, Started, Unstarted
  <2> QED BY <2>1 DEF Decoding, DecodingOf
<1>3. Results' = Results
  BY <1>1 DEF Results
<1>4. Shape'
  <2>1. \A w \in Decoding : poolWorker'[w] = poolWorker[w]
    BY DEF Request, Started, Decoding
  <2>2. ~closed
    BY <1>1 DEF CacheInv, Shape
  <2> QED BY <1>1, <1>2, <2>1, <2>2 DEF CacheInv, Shape
<1>5. ASSUME ~closed, NEW y \in Keys PROVE PlaceOK(y)'
  <2>1. PlaceOK(y)
    BY <1>5 DEF CacheInv, OnceOK
  <2>2. Times(y, jobs') = Times(y, jobs) + IF y = k THEN 1 ELSE 0
    BY <1>1, TimesAppend DEF CacheInv, PoolOK
  <2>3. Times(y, jobs) \in Nat /\ Times(y, KeysOf(Results)) \in Nat /\ Cardinality(DecodingOf(y)) \in Nat
    BY PlacesAreNumbers DEF CacheInv
  <2>4. Places(y)' = Places(y) + IF y = k THEN 1 ELSE 0
    BY <1>2, <1>3, <2>2, <2>3 DEF Places
  <2>5. CASE y = k
    <3>1. Places(y) = 0 /\ y \in loading'
      BY <1>1, <2>1, <2>5 DEF PlaceOK
    <3>2. y \notin Held' \cup failed'
      BY <1>1, <2>5 DEF Held
    <3> QED BY <2>4, <2>5, <3>1, <3>2 DEF PlaceOK
  <2>6. CASE y # k
    <3>1. Places(y)' = Places(y)
      BY <2>3, <2>4, <2>6 DEF Places
    <3>2. Held' = Held
      BY <1>1 DEF Held
    <3> QED BY <1>1, <2>1, <2>6, <3>1, <3>2 DEF PlaceOK
  <2> QED BY <2>5, <2>6
<1>6. OnceOK'
  BY <1>1, <1>5 DEF OnceOK
<1> QED BY <1>1, <1>4, <1>6 DEF CacheInv, HeldOK

LEMMA TakeJobOK == ASSUME CacheInv, NEW w \in Pool, TakeJob(w) PROVE (Shape /\ OnceOK /\ HeldOK)'
<1> DEFINE k == Last(jobs)
<1>1. /\ At(w, "free") /\ jobs # <<>> /\ jobs' = Front(jobs)
      /\ poolWorker' = [poolWorker EXCEPT ![w] = [pc |-> "decode", key |-> k]]
      /\ UNCHANGED <<held, bytes, loading, failed, pending, closed, finished, woken, ui>>
  BY DEF TakeJob, Becomes, cacheVars
<1>2. Front(jobs) \in Seq(Keys) /\ k \in Keys /\ jobs = Append(Front(jobs), k)
  BY <1>1, LastOfFront DEF CacheInv, PoolOK
<1> HIDE DEF k
<1>3. poolWorker'[w] = [pc |-> "decode", key |-> k] /\ \A y \in Pool \ {w} : poolWorker'[y] = poolWorker[y]
  BY <1>1 DEF CacheInv, PoolOK
<1>4. Decoding' = Decoding \cup {w} /\ w \notin Decoding
  BY <1>1, <1>3 DEF Decoding
<1>5. Results' = Results /\ Held' = Held
  BY <1>1 DEF Results, Held
<1>6. Shape'
  BY <1>1, <1>2, <1>3, <1>4 DEF CacheInv, Shape, Decoding
<1>7. ASSUME ~closed, NEW y \in Keys PROVE PlaceOK(y)'
  <2>1. PlaceOK(y)
    BY <1>7 DEF CacheInv, OnceOK
  <2>2. Times(y, jobs) = Times(y, jobs') + (IF y = k THEN 1 ELSE 0) /\ Times(y, jobs') \in Nat
    <3> DEFINE f == Front(jobs)
    <3>1. f \in Seq(Keys) /\ k \in Keys /\ jobs = Append(f, k) /\ jobs' = f
      BY <1>1, <1>2
    <3> HIDE DEF f
    <3>2. Times(y, Append(f, k)) = Times(y, f) + (IF y = k THEN 1 ELSE 0)
      BY <3>1, TimesAppend
    <3>3. Times(y, f) \in Nat
      BY <3>1, TimesIs
    <3> QED BY <3>1, <3>2, <3>3
  <2>3. /\ Times(y, jobs) \in Nat /\ Times(y, KeysOf(Results)) \in Nat
        /\ IsFiniteSet(DecodingOf(y)) /\ Cardinality(DecodingOf(y)) \in Nat
    BY PlacesAreNumbers DEF CacheInv
  <2>4. Cardinality(DecodingOf(y)') = Cardinality(DecodingOf(y)) + IF y = k THEN 1 ELSE 0
    <3>1. CASE y = k
      <4>1. DecodingOf(y)' = DecodingOf(y) \cup {w} /\ w \notin DecodingOf(y)
        BY <1>3, <1>4, <3>1 DEF DecodingOf, Decoding
      <4> QED BY <2>3, <3>1, <4>1, FS_AddElement
    <3>2. CASE y # k
      <4>1. DecodingOf(y)' = DecodingOf(y)
        BY <1>3, <1>4, <3>2 DEF DecodingOf, Decoding
      <4> QED BY <2>3, <3>2, <4>1
    <3> QED BY <3>1, <3>2
  <2>5. Places(y)' = Places(y)
    BY <1>5, <2>2, <2>3, <2>4 DEF Places
  <2> QED BY <1>1, <1>5, <2>1, <2>5 DEF PlaceOK
<1>8. OnceOK'
  BY <1>1, <1>7 DEF OnceOK
<1> QED BY <1>1, <1>6, <1>8 DEF CacheInv, HeldOK

LEMMA DecodedOK ==
  ASSUME CacheInv, NEW w \in Pool, NEW image \in BOOLEAN, Decoded(w, image)
  PROVE  (Shape /\ OnceOK /\ HeldOK)'
<1> DEFINE k == poolWorker[w].key
           r == [key |-> k, image |-> image]
<1>1. /\ At(w, "decode") /\ finished' = Append(finished, r)
      /\ poolWorker' = [poolWorker EXCEPT ![w] = [pc |-> "wake", key |-> "none"]]
      /\ UNCHANGED <<held, bytes, loading, failed, pending, jobs, closed, woken, ui>>
  BY DEF Decoded, Becomes, cacheVars
<1>2. w \in Decoding
  BY <1>1 DEF Decoding
<1>3. k \in Keys /\ r \in Result /\ r.key = k
  BY <1>2 DEF CacheInv, Shape, Result
<1> HIDE DEF r
<1>4. poolWorker'[w].pc = "wake" /\ \A y \in Pool \ {w} : poolWorker'[y] = poolWorker[y]
  BY <1>1 DEF CacheInv, PoolOK
<1>5. Decoding' = Decoding \ {w}
  BY <1>1, <1>4 DEF Decoding
<1>6. finished' \in Seq(Result) /\ pending \in Seq(Result) /\ finished \in Seq(Result)
  BY <1>1, <1>3, AppendProperties DEF CacheInv, Shape
<1>7. Shape'
  BY <1>1, <1>4, <1>5, <1>6 DEF CacheInv, Shape, Decoding
<1>8. Results \in Seq(Result) /\ <<r>> \in Seq(Result) /\ Results' = Results \o <<r>>
  <2>1. Results \in Seq(Result)
    BY <1>6, ConcatProperties DEF Results
  <2>2. <<r>> \in Seq(Result) /\ finished' = finished \o <<r>>
    BY <1>1, <1>3, <1>6, AppendIsConcat
  <2>3. pending \o (finished \o <<r>>) = (pending \o finished) \o <<r>>
    BY <1>6, <2>2, ConcatAssociative
  <2> QED BY <1>1, <2>1, <2>2, <2>3 DEF Results
<1>9. KeysOf(Results') = Append(KeysOf(Results), k) /\ KeysOf(Results) \in Seq(Keys)
  <2>1. KeysOf(<<r>>) = <<k>>
    BY <1>3 DEF KeysOf
  <2>2. KeysOf(Results) \in Seq(Keys)
    BY <1>8, KeysOfIs
  <2>3. KeysOf(Results') = KeysOf(Results) \o <<k>>
    BY <1>8, <2>1, KeysOfConcat
  <2> HIDE DEF k
  <2> QED BY <1>3, <2>2, <2>3, AppendIsConcat
<1> HIDE DEF k
<1>10. ASSUME ~closed, NEW y \in Keys PROVE PlaceOK(y)'
  <2>1. PlaceOK(y)
    BY <1>10 DEF CacheInv, OnceOK
  <2>2. Times(y, KeysOf(Results')) = Times(y, KeysOf(Results)) + IF y = k THEN 1 ELSE 0
    BY <1>3, <1>9, TimesAppend
  <2>3. /\ Times(y, jobs) \in Nat /\ Times(y, KeysOf(Results)) \in Nat
        /\ IsFiniteSet(DecodingOf(y)) /\ Cardinality(DecodingOf(y)) \in Nat
    BY PlacesAreNumbers DEF CacheInv
  <2>4. Cardinality(DecodingOf(y)') = Cardinality(DecodingOf(y)) - IF y = k THEN 1 ELSE 0
    <3>1. CASE y = k
      <4>1. DecodingOf(y)' = DecodingOf(y) \ {w} /\ w \in DecodingOf(y)
        BY <1>2, <1>4, <1>5, <3>1 DEF DecodingOf, Decoding, k
      <4> QED BY <2>3, <3>1, <4>1, FS_RemoveElement
    <3>2. CASE y # k
      <4>1. DecodingOf(y)' = DecodingOf(y)
        BY <1>2, <1>4, <1>5, <3>2 DEF DecodingOf, Decoding, k
      <4> QED BY <2>3, <3>2, <4>1
    <3> QED BY <3>1, <3>2
  <2>5. Places(y)' = Places(y)
    BY <1>1, <2>2, <2>3, <2>4 DEF Places
  <2>6. Held' = Held
    BY <1>1 DEF Held
  <2> QED BY <1>1, <2>1, <2>5, <2>6 DEF PlaceOK
<1>11. OnceOK'
  BY <1>1, <1>10 DEF OnceOK
<1> QED BY <1>1, <1>7, <1>11 DEF CacheInv, HeldOK

----------------------------------------------------------------------------

LEMMA DrainOK == ASSUME CacheInv, Drain PROVE (Shape /\ OnceOK /\ HeldOK)'
<1> DEFINE R == Results
           taken == Taken(R)
           rest == Rest(R)
           new == KeysOf(Images(taken))
           now == Among(held, Keys \ Range(new)) \o new
           size == bytes + Size(new)
           gone == Evicted(now, size)
           KT == KeysOf(taken)
<1>1. /\ ui = "frame" /\ ui' = "idle" /\ loading' = loading \ Range(KT)
      /\ failed' = failed \cup (Range(KT) \ Range(new))
      /\ held' = SubSeq(now, gone + 1, Len(now)) /\ bytes' = size - Size(SubSeq(now, 1, gone))
      /\ finished' = <<>> /\ pending' = rest
      /\ UNCHANGED <<jobs, closed, poolWorker>>
  BY DEF Drain, Results
<1>2. held \in Seq(Keys) /\ IsInjective(held) /\ bytes = Size(held) /\ DOMAIN held = 1..Len(held)
  BY LenProperties DEF CacheInv, Shape, HeldOK
<1>3. ~closed /\ \A k \in Keys : PlaceOK(k)
  BY <1>1 DEF CacheInv, Shape, OnceOK
<1>4. R \in Seq(Result)
  BY ConcatProperties DEF CacheInv, Shape, Results
<1> HIDE DEF R
<1>5. taken \in Seq(Result) /\ rest \in Seq(Result) /\ R = taken \o rest
  BY <1>4, TakenRest
<1> HIDE DEF taken, rest
<1>6. KT \in Seq(Keys) /\ KeysOf(rest) \in Seq(Keys) /\ KeysOf(R) = KT \o KeysOf(rest)
  BY <1>5, KeysOfIs, KeysOfConcat
<1> HIDE DEF KT
<1>7. \A k : /\ Times(k, KeysOf(R)) = Times(k, KT) + Times(k, KeysOf(rest))
             /\ Times(k, KT) \in Nat /\ Times(k, KeysOf(rest)) \in Nat
             /\ Times(k, KT) = 0 <=> k \notin Range(KT)
  BY <1>6, TimesConcat, TimesIs
<1>8. ASSUME NEW k
      PROVE  /\ Places(k) = Times(k, jobs) + (Times(k, KT) + Times(k, KeysOf(rest)))
                           + Cardinality(DecodingOf(k))
             /\ Times(k, jobs) \in Nat /\ Cardinality(DecodingOf(k)) \in Nat
  BY <1>7, PlacesAreNumbers DEF CacheInv, Places, R
<1>9. \A k \in Keys : Places(k) \in {0, 1} /\ (k \in loading <=> Places(k) = 1)
  BY <1>3 DEF PlaceOK
\* What is taken was asked for, and is at no other place.
<1>10. ASSUME NEW k \in Range(KT)
       PROVE  /\ k \in Keys /\ k \in loading /\ Times(k, KT) = 1
              /\ Times(k, jobs) = 0 /\ Times(k, KeysOf(rest)) = 0 /\ Cardinality(DecodingOf(k)) = 0
  <2>1. k \in Keys
    BY <1>6 DEF Range
  <2>2. Times(k, KT) # 0 /\ Times(k, KT) \in Nat /\ Times(k, KeysOf(rest)) \in Nat
    BY <1>7
  <2>3. Places(k) = 0 \/ Places(k) = 1
    BY <1>9, <2>1
  <2> QED BY <1>8, <1>9, <2>1, <2>2, <2>3
<1>11. IsInjective(KT)
  <2> SUFFICES ASSUME NEW i \in DOMAIN KT, NEW j \in DOMAIN KT, KT[i] = KT[j] PROVE i = j
    BY DEF IsInjective
  <2>1. Times(KT[i], KT) <= 1
    BY <1>10 DEF Range
  <2> QED BY <1>6, <2>1, TimesIs
<1>12. new \in Seq(Keys) /\ IsInjective(new) /\ Range(new) \subseteq Range(KT)
  BY <1>5, <1>11, ImagesOnce DEF KT
<1> HIDE DEF new
<1>13. Range(held) \cap Range(new) = {}
  BY <1>3, <1>10, <1>12 DEF PlaceOK, Held
<1>14. now = held \o new
  <2>1. \A i \in 1..Len(held) : held[i] \in Keys \ Range(new)
    BY <1>2, <1>13, ElementOfSeq DEF Range
  <2> QED BY <1>2, <2>1, AmongKeeps
<1> HIDE DEF now
<1>15. now \in Seq(Keys) /\ IsInjective(now) /\ Range(now) = Range(held) \cup Range(new)
  BY <1>2, <1>12, <1>13, <1>14, InjectiveConcat
<1>16. size = Size(now)
  BY <1>2, <1>12, <1>14, SizeConcat
<1> HIDE DEF size
<1>17. gone \in 0..Len(now)
  BY <1>15, EvictedIs
<1> HIDE DEF gone
<1>18. held' \in Seq(Keys) /\ IsInjective(held') /\ Range(held') \subseteq Range(now) /\ bytes' = Size(held')
  BY <1>1, <1>15, <1>16, <1>17, KeptAfter
<1>19. Decoding' = Decoding /\ (\A k : DecodingOf(k)' = DecodingOf(k)) /\ Results' = rest
  <2>1. Results' = rest \o <<>>
    BY <1>1 DEF Results
  <2> QED BY <1>1, <1>5, <2>1, ConcatEmptySeq DEF Decoding, DecodingOf
<1>20. Shape'
  BY <1>1, <1>3, <1>5, <1>18, <1>19, EmptySeq DEF CacheInv, Shape
<1>21. ASSUME NEW k \in Keys PROVE PlaceOK(k)'
  <2>1. Places(k)' = Times(k, jobs) + Times(k, KeysOf(rest)) + Cardinality(DecodingOf(k))
    BY <1>1, <1>19 DEF Places
  <2>2. CASE k \in Range(KT)
    <3>1. Places(k)' = 0 /\ k \notin loading'
      BY <1>1, <1>10, <2>1, <2>2
    <3> QED BY <3>1 DEF PlaceOK
  <2>3. CASE k \notin Range(KT)
    <3>1. Times(k, KT) = 0 /\ Times(k, KeysOf(rest)) \in Nat
      BY <1>7, <2>3
    <3>2. Places(k)' = Places(k)
      BY <1>8, <2>1, <3>1
    <3>3. k \in loading' <=> k \in loading
      BY <1>1, <2>3
    <3>4. k \in loading => k \notin Held' \cup failed'
      BY <1>1, <1>3, <1>12, <1>15, <1>18, <2>3 DEF PlaceOK, Held
    <3> QED BY <1>3, <3>2, <3>3, <3>4 DEF PlaceOK
  <2> QED BY <2>2, <2>3
<1> QED BY <1>18, <1>20, <1>21 DEF OnceOK, HeldOK

\* A step that leaves the sources, and what is held of them, where they are.
LEMMA StillOK ==
  ASSUME CacheInv, UNCHANGED <<cacheVars, jobs, closed, finished>>,
         Decoding' = Decoding /\ (\A k : DecodingOf(k)' = DecodingOf(k)),
         \A w \in Decoding : poolWorker'[w] = poolWorker[w], closed => ui' \in {"closing", "gone"}
  PROVE  (Shape /\ OnceOK /\ HeldOK)'
<1>1. Results' = Results /\ Held' = Held
  BY DEF cacheVars, Results, Held
<1>2. OnceOK'
  BY <1>1, NothingMoves DEF CacheInv, cacheVars
<1> QED BY <1>2 DEF CacheInv, Shape, HeldOK, cacheVars

LEMMA WakesOK == ASSUME CacheInv, Notify \/ NotifyAll PROVE (Shape /\ OnceOK /\ HeldOK)'
<1>1. UNCHANGED <<cacheVars, jobs, closed, finished>>
  BY DEF Notify, NotifyAll
<1>2. \A w \in Pool : \/ poolWorker'[w] = poolWorker[w]
                      \/ poolWorker[w].pc = "wait" /\ poolWorker'[w].pc = "free"
  <2>1. CASE Notify
    BY <2>1 DEF Notify, Notifies, CacheInv, PoolOK
  <2>2. CASE NotifyAll
    BY <2>2 DEF NotifyAll, CacheInv, PoolOK
  <2> QED BY <2>1, <2>2
<1>3. /\ Decoding' = Decoding /\ (\A k : DecodingOf(k)' = DecodingOf(k))
      /\ \A w \in Decoding : poolWorker'[w] = poolWorker[w]
  BY <1>2 DEF Decoding, DecodingOf
<1>4. closed => ui' \in {"closing", "gone"}
  BY DEF CacheInv, Shape, Notify, NotifyAll
<1> QED BY <1>1, <1>3, <1>4, StillOK

LEMMA FrameOK == ASSUME CacheInv, Frame \/ WakeTaken PROVE (Shape /\ OnceOK /\ HeldOK)'
<1>1. UNCHANGED <<cacheVars, poolVars>> /\ ui = "idle"
  BY DEF Frame, WakeTaken
<1>2. /\ Decoding' = Decoding /\ (\A k : DecodingOf(k)' = DecodingOf(k))
      /\ \A w \in Decoding : poolWorker'[w] = poolWorker[w]
  BY <1>1 DEF Decoding, DecodingOf, poolVars
<1>3. ~closed
  BY <1>1 DEF CacheInv, Shape
<1> QED BY <1>1, <1>2, <1>3, StillOK DEF poolVars

LEMMA DropOK == ASSUME CacheInv, Drop PROVE (Shape /\ OnceOK /\ HeldOK)'
<1>1. closed' /\ ui' = "closing" /\ UNCHANGED <<cacheVars, poolWorker, finished>>
  BY DEF Drop
<1>2. Decoding' = Decoding
  BY <1>1 DEF Decoding
<1> QED BY <1>1, <1>2 DEF CacheInv, Shape, OnceOK, HeldOK, cacheVars

LEMMA ThreadsOK ==
  ASSUME CacheInv, NEW w \in Pool, Wait(w) \/ Leave(w) \/ WaitEnds(w) \/ Wake(w)
  PROVE  (Shape /\ OnceOK /\ HeldOK)'
<1>1. UNCHANGED <<cacheVars, jobs, closed, finished, ui>>
  BY DEF Wait, Leave, WaitEnds, Wake
<1>2. PICK pc, key : Becomes(w, pc, key) /\ ~At(w, "decode") /\ pc # "decode"
  BY DEF Wait, Leave, WaitEnds, Wake
<1>3. /\ Decoding' = Decoding /\ (\A k : DecodingOf(k)' = DecodingOf(k))
  BY <1>2, SameDecodes DEF CacheInv
<1>4. \A y \in Decoding : poolWorker'[y] = poolWorker[y]
  BY <1>2 DEF Becomes, Decoding, CacheInv, PoolOK
<1>5. closed => ui' \in {"closing", "gone"}
  BY <1>1 DEF CacheInv, Shape
<1> QED BY <1>1, <1>3, <1>4, <1>5, StillOK

LEMMA DisconnectedOK ==
  ASSUME CacheInv, NEW w \in Pool, Disconnected(w) PROVE (Shape /\ OnceOK /\ HeldOK)'
<1>1. closed /\ UNCHANGED <<cacheVars, jobs, closed, finished, ui>>
  BY DEF Disconnected
<1>2. ~At(w, "decode")' /\ \A y \in Pool \ {w} : poolWorker'[y] = poolWorker[y]
  BY DEF Disconnected, Becomes, CacheInv, PoolOK
<1>3. \A y \in Decoding' : y \in Decoding /\ poolWorker'[y] = poolWorker[y]
  BY <1>2 DEF Decoding
<1> QED BY <1>1, <1>3 DEF CacheInv, Shape, OnceOK, HeldOK, cacheVars

LEMMA NextCacheInv == CacheInv /\ [CacheNext]_imageVars => CacheInv'
<1> SUFFICES ASSUME CacheInv, [CacheNext]_imageVars PROVE CacheInv'
  OBVIOUS
<1>1. PoolOK'
  BY NextPoolOK DEF CacheInv
<1>2. CASE UNCHANGED imageVars
  <2>1. /\ UNCHANGED <<cacheVars, jobs, closed, finished, ui, poolWorker>>
    BY <1>2 DEF imageVars, cacheVars
  <2>2. Decoding' = Decoding /\ \A k : DecodingOf(k)' = DecodingOf(k)
    BY <2>1 DEF Decoding, DecodingOf
  <2>3. closed => ui' \in {"closing", "gone"}
    BY <2>1 DEF CacheInv, Shape
  <2> QED BY <1>1, <2>1, <2>2, <2>3, StillOK DEF CacheInv
<1>3. ASSUME NEW k \in Keys, UseImage(k) \/ UsePlaceholder(k) \/ Request(k) PROVE CacheInv'
  BY <1>1, <1>3, UseImageOK, UsePlaceholderOK, RequestOK DEF CacheInv
<1>4. CASE Notify \/ Frame \/ WakeTaken \/ Drain \/ Drop \/ NotifyAll
  BY <1>1, <1>4, WakesOK, FrameOK, DrainOK, DropOK DEF CacheInv
<1>5. ASSUME NEW w \in Pool, Thread(w) \/ WaitEnds(w) PROVE CacheInv'
  <2>1. ASSUME NEW image \in BOOLEAN, Decoded(w, image) PROVE CacheInv'
    BY <1>1, <2>1, DecodedOK DEF CacheInv
  <2>2. ASSUME TakeJob(w) PROVE CacheInv'
    BY <1>1, <2>2, TakeJobOK DEF CacheInv
  <2>3. ASSUME Wait(w) \/ Leave(w) \/ WaitEnds(w) \/ Wake(w) PROVE CacheInv'
    BY <1>1, <2>3, ThreadsOK DEF CacheInv
  <2>4. ASSUME Disconnected(w) PROVE CacheInv'
    BY <1>1, <2>4, DisconnectedOK DEF CacheInv
  <2> QED BY <1>5, <2>1, <2>2, <2>3, <2>4 DEF Thread
<1> QED BY <1>2, <1>3, <1>4, <1>5 DEF CacheNext

LEMMA CacheInvIsOnce == CacheInv => AskedOnce
<1> SUFFICES ASSUME CacheInv PROVE AskedOnce
  OBVIOUS
<1>1. ASSUME ~closed, NEW k \in Keys
      PROVE /\ Times(k, jobs) + Times(k, KeysOf(Results))
                 + Cardinality({w \in Decoding : poolWorker[w].key = k}) = (IF k \in loading THEN 1 ELSE 0)
            /\ k \in loading => k \notin Held \cup failed
  BY <1>1 DEF CacheInv, OnceOK, PlaceOK, Places, DecodingOf
<1> QED BY <1>1 DEF AskedOnce, CacheInv, HeldOK

----------------------------------------------------------------------------

\* While a thread sleeps, each job on the stack has an awake thread or the
\* notification to come (ui/src/image_cache/pool.rs:74).
THEOREM HandsAreBusy == CacheSpec => []NoIdleHands
<1>1. PoolOK /\ NoIdleHands /\ [CacheNext]_imageVars => (PoolOK /\ NoIdleHands)'
  BY NextPoolOK, NextNoIdleHands
<1> QED BY <1>1, InitPoolOK, InitNoIdleHands, PTL DEF CacheSpec

\* No finished decode waits for a UI thread that nobody wakes
\* (ui/src/image_cache/mod.rs:178).
THEOREM ResultsAreTaken == CacheSpec => []ResultsWake
<1>1. PoolOK /\ ResultsWake /\ [CacheNext]_imageVars => (PoolOK /\ ResultsWake)'
  BY NextPoolOK, NextResultsWake
<1> QED BY <1>1, InitPoolOK, InitResultsWake, PTL DEF CacheSpec

\* Every source asked for is at one place until it is settled, is held or failed
\* only after that, and the bytes counted are those of the images held, for any
\* images, sizes, budget, uploads a frame and threads
\* (ui/src/image_cache/mod.rs:208, 240).
THEOREM ImagesAskedOnce == CacheSpec => []AskedOnce
<1>1. CacheInit => CacheInv
  BY InitPoolOK, InitCacheInv DEF CacheInv
<1> QED BY <1>1, NextCacheInv, CacheInvIsOnce, PTL DEF CacheSpec

=============================================================================
