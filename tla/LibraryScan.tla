---------------------------- MODULE LibraryScan ----------------------------
(***************************************************************************)
(* Incremental scans of the local library: crates/library/src/scanner and  *)
(* the calls of crates/ui/src/backend/library that start, cancel and purge.*)
(*                                                                         *)
(* A scan reads the stamps of the stored rows, walks its folders, reads    *)
(* the tags of the files whose stamp differs and streams them in batches   *)
(* to a writer thread, which moves, updates, inserts and at last deletes   *)
(* rows.  Every scan has a connection of its own, so several of them, the  *)
(* tag editor and whatever else changes the files run side by side.        *)
(***************************************************************************)
EXTENDS Naturals, Sequences, FiniteSets

CONSTANTS
  RootOf,       (* the library folder every path is under                  *)
  DirOf,        (* the directory of every path                             *)
  Contents,     (* what a file may hold: its size, duration and tags       *)
  Start,        (* what the files hold at first, all of it stored          *)
  BatchSize,    (* the files read before a batch goes to the writer        *)
  Faults,       (* what may fail: reading a "locked" file or the           *)
                (* "metadata" of one, a call on the "store"; "race":       *)
                (* another program writes the file of the tag editor       *)
                (* before the editor stats it                              *)
  MaxScans,     (* bound: the scans started                                *)
  MaxChanges    (* bound: the changes to files and shares, and failures    *)

Paths == DOMAIN RootOf
Roots == {RootOf[p] : p \in Paths}
Nothing == "nothing"
NoRoot == "no root"
NoFile == [stamp |-> 0, holds |-> Nothing]
NoRow == [id |-> <<>>, stamp |-> 0, tags |-> Nothing]

ASSUME PathsAssumption == IsFiniteSet(DOMAIN RootOf)
ASSUME RootsAssumption == NoRoot \notin Roots
ASSUME DirAssumption == DirOf \in [Paths -> {DirOf[p] : p \in Paths}]
ASSUME StartAssumption ==
  /\ Nothing \notin Contents
  /\ Start \in [Paths -> [stamp : 1..Cardinality(Paths), holds : Contents] \cup {NoFile}]
  /\ \A p, q \in Paths : Start[p] # NoFile /\ Start[p].stamp = Start[q].stamp => p = q
ASSUME ScanBoundsAssumption ==
  BatchSize \in Nat \ {0} /\ MaxScans \in Nat /\ MaxChanges \in Nat
ASSUME ScanFaultsAssumption == Faults \subseteq {"locked", "metadata", "store", "race"}

VARIABLES
  file,         (* the files: the version on disk and what it holds        *)
  down,         (* the folders that cannot be reached now                  *)
  config,       (* the folders of the library                              *)
  rows,         (* the tracks of the database                              *)
  scan,         (* every scan and the thread that walks and reads          *)
  writer,       (* the writer thread of every scan                         *)
  edit,         (* the tag editor's worker                                 *)
  count         (* versions, rows, scans and changes made so far           *)

vars == <<file, down, config, rows, scan, writer, edit, count>>

Ids == 1..MaxScans
OnDisk(p) == file[p] # NoFile
Stored(p) == rows[p] # NoRow
Under(roots) == {p \in Paths : RootOf[p] \in roots}
In(dirs) == {p \in Paths : DirOf[p] \in dirs}

\* known, seen: the stamps of the rows and of the files the walk found; todo:
\* paths the walk has still to visit under the folder it is at.  missing,
\* inserted and calm are history: the paths where there was no file at some
\* moment of the scan or only one whose metadata it could not read, what it
\* stored as new rows, and whether nothing interfered with the scan.
Unscanned ==
  [pc |-> "off", cancelled |-> FALSE, roots |-> {}, purge |-> {},
   known |-> [p \in Paths |-> 0], left |-> {}, at |-> NoRoot, todo |-> {},
   seen |-> [p \in Paths |-> 0], walked |-> {}, failed |-> {},
   pending |-> {}, taken |-> 0, batch |-> {},
   missing |-> {}, inserted |-> {}, calm |-> FALSE]

\* robbed is history: what the files hold that found their row taken away when
\* they were to move it.
Unstarted == [pc |-> "off", inbox |-> <<>>, candidates |-> {}, fresh |-> {}, robbed |-> {}]

Idle == [pc |-> "idle", path |-> CHOOSE p \in Paths : TRUE, tags |-> Nothing, stamp |-> 0]

Init ==
  /\ file = Start
  /\ rows = [p \in Paths |-> IF Start[p] = NoFile THEN NoRow
                             ELSE [id |-> <<0, p>>, stamp |-> Start[p].stamp, tags |-> Start[p].holds]]
  /\ down = {} /\ config = Roots /\ edit = Idle
  /\ scan = [n \in Ids |-> Unscanned]
  /\ writer = [n \in Ids |-> Unstarted]
  /\ count = [stamp |-> Cardinality(Paths), id |-> 1, scans |-> 0, changes |-> 0]

----------------------------------------------------------------------------
(* The world outside: other programs and the shares the folders are on.    *)

Running(n) == scan[n].pc \notin {"off", "done"}

\* A change that interferes with the scans that run.
Disturbed(s, absent) ==
  [n \in Ids |-> [s[n] EXCEPT !.calm = FALSE,
                              !.missing = IF Running(n) THEN @ \cup absent ELSE @]]

Change(files, stamps) ==
  /\ count.changes < MaxChanges
  /\ count' = [count EXCEPT !.changes = @ + 1, !.stamp = @ + stamps]
  /\ file' = files
  /\ scan' = Disturbed(scan, {p \in Paths : files[p] = NoFile})
  /\ UNCHANGED <<down, config, rows, writer, edit>>

MayChange(p) == edit.pc = "stat" /\ edit.path = p => "race" \in Faults

OtherWrites(p, c) ==
  /\ MayChange(p)
  /\ Change([file EXCEPT ![p] = [stamp |-> count.stamp + 1, holds |-> c]], 1)

OtherRemoves(p) == OnDisk(p) /\ MayChange(p) /\ Change([file EXCEPT ![p] = NoFile], 0)

\* A file keeps its size and modification time where it is moved.
OtherRenames(p, q) ==
  /\ OnDisk(p) /\ ~OnDisk(q) /\ MayChange(p) /\ MayChange(q)
  /\ Change([file EXCEPT ![p] = NoFile, ![q] = file[p]], 0)

ShareChanges(r) ==
  /\ count.changes < MaxChanges
  /\ count' = [count EXCEPT !.changes = @ + 1]
  /\ down' = IF r \in down THEN down \ {r} ELSE down \cup {r}
  /\ scan' = Disturbed(scan, {})
  /\ UNCHANGED <<file, config, rows, writer, edit>>

Outside ==
  \/ \E p \in Paths, c \in Contents : OtherWrites(p, c)
  \/ \E p \in Paths : OtherRemoves(p)
  \/ \E p, q \in Paths : OtherRenames(p, q)
  \/ \E r \in Roots : ShareChanges(r)

----------------------------------------------------------------------------
(* The backend on the UI thread.                                           *)

\* A scan of the given folders on a thread of its own; the one before, if it
\* runs, goes on.
BeginScan(roots, purge) ==
  /\ count.scans < MaxScans
  /\ count' = [count EXCEPT !.scans = @ + 1]
  /\ scan' = [Disturbed(scan, {}) EXCEPT ![count.scans + 1] =
                [Unscanned EXCEPT
                   !.pc = IF purge = {} THEN "load" ELSE "purge", !.roots = roots, !.purge = purge,
                   !.missing = {p \in Paths : ~OnDisk(p)},
                   !.calm = edit.pc = "idle" /\ \A n \in Ids : ~Running(n)]]
  /\ UNCHANGED <<file, down, rows, writer, edit>>

Rescan == config # {} /\ BeginScan(config, {}) /\ UNCHANGED config

RemoveFolder(r) ==
  /\ r \in config
  /\ config' = config \ {r}
  /\ BeginScan(config', {r})

AddFolder(r) ==
  /\ r \notin config
  /\ config' = config \cup {r}
  /\ BeginScan(config', {})

\* What the watcher has gathered may name folders removed since.
WatcherAsks(roots) == BeginScan(roots, {}) /\ UNCHANGED config

\* Reaches the scan started last.
CancelScan ==
  LET n == count.scans IN
  /\ n # 0 /\ Running(n) /\ ~scan[n].cancelled
  /\ scan' = [scan EXCEPT ![n].cancelled = TRUE, ![n].calm = FALSE]
  /\ UNCHANGED <<file, down, config, rows, writer, edit, count>>

Backend ==
  \/ Rescan \/ CancelScan
  \/ \E r \in Roots : RemoveFolder(r) \/ AddFolder(r)
  \/ \E roots \in SUBSET Roots : roots # {} /\ WatcherAsks(roots)

----------------------------------------------------------------------------
(* The walking and reading thread of scan n.                               *)

Step(n, s) ==
  /\ scan' = [scan EXCEPT ![n] = s]
  /\ UNCHANGED <<file, down, config, rows, edit, count>>

Quietly(n, s) == Step(n, s) /\ UNCHANGED writer

Purge(n) ==
  /\ scan[n].pc = "purge"
  /\ rows' = [p \in Paths |-> IF p \in Under(scan[n].purge) THEN NoRow ELSE rows[p]]
  /\ scan' = [scan EXCEPT ![n].pc = IF scan[n].roots = {} THEN "done" ELSE "load"]
  /\ UNCHANGED <<file, down, config, writer, edit, count>>

\* A store that refuses the purge or the stamps ends the scan.
ScanFails(n) ==
  /\ "store" \in Faults /\ count.changes < MaxChanges
  /\ scan[n].pc \in {"purge", "load"}
  /\ scan' = [scan EXCEPT ![n].pc = "done", ![n].calm = FALSE]
  /\ count' = [count EXCEPT !.changes = @ + 1]
  /\ UNCHANGED <<file, down, config, rows, writer, edit>>

SizeMtimeMap(n) ==
  /\ scan[n].pc = "load"
  /\ Quietly(n, [scan[n] EXCEPT !.pc = "walk", !.left = scan[n].roots,
                                !.known = [p \in Paths |-> rows[p].stamp]])

\* The folder the walk is at is done with when nothing in it is left to visit.
Walked(s) ==
  [s EXCEPT !.at = NoRoot, !.walked = IF s.at = NoRoot THEN @ ELSE @ \cup {s.at}]

WalkRoot(n, r) ==
  LET s == Walked(scan[n]) IN
  /\ s.pc = "walk" /\ s.todo = {} /\ ~s.cancelled /\ r \in s.left
  /\ Quietly(n, IF r \in down THEN [s EXCEPT !.left = @ \ {r}, !.calm = FALSE]
                ELSE [s EXCEPT !.left = @ \ {r}, !.at = r, !.todo = Under({r})])

Walking(n) == scan[n].pc = "walk" /\ scan[n].todo # {} /\ ~scan[n].cancelled

Found(s, p) == [s EXCEPT !.todo = @ \ {p}, !.seen[p] = file[p].stamp]

VisitEntry(n, p) ==
  /\ Walking(n) /\ scan[n].at \notin down /\ p \in scan[n].todo
  /\ Quietly(n, Found(scan[n], p))

\* What is reached on a folder that is down fails; another failure is a change.
CountedFailure(r) ==
  IF r \in down THEN UNCHANGED count
  ELSE count.changes < MaxChanges /\ count' = [count EXCEPT !.changes = @ + 1]

\* An entry without metadata is neither seen nor taken for a failure.
PassedOver(s, p) ==
  [s EXCEPT !.todo = @ \ {p}, !.missing = @ \cup {p}, !.calm = FALSE]

EntryFails(n, p) ==
  /\ "metadata" \in Faults /\ Walking(n) /\ p \in scan[n].todo /\ OnDisk(p)
  /\ scan' = [scan EXCEPT ![n] = PassedOver(@, p)]
  /\ CountedFailure(scan[n].at)
  /\ UNCHANGED <<file, down, config, rows, writer, edit>>

\* A directory that cannot be listed, or no further.
Unlisted(s, d) ==
  [s EXCEPT !.todo = @ \ In({d}), !.failed = @ \cup {d}, !.calm = FALSE]

DirFails(n, d) ==
  /\ Walking(n) /\ d # scan[n].at /\ In({d}) \cap scan[n].todo # {}
  /\ scan' = [scan EXCEPT ![n] = Unlisted(@, d)]
  /\ CountedFailure(scan[n].at)
  /\ UNCHANGED <<file, down, config, rows, writer, edit>>

RootFails(n) ==
  /\ Walking(n) /\ scan[n].at \in down
  /\ Quietly(n, [scan[n] EXCEPT !.at = NoRoot, !.todo = {}])

VanishedInFailed(s) ==
  IF s.cancelled THEN {} ELSE {p \in Under(s.walked) : s.known[p] # 0 /\ s.seen[p] = 0}

VanishedRows(s) ==
  IF s.cancelled THEN {}
  ELSE {p \in Under(s.walked) \ In(s.failed) : s.known[p] # 0 /\ s.seen[p] = 0}

ClassifyNewFiles(s) == {p \in Paths : s.seen[p] # 0 /\ s.known[p] = 0}

ClassifyFiles(s) == {p \in Paths : s.seen[p] # 0 /\ s.seen[p] # s.known[p]}

Vanished(paths) == [type |-> "vanished", paths |-> paths]
Tracks(items) == [type |-> "tracks", items |-> items]
Finish(delete) == [type |-> "finish", delete |-> delete]

Only(paths, stamps) == [p \in Paths |-> IF p \in paths THEN stamps[p] ELSE 0]

\* From here on only the stamps of the files to read matter.
Classify(n) ==
  LET s == Walked(scan[n])
      vanished == VanishedRows(s)
      pending == ClassifyFiles(s) IN
  /\ s.pc = "walk" /\ (s.cancelled \/ s.todo \cup s.left = {})
  /\ Step(n, [s EXCEPT !.pc = "read", !.left = {}, !.todo = {},
                       !.walked = {}, !.failed = {}, !.pending = pending,
                       !.known = Only(pending, @), !.seen = Only(pending, @)])
  /\ writer' = [writer EXCEPT
       ![n].pc = "idle",
       ![n].inbox = IF vanished = {} THEN <<>> ELSE <<Vanished(vanished)>>]

\* The tags are those of now, size and time those of the walk.
Read(s, p) ==
  [path |-> p, stamp |-> s.seen[p], tags |-> file[p].holds, prior |-> s.known[p] # 0]

\* The files are read in the order of their paths, here in any; a batch begins
\* unless the scan is cancelled, and goes to the writer when it is full.
MayRead(n, p) ==
  /\ scan[n].pc = "read" /\ p \in scan[n].pending
  /\ scan[n].taken = 0 => ~scan[n].cancelled /\ writer[n].pc # "failed"

IsFull(s) == s.taken = BatchSize \/ s.pending = {}

\* Nothing reaches a writer that has failed.
Send(n, message) ==
  writer' = [writer EXCEPT ![n].inbox = IF writer[n].pc = "failed" THEN <<>> ELSE Append(@, message)]

Takes(n, s) ==
  IF IsFull(s) THEN /\ Step(n, [s EXCEPT !.taken = 0, !.batch = {}])
                    /\ Send(n, Tracks(s.batch))
               ELSE Quietly(n, s)

ReadFile(n, p) ==
  /\ MayRead(n, p) /\ OnDisk(p) /\ RootOf[p] \notin down
  /\ Takes(n, [scan[n] EXCEPT !.pending = @ \ {p}, !.taken = @ + 1,
                              !.batch = @ \cup {Read(scan[n], p)}])

SkipUnreadable(n, p) ==
  /\ MayRead(n, p) /\ (~OnDisk(p) \/ RootOf[p] \in down \/ "locked" \in Faults)
  /\ Takes(n, [scan[n] EXCEPT !.pending = @ \ {p}, !.taken = @ + 1, !.calm = FALSE])

SendFinish(n) ==
  /\ scan[n].pc = "read" /\ scan[n].taken = 0
  /\ scan[n].cancelled \/ scan[n].pending = {} \/ writer[n].pc = "failed"
  /\ Step(n, [scan[n] EXCEPT !.pc = "join"])
  /\ Send(n, Finish(~scan[n].cancelled))

JoinWriter(n) ==
  /\ scan[n].pc = "join" /\ writer[n].pc \in {"ended", "failed"}
  /\ Step(n, [Unscanned EXCEPT !.pc = "done", !.roots = scan[n].roots, !.calm = scan[n].calm])
  /\ writer' = [writer EXCEPT ![n] = Unstarted]

Scanner(n) ==
  \/ Purge(n) \/ ScanFails(n) \/ SizeMtimeMap(n) \/ RootFails(n) \/ Classify(n)
  \/ \E r \in Roots : WalkRoot(n, r)
  \/ \E p \in Paths :
       \/ VisitEntry(n, p) \/ EntryFails(n, p) \/ DirFails(n, DirOf[p])
       \/ ReadFile(n, p) \/ SkipUnreadable(n, p)
  \/ SendFinish(n) \/ JoinWriter(n)

----------------------------------------------------------------------------
(* The writer thread of scan n.                                            *)

Write(n, w) ==
  /\ writer' = [writer EXCEPT ![n] = w]
  /\ UNCHANGED <<file, down, config, edit>>

Message(n) == Head(writer[n].inbox)
Receives(n, type) ==
  writer[n].pc = "idle" /\ writer[n].inbox # <<>> /\ Message(n).type = type

LoadRows(n) ==
  /\ Receives(n, "vanished")
  /\ Write(n, [writer[n] EXCEPT
       !.inbox = Tail(@),
       !.candidates = {[path |-> p, tags |-> rows[p].tags] : p \in {q \in Message(n).paths : Stored(q)}}])
  /\ UNCHANGED <<rows, scan, count>>

RowOfRestat(item, id) == [id |-> id, stamp |-> file[item.path].stamp, tags |-> item.tags]

RowOf(item, id) == [id |-> id, stamp |-> item.stamp, tags |-> item.tags]

Persisted(w, item) == [w EXCEPT !.inbox[1].items = @ \ {item}]

Updated(item) == item.prior /\ Stored(item.path)

UpdateTrack(n, item) ==
  /\ Updated(item)
  /\ rows' = [rows EXCEPT ![item.path] = RowOf(item, @.id)]
  /\ Write(n, Persisted(writer[n], item))
  /\ UNCHANGED <<scan, count>>

MovedRow(from, item) ==
  [rows EXCEPT ![from] = NoRow, ![item.path] = RowOf(item, rows[from].id)]

FindMoveAsOld(n, item) ==
  {c \in writer[n].candidates : c.tags = item.tags /\ rows[c.path].stamp = item.stamp}

FindMove(n, item) == {c \in writer[n].candidates : c.tags = item.tags}

\* A move to a path that has a row by now is refused by the database and ends
\* the writer; one of a row that is gone leaves the item to be inserted.
MoveTrack(n, item, c) ==
  LET w == [Persisted(writer[n], item) EXCEPT !.candidates = @ \ {c}] IN
  /\ ~Updated(item) /\ c \in FindMove(n, item)
  /\ \/ /\ Stored(c.path) /\ ~Stored(item.path)
        /\ rows' = MovedRow(c.path, item)
        /\ Write(n, w) /\ UNCHANGED <<scan, count>>
     \/ /\ ~Stored(c.path)
        /\ Write(n, [w EXCEPT !.fresh = @ \cup {item}, !.robbed = @ \cup {item.tags}])
        /\ UNCHANGED <<rows, scan, count>>
     \/ /\ Stored(c.path) /\ Stored(item.path)
        /\ Write(n, [w EXCEPT !.pc = "failed", !.inbox = <<>>]) /\ UNCHANGED <<rows, scan, count>>

NotMoved(n, item) ==
  /\ ~Updated(item) /\ FindMove(n, item) = {}
  /\ Write(n, [Persisted(writer[n], item) EXCEPT !.fresh = @ \cup {item}])
  /\ UNCHANGED <<rows, scan, count>>

\* One transaction; a row that is there keeps its id.
UpsertTracks(n) ==
  LET fresh == writer[n].fresh
      new == {i \in fresh : ~Stored(i.path)} IN
  /\ Receives(n, "tracks") /\ Message(n).items = {}
  /\ rows' = [p \in Paths |->
       IF \E i \in fresh : i.path = p
       THEN LET i == CHOOSE i \in fresh : i.path = p
            IN RowOf(i, IF i \in new THEN <<count.id, p>> ELSE rows[p].id)
       ELSE rows[p]]
  /\ count' = [count EXCEPT !.id = IF new = {} THEN @ ELSE @ + 1]
  /\ scan' = [scan EXCEPT ![n].inserted = @ \cup {i.tags : i \in new}]
  /\ Write(n, [writer[n] EXCEPT !.inbox = Tail(@), !.fresh = {}])

Remaining(n) ==
  IF Message(n).delete THEN {c.path : c \in writer[n].candidates} ELSE {}

DeleteRemaining(n) ==
  /\ Receives(n, "finish")
  /\ rows' = [p \in Paths |-> IF p \in Remaining(n) THEN NoRow ELSE rows[p]]
  /\ Write(n, [writer[n] EXCEPT !.pc = "ended", !.inbox = Tail(@)])
  /\ UNCHANGED <<scan, count>>

StoreFails(n) ==
  /\ "store" \in Faults /\ count.changes < MaxChanges
  /\ writer[n].pc = "idle" /\ writer[n].inbox # <<>>
  /\ Write(n, [writer[n] EXCEPT !.pc = "failed", !.inbox = <<>>])
  /\ scan' = [scan EXCEPT ![n].calm = FALSE]
  /\ count' = [count EXCEPT !.changes = @ + 1]
  /\ UNCHANGED rows

WriterStep(n) ==
  \/ LoadRows(n) \/ UpsertTracks(n) \/ DeleteRemaining(n) \/ StoreFails(n)
  \/ Receives(n, "tracks") /\ \E item \in Message(n).items :
       \/ UpdateTrack(n, item) \/ NotMoved(n, item)
       \/ \E c \in writer[n].candidates : MoveTrack(n, item, c)

----------------------------------------------------------------------------
(* The tag editor's worker: write the file, stat it, update the row.       *)

WriteTags(p, c) ==
  /\ edit.pc = "idle" /\ OnDisk(p) /\ RootOf[p] \notin down
  /\ count.changes < MaxChanges
  /\ count' = [count EXCEPT !.changes = @ + 1, !.stamp = @ + 1]
  /\ file' = [file EXCEPT ![p] = [stamp |-> count.stamp + 1, holds |-> c]]
  /\ edit' = [pc |-> "stat", path |-> p, tags |-> c, stamp |-> 0]
  /\ scan' = Disturbed(scan, {})
  /\ UNCHANGED <<down, config, rows, writer>>

StatEdited ==
  /\ edit.pc = "stat"
  /\ edit' = IF OnDisk(edit.path) /\ RootOf[edit.path] \notin down
             THEN [edit EXCEPT !.pc = "store", !.stamp = file[edit.path].stamp]
             ELSE Idle
  /\ UNCHANGED <<file, down, config, rows, scan, writer, count>>

StoreTagEdits ==
  /\ edit.pc = "store"
  /\ rows' = IF Stored(edit.path)
             THEN [rows EXCEPT ![edit.path].stamp = edit.stamp, ![edit.path].tags = edit.tags]
             ELSE rows
  /\ edit' = Idle
  /\ scan' = Disturbed(scan, {})
  /\ UNCHANGED <<file, down, config, writer, count>>

Editor == StatEdited \/ StoreTagEdits \/ \E p \in Paths, c \in Contents : WriteTags(p, c)

----------------------------------------------------------------------------
Next == Outside \/ Backend \/ Editor \/ \E n \in Ids : Scanner(n) \/ WriterStep(n)

Spec == Init /\ [][Next]_vars
=============================================================================
