# emusic in TLA+

emusic is a music player: a Rust workspace with a Windows and a portable desktop front end, an
Android application and a server that lends its library to both. This directory holds TLA+
models of the parts of it that keep state across threads, calls, machines or restarts, the TLC
configurations that check them on small instances, and proofs of their main invariants for
every instance. All paths below are relative to the repository root, `crates/...` to `src/`.

Contents: [parts](#1-the-system), [modules](#2-modules-and-how-they-follow-the-code),
[runs](#3-what-the-runs-check), [proofs](#4-what-is-proved),
[findings](#5-where-the-code-departs-from-its-documentation),
[limits](#6-what-is-left-out), [plan](#7-plan).

To check a module: `tlc -config Player.cfg MCPlayer`. To check proofs: `tlapm PlayerProofs.tla`.

## 1. The system

### Playback (crates/player, crates/sid, crates/bass)

| part | state | operations | must hold |
|---|---|---|---|
| explicit queue, `queue/mod.rs` | list, navigation order, position, shuffle, repeat | replace, enqueue, play_next, remove, move, shuffle, repeat, advance, retreat, jump, snapshot repair | the order stays a permutation with the position inside it; edits keep what is current and what was played; back undoes forward |
| scoped shuffle, `queue/shuffle.rs` | scope, bag to play, history, cursor, repeat | draw, walk back and forward, jump, remove, insert, reshuffle, snapshot repair | every track once per cycle, however the user walks; skipping ends; all tracks come round |
| queue source, `queue/source.rs` | the explicit queue or a scope | dispatch, conversion of one into the other | the union behaves as one queue |
| player, `player/*.rs` | queue source, transport state, loaded track, open in flight, pending resume, end signals | transport and queue calls, `tick` | loaded track, queue and transport state agree; no two channels sound; opens settle |
| SID channel, `sid/channel.rs`, `sid/src/ffi.rs` | feeder thread, command channel, ring of rendered audio, lease on the one emulator | restart, select a subtune, seek, stop, drop | a tune is heard whole, whatever was selected; the emulator goes round; tunes end |

The player is single threaded, but it opens files on workers that answer over a channel and
gets its end-of-track signals from the audio backend's thread; both are looked at only by
`tick`, which the UI calls once per frame. So every call of the user can fall between a worker
finishing and the tick that sees it, which is where its defects live: results for a track
nobody wants any more, signals of a track that was dropped, state set before it is known
whether the open works. A SID tune adds a thread that renders ahead of what is heard, and an
emulator that exists once in the process, so a tune can wait for the feeder of the one before.

### Libraries and their synchronisation

| part | state | operations | must hold |
|---|---|---|---|
| starred set of the server, `server/src/db/starred.rs`, `tracks.rs` | tracks, stars with times, ETag version | push, fetch with 304, scan upserts and deletes | equal version means equal visible set |
| star sync of a desktop, `ui/src/backend/library/star_sync`, `library/src/store/starred_sync.rs` | stars and stamps per row, merge base | click, fetch, three-way merge, push in batches, commit | no click is lost; all desktops converge |
| library sync, `ui/src/backend/library/remote.rs`, `server/src/db/tracks.rs` | rows, version, pass queue, worker flag | request, drain, delta, unpair | one worker, no request stranded, no row missed or left over |
| library scanner, `library/src/scanner` | per scan: stamps known and seen, failed directories, batches, candidates for a move | walk, classify, read, write in batches, move, delete, cancel, purge | a row goes only with its file; moves keep the row; a stale row is read again |
| tag editor, `library/src/tags/edit.rs` | file, stamp, row | write, stat, update | never makes a stale row look current |

A desktop talks to the server over HTTP requests that can fail between any two; the server
reads a delta in three statements without a transaction; the desktop writes one in three
transactions; users click and other devices push at any moment; the program can end anywhere.
A scan compares stamps it read at one moment with files it finds at others, several scans
overlap, since a new one does not stop the one before, and shares go away under them.

### The desktop's view (crates/ui)

| part | state | operations | must hold |
|---|---|---|---|
| library backend, `backend/library` | a snapshot of the store, the scan shown as running, the filter | loader, scans, tag edits and filter changes on threads that send snapshots; stars and history written on the UI thread | what is shown is what is stored; the scan indicator goes out |
| statistics recorder, `library/src/stats/recorder.rs`, `library/src/store/stats.rs` | channel of ended plays | begin, finish, record | a play has one row and is counted once |
| search engine, `search` | text, generation, requests, index of the worker | type, tick, reindex, query, answer | an answer shown is one to the text shown |
| image cache, `image_cache` | images held and their bytes, sources loading and failed, stack of jobs, decode threads | request, take a job, decode, upload, evict, drop | each image asked for is decoded once; no notification is lost; requests and threads end |

Not modelled: the server's writers and its administration, clients, mobile application, shells,
native bindings, presentation (see [6](#6-what-is-left-out)). `PROJECT.json` lists every
component with its status and the reason when it is left out.

## 2. Modules and how they follow the code

The pattern is the same throughout: a data-type module has one operator per method, taking a
value of the type to the value or the set of values it may leave (random orders and failing
calls make it a set); a specification module has one action per public method or per step of a
thread, any call being possible at any time; a `...Spec` module adds the promises; an `MC...`
module instantiates it; a `...Proofs` module holds the theorems. Definitions keep the names of
the methods, and `PROJECT.json` maps every one to its lines. Some definitions are wrong on
purpose: each shows, put in place of the right one, that a property of a run can fail
(`PROJECT.json`, "mutants").

| module | stands for |
|---|---|
| `Orders` | permutations of 1..n, the orders a `SliceRandom::shuffle` may leave |
| `Queue`, `QueueSpec` | the explicit queue: items, order, position |
| `Shuffle`, `ShuffleSpec` | the scoped shuffle |
| `OncePerCycle` | what a scoped shuffle promises, abstractly; `ShuffleSpec!PlaysOncePerCycle` is the refinement |
| `QueueSource` | the enum over both, by INSTANCE of the two data types |
| `Player`, `PlayerSpec` | the playback engine composed with `QueueSource` |
| `SidChannel`, `SidChannelSpec` | a SID tune: feeder, push stream, emulator lease, and the player's calls on it |
| `StarredSet` | the server's stars and the transactions that touch them |
| `StarSync`, `StarSyncSpec` | any number of desktops around one `StarredSet` |
| `RemoteSync` | the library delta on both sides and the worker that asks for it |
| `LibraryScan`, `LibraryScanSpec` | any number of scans with their writers, the tag editor, and the files under them |
| `LibraryView` | the library backend of the UI thread, its threads, the recorder |
| `Search` | the search engine and its worker |
| `Shell`, `ShellSpec` | the frame loop that composes `LibraryView` and `Search` |
| `ImageCache`, `ImageCacheSpec` | the image cache and its pool of decode threads |

Positions are 1-based and 0 is `None`. Some correspondences worth knowing:

* **Player.** A method that calls others in turn is a composition of operators on the player
  record, so a call is one step, as it is in the code; `Tick` is `process_pending_open`, then
  `process_end_signals`, then `accrue_listened_time`. `current.chan` is the backend's channel,
  `pending.outcome` what the worker has sent so far (`dead` when it went away without a word).
  `ended` is the end channel that all tracks share: its signals come from the loaded track
  ("own") or from one dropped since ("stale"). `Faults` says what may fail: opening a file, the
  worker ("panic") and its thread, and each call the backend answers. A pause, a stop or a setting
  that is refused is only emitted (`loading.rs:99`, `:120`, `transport.rs:43`, `:88`): `pause` of
  `play_pause` then leaves the state, but a stop and the pause of a restored track set it all the
  same, and `current.refused` remembers which of the two stands refused.
* **SidChannel.** `held` follows the `SidChannel` value from the worker through the message to
  the player, as its drop is what ends the feeder. `run_feeder` is cut at every access to what
  it shares: receive, store the subtune, store the length, empty the ring, feed. Audio is
  counted in chunks that carry their subtune. `select_subsong` is two steps, since the second
  half reads what the feeder may not have written yet. The engine may fail at each restart, switch
  and chunk, the push stream at each chunk, each mark of the end and each reset of its queue
  (`Faults`). `heard`, `silenced` and `failed` are history.
* **StarSync.** A sync is `Begin` (library delta), `Fetch` (200 or 304), `Read` (rows and their
  stamps, merge), `PushStars` and `PushUnstars` in batches, `Commit`; `Abort` at any step is a
  failure or the end of the program. The clock counts milliseconds and the server keeps whole
  seconds (`Second`), so times are compared across units as they are in the code.
* **RemoteSync.** The steps of `drain` around the running flag are actions of their own, as two
  threads can be in them; so are the three reads and the three writes of one delta. `Restart`
  loses threads, flag and queue and keeps what was written.
* **LibraryScan.** A file is a version (`stamp`, for its size and time) and what it holds. A scan
  is the record of what `scanner::scan` has in its locals: `known` (`size_mtime_map`), `seen`,
  `walked` and `failed` of the walk, `pending` and `batch` of the reads; the channel to the
  writer is `inbox`, and a batch is written row by row, each a step of its own. Row ids are
  values that no two insertions share, so that plays, stars and playlists hang on them. The walk
  skips an entry whose metadata it cannot read (`walk.rs:107`), the purge may fail, and the watcher
  asks for what it was told to watch when the event came, removed or not.
  `missing`, `inserted`, `robbed` and `calm` are history.
* **LibraryView.** `FromStore` is `Snapshot::from_store`; a thread's `pc` tells whether it is
  loading, queued, working, building a snapshot under the lock of the store, or about to send it.
  A pass of the sync with a server is such a thread, one at a time: it changes rows of the server
  and stars in the store alone and builds a snapshot whatever failed. The store may refuse
  each write of the UI thread and of the recorder; `dropped` counts the plays the UI has
  counted and the recorder has lost that way.
  `Tick` takes all updates at once, as `poll` does, and lets the engine look at the tracks then
  shown. Rows of the history carry the second the play began in, as `started_at` does.
* **ImageCache.** The UI thread is cut between the push of a job and `notify_one`, and between
  frames; a decode thread between its wait, its decode, its send and its wake.

## 3. What the runs check

| run | checks | bounds, and why they are enough |
|---|---|---|
| `queue` | `QueueOK`, `ListOrderUnlessShuffled`, `RetreatUndoesAdvance`, `SnapshotRoundTrip`, `EditsKeepPlayed`, `EditsKeepUpcoming` | three tracks (symmetric), lists of up to three: a slot before, at and behind the position, duplicates, both ends |
| `shuffle` | `NoTrackTwice`, `RetreatUndoesAdvance`, `SkipTerminates`, `PlaysOncePerCycle`, `EveryTrackPlays` | scopes of up to three that grow to four; indices, not paths, are what is compared, so one path does |
| `player` | `OneChannelAtMost`, `PlayingIsCurrent`, `SettingsReachChannel`, `StateIsWhatIsHeard`, `ResumeIsForItsTrack`, `OpensSettle` | two tracks, lists of up to two, four calls, two settings, opens that fail and channels that refuse a pause, a stop or the settings: start, two edits or skips in flight, and one after |
| `sid_channel` | `SubtuneIsWhole`, `EmulatorGoesRound`, `TuneEnds` | two tunes one after the other, subtunes of known and unknown length, a ring of up to two chunks, three calls: a command while the feeder is in any of its steps and one more behind it; the engine or the stream may fail at each of theirs |
| `star_sync` | `EtagMeansSameSet`, `ClicksSurvive`, `Converges` | two desktops, one track, one file that matches it, three outside events: a change, one against it from the other side and a failure or scan |
| `remote_sync` | `OneWorker`, `DeltaMissesNothing`, `RequestsServed` | two tracks, two threads, four events: a track that goes and comes back between two reads while another changes |
| `library_scan` | `StampIsHonest`, `CalmScanIsExact`, `DeletedWasMissing`, `MovedFileKeepsRow` | two scans, a file in a directory and two more paths it may be moved or copied to, two changes from outside (write, move, copy, delete, share gone, store fails), metadata that cannot be read and the editor: a file and its copy read in either order around the row of the vanished one, a move and back, or a change under each of two overlapping scans; batches of one file. The two other paths are symmetric, only the first may come to hold anything else, and one scan at a time is cancelled |
| `library_view` | `OneRowPerPlay`, `CountedOnce`, `AnswerIsOfQuery`, `ScanningEnds`, `SearchIsAnswered` | two tracks, one of them a server's, and of threads, edits, plays and texts four together, each write refused or not: two snapshots around a play, an edit between a read and its swap, two texts before the first answer. A scan or sync changes one row, a sync one star |
| `image_cache` | `AskedOnce`, `NoIdleHands`, `ResultsWake`, `RequestsEnd`, `ThreadsEnd` | three images of different sizes and a placeholder, a budget that one of them fills, two threads, one upload a frame; no bound on requests or frames |
| `scan_removed`, `sid_stop`, `view_stale` | `RemovedFolderIsEmpty`, `PlayingIsFed`, `SettledStarsAreStored`: one promise each of a comment or doc, violated | section 5 |

What the less obvious properties say:

* `PlaysOncePerCycle`: the scope implements `OncePerCycle`: a track leaves the pending ones only
  by being played or dropped by the user, is heard again only by walking the history, and a new
  cycle starts only when nothing is pending and repeat is on.
* `SkipTerminates`: what is left to visit shrinks with every `advance_skip`, so an all-offline
  scope comes to an end; `OpensSettle` is the same promise seen from the player.
* `EditsKeepPlayed`, `EditsKeepUpcoming`: an edit of the list changes neither what was played,
  nor what is current unless it is removed, nor the order of what comes, except for the
  tracks it moves, adds or removes.
* `ResumeIsForItsTrack`: a saved position and play intent is applied to the track it was saved
  of, whatever the user opened, skipped or removed while it loaded.
* `SubtuneIsWhole`: what was heard, what is in the ring and what is left to render add up to the
  length of the subtune selected last, and nothing of another subtune is in the ring, whenever
  the feeder is between two commands; an end is reported after that length only.
* `EmulatorGoesRound`: a tune being opened gets the emulator or fails, and a feeder nobody wants
  any more ends, also while playback is paused and its ring full.
* `EtagMeansSameSet`: a 304 hides nothing: no change of another device, no track a scan
  deleted or brought back under a star, no id the push was told is unknown.
* `ClicksSurvive`: a star changed after the last synced read stands as the user left it until a
  sync that has read it commits.
* `DeltaMissesNothing`: every row the server has had since the version the desktop is at is
  there as the server has it, and no row stays whose tombstone the desktop is past.
* `DeletedWasMissing`: a row goes only if its folder was removed or there was no file at its path
  at some moment since the scan began, or one whose metadata could not be read; never for an
  offline share, an unlisted directory or a cancelled walk.
* `MovedFileKeepsRow`: no row is deleted while a file is still to be read, or when one that holds
  the same was stored as new, in whatever order they were read; except for a file that was to move
  a row which another scan took first (`robbed`).
* `StateIsWhatIsHeard`: "Playing" is never shown of a channel held, and a channel that plays is
  shown as paused or stopped only while a refused pause of a restored track or a refused stop stands.
* `TuneEnds`: a tune that plays ends, also where the engine fails it; except when the
  stream refuses a chunk or the mark of its end.
* `StampIsHonest`: a row whose stamp is the file's holds the file's tags, so whatever a scan or
  the tag editor left stale is read again by the next scan.
* `OneRowPerPlay`, `CountedOnce`: the history and the counts of the snapshot and of the store
  stay right when a snapshot read before a play is swapped in after it, and the reverse: what the
  UI counts ahead of the store is in the recorder's queue, or was refused by the store.
* `AskedOnce`: an image asked for is at one place, stack, thread or result, so it is decoded once,
  and what the budget counts is what is held.
* `NoIdleHands`: no notification is lost, whether a thread goes to sleep before or after the push.

Fairness is assumed where the code has a scheduler to justify it:

* `player`: the UI ticks the player once per frame (`crates/ui/src/backend/player_adapter.rs:214`)
  and an open returns or fails in the end. `OpensSettle` needs no fairness of the user.
* `shuffle`: weak fairness of `DoAdvance` stands for playback that goes on; `EveryTrackPlays` is
  said only of a listener who from some point on leaves a repeating scope alone.
* `sid_channel`: the feeder, the worker and the audio thread are threads, the UI ticks, and the
  second half of `select_subsong` follows the first. No call of the user is ever due.
* `star_sync`: a sync that was begun is a thread and goes on until it ends or fails. A failed
  one is not retried by the code until the next trigger, so `Converges` supposes that desktops
  keep beginning syncs; failures, like everything from outside, are bounded by the clock.
* `remote_sync`: threads run, and `spawn_sync` does not stop half way.
* `image_cache`: each decode thread runs, a wake brings a frame (the proxy of the event loop),
  `request` goes on to its notification and `drop` to its `notify_all`. Requests are served
  newest first, so `RequestsEnd` supposes that the UI asks for nothing more from some point on.

`library_scan` and `library_view` have no liveness property: what must happen in the end
(`ScanningEnds`, `SearchIsAnswered`) is stated as an invariant, that the step which brings it
about is on its way.

Deadlock is not checked where the bounds on outside events let the instance stop, and in
`image_cache`, where the cache may be dropped.

## 4. What is proved

All proofs are for any values of the constants, without the bounds of the runs: any tracks, any
list lengths, any number of desktops, threads, scans, calls or events. The assumptions are those
of the modules that declare the constants (`NoTrack` is no track, `Second` and `Batch` positive,
the paths of a library finite, `NoRoot` none of its folders). Some theorems have a hypothesis of
their own: a fault they exclude, since section 5 tells what that fault breaks, or, for the scanner,
a step of others that must not happen (`[][~Returns]_vars` and the like). Each of these was needed:
without it TLC finds the property broken, in the run or in a slightly larger instance.

* **Queue** (`QueueProofs`). The first lemmas are the facts about removing from, inserting in and
  renaming a permutation. The inductive invariant of the queue is
  `QueueOK` with the identity order when shuffle is off: every method preserves both, one lemma
  per method, also from a session file edited by hand. `RetreatUndoesAdvance` and
  `SnapshotRoundTrip` follow from them, and so do `EditsKeepPlayed` and `EditsKeepUpcoming`, by
  two facts: an item moved in the list is found where its index is renumbered to
  (`ReinsertedItems`), and an item taken out leaves each of the others at its own closed-up
  index (`RemovedKeepsPaths`).
* **Shuffle** (`ShuffleProofs`). `Sound` joins `ShuffleInRange` and `NoTrackTwice`: bag and history
  are each without repetition, hold indices of the scope and share none, and the cursor is on
  the history. Each method's lemma gives `Sound` again and, in the listener's terms, what
  happened: a pending track drawn (`Draws`), the history walked (`Walks`), a cycle begun
  (`Renews`), a track added (`Adds`) or dropped (`Drops`). These are the steps of `OncePerCycle`,
  so the refinement `KeepsPromise` follows action by action; `SkipsEnd` and `BackUndoesForward`
  follow from `Sound` alone.
* **Player** (`PlayerProofs`). `OneChannelAtMost`, `StateIsWhatIsHeard` and
  `SettingsReachChannel` are proved together as `PlayerOK`: a channel is loaded only while
  nothing is being opened, has the settings of the player, and does what the state tells; only
  an open has an outcome. The queue is opaque: whatever track it names, `drop_current` comes
  first, so the player is *between* two tracks (`Between`) each time it starts to open one, and
  that is the one fact every call's lemma rests on.

  `PlayingIsCurrent` needs the queue itself, and takes it from the theorems of its two kinds:
  `QueueProofs` and `ShuffleProofs` are instantiated with the player's source, whose invariant is
  `SourceInv`. The path every navigation returns is then that of the current track, or none
  (`Leads`), and an edit of the list keeps the current track if there was one (`Keeps`). `Follows`
  says that, unless the queue ran out, what is loaded or being opened is the current track, and
  that the transport is never left playing with neither.
  The hypothesis is that only "open" may fail: a thread that cannot be spawned, or a channel that
  does not start, parts the two (section 5). `ResumeIsForItsTrack` has an invariant of its own
  (`ResumeOK`): a resume waits only beside an open of its track, which each start, stop and
  outcome of an open either takes over or drops. Only "spawn" is excluded.
* **SID channel** (`SidChannelProofs`). `SubtuneIsWhole` speaks only of a feeder that waits for a
  command or is done. `SidInv` follows it through the writes of a switch: per channel, `FeederOK`
  says which of number, length, frames left and queue are already those of the subtune to come,
  and that outside a switch they make up the whole of it (`Whole`); an end is marked only with
  nothing left or by a failure, and reported only with an empty queue. Each action changes one channel
  (`SidStep`); what the player does in one call, dropping, opening and finishing an open, is
  followed on its copy of the state (`Calm`). `PlayingIsFed` is violated (section 5), and
  `OnlyStopOrRefusalStarves` names the reasons: without a stop, and unless the stream refuses a
  chunk or the mark of its end, a channel shown as playing is always fed. Its invariant `FedInv`
  follows each way a feeder returns: what a channel that is wanted was asked holds no stop, so its
  feeder returns at the end, where the engine fails (both with the mark) or where the stream
  refuses; and one the player holds has its tune loaded, so giving up the lease cannot end it.
* **Star sync** (`StarSyncProofs`). `EtagMeansSameSet` is not inductive, as it says nothing of a
  sync in flight. `SyncInv` adds: what was fetched, and what the push was answered, is right for
  as long as the server's version has not moved; and for clicks, that stamps are not ahead of
  the clock, that the last synced read is not later than the one in progress, and that a row
  changed since shows the click. `Moves` is the heart: any step of the server either moves
  the version or leaves the visible set alone.
* **Library sync** (`RemoteSyncProofs`). For the workers, `FlagOK`: an active one has the flag
  up, and there is at most one. For the delta, `PassOK` says per step of a pass what
  its locals already cover (`TracksRead`, `TombsRead`, `RowsWritten`): since the version is read
  first, everything up to it is in what is read later, unless it has changed again, to a version
  beyond it. Type correctness carries the other half: a track is present or has a tombstone,
  never both.
* **Library scan** (`LibraryScanProofs`). `DeletedWasMissing` speaks of the step that deletes;
  what makes it true happened long before, in the walk. `ScanInv` follows it there: a scan that
  runs knows of every path without a file (`Sees`); in a folder it has walked, outside the
  directories that failed, what it has not seen is such a path (`WalkOK`); the message to the
  writer names only those (`MessageOK`), and so do the writer's candidates. Each step changes one
  scan, which `ThreadStep` turns into the invariant, or disturbs all of them alike
  (`DisturbedOK`). The second half looks at every action for the ids it takes out of the rows.

  `CalmScanIsExact` is about the end of a scan too, and `AllCalmOK` says what a scan nothing
  interferes with owes at each of its phases: the walk has seen the files as they are
  (`WalkingOK`); from there on every path of its folders is right in the rows, still to be read,
  in exactly one of the batch, the messages and the rows to be inserted (`BoxesOK`), or a
  vanished one that is to go (`Covered`); the vanished paths come first and the order to delete
  last (`OrderOK`). An update or a move is then of the row the walk knew, and the third branch of
  `MoveTrack`, which ends the writer, cannot happen. `StampsOK` adds that rows and items on their
  way have a stamp. `CalmScansAreExact` assumes `StampIsHonest`, at the one step that needs it: a
  scan does not read a file whose row has its stamp (`Classify`).

  `StampIsHonest` is proved from what the library *knows* (`KnownAs`): a version and its tags, in a
  row, in a batch, in a message, among the rows to be inserted or in the editor's hands. Only a
  read and the editor's stat bring a new one (`Learnt`); all that the scans and writers do in
  between passes it on (`Follows`, `RowsCome`), a move too. Versions are never used again
  (`Bounded`, `Unique`), so a known one tells what its file holds, except that a rename takes a
  version from path to path. Hence the two theorems. `StampsAreHonest` bars a rename to a path
  that has met this very version (`Returns`). `StampsAreHonestInPlace` allows every rename and bars
  a read at a path when the version seen there is at another path by then (`ReadsMoved`); its
  invariant, `TruthOK`, is about the version wherever its file has gone. Both exclude "race".
  `CalmScansAreExactThen` puts either beside the theorem above.

  `MovedFileKeepsRow` has two halves (`MovedFilesKeepRows`). `DeletesAfterReading` is the first, and needs nothing: the
  order to delete comes last and with nothing left to read (`OrderedOK`). For the second, `ApartOK`:
  no candidate left holds what was inserted as new, or waits to be. One step can break it,
  `Drops`: the row of the candidate that was taken is gone, so that the file is inserted as new,
  and another candidate holds the same; the property names it (`robbed`). Only a scan that
  overlaps takes rows of candidates away (`CandidatesStored`), so without one there is no exception:
  `MovedFilesKeepRowsAlone`.

  `RowsFound`: a row appears only below the folders its scan was given, since what is left, seen,
  pending and sent is there (`InPlace`). With `RemovedOK`, every row is of a configured folder or of
  one that a scan is about to purge, that gives the converse of `scan_removed`
  (`RemovedFoldersAreEmpty`): no row is left behind if no folder is removed while a scan runs, the
  watcher asks for none that was removed, and no purge fails. Each of the three can leave or bring
  back rows.

  `RowsFollow` is about whose row is whose. Each step takes the id of a stored row from the row that
  was there, from the count of insertions, or, in `MoveTrack` alone, from a candidate (`IdComes`);
  since no two rows have one id and every id is below the count (`IdsOK`), a row that is
  found at another path has been moved there (`RowGoes`), from a path in `missing` (no file at some
  moment of the scan, or one without metadata) and to one with no row. This needs no condition: scans may overlap, be cancelled or fail.
* **Library view, search** (`UiProofs`). One inductive invariant, `Inv`, in four parts.
  `ScanThreadsOK`: what is shown as running is a scan, which ends with a message. `LibOK`: a play is
  known by the time it began, so a row of the store, the play that runs and the records that
  wait are told apart (`PlaysOK`, `RowsOK`), and a copy, whether a thread holds it or a message
  carries it, counts no play that the store does not (`CopiesOK`). That is why a snapshot of any
  age may replace the one shown. `SInv`: requests and answers are in the order of their
  generations, and `Reads` says which tracks the worker will hold when it comes to a request,
  wherever the last `reindex` before it stands; a walk over the queue needs the first and the last
  such request, which exist by the well-foundedness of the naturals. `ScanningEnds` excludes
  "start", the early return of `loader.rs:62`.

  `ShownStarsAreRight` delimits `view_stale`. The stars shown, and those of every snapshot on its
  way, are the stored ones, or a snapshot is due that brings them, for every row that is still
  there, unless one of three things happens: a star is set, by the user or a sync, while a snapshot
  that shows the track has been read and is not yet shown (`StarOvertaken`); the store refuses a
  star the screen already shows (`StarRefused`); the snapshot of a sync cannot be read
  (`StarUnseen`). Scans, edits, filters and syncs may run, fail, delete and send their
  snapshots in any order meanwhile, since whatever a thread or a message carries then agrees with
  the store on the stars (`StarsOK`), and what a sync has put into the store alone is followed by
  its snapshot (`NewsDue`, which one thread at a time and its place in the queue keep, `Numbered`).
  TLC finds a counterexample when any of the three is allowed.
* **Image cache** (`UiProofs`, second half, about `CacheSpec`). `NoIdleHands` and `ResultsWake`
  count threads by what they are at; the lemmas are about the cardinality of the set of threads
  at a place when one of them moves, and `notify_one` wakes one of those that wait.

  `AskedOnce` adds up: `Places` of a source are its occurrences on the stack and among the
  results, and the threads that decode it, and `CacheInv` says that they are one while it is asked
  for and none otherwise. `TimesConcat` and `TimesAppend` carry that over pushes and pops; in a
  frame, what is taken occurs once, hence nowhere else, so the images uploaded are distinct and
  not held yet. The sizes need sums: `Size` and `Among` are recursive functions, which the lemmas
  unfold by an induction on sets of numbers (`CountUp`, from the well-foundedness of the
  naturals), and `SizeConcat` then says that moving or evicting images changes the sum by theirs.

SyncInv, RemoteInv, ScanInv, AllCalmOK, the scanner's invariants about versions, order, folders and
ids, SidInv, FedInv, StarsOK, CacheInv and the desktop's Inv were checked by TLC before they were
proved.

Only model-checked:

* liveness, which is beyond the proof system used: `EveryTrackPlays`, `OpensSettle`, `EmulatorGoesRound`,
  `TuneEnds`, `Converges`, `RequestsServed`, `RequestsEnd`, `ThreadsEnd`;
* without a condition, `StampIsHonest` and `CalmScanIsExact` of the scanner: they hold in the
  instance, and section 6 names the cases beyond its bounds that the conditions bar.

## 5. Where the code departs from its documentation

Each of these has a run with a counterexample.

* `scan_removed`: a folder is removed while a scan of it runs. The new scan purges its tracks, but
  the older one is not cancelled and inserts what it reads after the purge
  (`ui/src/backend/library/folders.rs:44`).
* `sid_stop`: stopping a SID tune ends its feeder, and the play button then says "Playing" of a
  channel that will never sound nor end (`player/src/sid/channel.rs:211`). Only a stream that
  refuses what it is given does the same (`OnlyStopOrRefusalStarves`).
* `view_stale`: a star set while a scan sends its snapshot is taken back on the screen by that
  snapshot, which was read before it, until the next one (`ui/src/backend/library/mod.rs:494`).
  `ShownStarsAreRight` names the two other ways in which they part while the row is there.

Noticed, modelled as it is or described here, and without a run of its own.

Playback:

* with shuffle on, `play_next` moves the track in the list but not in the navigation order
  (`queue/source.rs:96`), and in a scope the forward history is replayed before it
  (`queue/shuffle.rs:131`); a queue filled by `enqueue` alone has no position, so `next` does
  nothing (`queue/mod.rs:244`); `replace_and_play_at` with no tracks keeps its resume for
  whatever open is in flight (`player/mod.rs:278`); `jump_to` an absent index drops the current
  track and stops; stop and then play in the frame in which a track ended skips to its
  successor, the end signal being still on its way;
* a track removed from a scope returns with the next cycle (`queue/shuffle.rs:224`, against
  `queue/shuffle/tests.rs:106`);
* when a channel opens but does not start, or no worker can be spawned, the transport stays
  "Playing" with nothing loaded (`player/loading.rs:111`, `:76`); an open in flight when the user
  stops, or when the queue runs out, plays afterwards (`player/transport.rs:42`,
  `player/mod.rs:438`); the end signal of a track skipped in its last instant ends the next one
  (`player/loading.rs:174`, against `player/events.rs:29`); the time a track takes to open is
  counted as listened (`player/accounting.rs:16`, against `player/listen.rs:13`);
* a pause of a restored track, or a stop, that the backend refuses is emitted as an error and the
  state set all the same, so "Paused" or "Stopped" is shown while the track plays
  (`player/loading.rs:120`, `player/transport.rs:43`); a volume or tracker setting that is refused
  is emitted and not tried again, so the channel goes on with other settings than those shown
  (`transport.rs:88`, `loading.rs:99`);
* a chunk the push stream refuses makes the feeder return without `end_of_stream`, unlike all its
  other failures: what is queued plays out, and the tune neither goes on nor ends
  (`sid/channel.rs:394`); the same when the mark itself is refused; a reset of the queue that is
  refused lets the old subtune sound on (`:354`, `:367`); a stream whose `queued_bytes` fails counts as
  having room (`:379`);
* `select_subsong` reads the length back before the feeder has switched (`player/subsong.rs:29`,
  against the comment at `:26`); a restart, selection or seek sent after the feeder has rendered
  everything is lost though it is answered `Ok` (`sid/channel.rs:373`).

Synchronisation and scans:

* the star of a track whose file was gone for a while is taken off the server although nobody
  removed it: its new row has no star, and against a base that has it that looks like a click
  (`star_sync/merge.rs:113`, `remote.rs:274`); a star's time on the server is that of the push;
* a server unpaired and paired again is synced from the old version on, so the tracks it had do
  not come back (`ui/src/backend/library/mod.rs:718`); a pass in flight while its server is
  unpaired writes its rows again; tombstones are purged after thirty days, so a desktop away for
  longer keeps rows for ever;
* a file that is there but whose metadata cannot be read at that moment is left out of what the
  walk has seen without making the walk partial, so its row is deleted like that of a vanished
  file (`scanner/walk.rs:107`, against `scanner/mod.rs:88`);
* a file renamed and unreadable at the moment of the scan loses its row and history
  (`scanner/mod.rs:138`, against `:7` and `:135`); one renamed, during the walk, from a directory
  not visited yet into one that was, too;
* a file written by another program between the tag editor's write and its stat leaves a row that
  looks current ("race" in `Faults` breaks `StampIsHonest`, `tags/edit.rs:98`);
* a cancellation between the last message and the summary reports a scan as cancelled whose
  deletions were done; the watcher's request for a folder that was removed before the request is taken up scans it again
  (`ui/src/backend/library/mod.rs:516`); a purge that fails leaves the rows of the removed folder,
  and nothing tries again (`ui/src/backend/library/scan.rs:171`); a file whose row an overlapping
  scan takes is stored as new though a second vanished row holds the same (`scanner/writer.rs:133`); an empty mount point is a folder whose files are gone.

The desktop's view:

* `loader.rs:62` returns before the scan when the first snapshot cannot be read, so no end of the
  scan is ever sent and the indicator stays on ("start" in `Faults` breaks `ScanningEnds`);
* a late answer to a query sets the matches after the text was cleared (`search/engine.rs:119`);
  a change of the tracks in the middle of the list goes unnoticed by the search
  (`search/index.rs:56`, on purpose);
* starting the same track again within a second writes another row (`store/stats.rs:68`); a play
  removed from the history while it goes on comes back when it ends; the play under way when the
  program ends stays unfinished; the UI counts a play of a track that has no row any more;
* a play whose record the store refuses is lost with a warning though the screen has counted it
  (`stats/recorder.rs:69`); a star, a removed entry or a cleared history the store refuses stays so
  on the screen until the next snapshot (`ui/src/backend/library/mod.rs:394`, `:366`, `:380`);
* like `view_stale`: a star that a sync brings while a snapshot read before it is on its way; two
  snapshots sent in the wrong order, a failed scan that sends none though
  it has written, a snapshot of the old filter or folders that arrives after the change.

Server: a drop counted after the audit writer has looked, with no event after it, is never
reported (`audit/writer.rs:2`); a flush is acknowledged though its batch failed (`:216`); a full
table of the rate limiter is cleared as a whole (`security/rate_limit.rs:67`); the mark of an
empty root outlives scans that could not reach it (`scanner/mod.rs:117`).

## 6. What is left out

Of the parts that are modelled:

* Player: seeking within a track, the completion threshold and the notifications to observers;
  volume and tracker settings are one value, which a channel refuses as a whole or not at all. The
  run excludes threads that cannot be spawned, workers that die and channels that do not start
  ("spawn", "panic", "play"), which break `PlayingIsCurrent` (section 5); the theorems say which of
  them each needs to exclude.
* SID: what is rendered; the queue of the push stream when BASS stops it may or may not survive.
  The player's calls on the channel succeed there, as `Player` is where they may be refused;
  `set_duration` cannot fail. The `channel.stop()` before a channel is dropped
  (`player/loading.rs:28`) is left out: the drop ends the feeder and the stream all the same.
* Clocks of different machines agree, and no two outside events share an instant. In the code
  a click in the very millisecond of the synced read counts as read.
* One server. Several are independent, except that the worker serves their requests in turn.
* Credentials, HTTP errors other than failure, SQLite errors other than a transaction that fails as
  a whole: that of a scan's writer and purge, of a sync's commit, of a write of the UI thread and of
  the recorder. A failed read of the store fails the thread that makes it.
* Scanner: two versions of a file are taken to differ in size or in the second of their time;
  case-insensitive keys; that SQLite may give a new row the number of a deleted one
  (`store/schema.rs:15`); the purge and the reading of candidates are one step each; the rows a busy
  database leaves stale. One case needs more events than the run has: a path that is moved away,
  written anew, read and then given its older version back, all within one scan, can leave a row
  that looks current and is not (`Returns`; TLC finds it with five changes from outside). "locked",
  a file that cannot be read, is for the proofs only; the run leaves it out, with "race".
* Library view: the reads of `from_store` are one step; playlists and play statistics other than
  the counts; the debounce of the star sync (`star_sync/debounce.rs`), which only begins syncs: one may be asked
  for at any moment. One server, whose tracks a sync changes or deletes; new ones are not modelled,
  nor are servers forgotten and paired again. The run excludes a loader that cannot read its first
  snapshot ("start"), which breaks `ScanningEnds` (section 5).
* Image cache: a panic in a decode, which would leave its source loading for good; two visible
  images larger than the budget together, which evict each other in turn.

Parts not modelled: those whose operations are single transactions or single critical sections
with nothing kept between them (library store, pairing and devices, rate limiter, server scan
flag), pure functions of a snapshot (library index, search language, settings by format),
presentation (views, panels, painting), bindings to native libraries and operating systems,
HTTP and file formats, mobile bindings, packaging. Their lines are most of the repository, which
is why the map covers a small share of it.

## 7. Plan

1. The server's audit writer: bounded queue, batches, counted drops, flush. Abstract
   specification: the log is a subsequence of what was accepted, and gaps are reported.
2. The render cache: one renderer per key, waiters, eviction by size.
3. The phone's starred copy as another client of `StarredSet`.
