------------------------------ MODULE ImageCache ------------------------------
(***************************************************************************)
(* The cache of covers and artwork: crates/ui/src/image_cache.             *)
(*                                                                         *)
(* The UI thread asks for images while it paints and uploads what was      *)
(* decoded once a frame; a pool of threads decodes, newest request first,  *)
(* and wakes the UI.  The UI thread is frame by frame "idle", then "frame" *)
(* once a wake brought it to a new frame, "notify" between the push of a   *)
(* job and the notification, "closing" while it drops the pool.            *)
(***************************************************************************)
EXTENDS Naturals, Sequences, FiniteSets, SequencesExt

CONSTANTS
  Keys,         (* the sources of images                                   *)
  Mock,         (* the sources a placeholder stands in for                 *)
  Pool,         (* the decode threads                                      *)
  Bytes,        (* the decoded size of each image                          *)
  Budget,       (* the bytes the cache may hold                            *)
  MaxUploads    (* uploads in a frame                                      *)

ASSUME CacheAssumption ==
  /\ Mock \subseteq Keys /\ IsFiniteSet(Keys) /\ IsFiniteSet(Pool) /\ Pool # {}
  /\ Bytes \in [Keys -> Nat] /\ Budget \in Nat /\ MaxUploads \in Nat \ {0}

VARIABLES
  held,         (* the images held, least recently used first              *)
  bytes,        (* what they are counted to occupy                         *)
  loading,      (* the sources asked for                                   *)
  failed,       (* the sources without an image                            *)
  jobs,         (* the stack of the pool, newest last                      *)
  closed,       (* whether the pool was dropped                            *)
  poolWorker,       (* the decode threads                                      *)
  finished,     (* the channel back to the UI thread                       *)
  pending,      (* results received and not uploaded yet                   *)
  woken,        (* a wake waits for the UI thread                          *)
  ui            (* where the UI thread is                                  *)

imageVars == <<held, bytes, loading, failed, jobs, closed, poolWorker, finished, pending, woken, ui>>

cacheVars == <<held, bytes, loading, failed, pending>>
poolVars == <<jobs, closed, poolWorker, finished>>

Unstarted == [pc |-> "off", key |-> "none"]

CacheInit ==
  /\ held = <<>> /\ bytes = 0 /\ loading = {} /\ failed = {} /\ jobs = <<>> /\ closed = FALSE
  /\ poolWorker = [w \in Pool |-> Unstarted]
  /\ finished = <<>> /\ pending = <<>> /\ woken = FALSE /\ ui = "idle"

At(w, pc) == poolWorker[w].pc = pc
Held == Range(held)

----------------------------------------------------------------------------
(* Painting.                                                               *)

UseImage(k) ==
  /\ ui = "idle"
  /\ \E i \in DOMAIN held : held[i] = k /\ held' = Append(RemoveAt(held, i), k)
  /\ UNCHANGED <<bytes, loading, failed, poolVars, pending, woken, ui>>

IsKnown(k) == k \in Held \cup loading \cup failed

UsePlaceholder(k) ==
  /\ ui = "idle" /\ k \in Mock /\ ~IsKnown(k)
  /\ held' = Append(held, k) /\ bytes' = bytes + Bytes[k]
  /\ UNCHANGED <<loading, failed, poolVars, pending, woken, ui>>

\* The first request starts the threads.
Started == [w \in Pool |-> IF At(w, "off") THEN [Unstarted EXCEPT !.pc = "free"] ELSE poolWorker[w]]

Request(k) ==
  /\ ui = "idle" /\ k \notin Mock /\ ~IsKnown(k)
  /\ loading' = loading \cup {k}
  /\ poolWorker' = Started
  /\ jobs' = Append(jobs, k)
  /\ ui' = "notify"
  /\ UNCHANGED <<held, bytes, failed, closed, finished, pending, woken>>

NotifiesFirst(w) == Len(jobs) = 1 /\ At(w, "wait")

\* notify_one wakes one of the threads that wait, if there is one.
Notifies(w) == At(w, "wait")

Notify ==
  /\ ui = "notify" /\ ui' = "idle"
  /\ \/ \E w \in Pool : Notifies(w) /\ poolWorker' = [poolWorker EXCEPT ![w].pc = "free"]
     \/ ~(\E w \in Pool : Notifies(w)) /\ poolWorker' = poolWorker
  /\ UNCHANGED <<cacheVars, jobs, closed, finished, woken>>

----------------------------------------------------------------------------
(* Frames.                                                                 *)

Frame ==
  /\ ui = "idle" /\ ui' = "frame"
  /\ UNCHANGED <<cacheVars, poolVars, woken>>

WakeTaken ==
  /\ woken /\ ui = "idle" /\ ui' = "frame" /\ woken' = FALSE
  /\ UNCHANGED <<cacheVars, poolVars>>

\* The elements of s in T, and what the images ks occupy: recursive functions,
\* which are easier to reason about than SelectSeq and FoldSeq.
Among(s, T) ==
  LET kept[i \in 0..Len(s)] ==
        IF i = 0 THEN <<>> ELSE IF s[i] \in T THEN Append(kept[i - 1], s[i]) ELSE kept[i - 1]
  IN  kept[Len(s)]
Size(ks) ==
  LET sum[i \in 0..Len(ks)] == IF i = 0 THEN 0 ELSE sum[i - 1] + Bytes[ks[i]]
  IN  sum[Len(ks)]

Images(results) == Among(results, {r \in Range(results) : r.image})
KeysOf(results) == [i \in DOMAIN results |-> results[i].key]

\* Results are taken until one is an image too many.
Taken(results) ==
  SubSeq(results, 1,
    Cardinality({i \in DOMAIN results : Cardinality({j \in 1..i : results[j].image}) <= MaxUploads}))

\* How many of the images, least recently used first, go: the last one stays.
Evicted(ks, size) ==
  Cardinality({n \in 1..Len(ks) : n < Len(ks) /\ size - Size(SubSeq(ks, 1, n - 1)) > Budget})

RestButOne(results) == SubSeq(results, Len(Taken(results)) + 2, Len(results))
Rest(results) == SubSeq(results, Len(Taken(results)) + 1, Len(results))

WakesIfFull(rest) == Len(rest) > MaxUploads

\* Whether the UI is woken again after a frame.
WakesFor(rest) == rest # <<>>

\* Quantified, the results taken, the images among them and those then held are
\* worked out once.
Drain ==
  /\ ui = "frame" /\ ui' = "idle"
  /\ \E taken \in {Taken(pending \o finished)} :
     \E new \in {KeysOf(Images(taken))} :
     \E now \in {Among(held, Keys \ Range(new)) \o new} :
       LET size == bytes + Size(new)
           gone == Evicted(now, size) IN
       /\ loading' = loading \ Range(KeysOf(taken))
       /\ failed' = failed \cup (Range(KeysOf(taken)) \ Range(new))
       /\ held' = SubSeq(now, gone + 1, Len(now)) /\ bytes' = size - Size(SubSeq(now, 1, gone))
  /\ finished' = <<>> /\ pending' = Rest(pending \o finished)
  /\ woken' = (woken \/ WakesFor(Rest(pending \o finished)))
  /\ UNCHANGED <<jobs, closed, poolWorker>>

----------------------------------------------------------------------------
(* The threads, and the drop of the pool.                                  *)

Becomes(w, pc, key) == poolWorker' = [poolWorker EXCEPT ![w] = [pc |-> pc, key |-> key]]

\* A thread that holds the lock of the stack takes a job, leaves or waits.
TakeJob(w) ==
  /\ At(w, "free") /\ ~closed /\ jobs # <<>>
  /\ Becomes(w, "decode", Last(jobs)) /\ jobs' = Front(jobs)
  /\ UNCHANGED <<cacheVars, closed, finished, woken, ui>>

Wait(w) ==
  /\ At(w, "free") /\ ~closed /\ jobs = <<>>
  /\ Becomes(w, "wait", "none")
  /\ UNCHANGED <<cacheVars, jobs, closed, finished, woken, ui>>

Leave(w) ==
  /\ At(w, "free") /\ closed
  /\ Becomes(w, "gone", "none")
  /\ UNCHANGED <<cacheVars, jobs, closed, finished, woken, ui>>

\* A wait may end without a notification.
WaitEnds(w) ==
  /\ At(w, "wait")
  /\ Becomes(w, "free", "none")
  /\ UNCHANGED <<cacheVars, jobs, closed, finished, woken, ui>>

Decoded(w, image) ==
  /\ At(w, "decode")
  /\ finished' = Append(finished, [key |-> poolWorker[w].key, image |-> image])
  /\ Becomes(w, "wake", "none")
  /\ UNCHANGED <<cacheVars, jobs, closed, woken, ui>>

\* Once the receiver is gone the thread ends.
Disconnected(w) ==
  /\ At(w, "decode") /\ closed
  /\ Becomes(w, "gone", "none")
  /\ UNCHANGED <<cacheVars, jobs, closed, finished, woken, ui>>

WakeIfIdle(w) ==
  /\ At(w, "wake") /\ woken' = (woken \/ ui = "idle")
  /\ Becomes(w, "free", "none")
  /\ UNCHANGED <<cacheVars, jobs, closed, finished, ui>>

Wake(w) ==
  /\ At(w, "wake") /\ woken' = TRUE
  /\ Becomes(w, "free", "none")
  /\ UNCHANGED <<cacheVars, jobs, closed, finished, ui>>

Drop ==
  /\ ui = "idle" /\ ui' = "closing" /\ \A w \in Pool : ~At(w, "off")
  /\ closed' = TRUE /\ jobs' = <<>>
  /\ UNCHANGED <<cacheVars, poolWorker, finished, woken>>

NotifyOneOnly ==
  /\ ui = "closing" /\ ui' = "gone"
  /\ \/ \E w \in Pool : At(w, "wait") /\ poolWorker' = [poolWorker EXCEPT ![w].pc = "free"]
     \/ ~(\E w \in Pool : At(w, "wait")) /\ poolWorker' = poolWorker
  /\ UNCHANGED <<cacheVars, jobs, closed, finished, woken>>

NotifyAll ==
  /\ ui = "closing" /\ ui' = "gone"
  /\ poolWorker' = [w \in Pool |-> IF At(w, "wait") THEN [poolWorker[w] EXCEPT !.pc = "free"] ELSE poolWorker[w]]
  /\ UNCHANGED <<cacheVars, jobs, closed, finished, woken>>

Thread(w) ==
  \/ TakeJob(w) \/ Wait(w) \/ Leave(w) \/ Disconnected(w) \/ Wake(w)
  \/ \E image \in BOOLEAN : Decoded(w, image)

CacheNext ==
  \/ \E k \in Keys : UseImage(k) \/ UsePlaceholder(k) \/ Request(k)
  \/ Notify \/ Frame \/ WakeTaken \/ Drain \/ Drop \/ NotifyAll
  \/ \E w \in Pool : Thread(w) \/ WaitEnds(w)

\* Threads run, decodes end, and the UI handles the wake it got.
CacheSpec ==
  /\ CacheInit /\ [][CacheNext]_imageVars
  /\ WF_imageVars(Notify) /\ WF_imageVars(WakeTaken) /\ WF_imageVars(Drain) /\ WF_imageVars(NotifyAll)
  /\ \A w \in Pool : WF_imageVars(Thread(w))

=============================================================================
