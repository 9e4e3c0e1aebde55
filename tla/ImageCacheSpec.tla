---------------------------- MODULE ImageCacheSpec ----------------------------
(***************************************************************************)
(* What the image cache promises.                                          *)
(***************************************************************************)
EXTENDS ImageCache

Decoding == {w \in Pool : At(w, "decode")}
Results == pending \o finished
Times(k, s) == Cardinality({i \in DOMAIN s : s[i] = k})

\* A source asked for is at exactly one place, on the stack, with one thread or
\* among the results, and neither held nor failed: it is decoded once, and never
\* forgotten (ui/src/image_cache/mod.rs:208).  So the bytes counted are those of
\* the images held, and the count evictions go by never drifts (mod.rs:240).
AskedOnce ==
  /\ ~closed =>
       \A k \in Keys :
         /\ Times(k, jobs) + Times(k, KeysOf(Results))
              + Cardinality({w \in Decoding : poolWorker[w].key = k}) = (IF k \in loading THEN 1 ELSE 0)
         /\ k \in loading => k \notin Held \cup failed
  /\ IsInjective(held) /\ bytes = Size(held)

\* While a thread sleeps, every job on the stack has a thread of its own awake
\* to take it, or the notification that wakes one is due: no notification is
\* lost (ui/src/image_cache/pool.rs:71).
NoIdleHands ==
  (\E w \in Pool : At(w, "wait")) /\ ~closed =>
    Len(jobs) <= Cardinality({w \in Pool : At(w, "free")}) + (IF ui = "notify" THEN 1 ELSE 0)

\* Results that wait for the UI thread have a wake under way
\* (ui/src/image_cache/mod.rs:183, pool.rs:125).
ResultsWake ==
  Results # <<>> /\ ~closed => woken \/ ui = "frame" \/ \E w \in Pool : At(w, "wake")

\* A source asked for is settled in the end, unless the UI asks for other images
\* for ever or drops the cache.
RequestsEnd ==
  <>[](ui # "notify") => \A k \in Keys : k \in loading ~> (k \notin loading \/ closed)

\* Dropping the pool ends its threads (ui/src/image_cache/pool.rs:45).
ThreadsEnd == closed ~> \A w \in Pool : At(w, "gone")

=============================================================================
