------------------------------- MODULE Search -------------------------------
(***************************************************************************)
(* The live search of the desktop: crates/ui/src/search.  The engine of    *)
(* the UI thread sends tracks and queries to a worker thread, which holds  *)
(* the index and answers queries in their order.                           *)
(***************************************************************************)
EXTENDS Naturals, Sequences, FiniteSets, FiniteSetsExt

CONSTANTS
  TrackIds,     (* the ids of tracks, in the order of the list             *)
  Queries,      (* the texts typed; a track matches the text its tags say; *)
                (* 0: the empty text                                       *)
  MaxTyped      (* bound: the times the text changes                       *)

VARIABLES
  typed,        (* the text in the search box                              *)
  engine,       (* the UI side of the search                               *)
  requests,     (* the channel to the worker                               *)
  answers,      (* the channel back                                        *)
  index,        (* the tracks the worker searches                          *)
  typings       (* the changes of the text so far                          *)

searchVars == <<typed, engine, requests, answers, index, typings>>

NoTracks == [t \in TrackIds |-> 0]
All == [on |-> FALSE, ids |-> {}]
Only(ids) == [on |-> TRUE, ids |-> ids]

Present(tracks) == {t \in TrackIds : tracks[t] # 0}

\* Length, first and last id.
Signature(tracks) ==
  LET p == Present(tracks) IN
  IF p = {} THEN <<0, 0, 0>> ELSE <<Cardinality(p), Min(p), Max(p)>>

Found(tracks, query) == {t \in Present(tracks) : tracks[t] = query}

\* sent is history: the tracks of the last reindex.
SearchInit ==
  /\ typed = 0 /\ typings = 0
  /\ engine = [generation |-> 0, signature |-> <<0, 0, 0>>, query |-> 0, matches |-> All,
               pending |-> FALSE, sent |-> NoTracks]
  /\ requests = <<>> /\ answers = <<>> /\ index = NoTracks

Type(query) ==
  /\ typings < MaxTyped /\ query # typed
  /\ typed' = query /\ typings' = typings + 1
  /\ UNCHANGED <<engine, requests, answers, index>>

Reindex(tracks) == [type |-> "reindex", tracks |-> tracks, generation |-> 0, query |-> 0]
QueryOfBefore(e) ==
  [type |-> "query", tracks |-> NoTracks, generation |-> e.generation - 1, query |-> e.query]
Query(e) == [type |-> "query", tracks |-> NoTracks, generation |-> e.generation, query |-> e.query]

CurrentOrOlder(e, answer) == answer.generation <= e.generation

\* Only the answer to the latest query counts.
Current(e, answer) == answer.generation = e.generation

Drained(e, as) ==
  LET mine == {i \in DOMAIN as : Current(e, as[i])} IN
  IF mine = {} THEN e
  ELSE [e EXCEPT !.matches = Only(as[Max(mine)].ids), !.pending = FALSE]

Changed(tracks) == Signature(tracks) # engine.signature

Asked(e) == [e EXCEPT !.generation = @ + 1, !.query = typed, !.pending = TRUE]
Cleared(e) == [e EXCEPT !.query = 0, !.matches = All, !.pending = FALSE]

\* One tick of the engine with the tracks the library shows.
SearchTick(tracks) ==
  LET changed == Changed(tracks)
      seen == IF changed THEN [engine EXCEPT !.signature = Signature(tracks), !.sent = tracks]
              ELSE engine
      asks == typed # 0 /\ (typed # engine.query \/ changed)
      asked == IF typed = 0 THEN Cleared(seen) ELSE IF asks THEN Asked(seen) ELSE seen IN
  /\ engine' = Drained(asked, answers)
  /\ answers' = <<>>
  /\ requests' = requests \o (IF changed THEN <<Reindex(tracks)>> ELSE <<>>)
                          \o (IF asks THEN <<Query(asked)>> ELSE <<>>)
  /\ UNCHANGED <<typed, index, typings>>

SearchWorker ==
  LET r == Head(requests) IN
  /\ requests # <<>>
  /\ requests' = Tail(requests)
  /\ index' = IF r.type = "reindex" THEN r.tracks ELSE index
  /\ answers' = IF r.type = "reindex" THEN answers
                ELSE Append(answers, [generation |-> r.generation, ids |-> Found(index, r.query)])
  /\ UNCHANGED <<typed, engine, typings>>

=============================================================================
