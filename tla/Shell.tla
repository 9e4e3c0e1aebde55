-------------------------------- MODULE Shell --------------------------------
(***************************************************************************)
(* The desktop's frame loop over library and search (crates/ui/src/shell): *)
(* a tick first takes the updates of the library and then lets the search  *)
(* engine see the tracks now shown.                                        *)
(***************************************************************************)
EXTENDS LibraryView, Search

CONSTANT
  MaxActs       (* bound: the threads, edits, plays and texts together, one *)
                (* fewer when there are texts                              *)

ASSUME ShellAssumption == MaxActs \in Nat /\ TrackIds = Tracks

vars == <<viewVars, searchVars>>

Init == ViewInit /\ SearchInit

Tick == TakeUpdates /\ SearchTick(view'.tracks)

Acts == used.workers + used.clicks + used.plays + typings + (IF typings = 0 THEN 0 ELSE 1)

Next ==
  \/ Tick
  \/ Library /\ UNCHANGED searchVars /\ Acts' <= MaxActs
  \/ (SearchWorker \/ \E q \in Queries \cup {0} : Type(q)) /\ UNCHANGED viewVars /\ Acts' <= MaxActs

Spec == Init /\ [][Next]_vars

=============================================================================
