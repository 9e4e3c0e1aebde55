----------------------------- MODULE StarredSet -----------------------------
\* The starred tracks of the server and its transactions.
\*
\* The server knows the tracks of its library, when each was starred (in whole
\* seconds) and a version that clients use as an ETag. A star outlives the track
\* it is on: a scan that deletes the track only hides it from the list.

EXTENDS Integers

CONSTANTS
  Tracks,   \* ids of the tracks the server may have
  Second    \* how many instants of the clock make one second

ASSUME StarredSetAssumption == Second \in Nat \ {0}

-----------------------------------------------------------------------------

Never == -1   \* the star time of a track that has no star

ServerType == [tracks : SUBSET Tracks, at : [Tracks -> Nat \cup {Never}], version : Nat]

NewServer(tracks) == [tracks |-> tracks, at |-> [t \in Tracks |-> Never], version |-> 0]

Starred(s) == {t \in Tracks : s.at[t] # Never}

\* What a read of the set lists: stars on tracks that exist.
Visible(s) == Starred(s) \cap s.tracks

\* One batch: stars of existing tracks first, keeping the time of a star that is
\* already there, then unstars. The version moves if the batch had a net effect.
ApplyStarred(s, star, unstar, now) ==
  LET new  == (star \cap s.tracks) \ Starred(s)
      gone == unstar \cap (Starred(s) \cup new)
  IN [s EXCEPT !.at = [t \in Tracks |-> IF t \in gone THEN Never
                                        ELSE IF t \in new THEN now \div Second
                                        ELSE s.at[t]],
               !.version = IF new = gone THEN @ ELSE @ + 1]

\* The ids of a batch that the server skipped.
Unknown(s, star) == star \ s.tracks

\* Mutant: only the requests of devices move the version, a scan does not.
TouchNothing(s, ids) == s

\* The scan's own transactions: they change which stars are visible, and move the
\* version when one of the tracks carries a star.
TouchStarred(s, ids) == IF ids \cap Starred(s) = {} THEN s ELSE [s EXCEPT !.version = @ + 1]

UpsertTracks(s, ids) == TouchStarred([s EXCEPT !.tracks = @ \cup ids], ids)

DeleteTracks(s, ids) == TouchStarred([s EXCEPT !.tracks = @ \ ids], ids \cap s.tracks)

=============================================================================
