---------------------------- MODULE StarSyncSpec ----------------------------
\* What the star sync promises.

EXTENDS StarSync

\* History: the last click of the user on each row.
VARIABLE clicked

hvars == <<server, desk, job, now, clicked>>

HistInit == Init /\ clicked = [d \in Desktops |-> [r \in Rows |-> FALSE]]

TrackOf(r) == IF r \in Files THEN Match[r] ELSE r

UserClicks(d, r, s) == Click(d, r, s) /\ clicked' = [clicked EXCEPT ![d][r] = s]

Works(d) == Worker(d) /\ UNCHANGED clicked

HistNext ==
  \/ \E d \in Desktops : \/ Works(d)
                         \/ \E r \in Rows, s \in BOOLEAN : UserClicks(d, r, s)
  \/ /\ \/ \E d \in Desktops : Begin(d) \/ Abort(d)
        \/ \E t \in Tracks : Request({t}, {}) \/ Request({}, {t})
        \/ Scan
     /\ UNCHANGED clicked

HistSpec == HistInit /\ [][HistNext]_hvars /\ (\A d \in Desktops : WF_hvars(Works(d)))

-----------------------------------------------------------------------------

\* Types; and no stamp or sync time is ahead of the clock.
StarTypeOK ==
  /\ server \in ServerType
  /\ desk \in [Desktops -> [files : SUBSET Files, rows : SUBSET Tracks, star : [Rows -> BOOLEAN],
                            changed : [Rows -> 0 .. MaxTime],
                            base : [version : Nat \cup {NoVersion}, synced : 0 .. MaxTime,
                                    ids : SUBSET Tracks]]]
  /\ \A d \in Desktops : /\ \A r \in Rows : desk[d].changed[r] <= now
                         /\ desk[d].base.synced <= now
                         /\ job[d].step \in {"idle", "fetch", "read", "push"}
                         /\ job[d].on \cap job[d].off = {}
                         /\ job[d].star \cap job[d].unstar = {}

\* A desktop whose base has the server's version has the server's starred set as
\* its base, so the 304 it will be answered hides nothing: no change of another
\* device, no track a scan deleted or brought back, no id the push was told is
\* unknown.
EtagMeansSameSet ==
  \A d \in Desktops :
    desk[d].base.version = server.version => desk[d].base.ids = Visible(server)

\* A star the user changed after the last synced read stands as the user left it,
\* whatever syncs, failures and library deltas happened in between, until a sync
\* that has read it commits.
ClicksSurvive ==
  \A d \in Desktops : \A r \in Rows :
    (HasRow(desk[d], r) /\ desk[d].changed[r] > desk[d].base.synced)
      => desk[d].star[r] = clicked[d][r]

\* Everything is in step: the desktop's rows, its base and its stars.
Agreed ==
  \A d \in Desktops :
    /\ desk[d].rows = server.tracks
    /\ desk[d].base.ids = Visible(server)
    /\ \A r \in Rows : HasRow(desk[d], r) /\ TrackOf(r) \in server.tracks
                         => desk[d].star[r] = (TrackOf(r) \in Visible(server))

\* If every desktop keeps syncing, then once users and scans are done all desktops
\* come to show the server's starred set, on remote rows and on matching files
\* alike, and stay there: no two desktops undo each other's changes for ever.
Converges == (\A d \in Desktops : []<><<Begin(d)>>_vars) => <>[]Agreed

=============================================================================
