-------------------------- MODULE LibraryScanSpec --------------------------
(***************************************************************************)
(* What the scans of the library promise: rows, and with them plays, stars *)
(* and playlists, are lost only with their files, and what is stored is    *)
(* what the files hold.                                                    *)
(***************************************************************************)
EXTENDS LibraryScan

Lost(p) == Stored(p) /\ \A q \in Paths : rows'[q].id # rows[p].id
Deletes(n) == writer[n].pc = "idle" /\ writer'[n].pc = "ended"

\* A scan takes a row away only if, at some moment since it began, there was no
\* file at its path or one whose metadata the walk could not read: never because
\* a share is offline, a directory cannot be listed or the scan was cancelled
\* (scanner/mod.rs:88).
DeletedWasMissing ==
  [][\A p \in Paths : Lost(p) =>
       \E n \in Ids : \/ scan[n].pc = "purge" /\ RootOf[p] \in scan[n].purge
                      \/ Deletes(n) /\ p \in scan[n].missing]_vars

\* A scan never stores a file as a new track and deletes a row that holds the
\* same, in whatever batch and order it reads the files, nor deletes one while
\* files it has found are still to be read (writer.rs:133, mod.rs:135).  The one
\* exception is a file that was to move a row another scan had just taken: it
\* is stored as new though a second vanished row may hold the same.
MovedFileKeepsRow ==
  [][\A n \in Ids, p \in Paths : Deletes(n) /\ Lost(p) =>
       /\ scan[n].pending = {}
       /\ \A c \in writer[n].candidates :
            c.path = p /\ c.tags \in scan[n].inserted => c.tags \in writer[n].robbed]_vars

\* A row whose stamp is the file's holds what the file holds: what the scans and
\* the tag editor left stale is read again by the next scan (tags/edit.rs:98).
StampIsHonest ==
  \A p \in Paths : Stored(p) /\ OnDisk(p) /\ rows[p].stamp = file[p].stamp =>
    rows[p].tags = file[p].holds

\* A scan nothing interfered with leaves the rows of its folders as the files
\* are, whatever earlier scans were cancelled, failed or overlapped.
CalmScanIsExact ==
  \A n \in Ids : scan[n].pc = "done" /\ scan[n].calm =>
    \A p \in Under(scan[n].roots) :
      rows[p].stamp = file[p].stamp /\ rows[p].tags = file[p].holds

\* When all scans have ended, the library holds no track of a folder that was
\* removed from it (ui/src/backend/library/scan.rs:237).
RemovedFolderIsEmpty ==
  \A p \in Paths :
    Stored(p) /\ RootOf[p] \notin config => \E n \in Ids : Running(n)

=============================================================================
