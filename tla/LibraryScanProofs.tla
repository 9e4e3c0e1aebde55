-------------------------- MODULE LibraryScanProofs --------------------------
(***************************************************************************)
(* For any folders, files, faults and number of scans: a scan deletes only *)
(* rows whose file was missing, or its metadata not to be had, since it    *)
(* began, and one that nothing interferes with leaves the rows as the      *)
(* files are.  A file that moved keeps its row, unless another scan took   *)
(* it first.  Under conditions on what other programs do, each of them     *)
(* needed, a row with the stamp of its file holds what the file holds.  A  *)
(* scan stores only below its own folders, and a row goes to another path  *)
(* only from one whose file was missing in the same sense.                 *)
(***************************************************************************)
EXTENDS LibraryScanSpec, FiniteSetTheorems, SequenceTheorems, TLAPS

ScanFields == {"pc", "cancelled", "roots", "purge", "known", "left", "at", "todo", "seen",
               "walked", "failed", "pending", "taken", "batch", "missing", "inserted", "calm"}

\* What travels to a writer names paths, and vanished ones only if missing.
MessageOK(m, missing) ==
  /\ "type" \in DOMAIN m
  /\ m.type = "vanished" => m.paths \subseteq missing
  /\ m.type = "tracks" => /\ DOMAIN m = {"type", "items"}
                          /\ \A x \in m.items : x.path \in Paths

InboxOK(s, missing) ==
  /\ \E S : s \in Seq(S)
  /\ \A i \in DOMAIN s : MessageOK(s[i], missing)

\* While a scan walks, what it has visited or passed by without finding a file
\* is missing; the folder it is at is neither walked nor left.
WalkOK(s) ==
  /\ NoRoot \notin s.walked /\ s.at \notin s.walked
  /\ s.left \cap s.walked = {} /\ (s.at # NoRoot => s.at \notin s.left)
  /\ s.todo \subseteq Under({s.at})
  /\ \A p \in Under(Walked(s).walked) \ In(s.failed) :
       p \notin s.todo /\ s.seen[p] = 0 => p \in s.missing

NotBegun(s) == s.at = NoRoot /\ s.walked = {} /\ s.todo = {}

ThreadsOK(s, w) ==
  /\ DOMAIN s = ScanFields /\ DOMAIN s.seen = Paths
  /\ DOMAIN w = {"pc", "inbox", "candidates", "fresh", "robbed"}
  /\ \A x \in s.batch : x.path \in Paths
  /\ \A c \in w.candidates : c.path \in s.missing
  /\ InboxOK(w.inbox, s.missing)
  /\ s.pc \in {"purge", "load"} => NotBegun(s)
  /\ s.pc = "walk" => WalkOK(s)

\* A scan that runs knows of every file that is not there.
Sees(s, files) ==
  s.pc \notin {"off", "done"} => \A p \in Paths : files[p] = NoFile => p \in s.missing

FilesOK == DOMAIN file = Paths /\ \A p \in Paths : file[p].stamp = 0 => file[p] = NoFile
RowsOK == DOMAIN rows = Paths /\ \A p \in Paths : DOMAIN rows[p] = {"id", "stamp", "tags"}
CountOK ==
  DOMAIN count = {"stamp", "id", "scans", "changes"} /\ count.stamp \in Nat /\ count.scans \in 0..MaxScans

ScansOK ==
  /\ DOMAIN scan = Ids /\ DOMAIN writer = Ids
  /\ \A n \in Ids : ThreadsOK(scan[n], writer[n]) /\ Sees(scan[n], file)
LaterOff == \A n \in Ids : n > count.scans => scan[n].pc = "off" /\ writer[n] = Unstarted

ScanInv == FilesOK /\ RowsOK /\ CountOK /\ ScansOK /\ LaterOff

----------------------------------------------------------------------------
(* The channel to a writer.                                                *)

LEMMA EmptyInbox == ASSUME NEW M PROVE InboxOK(<<>>, M)
<1>1. <<>> \in Seq({}) /\ DOMAIN <<>> = {}
  OBVIOUS
<1> QED BY <1>1 DEF InboxOK

LEMMA OneMessage ==
  ASSUME NEW M, NEW m, MessageOK(m, M)
  PROVE  InboxOK(<<m>>, M)
<1>1. <<m>> \in Seq({m}) /\ DOMAIN <<m>> = 1..1 /\ <<m>>[1] = m
  OBVIOUS
<1>2. \E S : <<m>> \in Seq(S)
  BY <1>1
<1>3. \A i \in DOMAIN <<m>> : <<m>>[i] = m
  BY <1>1
<1> QED BY <1>2, <1>3 DEF InboxOK

LEMMA AppendInbox ==
  ASSUME NEW s, NEW M, NEW m, InboxOK(s, M), MessageOK(m, M)
  PROVE  InboxOK(Append(s, m), M)
<1>1. PICK S : s \in Seq(S)
  BY DEF InboxOK
<1>2. s \in Seq(S \cup {m}) /\ m \in S \cup {m}
  BY <1>1, SeqMonotonic
<1>3. /\ Append(s, m) \in Seq(S \cup {m})
      /\ Len(Append(s, m)) = Len(s) + 1
      /\ \A i \in 1..Len(s) : Append(s, m)[i] = s[i]
      /\ Append(s, m)[Len(s) + 1] = m
  BY <1>2, AppendProperties
<1>4. DOMAIN s = 1..Len(s) /\ DOMAIN Append(s, m) = 1..(Len(s) + 1) /\ Len(s) \in Nat
  BY <1>1, <1>3, LenProperties
<1>5. ASSUME NEW i \in DOMAIN Append(s, m) PROVE MessageOK(Append(s, m)[i], M)
  <2>1. CASE i \in 1..Len(s)
    BY <2>1, <1>3, <1>4 DEF InboxOK
  <2>2. CASE i = Len(s) + 1
    BY <2>2, <1>3
  <2> QED BY <1>4, <2>1, <2>2
<1> QED BY <1>3, <1>5 DEF InboxOK

LEMMA TailInbox ==
  ASSUME NEW s, NEW M, InboxOK(s, M), s # <<>>
  PROVE  InboxOK(Tail(s), M) /\ MessageOK(Head(s), M) /\ Head(s) = s[1] /\ 1 \in DOMAIN s
<1>1. PICK S : s \in Seq(S)
  BY DEF InboxOK
<1>2. /\ Head(s) = s[1] /\ Tail(s) \in Seq(S) /\ Len(Tail(s)) = Len(s) - 1
      /\ \A i \in 1..Len(Tail(s)) : Tail(s)[i] = s[i + 1]
  BY <1>1, HeadTailProperties
<1>3. DOMAIN s = 1..Len(s) /\ DOMAIN Tail(s) = 1..Len(Tail(s)) /\ Len(s) \in Nat /\ Len(s) # 0
  BY <1>1, <1>2, LenProperties, EmptySeq
<1>4. ASSUME NEW i \in DOMAIN Tail(s) PROVE MessageOK(Tail(s)[i], M)
  <2>1. Tail(s)[i] = s[i + 1] /\ i + 1 \in DOMAIN s
    BY <1>2, <1>3
  <2> QED BY <2>1 DEF InboxOK
<1>5. 1 \in DOMAIN s
  BY <1>3
<1> QED BY <1>2, <1>4, <1>5 DEF InboxOK

LEMMA ItemTaken ==
  ASSUME NEW s, NEW M, InboxOK(s, M), s # <<>>, s[1].type = "tracks", NEW x
  PROVE  InboxOK([s EXCEPT ![1].items = @ \ {x}], M)
<1> DEFINE t == [s EXCEPT ![1].items = @ \ {x}]
<1> DEFINE h == [s[1] EXCEPT !.items = @ \ {x}]
<1>1. PICK S : s \in Seq(S)
  BY DEF InboxOK
<1>2. MessageOK(s[1], M) /\ 1 \in DOMAIN s
  BY TailInbox
<1>3. MessageOK(h, M)
  BY <1>2 DEF MessageOK
<1>4. t = [s EXCEPT ![1] = h]
  OBVIOUS
<1> HIDE DEF h
<1>5. s \in Seq(S \cup {h}) /\ h \in S \cup {h} /\ DOMAIN s = 1..Len(s)
  BY <1>1, SeqMonotonic, LenProperties
<1>6. t \in Seq(S \cup {h}) /\ DOMAIN t = DOMAIN s
  <2>1. [s EXCEPT ![1] = h] \in Seq(S \cup {h})
    BY <1>2, <1>5, ExceptSeq
  <2> QED BY <2>1, <1>4
<1>7. ASSUME NEW i \in DOMAIN t PROVE MessageOK(t[i], M)
  BY <1>3, <1>4, <1>6 DEF InboxOK
<1> QED BY <1>6, <1>7 DEF InboxOK

LEMMA InboxGrows ==
  ASSUME NEW s, NEW M, NEW N, InboxOK(s, M), M \subseteq N
  PROVE  InboxOK(s, N)
BY DEF InboxOK, MessageOK

----------------------------------------------------------------------------
(* What a step does to the threads.                                        *)

\* The history of missing paths may grow under any thread.
LEMMA MissingGrows ==
  ASSUME NEW s, NEW w, NEW M, NEW c, ThreadsOK(s, w), s.missing \subseteq M
  PROVE  ThreadsOK([s EXCEPT !.calm = c, !.missing = M], w)
<1> DEFINE t == [s EXCEPT !.calm = c, !.missing = M]
<1>1. /\ DOMAIN t = ScanFields /\ t.missing = M
      /\ t.pc = s.pc /\ t.seen = s.seen /\ t.batch = s.batch /\ t.at = s.at
      /\ t.walked = s.walked /\ t.todo = s.todo /\ t.left = s.left /\ t.failed = s.failed
  BY DEF ThreadsOK, ScanFields
<1> HIDE DEF t
<1>2. InboxOK(w.inbox, M)
  BY InboxGrows DEF ThreadsOK
<1>3. Walked(t).walked = Walked(s).walked
  <2>1. Walked(t).walked = (IF t.at = NoRoot THEN t.walked ELSE t.walked \cup {t.at})
    BY <1>1 DEF Walked, ScanFields
  <2>2. Walked(s).walked = (IF s.at = NoRoot THEN s.walked ELSE s.walked \cup {s.at})
    BY DEF Walked, ThreadsOK, ScanFields
  <2> QED BY <1>1, <2>1, <2>2
<1>4. WalkOK(s) => WalkOK(t)
  BY <1>1, <1>3 DEF WalkOK
<1>5. ThreadsOK(t, w)
  BY <1>1, <1>2, <1>4 DEF ThreadsOK, NotBegun
<1> QED BY <1>5 DEF t

\* Something outside the scans happened, and the scans that run know of it.
LEMMA DisturbedOK ==
  ASSUME ScanInv, NEW absent,
         scan' = Disturbed(scan, absent), writer' = writer, count'.scans = count.scans,
         \A p \in Paths : file'[p] = NoFile => file[p] = NoFile \/ p \in absent
  PROVE  ScansOK' /\ LaterOff'
<1>1. ASSUME NEW n \in Ids
      PROVE  /\ scan'[n].pc = scan[n].pc
             /\ ThreadsOK(scan'[n], writer'[n]) /\ Sees(scan'[n], file')
  <2> DEFINE M == IF Running(n) THEN scan[n].missing \cup absent ELSE scan[n].missing
  <2>1. ThreadsOK(scan[n], writer[n]) /\ Sees(scan[n], file) /\ DOMAIN scan[n] = ScanFields
    BY DEF ScanInv, ScansOK, ThreadsOK
  <2>2. scan'[n] = [scan[n] EXCEPT !.calm = FALSE, !.missing = M]
    BY DEF Disturbed
  <2>3. ThreadsOK(scan'[n], writer'[n])
    <3>1. scan[n].missing \subseteq M /\ writer'[n] = writer[n]
      OBVIOUS
    <3> HIDE DEF M
    <3>2. ThreadsOK([scan[n] EXCEPT !.calm = FALSE, !.missing = M], writer[n])
      BY <2>1, <3>1, MissingGrows
    <3> QED BY <2>2, <3>1, <3>2
  <2>4. scan'[n].pc = scan[n].pc /\ scan'[n].missing = M
    BY <2>1, <2>2 DEF ScanFields
  <2> QED BY <2>1, <2>3, <2>4 DEF Sees, Running
<1>2. DOMAIN scan' = Ids /\ DOMAIN writer' = Ids
  BY DEF Disturbed, ScanInv, ScansOK
<1> QED BY <1>1, <1>2 DEF ScanInv, ScansOK, LaterOff

\* The function g is f with x at n.
Set(f, g, n, x) == g = [f EXCEPT ![n] = x] \/ (g = f /\ x = f[n])

\* Scan n, or its writer, takes a step.
LEMMA ThreadStep ==
  ASSUME ScanInv, NEW n \in Ids, NEW s, NEW w,
         Set(scan, scan', n, s), Set(writer, writer', n, w),
         file' = file, count'.scans = count.scans,
         scan[n].pc # "off" \/ writer[n] # Unstarted,
         ThreadsOK(s, w), Sees(s, file)
  PROVE  ScansOK' /\ LaterOff'
<1>1. ~(n > count.scans)
  BY DEF ScanInv, LaterOff
<1>2. DOMAIN scan' = Ids /\ DOMAIN writer' = Ids /\ scan'[n] = s /\ writer'[n] = w
  BY DEF ScanInv, ScansOK, Set
<1>3. \A m \in Ids : m # n => scan'[m] = scan[m] /\ writer'[m] = writer[m]
  BY DEF ScanInv, ScansOK, Set
<1>4. ScansOK'
  BY <1>2, <1>3 DEF ScanInv, ScansOK
<1>5. LaterOff'
  BY <1>1, <1>2, <1>3 DEF ScanInv, LaterOff
<1> QED BY <1>4, <1>5
----------------------------------------------------------------------------
(* The steps of the walking and reading thread, on its own state.          *)

LEMMA WalkBegins ==
  ASSUME NEW s, NEW w, NEW K, ThreadsOK(s, w), s.pc = "load"
  PROVE  ThreadsOK([s EXCEPT !.pc = "walk", !.left = s.roots, !.known = K], w)
<1> DEFINE t == [s EXCEPT !.pc = "walk", !.left = s.roots, !.known = K]
<1>1. /\ DOMAIN t = ScanFields /\ t.pc = "walk" /\ t.missing = s.missing
      /\ t.seen = s.seen /\ t.batch = s.batch /\ t.at = NoRoot /\ t.walked = {} /\ t.todo = {}
  BY DEF ThreadsOK, ScanFields, NotBegun
<1> HIDE DEF t
<1>2. Walked(t).walked = {}
  BY <1>1 DEF Walked, ScanFields
<1>3. WalkOK(t)
  BY <1>1, <1>2 DEF WalkOK, Under
<1>4. ThreadsOK(t, w)
  BY <1>1, <1>3 DEF ThreadsOK
<1> QED BY <1>4 DEF t

\* What it is to be done with a folder.
LEMMA WalkedFields ==
  ASSUME NEW s, DOMAIN s = ScanFields
  PROVE  /\ DOMAIN Walked(s) = ScanFields /\ Walked(s).at = NoRoot
         /\ Walked(s).walked = IF s.at = NoRoot THEN s.walked ELSE s.walked \cup {s.at}
         /\ Walked(s).pc = s.pc /\ Walked(s).seen = s.seen /\ Walked(s).batch = s.batch
         /\ Walked(s).todo = s.todo /\ Walked(s).left = s.left /\ Walked(s).failed = s.failed
         /\ Walked(s).missing = s.missing /\ Walked(s).cancelled = s.cancelled
         /\ Walked(s).known = s.known
BY DEF Walked, ScanFields

LEMMA RootWalked ==
  ASSUME NEW s, NEW w, ThreadsOK(s, w), s.pc = "walk", s.todo = {}, NEW r \in s.left, NEW c
  PROVE  /\ ThreadsOK([Walked(s) EXCEPT !.left = @ \ {r}, !.calm = c], w)
         /\ ThreadsOK([Walked(s) EXCEPT !.left = @ \ {r}, !.at = r, !.todo = Under({r})], w)
<1> DEFINE v == Walked(s)
           t == [v EXCEPT !.left = @ \ {r}, !.calm = c]
           u == [v EXCEPT !.left = @ \ {r}, !.at = r, !.todo = Under({r})]
<1>1. DOMAIN s = ScanFields /\ WalkOK(s)
  BY DEF ThreadsOK
<1>2. /\ DOMAIN v = ScanFields /\ v.at = NoRoot
      /\ v.walked = IF s.at = NoRoot THEN s.walked ELSE s.walked \cup {s.at}
      /\ v.pc = s.pc /\ v.seen = s.seen /\ v.batch = s.batch
      /\ v.todo = s.todo /\ v.left = s.left /\ v.failed = s.failed /\ v.missing = s.missing
  BY <1>1, WalkedFields
<1> HIDE DEF v
<1>3. NoRoot \notin v.walked /\ r \notin v.walked /\ (v.left \ {r}) \cap v.walked = {}
  BY <1>1, <1>2 DEF WalkOK
<1>4. \A p \in Under(v.walked) \ In(v.failed) : v.seen[p] = 0 => p \in v.missing
  BY <1>1, <1>2 DEF WalkOK, v
<1>5. ThreadsOK(t, w)
  <2>1. /\ DOMAIN t = ScanFields /\ t.pc = "walk" /\ t.missing = s.missing
        /\ t.seen = s.seen /\ t.batch = s.batch /\ t.at = NoRoot /\ t.walked = v.walked
        /\ t.todo = {} /\ t.left = v.left \ {r} /\ t.failed = s.failed
    BY <1>2 DEF ScanFields
  <2> HIDE DEF t
  <2>2. Walked(t).walked = v.walked
    BY <2>1, WalkedFields
  <2>3. WalkOK(t)
    BY <1>2, <1>3, <1>4, <2>1, <2>2 DEF WalkOK
  <2> QED BY <2>1, <2>3 DEF ThreadsOK
<1>6. ThreadsOK(u, w)
  <2>1. /\ DOMAIN u = ScanFields /\ u.pc = "walk" /\ u.missing = s.missing
        /\ u.seen = s.seen /\ u.batch = s.batch /\ u.at = r /\ u.walked = v.walked
        /\ u.todo = Under({r}) /\ u.left = v.left \ {r} /\ u.failed = s.failed
    BY <1>2 DEF ScanFields
  <2> HIDE DEF u
  <2>2. Walked(u).walked \subseteq v.walked \cup {r}
    BY <2>1, WalkedFields
  <2>3. \A p \in Under(Walked(u).walked) : p \in Under(v.walked) \/ p \in u.todo
    BY <2>1, <2>2 DEF Under
  <2>4. WalkOK(u)
    BY <1>2, <1>3, <1>4, <2>1, <2>3 DEF WalkOK
  <2> QED BY <2>1, <2>4 DEF ThreadsOK
<1> QED BY <1>5, <1>6 DEF t, u, v

LEMMA EntryFound ==
  ASSUME NEW s, NEW w, ThreadsOK(s, w), Sees(s, file), FilesOK, s.pc = "walk", NEW p \in s.todo
  PROVE  ThreadsOK(Found(s, p), w)
<1> DEFINE t == Found(s, p)
<1>1. DOMAIN s = ScanFields /\ WalkOK(s) /\ DOMAIN s.seen = Paths /\ p \in Paths
  BY DEF ThreadsOK, WalkOK, Under
<1>2. /\ DOMAIN t = ScanFields /\ t.pc = "walk" /\ t.missing = s.missing
      /\ t.batch = s.batch /\ t.at = s.at /\ t.walked = s.walked
      /\ t.todo = s.todo \ {p} /\ t.left = s.left /\ t.failed = s.failed
      /\ t.seen = [s.seen EXCEPT ![p] = file[p].stamp]
  BY <1>1 DEF Found, ScanFields
<1> HIDE DEF t
<1>3. DOMAIN t.seen = Paths /\ t.seen[p] = file[p].stamp /\ \A q \in Paths : q # p => t.seen[q] = s.seen[q]
  BY <1>1, <1>2
<1>4. t.seen[p] = 0 => p \in t.missing
  BY <1>1, <1>2, <1>3 DEF Sees, FilesOK
<1>5. Walked(t).walked = Walked(s).walked
  <2>1. DOMAIN t = ScanFields /\ t.at = s.at /\ t.walked = s.walked
    BY <1>2
  <2> QED BY <1>1, <2>1, WalkedFields
<1>6. ASSUME NEW q \in Under(Walked(t).walked) \ In(t.failed), q \notin t.todo, t.seen[q] = 0
      PROVE  q \in t.missing
  <2>1. q \in Under(Walked(s).walked) \ In(s.failed) /\ q \in Paths
    BY <1>2, <1>5, <1>6 DEF Under
  <2>2. CASE q = p
    BY <1>4, <1>6, <2>2
  <2>3. CASE q # p
    BY <1>1, <1>2, <1>3, <1>6, <2>1, <2>3 DEF WalkOK
  <2> QED BY <2>2, <2>3
<1>7. WalkOK(t)
  <2>1. NoRoot \notin t.walked /\ t.at \notin t.walked /\ t.left \cap t.walked = {}
        /\ (t.at # NoRoot => t.at \notin t.left) /\ t.todo \subseteq Under({t.at})
    BY <1>1, <1>2 DEF WalkOK
  <2> QED BY <1>6, <2>1 DEF WalkOK
<1>8. ThreadsOK(t, w)
  BY <1>2, <1>3, <1>7 DEF ThreadsOK
<1> QED BY <1>8 DEF t

LEMMA EntryPassed ==
  ASSUME NEW s, NEW w, ThreadsOK(s, w), s.pc = "walk", NEW p \in s.todo
  PROVE  ThreadsOK(PassedOver(s, p), w) /\ PassedOver(s, p).missing = s.missing \cup {p}
<1> DEFINE u == [s EXCEPT !.calm = FALSE, !.missing = s.missing \cup {p}]
           t == PassedOver(s, p)
<1>1. DOMAIN s = ScanFields
  BY DEF ThreadsOK
<1>2. ThreadsOK(u, w)
  BY MissingGrows
<1>3. /\ DOMAIN u = ScanFields /\ u.pc = "walk" /\ u.missing = s.missing \cup {p}
      /\ u.seen = s.seen /\ u.batch = s.batch /\ u.at = s.at /\ u.walked = s.walked
      /\ u.todo = s.todo /\ u.left = s.left /\ u.failed = s.failed
  BY <1>1 DEF ScanFields
<1>4. /\ DOMAIN t = ScanFields /\ t.pc = "walk" /\ t.missing = s.missing \cup {p}
      /\ t.seen = s.seen /\ t.batch = s.batch /\ t.at = s.at /\ t.walked = s.walked
      /\ t.todo = s.todo \ {p} /\ t.left = s.left /\ t.failed = s.failed
  BY <1>1 DEF PassedOver, ScanFields
<1> HIDE DEF t, u
<1>5. Walked(t).walked = Walked(u).walked
  <2>1. Walked(t).walked = IF t.at = NoRoot THEN t.walked ELSE t.walked \cup {t.at}
    BY <1>4, WalkedFields
  <2>2. Walked(u).walked = IF u.at = NoRoot THEN u.walked ELSE u.walked \cup {u.at}
    BY <1>3, WalkedFields
  <2> QED BY <1>3, <1>4, <2>1, <2>2
<1>6. WalkOK(u)
  BY <1>2, <1>3 DEF ThreadsOK
<1>7. ASSUME NEW q \in Under(Walked(t).walked) \ In(t.failed), q \notin t.todo, t.seen[q] = 0
      PROVE  q \in t.missing
  <2>1. q \in Under(Walked(u).walked) \ In(u.failed)
    BY <1>3, <1>4, <1>5, <1>7
  <2> QED BY <1>3, <1>4, <1>6, <1>7, <2>1 DEF WalkOK
<1>8. WalkOK(t)
  <2>1. NoRoot \notin t.walked /\ t.at \notin t.walked /\ t.left \cap t.walked = {}
        /\ (t.at # NoRoot => t.at \notin t.left) /\ t.todo \subseteq Under({t.at})
    BY <1>3, <1>4, <1>6 DEF WalkOK
  <2> QED BY <1>7, <2>1 DEF WalkOK
<1>9. ThreadsOK(t, w)
  BY <1>2, <1>3, <1>4, <1>8 DEF ThreadsOK
<1> QED BY <1>4, <1>9 DEF t

LEMMA DirUnlisted ==
  ASSUME NEW s, NEW w, ThreadsOK(s, w), s.pc = "walk", NEW d
  PROVE  ThreadsOK(Unlisted(s, d), w)
<1> DEFINE t == Unlisted(s, d)
<1>1. DOMAIN s = ScanFields /\ WalkOK(s)
  BY DEF ThreadsOK
<1>2. /\ DOMAIN t = ScanFields /\ t.pc = "walk" /\ t.missing = s.missing
      /\ t.seen = s.seen /\ t.batch = s.batch /\ t.at = s.at /\ t.walked = s.walked
      /\ t.todo = s.todo \ In({d}) /\ t.left = s.left /\ t.failed = s.failed \cup {d}
  BY <1>1 DEF Unlisted, ScanFields
<1> HIDE DEF t
<1>3. Walked(t).walked = Walked(s).walked
  BY <1>1, <1>2, WalkedFields
<1>4. \A q \in Paths : q \notin In(t.failed) => q \notin In(s.failed) /\ q \notin In({d})
  BY <1>2 DEF In
<1>5. ASSUME NEW q \in Under(Walked(t).walked) \ In(t.failed), q \notin t.todo, t.seen[q] = 0
      PROVE  q \in t.missing
  <2>1. q \in Paths /\ q \in Under(Walked(s).walked)
    BY <1>3 DEF Under
  <2>2. q \notin s.todo
    BY <1>2, <1>4, <1>5, <2>1
  <2> QED BY <1>1, <1>2, <1>4, <1>5, <2>1, <2>2 DEF WalkOK
<1>6. WalkOK(t)
  <2>1. NoRoot \notin t.walked /\ t.at \notin t.walked /\ t.left \cap t.walked = {}
        /\ (t.at # NoRoot => t.at \notin t.left) /\ t.todo \subseteq Under({t.at})
    BY <1>1, <1>2 DEF WalkOK
  <2> QED BY <1>5, <2>1 DEF WalkOK
<1>7. ThreadsOK(t, w)
  BY <1>2, <1>6 DEF ThreadsOK
<1> QED BY <1>7 DEF t

LEMMA RootLost ==
  ASSUME NEW s, NEW w, ThreadsOK(s, w), s.pc = "walk"
  PROVE  ThreadsOK([s EXCEPT !.at = NoRoot, !.todo = {}], w)
<1> DEFINE t == [s EXCEPT !.at = NoRoot, !.todo = {}]
<1>1. DOMAIN s = ScanFields /\ WalkOK(s)
  BY DEF ThreadsOK
<1>2. /\ DOMAIN t = ScanFields /\ t.pc = "walk" /\ t.missing = s.missing
      /\ t.seen = s.seen /\ t.batch = s.batch /\ t.at = NoRoot /\ t.walked = s.walked
      /\ t.todo = {} /\ t.left = s.left /\ t.failed = s.failed
  BY <1>1 DEF ScanFields
<1> HIDE DEF t
<1>3. Walked(t).walked = s.walked /\ s.walked \subseteq Walked(s).walked
  BY <1>1, <1>2, WalkedFields
<1>4. ASSUME NEW q \in Under(s.walked) \ In(s.failed), s.seen[q] = 0
      PROVE  q \in s.missing
  <2>1. q \in Under(Walked(s).walked) /\ q \notin Under({s.at})
    BY <1>1, <1>3 DEF Under, WalkOK
  <2> QED BY <1>1, <1>4, <2>1 DEF WalkOK
<1>5. WalkOK(t)
  BY <1>1, <1>2, <1>3, <1>4 DEF WalkOK
<1>6. ThreadsOK(t, w)
  BY <1>2, <1>5 DEF ThreadsOK
<1> QED BY <1>6 DEF t
LEMMA FilesClassified ==
  ASSUME NEW s, NEW w, ThreadsOK(s, w), s.pc = "walk",
         s.cancelled \/ s.todo \cup s.left = {}
  PROVE  VanishedRows(Walked(s)) \subseteq s.missing
<1>1. DOMAIN s = ScanFields /\ WalkOK(s)
  BY DEF ThreadsOK
<1> DEFINE v == Walked(s)
<1>2. /\ v.seen = s.seen /\ v.failed = s.failed /\ v.cancelled = s.cancelled
  BY <1>1, WalkedFields
<1>3. ASSUME NEW p \in VanishedRows(v) PROVE p \in s.missing
  <2>1. ~s.cancelled /\ p \in Under(v.walked) \ In(v.failed) /\ v.seen[p] = 0
    BY <1>2, <1>3 DEF VanishedRows
  <2>2. p \in Under(Walked(s).walked) \ In(s.failed) /\ s.seen[p] = 0
    BY <1>2, <2>1
  <2>3. p \notin s.todo
    BY <2>1
  <2> QED BY <1>1, <2>2, <2>3 DEF WalkOK
<1> QED BY <1>3

\* A thread that has left the walk has nothing to keep but its messages.
LEMMA Reads ==
  ASSUME NEW s, NEW w, NEW t, NEW v, ThreadsOK(s, w),
         DOMAIN t = ScanFields, DOMAIN t.seen = Paths, t.missing = s.missing,
         t.pc \notin {"purge", "load", "walk"},
         \A x \in t.batch : x.path \in Paths,
         DOMAIN v = {"pc", "inbox", "candidates", "fresh", "robbed"},
         v.candidates \subseteq w.candidates, InboxOK(v.inbox, s.missing)
  PROVE  ThreadsOK(t, v)
BY DEF ThreadsOK

\* The writer's side of ThreadsOK.
LEMMA Writes ==
  ASSUME NEW s, NEW w, NEW v, ThreadsOK(s, w),
         DOMAIN v = {"pc", "inbox", "candidates", "fresh", "robbed"},
         \A c \in v.candidates : c.path \in s.missing, InboxOK(v.inbox, s.missing)
  PROVE  ThreadsOK(s, v)
BY DEF ThreadsOK

LEMMA MessageSent ==
  ASSUME NEW n \in Ids, ScanInv, NEW m, MessageOK(m, scan[n].missing), Send(n, m)
  PROVE  \E v : /\ writer' = [writer EXCEPT ![n] = v]
                /\ DOMAIN v = {"pc", "inbox", "candidates", "fresh", "robbed"}
                /\ v.candidates = writer[n].candidates
                /\ InboxOK(v.inbox, scan[n].missing)
<1>1. ThreadsOK(scan[n], writer[n]) /\ n \in DOMAIN writer
  BY DEF ScanInv, ScansOK
<1> DEFINE b == IF writer[n].pc = "failed" THEN <<>> ELSE Append(writer[n].inbox, m)
<1>2. InboxOK(b, scan[n].missing)
  BY <1>1, EmptyInbox, AppendInbox DEF ThreadsOK
<1>3. writer' = [writer EXCEPT ![n].inbox = b]
  BY DEF Send
<1> HIDE DEF b
<1> DEFINE v == [writer[n] EXCEPT !.inbox = b]
<1>4. writer' = [writer EXCEPT ![n] = v]
  BY <1>3
<1>5. /\ DOMAIN v = {"pc", "inbox", "candidates", "fresh", "robbed"}
      /\ v.candidates = writer[n].candidates /\ v.inbox = b
  BY <1>1 DEF ThreadsOK
<1> HIDE DEF v
<1> QED BY <1>2, <1>4, <1>5
\* What is not part of the walk may change under it.
SameWalk(s, t) ==
  /\ DOMAIN t = ScanFields /\ t.missing = s.missing
  /\ t.seen = s.seen /\ t.batch = s.batch /\ t.at = s.at /\ t.walked = s.walked
  /\ t.todo = s.todo /\ t.left = s.left /\ t.failed = s.failed

LEMMA SameWalkOK ==
  ASSUME NEW s, NEW w, NEW t, ThreadsOK(s, w), SameWalk(s, t),
         t.pc = s.pc \/ (s.pc \in {"purge", "load"} /\ t.pc \in {"load", "done"})
  PROVE  ThreadsOK(t, w)
<1>1. DOMAIN s = ScanFields
  BY DEF ThreadsOK
<1>2. Walked(t).walked = Walked(s).walked
  BY <1>1, WalkedFields DEF SameWalk
<1>3. WalkOK(s) => WalkOK(t)
  BY <1>2 DEF WalkOK, SameWalk
<1>4. NotBegun(s) => NotBegun(t)
  BY DEF NotBegun, SameWalk
<1> QED BY <1>3, <1>4 DEF ThreadsOK, SameWalk

----------------------------------------------------------------------------
(* Every step keeps the invariant.                                         *)

LEMMA Kept ==
  ASSUME ScanInv
  PROVE  /\ UNCHANGED file => FilesOK'
         /\ UNCHANGED rows => RowsOK'
         /\ UNCHANGED count => CountOK' /\ count'.scans = count.scans
BY DEF ScanInv, FilesOK, RowsOK, CountOK

LEMMA ScanInit == Init => ScanInv
<1> SUFFICES ASSUME Init PROVE ScanInv
  OBVIOUS
<1>1. FilesOK
  <2>1. ASSUME NEW p \in Paths PROVE Start[p].stamp = 0 => Start[p] = NoFile
    BY StartAssumption
  <2> QED BY <2>1, StartAssumption DEF Init, FilesOK
<1>2. RowsOK
  BY DEF Init, RowsOK, NoRow
<1>3. CountOK
  <2>1. Cardinality(Paths) \in Nat
    BY PathsAssumption, FS_CardinalityType DEF Paths
  <2> QED BY <2>1, ScanBoundsAssumption DEF Init, CountOK
<1>4. ThreadsOK(Unscanned, Unstarted) /\ Sees(Unscanned, file)
  BY EmptyInbox DEF ThreadsOK, Sees, Unscanned, Unstarted, ScanFields
<1>5. ScansOK
  BY <1>4 DEF Init, ScansOK
<1>6. LaterOff
  BY DEF Init, LaterOff, Unscanned
<1> QED BY <1>1, <1>2, <1>3, <1>5, <1>6 DEF ScanInv

\* The thread of scan n, which runs.
LEMMA ScannerMoves ==
  ASSUME ScanInv, NEW n \in Ids, NEW s, NEW w, Running(n),
         Set(scan, scan', n, s), Set(writer, writer', n, w),
         UNCHANGED file, count'.scans = count.scans, RowsOK', CountOK',
         ThreadsOK(s, w), s.pc = "done" \/ scan[n].missing \subseteq s.missing
  PROVE  ScanInv'
<1>1. Sees(s, file)
  BY DEF ScanInv, ScansOK, Sees, Running
<1>2. ScansOK' /\ LaterOff'
  BY <1>1, ThreadStep DEF Running
<1> QED BY <1>2, Kept DEF ScanInv

LEMMA PurgeKeeps == ASSUME ScanInv, NEW n \in Ids, Purge(n) PROVE ScanInv'
<1> DEFINE s == [scan[n] EXCEPT !.pc = IF scan[n].roots = {} THEN "done" ELSE "load"]
<1>1. ThreadsOK(scan[n], writer[n]) /\ DOMAIN scan = Ids /\ DOMAIN writer = Ids
  BY DEF ScanInv, ScansOK
<1>2. Set(scan, scan', n, s) /\ Set(writer, writer', n, writer[n])
  BY <1>1 DEF Purge, Set
<1>3. SameWalk(scan[n], s) /\ s.pc \in {"load", "done"}
  BY <1>1 DEF ThreadsOK, ScanFields, SameWalk
<1> HIDE DEF s
<1>4. ThreadsOK(s, writer[n]) /\ s.missing = scan[n].missing
  <2>1. scan[n].pc = "purge"
    BY DEF Purge
  <2> QED BY <1>1, <1>3, <2>1, SameWalkOK DEF SameWalk
<1>5. RowsOK'
  BY DEF Purge, RowsOK, NoRow, ScanInv
<1>6. UNCHANGED <<file, count>> /\ Running(n)
  BY DEF Purge, Running
<1> QED BY <1>2, <1>4, <1>5, <1>6, Kept, ScannerMoves

\* A step that leaves the writer alone.
LEMMA QuietlyKeeps ==
  ASSUME ScanInv, NEW n \in Ids, NEW s, Running(n), Quietly(n, s),
         ThreadsOK(s, writer[n]), s.missing = scan[n].missing
  PROVE  ScanInv'
<1>1. /\ Set(scan, scan', n, s) /\ Set(writer, writer', n, writer[n])
      /\ UNCHANGED <<file, rows, count>>
  BY DEF Quietly, Step, Set
<1> QED BY <1>1, Kept, ScannerMoves

LEMMA LoadKeeps == ASSUME ScanInv, NEW n \in Ids, SizeMtimeMap(n) PROVE ScanInv'
<1> DEFINE K == [p \in Paths |-> rows[p].stamp]
           s == [scan[n] EXCEPT !.pc = "walk", !.left = scan[n].roots, !.known = K]
<1>1. ThreadsOK(scan[n], writer[n]) /\ scan[n].pc = "load" /\ Running(n)
  BY DEF ScanInv, ScansOK, SizeMtimeMap, Running
<1>2. Quietly(n, s)
  <2>1. s = [scan[n] EXCEPT !.pc = "walk", !.left = scan[n].roots, !.known = [p \in Paths |-> rows[p].stamp]]
    OBVIOUS
  <2> HIDE DEF s
  <2> QED BY <2>1 DEF SizeMtimeMap
<1> HIDE DEF K
<1>3. ThreadsOK(s, writer[n])
  BY <1>1, WalkBegins
<1>4. s.missing = scan[n].missing
  BY <1>1 DEF ThreadsOK, ScanFields
<1> HIDE DEF s
<1> QED BY <1>1, <1>2, <1>3, <1>4, QuietlyKeeps

LEMMA WalkRootKeeps == ASSUME ScanInv, NEW n \in Ids, NEW r, WalkRoot(n, r) PROVE ScanInv'
<1> DEFINE v == Walked(scan[n])
           t == [v EXCEPT !.left = @ \ {r}, !.calm = FALSE]
           u == [v EXCEPT !.left = @ \ {r}, !.at = r, !.todo = Under({r})]
<1>1. ThreadsOK(scan[n], writer[n]) /\ DOMAIN scan[n] = ScanFields
  BY DEF ScanInv, ScansOK, ThreadsOK
<1>2. /\ DOMAIN v = ScanFields /\ v.missing = scan[n].missing /\ v.pc = scan[n].pc
      /\ v.todo = scan[n].todo /\ v.left = scan[n].left
  BY <1>1, WalkedFields
<1>3. scan[n].pc = "walk" /\ scan[n].todo = {} /\ r \in scan[n].left /\ Running(n)
  BY <1>2 DEF WalkRoot, Running
<1>4. Quietly(n, t) \/ Quietly(n, u)
  BY DEF WalkRoot
<1>5. ThreadsOK(t, writer[n]) /\ ThreadsOK(u, writer[n])
  BY <1>1, <1>3, RootWalked
<1>6. t.missing = scan[n].missing /\ u.missing = scan[n].missing
  BY <1>2 DEF ScanFields
<1> HIDE DEF t, u
<1> QED BY <1>3, <1>4, <1>5, <1>6, QuietlyKeeps

LEMMA VisitEntryKeeps == ASSUME ScanInv, NEW n \in Ids, NEW p, VisitEntry(n, p) PROVE ScanInv'
<1>1. /\ ThreadsOK(scan[n], writer[n]) /\ Sees(scan[n], file) /\ FilesOK
      /\ DOMAIN scan[n] = ScanFields
  BY DEF ScanInv, ScansOK, ThreadsOK
<1>2. scan[n].pc = "walk" /\ p \in scan[n].todo /\ Running(n) /\ Quietly(n, Found(scan[n], p))
  BY DEF VisitEntry, Walking, Running
<1>3. ThreadsOK(Found(scan[n], p), writer[n])
  BY <1>1, <1>2, EntryFound
<1>4. Found(scan[n], p).missing = scan[n].missing
  BY <1>1 DEF Found, ScanFields
<1> QED BY <1>2, <1>3, <1>4, QuietlyKeeps

LEMMA FailureCounted ==
  ASSUME ScanInv, NEW r, CountedFailure(r)
  PROVE  CountOK' /\ count'.scans = count.scans /\ count'.stamp = count.stamp /\ count'.id = count.id
<1>1. CASE UNCHANGED count
  BY <1>1, Kept
<1>2. CASE count' = [count EXCEPT !.changes = @ + 1]
  BY <1>2 DEF ScanInv, CountOK
<1> QED BY <1>1, <1>2 DEF CountedFailure

LEMMA ScanFailsKeeps == ASSUME ScanInv, NEW n \in Ids, ScanFails(n) PROVE ScanInv'
<1> DEFINE s == [scan[n] EXCEPT !.pc = "done", !.calm = FALSE]
<1>1. ThreadsOK(scan[n], writer[n]) /\ DOMAIN scan = Ids /\ DOMAIN writer = Ids
  BY DEF ScanInv, ScansOK
<1>2. Set(scan, scan', n, s) /\ Set(writer, writer', n, writer[n])
  BY <1>1 DEF ScanFails, Set
<1>3. SameWalk(scan[n], s) /\ s.pc = "done"
  BY <1>1 DEF ThreadsOK, ScanFields, SameWalk
<1> HIDE DEF s
<1>4. ThreadsOK(s, writer[n])
  <2>1. scan[n].pc \in {"purge", "load"}
    BY DEF ScanFails
  <2> QED BY <1>1, <1>3, <2>1, SameWalkOK
<1>5. UNCHANGED <<file, rows>> /\ Running(n)
  BY DEF ScanFails, Running
<1>6. CountOK' /\ count'.scans = count.scans
  BY DEF ScanFails, ScanInv, CountOK
<1> QED BY <1>2, <1>3, <1>4, <1>5, <1>6, Kept, ScannerMoves

LEMMA EntryFailsKeeps == ASSUME ScanInv, NEW n \in Ids, NEW p, EntryFails(n, p) PROVE ScanInv'
<1>1. ThreadsOK(scan[n], writer[n]) /\ DOMAIN scan = Ids /\ DOMAIN writer = Ids
  BY DEF ScanInv, ScansOK
<1>2. scan[n].pc = "walk" /\ p \in scan[n].todo /\ Running(n)
  BY DEF EntryFails, Walking, Running
<1>3. ThreadsOK(PassedOver(scan[n], p), writer[n]) /\ scan[n].missing \subseteq PassedOver(scan[n], p).missing
  BY <1>1, <1>2, EntryPassed
<1>4. /\ Set(scan, scan', n, PassedOver(scan[n], p)) /\ Set(writer, writer', n, writer[n])
      /\ UNCHANGED <<file, rows>>
  BY <1>1 DEF EntryFails, Set
<1>5. CountOK' /\ count'.scans = count.scans
  BY FailureCounted DEF EntryFails
<1> QED BY <1>2, <1>3, <1>4, <1>5, Kept, ScannerMoves

LEMMA DirFailsKeeps == ASSUME ScanInv, NEW n \in Ids, NEW d, DirFails(n, d) PROVE ScanInv'
<1>1. /\ ThreadsOK(scan[n], writer[n]) /\ DOMAIN scan[n] = ScanFields
      /\ DOMAIN scan = Ids /\ DOMAIN writer = Ids
  BY DEF ScanInv, ScansOK, ThreadsOK
<1>2. scan[n].pc = "walk" /\ Running(n)
  BY DEF DirFails, Walking, Running
<1>3. ThreadsOK(Unlisted(scan[n], d), writer[n])
  BY <1>1, <1>2, DirUnlisted
<1>4. Unlisted(scan[n], d).missing = scan[n].missing
  BY <1>1 DEF Unlisted, ScanFields
<1>5. /\ Set(scan, scan', n, Unlisted(scan[n], d)) /\ Set(writer, writer', n, writer[n])
      /\ UNCHANGED <<file, rows>>
  BY DEF DirFails, Set
<1>6. CountOK' /\ count'.scans = count.scans
  BY FailureCounted DEF DirFails
<1> QED BY <1>2, <1>3, <1>4, <1>5, <1>6, Kept, ScannerMoves

LEMMA RootFailsKeeps == ASSUME ScanInv, NEW n \in Ids, RootFails(n) PROVE ScanInv'
<1> DEFINE t == [scan[n] EXCEPT !.at = NoRoot, !.todo = {}]
<1>1. ThreadsOK(scan[n], writer[n]) /\ scan[n].pc = "walk" /\ Running(n) /\ Quietly(n, t)
  BY DEF ScanInv, ScansOK, RootFails, Walking, Running
<1>2. ThreadsOK(t, writer[n])
  BY <1>1, RootLost
<1>3. t.missing = scan[n].missing
  BY <1>1 DEF ThreadsOK, ScanFields
<1> HIDE DEF t
<1> QED BY <1>1, <1>2, <1>3, QuietlyKeeps
LEMMA ClassifyKeeps == ASSUME ScanInv, NEW n \in Ids, Classify(n) PROVE ScanInv'
<1> DEFINE v == Walked(scan[n])
           vanished == VanishedRows(v)
           pending == ClassifyFiles(v)
           s == [v EXCEPT !.pc = "read", !.left = {}, !.todo = {}, !.walked = {}, !.failed = {},
                          !.pending = pending, !.known = Only(pending, @), !.seen = Only(pending, @)]
           b == IF vanished = {} THEN <<>> ELSE <<Vanished(vanished)>>
           w == [writer[n] EXCEPT !.pc = "idle", !.inbox = b]
<1>1. ThreadsOK(scan[n], writer[n]) /\ DOMAIN scan[n] = ScanFields
  BY DEF ScanInv, ScansOK, ThreadsOK
<1>2. /\ DOMAIN v = ScanFields /\ v.missing = scan[n].missing /\ v.batch = scan[n].batch
      /\ v.pc = scan[n].pc /\ v.cancelled = scan[n].cancelled
      /\ v.todo = scan[n].todo /\ v.left = scan[n].left
  BY <1>1, WalkedFields
<1>3. /\ scan[n].pc = "walk" /\ Running(n) /\ Step(n, s)
      /\ scan[n].cancelled \/ scan[n].todo \cup scan[n].left = {}
      /\ writer' = [writer EXCEPT ![n].pc = "idle", ![n].inbox = b]
  BY <1>2 DEF Classify, Running
<1>4. Set(writer, writer', n, w)
  BY <1>3 DEF Set
<1>5. vanished \subseteq scan[n].missing
  BY <1>1, <1>3, FilesClassified
<1> HIDE DEF vanished, pending
<1>6. InboxOK(b, scan[n].missing)
  <2>1. MessageOK(Vanished(vanished), scan[n].missing)
    BY <1>5 DEF MessageOK, Vanished
  <2> QED BY <2>1, EmptyInbox, OneMessage
<1> HIDE DEF b, v
<1>7. /\ DOMAIN s = ScanFields /\ s.missing = scan[n].missing /\ s.pc = "read"
      /\ s.batch = scan[n].batch
  BY <1>2 DEF ScanFields
<1>8. s.seen = Only(pending, v.seen)
  BY <1>2 DEF ScanFields
<1>9. DOMAIN s.seen = Paths
  BY <1>8 DEF Only
<1>10. /\ DOMAIN w = {"pc", "inbox", "candidates", "fresh", "robbed"}
       /\ w.candidates = writer[n].candidates /\ w.inbox = b
  BY <1>1 DEF ThreadsOK
<1>11. Set(scan, scan', n, s) /\ UNCHANGED <<file, rows, count>>
  BY <1>3 DEF Step, Set
<1> HIDE DEF s, w
<1>12. ThreadsOK(s, w)
  BY <1>1, <1>6, <1>7, <1>9, <1>10, Reads DEF ThreadsOK
<1> QED BY <1>3, <1>4, <1>7, <1>11, <1>12, Kept, ScannerMoves

\* A file was taken from the pending ones, and the batch sent if it is full.
LEMMA TakesKeeps ==
  ASSUME ScanInv, NEW n \in Ids, NEW s, scan[n].pc = "read", Takes(n, s),
         DOMAIN s = ScanFields, s.missing = scan[n].missing, s.pc = "read",
         s.seen = scan[n].seen, \A x \in s.batch : x.path \in Paths
  PROVE  ScanInv'
<1> DEFINE t == [s EXCEPT !.taken = 0, !.batch = {}]
<1>1. ThreadsOK(scan[n], writer[n]) /\ Running(n)
  BY DEF ScanInv, ScansOK, Running
<1>2. DOMAIN scan[n].seen = Paths /\ InboxOK(writer[n].inbox, scan[n].missing)
      /\ DOMAIN writer[n] = {"pc", "inbox", "candidates", "fresh", "robbed"}
  BY <1>1 DEF ThreadsOK
<1>3. CASE IsFull(s)
  <2>1. Step(n, t) /\ Send(n, Tracks(s.batch))
    BY <1>3 DEF Takes
  <2>2. MessageOK(Tracks(s.batch), scan[n].missing)
    BY DEF MessageOK, Tracks
  <2>3. PICK v : /\ writer' = [writer EXCEPT ![n] = v]
                 /\ DOMAIN v = {"pc", "inbox", "candidates", "fresh", "robbed"}
                 /\ v.candidates = writer[n].candidates
                 /\ InboxOK(v.inbox, scan[n].missing)
    BY <2>1, <2>2, MessageSent
  <2>4. DOMAIN t = ScanFields /\ t.missing = scan[n].missing /\ t.pc = "read"
        /\ t.seen = scan[n].seen /\ t.batch = {}
    BY DEF ScanFields
  <2>5. Set(scan, scan', n, t) /\ Set(writer, writer', n, v) /\ UNCHANGED <<file, rows, count>>
    BY <2>1, <2>3 DEF Step, Set
  <2> HIDE DEF t
  <2>6. ThreadsOK(t, v)
    BY <1>1, <1>2, <2>3, <2>4, Reads
  <2> QED BY <1>1, <2>4, <2>5, <2>6, Kept, ScannerMoves
<1>4. CASE ~IsFull(s)
  <2>1. ThreadsOK(s, writer[n])
    BY <1>1, <1>2, Reads
  <2> QED BY <1>1, <1>4, <2>1, QuietlyKeeps DEF Takes
<1> QED BY <1>3, <1>4

LEMMA ReadFileKeeps ==
  ASSUME ScanInv, NEW n \in Ids, NEW p \in Paths, ReadFile(n, p) \/ SkipUnreadable(n, p)
  PROVE  ScanInv'
<1> DEFINE r == Read(scan[n], p)
           s == [scan[n] EXCEPT !.pending = @ \ {p}, !.taken = @ + 1, !.batch = @ \cup {r}]
           t == [scan[n] EXCEPT !.pending = @ \ {p}, !.taken = @ + 1, !.calm = FALSE]
<1>1. DOMAIN scan[n] = ScanFields /\ \A x \in scan[n].batch : x.path \in Paths
  BY DEF ScanInv, ScansOK, ThreadsOK
<1>2. r.path \in Paths
  BY DEF Read
<1>3. scan[n].pc = "read" /\ (Takes(n, s) \/ Takes(n, t))
  BY DEF ReadFile, SkipUnreadable, MayRead
<1> HIDE DEF r
<1>4. /\ DOMAIN s = ScanFields /\ s.missing = scan[n].missing /\ s.pc = scan[n].pc
      /\ s.seen = scan[n].seen /\ s.batch = scan[n].batch \cup {r}
  BY <1>1 DEF ScanFields
<1>5. /\ DOMAIN t = ScanFields /\ t.missing = scan[n].missing /\ t.pc = scan[n].pc
      /\ t.seen = scan[n].seen /\ t.batch = scan[n].batch
  BY <1>1 DEF ScanFields
<1> HIDE DEF s, t
<1>6. CASE Takes(n, s)
  BY <1>1, <1>2, <1>3, <1>4, <1>6, TakesKeeps
<1>7. CASE Takes(n, t)
  BY <1>1, <1>3, <1>5, <1>7, TakesKeeps
<1> QED BY <1>3, <1>6, <1>7

LEMMA SendFinishKeeps == ASSUME ScanInv, NEW n \in Ids, SendFinish(n) PROVE ScanInv'
<1> DEFINE s == [scan[n] EXCEPT !.pc = "join"]
<1>1. /\ ThreadsOK(scan[n], writer[n]) /\ DOMAIN scan[n] = ScanFields
      /\ DOMAIN scan[n].seen = Paths /\ \A x \in scan[n].batch : x.path \in Paths
  BY DEF ScanInv, ScansOK, ThreadsOK
<1>2. scan[n].pc = "read" /\ Running(n) /\ Step(n, s) /\ Send(n, Finish(~scan[n].cancelled))
  BY DEF SendFinish, Running
<1>3. MessageOK(Finish(~scan[n].cancelled), scan[n].missing)
  BY DEF MessageOK, Finish
<1>4. PICK v : /\ writer' = [writer EXCEPT ![n] = v]
               /\ DOMAIN v = {"pc", "inbox", "candidates", "fresh", "robbed"}
               /\ v.candidates = writer[n].candidates
               /\ InboxOK(v.inbox, scan[n].missing)
  BY <1>2, <1>3, MessageSent
<1>5. /\ DOMAIN s = ScanFields /\ s.missing = scan[n].missing /\ s.pc = "join"
      /\ s.seen = scan[n].seen /\ s.batch = scan[n].batch
  BY <1>1 DEF ScanFields
<1>6. Set(scan, scan', n, s) /\ Set(writer, writer', n, v) /\ UNCHANGED <<file, rows, count>>
  BY <1>2, <1>4 DEF Step, Set
<1> HIDE DEF s
<1>7. ThreadsOK(s, v)
  BY <1>1, <1>4, <1>5, Reads
<1> QED BY <1>2, <1>5, <1>6, <1>7, Kept, ScannerMoves

LEMMA JoinKeeps == ASSUME ScanInv, NEW n \in Ids, JoinWriter(n) PROVE ScanInv'
<1> DEFINE s == [Unscanned EXCEPT !.pc = "done", !.roots = scan[n].roots, !.calm = scan[n].calm]
<1>1. /\ scan[n].pc = "join" /\ Running(n)
      /\ Set(scan, scan', n, s) /\ Set(writer, writer', n, Unstarted)
      /\ UNCHANGED <<file, rows, count>>
  BY DEF JoinWriter, Step, Set, Running
<1>2. s.pc = "done" /\ ThreadsOK(s, Unstarted)
  BY EmptyInbox DEF ThreadsOK, Unscanned, Unstarted, ScanFields
<1> HIDE DEF s
<1> QED BY <1>1, <1>2, Kept, ScannerMoves

LEMMA ScannerKeeps == ASSUME ScanInv, NEW n \in Ids, Scanner(n) PROVE ScanInv'
BY PurgeKeeps, ScanFailsKeeps, LoadKeeps, RootFailsKeeps, ClassifyKeeps, WalkRootKeeps,
   VisitEntryKeeps, EntryFailsKeeps, DirFailsKeeps, ReadFileKeeps, SendFinishKeeps, JoinKeeps DEF Scanner
\* The writer of scan n takes a step, and the scan keeps its walk.
LEMMA WriterMoves ==
  ASSUME ScanInv, NEW n \in Ids, NEW s, NEW w, writer[n].pc = "idle",
         Set(scan, scan', n, s), writer' = [writer EXCEPT ![n] = w],
         UNCHANGED file, count'.scans = count.scans, RowsOK', CountOK',
         SameWalk(scan[n], s), s.pc = scan[n].pc,
         DOMAIN w = {"pc", "inbox", "candidates", "fresh", "robbed"},
         \A c \in w.candidates : c.path \in scan[n].missing,
         InboxOK(w.inbox, scan[n].missing)
  PROVE  ScanInv'
<1>1. ThreadsOK(scan[n], writer[n]) /\ Sees(scan[n], file)
  BY DEF ScanInv, ScansOK
<1>2. ThreadsOK(scan[n], w)
  BY <1>1, Writes
<1>3. ThreadsOK(s, w)
  BY <1>2, SameWalkOK
<1>4. Sees(s, file)
  BY <1>1 DEF Sees, SameWalk
<1>5. Set(writer, writer', n, w) /\ writer[n] # Unstarted
  BY DEF Set, Unstarted
<1>6. ScansOK' /\ LaterOff'
  BY <1>3, <1>4, <1>5, ThreadStep
<1> QED BY <1>6, Kept DEF ScanInv

\* A step of a writer that touches rows and its own state only.
LEMMA WriteKeeps ==
  ASSUME ScanInv, NEW n \in Ids, NEW w, writer[n].pc = "idle",
         Write(n, w), UNCHANGED <<scan, count>>, RowsOK',
         DOMAIN w = {"pc", "inbox", "candidates", "fresh", "robbed"},
         \A c \in w.candidates : c.path \in scan[n].missing,
         InboxOK(w.inbox, scan[n].missing)
  PROVE  ScanInv'
<1>1. Set(scan, scan', n, scan[n]) /\ writer' = [writer EXCEPT ![n] = w] /\ UNCHANGED file
  BY DEF Write, Set
<1>2. SameWalk(scan[n], scan[n])
  BY DEF SameWalk, ScanInv, ScansOK, ThreadsOK
<1> QED BY <1>1, <1>2, Kept, WriterMoves

\* What a writer that receives knows.
LEMMA Received ==
  ASSUME ScanInv, NEW n \in Ids, NEW type, Receives(n, type)
  PROVE  /\ writer[n].pc = "idle"
         /\ DOMAIN writer[n] = {"pc", "inbox", "candidates", "fresh", "robbed"}
         /\ \A c \in writer[n].candidates : c.path \in scan[n].missing
         /\ InboxOK(writer[n].inbox, scan[n].missing)
         /\ InboxOK(Tail(writer[n].inbox), scan[n].missing)
         /\ MessageOK(Message(n), scan[n].missing) /\ Message(n).type = type
         /\ writer[n].inbox # <<>> /\ Message(n) = writer[n].inbox[1]
<1>1. ThreadsOK(scan[n], writer[n])
  BY DEF ScanInv, ScansOK
<1>2. writer[n].inbox # <<>> /\ InboxOK(writer[n].inbox, scan[n].missing)
  BY <1>1 DEF Receives, ThreadsOK
<1> QED BY <1>1, <1>2, TailInbox DEF Receives, Message, ThreadsOK

LEMMA LoadRowsKeeps == ASSUME ScanInv, NEW n \in Ids, LoadRows(n) PROVE ScanInv'
<1> DEFINE C == {[path |-> p, tags |-> rows[p].tags] : p \in {q \in Message(n).paths : Stored(q)}}
           w == [writer[n] EXCEPT !.inbox = Tail(@), !.candidates = C]
<1>1. Receives(n, "vanished") /\ Write(n, w) /\ UNCHANGED <<rows, scan, count>>
  BY DEF LoadRows
<1>2. \A c \in C : c.path \in scan[n].missing
  BY <1>1, Received DEF MessageOK
<1> HIDE DEF C
<1>3. /\ DOMAIN writer[n] = {"pc", "inbox", "candidates", "fresh", "robbed"} /\ writer[n].pc = "idle"
      /\ InboxOK(Tail(writer[n].inbox), scan[n].missing)
  BY <1>1, Received
<1>4. /\ DOMAIN w = {"pc", "inbox", "candidates", "fresh", "robbed"}
      /\ w.candidates = C /\ w.inbox = Tail(writer[n].inbox)
  BY <1>3
<1> HIDE DEF w
<1> QED BY <1>1, <1>2, <1>3, <1>4, Kept, WriteKeeps

\* A writer that is done with an item.
LEMMA PersistedOK ==
  ASSUME ScanInv, NEW n \in Ids, Receives(n, "tracks"), NEW item, NEW w,
         w = Persisted(writer[n], item)
  PROVE  /\ DOMAIN w = {"pc", "inbox", "candidates", "fresh", "robbed"}
         /\ w.candidates = writer[n].candidates
         /\ InboxOK(w.inbox, scan[n].missing)
<1>1. /\ DOMAIN writer[n] = {"pc", "inbox", "candidates", "fresh", "robbed"}
      /\ InboxOK(writer[n].inbox, scan[n].missing) /\ writer[n].inbox # <<>>
      /\ writer[n].inbox[1].type = "tracks"
  BY Received
<1>2. InboxOK([writer[n].inbox EXCEPT ![1].items = @ \ {item}], scan[n].missing)
  BY <1>1, ItemTaken
<1>3. /\ DOMAIN w = {"pc", "inbox", "candidates", "fresh", "robbed"}
      /\ w.candidates = writer[n].candidates
      /\ w.inbox = [writer[n].inbox EXCEPT ![1].items = @ \ {item}]
  BY <1>1 DEF Persisted
<1> QED BY <1>2, <1>3

LEMMA ItemPath ==
  ASSUME ScanInv, NEW n \in Ids, Receives(n, "tracks"), NEW item \in Message(n).items
  PROVE  item.path \in Paths
BY Received DEF MessageOK

LEMMA UpdateKeeps ==
  ASSUME ScanInv, NEW n \in Ids, Receives(n, "tracks"), NEW item \in Message(n).items,
         UpdateTrack(n, item)
  PROVE  ScanInv'
<1> DEFINE w == Persisted(writer[n], item)
<1>1. Write(n, w) /\ UNCHANGED <<scan, count>>
  BY DEF UpdateTrack
<1>2. RowsOK'
  BY ItemPath DEF UpdateTrack, RowOf, RowsOK, ScanInv
<1>3. /\ writer[n].pc = "idle" /\ \A c \in writer[n].candidates : c.path \in scan[n].missing
  BY Received
<1>4. /\ DOMAIN w = {"pc", "inbox", "candidates", "fresh", "robbed"}
      /\ w.candidates = writer[n].candidates /\ InboxOK(w.inbox, scan[n].missing)
  BY PersistedOK
<1> HIDE DEF w
<1> QED BY <1>1, <1>2, <1>3, <1>4, WriteKeeps

LEMMA NotMovedKeeps ==
  ASSUME ScanInv, NEW n \in Ids, Receives(n, "tracks"), NEW item, NotMoved(n, item)
  PROVE  ScanInv'
<1> DEFINE v == Persisted(writer[n], item)
           w == [v EXCEPT !.fresh = @ \cup {item}]
<1>1. Write(n, w) /\ UNCHANGED <<rows, scan, count>>
  BY DEF NotMoved
<1>2. /\ writer[n].pc = "idle" /\ \A c \in writer[n].candidates : c.path \in scan[n].missing
  BY Received
<1>3. /\ DOMAIN v = {"pc", "inbox", "candidates", "fresh", "robbed"}
      /\ v.candidates = writer[n].candidates /\ InboxOK(v.inbox, scan[n].missing)
  BY PersistedOK
<1> HIDE DEF v
<1>4. /\ DOMAIN w = {"pc", "inbox", "candidates", "fresh", "robbed"}
      /\ w.candidates = v.candidates /\ w.inbox = v.inbox
  BY <1>3
<1> HIDE DEF w
<1> QED BY <1>1, <1>2, <1>3, <1>4, Kept, WriteKeeps

LEMMA MoveKeeps ==
  ASSUME ScanInv, NEW n \in Ids, Receives(n, "tracks"), NEW item \in Message(n).items,
         NEW c, MoveTrack(n, item, c)
  PROVE  ScanInv'
<1> DEFINE v == Persisted(writer[n], item)
           w == [v EXCEPT !.candidates = @ \ {c}]
           x == [w EXCEPT !.fresh = @ \cup {item}, !.robbed = @ \cup {item.tags}]
           y == [w EXCEPT !.pc = "failed", !.inbox = <<>>]
<1>1. /\ UNCHANGED <<scan, count>> /\ (Write(n, w) \/ Write(n, x) \/ Write(n, y))
      /\ (UNCHANGED rows \/ rows' = MovedRow(c.path, item))
  BY DEF MoveTrack
<1>2. RowsOK'
  <2>1. CASE UNCHANGED rows
    BY <2>1, Kept
  <2>2. CASE rows' = MovedRow(c.path, item)
    BY <2>2, ItemPath DEF MovedRow, RowOf, NoRow, RowsOK, ScanInv
  <2> QED BY <1>1, <2>1, <2>2
<1>3. /\ writer[n].pc = "idle" /\ \A d \in writer[n].candidates : d.path \in scan[n].missing
  BY Received
<1>4. /\ DOMAIN v = {"pc", "inbox", "candidates", "fresh", "robbed"}
      /\ v.candidates = writer[n].candidates /\ InboxOK(v.inbox, scan[n].missing)
  BY PersistedOK
<1> HIDE DEF v
<1>5. /\ DOMAIN w = {"pc", "inbox", "candidates", "fresh", "robbed"}
      /\ w.candidates \subseteq writer[n].candidates /\ InboxOK(w.inbox, scan[n].missing)
  BY <1>4
<1> HIDE DEF w
<1>6. /\ DOMAIN x = {"pc", "inbox", "candidates", "fresh", "robbed"}
      /\ x.candidates = w.candidates /\ x.inbox = w.inbox
  BY <1>5
<1>7. /\ DOMAIN y = {"pc", "inbox", "candidates", "fresh", "robbed"}
      /\ y.candidates = w.candidates /\ InboxOK(y.inbox, scan[n].missing)
  BY <1>5, EmptyInbox
<1> HIDE DEF x, y
<1>8. Write(n, w) => ScanInv'
  BY <1>1, <1>2, <1>3, <1>5, WriteKeeps
<1>9. Write(n, x) => ScanInv'
  BY <1>1, <1>2, <1>3, <1>5, <1>6, WriteKeeps
<1>10. Write(n, y) => ScanInv'
  BY <1>1, <1>2, <1>3, <1>5, <1>7, WriteKeeps
<1> QED BY <1>1, <1>8, <1>9, <1>10

LEMMA UpsertKeeps == ASSUME ScanInv, NEW n \in Ids, UpsertTracks(n) PROVE ScanInv'
<1> DEFINE fresh == writer[n].fresh
           new == {i \in fresh : ~Stored(i.path)}
           s == [scan[n] EXCEPT !.inserted = @ \cup {i.tags : i \in new}]
           w == [writer[n] EXCEPT !.inbox = Tail(@), !.fresh = {}]
<1>1. /\ Receives(n, "tracks") /\ Write(n, w)
      /\ scan' = [scan EXCEPT ![n].inserted = @ \cup {i.tags : i \in new}]
  BY DEF UpsertTracks
<1>2. Set(scan, scan', n, s)
  BY <1>1 DEF Set
<1>3. RowsOK'
  <2>1. /\ DOMAIN rows' = Paths
        /\ \A p \in Paths : rows'[p] = rows[p] \/ \E i, id : rows'[p] = RowOf(i, id)
    BY DEF UpsertTracks
  <2> QED BY <2>1 DEF RowsOK, RowOf, ScanInv
<1>4. CountOK' /\ count'.scans = count.scans
  BY DEF UpsertTracks, CountOK, ScanInv
<1>5. SameWalk(scan[n], s) /\ s.pc = scan[n].pc
  <2>1. DOMAIN scan[n] = ScanFields
    BY DEF ScanInv, ScansOK, ThreadsOK
  <2> QED BY <2>1 DEF SameWalk, ScanFields
<1>6. /\ DOMAIN writer[n] = {"pc", "inbox", "candidates", "fresh", "robbed"} /\ writer[n].pc = "idle"
      /\ \A c \in writer[n].candidates : c.path \in scan[n].missing
      /\ InboxOK(Tail(writer[n].inbox), scan[n].missing)
  BY <1>1, Received
<1>7. /\ DOMAIN w = {"pc", "inbox", "candidates", "fresh", "robbed"}
      /\ w.candidates = writer[n].candidates /\ w.inbox = Tail(writer[n].inbox)
  BY <1>6
<1>8. writer' = [writer EXCEPT ![n] = w] /\ UNCHANGED file
  BY <1>1 DEF Write
<1> HIDE DEF s, w
<1> QED BY <1>2, <1>3, <1>4, <1>5, <1>6, <1>7, <1>8, WriterMoves

LEMMA DeleteKeeps == ASSUME ScanInv, NEW n \in Ids, DeleteRemaining(n) PROVE ScanInv'
<1> DEFINE w == [writer[n] EXCEPT !.pc = "ended", !.inbox = Tail(@)]
<1>1. Receives(n, "finish") /\ Write(n, w) /\ UNCHANGED <<scan, count>>
  BY DEF DeleteRemaining
<1>2. RowsOK'
  BY DEF DeleteRemaining, NoRow, RowsOK, ScanInv
<1>3. /\ DOMAIN writer[n] = {"pc", "inbox", "candidates", "fresh", "robbed"} /\ writer[n].pc = "idle"
      /\ \A c \in writer[n].candidates : c.path \in scan[n].missing
      /\ InboxOK(Tail(writer[n].inbox), scan[n].missing)
  BY <1>1, Received
<1>4. /\ DOMAIN w = {"pc", "inbox", "candidates", "fresh", "robbed"}
      /\ w.candidates = writer[n].candidates /\ w.inbox = Tail(writer[n].inbox)
  BY <1>3
<1> HIDE DEF w
<1> QED BY <1>1, <1>2, <1>3, <1>4, WriteKeeps

LEMMA StoreFailsKeeps == ASSUME ScanInv, NEW n \in Ids, StoreFails(n) PROVE ScanInv'
<1> DEFINE s == [scan[n] EXCEPT !.calm = FALSE]
           w == [writer[n] EXCEPT !.pc = "failed", !.inbox = <<>>]
<1>1. /\ writer[n].pc = "idle" /\ writer' = [writer EXCEPT ![n] = w]
      /\ UNCHANGED <<file, rows>> /\ scan' = [scan EXCEPT ![n].calm = FALSE]
      /\ count' = [count EXCEPT !.changes = @ + 1]
  BY DEF StoreFails, Write
<1>2. Set(scan, scan', n, s)
  BY <1>1 DEF Set
<1>3. CountOK' /\ count'.scans = count.scans
  BY <1>1 DEF CountOK, ScanInv
<1>4. ThreadsOK(scan[n], writer[n])
  BY DEF ScanInv, ScansOK
<1>5. SameWalk(scan[n], s) /\ s.pc = scan[n].pc
  BY <1>4 DEF SameWalk, ScanFields, ThreadsOK
<1>6. /\ DOMAIN w = {"pc", "inbox", "candidates", "fresh", "robbed"}
      /\ w.candidates = writer[n].candidates /\ InboxOK(w.inbox, scan[n].missing)
      /\ \A c \in writer[n].candidates : c.path \in scan[n].missing
  BY <1>4, EmptyInbox DEF ThreadsOK
<1> HIDE DEF s, w
<1> QED BY <1>1, <1>2, <1>3, <1>5, <1>6, Kept, WriterMoves

LEMMA WriterKeeps == ASSUME ScanInv, NEW n \in Ids, WriterStep(n) PROVE ScanInv'
BY LoadRowsKeeps, UpsertKeeps, DeleteKeeps, StoreFailsKeeps, UpdateKeeps, NotMovedKeeps,
   MoveKeeps DEF WriterStep
LEMMA BeginKeeps ==
  ASSUME ScanInv, NEW roots, NEW purge, BeginScan(roots, purge)
  PROVE  ScanInv'
<1> DEFINE k == count.scans + 1
           pc == IF purge = {} THEN "load" ELSE "purge"
           absent == {p \in Paths : ~OnDisk(p)}
           calm == edit.pc = "idle" /\ \A n \in Ids : ~Running(n)
           s == [Unscanned EXCEPT !.pc = pc, !.roots = roots, !.purge = purge,
                                  !.missing = absent, !.calm = calm]
           d == Disturbed(scan, {})
<1>1. /\ count.scans < MaxScans /\ count' = [count EXCEPT !.scans = @ + 1]
      /\ UNCHANGED <<file, rows, writer>> /\ scan' = [d EXCEPT ![k] = s]
  BY DEF BeginScan
<1>2. /\ count.scans \in Nat /\ k \in Ids /\ count'.scans = k /\ CountOK'
  BY <1>1, ScanBoundsAssumption DEF ScanInv, CountOK, Ids
<1>3. s.pc \in {"load", "purge"} /\ s.missing = absent /\ s.at = NoRoot /\ s.walked = {}
      /\ s.todo = {} /\ s.batch = {} /\ DOMAIN s = ScanFields /\ DOMAIN s.seen = Paths
  BY DEF Unscanned, ScanFields
<1>4. writer[k] = Unstarted /\ scan[k].pc = "off"
  BY <1>2 DEF ScanInv, LaterOff
<1>5. ThreadsOK(s, Unstarted)
  BY <1>3, EmptyInbox DEF ThreadsOK, NotBegun, Unstarted
<1>6. Sees(s, file)
  BY <1>3 DEF Sees, OnDisk
<1>7. ASSUME NEW n \in Ids
      PROVE  d[n].pc = scan[n].pc /\ ThreadsOK(d[n], writer[n]) /\ Sees(d[n], file)
  <2>1. ThreadsOK(scan[n], writer[n]) /\ Sees(scan[n], file) /\ DOMAIN scan[n] = ScanFields
    BY DEF ScanInv, ScansOK, ThreadsOK
  <2>2. d[n] = [scan[n] EXCEPT !.calm = FALSE, !.missing = scan[n].missing]
    BY <2>1 DEF Disturbed
  <2>3. ThreadsOK(d[n], writer[n])
    <3>1. scan[n].missing \subseteq scan[n].missing
      OBVIOUS
    <3>2. ThreadsOK([scan[n] EXCEPT !.calm = FALSE, !.missing = scan[n].missing], writer[n])
      BY <2>1, <3>1, MissingGrows
    <3> QED BY <2>2, <3>2
  <2>4. d[n].pc = scan[n].pc /\ d[n].missing = scan[n].missing
    BY <2>1, <2>2 DEF ScanFields
  <2> QED BY <2>1, <2>3, <2>4 DEF Sees
<1>8. DOMAIN d = Ids
  BY DEF Disturbed
<1> HIDE DEF s, d
<1>9. /\ DOMAIN scan' = Ids /\ scan'[k] = s /\ \A n \in Ids : n # k => scan'[n] = d[n]
  BY <1>1, <1>2, <1>8
<1>10. ScansOK'
  <2>1. ASSUME NEW n \in Ids PROVE ThreadsOK(scan'[n], writer'[n]) /\ Sees(scan'[n], file')
    <3>1. CASE n = k
      BY <1>1, <1>4, <1>5, <1>6, <1>9, <3>1
    <3>2. CASE n # k
      BY <1>1, <1>7, <1>9, <3>2
    <3> QED BY <3>1, <3>2
  <2> QED BY <1>1, <1>9, <2>1 DEF ScanInv, ScansOK
<1>11. LaterOff'
  <2>1. ASSUME NEW n \in Ids, n > k PROVE scan'[n].pc = "off" /\ writer'[n] = Unstarted
    <3>1. n > count.scans /\ n # k
      BY <1>2, <2>1 DEF Ids
    <3> QED BY <1>1, <1>7, <1>9, <3>1 DEF ScanInv, LaterOff
  <2> QED BY <1>2, <2>1 DEF LaterOff
<1> QED BY <1>1, <1>2, <1>10, <1>11, Kept DEF ScanInv

LEMMA CancelKeeps == ASSUME ScanInv, CancelScan PROVE ScanInv'
<1> DEFINE n == count.scans
           s == [scan[n] EXCEPT !.cancelled = TRUE, !.calm = FALSE]
<1>1. /\ n # 0 /\ Running(n) /\ UNCHANGED <<file, rows, writer, count>>
      /\ scan' = [scan EXCEPT ![n].cancelled = TRUE, ![n].calm = FALSE]
  BY DEF CancelScan
<1>2. n \in Ids
  BY <1>1, ScanBoundsAssumption DEF ScanInv, CountOK, Ids
<1>3. ThreadsOK(scan[n], writer[n])
  BY <1>2 DEF ScanInv, ScansOK
<1>4. Set(scan, scan', n, s) /\ Set(writer, writer', n, writer[n])
  BY <1>1 DEF Set
<1>5. SameWalk(scan[n], s) /\ s.pc = scan[n].pc
  BY <1>3 DEF SameWalk, ScanFields, ThreadsOK
<1> HIDE DEF s, n
<1>6. ThreadsOK(s, writer[n]) /\ s.missing = scan[n].missing
  BY <1>3, <1>5, SameWalkOK DEF SameWalk
<1> QED BY <1>1, <1>2, <1>4, <1>6, Kept, ScannerMoves

LEMMA BackendKeeps == ASSUME ScanInv, Backend PROVE ScanInv'
BY BeginKeeps, CancelKeeps DEF Backend, Rescan, RemoveFolder, AddFolder, WatcherAsks
\* The world outside and the tag editor.
LEMMA OutsideKeeps == ASSUME ScanInv, Outside PROVE ScanInv'
<1>1. ASSUME NEW files, NEW stamps \in {0, 1}, Change(files, stamps),
             DOMAIN files = Paths,
             \A p \in Paths : files[p].stamp = 0 => files[p] = NoFile
      PROVE  ScanInv'
  <2>1. /\ file' = files /\ UNCHANGED <<rows, writer>>
        /\ count' = [count EXCEPT !.changes = @ + 1, !.stamp = @ + stamps]
        /\ scan' = Disturbed(scan, {p \in Paths : files[p] = NoFile})
    BY <1>1 DEF Change
  <2>2. FilesOK' /\ CountOK' /\ count'.scans = count.scans
    BY <1>1, <2>1 DEF FilesOK, CountOK, ScanInv
  <2>3. ScansOK' /\ LaterOff'
    BY <2>1, <2>2, DisturbedOK
  <2> QED BY <2>1, <2>2, <2>3, Kept DEF ScanInv
<1>2. /\ DOMAIN file = Paths /\ \A p \in Paths : file[p].stamp = 0 => file[p] = NoFile
      /\ count.stamp \in Nat
  BY DEF ScanInv, FilesOK, CountOK
<1>3. ASSUME NEW p \in Paths, NEW c, OtherWrites(p, c) PROVE ScanInv'
  <2> DEFINE files == [file EXCEPT ![p] = [stamp |-> count.stamp + 1, holds |-> c]]
  <2>1. Change(files, 1)
    BY <1>3 DEF OtherWrites
  <2>2. DOMAIN files = Paths /\ \A q \in Paths : files[q].stamp = 0 => files[q] = NoFile
    BY <1>2
  <2> HIDE DEF files
  <2> QED BY <1>1, <2>1, <2>2
<1>4. ASSUME NEW p \in Paths, OtherRemoves(p) PROVE ScanInv'
  <2> DEFINE files == [file EXCEPT ![p] = NoFile]
  <2>1. Change(files, 0)
    BY <1>4 DEF OtherRemoves
  <2>2. DOMAIN files = Paths /\ \A q \in Paths : files[q].stamp = 0 => files[q] = NoFile
    BY <1>2
  <2> HIDE DEF files
  <2> QED BY <1>1, <2>1, <2>2
<1>5. ASSUME NEW p \in Paths, NEW q \in Paths, OtherRenames(p, q) PROVE ScanInv'
  <2> DEFINE files == [file EXCEPT ![p] = NoFile, ![q] = file[p]]
  <2>1. Change(files, 0)
    BY <1>5 DEF OtherRenames
  <2>2. DOMAIN files = Paths /\ \A r \in Paths : files[r].stamp = 0 => files[r] = NoFile
    BY <1>2
  <2> HIDE DEF files
  <2> QED BY <1>1, <2>1, <2>2
<1>6. ASSUME NEW r, ShareChanges(r) PROVE ScanInv'
  <2>1. /\ UNCHANGED <<file, rows, writer>> /\ scan' = Disturbed(scan, {})
        /\ count' = [count EXCEPT !.changes = @ + 1]
    BY <1>6 DEF ShareChanges
  <2>2. CountOK' /\ count'.scans = count.scans
    BY <2>1 DEF CountOK, ScanInv
  <2>3. ScansOK' /\ LaterOff'
    BY <2>1, <2>2, DisturbedOK
  <2> QED BY <2>1, <2>2, <2>3, Kept DEF ScanInv
<1> QED BY <1>3, <1>4, <1>5, <1>6 DEF Outside

LEMMA EditorKeeps == ASSUME ScanInv, Editor PROVE ScanInv'
<1>1. ASSUME StatEdited PROVE ScanInv'
  <2>1. UNCHANGED <<file, rows, scan, writer, count>>
    BY <1>1 DEF StatEdited
  <2> QED BY <2>1, Kept DEF ScanInv, ScansOK, LaterOff
<1>2. ASSUME StoreTagEdits PROVE ScanInv'
  <2>1. UNCHANGED <<file, writer, count>> /\ scan' = Disturbed(scan, {})
    BY <1>2 DEF StoreTagEdits
  <2>2. ScansOK' /\ LaterOff'
    BY <2>1, DisturbedOK
  <2>3. RowsOK'
    BY <1>2 DEF StoreTagEdits, RowsOK, ScanInv
  <2> QED BY <2>1, <2>2, <2>3, Kept DEF ScanInv
<1>3. ASSUME NEW p \in Paths, NEW c, WriteTags(p, c) PROVE ScanInv'
  <2>1. /\ UNCHANGED <<rows, writer>> /\ scan' = Disturbed(scan, {})
        /\ count' = [count EXCEPT !.changes = @ + 1, !.stamp = @ + 1]
        /\ file' = [file EXCEPT ![p] = [stamp |-> count.stamp + 1, holds |-> c]]
    BY <1>3 DEF WriteTags
  <2>2. CountOK' /\ count'.scans = count.scans /\ count.stamp \in Nat
    BY <2>1 DEF CountOK, ScanInv
  <2>3. /\ FilesOK' /\ \A q \in Paths : file'[q] = NoFile => file[q] = NoFile
    BY <2>1, <2>2 DEF FilesOK, ScanInv, NoFile
  <2>4. ScansOK' /\ LaterOff'
    BY <2>1, <2>2, <2>3, DisturbedOK
  <2> QED BY <2>1, <2>2, <2>3, <2>4, Kept DEF ScanInv
<1> QED BY <1>1, <1>2, <1>3 DEF Editor

LEMMA NextKeeps == ASSUME ScanInv, [Next]_vars PROVE ScanInv'
<1>1. CASE UNCHANGED vars
  BY <1>1, Kept DEF vars, ScanInv, ScansOK, LaterOff
<1> QED BY <1>1, OutsideKeeps, BackendKeeps, EditorKeeps, ScannerKeeps, WriterKeeps DEF Next
----------------------------------------------------------------------------
(* What a step may take away.                                              *)

Justified(p) ==
  \E n \in Ids : \/ scan[n].pc = "purge" /\ RootOf[p] \in scan[n].purge
                 \/ Deletes(n) /\ p \in scan[n].missing

\* The steps that take the row at p away for good.
TakenAway(p) ==
  \E n \in Ids : \/ Purge(n) /\ p \in Under(scan[n].purge)
                 \/ DeleteRemaining(n) /\ p \in Remaining(n)

LEMMA IdStays ==
  ASSUME NEW p \in Paths, NEW q \in Paths, rows'[q].id = rows[p].id
  PROVE  ~Lost(p)
BY DEF Lost

LEMMA PurgeTakes ==
  ASSUME NEW n \in Ids, Purge(n), NEW p \in Paths, Lost(p)
  PROVE  TakenAway(p)
<1>1. p \notin Under(scan[n].purge) => rows'[p] = rows[p]
  BY DEF Purge
<1> QED BY <1>1, IdStays DEF TakenAway

LEMMA DeleteTakes ==
  ASSUME NEW n \in Ids, DeleteRemaining(n), NEW p \in Paths, Lost(p)
  PROVE  TakenAway(p)
<1>1. p \notin Remaining(n) => rows'[p] = rows[p]
  BY DEF DeleteRemaining
<1> QED BY <1>1, IdStays DEF TakenAway

\* Only the writer that deletes ends.
LEMMA DeleteEnds ==
  ASSUME ScanInv, NEW n \in Ids, DeleteRemaining(n)
  PROVE  Deletes(n) /\ \A m \in Ids : Deletes(m) => m = n
<1>1. ThreadsOK(scan[n], writer[n]) /\ DOMAIN writer = Ids
  BY DEF ScanInv, ScansOK
<1> DEFINE w == [writer[n] EXCEPT !.pc = "ended", !.inbox = Tail(@)]
<1>2. writer' = [writer EXCEPT ![n] = w]
  BY DEF DeleteRemaining, Write
<1>3. w.pc = "ended"
  BY <1>1 DEF ThreadsOK
<1> HIDE DEF w
<1>4. writer'[n].pc = "ended" /\ \A m \in Ids : m # n => writer'[m] = writer[m]
  BY <1>1, <1>2, <1>3
<1>5. \A m \in Ids : m # n => ~Deletes(m)
  BY <1>4 DEF Deletes
<1> QED BY <1>4, <1>5 DEF Deletes, DeleteRemaining, Receives

LEMMA TakenIsJustified ==
  ASSUME ScanInv, NEW p \in Paths, TakenAway(p)
  PROVE  Justified(p)
<1>1. ASSUME NEW n \in Ids, DeleteRemaining(n), p \in Remaining(n) PROVE Justified(p)
  <2>1. \A c \in writer[n].candidates : c.path \in scan[n].missing
    BY <1>1, Received DEF DeleteRemaining
  <2>2. p \in scan[n].missing
    BY <1>1, <2>1 DEF Remaining
  <2> QED BY <1>1, <2>2, DeleteEnds DEF Justified
<1>2. ASSUME NEW n \in Ids, Purge(n), p \in Under(scan[n].purge) PROVE Justified(p)
  BY <1>2 DEF Purge, Under, Justified
<1> QED BY <1>1, <1>2 DEF TakenAway

LEMMA WriterTakes ==
  ASSUME ScanInv, NEW n \in Ids, WriterStep(n), NEW p \in Paths, Lost(p)
  PROVE  TakenAway(p)
<1>1. RowsOK /\ Stored(p)
  BY DEF ScanInv, Lost
<1>2. ASSUME UNCHANGED rows PROVE FALSE
  BY <1>2, IdStays
<1>3. ASSUME UpsertTracks(n) PROVE FALSE
  <2> DEFINE fresh == writer[n].fresh
             new == {i \in fresh : ~Stored(i.path)}
             i == CHOOSE i \in fresh : i.path = p
  <2>1. CASE \E j \in fresh : j.path = p
    <3>1. i \in fresh /\ i.path = p
      BY <2>1
    <3>2. i \notin new
      BY <1>1, <3>1
    <3>3. rows'[p] = RowOf(i, rows[p].id)
      BY <1>3, <2>1, <3>2 DEF UpsertTracks
    <3> QED BY <3>3, IdStays DEF RowOf
  <2>2. CASE ~\E j \in fresh : j.path = p
    <3>1. rows'[p] = rows[p]
      BY <1>3, <2>2 DEF UpsertTracks
    <3> QED BY <3>1, IdStays
  <2> QED BY <2>1, <2>2
<1>4. ASSUME Receives(n, "tracks"), NEW item \in Message(n).items, UpdateTrack(n, item)
      PROVE  FALSE
  <2>1. rows'[p].id = rows[p].id
    BY <1>1, <1>4 DEF UpdateTrack, RowOf, RowsOK
  <2> QED BY <2>1, IdStays
<1>5. ASSUME Receives(n, "tracks"), NEW item \in Message(n).items, NEW c, MoveTrack(n, item, c)
      PROVE  FALSE
  <2>1. item.path \in Paths
    BY <1>5, ItemPath
  <2>2. CASE UNCHANGED rows
    BY <1>2, <2>2
  <2>3. CASE /\ Stored(c.path) /\ ~Stored(item.path)
             /\ rows' = MovedRow(c.path, item)
    <3>1. p # item.path /\ c.path # item.path
      BY <1>1, <2>3
    <3>2. CASE p = c.path
      <4>1. rows'[item.path].id = rows[p].id
        BY <1>1, <2>1, <2>3, <3>2 DEF MovedRow, RowOf, RowsOK
      <4> QED BY <2>1, <4>1, IdStays
    <3>3. CASE p # c.path
      <4>1. rows'[p] = rows[p]
        BY <1>1, <2>3, <3>1, <3>3 DEF MovedRow, RowsOK
      <4> QED BY <4>1, IdStays
    <3> QED BY <3>2, <3>3
  <2> QED BY <1>5, <2>2, <2>3 DEF MoveTrack
<1>6. LoadRows(n) \/ StoreFails(n) => UNCHANGED rows
  BY DEF LoadRows, StoreFails
<1>7. \A item : NotMoved(n, item) => UNCHANGED rows
  BY DEF NotMoved
<1> QED BY <1>2, <1>3, <1>4, <1>5, <1>6, <1>7, DeleteTakes DEF WriterStep

LEMMA ScannerTakes ==
  ASSUME NEW n \in Ids, Scanner(n), NEW p \in Paths, Lost(p)
  PROVE  TakenAway(p)
<1>1. Purge(n) \/ UNCHANGED rows
  <2>1. /\ SizeMtimeMap(n) => UNCHANGED rows
        /\ RootFails(n) => UNCHANGED rows
        /\ Classify(n) => UNCHANGED rows
        /\ SendFinish(n) => UNCHANGED rows
        /\ JoinWriter(n) => UNCHANGED rows
        /\ ScanFails(n) => UNCHANGED rows
    BY DEF SizeMtimeMap, RootFails, Classify, SendFinish, JoinWriter, ScanFails, Quietly, Step
  <2>2. \A r : WalkRoot(n, r) => UNCHANGED rows
    BY DEF WalkRoot, Quietly, Step
  <2>3. \A q, d : VisitEntry(n, q) \/ EntryFails(n, q) \/ DirFails(n, d) => UNCHANGED rows
    BY DEF VisitEntry, EntryFails, DirFails, Quietly, Step
  <2>4. \A q : ReadFile(n, q) \/ SkipUnreadable(n, q) => UNCHANGED rows
    BY DEF ReadFile, SkipUnreadable, Takes, Quietly, Step
  <2> QED BY <2>1, <2>2, <2>3, <2>4 DEF Scanner
<1>2. ~UNCHANGED rows
  BY IdStays
<1> QED BY <1>1, <1>2, PurgeTakes

LEMMA OthersTakeNothing ==
  ASSUME ScanInv, NEW p \in Paths, Outside \/ Backend \/ Editor \/ UNCHANGED vars
  PROVE  ~Lost(p)
<1>1. ASSUME StoreTagEdits PROVE rows'[p].id = rows[p].id
  BY <1>1 DEF StoreTagEdits, ScanInv, RowsOK
<1>2. Outside => UNCHANGED rows
  BY DEF Outside, OtherWrites, OtherRemoves, OtherRenames, ShareChanges, Change
<1>3. Backend => UNCHANGED rows
  BY DEF Backend, Rescan, RemoveFolder, AddFolder, WatcherAsks, BeginScan, CancelScan
<1>4. Editor => StoreTagEdits \/ UNCHANGED rows
  BY DEF Editor, StatEdited, WriteTags
<1>5. UNCHANGED vars => UNCHANGED rows
  BY DEF vars
<1> QED BY <1>1, <1>2, <1>3, <1>4, <1>5, IdStays

LEMMA LostIsTaken ==
  ASSUME ScanInv, [Next]_vars, NEW p \in Paths, Lost(p)
  PROVE  TakenAway(p)
BY ScannerTakes, WriterTakes, OthersTakeNothing DEF Next

\* A scan takes a row away only if its folder was removed, or if at some moment
\* since the scan began there was no file at its path (scanner/mod.rs:88) or the
\* walk could not read the file's metadata (walk.rs:107).
THEOREM DeletesOnlyMissing == Spec => DeletedWasMissing
<1>1. ScanInv /\ [Next]_vars => [\A p \in Paths : Lost(p) => Justified(p)]_vars
  BY LostIsTaken, TakenIsJustified
<1>2. ScanInv /\ [Next]_vars => ScanInv'
  BY NextKeeps
<1>3. (\A p \in Paths : Lost(p) => Justified(p))
      <=> (\A p \in Paths : Lost(p) =>
             \E n \in Ids : \/ scan[n].pc = "purge" /\ RootOf[p] \in scan[n].purge
                            \/ Deletes(n) /\ p \in scan[n].missing)
  BY DEF Justified
<1> QED BY <1>1, <1>2, <1>3, ScanInit, PTL DEF Spec, DeletedWasMissing

----------------------------------------------------------------------------
(* What is stored and what is on its way to the store has a stamp.         *)

Carried(m) == IF m.type = "tracks" THEN m.items ELSE {}

RowsStamped(R) == \A p \in Paths : R[p].stamp = 0 => R[p] = NoRow

\* The items the batch B, the rows F yet to be inserted and the inbox q hold.
ItemsStamped(q, B, F) ==
  /\ \A x \in B \cup F : x.stamp # 0
  /\ \A i \in DOMAIN q : \A x \in Carried(q[i]) : x.stamp # 0

StampedOK(s, w) ==
  /\ s.pc \notin {"read", "join"} => w = Unstarted
  /\ s.pc = "read" => \A p \in s.pending : s.seen[p] # 0
  /\ ItemsStamped(w.inbox, s.batch, w.fresh)
  /\ s.roots \subseteq Roots

EditOK ==
  /\ DOMAIN edit = {"pc", "path", "tags", "stamp"}
  /\ edit.pc # "idle" => edit.path \in Paths
  /\ edit.pc = "store" => edit.stamp # 0

StampsOK ==
  /\ RowsStamped(rows) /\ EditOK /\ config \subseteq Roots
  /\ \A n \in Ids : StampedOK(scan[n], writer[n])

LEMMA AppendAt ==
  ASSUME NEW q, NEW M, InboxOK(q, M), NEW m
  PROVE  /\ DOMAIN q \subseteq DOMAIN Append(q, m) /\ DOMAIN q = 1..Len(q) /\ Len(q) \in Nat
         /\ \A i \in DOMAIN q : Append(q, m)[i] = q[i]
         /\ DOMAIN Append(q, m) = DOMAIN q \cup {Len(q) + 1} /\ Len(q) + 1 \notin DOMAIN q
         /\ Append(q, m)[Len(q) + 1] = m /\ Len(Append(q, m)) = Len(q) + 1
<1>1. PICK S : q \in Seq(S)
  BY DEF InboxOK
<1>2. q \in Seq(S \cup {m}) /\ m \in S \cup {m}
  BY <1>1, SeqMonotonic
<1>3. /\ Append(q, m) \in Seq(S \cup {m})
      /\ Len(Append(q, m)) = Len(q) + 1
      /\ \A i \in 1..Len(q) : Append(q, m)[i] = q[i]
      /\ Append(q, m)[Len(q) + 1] = m
  BY <1>2, AppendProperties
<1>4. DOMAIN q = 1..Len(q) /\ DOMAIN Append(q, m) = 1..(Len(q) + 1) /\ Len(q) \in Nat
  BY <1>1, <1>3, LenProperties
<1> QED BY <1>3, <1>4

LEMMA TailAt ==
  ASSUME NEW q, NEW M, InboxOK(q, M), q # <<>>
  PROVE  /\ \A i \in DOMAIN Tail(q) :
              i \in Nat /\ i + 1 \in DOMAIN q /\ i + 1 # 1 /\ Tail(q)[i] = q[i + 1]
         /\ \A i \in DOMAIN q : i = 1 \/ (i - 1 \in DOMAIN Tail(q) /\ Tail(q)[i - 1] = q[i])
         /\ Len(Tail(q)) = Len(q) - 1 /\ Len(q) \in Nat /\ DOMAIN q = 1..Len(q)
         /\ 1 \in DOMAIN q
<1>1. PICK S : q \in Seq(S)
  BY DEF InboxOK
<1>2. /\ Tail(q) \in Seq(S) /\ Len(Tail(q)) = Len(q) - 1
      /\ \A i \in 1..Len(Tail(q)) : Tail(q)[i] = q[i + 1]
  BY <1>1, HeadTailProperties
<1>3. DOMAIN q = 1..Len(q) /\ DOMAIN Tail(q) = 1..Len(Tail(q)) /\ Len(q) \in Nat /\ Len(q) # 0
  BY <1>1, <1>2, LenProperties, EmptySeq
<1>4. \A i \in DOMAIN q : i = 1 \/ (i - 1 \in DOMAIN Tail(q) /\ (i - 1) + 1 = i)
  BY <1>2, <1>3
<1> QED BY <1>2, <1>3, <1>4

\* The inbox with an item taken from its first message.
Without(q, x) == [q EXCEPT ![1].items = @ \ {x}]

LEMMA WithoutAt ==
  ASSUME NEW q, NEW M, InboxOK(q, M), q # <<>>, q[1].type = "tracks", NEW x
  PROVE  /\ DOMAIN Without(q, x) = DOMAIN q /\ 1 \in DOMAIN q /\ Without(q, x) # <<>>
         /\ Carried(q[1]) = q[1].items
         /\ Carried(Without(q, x)[1]) = Carried(q[1]) \ {x}
         /\ Without(q, x)[1].type = "tracks"
         /\ \A i \in DOMAIN q : i # 1 => Without(q, x)[i] = q[i]
         /\ Len(Without(q, x)) = Len(q)
<1>1. MessageOK(q[1], M) /\ 1 \in DOMAIN q
  BY TailInbox
<1>2. Without(q, x)[1] = [q[1] EXCEPT !.items = @ \ {x}]
  BY <1>1 DEF Without
<1>3. Without(q, x)[1].items = q[1].items \ {x} /\ Without(q, x)[1].type = "tracks"
  BY <1>1, <1>2 DEF MessageOK
<1>4. DOMAIN Without(q, x) = DOMAIN q /\ \A i \in DOMAIN q : i # 1 => Without(q, x)[i] = q[i]
  BY DEF Without
<1>5. Without(q, x) # <<>>
  BY <1>1, <1>4
<1>6. Len(Without(q, x)) = Len(q)
  <2>1. PICK S : q \in Seq(S)
    BY DEF InboxOK
  <2>2. Len(q) \in Nat /\ DOMAIN q = 1..Len(q)
    BY <2>1, LenProperties
  <2> QED BY <1>4, <2>2
<1> QED BY <1>1, <1>3, <1>4, <1>5, <1>6 DEF Carried

LEMMA StampedAppended ==
  ASSUME NEW q, NEW M, InboxOK(q, M), NEW B, NEW F, ItemsStamped(q, B, F),
         NEW m, Carried(m) \subseteq B
  PROVE  ItemsStamped(Append(q, m), {}, F)
BY AppendAt DEF ItemsStamped

LEMMA StampedTail ==
  ASSUME NEW q, NEW M, InboxOK(q, M), q # <<>>, NEW B, NEW F, ItemsStamped(q, B, F)
  PROVE  ItemsStamped(Tail(q), B, F)
BY TailAt DEF ItemsStamped

LEMMA StampedWithout ==
  ASSUME NEW q, NEW M, InboxOK(q, M), q # <<>>, q[1].type = "tracks",
         NEW B, NEW F, ItemsStamped(q, B, F), NEW x \in q[1].items
  PROVE  ItemsStamped(Without(q, x), B, F) /\ ItemsStamped(Without(q, x), B, F \cup {x}) /\ x.stamp # 0
<1>0. /\ DOMAIN Without(q, x) = DOMAIN q /\ 1 \in DOMAIN q
      /\ Carried(q[1]) = q[1].items
      /\ Carried(Without(q, x)[1]) = Carried(q[1]) \ {x}
      /\ \A i \in DOMAIN q : i # 1 => Without(q, x)[i] = q[i]
  BY WithoutAt
<1>1. x.stamp # 0
  BY <1>0 DEF ItemsStamped
<1>2. ItemsStamped(Without(q, x), B, F)
  BY <1>0 DEF ItemsStamped
<1> QED BY <1>1, <1>2 DEF ItemsStamped

\* Scan n, or its writer, takes a step.
LEMMA StampsStep ==
  ASSUME ScanInv, StampsOK, NEW n \in Ids, NEW s, NEW w,
         Set(scan, scan', n, s), Set(writer, writer', n, w),
         UNCHANGED <<edit, config>>, RowsStamped(rows'), StampedOK(s, w)
  PROVE  StampsOK'
<1>1. scan'[n] = s /\ writer'[n] = w
  BY DEF ScanInv, ScansOK, Set
<1>2. \A m \in Ids : m # n => scan'[m] = scan[m] /\ writer'[m] = writer[m]
  BY DEF ScanInv, ScansOK, Set
<1>3. \A m \in Ids : StampedOK(scan'[m], writer'[m])
  BY <1>1, <1>2 DEF StampsOK
<1>4. EditOK'
  BY DEF EditOK, StampsOK
<1> QED BY <1>3, <1>4 DEF StampsOK

\* A step of the scan's own thread that leaves rows and inbox alone.
LEMMA StampsQuietly ==
  ASSUME ScanInv, StampsOK, NEW n \in Ids, NEW s, Quietly(n, s),
         StampedOK(s, writer[n])
  PROVE  StampsOK'
<1>1. /\ Set(scan, scan', n, s) /\ Set(writer, writer', n, writer[n])
      /\ UNCHANGED <<rows, edit, config>>
  BY DEF Quietly, Step, Set
<1>2. RowsStamped(rows')
  BY <1>1 DEF StampsOK
<1> QED BY <1>1, <1>2, StampsStep

\* What the walk changes.
LEMMA StampedWalk ==
  ASSUME NEW s, NEW t, NEW w, StampedOK(s, w), s.pc \in {"purge", "load", "walk"},
         t.pc \notin {"read", "join"}, t.batch = s.batch, t.roots = s.roots
  PROVE  StampedOK(t, w)
BY DEF StampedOK

LEMMA Fields == 
  ASSUME ScanInv, StampsOK, NEW n \in Ids
  PROVE  /\ DOMAIN scan[n] = ScanFields /\ DOMAIN scan[n].seen = Paths
         /\ DOMAIN writer[n] = {"pc", "inbox", "candidates", "fresh", "robbed"}
         /\ InboxOK(writer[n].inbox, scan[n].missing)
         /\ StampedOK(scan[n], writer[n])
         /\ n \in DOMAIN scan /\ n \in DOMAIN writer
         /\ ThreadsOK(scan[n], writer[n])
BY DEF ScanInv, ScansOK, ThreadsOK, StampsOK

LEMMA PurgeStamps == ASSUME ScanInv, StampsOK, NEW n \in Ids, Purge(n) PROVE StampsOK'
<1> DEFINE s == [scan[n] EXCEPT !.pc = IF scan[n].roots = {} THEN "done" ELSE "load"]
<1>1. DOMAIN scan[n] = ScanFields /\ StampedOK(scan[n], writer[n]) /\ n \in DOMAIN scan
  BY Fields
<1>2. /\ scan[n].pc = "purge" /\ Set(scan, scan', n, s) /\ Set(writer, writer', n, writer[n])
      /\ UNCHANGED <<edit, config>>
  BY DEF Purge, Set
<1>3. s.pc \in {"done", "load"} /\ s.batch = scan[n].batch /\ s.roots = scan[n].roots
  BY <1>1 DEF ScanFields
<1> HIDE DEF s
<1>4. StampedOK(s, writer[n])
  BY <1>1, <1>2, <1>3, StampedWalk
<1>5. RowsStamped(rows')
  BY DEF Purge, RowsStamped, StampsOK
<1> QED BY <1>2, <1>4, <1>5, StampsStep

LEMMA LoadStamps == ASSUME ScanInv, StampsOK, NEW n \in Ids, SizeMtimeMap(n) PROVE StampsOK'
<1> DEFINE K == [p \in Paths |-> rows[p].stamp]
           s == [scan[n] EXCEPT !.pc = "walk", !.left = scan[n].roots, !.known = K]
<1>1. DOMAIN scan[n] = ScanFields /\ StampedOK(scan[n], writer[n]) /\ n \in DOMAIN scan
  BY Fields
<1>2. scan[n].pc = "load" /\ Quietly(n, s)
  BY DEF SizeMtimeMap
<1>3. s.pc = "walk" /\ s.batch = scan[n].batch /\ s.roots = scan[n].roots
  BY <1>1 DEF ScanFields
<1> HIDE DEF s
<1>4. StampedOK(s, writer[n])
  BY <1>1, <1>2, <1>3, StampedWalk
<1> QED BY <1>2, <1>4, StampsQuietly

LEMMA WalkedRoots == ASSUME NEW s, DOMAIN s = ScanFields
                     PROVE Walked(s).roots = s.roots /\ Walked(s).taken = s.taken
                           /\ Walked(s).calm = s.calm
BY DEF Walked, ScanFields

LEMMA WalkStamps ==
  ASSUME ScanInv, StampsOK, NEW n \in Ids,
         \/ RootFails(n) \/ \E r : WalkRoot(n, r) \/ \E p : VisitEntry(n, p)
  PROVE  StampsOK'
<1>1. DOMAIN scan[n] = ScanFields /\ StampedOK(scan[n], writer[n]) /\ n \in DOMAIN scan
  BY Fields
<1>2. ASSUME NEW t, scan[n].pc = "walk", Quietly(n, t),
             t.pc = scan[n].pc, t.batch = scan[n].batch, t.roots = scan[n].roots
      PROVE  StampsOK'
  <2>1. StampedOK(t, writer[n])
    BY <1>1, <1>2, StampedWalk
  <2> QED BY <1>2, <2>1, StampsQuietly
<1>3. ASSUME RootFails(n) PROVE StampsOK'
  <2> DEFINE t == [scan[n] EXCEPT !.at = NoRoot, !.todo = {}]
  <2>1. scan[n].pc = "walk" /\ Quietly(n, t)
    BY <1>3 DEF RootFails, Walking
  <2>2. t.pc = scan[n].pc /\ t.batch = scan[n].batch /\ t.roots = scan[n].roots
    BY <1>1 DEF ScanFields
  <2> HIDE DEF t
  <2> QED BY <1>2, <2>1, <2>2
<1>4. ASSUME NEW p, VisitEntry(n, p) PROVE StampsOK'
  <2> DEFINE t == Found(scan[n], p)
  <2>1. scan[n].pc = "walk" /\ Quietly(n, t)
    BY <1>4 DEF VisitEntry, Walking
  <2>2. t.pc = scan[n].pc /\ t.batch = scan[n].batch /\ t.roots = scan[n].roots
    BY <1>1 DEF ScanFields, Found
  <2> HIDE DEF t
  <2> QED BY <1>2, <2>1, <2>2
<1>5. ASSUME NEW r, WalkRoot(n, r) PROVE StampsOK'
  <2> DEFINE v == Walked(scan[n])
             t == [v EXCEPT !.left = @ \ {r}, !.calm = FALSE]
             u == [v EXCEPT !.left = @ \ {r}, !.at = r, !.todo = Under({r})]
  <2>1. DOMAIN v = ScanFields /\ v.pc = scan[n].pc /\ v.batch = scan[n].batch
        /\ v.roots = scan[n].roots
    BY <1>1, WalkedFields, WalkedRoots
  <2>2. scan[n].pc = "walk" /\ (Quietly(n, t) \/ Quietly(n, u))
    BY <1>5, <2>1 DEF WalkRoot
  <2> HIDE DEF v
  <2>3. t.pc = scan[n].pc /\ t.batch = scan[n].batch /\ t.roots = scan[n].roots
    BY <2>1 DEF ScanFields
  <2>4. u.pc = scan[n].pc /\ u.batch = scan[n].batch /\ u.roots = scan[n].roots
    BY <2>1 DEF ScanFields
  <2> HIDE DEF t, u
  <2> QED BY <1>2, <2>2, <2>3, <2>4
<1> QED BY <1>3, <1>4, <1>5

LEMMA ScanFailsStamps ==
  ASSUME ScanInv, StampsOK, NEW n \in Ids, ScanFails(n) PROVE StampsOK'
<1> DEFINE t == [scan[n] EXCEPT !.pc = "done", !.calm = FALSE]
<1>1. DOMAIN scan[n] = ScanFields /\ StampedOK(scan[n], writer[n]) /\ n \in DOMAIN scan
  BY Fields
<1>2. /\ scan[n].pc \in {"purge", "load"} /\ Set(scan, scan', n, t)
      /\ Set(writer, writer', n, writer[n]) /\ UNCHANGED <<rows, edit, config>>
  BY DEF ScanFails, Set
<1>3. t.pc = "done" /\ t.batch = scan[n].batch /\ t.roots = scan[n].roots
  BY <1>1 DEF ScanFields
<1> HIDE DEF t
<1>4. StampedOK(t, writer[n])
  BY <1>1, <1>2, <1>3, StampedWalk
<1>5. RowsStamped(rows')
  BY <1>2 DEF StampsOK
<1> QED BY <1>2, <1>4, <1>5, StampsStep

LEMMA EntryFailsStamps ==
  ASSUME ScanInv, StampsOK, NEW n \in Ids, NEW p, EntryFails(n, p) PROVE StampsOK'
<1>1. DOMAIN scan[n] = ScanFields /\ StampedOK(scan[n], writer[n]) /\ n \in DOMAIN scan
  BY Fields
<1> DEFINE t == PassedOver(scan[n], p)
<1>2. /\ scan[n].pc = "walk" /\ Set(scan, scan', n, t) /\ Set(writer, writer', n, writer[n])
      /\ UNCHANGED <<rows, edit, config>>
  BY DEF EntryFails, Walking, Set
<1>3. t.pc = scan[n].pc /\ t.batch = scan[n].batch /\ t.roots = scan[n].roots
  BY <1>1 DEF ScanFields, PassedOver
<1> HIDE DEF t
<1>4. StampedOK(t, writer[n])
  BY <1>1, <1>2, <1>3, StampedWalk
<1>5. RowsStamped(rows')
  BY <1>2 DEF StampsOK
<1> QED BY <1>2, <1>4, <1>5, StampsStep

LEMMA DirFailsStamps ==
  ASSUME ScanInv, StampsOK, NEW n \in Ids, NEW d, DirFails(n, d) PROVE StampsOK'
<1>1. DOMAIN scan[n] = ScanFields /\ StampedOK(scan[n], writer[n]) /\ n \in DOMAIN scan
  BY Fields
<1> DEFINE t == Unlisted(scan[n], d)
<1>2. /\ scan[n].pc = "walk" /\ Set(scan, scan', n, t) /\ Set(writer, writer', n, writer[n])
      /\ UNCHANGED <<rows, edit, config>>
  BY DEF DirFails, Walking, Set
<1>3. t.pc = scan[n].pc /\ t.batch = scan[n].batch /\ t.roots = scan[n].roots
  BY <1>1 DEF ScanFields, Unlisted
<1> HIDE DEF t
<1>4. StampedOK(t, writer[n])
  BY <1>1, <1>2, <1>3, StampedWalk
<1>5. RowsStamped(rows')
  BY <1>2 DEF StampsOK
<1> QED BY <1>2, <1>4, <1>5, StampsStep

\* What the thread of scan n is when it has classified the files.
Classified(s) ==
  LET v == Walked(s)
      pending == ClassifyFiles(v) IN
  [v EXCEPT !.pc = "read", !.left = {}, !.todo = {}, !.walked = {}, !.failed = {},
            !.pending = pending, !.known = Only(pending, @), !.seen = Only(pending, @)]

LEMMA ClassifiedFields ==
  ASSUME NEW s, DOMAIN s = ScanFields
  PROVE  /\ DOMAIN Classified(s) = ScanFields /\ Classified(s).pc = "read"
         /\ Classified(s).pending = ClassifyFiles(Walked(s))
         /\ Classified(s).known = Only(ClassifyFiles(Walked(s)), s.known)
         /\ Classified(s).seen = Only(ClassifyFiles(Walked(s)), s.seen)
         /\ Classified(s).batch = s.batch /\ Classified(s).roots = s.roots
         /\ Classified(s).taken = s.taken /\ Classified(s).calm = s.calm
         /\ Classified(s).cancelled = s.cancelled
<1> DEFINE v == Walked(s)
           pending == ClassifyFiles(v)
<1>1. /\ DOMAIN v = ScanFields /\ v.seen = s.seen /\ v.known = s.known /\ v.batch = s.batch
      /\ v.roots = s.roots /\ v.taken = s.taken /\ v.calm = s.calm /\ v.cancelled = s.cancelled
  BY WalkedFields, WalkedRoots
<1> DEFINE t == [v EXCEPT !.pc = "read", !.left = {}, !.todo = {}, !.walked = {}, !.failed = {},
            !.pending = pending, !.known = Only(pending, @), !.seen = Only(pending, @)]
<1>2. Classified(s) = t
  BY DEF Classified
<1> HIDE DEF pending, v
<1>3. /\ DOMAIN t = ScanFields /\ t.pc = "read" /\ t.pending = pending
      /\ t.known = Only(pending, v.known) /\ t.seen = Only(pending, v.seen)
      /\ t.batch = v.batch /\ t.roots = v.roots /\ t.taken = v.taken /\ t.calm = v.calm
      /\ t.cancelled = v.cancelled
  BY <1>1 DEF ScanFields
<1> HIDE DEF t
<1> QED BY <1>1, <1>2, <1>3 DEF pending, v

LEMMA ClassifyStep ==
  ASSUME ScanInv, StampsOK, NEW n \in Ids, Classify(n)
  PROVE  \E w :
           /\ scan[n].pc = "walk" /\ (scan[n].cancelled \/ scan[n].todo \cup scan[n].left = {})
           /\ Step(n, Classified(scan[n])) /\ writer' = [writer EXCEPT ![n] = w]
           /\ DOMAIN w = {"pc", "inbox", "candidates", "fresh", "robbed"} /\ w.pc = "idle"
           /\ w.candidates = {} /\ w.fresh = {} /\ w.robbed = {}
           /\ w.inbox = IF VanishedRows(Walked(scan[n])) = {} THEN <<>>
                        ELSE <<Vanished(VanishedRows(Walked(scan[n])))>>
<1> DEFINE v == Walked(scan[n])
           vanished == VanishedRows(v)
           b == IF vanished = {} THEN <<>> ELSE <<Vanished(vanished)>>
           w == [writer[n] EXCEPT !.pc = "idle", !.inbox = b]
<1>1. DOMAIN scan[n] = ScanFields /\ StampedOK(scan[n], writer[n])
  BY Fields
<1>2. v.pc = scan[n].pc /\ v.cancelled = scan[n].cancelled
      /\ v.todo = scan[n].todo /\ v.left = scan[n].left
  BY <1>1, WalkedFields
<1>3. /\ scan[n].pc = "walk" /\ (scan[n].cancelled \/ scan[n].todo \cup scan[n].left = {})
      /\ Step(n, Classified(scan[n]))
      /\ writer' = [writer EXCEPT ![n].pc = "idle", ![n].inbox = b]
  BY <1>2 DEF Classify, Classified
<1> HIDE DEF b
<1>4. writer' = [writer EXCEPT ![n] = w]
  BY <1>3
<1>5. writer[n] = Unstarted
  BY <1>1, <1>3 DEF StampedOK
<1>6. /\ DOMAIN w = {"pc", "inbox", "candidates", "fresh", "robbed"} /\ w.pc = "idle" /\ w.inbox = b
      /\ w.candidates = {} /\ w.fresh = {} /\ w.robbed = {}
  BY <1>5 DEF Unstarted
<1> HIDE DEF w
<1> QED BY <1>3, <1>4, <1>6 DEF b

LEMMA VanishedInbox ==
  ASSUME NEW V, NEW q, q = IF V = {} THEN <<>> ELSE <<Vanished(V)>>
  PROVE  \A i \in DOMAIN q : i = 1 /\ q[i] = Vanished(V) /\ Carried(q[i]) = {}
<1>1. DOMAIN <<>> = {} /\ DOMAIN <<Vanished(V)>> = {1} /\ <<Vanished(V)>>[1] = Vanished(V)
  OBVIOUS
<1>2. Carried(Vanished(V)) = {}
  BY DEF Carried, Vanished
<1> QED BY <1>1, <1>2

LEMMA ClassifyStamps == ASSUME ScanInv, StampsOK, NEW n \in Ids, Classify(n) PROVE StampsOK'
<1> DEFINE s == Classified(scan[n])
<1>1. DOMAIN scan[n] = ScanFields /\ StampedOK(scan[n], writer[n])
  BY Fields
<1>2. PICK w :
           /\ scan[n].pc = "walk" /\ Step(n, s) /\ writer' = [writer EXCEPT ![n] = w]
           /\ w.fresh = {}
           /\ w.inbox = IF VanishedRows(Walked(scan[n])) = {} THEN <<>>
                        ELSE <<Vanished(VanishedRows(Walked(scan[n])))>>
  BY ClassifyStep
<1>3. /\ s.pc = "read" /\ s.pending = ClassifyFiles(Walked(scan[n]))
      /\ s.seen = Only(s.pending, scan[n].seen)
      /\ s.batch = scan[n].batch /\ s.roots = scan[n].roots
      /\ Walked(scan[n]).seen = scan[n].seen
  BY <1>1, ClassifiedFields, WalkedFields
<1> HIDE DEF s
<1>4. \A p \in s.pending : s.seen[p] # 0
  BY <1>3 DEF ClassifyFiles, Only
<1>5. ItemsStamped(w.inbox, s.batch, w.fresh)
  <2>1. \A i \in DOMAIN w.inbox : Carried(w.inbox[i]) = {}
    BY <1>2, VanishedInbox
  <2> QED BY <1>1, <1>2, <1>3, <2>1 DEF StampedOK, ItemsStamped
<1>6. StampedOK(s, w)
  BY <1>1, <1>3, <1>4, <1>5 DEF StampedOK
<1>7. /\ Set(scan, scan', n, s) /\ Set(writer, writer', n, w) /\ UNCHANGED <<rows, edit, config>>
  BY <1>2 DEF Step, Set
<1>8. RowsStamped(rows')
  BY <1>7 DEF StampsOK
<1> QED BY <1>6, <1>7, <1>8, StampsStep

\* The writer of scan n when a message has come to its inbox.
LEMMA SendStep ==
  ASSUME ScanInv, StampsOK, NEW n \in Ids, NEW m, Send(n, m)
  PROVE  \E w :
           /\ writer' = [writer EXCEPT ![n] = w] /\ w.pc = writer[n].pc
           /\ w.candidates = writer[n].candidates /\ w.fresh = writer[n].fresh
           /\ w.robbed = writer[n].robbed
           /\ w.inbox = IF writer[n].pc = "failed" THEN <<>> ELSE Append(writer[n].inbox, m)
<1>1. DOMAIN writer[n] = {"pc", "inbox", "candidates", "fresh", "robbed"} /\ n \in DOMAIN writer
  BY Fields
<1> DEFINE b == IF writer[n].pc = "failed" THEN <<>> ELSE Append(writer[n].inbox, m)
           w == [writer[n] EXCEPT !.inbox = b]
<1>2. writer' = [writer EXCEPT ![n] = w]
  BY DEF Send
<1> HIDE DEF b
<1>3. /\ w.pc = writer[n].pc /\ w.inbox = b
      /\ w.candidates = writer[n].candidates /\ w.fresh = writer[n].fresh
      /\ w.robbed = writer[n].robbed
  BY <1>1
<1> HIDE DEF w
<1> QED BY <1>2, <1>3 DEF b

\* What the thread has become when it has taken a file.
Emptied(s) == [s EXCEPT !.taken = 0, !.batch = {}]

LEMMA EmptiedFields ==
  ASSUME NEW s, DOMAIN s = ScanFields
  PROVE  /\ DOMAIN Emptied(s) = ScanFields /\ Emptied(s).pc = s.pc /\ Emptied(s).taken = 0
         /\ Emptied(s).batch = {} /\ Emptied(s).pending = s.pending /\ Emptied(s).seen = s.seen
         /\ Emptied(s).known = s.known /\ Emptied(s).roots = s.roots
         /\ Emptied(s).cancelled = s.cancelled /\ Emptied(s).calm = s.calm
BY DEF Emptied, ScanFields

LEMMA TakesStamps ==
  ASSUME ScanInv, StampsOK, NEW n \in Ids, NEW s, scan[n].pc = "read", Takes(n, s),
         DOMAIN s = ScanFields, s.pc = "read", s.seen = scan[n].seen,
         s.pending \subseteq scan[n].pending, s.roots = scan[n].roots,
         \A x \in s.batch : x \in scan[n].batch \/ x.stamp # 0
  PROVE  StampsOK'
<1>1. /\ InboxOK(writer[n].inbox, scan[n].missing) /\ StampedOK(scan[n], writer[n])
  BY Fields
<1>2. ItemsStamped(writer[n].inbox, s.batch, writer[n].fresh)
  BY <1>1 DEF StampedOK, ItemsStamped
<1>3. \A p \in s.pending : s.seen[p] # 0
  BY <1>1 DEF StampedOK
<1>4. s.roots \subseteq Roots
  BY <1>1 DEF StampedOK
<1>5. CASE IsFull(s)
  <2> DEFINE t == Emptied(s)
  <2>1. Step(n, t) /\ Send(n, Tracks(s.batch))
    BY <1>5 DEF Takes, Emptied
  <2>2. PICK w : /\ writer' = [writer EXCEPT ![n] = w] /\ w.fresh = writer[n].fresh
                 /\ w.inbox = IF writer[n].pc = "failed" THEN <<>>
                              ELSE Append(writer[n].inbox, Tracks(s.batch))
    BY <2>1, SendStep
  <2>3. ItemsStamped(w.inbox, {}, w.fresh)
    <3>1. Carried(Tracks(s.batch)) = s.batch
      BY DEF Carried, Tracks
    <3>2. ItemsStamped(Append(writer[n].inbox, Tracks(s.batch)), {}, writer[n].fresh)
      BY <1>1, <1>2, <3>1, StampedAppended
    <3>3. ItemsStamped(<<>>, {}, writer[n].fresh)
      BY <1>2 DEF ItemsStamped
    <3> QED BY <2>2, <3>2, <3>3
  <2>4. /\ t.pc = "read" /\ t.batch = {} /\ t.pending = s.pending /\ t.seen = s.seen
        /\ t.roots = s.roots
    BY EmptiedFields
  <2>5. /\ Set(scan, scan', n, t) /\ Set(writer, writer', n, w) /\ UNCHANGED <<rows, edit, config>>
    BY <2>1, <2>2 DEF Step, Set
  <2> HIDE DEF t
  <2>6. StampedOK(t, w)
    BY <1>3, <1>4, <2>3, <2>4 DEF StampedOK
  <2>7. RowsStamped(rows')
    BY <2>5 DEF StampsOK
  <2> QED BY <2>5, <2>6, <2>7, StampsStep
<1>6. CASE ~IsFull(s)
  <2>1. StampedOK(s, writer[n])
    BY <1>2, <1>3, <1>4 DEF StampedOK
  <2> QED BY <1>6, <2>1, StampsQuietly DEF Takes
<1> QED BY <1>5, <1>6

Taken(s, p) ==
  [s EXCEPT !.pending = @ \ {p}, !.taken = @ + 1, !.batch = @ \cup {Read(s, p)}]
Skipped(s, p) == [s EXCEPT !.pending = @ \ {p}, !.taken = @ + 1, !.calm = FALSE]

LEMMA TakenFields ==
  ASSUME NEW s, DOMAIN s = ScanFields, NEW p
  PROVE  /\ DOMAIN Taken(s, p) = ScanFields /\ Taken(s, p).pc = s.pc
         /\ Taken(s, p).pending = s.pending \ {p} /\ Taken(s, p).taken = s.taken + 1
         /\ Taken(s, p).batch = s.batch \cup {Read(s, p)} /\ Taken(s, p).seen = s.seen
         /\ Taken(s, p).known = s.known /\ Taken(s, p).roots = s.roots
         /\ Taken(s, p).cancelled = s.cancelled /\ Taken(s, p).calm = s.calm
<1> DEFINE r == Read(s, p)
           t == [s EXCEPT !.pending = @ \ {p}, !.taken = @ + 1, !.batch = @ \cup {r}]
<1>1. Taken(s, p) = t
  BY DEF Taken
<1> HIDE DEF r
<1>2. /\ DOMAIN t = ScanFields /\ t.pc = s.pc
      /\ t.pending = s.pending \ {p} /\ t.taken = s.taken + 1
      /\ t.batch = s.batch \cup {r} /\ t.seen = s.seen
      /\ t.known = s.known /\ t.roots = s.roots
      /\ t.cancelled = s.cancelled /\ t.calm = s.calm
  BY DEF ScanFields
<1> HIDE DEF t
<1> QED BY <1>1, <1>2 DEF r

LEMMA SkippedFields ==
  ASSUME NEW s, DOMAIN s = ScanFields, NEW p
  PROVE  /\ DOMAIN Skipped(s, p) = ScanFields /\ Skipped(s, p).pc = s.pc
         /\ Skipped(s, p).pending = s.pending \ {p} /\ Skipped(s, p).calm = FALSE
         /\ Skipped(s, p).batch = s.batch /\ Skipped(s, p).seen = s.seen
         /\ Skipped(s, p).roots = s.roots
BY DEF Skipped, ScanFields

LEMMA ReadStamps ==
  ASSUME ScanInv, StampsOK, NEW n \in Ids, NEW p, ReadFile(n, p) \/ SkipUnreadable(n, p)
  PROVE  StampsOK'
<1> DEFINE s == Taken(scan[n], p)
           t == Skipped(scan[n], p)
<1>1. DOMAIN scan[n] = ScanFields /\ StampedOK(scan[n], writer[n])
  BY Fields
<1>2. /\ scan[n].pc = "read" /\ p \in scan[n].pending
      /\ Takes(n, s) \/ Takes(n, t)
  BY DEF ReadFile, SkipUnreadable, MayRead, Taken, Skipped
<1>3. Read(scan[n], p).stamp # 0
  BY <1>1, <1>2 DEF Read, StampedOK
<1>4. /\ DOMAIN s = ScanFields /\ s.pc = "read" /\ s.seen = scan[n].seen
      /\ s.pending \subseteq scan[n].pending /\ s.roots = scan[n].roots
      /\ s.batch = scan[n].batch \cup {Read(scan[n], p)}
  BY <1>1, <1>2, TakenFields
<1>5. /\ DOMAIN t = ScanFields /\ t.pc = "read" /\ t.seen = scan[n].seen
      /\ t.pending \subseteq scan[n].pending /\ t.roots = scan[n].roots
      /\ t.batch = scan[n].batch
  BY <1>1, <1>2, SkippedFields
<1> HIDE DEF s, t
<1>6. \A x \in s.batch : x \in scan[n].batch \/ x.stamp # 0
  BY <1>3, <1>4
<1>7. \A x \in t.batch : x \in scan[n].batch \/ x.stamp # 0
  BY <1>5
<1>8. CASE Takes(n, s)
  BY <1>2, <1>4, <1>6, <1>8, TakesStamps
<1>9. CASE Takes(n, t)
  BY <1>2, <1>5, <1>7, <1>9, TakesStamps
<1> QED BY <1>2, <1>8, <1>9

LEMMA JoiningFields ==
  ASSUME NEW s, NEW t, DOMAIN s = ScanFields, t = [s EXCEPT !.pc = "join"]
  PROVE  /\ t.pc = "join" /\ t.pending = s.pending /\ t.taken = s.taken
         /\ t.batch = s.batch /\ t.seen = s.seen
         /\ t.known = s.known /\ t.roots = s.roots
         /\ t.cancelled = s.cancelled /\ t.calm = s.calm
BY DEF ScanFields

LEMMA FinishStamps == ASSUME ScanInv, StampsOK, NEW n \in Ids, SendFinish(n) PROVE StampsOK'
<1> DEFINE t == [scan[n] EXCEPT !.pc = "join"]
           m == Finish(~scan[n].cancelled)
<1>1. DOMAIN scan[n] = ScanFields /\ StampedOK(scan[n], writer[n])
      /\ InboxOK(writer[n].inbox, scan[n].missing)
  BY Fields
<1>2. Step(n, t) /\ Send(n, m) /\ Carried(m) = {}
  BY DEF SendFinish, Finish, Carried
<1>3. PICK w : /\ writer' = [writer EXCEPT ![n] = w] /\ w.fresh = writer[n].fresh
               /\ w.inbox = IF writer[n].pc = "failed" THEN <<>> ELSE Append(writer[n].inbox, m)
  BY <1>2, SendStep
<1>4. t.pc = "join" /\ t.batch = scan[n].batch /\ t.roots = scan[n].roots
  BY <1>1, JoiningFields
<1>5. Set(scan, scan', n, t) /\ Set(writer, writer', n, w) /\ UNCHANGED <<rows, edit, config>>
  BY <1>2, <1>3 DEF Step, Set
<1> HIDE DEF t, m
<1>6. ItemsStamped(w.inbox, t.batch, w.fresh)
  <2>1. ItemsStamped(writer[n].inbox, scan[n].batch, writer[n].fresh)
    BY <1>1 DEF StampedOK
  <2>2. ItemsStamped(Append(writer[n].inbox, m), {}, writer[n].fresh)
    BY <1>1, <1>2, <2>1, StampedAppended
  <2>3. ItemsStamped(Append(writer[n].inbox, m), scan[n].batch, writer[n].fresh)
    BY <2>1, <2>2 DEF ItemsStamped
  <2>4. ItemsStamped(<<>>, scan[n].batch, writer[n].fresh)
    BY <2>1 DEF ItemsStamped
  <2> QED BY <1>3, <1>4, <2>3, <2>4
<1>7. StampedOK(t, w)
  BY <1>1, <1>4, <1>6 DEF StampedOK
<1>8. RowsStamped(rows')
  BY <1>5 DEF StampsOK
<1> QED BY <1>5, <1>7, <1>8, StampsStep

LEMMA StampedUnstarted ==
  ASSUME NEW s, s.batch = {}, s.pc \notin {"read", "join"}, s.roots \subseteq Roots
  PROVE  StampedOK(s, Unstarted)
BY DEF StampedOK, ItemsStamped, Unstarted

Joined(s) == [Unscanned EXCEPT !.pc = "done", !.roots = s.roots, !.calm = s.calm]
LEMMA JoinedFields ==
  ASSUME NEW s
  PROVE  /\ Joined(s).pc = "done" /\ Joined(s).batch = {} /\ Joined(s).roots = s.roots
         /\ Joined(s).calm = s.calm
BY DEF Joined, Unscanned

LEMMA JoinStamps == ASSUME ScanInv, StampsOK, NEW n \in Ids, JoinWriter(n) PROVE StampsOK'
<1> DEFINE s == Joined(scan[n])
<1>1. /\ Set(scan, scan', n, s) /\ Set(writer, writer', n, Unstarted)
      /\ UNCHANGED <<rows, edit, config>>
  BY DEF JoinWriter, Step, Set, Joined
<1>2. s.pc = "done" /\ s.batch = {} /\ s.roots = scan[n].roots
  BY JoinedFields
<1> HIDE DEF s
<1>3. StampedOK(s, Unstarted)
  <2>1. scan[n].roots \subseteq Roots
    BY Fields DEF StampedOK
  <2> QED BY <1>2, <2>1, StampedUnstarted
<1>4. RowsStamped(rows')
  BY <1>1 DEF StampsOK
<1> QED BY <1>1, <1>3, <1>4, StampsStep

LEMMA ScannerStamps == ASSUME ScanInv, StampsOK, NEW n \in Ids, Scanner(n) PROVE StampsOK'
BY PurgeStamps, ScanFailsStamps, LoadStamps, WalkStamps, EntryFailsStamps, ClassifyStamps,
   DirFailsStamps, ReadStamps, FinishStamps, JoinStamps DEF Scanner

\* A step of the writer of scan n that leaves its scan as it was for us.
LEMMA StampsWrite ==
  ASSUME ScanInv, StampsOK, NEW n \in Ids, NEW s, NEW w,
         Set(scan, scan', n, s), writer' = [writer EXCEPT ![n] = w],
         UNCHANGED <<edit, config>>, RowsStamped(rows'), writer[n].pc = "idle",
         s.pc = scan[n].pc, s.pending = scan[n].pending, s.seen = scan[n].seen,
         s.batch = scan[n].batch, s.roots = scan[n].roots,
         ItemsStamped(w.inbox, scan[n].batch, w.fresh)
  PROVE  StampsOK'
<1>1. StampedOK(scan[n], writer[n])
  BY Fields
<1>2. scan[n].pc \in {"read", "join"}
  BY <1>1 DEF StampedOK, Unstarted
<1>3. StampedOK(s, w)
  BY <1>1, <1>2 DEF StampedOK
<1>4. Set(writer, writer', n, w)
  BY DEF Set
<1> QED BY <1>3, <1>4, StampsStep

\* What the writer of scan n has before it when it receives.
LEMMA Receiving ==
  ASSUME ScanInv, StampsOK, NEW n \in Ids, NEW type, Receives(n, type)
  PROVE  /\ writer[n].pc = "idle" /\ DOMAIN writer[n] = {"pc", "inbox", "candidates", "fresh", "robbed"}
         /\ InboxOK(writer[n].inbox, scan[n].missing) /\ writer[n].inbox # <<>>
         /\ Message(n) = writer[n].inbox[1] /\ writer[n].inbox[1].type = type
         /\ ItemsStamped(writer[n].inbox, scan[n].batch, writer[n].fresh)
         /\ MessageOK(Message(n), scan[n].missing)
BY Received, Fields DEF StampedOK

LEMMA PersistedFields ==
  ASSUME NEW w, DOMAIN w = {"pc", "inbox", "candidates", "fresh", "robbed"}, NEW x
  PROVE  /\ Persisted(w, x).pc = w.pc /\ Persisted(w, x).inbox = Without(w.inbox, x)
         /\ Persisted(w, x).candidates = w.candidates /\ Persisted(w, x).fresh = w.fresh
         /\ Persisted(w, x).robbed = w.robbed
         /\ DOMAIN Persisted(w, x) = {"pc", "inbox", "candidates", "fresh", "robbed"}
BY DEF Persisted, Without

LEMMA LoadRowsStamps == ASSUME ScanInv, StampsOK, NEW n \in Ids, LoadRows(n) PROVE StampsOK'
<1> DEFINE C == {[path |-> p, tags |-> rows[p].tags] : p \in {q \in Message(n).paths : Stored(q)}}
           w == [writer[n] EXCEPT !.inbox = Tail(@), !.candidates = C]
<1>1. Receives(n, "vanished") /\ Write(n, w) /\ UNCHANGED <<rows, scan, count>>
  BY DEF LoadRows
<1> HIDE DEF C
<1>2. w.inbox = Tail(writer[n].inbox) /\ w.fresh = writer[n].fresh
  BY <1>1, Receiving
<1>3. ItemsStamped(w.inbox, scan[n].batch, w.fresh)
  BY <1>1, <1>2, Receiving, StampedTail
<1>4. /\ Set(scan, scan', n, scan[n]) /\ writer' = [writer EXCEPT ![n] = w]
      /\ UNCHANGED <<edit, config>> /\ RowsStamped(rows') /\ writer[n].pc = "idle"
  BY <1>1, Receiving DEF Write, Set, StampsOK
<1> HIDE DEF w
<1> QED BY <1>3, <1>4, StampsWrite

\* A step on an item of the first message.
LEMMA ItemStamps ==
  ASSUME ScanInv, StampsOK, NEW n \in Ids, Receives(n, "tracks"),
         NEW x \in Message(n).items, NEW w, Write(n, w), UNCHANGED scan, RowsStamped(rows'),
         w.inbox \in {Without(writer[n].inbox, x), <<>>},
         w.fresh \in {writer[n].fresh, writer[n].fresh \cup {x}}
  PROVE  StampsOK'
<1>1. /\ Set(scan, scan', n, scan[n]) /\ writer' = [writer EXCEPT ![n] = w]
      /\ UNCHANGED <<edit, config>>
  BY DEF Write, Set
<1>2. ItemsStamped(w.inbox, scan[n].batch, w.fresh)
  <2>1. /\ ItemsStamped(Without(writer[n].inbox, x), scan[n].batch, writer[n].fresh)
        /\ ItemsStamped(Without(writer[n].inbox, x), scan[n].batch, writer[n].fresh \cup {x})
    BY Receiving, StampedWithout
  <2>2. /\ ItemsStamped(<<>>, scan[n].batch, writer[n].fresh)
        /\ ItemsStamped(<<>>, scan[n].batch, writer[n].fresh \cup {x})
    BY <2>1 DEF ItemsStamped
  <2> QED BY <2>1, <2>2
<1> QED BY <1>1, <1>2, Receiving, StampsWrite

LEMMA ItemHasStamp ==
  ASSUME ScanInv, StampsOK, NEW n \in Ids, Receives(n, "tracks"), NEW x \in Message(n).items
  PROVE  x.stamp # 0 /\ RowsStamped(rows) /\ x.path \in Paths /\ DOMAIN rows = Paths
<1>1. x.stamp # 0
  BY Receiving, StampedWithout
<1> QED BY <1>1, ItemPath DEF StampsOK, ScanInv, RowsOK

LEMMA RowsSet ==
  ASSUME NEW R, RowsStamped(R), DOMAIN R = Paths, NEW p \in Paths, NEW x, x.stamp # 0, NEW id
  PROVE  RowsStamped([R EXCEPT ![p] = RowOf(x, id)])
BY DEF RowsStamped, RowOf

LEMMA UpdateStamps ==
  ASSUME ScanInv, StampsOK, NEW n \in Ids, Receives(n, "tracks"), NEW x \in Message(n).items,
         UpdateTrack(n, x)
  PROVE  StampsOK'
<1> DEFINE w == Persisted(writer[n], x)
<1>1. /\ Write(n, w) /\ UNCHANGED scan
      /\ rows' = [rows EXCEPT ![x.path] = RowOf(x, rows[x.path].id)]
  BY DEF UpdateTrack
<1>2. RowsStamped(rows')
  BY <1>1, ItemHasStamp, RowsSet
<1>3. w.inbox = Without(writer[n].inbox, x) /\ w.fresh = writer[n].fresh
  BY Receiving, PersistedFields
<1> HIDE DEF w
<1> QED BY <1>1, <1>2, <1>3, ItemStamps

LEMMA NotMovedStamps ==
  ASSUME ScanInv, StampsOK, NEW n \in Ids, Receives(n, "tracks"), NEW x \in Message(n).items,
         NotMoved(n, x)
  PROVE  StampsOK'
<1> DEFINE v == Persisted(writer[n], x)
           w == [v EXCEPT !.fresh = @ \cup {x}]
<1>1. Write(n, w) /\ UNCHANGED <<scan, rows>>
  BY DEF NotMoved
<1>2. RowsStamped(rows')
  BY <1>1 DEF StampsOK
<1>3. v.inbox = Without(writer[n].inbox, x) /\ v.fresh = writer[n].fresh
      /\ DOMAIN v = {"pc", "inbox", "candidates", "fresh", "robbed"}
  BY Receiving, PersistedFields
<1> HIDE DEF v
<1>4. w.inbox = Without(writer[n].inbox, x) /\ w.fresh = writer[n].fresh \cup {x}
  BY <1>3
<1> HIDE DEF w
<1> QED BY <1>1, <1>2, <1>4, ItemStamps

LEMMA MoveStamps ==
  ASSUME ScanInv, StampsOK, NEW n \in Ids, Receives(n, "tracks"), NEW x \in Message(n).items,
         NEW c, MoveTrack(n, x, c)
  PROVE  StampsOK'
<1> DEFINE v == Persisted(writer[n], x)
           w == [v EXCEPT !.candidates = @ \ {c}]
           y == [w EXCEPT !.fresh = @ \cup {x}, !.robbed = @ \cup {x.tags}]
           z == [w EXCEPT !.pc = "failed", !.inbox = <<>>]
<1>1. /\ UNCHANGED scan /\ (Write(n, w) \/ Write(n, y) \/ Write(n, z))
      /\ (UNCHANGED rows \/ rows' = MovedRow(c.path, x))
  BY DEF MoveTrack
<1>2. RowsStamped(rows')
  <2>1. RowsStamped(rows) /\ DOMAIN rows = Paths /\ x.path \in Paths /\ x.stamp # 0
    BY ItemHasStamp
  <2>2. CASE rows' = MovedRow(c.path, x)
    <3> DEFINE R == [rows EXCEPT ![c.path] = NoRow]
    <3>1. RowsStamped(R) /\ DOMAIN R = Paths
      BY <2>1 DEF RowsStamped
    <3>2. rows' = [R EXCEPT ![x.path] = RowOf(x, rows[c.path].id)]
      BY <2>2 DEF MovedRow
    <3> HIDE DEF R
    <3> QED BY <2>1, <3>1, <3>2, RowsSet
  <2> QED BY <1>1, <2>1, <2>2
<1>3. v.inbox = Without(writer[n].inbox, x) /\ v.fresh = writer[n].fresh
      /\ DOMAIN v = {"pc", "inbox", "candidates", "fresh", "robbed"}
  BY Receiving, PersistedFields
<1> HIDE DEF v
<1>4. w.inbox = v.inbox /\ w.fresh = v.fresh
      /\ DOMAIN w = {"pc", "inbox", "candidates", "fresh", "robbed"}
  BY <1>3
<1> HIDE DEF w
<1>5. y.inbox = w.inbox /\ y.fresh = w.fresh \cup {x} /\ z.inbox = <<>> /\ z.fresh = w.fresh
  BY <1>4
<1> HIDE DEF y, z
<1>6. Write(n, w) => StampsOK'
  BY <1>1, <1>2, <1>3, <1>4, ItemStamps
<1>7. Write(n, y) => StampsOK'
  BY <1>1, <1>2, <1>3, <1>4, <1>5, ItemStamps
<1>8. Write(n, z) => StampsOK'
  BY <1>1, <1>2, <1>3, <1>4, <1>5, ItemStamps
<1> QED BY <1>1, <1>6, <1>7, <1>8

\* The rows when the fresh ones are inserted.
LEMMA UpsertRows ==
  ASSUME NEW n \in Ids, UpsertTracks(n)
  PROVE  /\ \A p \in Paths :
              \/ rows'[p] = rows[p] /\ \A x \in writer[n].fresh : x.path # p
              \/ \E x \in writer[n].fresh : \E id : x.path = p /\ rows'[p] = RowOf(x, id)
         /\ DOMAIN rows' = Paths
<1>1. ASSUME NEW p \in Paths
      PROVE  \/ rows'[p] = rows[p] /\ \A x \in writer[n].fresh : x.path # p
             \/ \E x \in writer[n].fresh : \E id : x.path = p /\ rows'[p] = RowOf(x, id)
  <2>1. CASE \E x \in writer[n].fresh : x.path = p
    <3> DEFINE x == CHOOSE i \in writer[n].fresh : i.path = p
               id == IF x \in {i \in writer[n].fresh : ~Stored(i.path)}
                     THEN <<count.id, p>> ELSE rows[p].id
    <3>1. x \in writer[n].fresh /\ x.path = p
      BY <2>1
    <3>2. rows'[p] = RowOf(x, id)
      BY <2>1 DEF UpsertTracks
    <3> HIDE DEF x, id
    <3> QED BY <3>1, <3>2
  <2>2. CASE ~\E x \in writer[n].fresh : x.path = p
    <3>1. rows'[p] = rows[p]
      BY <2>2 DEF UpsertTracks
    <3> QED BY <2>2, <3>1
  <2> QED BY <2>1, <2>2
<1>2. DOMAIN rows' = Paths
  BY DEF UpsertTracks
<1> QED BY <1>1, <1>2

Inserted(n) ==
  [scan[n] EXCEPT !.inserted = @ \cup {i.tags : i \in {j \in writer[n].fresh : ~Stored(j.path)}}]

LEMMA InsertedFields ==
  ASSUME ScanInv, StampsOK, NEW n \in Ids
  PROVE  /\ Inserted(n).pc = scan[n].pc /\ Inserted(n).pending = scan[n].pending
         /\ Inserted(n).seen = scan[n].seen /\ Inserted(n).known = scan[n].known
         /\ Inserted(n).batch = scan[n].batch /\ Inserted(n).roots = scan[n].roots
         /\ Inserted(n).taken = scan[n].taken /\ Inserted(n).cancelled = scan[n].cancelled
         /\ Inserted(n).calm = scan[n].calm
<1>1. DOMAIN scan[n] = ScanFields
  BY Fields
<1> QED BY <1>1 DEF Inserted, ScanFields

LEMMA UpsertStep ==
  ASSUME ScanInv, StampsOK, NEW n \in Ids, UpsertTracks(n)
  PROVE  \E w : /\ Receives(n, "tracks") /\ Message(n).items = {} /\ Write(n, w)
                /\ scan' = [scan EXCEPT ![n] = Inserted(n)]
                /\ w.pc = writer[n].pc /\ w.inbox = Tail(writer[n].inbox) /\ w.fresh = {}
                /\ w.candidates = writer[n].candidates /\ w.robbed = writer[n].robbed
<1> DEFINE w == [writer[n] EXCEPT !.inbox = Tail(@), !.fresh = {}]
<1>1. /\ Receives(n, "tracks") /\ Message(n).items = {} /\ Write(n, w)
      /\ scan' = [scan EXCEPT ![n] = Inserted(n)]
  BY DEF UpsertTracks, Inserted
<1>2. /\ w.pc = writer[n].pc /\ w.inbox = Tail(writer[n].inbox) /\ w.fresh = {}
      /\ w.candidates = writer[n].candidates /\ w.robbed = writer[n].robbed
  BY Fields
<1> HIDE DEF w
<1> QED BY <1>1, <1>2

LEMMA UpsertStamps == ASSUME ScanInv, StampsOK, NEW n \in Ids, UpsertTracks(n) PROVE StampsOK'
<1>1. PICK w : /\ Receives(n, "tracks") /\ Write(n, w)
               /\ scan' = [scan EXCEPT ![n] = Inserted(n)]
               /\ w.inbox = Tail(writer[n].inbox) /\ w.fresh = {}
  BY UpsertStep
<1>2. ItemsStamped(writer[n].inbox, scan[n].batch, writer[n].fresh)
  BY <1>1, Receiving
<1>3. RowsStamped(rows')
  <2>1. RowsStamped(rows)
    BY DEF StampsOK
  <2>2. ASSUME NEW p \in Paths, rows'[p].stamp = 0 PROVE rows'[p] = NoRow
    <3>1. CASE rows'[p] = rows[p]
      BY <2>1, <2>2, <3>1 DEF RowsStamped
    <3>2. ASSUME NEW x \in writer[n].fresh, NEW id, rows'[p] = RowOf(x, id) PROVE FALSE
      <4>1. x.stamp # 0
        BY <1>2 DEF ItemsStamped
      <4> QED BY <2>2, <3>2, <4>1 DEF RowOf
    <3> QED BY <3>1, <3>2, UpsertRows
  <2> QED BY <2>2 DEF RowsStamped
<1>4. ItemsStamped(w.inbox, scan[n].batch, w.fresh)
  <2>1. ItemsStamped(Tail(writer[n].inbox), scan[n].batch, writer[n].fresh)
    BY <1>1, <1>2, Receiving, StampedTail
  <2> QED BY <1>1, <2>1 DEF ItemsStamped
<1>5. /\ Set(scan, scan', n, Inserted(n)) /\ writer' = [writer EXCEPT ![n] = w]
      /\ UNCHANGED <<edit, config>> /\ writer[n].pc = "idle"
  BY <1>1, Receiving DEF Write, Set
<1> QED BY <1>3, <1>4, <1>5, InsertedFields, StampsWrite

LEMMA DeleteStamps == ASSUME ScanInv, StampsOK, NEW n \in Ids, DeleteRemaining(n) PROVE StampsOK'
<1> DEFINE w == [writer[n] EXCEPT !.pc = "ended", !.inbox = Tail(@)]
<1>1. Receives(n, "finish") /\ Write(n, w) /\ UNCHANGED <<scan, count>>
  BY DEF DeleteRemaining
<1>2. w.inbox = Tail(writer[n].inbox) /\ w.fresh = writer[n].fresh
  BY <1>1, Receiving
<1>3. ItemsStamped(w.inbox, scan[n].batch, w.fresh)
  BY <1>1, <1>2, Receiving, StampedTail
<1>4. RowsStamped(rows')
  <2>1. RowsStamped(rows)
    BY DEF StampsOK
  <2> QED BY <2>1 DEF DeleteRemaining, RowsStamped
<1>5. /\ Set(scan, scan', n, scan[n]) /\ writer' = [writer EXCEPT ![n] = w]
      /\ UNCHANGED <<edit, config>> /\ writer[n].pc = "idle"
  BY <1>1, Receiving DEF Write, Set
<1> HIDE DEF w
<1> QED BY <1>3, <1>4, <1>5, StampsWrite

LEMMA StoreFailsStamps == ASSUME ScanInv, StampsOK, NEW n \in Ids, StoreFails(n) PROVE StampsOK'
<1> DEFINE s == [scan[n] EXCEPT !.calm = FALSE]
           w == [writer[n] EXCEPT !.pc = "failed", !.inbox = <<>>]
<1>1. /\ writer[n].pc = "idle" /\ writer' = [writer EXCEPT ![n] = w]
      /\ UNCHANGED <<edit, config, rows>> /\ Set(scan, scan', n, s)
  BY DEF StoreFails, Write, Set
<1>2. DOMAIN scan[n] = ScanFields /\ DOMAIN writer[n] = {"pc", "inbox", "candidates", "fresh", "robbed"}
      /\ StampedOK(scan[n], writer[n])
  BY Fields
<1>3. s.pc = scan[n].pc /\ s.pending = scan[n].pending /\ s.seen = scan[n].seen
      /\ s.batch = scan[n].batch /\ s.roots = scan[n].roots
  BY <1>2 DEF ScanFields
<1>4. w.inbox = <<>> /\ w.fresh = writer[n].fresh
  BY <1>2
<1>5. ItemsStamped(w.inbox, scan[n].batch, w.fresh)
  BY <1>2, <1>4 DEF StampedOK, ItemsStamped
<1>6. RowsStamped(rows')
  BY <1>1 DEF StampsOK
<1> HIDE DEF s, w
<1> QED BY <1>1, <1>3, <1>5, <1>6, StampsWrite

LEMMA WriterStamps == ASSUME ScanInv, StampsOK, NEW n \in Ids, WriterStep(n) PROVE StampsOK'
BY LoadRowsStamps, UpsertStamps, DeleteStamps, StoreFailsStamps, UpdateStamps, NotMovedStamps,
   MoveStamps DEF WriterStep

----------------------------------------------------------------------------
LEMMA DisturbedFields ==
  ASSUME ScanInv, StampsOK, NEW absent, NEW n \in Ids
  PROVE  /\ Disturbed(scan, absent)[n].pc = scan[n].pc
         /\ Disturbed(scan, absent)[n].pending = scan[n].pending
         /\ Disturbed(scan, absent)[n].seen = scan[n].seen
         /\ Disturbed(scan, absent)[n].batch = scan[n].batch
         /\ Disturbed(scan, absent)[n].roots = scan[n].roots
         /\ Disturbed(scan, absent)[n].calm = FALSE
         /\ DOMAIN Disturbed(scan, absent) = Ids
<1> DEFINE M == IF Running(n) THEN scan[n].missing \cup absent ELSE scan[n].missing
           t == [scan[n] EXCEPT !.calm = FALSE, !.missing = M]
<1>1. DOMAIN scan[n] = ScanFields
  BY Fields
<1>2. Disturbed(scan, absent)[n] = t /\ DOMAIN Disturbed(scan, absent) = Ids
  BY DEF Disturbed
<1> HIDE DEF M
<1>3. /\ t.pc = scan[n].pc /\ t.pending = scan[n].pending /\ t.seen = scan[n].seen
      /\ t.batch = scan[n].batch /\ t.roots = scan[n].roots /\ t.calm = FALSE
  BY <1>1 DEF ScanFields
<1> HIDE DEF t
<1> QED BY <1>2, <1>3

LEMMA DisturbedStamped ==
  ASSUME ScanInv, StampsOK, NEW absent, NEW n \in Ids
  PROVE  StampedOK(Disturbed(scan, absent)[n], writer[n])
<1>1. StampedOK(scan[n], writer[n])
  BY Fields
<1> QED BY <1>1, DisturbedFields DEF StampedOK

LEMMA BeginStamps ==
  ASSUME ScanInv, StampsOK, NEW roots, NEW purge, roots \subseteq Roots, config' \subseteq Roots,
         BeginScan(roots, purge)
  PROVE  StampsOK'
<1> DEFINE k == count.scans + 1
           pc == IF purge = {} THEN "load" ELSE "purge"
           absent == {p \in Paths : ~OnDisk(p)}
           calm == edit.pc = "idle" /\ \A n \in Ids : ~Running(n)
           s == [Unscanned EXCEPT !.pc = pc, !.roots = roots, !.purge = purge,
                                  !.missing = absent, !.calm = calm]
           d == Disturbed(scan, {})
<1>1. /\ count.scans < MaxScans /\ UNCHANGED <<file, rows, writer, edit>>
      /\ scan' = [d EXCEPT ![k] = s]
  BY DEF BeginScan
<1>2. k \in Ids /\ k > count.scans
  BY <1>1, ScanBoundsAssumption DEF ScanInv, CountOK, Ids
<1>3. s.pc \in {"load", "purge"} /\ s.batch = {} /\ s.roots = roots
  BY DEF Unscanned
<1>4. writer[k] = Unstarted
  BY <1>2 DEF ScanInv, LaterOff
<1> HIDE DEF s, k
<1>5. StampedOK(s, Unstarted)
  BY <1>3, StampedUnstarted
<1>6. ASSUME NEW n \in Ids PROVE StampedOK(scan'[n], writer'[n])
  <2>1. CASE n = k
    <3>1. scan'[n] = s
      BY <1>1, <2>1, DisturbedFields
    <3> QED BY <1>1, <1>4, <1>5, <2>1, <3>1
  <2>2. CASE n # k
    <3>1. scan'[n] = d[n]
      BY <1>1, <2>2, DisturbedFields
    <3> QED BY <1>1, <3>1, DisturbedStamped
  <2> QED BY <2>1, <2>2
<1>7. EditOK' /\ RowsStamped(rows')
  BY <1>1 DEF EditOK, StampsOK
<1> QED BY <1>6, <1>7 DEF StampsOK

LEMMA CancelStamps == ASSUME ScanInv, StampsOK, CancelScan PROVE StampsOK'
<1> DEFINE n == count.scans
           s == [scan[n] EXCEPT !.cancelled = TRUE, !.calm = FALSE]
<1>1. /\ n # 0 /\ UNCHANGED <<rows, writer, edit, config>>
      /\ scan' = [scan EXCEPT ![n].cancelled = TRUE, ![n].calm = FALSE]
  BY DEF CancelScan
<1>2. n \in Ids
  BY <1>1, ScanBoundsAssumption DEF ScanInv, CountOK, Ids
<1>3. Set(scan, scan', n, s) /\ Set(writer, writer', n, writer[n])
  BY <1>1 DEF Set
<1>4. DOMAIN scan[n] = ScanFields /\ StampedOK(scan[n], writer[n])
  BY <1>2, Fields
<1>5. s.pc = scan[n].pc /\ s.pending = scan[n].pending /\ s.seen = scan[n].seen
      /\ s.batch = scan[n].batch /\ s.roots = scan[n].roots
  BY <1>4 DEF ScanFields
<1> HIDE DEF s, n
<1>6. StampedOK(s, writer[n])
  BY <1>4, <1>5 DEF StampedOK
<1>7. RowsStamped(rows')
  BY <1>1 DEF StampsOK
<1> QED BY <1>1, <1>2, <1>3, <1>6, <1>7, StampsStep

LEMMA BackendStamps == ASSUME ScanInv, StampsOK, Backend PROVE StampsOK'
<1>1. config \subseteq Roots
  BY DEF StampsOK
<1>2. ASSUME Rescan PROVE StampsOK'
  BY <1>1, <1>2, BeginStamps DEF Rescan
<1>3. ASSUME NEW r \in Roots, RemoveFolder(r) PROVE StampsOK'
  <2>1. config' \subseteq Roots /\ BeginScan(config', {r})
    BY <1>1, <1>3 DEF RemoveFolder
  <2>2. PICK c : c = config'
    OBVIOUS
  <2> QED BY <2>1, <2>2, BeginStamps
<1>4. ASSUME NEW r \in Roots, AddFolder(r) PROVE StampsOK'
  <2>1. config' \subseteq Roots /\ BeginScan(config', {})
    BY <1>1, <1>4 DEF AddFolder
  <2>2. PICK c : c = config'
    OBVIOUS
  <2> QED BY <2>1, <2>2, BeginStamps
<1>5. ASSUME NEW roots \in SUBSET Roots, WatcherAsks(roots) PROVE StampsOK'
  BY <1>1, <1>5, BeginStamps DEF WatcherAsks
<1> QED BY <1>2, <1>3, <1>4, <1>5, CancelStamps DEF Backend

\* Something outside the scans happened.
LEMMA DisturbedStamps ==
  ASSUME ScanInv, StampsOK, NEW absent, scan' = Disturbed(scan, absent),
         UNCHANGED <<config, writer>>, RowsStamped(rows'), EditOK'
  PROVE  StampsOK'
BY DisturbedStamped DEF StampsOK

LEMMA OutsideStamps == ASSUME ScanInv, StampsOK, Outside PROVE StampsOK'
<1>1. /\ UNCHANGED <<config, writer, rows, edit>>
      /\ \E absent : scan' = Disturbed(scan, absent)
  BY DEF Outside, OtherWrites, OtherRemoves, OtherRenames, ShareChanges, Change
<1>2. RowsStamped(rows') /\ EditOK'
  BY <1>1 DEF StampsOK, EditOK
<1> QED BY <1>1, <1>2, DisturbedStamps

LEMMA EditorStamps == ASSUME ScanInv, StampsOK, Editor PROVE StampsOK'
<1>1. ASSUME StatEdited PROVE StampsOK'
  <2>1. UNCHANGED <<file, config, rows, scan, writer>>
    BY <1>1 DEF StatEdited
  <2>2. EditOK'
    <3>1. CASE OnDisk(edit.path) /\ RootOf[edit.path] \notin down
      <4>1. edit' = [edit EXCEPT !.pc = "store", !.stamp = file[edit.path].stamp]
        BY <1>1, <3>1 DEF StatEdited
      <4>2. DOMAIN edit = {"pc", "path", "tags", "stamp"}
        BY DEF StampsOK, EditOK
      <4>2a. edit.path \in Paths
        BY <1>1 DEF StampsOK, EditOK, StatEdited
      <4>3. file[edit.path].stamp # 0
        BY <1>1, <3>1, <4>2a DEF OnDisk, ScanInv, FilesOK
      <4> QED BY <4>1, <4>2, <4>2a, <4>3 DEF EditOK
    <3>2. CASE edit' = Idle
      BY <3>2 DEF EditOK, Idle
    <3> QED BY <1>1, <3>1, <3>2 DEF StatEdited
  <2>3. RowsStamped(rows')
    BY <2>1 DEF StampsOK
  <2> QED BY <2>1, <2>2, <2>3 DEF StampsOK
<1>2. ASSUME StoreTagEdits PROVE StampsOK'
  <2>1. scan' = Disturbed(scan, {}) /\ UNCHANGED <<config, writer>> /\ edit' = Idle
    BY <1>2 DEF StoreTagEdits
  <2>2. EditOK'
    BY <2>1 DEF EditOK, Idle
  <2>3. RowsStamped(rows')
    <3>1. RowsStamped(rows) /\ edit.stamp # 0 /\ RowsOK
      BY <1>2 DEF StampsOK, EditOK, StoreTagEdits, ScanInv
    <3>2. CASE UNCHANGED rows
      BY <3>1, <3>2
    <3>3. CASE rows' = [rows EXCEPT ![edit.path].stamp = edit.stamp, ![edit.path].tags = edit.tags]
      BY <3>1, <3>3 DEF RowsStamped, RowsOK
    <3> QED BY <1>2, <3>2, <3>3 DEF StoreTagEdits
  <2> QED BY <2>1, <2>2, <2>3, DisturbedStamps
<1>3. ASSUME NEW p \in Paths, NEW c, WriteTags(p, c) PROVE StampsOK'
  <2>1. /\ scan' = Disturbed(scan, {}) /\ UNCHANGED <<config, writer, rows>>
        /\ edit' = [pc |-> "stat", path |-> p, tags |-> c, stamp |-> 0]
    BY <1>3 DEF WriteTags
  <2>2. EditOK'
    BY <2>1 DEF EditOK
  <2>3. RowsStamped(rows')
    BY <2>1 DEF StampsOK
  <2> QED BY <2>1, <2>2, <2>3, DisturbedStamps
<1> QED BY <1>1, <1>2, <1>3 DEF Editor

LEMMA NextStamps == ASSUME ScanInv, StampsOK, [Next]_vars PROVE StampsOK'
<1>1. CASE UNCHANGED vars
  BY <1>1 DEF vars, StampsOK, EditOK
<1> QED BY <1>1, OutsideStamps, BackendStamps, EditorStamps, ScannerStamps, WriterStamps DEF Next

LEMMA StampsInit == Init => StampsOK
<1> SUFFICES ASSUME Init PROVE StampsOK
  OBVIOUS
<1>1. RowsStamped(rows)
  <2>1. ASSUME NEW p \in Paths, rows[p].stamp = 0 PROVE rows[p] = NoRow
    <3>1. Start[p] # NoFile => Start[p].stamp \in 1..Cardinality(Paths)
      BY StartAssumption
    <3>2. Start[p] # NoFile => rows[p].stamp = Start[p].stamp
      BY DEF Init
    <3>3. Start[p] = NoFile => rows[p] = NoRow
      BY DEF Init
    <3>4. Cardinality(Paths) \in Nat
      BY PathsAssumption, FS_CardinalityType DEF Paths
    <3> QED BY <2>1, <3>1, <3>2, <3>3, <3>4
  <2> QED BY <2>1 DEF RowsStamped
<1>2. EditOK
  BY DEF Init, EditOK, Idle
<1>3. StampedOK(Unscanned, Unstarted)
  BY StampedUnstarted DEF Unscanned
<1> QED BY <1>1, <1>2, <1>3 DEF Init, StampsOK

----------------------------------------------------------------------------
(* A scan nothing interferes with, over the rows R.                        *)

Exact(p, R) == R[p].stamp = file[p].stamp /\ R[p].tags = file[p].holds

\* What the scan must make of the file at p.
ItemOf(p, R) ==
  [path |-> p, stamp |-> file[p].stamp, tags |-> file[p].holds, prior |-> R[p] # NoRow]

BegunOK(s) ==
  /\ s.batch = {} /\ s.taken = 0 /\ ~s.cancelled /\ s.failed = {}
  /\ s.seen = [p \in Paths |-> 0]

\* What has been visited has been seen as it is, everything under the folders
\* walked but what is still to do.
WalkingOK(s, R) ==
  /\ s.batch = {} /\ s.taken = 0 /\ ~s.cancelled /\ s.failed = {}
  /\ s.at = NoRoot \/ s.at \notin down
  /\ s.roots = s.left \cup Walked(s).walked
  /\ \A p \in Paths :
       /\ s.known[p] = R[p].stamp
       /\ s.seen[p] \in {0, file[p].stamp}
       /\ p \in Under(Walked(s).walked) /\ p \notin s.todo => s.seen[p] = file[p].stamp

\* Items are right, and their files are not to be read again.
InBox(S, P, R) ==
  \A x \in S : x.path \in Paths /\ x.path \notin P /\ OnDisk(x.path) /\ x = ItemOf(x.path, R)

\* No item is in two places: the messages q, the batch B and the fresh ones F.
BoxesOK(q, B, F, P, R) ==
  /\ InBox(B, P, R) /\ InBox(F, P, R) /\ B \cap F = {}
  /\ \A x \in F : ~x.prior
  /\ \A i \in DOMAIN q :
       /\ InBox(Carried(q[i]), P, R)
       /\ Carried(q[i]) \cap B = {} /\ Carried(q[i]) \cap F = {}
       /\ \A j \in DOMAIN q : i # j => Carried(q[i]) \cap Carried(q[j]) = {}

\* The vanished paths come first and the order to delete last.
OrderOK(pc, q, F, C) ==
  /\ F # {} => q # <<>> /\ q[1].type = "tracks"
  /\ \A i \in DOMAIN q :
       /\ q[i].type = "vanished" => i = 1 /\ C = {} /\ \A p \in q[i].paths : ~OnDisk(p)
       /\ q[i].type = "finish" => pc = "join" /\ i = Len(q) /\ q[i].delete
  /\ \A c \in C : ~OnDisk(c.path)

Held(q, B, F, p) ==
  \/ \E x \in B \cup F : x.path = p
  \/ \E i \in DOMAIN q : \E x \in Carried(q[i]) : x.path = p

Goes(q, C, p) ==
  /\ ~OnDisk(p)
  /\ \/ \E c \in C : c.path = p
     \/ \E i \in DOMAIN q : q[i].type = "vanished" /\ p \in q[i].paths

\* Every path is right in the rows or on its way to be.
Covered(roots, q, B, F, C, P, R) ==
  \A p \in Under(roots) : Exact(p, R) \/ p \in P \/ Held(q, B, F, p) \/ Goes(q, C, p)

PendingOK(s, R) ==
  \A p \in s.pending :
    /\ p \in Paths /\ OnDisk(p) /\ s.seen[p] = file[p].stamp
    /\ s.known[p] = R[p].stamp

ReadingOK(s, w, R) ==
  /\ ~s.cancelled /\ w.pc \in {"idle", "ended"} /\ (w.pc = "ended" => s.pc = "join")
  /\ s.pc = "join" => s.pending = {} /\ s.batch = {}
  /\ s.taken \in Nat /\ (s.taken = 0 => s.batch = {})
  /\ PendingOK(s, R)
  /\ BoxesOK(w.inbox, s.batch, w.fresh, s.pending, R)
  /\ OrderOK(s.pc, w.inbox, w.fresh, w.candidates)
  /\ Covered(s.roots, w.inbox, s.batch, w.fresh, w.candidates, s.pending, R)
  /\ w.pc = "ended" => \A p \in Under(s.roots) : Exact(p, R)

Phase(s, w, R) ==
  /\ s.pc \in {"purge", "load"} => BegunOK(s)
  /\ s.pc = "walk" => WalkingOK(s, R)
  /\ s.pc \in {"read", "join"} => ReadingOK(s, w, R)
  /\ s.pc = "done" => \A p \in Under(s.roots) : Exact(p, R)

CalmOK(n) ==
  scan[n].calm =>
    /\ edit.pc = "idle" /\ \A m \in Ids : m # n => ~Running(m)
    /\ Phase(scan[n], writer[n], rows)

AllCalmOK == \A n \in Ids : CalmOK(n)

\* What a scan needs of the files, which do not change.
LEMMA PhaseKept ==
  ASSUME NEW n \in Ids, NEW s, NEW w, scan'[n] = s, writer'[n] = w, UNCHANGED <<file, down>>,
         Phase(s, w, rows')
  PROVE  Phase(scan[n], writer[n], rows)'
<1>1. s.pc \in {"purge", "load"} => BegunOK(scan'[n])
  BY DEF Phase
<1>2. s.pc = "walk" => WalkingOK(scan[n], rows)'
  BY DEF Phase, WalkingOK, Walked
<1>3. ASSUME s.pc \in {"read", "join"} PROVE ReadingOK(scan[n], writer[n], rows)'
  <2>1. ReadingOK(s, w, rows')
    BY <1>3 DEF Phase
  <2>2. PendingOK(scan[n], rows)'
    BY <2>1 DEF ReadingOK, PendingOK, OnDisk
  <2>3. BoxesOK(writer[n].inbox, scan[n].batch, writer[n].fresh, scan[n].pending, rows)'
    BY <2>1 DEF ReadingOK, BoxesOK, InBox, ItemOf, OnDisk
  <2>4. OrderOK(scan[n].pc, writer[n].inbox, writer[n].fresh, writer[n].candidates)'
    BY <2>1 DEF ReadingOK, OrderOK, OnDisk
  <2>5. Covered(scan[n].roots, writer[n].inbox, scan[n].batch, writer[n].fresh,
                writer[n].candidates, scan[n].pending, rows)'
    BY <2>1 DEF ReadingOK, Covered, Exact, Held, Goes, OnDisk
  <2>6. w.pc = "ended" => \A p \in Under(s.roots) : Exact(p, rows)'
    BY <2>1 DEF ReadingOK, Exact
  <2> QED BY <2>1, <2>2, <2>3, <2>4, <2>5, <2>6 DEF ReadingOK
<1>4. s.pc = "done" => \A p \in Under(s.roots) : Exact(p, rows)'
  BY DEF Phase, Exact
<1> QED BY <1>1, <1>2, <1>3, <1>4 DEF Phase, BegunOK

LEMMA CalmStep ==
  ASSUME ScanInv, StampsOK, AllCalmOK, NEW n \in Ids, NEW s, NEW w, Running(n),
         Set(scan, scan', n, s), Set(writer, writer', n, w), UNCHANGED <<file, down, edit>>,
         s.calm => scan[n].calm /\ Phase(s, w, rows')
  PROVE  AllCalmOK'
<1>1. scan'[n] = s /\ writer'[n] = w
  BY DEF ScanInv, ScansOK, Set
<1>2. \A m \in Ids : m # n => scan'[m] = scan[m]
  BY DEF ScanInv, ScansOK, Set
<1>3. \A m \in Ids : m # n => ~scan[m].calm
  BY DEF AllCalmOK, CalmOK
<1>4. ASSUME s.calm PROVE CalmOK(n)'
  <2>1. edit.pc = "idle" /\ \A m \in Ids : m # n => ~Running(m)
    BY <1>4 DEF AllCalmOK, CalmOK
  <2>2. edit'.pc = "idle" /\ \A m \in Ids : m # n => ~Running(m)'
    BY <1>2, <2>1 DEF Running
  <2>3. Phase(scan[n], writer[n], rows)'
    BY <1>1, <1>4, PhaseKept
  <2> QED BY <2>2, <2>3 DEF CalmOK
<1>5. ASSUME NEW m \in Ids PROVE CalmOK(m)'
  <2>1. CASE m # n
    BY <1>2, <1>3, <2>1 DEF CalmOK
  <2>2. CASE m = n /\ ~s.calm
    BY <1>1, <2>2 DEF CalmOK
  <2> QED BY <1>4, <2>1, <2>2
<1> QED BY <1>5 DEF AllCalmOK

\* A step that interferes with every scan.
LEMMA CalmEnds ==
  ASSUME ScanInv, StampsOK, NEW absent, scan' = Disturbed(scan, absent)
  PROVE  AllCalmOK'
BY DisturbedFields DEF AllCalmOK, CalmOK

LEMMA OutsideCalm == ASSUME ScanInv, StampsOK, Outside PROVE AllCalmOK'
<1>1. \E absent : scan' = Disturbed(scan, absent)
  BY DEF Outside, OtherWrites, OtherRemoves, OtherRenames, ShareChanges, Change
<1> QED BY <1>1, CalmEnds

LEMMA EditorCalm == ASSUME ScanInv, StampsOK, AllCalmOK, Editor PROVE AllCalmOK'
<1>1. ASSUME StatEdited PROVE AllCalmOK'
  <2>1. edit.pc = "stat" /\ UNCHANGED scan
    BY <1>1 DEF StatEdited
  <2>2. \A n \in Ids : ~scan[n].calm
    BY <2>1 DEF AllCalmOK, CalmOK
  <2> QED BY <2>1, <2>2 DEF AllCalmOK, CalmOK
<1>2. StoreTagEdits \/ (\E p, c : WriteTags(p, c)) => scan' = Disturbed(scan, {})
  BY DEF StoreTagEdits, WriteTags
<1> QED BY <1>1, <1>2, CalmEnds DEF Editor

LEMMA BeginCalm ==
  ASSUME ScanInv, StampsOK, AllCalmOK, NEW roots, NEW purge, BeginScan(roots, purge)
  PROVE  AllCalmOK'
<1> DEFINE k == count.scans + 1
           pc == IF purge = {} THEN "load" ELSE "purge"
           absent == {p \in Paths : ~OnDisk(p)}
           calm == edit.pc = "idle" /\ \A n \in Ids : ~Running(n)
           s == [Unscanned EXCEPT !.pc = pc, !.roots = roots, !.purge = purge,
                                  !.missing = absent, !.calm = calm]
           d == Disturbed(scan, {})
<1>1. /\ count.scans < MaxScans /\ UNCHANGED <<file, rows, writer, edit>>
      /\ scan' = [d EXCEPT ![k] = s]
  BY DEF BeginScan
<1>2. k \in Ids
  BY <1>1, ScanBoundsAssumption DEF ScanInv, CountOK, Ids
<1>3. /\ s.pc \in {"load", "purge"} /\ (s.calm <=> calm)
      /\ s.batch = {} /\ s.taken = 0 /\ s.cancelled = FALSE /\ s.failed = {}
      /\ s.seen = [p \in Paths |-> 0]
  BY DEF Unscanned
<1>4. PICK j \in Ids : j = k
  BY <1>2
<1> HIDE DEF s, k
<1>5. BegunOK(s)
  BY <1>3 DEF BegunOK
<1>6. ASSUME NEW n \in Ids, n # j PROVE scan'[n].calm = FALSE /\ scan'[n].pc = scan[n].pc
  <2>1. scan'[n] = d[n]
    BY <1>1, <1>4, <1>6
  <2>2. d[n].calm = FALSE /\ d[n].pc = scan[n].pc
    BY DisturbedFields
  <2> HIDE DEF d
  <2> QED BY <2>1, <2>2
<1>7. scan'[j] = s
  BY <1>1, <1>4, DisturbedFields
<1> HIDE DEF d
<1>8. ASSUME calm PROVE CalmOK(j)'
  <2>1. \A m \in Ids : m # j => ~Running(m)'
    BY <1>6, <1>8 DEF Running
  <2>2. Phase(scan[j], writer[j], rows)'
    BY <1>3, <1>5, <1>7 DEF Phase, BegunOK
  <2> QED BY <1>1, <1>8, <2>1, <2>2 DEF CalmOK
<1>9. ~calm => CalmOK(j)'
  BY <1>3, <1>7 DEF CalmOK
<1>10. ASSUME NEW n \in Ids, n # j PROVE CalmOK(n)'
  BY <1>6, <1>10 DEF CalmOK
<1> QED BY <1>8, <1>9, <1>10 DEF AllCalmOK

LEMMA CancelCalm == ASSUME ScanInv, StampsOK, AllCalmOK, CancelScan PROVE AllCalmOK'
<1> DEFINE n == count.scans
           s == [scan[n] EXCEPT !.cancelled = TRUE, !.calm = FALSE]
<1>1. /\ n # 0 /\ Running(n) /\ UNCHANGED <<file, down, rows, writer, edit>>
      /\ scan' = [scan EXCEPT ![n].cancelled = TRUE, ![n].calm = FALSE]
  BY DEF CancelScan
<1>2. n \in Ids
  BY <1>1, ScanBoundsAssumption DEF ScanInv, CountOK, Ids
<1>3. Set(scan, scan', n, s) /\ Set(writer, writer', n, writer[n])
  BY <1>1 DEF Set
<1>4. s.calm = FALSE
  BY <1>2, Fields DEF ScanFields
<1> HIDE DEF s, n
<1> QED BY <1>1, <1>2, <1>3, <1>4, CalmStep

LEMMA BackendCalm == ASSUME ScanInv, StampsOK, AllCalmOK, Backend PROVE AllCalmOK'
<1>1. ASSUME NEW r, RemoveFolder(r) \/ AddFolder(r) PROVE AllCalmOK'
  <2>1. \E roots, purge : BeginScan(roots, purge)
    BY <1>1 DEF RemoveFolder, AddFolder
  <2> QED BY <2>1, BeginCalm
<1> QED BY <1>1, BeginCalm, CancelCalm DEF Backend, Rescan, WatcherAsks

----------------------------------------------------------------------------
LEMMA QuietlyCalm ==
  ASSUME ScanInv, StampsOK, AllCalmOK, NEW n \in Ids, NEW s, Running(n), Quietly(n, s),
         s.calm => scan[n].calm /\ Phase(s, writer[n], rows)
  PROVE  AllCalmOK'
<1>1. /\ Set(scan, scan', n, s) /\ Set(writer, writer', n, writer[n])
      /\ UNCHANGED <<file, down, edit, rows>>
  BY DEF Quietly, Step, Set
<1>2. s.calm => Phase(s, writer[n], rows')
  BY <1>1
<1> QED BY <1>1, <1>2, CalmStep

LEMMA CalmPhase ==
  ASSUME AllCalmOK, NEW n \in Ids, scan[n].calm
  PROVE  Phase(scan[n], writer[n], rows) /\ edit.pc = "idle"
BY DEF AllCalmOK, CalmOK

LEMMA PurgeCalm == ASSUME ScanInv, StampsOK, AllCalmOK, NEW n \in Ids, Purge(n) PROVE AllCalmOK'
<1> DEFINE s == [scan[n] EXCEPT !.pc = IF scan[n].roots = {} THEN "done" ELSE "load"]
<1>1. DOMAIN scan[n] = ScanFields /\ n \in DOMAIN scan
  BY Fields
<1>2. /\ scan[n].pc = "purge" /\ Set(scan, scan', n, s) /\ Set(writer, writer', n, writer[n])
      /\ UNCHANGED <<file, down, edit>> /\ Running(n)
  BY DEF Purge, Set, Running
<1>3. /\ s.pc = (IF scan[n].roots = {} THEN "done" ELSE "load")
      /\ s.batch = scan[n].batch /\ s.roots = scan[n].roots /\ s.taken = scan[n].taken
      /\ s.cancelled = scan[n].cancelled /\ s.failed = scan[n].failed /\ s.seen = scan[n].seen
      /\ s.calm = scan[n].calm
  BY <1>1 DEF ScanFields
<1> HIDE DEF s
<1>4. ASSUME s.calm PROVE Phase(s, writer[n], rows')
  <2>1. BegunOK(scan[n])
    BY <1>2, <1>3, <1>4, CalmPhase DEF Phase
  <2>2. BegunOK(s)
    BY <1>3, <2>1 DEF BegunOK
  <2>3. s.pc = "done" => Under(s.roots) = {}
    BY <1>3 DEF Under
  <2> QED BY <1>3, <2>2, <2>3 DEF Phase
<1> QED BY <1>2, <1>3, <1>4, CalmStep

LEMMA LoadCalm == ASSUME ScanInv, StampsOK, AllCalmOK, NEW n \in Ids, SizeMtimeMap(n) PROVE AllCalmOK'
<1> DEFINE K == [p \in Paths |-> rows[p].stamp]
           s == [scan[n] EXCEPT !.pc = "walk", !.left = scan[n].roots, !.known = K]
<1>1. DOMAIN scan[n] = ScanFields /\ ThreadsOK(scan[n], writer[n])
  BY Fields
<1>2. scan[n].pc = "load" /\ Quietly(n, s) /\ Running(n)
  BY DEF SizeMtimeMap, Running
<1> HIDE DEF K
<1>3. /\ DOMAIN s = ScanFields /\ s.pc = "walk" /\ s.left = scan[n].roots /\ s.known = K
      /\ s.at = scan[n].at /\ s.walked = scan[n].walked /\ s.todo = scan[n].todo
      /\ s.batch = scan[n].batch /\ s.roots = scan[n].roots /\ s.taken = scan[n].taken
      /\ s.cancelled = scan[n].cancelled /\ s.failed = scan[n].failed /\ s.seen = scan[n].seen
      /\ s.calm = scan[n].calm
  BY <1>1 DEF ScanFields
<1> HIDE DEF s
<1>4. ASSUME s.calm PROVE Phase(s, writer[n], rows)
  <2>1. BegunOK(scan[n])
    BY <1>2, <1>3, <1>4, CalmPhase DEF Phase
  <2>2. NotBegun(scan[n])
    BY <1>1, <1>2 DEF ThreadsOK
  <2>3. Walked(s).walked = {} /\ s.at = NoRoot /\ Under({}) = {}
    BY <1>3, <2>2, WalkedFields DEF NotBegun, Under
  <2>4. WalkingOK(s, rows)
    BY <1>3, <2>1, <2>3 DEF WalkingOK, BegunOK, K
  <2> QED BY <1>3, <2>4 DEF Phase
<1> QED BY <1>2, <1>3, <1>4, QuietlyCalm

LEMMA WalkRootCalm ==
  ASSUME ScanInv, StampsOK, AllCalmOK, NEW n \in Ids, NEW r, WalkRoot(n, r) PROVE AllCalmOK'
<1> DEFINE v == Walked(scan[n])
           t == [v EXCEPT !.left = @ \ {r}, !.calm = FALSE]
           u == [v EXCEPT !.left = @ \ {r}, !.at = r, !.todo = Under({r})]
<1>1. DOMAIN scan[n] = ScanFields /\ scan[n].roots \subseteq Roots
  BY Fields DEF StampedOK
<1>2. /\ DOMAIN v = ScanFields /\ v.pc = scan[n].pc /\ v.at = NoRoot
      /\ v.todo = scan[n].todo /\ v.left = scan[n].left /\ v.batch = scan[n].batch
      /\ v.failed = scan[n].failed /\ v.cancelled = scan[n].cancelled /\ v.seen = scan[n].seen
      /\ v.known = scan[n].known
  BY <1>1, WalkedFields
<1>3. v.roots = scan[n].roots /\ v.taken = scan[n].taken /\ v.calm = scan[n].calm
  BY <1>1, WalkedRoots
<1>4. /\ scan[n].pc = "walk" /\ scan[n].todo = {} /\ r \in scan[n].left /\ Running(n)
      /\ Quietly(n, IF r \in down THEN t ELSE u)
  BY <1>2 DEF WalkRoot, Running
<1>5. v.walked = Walked(scan[n]).walked
  OBVIOUS
<1> HIDE DEF v
<1>6. t.calm = FALSE
  BY <1>2 DEF ScanFields
<1>7. /\ DOMAIN u = ScanFields /\ u.pc = "walk" /\ u.left = v.left \ {r} /\ u.at = r
      /\ u.todo = Under({r}) /\ u.walked = v.walked
      /\ u.batch = v.batch /\ u.roots = v.roots /\ u.taken = v.taken
      /\ u.cancelled = v.cancelled /\ u.failed = v.failed /\ u.seen = v.seen
      /\ u.known = v.known /\ u.calm = v.calm
  BY <1>2, <1>4 DEF ScanFields
<1> HIDE DEF t, u
<1>8. ASSUME u.calm, r \notin down PROVE Phase(u, writer[n], rows)
  <2>1. WalkingOK(scan[n], rows)
    BY <1>3, <1>4, <1>7, <1>8, CalmPhase DEF Phase
  <2>2. r \in scan[n].roots
    BY <1>4, <2>1 DEF WalkingOK
  <2>3. r # NoRoot
    BY <1>1, <2>2, RootsAssumption
  <2>4. Walked(u).walked = v.walked \cup {r}
    BY <1>7, <2>3, WalkedFields
  <2>5. u.roots = u.left \cup Walked(u).walked
    BY <1>2, <1>3, <1>4, <1>5, <1>7, <2>1, <2>4 DEF WalkingOK
  <2>6. ASSUME NEW p \in Paths
        PROVE  /\ u.known[p] = rows[p].stamp
               /\ u.seen[p] \in {0, file[p].stamp}
               /\ p \in Under(Walked(u).walked) /\ p \notin u.todo => u.seen[p] = file[p].stamp
    <3>1. p \in Under(Walked(u).walked) /\ p \notin u.todo => p \in Under(Walked(scan[n]).walked)
      BY <1>5, <1>7, <2>4 DEF Under
    <3> QED BY <1>2, <1>4, <1>7, <2>1, <3>1 DEF WalkingOK
  <2>7. /\ u.batch = {} /\ u.taken = 0 /\ ~u.cancelled /\ u.failed = {} /\ u.at \notin down
    BY <1>2, <1>3, <1>7, <1>8, <2>1 DEF WalkingOK
  <2>8. WalkingOK(u, rows)
    BY <2>5, <2>6, <2>7 DEF WalkingOK
  <2> QED BY <1>7, <2>8 DEF Phase
<1>9. CASE r \in down
  BY <1>4, <1>6, <1>9, QuietlyCalm
<1>10. CASE r \notin down
  BY <1>3, <1>4, <1>7, <1>8, <1>10, QuietlyCalm
<1> QED BY <1>9, <1>10

LEMMA VisitCalm ==
  ASSUME ScanInv, StampsOK, AllCalmOK, NEW n \in Ids, NEW p, VisitEntry(n, p) PROVE AllCalmOK'
<1> DEFINE t == Found(scan[n], p)
<1>1. DOMAIN scan[n] = ScanFields /\ DOMAIN scan[n].seen = Paths
  BY Fields
<1>2. scan[n].pc = "walk" /\ p \in scan[n].todo /\ Running(n) /\ Quietly(n, t)
  BY DEF VisitEntry, Walking, Running
<1>3. /\ DOMAIN t = ScanFields /\ t.pc = "walk" /\ t.at = scan[n].at
      /\ t.batch = scan[n].batch /\ t.roots = scan[n].roots /\ t.taken = scan[n].taken
      /\ t.cancelled = scan[n].cancelled /\ t.failed = scan[n].failed
      /\ t.known = scan[n].known /\ t.calm = scan[n].calm /\ t.left = scan[n].left
      /\ t.walked = scan[n].walked /\ t.todo = scan[n].todo \ {p}
      /\ t.seen = [scan[n].seen EXCEPT ![p] = file[p].stamp]
  BY <1>1, <1>2 DEF Found, ScanFields
<1> HIDE DEF t
<1>4. ASSUME t.calm PROVE Phase(t, writer[n], rows)
  <2>1. WalkingOK(scan[n], rows)
    BY <1>2, <1>3, <1>4, CalmPhase DEF Phase
  <2>2. Walked(t).walked = Walked(scan[n]).walked
    <3>1. Walked(t).walked = IF t.at = NoRoot THEN t.walked ELSE t.walked \cup {t.at}
      BY <1>3, WalkedFields
    <3>2. Walked(scan[n]).walked
            = IF scan[n].at = NoRoot THEN scan[n].walked ELSE scan[n].walked \cup {scan[n].at}
      BY <1>1, WalkedFields
    <3> QED BY <1>3, <3>1, <3>2
  <2>3. ASSUME NEW q \in Paths
        PROVE  /\ t.seen[q] \in {0, file[q].stamp}
               /\ q \in Under(Walked(t).walked) /\ q \notin t.todo => t.seen[q] = file[q].stamp
    <3>1. CASE q = p
      BY <1>1, <1>3, <3>1
    <3>2. CASE q # p
      BY <1>1, <1>3, <2>1, <2>2, <3>2 DEF WalkingOK
    <3> QED BY <3>1, <3>2
  <2>4. WalkingOK(t, rows)
    BY <1>3, <2>1, <2>2, <2>3 DEF WalkingOK
  <2> QED BY <1>3, <2>4 DEF Phase
<1> QED BY <1>2, <1>3, <1>4, QuietlyCalm

LEMMA RootFailsCalm ==
  ASSUME ScanInv, StampsOK, AllCalmOK, NEW n \in Ids, RootFails(n) PROVE AllCalmOK'
<1> DEFINE t == [scan[n] EXCEPT !.at = NoRoot, !.todo = {}]
<1>1. DOMAIN scan[n] = ScanFields /\ ThreadsOK(scan[n], writer[n])
  BY Fields
<1>2. /\ scan[n].pc = "walk" /\ scan[n].todo # {} /\ scan[n].at \in down
      /\ Running(n) /\ Quietly(n, t)
  BY DEF RootFails, Walking, Running
<1>3. t.calm = scan[n].calm
  BY <1>1 DEF ScanFields
<1> HIDE DEF t
<1>4. scan[n].at # NoRoot
  <2>1. scan[n].todo \subseteq Under({scan[n].at})
    BY <1>1, <1>2 DEF ThreadsOK, WalkOK
  <2>2. scan[n].at \in Roots
    BY <1>2, <2>1 DEF Under, Roots
  <2> QED BY <2>2, RootsAssumption
<1>5. ~scan[n].calm
  BY <1>2, <1>4, CalmPhase DEF Phase, WalkingOK
<1> QED BY <1>2, <1>3, <1>5, QuietlyCalm

LEMMA ScanFailsCalm ==
  ASSUME ScanInv, StampsOK, AllCalmOK, NEW n \in Ids, ScanFails(n) PROVE AllCalmOK'
<1> DEFINE t == [scan[n] EXCEPT !.pc = "done", !.calm = FALSE]
<1>1. /\ Running(n) /\ Set(scan, scan', n, t) /\ Set(writer, writer', n, writer[n])
      /\ UNCHANGED <<file, down, edit>>
  BY DEF ScanFails, Set, Running
<1>2. t.calm = FALSE
  BY Fields DEF ScanFields
<1> HIDE DEF t
<1> QED BY <1>1, <1>2, CalmStep

LEMMA EntryFailsCalm ==
  ASSUME ScanInv, StampsOK, AllCalmOK, NEW n \in Ids, NEW p, EntryFails(n, p) PROVE AllCalmOK'
<1> DEFINE t == PassedOver(scan[n], p)
<1>1. /\ Running(n) /\ Set(scan, scan', n, t) /\ Set(writer, writer', n, writer[n])
      /\ UNCHANGED <<file, down, edit>>
  BY DEF EntryFails, Walking, Set, Running
<1>2. t.calm = FALSE
  BY Fields DEF ScanFields, PassedOver
<1> HIDE DEF t
<1> QED BY <1>1, <1>2, CalmStep

LEMMA DirFailsCalm ==
  ASSUME ScanInv, StampsOK, AllCalmOK, NEW n \in Ids, NEW d, DirFails(n, d) PROVE AllCalmOK'
<1> DEFINE t == Unlisted(scan[n], d)
<1>1. /\ Running(n) /\ Set(scan, scan', n, t) /\ Set(writer, writer', n, writer[n])
      /\ UNCHANGED <<file, down, edit>>
  BY DEF DirFails, Walking, Set, Running
<1>2. t.calm = FALSE
  BY Fields DEF ScanFields, Unlisted
<1> HIDE DEF t
<1> QED BY <1>1, <1>2, CalmStep

LEMMA ClassifyCalm ==
  ASSUME ScanInv, StampsOK, AllCalmOK, StampIsHonest, NEW n \in Ids, Classify(n)
  PROVE  AllCalmOK'
<1> DEFINE c == scan[n]
           s == Classified(c)
           V == VanishedRows(Walked(c))
<1>1. DOMAIN c = ScanFields /\ DOMAIN c.seen = Paths /\ RowsStamped(rows)
  BY Fields DEF StampsOK
<1>2. PICK w :
           /\ c.pc = "walk" /\ (c.cancelled \/ c.todo \cup c.left = {})
           /\ Step(n, s) /\ writer' = [writer EXCEPT ![n] = w]
           /\ w.pc = "idle" /\ w.candidates = {} /\ w.fresh = {}
           /\ w.inbox = IF V = {} THEN <<>> ELSE <<Vanished(V)>>
  BY ClassifyStep
<1>3. /\ s.pc = "read" /\ s.pending = ClassifyFiles(Walked(c))
      /\ s.known = Only(s.pending, c.known) /\ s.seen = Only(s.pending, c.seen)
      /\ s.batch = c.batch /\ s.roots = c.roots /\ s.taken = c.taken /\ s.calm = c.calm
      /\ s.cancelled = c.cancelled
  BY <1>1, ClassifiedFields
<1>4. Walked(c).seen = c.seen /\ Walked(c).known = c.known /\ Walked(c).cancelled = c.cancelled
      /\ Walked(c).failed = c.failed
  BY <1>1, WalkedFields
<1> HIDE DEF s
<1>5. /\ Set(scan, scan', n, s) /\ Set(writer, writer', n, w)
      /\ UNCHANGED <<file, down, rows, edit>> /\ Running(n)
  BY <1>2 DEF Step, Set, Running
<1>6. ASSUME c.calm PROVE ReadingOK(s, w, rows)
  <2>1. WalkingOK(c, rows)
    BY <1>2, <1>6, CalmPhase DEF Phase
  <2>2. c.roots = Walked(c).walked /\ c.todo = {} /\ ~c.cancelled /\ c.batch = {} /\ c.taken = 0
        /\ c.failed = {}
    BY <1>2, <2>1 DEF WalkingOK
  <2>3. \A p \in Under(c.roots) : c.seen[p] = file[p].stamp
    BY <2>1, <2>2 DEF WalkingOK, Under
  <2>4. \A p \in V : p \in Under(c.roots) /\ ~OnDisk(p)
    <3>1. ASSUME NEW p \in V PROVE p \in Under(c.roots) /\ c.seen[p] = 0
      BY <1>4, <2>2, <3>1 DEF VanishedRows
    <3>2. \A p \in Under(c.roots) : p \in Paths
      BY DEF Under
    <3> QED BY <2>3, <3>1, <3>2 DEF OnDisk, ScanInv, FilesOK
  <2>5. \A p \in Under(c.roots) : p \in V \/ p \in s.pending \/ Exact(p, rows)
    <3> SUFFICES ASSUME NEW p \in Under(c.roots), p \notin V, p \notin s.pending
                 PROVE  Exact(p, rows)
      OBVIOUS
    <3>1. p \in Paths /\ c.seen[p] = file[p].stamp /\ c.known[p] = rows[p].stamp
      BY <2>1, <2>3 DEF Under, WalkingOK
    <3>2. c.seen[p] = 0 => c.known[p] = 0
      BY <1>4, <2>2 DEF VanishedRows, In
    <3>3. c.seen[p] # 0 => c.seen[p] = c.known[p]
      BY <1>3, <1>4, <3>1 DEF ClassifyFiles
    <3>4. CASE c.seen[p] = 0
      <4>1. file[p] = NoFile /\ rows[p] = NoRow
        BY <1>1, <3>1, <3>2, <3>4 DEF ScanInv, FilesOK, RowsStamped
      <4> QED BY <4>1 DEF Exact, NoFile, NoRow
    <3>5. CASE c.seen[p] # 0
      <4>1. Stored(p) /\ OnDisk(p) /\ rows[p].stamp = file[p].stamp
        BY <3>1, <3>3, <3>5 DEF Stored, OnDisk, NoRow, NoFile
      <4> QED BY <3>1, <4>1 DEF StampIsHonest, Exact
    <3> QED BY <3>4, <3>5
  <2>6. \A i \in DOMAIN w.inbox :
          i = 1 /\ w.inbox[i] = Vanished(V) /\ Carried(w.inbox[i]) = {}
    BY <1>2, VanishedInbox
  <2>7. BoxesOK(w.inbox, s.batch, w.fresh, s.pending, rows)
    BY <1>2, <1>3, <2>2, <2>6 DEF BoxesOK, InBox
  <2>8. OrderOK(s.pc, w.inbox, w.fresh, w.candidates)
    BY <1>2, <2>4, <2>6 DEF OrderOK, Vanished
  <2>9. Covered(s.roots, w.inbox, s.batch, w.fresh, w.candidates, s.pending, rows)
    <3>1. ASSUME NEW p \in V PROVE Goes(w.inbox, w.candidates, p)
      <4>1. w.inbox = <<Vanished(V)>>
        BY <1>2
      <4>2. 1 \in DOMAIN w.inbox /\ w.inbox[1] = Vanished(V)
        BY <4>1
      <4> QED BY <2>4, <4>2 DEF Goes, Vanished
    <3> QED BY <1>3, <2>5, <3>1 DEF Covered
  <2>10. PendingOK(s, rows)
    <3> SUFFICES ASSUME NEW p \in s.pending
                 PROVE  /\ p \in Paths /\ OnDisk(p) /\ s.seen[p] = file[p].stamp
                        /\ s.known[p] = rows[p].stamp
      BY DEF PendingOK
    <3>1. p \in Paths /\ c.seen[p] # 0
      BY <1>3, <1>4 DEF ClassifyFiles
    <3>2. s.seen[p] = c.seen[p] /\ s.known[p] = c.known[p]
      BY <1>3, <3>1 DEF Only
    <3> QED BY <2>1, <3>1, <3>2 DEF WalkingOK, OnDisk, NoFile
  <2> QED BY <1>2, <1>3, <2>2, <2>7, <2>8, <2>9, <2>10 DEF ReadingOK
<1>7. s.calm => scan[n].calm /\ Phase(s, w, rows')
  BY <1>3, <1>5, <1>6 DEF Phase
<1> QED BY <1>5, <1>7, CalmStep

----------------------------------------------------------------------------
LEMMA BoxesAppended ==
  ASSUME NEW q, NEW M, InboxOK(q, M), NEW m, NEW B, NEW F, NEW P, NEW R,
         BoxesOK(q, B, F, P, R), Carried(m) = B
  PROVE  BoxesOK(Append(q, m), {}, F, P, R)
<1> DEFINE t == Append(q, m)
<1>1. \A i \in DOMAIN t : (i \in DOMAIN q /\ t[i] = q[i]) \/ (i \notin DOMAIN q /\ i = Len(q) + 1 /\ t[i] = m)
  BY AppendAt
<1> HIDE DEF t
<1>2. ASSUME NEW i \in DOMAIN t
      PROVE  InBox(Carried(t[i]), P, R) /\ Carried(t[i]) \cap F = {}
  BY <1>1 DEF BoxesOK
<1>3. ASSUME NEW i \in DOMAIN t, NEW j \in DOMAIN t, i # j
      PROVE  Carried(t[i]) \cap Carried(t[j]) = {}
  <2>1. CASE i \in DOMAIN q /\ j \in DOMAIN q
    BY <1>1, <1>3, <2>1 DEF BoxesOK
  <2>2. CASE i \in DOMAIN q /\ j \notin DOMAIN q
    BY <1>1, <1>3, <2>2 DEF BoxesOK
  <2>3. CASE i \notin DOMAIN q /\ j \in DOMAIN q
    BY <1>1, <1>3, <2>3 DEF BoxesOK
  <2>4. ~(i \notin DOMAIN q /\ j \notin DOMAIN q)
    BY <1>1, <1>3
  <2> QED BY <2>1, <2>2, <2>3, <2>4
<1>4. InBox({}, P, R) /\ InBox(F, P, R) /\ \A x \in F : ~x.prior
  BY DEF BoxesOK, InBox
<1>5. BoxesOK(t, {}, F, P, R)
  BY <1>2, <1>3, <1>4 DEF BoxesOK
<1> QED BY <1>5 DEF t

LEMMA OrderAppended ==
  ASSUME NEW q, NEW M, InboxOK(q, M), NEW m, NEW F, NEW C, OrderOK("read", q, F, C),
         NEW pc, \/ m.type = "tracks"
                 \/ pc = "join" /\ m.type = "finish" /\ m.delete
  PROVE  OrderOK(pc, Append(q, m), F, C)
<1> DEFINE t == Append(q, m)
<1>1. \A i \in DOMAIN t : (i \in DOMAIN q /\ t[i] = q[i]) \/ (i = Len(t) /\ t[i] = m)
  BY AppendAt
<1>2. q # <<>> => t # <<>> /\ t[1] = q[1]
  <2>1. q # <<>> => 1 \in DOMAIN q
    BY TailInbox
  <2>2. DOMAIN q \subseteq DOMAIN t /\ \A i \in DOMAIN q : t[i] = q[i]
    BY AppendAt
  <2> QED BY <2>1, <2>2
<1> HIDE DEF t
<1>3. OrderOK(pc, t, F, C)
  <2>1. F # {} => t # <<>> /\ t[1].type = "tracks"
    BY <1>2 DEF OrderOK
  <2>2. ASSUME NEW i \in DOMAIN t
        PROVE  /\ t[i].type = "vanished" => i = 1 /\ C = {} /\ \A p \in t[i].paths : ~OnDisk(p)
               /\ t[i].type = "finish" => pc = "join" /\ i = Len(t) /\ t[i].delete
    <3>1. CASE i \in DOMAIN q /\ t[i] = q[i]
      BY <3>1 DEF OrderOK
    <3>2. CASE i = Len(t) /\ t[i] = m
      BY <3>2
    <3> QED BY <1>1, <3>1, <3>2
  <2> QED BY <2>1, <2>2 DEF OrderOK
<1> QED BY <1>3 DEF t

LEMMA CoveredAppended ==
  ASSUME NEW q, NEW M, InboxOK(q, M), NEW m, NEW roots, NEW B, NEW F, NEW C, NEW P, NEW R,
         Covered(roots, q, B, F, C, P, R), Carried(m) = B
  PROVE  Covered(roots, Append(q, m), {}, F, C, P, R)
<1> DEFINE t == Append(q, m)
<1>1. /\ DOMAIN q \subseteq DOMAIN t /\ \A i \in DOMAIN q : t[i] = q[i]
      /\ Len(q) + 1 \in DOMAIN t /\ t[Len(q) + 1] = m
  BY AppendAt
<1> HIDE DEF t
<1>2. ASSUME NEW p PROVE Held(q, B, F, p) => Held(t, {}, F, p)
  <2>1. ASSUME NEW x \in B, x.path = p PROVE Held(t, {}, F, p)
    BY <1>1, <2>1 DEF Held
  <2>2. ASSUME NEW x \in F, x.path = p PROVE Held(t, {}, F, p)
    BY <2>2 DEF Held
  <2>3. ASSUME NEW i \in DOMAIN q, NEW x \in Carried(q[i]), x.path = p PROVE Held(t, {}, F, p)
    BY <1>1, <2>3 DEF Held
  <2> QED BY <2>1, <2>2, <2>3 DEF Held
<1>3. ASSUME NEW p PROVE Goes(q, C, p) => Goes(t, C, p)
  BY <1>1 DEF Goes
<1>4. Covered(roots, t, {}, F, C, P, R)
  BY <1>2, <1>3 DEF Covered
<1> QED BY <1>4 DEF t

LEMMA FileRead ==
  ASSUME ScanInv, StampsOK, NEW s, NEW w, DOMAIN s = ScanFields, s.pc = "read",
         ReadingOK(s, w, rows), NEW p \in s.pending
  PROVE  ReadingOK(Taken(s, p), w, rows)
<1> DEFINE r == Read(s, p)
           t == Taken(s, p)
<1>1. /\ t.pc = "read" /\ t.pending = s.pending \ {p} /\ t.taken = s.taken + 1
      /\ t.batch = s.batch \cup {r} /\ t.seen = s.seen /\ t.known = s.known
      /\ t.roots = s.roots /\ t.cancelled = s.cancelled
  BY TakenFields
<1>2. /\ ~s.cancelled /\ w.pc = "idle" /\ s.taken \in Nat /\ PendingOK(s, rows)
      /\ BoxesOK(w.inbox, s.batch, w.fresh, s.pending, rows)
      /\ OrderOK("read", w.inbox, w.fresh, w.candidates)
      /\ Covered(s.roots, w.inbox, s.batch, w.fresh, w.candidates, s.pending, rows)
  BY DEF ReadingOK
<1>3. p \in Paths /\ OnDisk(p) /\ s.seen[p] = file[p].stamp /\ s.known[p] = rows[p].stamp
  BY <1>2 DEF PendingOK
<1>4. r.path = p /\ r = ItemOf(p, rows)
  <2>1. (s.known[p] # 0) = (rows[p] # NoRow)
    BY <1>3 DEF StampsOK, RowsStamped, NoRow
  <2>2. r = [path |-> p, stamp |-> s.seen[p], tags |-> file[p].holds, prior |-> s.known[p] # 0]
    BY DEF Read
  <2>3. ItemOf(p, rows) = [path |-> p, stamp |-> file[p].stamp, tags |-> file[p].holds,
                           prior |-> rows[p] # NoRow]
    BY DEF ItemOf
  <2>4. r.path = p
    BY <2>2
  <2> HIDE DEF r
  <2> QED BY <1>3, <2>1, <2>2, <2>3, <2>4
<1> HIDE DEF r, t
<1>5. BoxesOK(w.inbox, t.batch, w.fresh, t.pending, rows)
  <2>1. \A S : InBox(S, s.pending, rows) => InBox(S, t.pending, rows) /\ r \notin S
    BY <1>1, <1>4 DEF InBox
  <2>2. InBox(t.batch, t.pending, rows)
    BY <1>1, <1>2, <1>3, <1>4 DEF BoxesOK, InBox
  <2>3. InBox(w.fresh, t.pending, rows) /\ t.batch \cap w.fresh = {}
    <3>1. InBox(w.fresh, s.pending, rows) /\ s.batch \cap w.fresh = {}
      BY <1>2 DEF BoxesOK
    <3>2. InBox(w.fresh, t.pending, rows) /\ r \notin w.fresh
      BY <2>1, <3>1
    <3> QED BY <1>1, <3>1, <3>2
  <2>4. ASSUME NEW i \in DOMAIN w.inbox
        PROVE  InBox(Carried(w.inbox[i]), t.pending, rows) /\ Carried(w.inbox[i]) \cap t.batch = {}
    <3>1. /\ InBox(Carried(w.inbox[i]), s.pending, rows)
          /\ Carried(w.inbox[i]) \cap s.batch = {}
      BY <1>2 DEF BoxesOK
    <3>2. InBox(Carried(w.inbox[i]), t.pending, rows) /\ r \notin Carried(w.inbox[i])
      BY <2>1, <3>1
    <3> QED BY <1>1, <3>1, <3>2
  <2> QED BY <1>2, <2>2, <2>3, <2>4 DEF BoxesOK
<1>6. Covered(t.roots, w.inbox, t.batch, w.fresh, w.candidates, t.pending, rows)
  <2>1. Held(w.inbox, t.batch, w.fresh, p)
    BY <1>1, <1>4 DEF Held
  <2>2. \A q : Held(w.inbox, s.batch, w.fresh, q) => Held(w.inbox, t.batch, w.fresh, q)
    BY <1>1 DEF Held
  <2> QED BY <1>1, <1>2, <2>1, <2>2 DEF Covered
<1>7. PendingOK(t, rows)
  BY <1>1, <1>2 DEF PendingOK
<1>8. t.taken \in Nat /\ t.taken # 0
  BY <1>1, <1>2
<1>9. ReadingOK(t, w, rows)
  BY <1>1, <1>2, <1>5, <1>6, <1>7, <1>8 DEF ReadingOK
<1> QED BY <1>9 DEF t

\* What was read goes to the writer.
LEMMA BatchSent ==
  ASSUME NEW s, NEW w, NEW R, NEW M, ReadingOK(s, w, R), s.pc = "read", InboxOK(w.inbox, M),
         NEW t, NEW v, NEW m, Carried(m) = s.batch,
         \/ t.pc = "read" /\ m.type = "tracks"
         \/ t.pc = "join" /\ m.type = "finish" /\ m.delete /\ s.pending = {},
         t.batch = {}, t.taken = 0, t.pending = s.pending, t.seen = s.seen,
         t.known = s.known, t.roots = s.roots, t.cancelled = s.cancelled,
         v.pc = w.pc, v.inbox = Append(w.inbox, m), v.fresh = w.fresh,
         v.candidates = w.candidates
  PROVE  ReadingOK(t, v, R)
<1>1. /\ ~s.cancelled /\ w.pc = "idle" /\ PendingOK(s, R)
      /\ BoxesOK(w.inbox, s.batch, w.fresh, s.pending, R)
      /\ OrderOK("read", w.inbox, w.fresh, w.candidates)
      /\ Covered(s.roots, w.inbox, s.batch, w.fresh, w.candidates, s.pending, R)
  BY DEF ReadingOK
<1>2. BoxesOK(v.inbox, t.batch, v.fresh, t.pending, R)
  BY <1>1, BoxesAppended
<1>3. OrderOK(t.pc, v.inbox, v.fresh, v.candidates)
  BY <1>1, OrderAppended
<1>4. Covered(t.roots, v.inbox, t.batch, v.fresh, v.candidates, t.pending, R)
  BY <1>1, CoveredAppended
<1>5. PendingOK(t, R)
  BY <1>1 DEF PendingOK
<1> QED BY <1>1, <1>2, <1>3, <1>4, <1>5 DEF ReadingOK

LEMMA ReadCalm ==
  ASSUME ScanInv, StampsOK, AllCalmOK, NEW n \in Ids, NEW p, ReadFile(n, p)
  PROVE  AllCalmOK'
<1> DEFINE s == Taken(scan[n], p)
           t == Emptied(s)
<1>1. DOMAIN scan[n] = ScanFields /\ InboxOK(writer[n].inbox, scan[n].missing)
  BY Fields
<1>2. scan[n].pc = "read" /\ Running(n) /\ p \in scan[n].pending /\ Takes(n, s)
  BY DEF ReadFile, MayRead, Taken, Running
<1>3. s.calm = scan[n].calm /\ s.pc = "read" /\ DOMAIN s = ScanFields
  BY <1>1, <1>2, TakenFields
<1>4. ASSUME scan[n].calm PROVE ReadingOK(s, writer[n], rows)
  <2>1. ReadingOK(scan[n], writer[n], rows)
    BY <1>2, <1>4, CalmPhase DEF Phase
  <2> QED BY <1>1, <1>2, <2>1, FileRead
<1> HIDE DEF s
<1>5. CASE IsFull(s)
  <2>1. Step(n, t) /\ Send(n, Tracks(s.batch))
    BY <1>2, <1>5 DEF Takes, Emptied
  <2>2. /\ t.pc = "read" /\ t.taken = 0 /\ t.batch = {} /\ t.pending = s.pending
        /\ t.seen = s.seen /\ t.known = s.known /\ t.roots = s.roots
        /\ t.cancelled = s.cancelled /\ t.calm = s.calm
    BY <1>3, EmptiedFields
  <2>3. PICK w :
           /\ writer' = [writer EXCEPT ![n] = w] /\ w.pc = writer[n].pc
           /\ w.candidates = writer[n].candidates /\ w.fresh = writer[n].fresh
           /\ w.inbox = IF writer[n].pc = "failed" THEN <<>>
                        ELSE Append(writer[n].inbox, Tracks(s.batch))
    BY <2>1, SendStep
  <2> HIDE DEF t
  <2>4. Set(scan, scan', n, t) /\ Set(writer, writer', n, w) /\ UNCHANGED <<file, down, edit, rows>>
    BY <2>1, <2>3 DEF Step, Set
  <2>5. ASSUME t.calm PROVE ReadingOK(t, w, rows)
    <3>1. ReadingOK(s, writer[n], rows)
      BY <1>3, <1>4, <2>2, <2>5
    <3>2. writer[n].pc # "failed"
      BY <3>1 DEF ReadingOK
    <3>3. Carried(Tracks(s.batch)) = s.batch /\ Tracks(s.batch).type = "tracks"
      BY DEF Carried, Tracks
    <3> QED BY <1>1, <1>3, <2>2, <2>3, <3>1, <3>2, <3>3, BatchSent
  <2>6. t.calm => scan[n].calm /\ Phase(t, w, rows')
    BY <1>3, <2>2, <2>4, <2>5 DEF Phase
  <2> QED BY <1>2, <2>4, <2>6, CalmStep
<1>6. CASE ~IsFull(s)
  <2>1. s.calm => scan[n].calm /\ Phase(s, writer[n], rows)
    BY <1>3, <1>4 DEF Phase
  <2> QED BY <1>2, <1>6, <2>1, QuietlyCalm DEF Takes
<1> QED BY <1>5, <1>6

LEMMA SkipCalm ==
  ASSUME ScanInv, StampsOK, AllCalmOK, NEW n \in Ids, NEW p, SkipUnreadable(n, p)
  PROVE  AllCalmOK'
<1> DEFINE s == Skipped(scan[n], p)
           t == Emptied(s)
<1>1. DOMAIN scan[n] = ScanFields
  BY Fields
<1>2. Running(n) /\ Takes(n, s)
  BY DEF SkipUnreadable, MayRead, Skipped, Running
<1>3. s.calm = FALSE /\ DOMAIN s = ScanFields
  BY <1>1, SkippedFields
<1> HIDE DEF s
<1>4. CASE IsFull(s)
  <2>1. Step(n, t) /\ Send(n, Tracks(s.batch))
    BY <1>2, <1>4 DEF Takes, Emptied
  <2>2. t.calm = FALSE
    BY <1>3, EmptiedFields
  <2>3. PICK w : writer' = [writer EXCEPT ![n] = w]
    BY <2>1, SendStep
  <2> HIDE DEF t
  <2>4. Set(scan, scan', n, t) /\ Set(writer, writer', n, w) /\ UNCHANGED <<file, down, edit>>
    BY <2>1, <2>3 DEF Step, Set
  <2> QED BY <1>2, <2>2, <2>4, CalmStep
<1>5. CASE ~IsFull(s)
  BY <1>2, <1>3, <1>5, QuietlyCalm DEF Takes
<1> QED BY <1>4, <1>5

LEMMA FinishCalm ==
  ASSUME ScanInv, StampsOK, AllCalmOK, NEW n \in Ids, SendFinish(n) PROVE AllCalmOK'
<1> DEFINE s == scan[n]
           t == [s EXCEPT !.pc = "join"]
           m == Finish(~s.cancelled)
<1>1. DOMAIN s = ScanFields /\ InboxOK(writer[n].inbox, s.missing)
  BY Fields
<1>2. /\ s.pc = "read" /\ Running(n) /\ s.taken = 0
      /\ s.cancelled \/ s.pending = {} \/ writer[n].pc = "failed"
      /\ Step(n, t) /\ Send(n, m)
  BY DEF SendFinish, Running
<1>3. /\ t.pc = "join" /\ t.taken = 0 /\ t.batch = s.batch /\ t.pending = s.pending
      /\ t.seen = s.seen /\ t.known = s.known /\ t.roots = s.roots
      /\ t.cancelled = s.cancelled /\ t.calm = s.calm
  BY <1>1, <1>2, JoiningFields
<1>4. m.type = "finish" /\ (m.delete <=> ~s.cancelled) /\ Carried(m) = {}
  BY DEF Finish, Carried
<1> HIDE DEF m
<1>5. PICK w :
         /\ writer' = [writer EXCEPT ![n] = w] /\ w.pc = writer[n].pc
         /\ w.candidates = writer[n].candidates /\ w.fresh = writer[n].fresh
         /\ w.inbox = IF writer[n].pc = "failed" THEN <<>> ELSE Append(writer[n].inbox, m)
  BY <1>2, SendStep
<1>6. Set(scan, scan', n, t) /\ Set(writer, writer', n, w) /\ UNCHANGED <<file, down, edit, rows>>
  BY <1>2, <1>5 DEF Step, Set
<1> HIDE DEF t
<1>7. ASSUME s.calm PROVE ReadingOK(t, w, rows)
  <2>1. ReadingOK(s, writer[n], rows)
    BY <1>2, <1>7, CalmPhase DEF Phase
  <2>2. writer[n].pc # "failed" /\ ~s.cancelled /\ s.pending = {} /\ s.batch = {}
    BY <1>2, <2>1 DEF ReadingOK
  <2> QED BY <1>1, <1>2, <1>3, <1>4, <1>5, <2>1, <2>2, BatchSent
<1>8. t.calm => scan[n].calm /\ Phase(t, w, rows')
  BY <1>3, <1>6, <1>7 DEF Phase
<1> QED BY <1>2, <1>6, <1>8, CalmStep

LEMMA JoinCalm ==
  ASSUME ScanInv, StampsOK, AllCalmOK, NEW n \in Ids, JoinWriter(n) PROVE AllCalmOK'
<1> DEFINE s == Joined(scan[n])
<1>1. /\ Set(scan, scan', n, s) /\ Set(writer, writer', n, Unstarted)
      /\ UNCHANGED <<file, down, edit, rows>> /\ Running(n)
      /\ scan[n].pc = "join" /\ writer[n].pc \in {"ended", "failed"}
  BY DEF JoinWriter, Step, Set, Joined, Running
<1>2. s.pc = "done" /\ s.roots = scan[n].roots /\ s.calm = scan[n].calm
  BY JoinedFields
<1> HIDE DEF s
<1>3. ASSUME scan[n].calm PROVE \A p \in Under(s.roots) : Exact(p, rows)
  <2>1. ReadingOK(scan[n], writer[n], rows)
    BY <1>1, <1>3, CalmPhase DEF Phase
  <2> QED BY <1>1, <1>2, <2>1 DEF ReadingOK
<1>4. s.calm => scan[n].calm /\ Phase(s, Unstarted, rows')
  BY <1>1, <1>2, <1>3 DEF Phase
<1> QED BY <1>1, <1>4, CalmStep

LEMMA ScannerCalm ==
  ASSUME ScanInv, StampsOK, AllCalmOK, StampIsHonest, NEW n \in Ids, Scanner(n)
  PROVE  AllCalmOK'
BY PurgeCalm, ScanFailsCalm, LoadCalm, RootFailsCalm, ClassifyCalm, WalkRootCalm, VisitCalm,
   EntryFailsCalm, DirFailsCalm, ReadCalm, SkipCalm, FinishCalm, JoinCalm DEF Scanner

LEMMA WriterCalm ==
  ASSUME ScanInv, StampsOK, AllCalmOK, NEW n \in Ids, NEW s, NEW w,
         Set(scan, scan', n, s), writer' = [writer EXCEPT ![n] = w],
         UNCHANGED <<file, down, edit>>, writer[n].pc = "idle",
         s.pc = scan[n].pc, s.pending = scan[n].pending, s.seen = scan[n].seen,
         s.known = scan[n].known, s.batch = scan[n].batch, s.roots = scan[n].roots,
         s.taken = scan[n].taken, s.cancelled = scan[n].cancelled, s.calm = scan[n].calm,
         ReadingOK(scan[n], writer[n], rows) => ReadingOK(scan[n], w, rows')
  PROVE  AllCalmOK'
<1>1. scan[n].pc \in {"read", "join"}
  BY Fields DEF StampedOK, Unstarted
<1>2. ASSUME s.calm PROVE Phase(s, w, rows')
  <2>1. ReadingOK(scan[n], w, rows')
    BY <1>1, <1>2, CalmPhase DEF Phase
  <2>2. ReadingOK(s, w, rows')
    BY <2>1 DEF ReadingOK, PendingOK
  <2> QED BY <1>1, <2>2 DEF Phase
<1>3. Running(n) /\ Set(writer, writer', n, w)
  BY <1>1 DEF Running, Set
<1> QED BY <1>2, <1>3, CalmStep

\* An item of the first message is in no other place, and no other is for its path.
LEMMA OtherItems ==
  ASSUME NEW q, NEW M, InboxOK(q, M), q # <<>>, q[1].type = "tracks", NEW x \in q[1].items,
         NEW B, NEW F, NEW P, NEW R, BoxesOK(q, B, F, P, R),
         NEW y, \/ y \in B \/ y \in F
                \/ \E i \in DOMAIN q : y \in Carried(Without(q, x)[i])
  PROVE  y.path # x.path
<1>1. /\ 1 \in DOMAIN q /\ Carried(q[1]) = q[1].items
      /\ Carried(Without(q, x)[1]) = Carried(q[1]) \ {x}
      /\ \A i \in DOMAIN q : i # 1 => Without(q, x)[i] = q[i]
  BY WithoutAt
<1>2. x = ItemOf(x.path, R)
  BY <1>1 DEF BoxesOK, InBox
<1>3. CASE y \in B
  <2>1. y = ItemOf(y.path, R) /\ y # x
    BY <1>1, <1>3 DEF BoxesOK, InBox
  <2> QED BY <1>2, <2>1
<1>4. CASE y \in F
  <2>1. y = ItemOf(y.path, R) /\ y # x
    BY <1>1, <1>4 DEF BoxesOK, InBox
  <2> QED BY <1>2, <2>1
<1>5. ASSUME NEW i \in DOMAIN q, y \in Carried(Without(q, x)[i]) PROVE y.path # x.path
  <2>1. y \in Carried(q[i]) /\ y # x
    <3>1. CASE i = 1
      BY <1>1, <1>5, <3>1
    <3>2. CASE i # 1
      <4>1. y \in Carried(q[i])
        BY <1>1, <1>5, <3>2
      <4>2. Carried(q[1]) \cap Carried(q[i]) = {}
        BY <1>1, <3>2 DEF BoxesOK
      <4> QED BY <1>1, <4>1, <4>2
    <3> QED BY <3>1, <3>2
  <2>2. y = ItemOf(y.path, R)
    BY <2>1 DEF BoxesOK, InBox
  <2> QED BY <1>2, <2>1, <2>2
<1> QED BY <1>3, <1>4, <1>5

LEMMA InBoxRows ==
  ASSUME NEW S, NEW T, NEW P, NEW R, NEW R2, InBox(S, P, R), T \subseteq S,
         \A y \in T : R2[y.path] = R[y.path]
  PROVE  InBox(T, P, R2)
BY DEF InBox, ItemOf

LEMMA BoxesTaken ==
  ASSUME NEW q, NEW M, InboxOK(q, M), q # <<>>, q[1].type = "tracks", NEW x \in q[1].items,
         NEW B, NEW F, NEW P, NEW R, BoxesOK(q, B, F, P, R),
         NEW R2, \A p \in Paths : p # x.path /\ OnDisk(p) => R2[p] = R[p]
  PROVE  BoxesOK(Without(q, x), B, F, P, R2)
<1> DEFINE t == Without(q, x)
<1>1. /\ DOMAIN t = DOMAIN q /\ 1 \in DOMAIN q
      /\ Carried(t[1]) = Carried(q[1]) \ {x}
      /\ \A i \in DOMAIN q : i # 1 => t[i] = q[i]
  BY WithoutAt
<1>2. \A i \in DOMAIN q : Carried(t[i]) \subseteq Carried(q[i])
  BY <1>1
<1>3. ASSUME NEW S, NEW T, InBox(S, P, R), T \subseteq S, \A y \in T : y.path # x.path
      PROVE  InBox(T, P, R2)
  <2>1. \A y \in T : R2[y.path] = R[y.path]
    BY <1>3 DEF InBox
  <2> QED BY <1>3, <2>1, InBoxRows
<1>4. InBox(B, P, R2)
  <2>1. InBox(B, P, R) /\ \A y \in B : y.path # x.path
    BY OtherItems DEF BoxesOK
  <2> QED BY <1>3, <2>1
<1>5. InBox(F, P, R2)
  <2>1. InBox(F, P, R) /\ \A y \in F : y.path # x.path
    BY OtherItems DEF BoxesOK
  <2> QED BY <1>3, <2>1
<1>6. ASSUME NEW i \in DOMAIN q PROVE InBox(Carried(t[i]), P, R2)
  <2>1. InBox(Carried(q[i]), P, R)
    BY DEF BoxesOK
  <2>2. \A y \in Carried(t[i]) : y.path # x.path
    BY OtherItems
  <2> QED BY <1>2, <1>3, <2>1, <2>2
<1> HIDE DEF t
<1>7. BoxesOK(t, B, F, P, R2)
  <2>1. ASSUME NEW i \in DOMAIN t
        PROVE  /\ Carried(t[i]) \cap B = {} /\ Carried(t[i]) \cap F = {}
               /\ \A j \in DOMAIN t : i # j => Carried(t[i]) \cap Carried(t[j]) = {}
    <3>1. i \in DOMAIN q /\ Carried(t[i]) \subseteq Carried(q[i])
      BY <1>1, <1>2
    <3>2. Carried(q[i]) \cap B = {} /\ Carried(q[i]) \cap F = {}
      BY <3>1 DEF BoxesOK
    <3>3. ASSUME NEW j \in DOMAIN t, i # j PROVE Carried(t[i]) \cap Carried(t[j]) = {}
      <4>1. j \in DOMAIN q /\ Carried(t[j]) \subseteq Carried(q[j])
        BY <1>1, <1>2
      <4>2. Carried(q[i]) \cap Carried(q[j]) = {}
        BY <3>1, <3>3, <4>1 DEF BoxesOK
      <4> QED BY <3>1, <4>1, <4>2
    <3> QED BY <3>1, <3>2, <3>3
  <2>2. B \cap F = {} /\ \A y \in F : ~y.prior
    BY DEF BoxesOK
  <2> QED BY <1>1, <1>4, <1>5, <1>6, <2>1, <2>2 DEF BoxesOK
<1> QED BY <1>7 DEF t

LEMMA BoxesFresh ==
  ASSUME NEW q, NEW M, InboxOK(q, M), q # <<>>, q[1].type = "tracks", NEW x \in q[1].items,
         NEW B, NEW F, NEW P, NEW R, BoxesOK(q, B, F, P, R), ~x.prior
  PROVE  BoxesOK(Without(q, x), B, F \cup {x}, P, R)
<1> DEFINE t == Without(q, x)
<1>1. BoxesOK(t, B, F, P, R)
  BY BoxesTaken
<1>2. DOMAIN t = DOMAIN q
  BY WithoutAt
<1>3. x \notin B /\ \A i \in DOMAIN q : x \notin Carried(t[i])
  BY OtherItems
<1>4. InBox(F \cup {x}, P, R)
  <2>1. InBox(q[1].items, P, R) /\ InBox(F, P, R)
    BY WithoutAt DEF BoxesOK
  <2> QED BY <2>1 DEF InBox
<1> HIDE DEF t
<1>5. BoxesOK(t, B, F \cup {x}, P, R)
  <2>1. B \cap (F \cup {x}) = {}
    BY <1>1, <1>3 DEF BoxesOK
  <2>2. \A i \in DOMAIN t : Carried(t[i]) \cap (F \cup {x}) = {}
    BY <1>1, <1>2, <1>3 DEF BoxesOK
  <2>3. \A y \in F \cup {x} : ~y.prior
    BY <1>1 DEF BoxesOK
  <2> QED BY <1>1, <1>4, <2>1, <2>2, <2>3 DEF BoxesOK
<1> QED BY <1>5 DEF t

LEMMA OrderTaken ==
  ASSUME NEW q, NEW M, InboxOK(q, M), q # <<>>, q[1].type = "tracks", NEW x,
         NEW pc, NEW F, NEW C, OrderOK(pc, q, F, C), NEW F2, NEW C2, C2 \subseteq C
  PROVE  OrderOK(pc, Without(q, x), F2, C2)
<1> DEFINE t == Without(q, x)
<1>1. /\ DOMAIN t = DOMAIN q /\ 1 \in DOMAIN q /\ t # <<>> /\ t[1].type = "tracks"
      /\ \A i \in DOMAIN q : i # 1 => t[i] = q[i]
      /\ Len(t) = Len(q)
  BY WithoutAt
<1> HIDE DEF t
<1>2. OrderOK(pc, t, F2, C2)
  <2>1. ASSUME NEW i \in DOMAIN t
        PROVE  /\ t[i].type = "vanished" => i = 1 /\ C2 = {} /\ \A p \in t[i].paths : ~OnDisk(p)
               /\ t[i].type = "finish" => pc = "join" /\ i = Len(t) /\ t[i].delete
    <3>1. CASE i = 1
      BY <1>1, <3>1
    <3>2. CASE i # 1
      BY <1>1, <3>2 DEF OrderOK
    <3> QED BY <3>1, <3>2
  <2>2. \A c \in C2 : ~OnDisk(c.path)
    BY DEF OrderOK
  <2> QED BY <1>1, <2>1, <2>2 DEF OrderOK
<1> QED BY <1>2 DEF t

LEMMA CoveredTaken ==
  ASSUME NEW q, NEW M, InboxOK(q, M), q # <<>>, q[1].type = "tracks", NEW x \in q[1].items,
         NEW roots, NEW B, NEW F, NEW C, NEW P, NEW R, Covered(roots, q, B, F, C, P, R),
         NEW F2, NEW C2, NEW R2, F \subseteq F2, x \in F2 \/ Exact(x.path, R2),
         \A p \in Paths : p # x.path /\ Exact(p, R) => Exact(p, R2),
         \A c \in C : c.path \in Paths => c \in C2 \/ Exact(c.path, R2)
  PROVE  Covered(roots, Without(q, x), B, F2, C2, P, R2)
<1> DEFINE t == Without(q, x)
<1>1. /\ DOMAIN t = DOMAIN q /\ 1 \in DOMAIN q
      /\ Carried(t[1]) = Carried(q[1]) \ {x}
      /\ \A i \in DOMAIN q : i # 1 => t[i] = q[i]
  BY WithoutAt
<1>2. \A i \in DOMAIN q : Carried(q[i]) \subseteq Carried(t[i]) \cup {x}
  BY <1>1
<1> HIDE DEF t
<1>3. ASSUME NEW p \in Under(roots)
      PROVE  Exact(p, R2) \/ p \in P \/ Held(t, B, F2, p) \/ Goes(t, C2, p)
  <2>1. p \in Paths
    BY DEF Under
  <2>2. CASE p = x.path
    BY <2>2 DEF Held
  <2>3. CASE p # x.path /\ Exact(p, R)
    BY <2>1, <2>3
  <2>4. CASE p # x.path /\ Held(q, B, F, p)
    <3>1. ASSUME NEW y \in B \cup F, y.path = p PROVE Held(t, B, F2, p)
      BY <3>1 DEF Held
    <3>2. ASSUME NEW i \in DOMAIN q, NEW y \in Carried(q[i]), y.path = p PROVE Held(t, B, F2, p)
      <4>1. y \in Carried(t[i]) /\ i \in DOMAIN t
        BY <1>1, <1>2, <2>4, <3>2
      <4> QED BY <3>2, <4>1 DEF Held
    <3> QED BY <2>4, <3>1, <3>2 DEF Held
  <2>5. CASE Goes(q, C, p)
    <3>1. ASSUME NEW c \in C, c.path = p PROVE Exact(p, R2) \/ Goes(t, C2, p)
      BY <2>1, <2>5, <3>1 DEF Goes
    <3>2. ASSUME NEW i \in DOMAIN q, q[i].type = "vanished", p \in q[i].paths PROVE Goes(t, C2, p)
      <4>1. i # 1
        BY <3>2
      <4> QED BY <1>1, <2>5, <3>2, <4>1 DEF Goes
    <3> QED BY <2>5, <3>1, <3>2 DEF Goes
  <2> QED BY <2>2, <2>3, <2>4, <2>5 DEF Covered
<1>4. Covered(roots, t, B, F2, C2, P, R2)
  BY <1>3 DEF Covered
<1> QED BY <1>4 DEF t

\* The writer is done with an item: it is in the rows, or to be inserted.
LEMMA ItemDone ==
  ASSUME NEW s, NEW w, NEW v, NEW R, NEW R2, NEW M, ReadingOK(s, w, R), w.pc = "idle",
         InboxOK(w.inbox, M), w.inbox # <<>>, w.inbox[1].type = "tracks",
         NEW x \in w.inbox[1].items,
         v.pc = "idle", v.inbox = Without(w.inbox, x), v.candidates \subseteq w.candidates,
         \/ v.fresh = w.fresh /\ Exact(x.path, R2)
         \/ v.fresh = w.fresh \cup {x} /\ ~x.prior /\ R2 = R,
         \A p \in Paths : p # x.path /\ OnDisk(p) => R2[p] = R[p],
         \A p \in Paths : p # x.path /\ Exact(p, R) => Exact(p, R2),
         \A c \in w.candidates : c.path \in Paths => c \in v.candidates \/ Exact(c.path, R2)
  PROVE  ReadingOK(s, v, R2)
<1>1. /\ PendingOK(s, R)
      /\ BoxesOK(w.inbox, s.batch, w.fresh, s.pending, R)
      /\ OrderOK(s.pc, w.inbox, w.fresh, w.candidates)
      /\ Covered(s.roots, w.inbox, s.batch, w.fresh, w.candidates, s.pending, R)
  BY DEF ReadingOK
<1>2. BoxesOK(v.inbox, s.batch, v.fresh, s.pending, R2)
  <2>1. CASE v.fresh = w.fresh
    BY <1>1, <2>1, BoxesTaken
  <2>2. CASE v.fresh = w.fresh \cup {x} /\ ~x.prior /\ R2 = R
    BY <1>1, <2>2, BoxesFresh
  <2> QED BY <2>1, <2>2
<1>3. OrderOK(s.pc, v.inbox, v.fresh, v.candidates)
  BY <1>1, OrderTaken
<1>4. Covered(s.roots, v.inbox, s.batch, v.fresh, v.candidates, s.pending, R2)
  <2>1. w.fresh \subseteq v.fresh /\ (x \in v.fresh \/ Exact(x.path, R2))
    OBVIOUS
  <2> QED BY <1>1, <2>1, CoveredTaken
<1>5. PendingOK(s, R2)
  <2>1. x.path \notin s.pending
    <3>1. x \in Carried(w.inbox[1]) /\ 1 \in DOMAIN w.inbox
      BY WithoutAt
    <3> QED BY <1>1, <3>1 DEF BoxesOK, InBox
  <2> QED BY <1>1, <2>1 DEF PendingOK
<1> QED BY <1>2, <1>3, <1>4, <1>5 DEF ReadingOK

LEMMA BoxesTail ==
  ASSUME NEW q, NEW M, InboxOK(q, M), q # <<>>,
         NEW B, NEW F, NEW P, NEW R, BoxesOK(q, B, F, P, R), NEW R2,
         \A p \in Paths : OnDisk(p) /\ (\A x \in F : x.path # p) => R2[p] = R[p]
  PROVE  BoxesOK(Tail(q), B, {}, P, R2)
<1> DEFINE t == Tail(q)
<1>1. \A i \in DOMAIN t : i \in Nat /\ i + 1 \in DOMAIN q /\ t[i] = q[i + 1]
  BY TailAt
<1> HIDE DEF t
<1>2. ASSUME NEW S, InBox(S, P, R), S \cap F = {} PROVE InBox(S, P, R2)
  <2>1. ASSUME NEW y \in S PROVE R2[y.path] = R[y.path]
    <3>1. y.path \in Paths /\ OnDisk(y.path) /\ y = ItemOf(y.path, R) /\ y \notin F
      BY <1>2 DEF InBox
    <3>2. \A x \in F : x = ItemOf(x.path, R)
      BY DEF BoxesOK, InBox
    <3>3. \A x \in F : x.path # y.path
      BY <3>1, <3>2
    <3> QED BY <3>1, <3>3
  <2> QED BY <1>2, <2>1, InBoxRows
<1>3. InBox(B, P, R2) /\ InBox({}, P, R2)
  BY <1>2 DEF BoxesOK, InBox
<1>4. ASSUME NEW i \in DOMAIN t
      PROVE  /\ InBox(Carried(t[i]), P, R2) /\ Carried(t[i]) \cap B = {}
             /\ \A j \in DOMAIN t : i # j => Carried(t[i]) \cap Carried(t[j]) = {}
  <2>1. i \in Nat /\ i + 1 \in DOMAIN q /\ t[i] = q[i + 1]
    BY <1>1
  <2>2. /\ InBox(Carried(q[i + 1]), P, R) /\ Carried(q[i + 1]) \cap F = {}
        /\ Carried(q[i + 1]) \cap B = {}
    BY <2>1 DEF BoxesOK
  <2>3. InBox(Carried(t[i]), P, R2)
    BY <1>2, <2>1, <2>2
  <2>4. ASSUME NEW j \in DOMAIN t, i # j PROVE Carried(t[i]) \cap Carried(t[j]) = {}
    <3>1. j \in Nat /\ j + 1 \in DOMAIN q /\ t[j] = q[j + 1]
      BY <1>1
    <3>2. i + 1 # j + 1
      BY <2>1, <2>4, <3>1
    <3> QED BY <2>1, <3>1, <3>2 DEF BoxesOK
  <2> QED BY <2>1, <2>2, <2>3, <2>4
<1>5. BoxesOK(t, B, {}, P, R2)
  BY <1>3, <1>4 DEF BoxesOK
<1> QED BY <1>5 DEF t

LEMMA OrderTail ==
  ASSUME NEW q, NEW M, InboxOK(q, M), q # <<>>, NEW pc, NEW F, NEW C, OrderOK(pc, q, F, C),
         NEW C2, \A c \in C2 : ~OnDisk(c.path)
  PROVE  OrderOK(pc, Tail(q), {}, C2)
<1>1. ASSUME NEW i \in DOMAIN Tail(q)
      PROVE  /\ Tail(q)[i].type # "vanished"
             /\ Tail(q)[i].type = "finish" => pc = "join" /\ i = Len(Tail(q)) /\ Tail(q)[i].delete
  <2>1. /\ i \in Nat /\ i + 1 \in DOMAIN q /\ i + 1 # 1 /\ Tail(q)[i] = q[i + 1]
        /\ Len(Tail(q)) = Len(q) - 1 /\ Len(q) \in Nat
    BY TailAt
  <2>2. PICK j \in DOMAIN q : j = i + 1
    BY <2>1
  <2>3. /\ q[j].type = "vanished" => j = 1
        /\ q[j].type = "finish" => pc = "join" /\ j = Len(q) /\ q[j].delete
    BY DEF OrderOK
  <2>4. j = Len(q) => i = Len(Tail(q))
    <3>1. \A a, b \in Nat : a + 1 = b => a = b - 1
      OBVIOUS
    <3> QED BY <2>1, <2>2, <3>1
  <2>5. j # 1 /\ Tail(q)[i] = q[j]
    BY <2>1, <2>2
  <2> QED BY <2>3, <2>4, <2>5
<1> QED BY <1>1 DEF OrderOK

LEMMA CoveredTail ==
  ASSUME NEW q, NEW M, InboxOK(q, M), q # <<>>, Carried(q[1]) = {},
         NEW roots, NEW B, NEW F, NEW C, NEW P, NEW R, Covered(roots, q, B, F, C, P, R),
         NEW C2, NEW R2,
         \A p \in Paths : Exact(p, R) => Exact(p, R2),
         \A x \in F : Exact(x.path, R2),
         \A c \in C : c.path \in Paths => c \in C2 \/ Exact(c.path, R2),
         q[1].type = "vanished" =>
           \A p \in q[1].paths : p \in Paths /\ ~OnDisk(p) => Exact(p, R2) \/ \E c \in C2 : c.path = p
  PROVE  Covered(roots, Tail(q), B, {}, C2, P, R2)
<1> DEFINE t == Tail(q)
<1>1. \A i \in DOMAIN q : i = 1 \/ (i - 1 \in DOMAIN t /\ t[i - 1] = q[i])
  BY TailAt
<1> HIDE DEF t
<1>2. ASSUME NEW p \in Under(roots)
      PROVE  Exact(p, R2) \/ p \in P \/ Held(t, B, {}, p) \/ Goes(t, C2, p)
  <2>1. p \in Paths
    BY DEF Under
  <2>2. ASSUME Held(q, B, F, p) PROVE Exact(p, R2) \/ Held(t, B, {}, p)
    <3>1. ASSUME NEW y \in B, y.path = p PROVE Held(t, B, {}, p)
      BY <3>1 DEF Held
    <3>2. ASSUME NEW y \in F, y.path = p PROVE Exact(p, R2)
      BY <3>2
    <3>3. ASSUME NEW i \in DOMAIN q, NEW y \in Carried(q[i]), y.path = p PROVE Held(t, B, {}, p)
      <4>1. i # 1
        BY <3>3
      <4> QED BY <1>1, <3>3, <4>1 DEF Held
    <3> QED BY <2>2, <3>1, <3>2, <3>3 DEF Held
  <2>3. ASSUME Goes(q, C, p) PROVE Exact(p, R2) \/ Goes(t, C2, p)
    <3>1. ASSUME NEW c \in C, c.path = p PROVE Exact(p, R2) \/ Goes(t, C2, p)
      BY <2>1, <2>3, <3>1 DEF Goes
    <3>2. ASSUME NEW i \in DOMAIN q, q[i].type = "vanished", p \in q[i].paths
          PROVE  Exact(p, R2) \/ Goes(t, C2, p)
      <4>1. CASE i = 1
        BY <2>1, <2>3, <3>2, <4>1 DEF Goes
      <4>2. CASE i # 1
        BY <1>1, <2>3, <3>2, <4>2 DEF Goes
      <4> QED BY <4>1, <4>2
    <3> QED BY <2>3, <3>1, <3>2 DEF Goes
  <2> QED BY <2>1, <2>2, <2>3 DEF Covered
<1>3. Covered(roots, t, B, {}, C2, P, R2)
  BY <1>2 DEF Covered
<1> QED BY <1>3 DEF t

----------------------------------------------------------------------------
LEMMA LoadRowsCalm ==
  ASSUME ScanInv, StampsOK, AllCalmOK, NEW n \in Ids, LoadRows(n) PROVE AllCalmOK'
<1> DEFINE s == scan[n]
           q == writer[n].inbox
           C == {[path |-> p, tags |-> rows[p].tags] : p \in {r \in q[1].paths : Stored(r)}}
           w == [writer[n] EXCEPT !.inbox = Tail(@), !.candidates = C]
<1>1. /\ Receives(n, "vanished") /\ Write(n, w) /\ UNCHANGED <<rows, scan, count>>
      /\ Message(n) = q[1]
  BY Receiving DEF LoadRows
<1>2. /\ \A p \in q[1].paths : Stored(p) => \E c \in C : c.path = p
      /\ \A c \in C : c.path \in q[1].paths
  <2>1. ASSUME NEW p \in q[1].paths, Stored(p) PROVE \E c \in C : c.path = p
    <3>1. [path |-> p, tags |-> rows[p].tags] \in C
      BY <2>1
    <3>2. [path |-> p, tags |-> rows[p].tags].path = p
      OBVIOUS
    <3> QED BY <3>1, <3>2
  <2> QED BY <2>1
<1> HIDE DEF C
<1>3. /\ InboxOK(q, s.missing) /\ q # <<>> /\ q[1].type = "vanished" /\ writer[n].pc = "idle"
      /\ 1 \in DOMAIN q /\ Carried(q[1]) = {}
  BY <1>1, Receiving, TailInbox DEF Carried
<1>4. w.pc = "idle" /\ w.inbox = Tail(q) /\ w.fresh = writer[n].fresh /\ w.candidates = C
  BY <1>3, Fields
<1> HIDE DEF w
<1>5. ASSUME ReadingOK(s, writer[n], rows) PROVE ReadingOK(s, w, rows)
  <2>1. /\ BoxesOK(q, s.batch, writer[n].fresh, s.pending, rows)
        /\ OrderOK(s.pc, q, writer[n].fresh, writer[n].candidates)
        /\ Covered(s.roots, q, s.batch, writer[n].fresh, writer[n].candidates, s.pending, rows)
    BY <1>5 DEF ReadingOK
  <2>2. writer[n].candidates = {} /\ writer[n].fresh = {} /\ \A p \in q[1].paths : ~OnDisk(p)
    BY <1>3, <2>1 DEF OrderOK
  <2>3. BoxesOK(w.inbox, s.batch, w.fresh, s.pending, rows)
    BY <1>3, <1>4, <2>1, <2>2, BoxesTail
  <2>4. OrderOK(s.pc, w.inbox, w.fresh, w.candidates)
    <3>1. \A c \in C : ~OnDisk(c.path)
      BY <1>2, <2>2
    <3> QED BY <1>3, <1>4, <2>1, <2>2, <3>1, OrderTail
  <2>5. Covered(s.roots, w.inbox, s.batch, w.fresh, w.candidates, s.pending, rows)
    <3>1. ASSUME NEW p \in q[1].paths, p \in Paths, ~OnDisk(p)
          PROVE  Exact(p, rows) \/ \E c \in C : c.path = p
      BY <1>2, <3>1 DEF Stored, OnDisk, Exact, NoRow, NoFile
    <3> QED BY <1>3, <1>4, <2>1, <2>2, <3>1, CoveredTail
  <2> QED BY <1>3, <1>4, <1>5, <2>3, <2>4, <2>5 DEF ReadingOK
<1>6. /\ Set(scan, scan', n, s) /\ writer' = [writer EXCEPT ![n] = w]
      /\ UNCHANGED <<file, down, edit, rows>>
  BY <1>1 DEF Write, Set
<1>7. ReadingOK(s, writer[n], rows) => ReadingOK(s, w, rows')
  BY <1>5, <1>6
<1> QED BY <1>3, <1>6, <1>7, WriterCalm

LEMMA UpsertCalm ==
  ASSUME ScanInv, StampsOK, AllCalmOK, NEW n \in Ids, UpsertTracks(n) PROVE AllCalmOK'
<1> DEFINE s == scan[n]
           q == writer[n].inbox
           F == writer[n].fresh
<1>1. PICK w : /\ Receives(n, "tracks") /\ Message(n).items = {} /\ Write(n, w)
               /\ scan' = [scan EXCEPT ![n] = Inserted(n)]
               /\ w.pc = writer[n].pc /\ w.inbox = Tail(q) /\ w.fresh = {}
               /\ w.candidates = writer[n].candidates
  BY UpsertStep
<1>2. /\ InboxOK(q, s.missing) /\ q # <<>> /\ q[1].type = "tracks" /\ writer[n].pc = "idle"
      /\ Carried(q[1]) = {}
  BY <1>1, Receiving DEF Carried
<1>3. ASSUME NEW p \in Paths
      PROVE  \/ rows'[p] = rows[p] /\ \A x \in F : x.path # p
             \/ \E x \in F : \E id : x.path = p /\ rows'[p] = RowOf(x, id)
  BY UpsertRows
<1>4. ASSUME ReadingOK(s, writer[n], rows) PROVE ReadingOK(s, w, rows')
  <2>1. /\ BoxesOK(q, s.batch, F, s.pending, rows) /\ PendingOK(s, rows)
        /\ OrderOK(s.pc, q, F, writer[n].candidates)
        /\ Covered(s.roots, q, s.batch, F, writer[n].candidates, s.pending, rows)
    BY <1>4 DEF ReadingOK
  <2>2. \A x \in F : x.path \in Paths /\ x.path \notin s.pending /\ x = ItemOf(x.path, rows)
    BY <2>1 DEF BoxesOK, InBox
  <2>3. ASSUME NEW p \in Paths, \A x \in F : x.path # p PROVE rows'[p] = rows[p]
    BY <1>3, <2>3
  <2>4. ASSUME NEW p \in Paths, NEW x \in F, x.path = p PROVE Exact(p, rows')
    <3>1. PICK y \in F : \E id : y.path = p /\ rows'[p] = RowOf(y, id)
      BY <1>3, <2>4
    <3>2. y.stamp = file[p].stamp /\ y.tags = file[p].holds
      BY <2>2, <3>1 DEF ItemOf
    <3> QED BY <3>1, <3>2 DEF Exact, RowOf
  <2>5. \A p \in Paths : Exact(p, rows) => Exact(p, rows')
    BY <2>3, <2>4 DEF Exact
  <2>6. BoxesOK(w.inbox, s.batch, w.fresh, s.pending, rows')
    BY <1>1, <1>2, <2>1, <2>3, BoxesTail
  <2>7. OrderOK(s.pc, w.inbox, w.fresh, w.candidates)
    <3>1. \A c \in w.candidates : ~OnDisk(c.path)
      BY <1>1, <2>1 DEF OrderOK
    <3> QED BY <1>1, <1>2, <2>1, <3>1, OrderTail
  <2>8. Covered(s.roots, w.inbox, s.batch, w.fresh, w.candidates, s.pending, rows')
    <3>1. \A x \in F : Exact(x.path, rows')
      BY <2>2, <2>4
    <3> QED BY <1>1, <1>2, <2>1, <2>5, <3>1, CoveredTail
  <2>9. PendingOK(s, rows')
    BY <2>1, <2>2, <2>3 DEF PendingOK
  <2> QED BY <1>1, <1>2, <1>4, <2>6, <2>7, <2>8, <2>9 DEF ReadingOK
<1>5. /\ Set(scan, scan', n, Inserted(n)) /\ writer' = [writer EXCEPT ![n] = w]
      /\ UNCHANGED <<file, down, edit>>
  BY <1>1 DEF Write, Set
<1> QED BY <1>2, <1>4, <1>5, InsertedFields, WriterCalm

LEMMA DeleteCalm ==
  ASSUME ScanInv, StampsOK, AllCalmOK, NEW n \in Ids, DeleteRemaining(n) PROVE AllCalmOK'
<1> DEFINE s == scan[n]
           q == writer[n].inbox
           F == writer[n].fresh
           C == writer[n].candidates
           w == [writer[n] EXCEPT !.pc = "ended", !.inbox = Tail(@)]
<1>1. /\ Receives(n, "finish") /\ Write(n, w) /\ UNCHANGED <<scan, count>>
      /\ rows' = [p \in Paths |-> IF p \in Remaining(n) THEN NoRow ELSE rows[p]]
  BY DEF DeleteRemaining
<1>2. /\ InboxOK(q, s.missing) /\ q # <<>> /\ q[1].type = "finish" /\ writer[n].pc = "idle"
      /\ 1 \in DOMAIN q /\ Carried(q[1]) = {} /\ Message(n) = q[1]
  <2>1. /\ InboxOK(q, s.missing) /\ q # <<>> /\ q[1].type = "finish" /\ writer[n].pc = "idle"
        /\ Message(n) = q[1]
    BY <1>1, Receiving
  <2>2. 1 \in DOMAIN q
    BY <2>1, TailInbox
  <2> QED BY <2>1, <2>2 DEF Carried
<1>3. w.pc = "ended" /\ w.inbox = Tail(q) /\ w.fresh = F /\ w.candidates = C
  BY <1>2, Fields
<1> HIDE DEF w
<1>4. ASSUME ReadingOK(s, writer[n], rows) PROVE ReadingOK(s, w, rows')
  <2>1. /\ BoxesOK(q, s.batch, F, s.pending, rows) /\ PendingOK(s, rows)
        /\ OrderOK(s.pc, q, F, C)
        /\ Covered(s.roots, q, s.batch, F, C, s.pending, rows)
    BY <1>4 DEF ReadingOK
  <2>2. F = {} /\ s.pc = "join" /\ q[1].delete /\ Len(q) = 1 /\ \A c \in C : ~OnDisk(c.path)
    BY <1>2, <2>1 DEF OrderOK
  <2>3. s.pending = {} /\ s.batch = {} /\ \A i \in DOMAIN q : i = 1
    BY <1>2, <1>4, <2>2, TailAt DEF ReadingOK
  <2>4. Remaining(n) = {c.path : c \in C}
    BY <1>2, <2>2 DEF Remaining
  <2>5. ASSUME NEW c \in C, c.path \in Paths PROVE Exact(c.path, rows')
    BY <1>1, <2>2, <2>4, <2>5 DEF Exact, OnDisk, NoRow, NoFile
  <2>6. ASSUME NEW p \in Paths, \A c \in C : c.path # p PROVE rows'[p] = rows[p]
    BY <1>1, <2>4, <2>6
  <2>7. \A p \in Paths : Exact(p, rows) => Exact(p, rows')
    BY <2>5, <2>6 DEF Exact
  <2>8. \A p \in Under(s.roots) : Exact(p, rows')
    <3>1. ASSUME NEW p \in Under(s.roots) PROVE Exact(p, rows')
      <4>1. p \in Paths
        BY DEF Under
      <4>2. ~Held(q, s.batch, F, p)
        BY <1>2, <2>2, <2>3 DEF Held
      <4>3. Goes(q, C, p) => \E c \in C : c.path = p
        BY <1>2, <2>3 DEF Goes
      <4> QED BY <2>1, <2>3, <2>5, <2>7, <4>1, <4>2, <4>3 DEF Covered
    <3> QED BY <3>1
  <2>9. BoxesOK(w.inbox, s.batch, w.fresh, s.pending, rows')
    <3>1. \A p \in Paths : OnDisk(p) => rows'[p] = rows[p]
      BY <2>2, <2>6
    <3> QED BY <1>2, <1>3, <2>1, <2>2, <3>1, BoxesTail
  <2>10. OrderOK(s.pc, w.inbox, w.fresh, w.candidates)
    BY <1>2, <1>3, <2>1, <2>2, OrderTail
  <2>11. Covered(s.roots, w.inbox, s.batch, w.fresh, w.candidates, s.pending, rows')
    BY <2>8 DEF Covered
  <2>12. PendingOK(s, rows')
    BY <2>3 DEF PendingOK
  <2> QED BY <1>3, <1>4, <2>2, <2>8, <2>9, <2>10, <2>11, <2>12 DEF ReadingOK
<1>5. /\ Set(scan, scan', n, s) /\ writer' = [writer EXCEPT ![n] = w]
      /\ UNCHANGED <<file, down, edit>>
  BY <1>1 DEF Write, Set
<1> QED BY <1>2, <1>4, <1>5, WriterCalm

LEMMA StoreFailsCalm ==
  ASSUME ScanInv, StampsOK, AllCalmOK, NEW n \in Ids, StoreFails(n) PROVE AllCalmOK'
<1> DEFINE s == [scan[n] EXCEPT !.calm = FALSE]
           w == [writer[n] EXCEPT !.pc = "failed", !.inbox = <<>>]
<1>1. /\ Set(scan, scan', n, s) /\ Set(writer, writer', n, w) /\ writer[n].pc = "idle"
      /\ UNCHANGED <<file, down, edit>>
  BY DEF StoreFails, Write, Set
<1>2. s.calm = FALSE
  BY Fields DEF ScanFields
<1>3. Running(n)
  BY <1>1, Fields DEF StampedOK, Unstarted, Running
<1> HIDE DEF s, w
<1> QED BY <1>1, <1>2, <1>3, CalmStep

----------------------------------------------------------------------------
\* What the writer of a calm scan knows of an item before it.
LEMMA ItemKnown ==
  ASSUME ScanInv, StampsOK, NEW n \in Ids, Receives(n, "tracks"), NEW x \in Message(n).items,
         ReadingOK(scan[n], writer[n], rows)
  PROVE  /\ InboxOK(writer[n].inbox, scan[n].missing) /\ writer[n].inbox # <<>>
         /\ writer[n].inbox[1].type = "tracks" /\ x \in writer[n].inbox[1].items
         /\ x.path \in Paths /\ OnDisk(x.path) /\ (x.prior <=> Stored(x.path))
         /\ x.stamp = file[x.path].stamp /\ x.tags = file[x.path].holds
         /\ \A c \in writer[n].candidates : ~OnDisk(c.path)
<1>1. /\ InboxOK(writer[n].inbox, scan[n].missing) /\ writer[n].inbox # <<>>
      /\ writer[n].inbox[1].type = "tracks" /\ x \in writer[n].inbox[1].items
  BY Receiving
<1>2. 1 \in DOMAIN writer[n].inbox /\ x \in Carried(writer[n].inbox[1])
  BY <1>1, TailInbox DEF Carried
<1>3. x.path \in Paths /\ OnDisk(x.path) /\ x = ItemOf(x.path, rows)
  BY <1>2 DEF ReadingOK, BoxesOK, InBox
<1>4. /\ x.prior <=> Stored(x.path)
      /\ x.stamp = file[x.path].stamp /\ x.tags = file[x.path].holds
  <2>1. PICK p : p = x.path
    OBVIOUS
  <2>2. x = [path |-> p, stamp |-> file[p].stamp, tags |-> file[p].holds,
             prior |-> rows[p] # NoRow]
    BY <1>3, <2>1 DEF ItemOf
  <2>3. (x.prior <=> rows[p] # NoRow) /\ x.stamp = file[p].stamp /\ x.tags = file[p].holds
    BY <2>2
  <2> QED BY <2>1, <2>3 DEF Stored
<1>5. \A c \in writer[n].candidates : ~OnDisk(c.path)
  BY DEF ReadingOK, OrderOK
<1> QED BY <1>1, <1>3, <1>4, <1>5

LEMMA ItemCalm ==
  ASSUME ScanInv, StampsOK, AllCalmOK, NEW n \in Ids, Receives(n, "tracks"), NEW v,
         Write(n, v), UNCHANGED scan,
         ReadingOK(scan[n], writer[n], rows) => ReadingOK(scan[n], v, rows')
  PROVE  AllCalmOK'
<1>1. /\ Set(scan, scan', n, scan[n]) /\ writer' = [writer EXCEPT ![n] = v]
      /\ UNCHANGED <<file, down, edit>> /\ writer[n].pc = "idle"
  BY DEF Write, Set, Receives
<1> QED BY <1>1, WriterCalm

LEMMA UpdateCalm ==
  ASSUME ScanInv, StampsOK, AllCalmOK, NEW n \in Ids, Receives(n, "tracks"),
         NEW x \in Message(n).items, UpdateTrack(n, x)
  PROVE  AllCalmOK'
<1> DEFINE w == writer[n]
           v == Persisted(w, x)
<1>1. /\ Write(n, v) /\ UNCHANGED scan
      /\ rows' = [rows EXCEPT ![x.path] = RowOf(x, rows[x.path].id)]
  BY DEF UpdateTrack
<1>2. /\ v.pc = "idle" /\ v.inbox = Without(w.inbox, x) /\ v.fresh = w.fresh
      /\ v.candidates = w.candidates /\ w.pc = "idle"
  <2>1. w.pc = "idle" /\ DOMAIN w = {"pc", "inbox", "candidates", "fresh", "robbed"}
    BY Receiving
  <2> HIDE DEF w
  <2> QED BY <2>1, PersistedFields
<1> HIDE DEF v
<1>3. ASSUME ReadingOK(scan[n], w, rows) PROVE ReadingOK(scan[n], v, rows')
  <2>1. /\ InboxOK(w.inbox, scan[n].missing) /\ w.inbox # <<>>
        /\ w.inbox[1].type = "tracks" /\ x \in w.inbox[1].items
        /\ x.path \in Paths /\ x.stamp = file[x.path].stamp /\ x.tags = file[x.path].holds
    BY <1>3, ItemKnown
  <2>2. Exact(x.path, rows')
    BY <1>1, <2>1 DEF Exact, RowOf, ScanInv, RowsOK
  <2>3. \A p \in Paths : p # x.path => rows'[p] = rows[p]
    BY <1>1 DEF ScanInv, RowsOK
  <2>4. \A p \in Paths : p # x.path /\ Exact(p, rows) => Exact(p, rows')
    BY <2>3 DEF Exact
  <2> QED BY <1>2, <1>3, <2>1, <2>2, <2>3, <2>4, ItemDone
<1> QED BY <1>1, <1>3, ItemCalm

LEMMA NotMovedCalm ==
  ASSUME ScanInv, StampsOK, AllCalmOK, NEW n \in Ids, Receives(n, "tracks"),
         NEW x \in Message(n).items, NotMoved(n, x)
  PROVE  AllCalmOK'
<1> DEFINE w == writer[n]
           u == Persisted(w, x)
           v == [u EXCEPT !.fresh = @ \cup {x}]
<1>1. Write(n, v) /\ UNCHANGED <<scan, rows>> /\ ~Updated(x)
  BY DEF NotMoved
<1>2. /\ u.pc = "idle" /\ u.inbox = Without(w.inbox, x) /\ u.fresh = w.fresh
      /\ u.candidates = w.candidates /\ w.pc = "idle"
      /\ DOMAIN u = {"pc", "inbox", "candidates", "fresh", "robbed"}
  <2>1. w.pc = "idle" /\ DOMAIN w = {"pc", "inbox", "candidates", "fresh", "robbed"}
    BY Receiving
  <2> HIDE DEF w
  <2> QED BY <2>1, PersistedFields
<1> HIDE DEF u
<1>3. /\ v.pc = "idle" /\ v.inbox = Without(w.inbox, x) /\ v.fresh = w.fresh \cup {x}
      /\ v.candidates = w.candidates
  BY <1>2
<1> HIDE DEF v
<1>4. ASSUME ReadingOK(scan[n], w, rows) PROVE ReadingOK(scan[n], v, rows)
  <2>1. /\ InboxOK(w.inbox, scan[n].missing) /\ w.inbox # <<>>
        /\ w.inbox[1].type = "tracks" /\ x \in w.inbox[1].items /\ ~x.prior
    BY <1>1, <1>4, ItemKnown DEF Updated
  <2> QED BY <1>2, <1>3, <1>4, <2>1, ItemDone
<1> QED BY <1>1, <1>4, ItemCalm

LEMMA MoveCalm ==
  ASSUME ScanInv, StampsOK, AllCalmOK, NEW n \in Ids, Receives(n, "tracks"),
         NEW x \in Message(n).items, NEW c \in writer[n].candidates, MoveTrack(n, x, c)
  PROVE  AllCalmOK'
<1> DEFINE w == writer[n]
           u == Persisted(w, x)
           v == [u EXCEPT !.candidates = @ \ {c}]
           y == [v EXCEPT !.fresh = @ \cup {x}, !.robbed = @ \cup {x.tags}]
           z == [v EXCEPT !.pc = "failed", !.inbox = <<>>]
<1>1. /\ UNCHANGED scan /\ ~Updated(x)
      /\ \/ Stored(c.path) /\ ~Stored(x.path) /\ rows' = MovedRow(c.path, x) /\ Write(n, v)
         \/ ~Stored(c.path) /\ UNCHANGED rows /\ Write(n, y)
         \/ Stored(c.path) /\ Stored(x.path) /\ Write(n, z)
  BY DEF MoveTrack
<1>2. /\ u.pc = "idle" /\ u.inbox = Without(w.inbox, x) /\ u.fresh = w.fresh
      /\ u.candidates = w.candidates /\ w.pc = "idle"
      /\ DOMAIN u = {"pc", "inbox", "candidates", "fresh", "robbed"}
  <2>1. w.pc = "idle" /\ DOMAIN w = {"pc", "inbox", "candidates", "fresh", "robbed"}
    BY Receiving
  <2> HIDE DEF w
  <2> QED BY <2>1, PersistedFields
<1> HIDE DEF u
<1>3. /\ v.pc = "idle" /\ v.inbox = Without(w.inbox, x) /\ v.fresh = w.fresh
      /\ v.candidates = w.candidates \ {c}
      /\ DOMAIN v = {"pc", "inbox", "candidates", "fresh", "robbed"}
  BY <1>2
<1> HIDE DEF v
<1>4. /\ y.pc = "idle" /\ y.inbox = Without(w.inbox, x) /\ y.fresh = w.fresh \cup {x}
      /\ y.candidates = w.candidates \ {c}
  BY <1>3
<1> HIDE DEF y, z
<1>5. ASSUME ReadingOK(scan[n], w, rows)
      PROVE  /\ InboxOK(w.inbox, scan[n].missing) /\ w.inbox # <<>>
             /\ w.inbox[1].type = "tracks" /\ x \in w.inbox[1].items
             /\ x.path \in Paths /\ x.stamp = file[x.path].stamp /\ x.tags = file[x.path].holds
             /\ ~x.prior /\ ~Stored(x.path) /\ x.path # c.path /\ ~OnDisk(c.path)
  <2>1. x.prior <=> Stored(x.path)
    BY <1>5, ItemKnown
  <2>2. ~x.prior
    BY <1>1, <2>1 DEF Updated
  <2>3. OnDisk(x.path) /\ ~OnDisk(c.path)
    BY <1>5, ItemKnown
  <2> QED BY <1>5, <2>1, <2>2, <2>3, ItemKnown
<1>6. \A p \in Paths : OnDisk(p) \/ file[p] = NoFile
  BY DEF OnDisk
<1>7. CASE Stored(c.path) /\ ~Stored(x.path) /\ rows' = MovedRow(c.path, x) /\ Write(n, v)
  <2>1. ASSUME ReadingOK(scan[n], w, rows) PROVE ReadingOK(scan[n], v, rows')
    <3>1. rows' = [[rows EXCEPT ![c.path] = NoRow] EXCEPT ![x.path] = RowOf(x, rows[c.path].id)]
      BY <1>7 DEF MovedRow
    <3>2. /\ x.path \in Paths /\ x.path # c.path /\ ~OnDisk(c.path) /\ DOMAIN rows = Paths
          /\ x.stamp = file[x.path].stamp /\ x.tags = file[x.path].holds
      BY <1>5, <2>1 DEF ScanInv, RowsOK
    <3>3. /\ rows'[x.path] = RowOf(x, rows[c.path].id)
          /\ c.path \in Paths => rows'[c.path] = NoRow
          /\ \A p \in Paths : p # x.path /\ p # c.path => rows'[p] = rows[p]
      BY <3>1, <3>2
    <3>4. Exact(x.path, rows')
      BY <3>2, <3>3 DEF Exact, RowOf
    <3>5. c.path \in Paths => Exact(c.path, rows')
      BY <1>6, <3>2, <3>3 DEF Exact, NoRow, NoFile
    <3>6. \A p \in Paths : p # x.path /\ OnDisk(p) => rows'[p] = rows[p]
      BY <3>2, <3>3
    <3>7. \A p \in Paths : p # x.path /\ Exact(p, rows) => Exact(p, rows')
      BY <3>3, <3>5 DEF Exact
    <3>8. \A d \in w.candidates : d.path \in Paths => d \in v.candidates \/ Exact(d.path, rows')
      BY <1>3, <3>5
    <3> QED BY <1>2, <1>3, <1>5, <2>1, <3>4, <3>6, <3>7, <3>8, ItemDone
  <2> QED BY <1>1, <1>7, <2>1, ItemCalm
<1>8. CASE ~Stored(c.path) /\ UNCHANGED rows /\ Write(n, y)
  <2>1. ASSUME ReadingOK(scan[n], w, rows) PROVE ReadingOK(scan[n], y, rows)
    <3>1. c.path \in Paths => Exact(c.path, rows)
      BY <1>5, <1>6, <1>8, <2>1 DEF Exact, Stored, NoRow, NoFile
    <3>2. \A d \in w.candidates : d.path \in Paths => d \in y.candidates \/ Exact(d.path, rows)
      BY <1>4, <3>1
    <3> QED BY <1>2, <1>4, <1>5, <2>1, <3>2, ItemDone
  <2> QED BY <1>1, <1>8, <2>1, ItemCalm
<1>9. CASE Stored(c.path) /\ Stored(x.path) /\ Write(n, z)
  <2>1. ~ReadingOK(scan[n], w, rows)
    BY <1>5, <1>9
  <2> QED BY <1>1, <1>9, <2>1, ItemCalm
<1> QED BY <1>1, <1>7, <1>8, <1>9

LEMMA WriterStepCalm ==
  ASSUME ScanInv, StampsOK, AllCalmOK, NEW n \in Ids, WriterStep(n) PROVE AllCalmOK'
BY LoadRowsCalm, UpsertCalm, DeleteCalm, StoreFailsCalm, UpdateCalm, NotMovedCalm, MoveCalm
   DEF WriterStep

----------------------------------------------------------------------------
LEMMA NothingCalm == ASSUME AllCalmOK, UNCHANGED vars PROVE AllCalmOK'
<1>1. UNCHANGED <<file, down, rows, scan, writer, edit>>
  BY DEF vars
<1>2. ASSUME NEW n \in Ids, scan[n].calm
      PROVE  /\ edit'.pc = "idle" /\ \A m \in Ids : m # n => ~Running(m)'
             /\ Phase(scan[n], writer[n], rows)'
  <2>1. /\ edit.pc = "idle" /\ \A m \in Ids : m # n => ~Running(m)
        /\ Phase(scan[n], writer[n], rows)
    BY <1>2 DEF AllCalmOK, CalmOK
  <2>2. Phase(scan[n], writer[n], rows)'
    BY <1>1, <2>1, PhaseKept
  <2> QED BY <1>1, <2>1, <2>2 DEF Running
<1> QED BY <1>1, <1>2 DEF AllCalmOK, CalmOK

LEMMA NextCalm ==
  ASSUME ScanInv, StampsOK, AllCalmOK, StampIsHonest, [Next]_vars PROVE AllCalmOK'
BY NothingCalm, OutsideCalm, BackendCalm, EditorCalm, ScannerCalm, WriterStepCalm DEF Next

LEMMA CalmInit == Init => AllCalmOK
BY DEF Init, Unscanned, AllCalmOK, CalmOK

LEMMA CalmIsExact == AllCalmOK => CalmScanIsExact
BY DEF AllCalmOK, CalmOK, Phase, Exact, CalmScanIsExact

\* A scan nothing interfered with leaves the rows of its folders as the files
\* are, whatever earlier scans were cancelled, failed or overlapped: if a row
\* with the stamp of its file holds what the file holds, for the scan does not
\* read such a file again (scanner/mod.rs:110).
THEOREM CalmScansAreExact == Spec /\ []StampIsHonest => []CalmScanIsExact
<1>1. Init => ScanInv /\ StampsOK /\ AllCalmOK
  BY ScanInit, StampsInit, CalmInit
<1>2. ScanInv /\ StampsOK /\ AllCalmOK /\ StampIsHonest /\ [Next]_vars
        => (ScanInv /\ StampsOK /\ AllCalmOK)'
  BY NextKeeps, NextStamps, NextCalm
<1> QED BY <1>1, <1>2, CalmIsExact, PTL DEF Spec

----------------------------------------------------------------------------
(* What a step brings to a scan, to its writer and to the rows.            *)

OnWay(q, B, F) == B \cup F \cup UNION {Carried(q[i]) : i \in DOMAIN q}

\* The items a scan has read and not stored yet.
Items(s, w) == OnWay(w.inbox, s.batch, w.fresh)

LEMMA OnWayAppended ==
  ASSUME NEW q, NEW M, InboxOK(q, M), NEW B, NEW F, NEW m, Carried(m) \subseteq B
  PROVE  OnWay(Append(q, m), B, F) \subseteq OnWay(q, B, F)
<1>1. \A i \in DOMAIN Append(q, m) :
        Append(q, m)[i] = m \/ (i \in DOMAIN q /\ Append(q, m)[i] = q[i])
  BY AppendAt
<1> QED BY <1>1 DEF OnWay

LEMMA OnWayTail ==
  ASSUME NEW q, NEW M, InboxOK(q, M), q # <<>>, NEW B, NEW F
  PROVE  OnWay(Tail(q), B, F) \subseteq OnWay(q, B, F)
<1>1. \A i \in DOMAIN Tail(q) : i + 1 \in DOMAIN q /\ Tail(q)[i] = q[i + 1]
  BY TailAt
<1> QED BY <1>1 DEF OnWay

LEMMA OnWayWithout ==
  ASSUME NEW q, NEW M, InboxOK(q, M), q # <<>>, q[1].type = "tracks", NEW x \in q[1].items,
         NEW B, NEW F
  PROVE  /\ OnWay(Without(q, x), B, F \cup {x}) \subseteq OnWay(q, B, F)
         /\ OnWay(Without(q, x), B, F) \subseteq OnWay(q, B, F)
         /\ OnWay(<<>>, B, F) \subseteq OnWay(q, B, F)
         /\ x \in OnWay(q, B, F)
<1>1. /\ DOMAIN Without(q, x) = DOMAIN q /\ 1 \in DOMAIN q /\ Carried(q[1]) = q[1].items
      /\ Carried(Without(q, x)[1]) = Carried(q[1]) \ {x}
      /\ \A i \in DOMAIN q : i # 1 => Without(q, x)[i] = q[i]
  BY WithoutAt
<1>2. x \in OnWay(q, B, F)
  BY <1>1 DEF OnWay
<1>3. \A i \in DOMAIN q : Carried(Without(q, x)[i]) \subseteq Carried(q[i])
  BY <1>1
<1>4. OnWay(Without(q, x), B, F) \subseteq OnWay(q, B, F)
  BY <1>1, <1>3 DEF OnWay
<1>5. OnWay(Without(q, x), B, F \cup {x}) = OnWay(Without(q, x), B, F) \cup {x}
  BY DEF OnWay
<1>6. OnWay(<<>>, B, F) \subseteq OnWay(q, B, F)
  BY DEF OnWay
<1> QED BY <1>2, <1>4, <1>5, <1>6

\* Scan n, with its writer, may become t and v.
Follows(n, t, v) ==
  LET s == scan[n] IN
  /\ t.roots = s.roots
  /\ t.pc \notin {"off", "done"} => Running(n)
  /\ s.pc = "purge" => Purge(n) \/ ScanFails(n) \/ (t.pc = "purge" /\ t.purge = s.purge)
  /\ t.pc = "walk" => \/ s.pc = "walk" /\ t.left \subseteq s.left /\ t.todo \subseteq s.todo \cup Under(s.left)
                      \/ s.pc = "load" /\ t.left = s.roots /\ t.todo = {}
  /\ \A p \in Paths : \/ t.seen[p] \in {0, s.seen[p]}
                      \/ s.pc = "walk" /\ p \in s.todo /\ t.seen[p] = file[p].stamp
  /\ t.pc = "read" => \A p \in t.pending :
       \/ s.pc = "read" /\ p \in s.pending
       \/ s.pc = "walk" /\ p \in Paths /\ s.seen[p] # 0
  /\ \A x \in Items(t, v) :
       \/ x \in Items(s, writer[n])
       \/ \E p \in s.pending : s.pc = "read" /\ ReadFile(n, p) /\ x = Read(s, p)

LEMMA StaysFollows ==
  ASSUME NEW n, NEW t, t.roots = scan[n].roots, t.pc = scan[n].pc, t.purge = scan[n].purge,
         t.left = scan[n].left, t.todo = scan[n].todo, t.seen = scan[n].seen,
         t.pending = scan[n].pending, t.batch = scan[n].batch,
         NEW v, Items(scan[n], v) \subseteq Items(scan[n], writer[n])
  PROVE  Follows(n, t, v)
<1>1. Items(t, v) = Items(scan[n], v)
  BY DEF Items
<1> QED BY <1>1 DEF Follows, Running

AllFollow == \A n \in Ids : Follows(n, scan'[n], writer'[n])

LEMMA StepFollows ==
  ASSUME ScanInv, NEW n \in Ids, NEW t, NEW v,
         Set(scan, scan', n, t), Set(writer, writer', n, v), Follows(n, t, v)
  PROVE  AllFollow
<1>1. DOMAIN scan = Ids /\ DOMAIN writer = Ids
  BY DEF ScanInv, ScansOK
<1>2. scan'[n] = t /\ writer'[n] = v
  BY <1>1 DEF Set
<1>3. ASSUME NEW m \in Ids, m # n PROVE Follows(m, scan'[m], writer'[m])
  <2>1. scan'[m] = scan[m] /\ writer'[m] = writer[m]
    BY <1>1, <1>3 DEF Set
  <2>2. Follows(m, scan[m], writer[m])
    BY StaysFollows
  <2> QED BY <2>1, <2>2
<1> QED BY <1>2, <1>3 DEF AllFollow

LEMMA QuietlyFollows ==
  ASSUME ScanInv, NEW n \in Ids, NEW t, Quietly(n, t), Follows(n, t, writer[n])
  PROVE  AllFollow
<1>1. Set(scan, scan', n, t) /\ Set(writer, writer', n, writer[n])
  BY DEF Quietly, Step, Set
<1> QED BY <1>1, StepFollows

LEMMA PurgeFollows == ASSUME ScanInv, StampsOK, NEW n \in Ids, Purge(n) PROVE AllFollow
<1> DEFINE t == [scan[n] EXCEPT !.pc = IF scan[n].roots = {} THEN "done" ELSE "load"]
<1>1. DOMAIN scan[n] = ScanFields
  BY Fields
<1>2. scan[n].pc = "purge" /\ Set(scan, scan', n, t) /\ Set(writer, writer', n, writer[n])
  BY DEF Purge, Set
<1>3. /\ t.pc \in {"done", "load"} /\ t.batch = scan[n].batch /\ t.roots = scan[n].roots
      /\ t.seen = scan[n].seen
  BY <1>1 DEF ScanFields
<1> HIDE DEF t
<1>4. Items(t, writer[n]) = Items(scan[n], writer[n])
  BY <1>3 DEF Items
<1>5. Follows(n, t, writer[n])
  BY <1>2, <1>3, <1>4 DEF Follows, Running
<1> QED BY <1>2, <1>5, StepFollows

LEMMA LoadFollows == ASSUME ScanInv, StampsOK, NEW n \in Ids, SizeMtimeMap(n) PROVE AllFollow
<1> DEFINE K == [p \in Paths |-> rows[p].stamp]
           t == [scan[n] EXCEPT !.pc = "walk", !.left = scan[n].roots, !.known = K]
<1>1. DOMAIN scan[n] = ScanFields /\ ThreadsOK(scan[n], writer[n])
  BY Fields
<1>2. scan[n].pc = "load" /\ Quietly(n, t)
  BY DEF SizeMtimeMap
<1>3. scan[n].todo = {}
  BY <1>1, <1>2 DEF ThreadsOK, NotBegun
<1> HIDE DEF K
<1>4. /\ t.pc = "walk" /\ t.batch = scan[n].batch /\ t.roots = scan[n].roots
      /\ t.seen = scan[n].seen /\ t.left = scan[n].roots /\ t.todo = scan[n].todo
  BY <1>1 DEF ScanFields
<1> HIDE DEF t
<1>5. Items(t, writer[n]) = Items(scan[n], writer[n])
  BY <1>4 DEF Items
<1>6. Follows(n, t, writer[n])
  BY <1>2, <1>3, <1>4, <1>5 DEF Follows, Running
<1> QED BY <1>2, <1>6, QuietlyFollows

\* A step of the walk that has found at most the file at p.
LEMMA WalkFollows ==
  ASSUME ScanInv, NEW n \in Ids, scan[n].pc = "walk", NEW t, t.pc = "walk",
         t.roots = scan[n].roots, t.batch = scan[n].batch, t.left \subseteq scan[n].left,
         t.todo \subseteq scan[n].todo \cup Under(scan[n].left),
         \A p \in Paths : t.seen[p] = scan[n].seen[p] \/ (p \in scan[n].todo /\ t.seen[p] = file[p].stamp)
  PROVE  Follows(n, t, writer[n])
<1>1. Items(t, writer[n]) = Items(scan[n], writer[n])
  BY DEF Items
<1> QED BY <1>1 DEF Follows, Running

LEMMA WalkRootFollows ==
  ASSUME ScanInv, StampsOK, NEW n \in Ids, NEW r, WalkRoot(n, r) PROVE AllFollow
<1> DEFINE v == Walked(scan[n])
           t == [v EXCEPT !.left = @ \ {r}, !.calm = FALSE]
           u == [v EXCEPT !.left = @ \ {r}, !.at = r, !.todo = Under({r})]
<1>1. DOMAIN scan[n] = ScanFields
  BY Fields
<1>2. /\ DOMAIN v = ScanFields /\ v.pc = scan[n].pc /\ v.batch = scan[n].batch
      /\ v.roots = scan[n].roots /\ v.left = scan[n].left /\ v.todo = scan[n].todo
      /\ v.seen = scan[n].seen
  BY <1>1, WalkedFields, WalkedRoots
<1>3. scan[n].pc = "walk" /\ r \in scan[n].left /\ (Quietly(n, t) \/ Quietly(n, u))
  BY <1>2 DEF WalkRoot
<1> HIDE DEF v
<1>4. /\ t.pc = v.pc /\ t.batch = v.batch /\ t.roots = v.roots /\ t.left = v.left \ {r}
      /\ t.todo = v.todo /\ t.seen = v.seen
  BY <1>2 DEF ScanFields
<1>5. /\ u.pc = v.pc /\ u.batch = v.batch /\ u.roots = v.roots /\ u.left = v.left \ {r}
      /\ u.todo = Under({r}) /\ u.seen = v.seen
  BY <1>2 DEF ScanFields
<1> HIDE DEF t, u
<1>6. Under({r}) \subseteq Under(scan[n].left)
  BY <1>3 DEF Under
<1>7. Follows(n, t, writer[n])
  BY <1>2, <1>3, <1>4, WalkFollows
<1>8. Follows(n, u, writer[n])
  BY <1>2, <1>3, <1>5, <1>6, WalkFollows
<1> QED BY <1>3, <1>7, <1>8, QuietlyFollows

LEMMA VisitFollows ==
  ASSUME ScanInv, StampsOK, NEW n \in Ids, NEW q, VisitEntry(n, q) PROVE AllFollow
<1> DEFINE t == Found(scan[n], q)
<1>1. DOMAIN scan[n] = ScanFields /\ DOMAIN scan[n].seen = Paths
  BY Fields
<1>2. scan[n].pc = "walk" /\ q \in scan[n].todo /\ Quietly(n, t)
  BY DEF VisitEntry, Walking
<1>3. /\ t.pc = scan[n].pc /\ t.batch = scan[n].batch /\ t.roots = scan[n].roots
      /\ t.left = scan[n].left /\ t.todo = scan[n].todo \ {q}
  BY <1>1 DEF ScanFields, Found
<1>4. t.seen = [scan[n].seen EXCEPT ![q] = file[q].stamp]
  BY <1>1 DEF ScanFields, Found
<1> HIDE DEF t
<1>5. \A p \in Paths : t.seen[p] = scan[n].seen[p] \/ (p \in scan[n].todo /\ t.seen[p] = file[p].stamp)
  BY <1>1, <1>2, <1>4
<1>6. Follows(n, t, writer[n])
  BY <1>2, <1>3, <1>5, WalkFollows
<1> QED BY <1>2, <1>6, QuietlyFollows

LEMMA RootFailsFollows ==
  ASSUME ScanInv, StampsOK, NEW n \in Ids, RootFails(n) PROVE AllFollow
<1> DEFINE t == [scan[n] EXCEPT !.at = NoRoot, !.todo = {}]
<1>1. DOMAIN scan[n] = ScanFields
  BY Fields
<1>2. scan[n].pc = "walk" /\ Quietly(n, t)
  BY DEF RootFails, Walking
<1>3. /\ t.pc = scan[n].pc /\ t.batch = scan[n].batch /\ t.roots = scan[n].roots
      /\ t.left = scan[n].left /\ t.todo = {} /\ t.seen = scan[n].seen
  BY <1>1 DEF ScanFields
<1> HIDE DEF t
<1>4. Follows(n, t, writer[n])
  BY <1>2, <1>3, WalkFollows
<1> QED BY <1>2, <1>4, QuietlyFollows

LEMMA ScanFailsFollows ==
  ASSUME ScanInv, StampsOK, NEW n \in Ids, ScanFails(n) PROVE AllFollow
<1> DEFINE t == [scan[n] EXCEPT !.pc = "done", !.calm = FALSE]
<1>1. DOMAIN scan[n] = ScanFields
  BY Fields
<1>2. Set(scan, scan', n, t) /\ Set(writer, writer', n, writer[n])
  BY DEF ScanFails, Set
<1>3. /\ t.pc = "done" /\ t.batch = scan[n].batch /\ t.roots = scan[n].roots
      /\ t.seen = scan[n].seen
  BY <1>1 DEF ScanFields
<1> HIDE DEF t
<1>4. Items(t, writer[n]) = Items(scan[n], writer[n])
  BY <1>3 DEF Items
<1>5. Follows(n, t, writer[n])
  BY <1>3, <1>4 DEF Follows
<1> QED BY <1>2, <1>5, StepFollows

LEMMA EntryFailsFollows ==
  ASSUME ScanInv, StampsOK, NEW n \in Ids, NEW q, EntryFails(n, q) PROVE AllFollow
<1> DEFINE t == PassedOver(scan[n], q)
<1>1. DOMAIN scan[n] = ScanFields
  BY Fields
<1>2. scan[n].pc = "walk" /\ Set(scan, scan', n, t) /\ Set(writer, writer', n, writer[n])
  BY DEF EntryFails, Walking, Set
<1>3. /\ t.pc = scan[n].pc /\ t.batch = scan[n].batch /\ t.roots = scan[n].roots
      /\ t.left = scan[n].left /\ t.todo \subseteq scan[n].todo /\ t.seen = scan[n].seen
  BY <1>1 DEF ScanFields, PassedOver
<1> HIDE DEF t
<1>4. Follows(n, t, writer[n])
  BY <1>2, <1>3, WalkFollows
<1> QED BY <1>2, <1>4, StepFollows

LEMMA DirFailsFollows ==
  ASSUME ScanInv, StampsOK, NEW n \in Ids, NEW d, DirFails(n, d) PROVE AllFollow
<1> DEFINE t == Unlisted(scan[n], d)
<1>1. DOMAIN scan[n] = ScanFields
  BY Fields
<1>2. scan[n].pc = "walk" /\ Set(scan, scan', n, t) /\ Set(writer, writer', n, writer[n])
  BY DEF DirFails, Walking, Set
<1>3. /\ t.pc = scan[n].pc /\ t.batch = scan[n].batch /\ t.roots = scan[n].roots
      /\ t.left = scan[n].left /\ t.todo \subseteq scan[n].todo /\ t.seen = scan[n].seen
  BY <1>1 DEF ScanFields, Unlisted
<1> HIDE DEF t
<1>4. Follows(n, t, writer[n])
  BY <1>2, <1>3, WalkFollows
<1> QED BY <1>2, <1>4, StepFollows

LEMMA ClassifyFollows == ASSUME ScanInv, StampsOK, NEW n \in Ids, Classify(n) PROVE AllFollow
<1> DEFINE t == Classified(scan[n])
           P == ClassifyFiles(Walked(scan[n]))
<1>1. DOMAIN scan[n] = ScanFields
  BY Fields
<1>2. PICK w :
        /\ scan[n].pc = "walk" /\ Step(n, t) /\ writer' = [writer EXCEPT ![n] = w]
        /\ w.fresh = {}
        /\ w.inbox = IF VanishedRows(Walked(scan[n])) = {} THEN <<>>
                     ELSE <<Vanished(VanishedRows(Walked(scan[n])))>>
  BY ClassifyStep
<1>3. /\ t.pc = "read" /\ t.pending = P /\ t.seen = Only(P, scan[n].seen)
      /\ t.batch = scan[n].batch /\ t.roots = scan[n].roots
  BY <1>1, ClassifiedFields
<1>4. \A p \in P : p \in Paths /\ scan[n].seen[p] # 0
  BY <1>1, WalkedFields DEF ClassifyFiles
<1> HIDE DEF t, P
<1>5. Items(t, w) \subseteq Items(scan[n], writer[n])
  <2>1. \A i \in DOMAIN w.inbox : Carried(w.inbox[i]) = {}
    BY <1>2, VanishedInbox
  <2> QED BY <1>2, <1>3, <2>1 DEF Items, OnWay
<1>6. \A p \in Paths : t.seen[p] \in {0, scan[n].seen[p]}
  BY <1>3 DEF Only
<1>7. Follows(n, t, w)
  BY <1>2, <1>3, <1>4, <1>5, <1>6 DEF Follows, Running
<1>8. Set(scan, scan', n, t) /\ Set(writer, writer', n, w)
  BY <1>2 DEF Step, Set
<1> QED BY <1>7, <1>8, StepFollows

LEMMA TakesFollows ==
  ASSUME ScanInv, StampsOK, NEW n \in Ids, NEW s, scan[n].pc = "read", Takes(n, s),
         DOMAIN s = ScanFields, s.pc = "read", s.seen = scan[n].seen,
         s.pending \subseteq scan[n].pending, s.roots = scan[n].roots,
         \A x \in s.batch : \/ x \in scan[n].batch
                            \/ \E p \in scan[n].pending : ReadFile(n, p) /\ x = Read(scan[n], p)
  PROVE  AllFollow
<1>1. InboxOK(writer[n].inbox, scan[n].missing)
  BY Fields
<1>2. \A x \in OnWay(writer[n].inbox, s.batch, writer[n].fresh) :
        \/ x \in Items(scan[n], writer[n])
        \/ \E p \in scan[n].pending : ReadFile(n, p) /\ x = Read(scan[n], p)
  BY DEF OnWay, Items
<1>3. CASE IsFull(s)
  <2> DEFINE t == Emptied(s)
  <2>1. Step(n, t) /\ Send(n, Tracks(s.batch))
    BY <1>3 DEF Takes, Emptied
  <2>2. PICK w : /\ writer' = [writer EXCEPT ![n] = w] /\ w.fresh = writer[n].fresh
                 /\ w.inbox = IF writer[n].pc = "failed" THEN <<>>
                              ELSE Append(writer[n].inbox, Tracks(s.batch))
    BY <2>1, SendStep
  <2>3. Carried(Tracks(s.batch)) = s.batch
    BY DEF Carried, Tracks
  <2>4. OnWay(w.inbox, {}, w.fresh) \subseteq OnWay(writer[n].inbox, s.batch, writer[n].fresh)
    <3>1. OnWay(Append(writer[n].inbox, Tracks(s.batch)), s.batch, writer[n].fresh)
            \subseteq OnWay(writer[n].inbox, s.batch, writer[n].fresh)
      BY <1>1, <2>3, OnWayAppended
    <3>2. OnWay(w.inbox, {}, w.fresh) \subseteq OnWay(w.inbox, s.batch, w.fresh)
      BY DEF OnWay
    <3>3. OnWay(<<>>, s.batch, w.fresh) \subseteq OnWay(writer[n].inbox, s.batch, w.fresh)
      BY DEF OnWay
    <3> QED BY <2>2, <3>1, <3>2, <3>3
  <2>5. /\ t.pc = "read" /\ t.batch = {} /\ t.pending = s.pending /\ t.seen = s.seen
        /\ t.roots = s.roots
    BY EmptiedFields
  <2> HIDE DEF t
  <2>6. \A x \in Items(t, w) :
          \/ x \in Items(scan[n], writer[n])
          \/ \E p \in scan[n].pending : ReadFile(n, p) /\ x = Read(scan[n], p)
    BY <1>2, <2>4, <2>5 DEF Items
  <2>7. Follows(n, t, w)
    BY <2>5, <2>6 DEF Follows, Running
  <2>8. Set(scan, scan', n, t) /\ Set(writer, writer', n, w)
    BY <2>1, <2>2 DEF Step, Set
  <2> QED BY <2>7, <2>8, StepFollows
<1>4. CASE ~IsFull(s)
  <2>1. Quietly(n, s)
    BY <1>4 DEF Takes
  <2>2. Follows(n, s, writer[n])
    BY <1>2 DEF Follows, Running, Items
  <2> QED BY <2>1, <2>2, QuietlyFollows
<1> QED BY <1>3, <1>4

LEMMA ReadFollows ==
  ASSUME ScanInv, StampsOK, NEW n \in Ids, NEW p, ReadFile(n, p) \/ SkipUnreadable(n, p)
  PROVE  AllFollow
<1> DEFINE s == Taken(scan[n], p)
           t == Skipped(scan[n], p)
<1>1. DOMAIN scan[n] = ScanFields
  BY Fields
<1>2. /\ scan[n].pc = "read" /\ p \in scan[n].pending
      /\ (ReadFile(n, p) /\ Takes(n, s)) \/ Takes(n, t)
  BY DEF ReadFile, SkipUnreadable, MayRead, Taken, Skipped
<1>3. /\ DOMAIN s = ScanFields /\ s.pc = "read" /\ s.seen = scan[n].seen
      /\ s.pending \subseteq scan[n].pending /\ s.roots = scan[n].roots
      /\ s.batch = scan[n].batch \cup {Read(scan[n], p)}
  BY <1>1, <1>2, TakenFields
<1>4. /\ DOMAIN t = ScanFields /\ t.pc = "read" /\ t.seen = scan[n].seen
      /\ t.pending \subseteq scan[n].pending /\ t.roots = scan[n].roots
      /\ t.batch = scan[n].batch
  BY <1>1, <1>2, SkippedFields
<1> HIDE DEF s, t
<1>5. CASE ReadFile(n, p) /\ Takes(n, s)
  <2>1. \A x \in s.batch : \/ x \in scan[n].batch
                           \/ \E q \in scan[n].pending : ReadFile(n, q) /\ x = Read(scan[n], q)
    BY <1>2, <1>3, <1>5
  <2> QED BY <1>2, <1>3, <1>5, <2>1, TakesFollows
<1>6. CASE Takes(n, t)
  <2>1. \A x \in t.batch : \/ x \in scan[n].batch
                           \/ \E q \in scan[n].pending : ReadFile(n, q) /\ x = Read(scan[n], q)
    BY <1>4
  <2> QED BY <1>2, <1>4, <1>6, <2>1, TakesFollows
<1> QED BY <1>2, <1>5, <1>6

LEMMA FinishFollows == ASSUME ScanInv, StampsOK, NEW n \in Ids, SendFinish(n) PROVE AllFollow
<1> DEFINE t == [scan[n] EXCEPT !.pc = "join"]
           m == Finish(~scan[n].cancelled)
<1>1. DOMAIN scan[n] = ScanFields /\ InboxOK(writer[n].inbox, scan[n].missing)
  BY Fields
<1>2. scan[n].pc = "read" /\ Step(n, t) /\ Send(n, m) /\ Carried(m) = {}
  BY DEF SendFinish, Finish, Carried
<1>3. PICK w : /\ writer' = [writer EXCEPT ![n] = w] /\ w.fresh = writer[n].fresh
               /\ w.inbox = IF writer[n].pc = "failed" THEN <<>> ELSE Append(writer[n].inbox, m)
  BY <1>2, SendStep
<1>4. t.pc = "join" /\ t.batch = scan[n].batch /\ t.roots = scan[n].roots /\ t.seen = scan[n].seen
  BY <1>1, JoiningFields
<1>5. Set(scan, scan', n, t) /\ Set(writer, writer', n, w)
  BY <1>2, <1>3 DEF Step, Set
<1> HIDE DEF t, m
<1>6. Items(t, w) \subseteq Items(scan[n], writer[n])
  <2>1. OnWay(Append(writer[n].inbox, m), scan[n].batch, writer[n].fresh)
          \subseteq OnWay(writer[n].inbox, scan[n].batch, writer[n].fresh)
    BY <1>1, <1>2, OnWayAppended
  <2>2. OnWay(<<>>, scan[n].batch, writer[n].fresh)
          \subseteq OnWay(writer[n].inbox, scan[n].batch, writer[n].fresh)
    BY DEF OnWay
  <2> QED BY <1>3, <1>4, <2>1, <2>2 DEF Items
<1>7. Follows(n, t, w)
  BY <1>2, <1>4, <1>6 DEF Follows, Running
<1> QED BY <1>5, <1>7, StepFollows

LEMMA JoinFollows == ASSUME ScanInv, StampsOK, NEW n \in Ids, JoinWriter(n) PROVE AllFollow
<1> DEFINE t == Joined(scan[n])
<1>1. scan[n].pc = "join" /\ Set(scan, scan', n, t) /\ Set(writer, writer', n, Unstarted)
  BY DEF JoinWriter, Step, Set, Joined
<1>2. t.pc = "done" /\ t.batch = {} /\ t.roots = scan[n].roots
  BY JoinedFields
<1>3. t.seen = [p \in Paths |-> 0]
  BY DEF Joined, Unscanned
<1> HIDE DEF t
<1>4. Items(t, Unstarted) = {}
  BY <1>2 DEF Items, OnWay, Unstarted
<1>5. Follows(n, t, Unstarted)
  BY <1>1, <1>2, <1>3, <1>4 DEF Follows
<1> QED BY <1>1, <1>5, StepFollows

LEMMA ScannerFollows == ASSUME ScanInv, StampsOK, NEW n \in Ids, Scanner(n) PROVE AllFollow
BY PurgeFollows, ScanFailsFollows, LoadFollows, RootFailsFollows, ClassifyFollows,
   WalkRootFollows, VisitFollows, EntryFailsFollows, DirFailsFollows, ReadFollows, FinishFollows, JoinFollows DEF Scanner

\* The writer of scan n is done with w, and the scan kept what matters here.
LEMMA WriteFollows ==
  ASSUME ScanInv, NEW n \in Ids, NEW t, NEW w,
         Set(scan, scan', n, t), writer' = [writer EXCEPT ![n] = w],
         t.roots = scan[n].roots, t.pc = scan[n].pc, t.purge = scan[n].purge,
         t.left = scan[n].left, t.todo = scan[n].todo, t.seen = scan[n].seen,
         t.pending = scan[n].pending, t.batch = scan[n].batch,
         OnWay(w.inbox, scan[n].batch, w.fresh)
           \subseteq OnWay(writer[n].inbox, scan[n].batch, writer[n].fresh)
  PROVE  AllFollow
<1>1. Follows(n, t, w)
  BY StaysFollows DEF Items
<1>2. Set(writer, writer', n, w)
  BY DEF Set
<1> QED BY <1>1, <1>2, StepFollows

LEMMA LoadRowsFollows == ASSUME ScanInv, StampsOK, NEW n \in Ids, LoadRows(n) PROVE AllFollow
<1> DEFINE C == {[path |-> p, tags |-> rows[p].tags] : p \in {q \in Message(n).paths : Stored(q)}}
           w == [writer[n] EXCEPT !.inbox = Tail(@), !.candidates = C]
<1>1. Receives(n, "vanished") /\ Write(n, w) /\ UNCHANGED <<rows, scan, count>>
  BY DEF LoadRows
<1> HIDE DEF C
<1>2. w.inbox = Tail(writer[n].inbox) /\ w.fresh = writer[n].fresh
  BY <1>1, Receiving
<1>3. OnWay(w.inbox, scan[n].batch, w.fresh)
        \subseteq OnWay(writer[n].inbox, scan[n].batch, writer[n].fresh)
  BY <1>1, <1>2, Receiving, OnWayTail
<1>4. Set(scan, scan', n, scan[n]) /\ writer' = [writer EXCEPT ![n] = w]
  BY <1>1 DEF Write, Set
<1> HIDE DEF w
<1> QED BY <1>3, <1>4, WriteFollows

\* A step on an item of the first message.
LEMMA ItemFollows ==
  ASSUME ScanInv, StampsOK, NEW n \in Ids, Receives(n, "tracks"),
         NEW x \in Message(n).items, NEW w, Write(n, w), UNCHANGED scan,
         w.inbox \in {Without(writer[n].inbox, x), <<>>},
         w.fresh \in {writer[n].fresh, writer[n].fresh \cup {x}}
  PROVE  AllFollow
<1>1. Set(scan, scan', n, scan[n]) /\ writer' = [writer EXCEPT ![n] = w]
  BY DEF Write, Set
<1>2. OnWay(w.inbox, scan[n].batch, w.fresh)
        \subseteq OnWay(writer[n].inbox, scan[n].batch, writer[n].fresh)
  <2> DEFINE q == writer[n].inbox
             B == scan[n].batch
             F == writer[n].fresh
  <2>1. /\ InboxOK(q, scan[n].missing) /\ q # <<>> /\ q[1].type = "tracks" /\ x \in q[1].items
    BY Receiving
  <2> HIDE DEF q, B, F
  <2>2. /\ OnWay(Without(q, x), B, F \cup {x}) \subseteq OnWay(q, B, F)
        /\ OnWay(Without(q, x), B, F) \subseteq OnWay(q, B, F)
        /\ OnWay(<<>>, B, F) \subseteq OnWay(q, B, F)
        /\ x \in OnWay(q, B, F)
    BY <2>1, OnWayWithout
  <2>3. OnWay(<<>>, B, F \cup {x}) = OnWay(<<>>, B, F) \cup {x}
    BY DEF OnWay
  <2>4. OnWay(<<>>, B, F \cup {x}) \subseteq OnWay(q, B, F)
    BY <2>2, <2>3
  <2> QED BY <2>2, <2>4 DEF q, B, F
<1> QED BY <1>1, <1>2, WriteFollows

LEMMA UpdateFollows ==
  ASSUME ScanInv, StampsOK, NEW n \in Ids, Receives(n, "tracks"), NEW x \in Message(n).items,
         UpdateTrack(n, x)
  PROVE  AllFollow
<1> DEFINE w == Persisted(writer[n], x)
<1>1. Write(n, w) /\ UNCHANGED scan
  BY DEF UpdateTrack
<1>2. w.inbox = Without(writer[n].inbox, x) /\ w.fresh = writer[n].fresh
  BY Receiving, PersistedFields
<1> HIDE DEF w
<1> QED BY <1>1, <1>2, ItemFollows

LEMMA NotMovedFollows ==
  ASSUME ScanInv, StampsOK, NEW n \in Ids, Receives(n, "tracks"), NEW x \in Message(n).items,
         NotMoved(n, x)
  PROVE  AllFollow
<1> DEFINE v == Persisted(writer[n], x)
           w == [v EXCEPT !.fresh = @ \cup {x}]
<1>1. Write(n, w) /\ UNCHANGED scan
  BY DEF NotMoved
<1>2. v.inbox = Without(writer[n].inbox, x) /\ v.fresh = writer[n].fresh
      /\ DOMAIN v = {"pc", "inbox", "candidates", "fresh", "robbed"}
  BY Receiving, PersistedFields
<1> HIDE DEF v
<1>3. w.inbox = Without(writer[n].inbox, x) /\ w.fresh = writer[n].fresh \cup {x}
  BY <1>2
<1> HIDE DEF w
<1> QED BY <1>1, <1>3, ItemFollows

\* What becomes of the writer that takes the candidate c for the item x.
LEMMA MoveSteps ==
  ASSUME ScanInv, StampsOK, NEW n \in Ids, Receives(n, "tracks"), NEW x \in Message(n).items,
         NEW c, MoveTrack(n, x, c)
  PROVE  \E w : /\ Write(n, w) /\ UNCHANGED scan
                /\ w.candidates = writer[n].candidates \ {c}
                /\ \/ /\ Stored(c.path) /\ ~Stored(x.path) /\ rows' = MovedRow(c.path, x)
                      /\ w.pc = "idle" /\ w.fresh = writer[n].fresh
                      /\ w.robbed = writer[n].robbed /\ w.inbox = Without(writer[n].inbox, x)
                   \/ /\ ~Stored(c.path) /\ UNCHANGED rows
                      /\ w.pc = "idle" /\ w.fresh = writer[n].fresh \cup {x}
                      /\ w.robbed = writer[n].robbed \cup {x.tags}
                      /\ w.inbox = Without(writer[n].inbox, x)
                   \/ /\ UNCHANGED rows /\ w.pc = "failed" /\ w.fresh = writer[n].fresh
                      /\ w.robbed = writer[n].robbed /\ w.inbox = <<>>
<1> DEFINE v == Persisted(writer[n], x)
           w == [v EXCEPT !.candidates = @ \ {c}]
           y == [w EXCEPT !.fresh = @ \cup {x}, !.robbed = @ \cup {x.tags}]
           z == [w EXCEPT !.pc = "failed", !.inbox = <<>>]
<1>1. /\ UNCHANGED scan
      /\ \/ Write(n, w) /\ Stored(c.path) /\ ~Stored(x.path) /\ rows' = MovedRow(c.path, x)
         \/ Write(n, y) /\ ~Stored(c.path) /\ UNCHANGED rows
         \/ Write(n, z) /\ UNCHANGED rows
  BY DEF MoveTrack
<1>2. v.inbox = Without(writer[n].inbox, x) /\ v.fresh = writer[n].fresh /\ v.pc = "idle"
      /\ v.candidates = writer[n].candidates /\ v.robbed = writer[n].robbed
      /\ DOMAIN v = {"pc", "inbox", "candidates", "fresh", "robbed"}
  <2>1. writer[n].pc = "idle" /\ DOMAIN writer[n] = {"pc", "inbox", "candidates", "fresh", "robbed"}
    BY Receiving
  <2> QED BY <2>1, PersistedFields
<1> HIDE DEF v
<1>3. w.inbox = v.inbox /\ w.fresh = v.fresh /\ w.pc = v.pc /\ w.candidates = v.candidates \ {c}
      /\ w.robbed = v.robbed /\ DOMAIN w = {"pc", "inbox", "candidates", "fresh", "robbed"}
  BY <1>2
<1> HIDE DEF w
<1>4. y.inbox = w.inbox /\ y.fresh = w.fresh \cup {x} /\ y.pc = w.pc /\ y.candidates = w.candidates
      /\ y.robbed = w.robbed \cup {x.tags}
  BY <1>3
<1>5. z.inbox = <<>> /\ z.fresh = w.fresh /\ z.pc = "failed" /\ z.candidates = w.candidates
      /\ z.robbed = w.robbed
  BY <1>3
<1> HIDE DEF y, z
<1> QED BY <1>1, <1>2, <1>3, <1>4, <1>5

LEMMA MoveFollows ==
  ASSUME ScanInv, StampsOK, NEW n \in Ids, Receives(n, "tracks"), NEW x \in Message(n).items,
         NEW c, MoveTrack(n, x, c)
  PROVE  AllFollow
<1>1. PICK w : /\ Write(n, w) /\ UNCHANGED scan
               /\ w.inbox \in {Without(writer[n].inbox, x), <<>>}
               /\ w.fresh \in {writer[n].fresh, writer[n].fresh \cup {x}}
  BY MoveSteps
<1> QED BY <1>1, ItemFollows

LEMMA UpsertFollows == ASSUME ScanInv, StampsOK, NEW n \in Ids, UpsertTracks(n) PROVE AllFollow
<1>1. PICK w : /\ Receives(n, "tracks") /\ Write(n, w)
               /\ scan' = [scan EXCEPT ![n] = Inserted(n)]
               /\ w.inbox = Tail(writer[n].inbox) /\ w.fresh = {}
  BY UpsertStep
<1>2. OnWay(w.inbox, scan[n].batch, w.fresh)
        \subseteq OnWay(writer[n].inbox, scan[n].batch, writer[n].fresh)
  <2>1. OnWay(Tail(writer[n].inbox), scan[n].batch, writer[n].fresh)
          \subseteq OnWay(writer[n].inbox, scan[n].batch, writer[n].fresh)
    BY <1>1, Receiving, OnWayTail
  <2>2. OnWay(w.inbox, scan[n].batch, {}) \subseteq OnWay(w.inbox, scan[n].batch, writer[n].fresh)
    BY DEF OnWay
  <2> QED BY <1>1, <2>1, <2>2
<1>3. Set(scan, scan', n, Inserted(n)) /\ writer' = [writer EXCEPT ![n] = w]
  BY <1>1 DEF Write, Set
<1>4. /\ Inserted(n).purge = scan[n].purge /\ Inserted(n).left = scan[n].left
      /\ Inserted(n).todo = scan[n].todo
  <2>1. DOMAIN scan[n] = ScanFields
    BY Fields
  <2> QED BY <2>1 DEF Inserted, ScanFields
<1> QED BY <1>2, <1>3, <1>4, InsertedFields, WriteFollows

LEMMA DeleteFollows == ASSUME ScanInv, StampsOK, NEW n \in Ids, DeleteRemaining(n) PROVE AllFollow
<1> DEFINE w == [writer[n] EXCEPT !.pc = "ended", !.inbox = Tail(@)]
<1>1. Receives(n, "finish") /\ Write(n, w) /\ UNCHANGED <<scan, count>>
  BY DEF DeleteRemaining
<1>2. w.inbox = Tail(writer[n].inbox) /\ w.fresh = writer[n].fresh
  BY <1>1, Receiving
<1>3. OnWay(w.inbox, scan[n].batch, w.fresh)
        \subseteq OnWay(writer[n].inbox, scan[n].batch, writer[n].fresh)
  BY <1>1, <1>2, Receiving, OnWayTail
<1>4. Set(scan, scan', n, scan[n]) /\ writer' = [writer EXCEPT ![n] = w]
  BY <1>1 DEF Write, Set
<1> HIDE DEF w
<1> QED BY <1>3, <1>4, WriteFollows

LEMMA StoreFailsFollows ==
  ASSUME ScanInv, StampsOK, NEW n \in Ids, StoreFails(n) PROVE AllFollow
<1> DEFINE t == [scan[n] EXCEPT !.calm = FALSE]
           w == [writer[n] EXCEPT !.pc = "failed", !.inbox = <<>>]
<1>1. writer' = [writer EXCEPT ![n] = w] /\ Set(scan, scan', n, t)
  BY DEF StoreFails, Write, Set
<1>2. DOMAIN scan[n] = ScanFields /\ DOMAIN writer[n] = {"pc", "inbox", "candidates", "fresh", "robbed"}
  BY Fields
<1>3. /\ t.pc = scan[n].pc /\ t.pending = scan[n].pending /\ t.seen = scan[n].seen
      /\ t.batch = scan[n].batch /\ t.roots = scan[n].roots
      /\ t.purge = scan[n].purge /\ t.left = scan[n].left /\ t.todo = scan[n].todo
  BY <1>2 DEF ScanFields
<1>4. w.inbox = <<>> /\ w.fresh = writer[n].fresh
  BY <1>2
<1>5. OnWay(w.inbox, scan[n].batch, w.fresh)
        \subseteq OnWay(writer[n].inbox, scan[n].batch, writer[n].fresh)
  BY <1>4 DEF OnWay
<1> HIDE DEF t, w
<1> QED BY <1>1, <1>3, <1>5, WriteFollows

LEMMA WriterFollows == ASSUME ScanInv, StampsOK, NEW n \in Ids, WriterStep(n) PROVE AllFollow
BY LoadRowsFollows, UpsertFollows, DeleteFollows, StoreFailsFollows, UpdateFollows,
   NotMovedFollows, MoveFollows DEF WriterStep

LEMMA DisturbedRest ==
  ASSUME ScanInv, StampsOK, NEW absent, NEW n \in Ids
  PROVE  /\ Disturbed(scan, absent)[n].purge = scan[n].purge
         /\ Disturbed(scan, absent)[n].left = scan[n].left
         /\ Disturbed(scan, absent)[n].todo = scan[n].todo
         /\ Disturbed(scan, absent)[n].inserted = scan[n].inserted
<1> DEFINE M == IF Running(n) THEN scan[n].missing \cup absent ELSE scan[n].missing
           t == [scan[n] EXCEPT !.calm = FALSE, !.missing = M]
<1>1. DOMAIN scan[n] = ScanFields
  BY Fields
<1>2. Disturbed(scan, absent)[n] = t
  BY DEF Disturbed
<1> HIDE DEF M
<1>3. /\ t.purge = scan[n].purge /\ t.left = scan[n].left /\ t.todo = scan[n].todo
      /\ t.inserted = scan[n].inserted
  BY <1>1 DEF ScanFields
<1> HIDE DEF t
<1> QED BY <1>2, <1>3

\* A step leaves scan n and its writer as they were.
Stays(n) ==
  /\ writer'[n] = writer[n]
  /\ scan'[n].pc = scan[n].pc /\ scan'[n].roots = scan[n].roots /\ scan'[n].purge = scan[n].purge
  /\ scan'[n].left = scan[n].left /\ scan'[n].todo = scan[n].todo /\ scan'[n].seen = scan[n].seen
  /\ scan'[n].pending = scan[n].pending /\ scan'[n].batch = scan[n].batch
  /\ scan'[n].inserted = scan[n].inserted

LEMMA DisturbedStays ==
  ASSUME ScanInv, StampsOK, NEW absent, NEW n \in Ids,
         scan'[n] = Disturbed(scan, absent)[n], writer'[n] = writer[n]
  PROVE  Stays(n)
<1> DEFINE s == Disturbed(scan, absent)[n]
<1>1. /\ s.pc = scan[n].pc /\ s.roots = scan[n].roots /\ s.seen = scan[n].seen
      /\ s.pending = scan[n].pending /\ s.batch = scan[n].batch
  BY DisturbedFields
<1>2. /\ s.purge = scan[n].purge /\ s.left = scan[n].left /\ s.todo = scan[n].todo
      /\ s.inserted = scan[n].inserted
  BY DisturbedRest
<1>3. scan'[n] = s
  OBVIOUS
<1> HIDE DEF s
<1> QED BY <1>1, <1>2, <1>3 DEF Stays

LEMMA OthersStay ==
  ASSUME ScanInv, StampsOK, Outside \/ Editor \/ CancelScan \/ UNCHANGED vars
  PROVE  (\A n \in Ids : Stays(n)) /\ UNCHANGED config
<1>1. ASSUME NEW absent, scan' = Disturbed(scan, absent), UNCHANGED writer
      PROVE  \A n \in Ids : Stays(n)
  BY <1>1, DisturbedStays
<1>2. ASSUME UNCHANGED <<scan, writer>> PROVE \A n \in Ids : Stays(n)
  BY <1>2 DEF Stays
<1>3. Outside => UNCHANGED <<writer, config>> /\ \E absent : scan' = Disturbed(scan, absent)
  BY DEF Outside, OtherWrites, OtherRemoves, OtherRenames, ShareChanges, Change
<1>4. Editor => /\ UNCHANGED <<writer, config>>
                /\ UNCHANGED scan \/ scan' = Disturbed(scan, {})
  BY DEF Editor, StatEdited, StoreTagEdits, WriteTags
<1>5. ASSUME CancelScan PROVE (\A n \in Ids : Stays(n)) /\ UNCHANGED config
  <2> DEFINE n == count.scans
             t == [scan[n] EXCEPT !.cancelled = TRUE, !.calm = FALSE]
  <2>1. /\ n # 0 /\ UNCHANGED <<config, writer>>
        /\ scan' = [scan EXCEPT ![n].cancelled = TRUE, ![n].calm = FALSE]
    BY <1>5 DEF CancelScan
  <2>2. n \in Ids
    BY <2>1, ScanBoundsAssumption DEF ScanInv, CountOK, Ids
  <2>3. Set(scan, scan', n, t) /\ DOMAIN scan = Ids
    BY <2>1 DEF Set, ScanInv, ScansOK
  <2>4. DOMAIN scan[n] = ScanFields
    BY <2>2, Fields
  <2>5. t.pc = scan[n].pc /\ t.pending = scan[n].pending /\ t.seen = scan[n].seen
        /\ t.batch = scan[n].batch /\ t.roots = scan[n].roots /\ t.inserted = scan[n].inserted
        /\ t.purge = scan[n].purge /\ t.left = scan[n].left /\ t.todo = scan[n].todo
    BY <2>4 DEF ScanFields
  <2> HIDE DEF t, n
  <2>6. \A m \in Ids : scan'[m] = IF m = n THEN t ELSE scan[m]
    BY <2>2, <2>3 DEF Set
  <2> QED BY <2>1, <2>5, <2>6 DEF Stays
<1> QED BY <1>1, <1>2, <1>3, <1>4, <1>5 DEF vars

\* Scan k was begun; the folders that are no longer the library's are purged.
\* The watcher asks for a folder that is not the library's any more.
AsksForRemoved == \E roots \in SUBSET Roots : WatcherAsks(roots) /\ ~(roots \subseteq config)

\* Scan k begins, and the others go on.
Begun(k) ==
  /\ scan[k].pc = "off" /\ scan'[k].pc \in {"purge", "load"} /\ writer'[k] = Unstarted
  /\ scan'[k].batch = {} /\ scan'[k].inserted = {} /\ scan'[k].seen = [p \in Paths |-> 0]
  /\ scan'[k].roots \subseteq config' \/ AsksForRemoved
  /\ \A r \in config : r \in config' \/ (scan'[k].pc = "purge" /\ r \in scan'[k].purge)
  /\ \A n \in Ids : n # k => Stays(n)
  /\ UNCHANGED <<file, rows, edit>> /\ count'.stamp = count.stamp

LEMMA BeginBegins ==
  ASSUME ScanInv, StampsOK, NEW roots, NEW purge, BeginScan(roots, purge),
         roots \subseteq config' \/ AsksForRemoved, \A r \in config : r \in config' \/ r \in purge
  PROVE  \E k \in Ids : Begun(k)
<1> DEFINE k == count.scans + 1
           pc == IF purge = {} THEN "load" ELSE "purge"
           absent == {p \in Paths : ~OnDisk(p)}
           calm == edit.pc = "idle" /\ \A n \in Ids : ~Running(n)
           s == [Unscanned EXCEPT !.pc = pc, !.roots = roots, !.purge = purge,
                                  !.missing = absent, !.calm = calm]
           d == Disturbed(scan, {})
<1>1. /\ count.scans < MaxScans /\ UNCHANGED <<file, rows, writer, edit>>
      /\ scan' = [d EXCEPT ![k] = s] /\ count' = [count EXCEPT !.scans = @ + 1]
  BY DEF BeginScan
<1>2. k \in Ids /\ k > count.scans
  BY <1>1, ScanBoundsAssumption DEF ScanInv, CountOK, Ids
<1>3. s.pc = pc /\ s.batch = {} /\ s.roots = roots /\ s.purge = purge /\ s.inserted = {}
      /\ s.seen = [p \in Paths |-> 0]
  BY DEF Unscanned
<1>4. writer[k] = Unstarted /\ scan[k].pc = "off"
  BY <1>2 DEF ScanInv, LaterOff
<1>5. count'.stamp = count.stamp
  BY <1>1 DEF ScanInv, CountOK
<1> HIDE DEF s, k
<1>6. scan'[k] = s /\ \A n \in Ids : n # k => scan'[n] = d[n]
  BY <1>1, <1>2, DisturbedFields
<1>7. ASSUME NEW n \in Ids, n # k PROVE Stays(n)
  BY <1>1, <1>6, <1>7, DisturbedStays
<1>8. pc \in {"purge", "load"} /\ (purge # {} => pc = "purge")
  OBVIOUS
<1>9. Begun(k)
  BY <1>1, <1>3, <1>4, <1>5, <1>6, <1>7, <1>8 DEF Begun
<1> QED BY <1>2, <1>9

LEMMA BackendBegins ==
  ASSUME ScanInv, StampsOK, Backend
  PROVE  CancelScan \/ \E k \in Ids : Begun(k)
<1>1. Rescan => \E k \in Ids : Begun(k)
  BY BeginBegins DEF Rescan
<1>2. ASSUME NEW r \in Roots, RemoveFolder(r) PROVE \E k \in Ids : Begun(k)
  <2>1. PICK c : c = config' /\ c = config \ {r} /\ BeginScan(c, {r})
    BY <1>2 DEF RemoveFolder
  <2> QED BY <2>1, BeginBegins
<1>3. ASSUME NEW r \in Roots, AddFolder(r) PROVE \E k \in Ids : Begun(k)
  <2>1. PICK c : c = config' /\ c = config \cup {r} /\ BeginScan(c, {})
    BY <1>3 DEF AddFolder
  <2> QED BY <2>1, BeginBegins
<1>4. ASSUME NEW roots \in SUBSET Roots, WatcherAsks(roots) PROVE \E k \in Ids : Begun(k)
  <2>1. roots \subseteq config' \/ AsksForRemoved
    BY <1>4 DEF WatcherAsks, AsksForRemoved
  <2> QED BY <1>4, <2>1, BeginBegins DEF WatcherAsks
<1> QED BY <1>1, <1>2, <1>3, <1>4 DEF Backend

LEMMA ThreadsKeepConfig ==
  ASSUME NEW n \in Ids, Scanner(n) \/ WriterStep(n)
  PROVE  UNCHANGED <<config, file, edit>>
<1>1. \A r : WalkRoot(n, r) => UNCHANGED <<config, file, edit>>
  BY DEF WalkRoot, Quietly, Step
<1>2. \A p, d : VisitEntry(n, p) \/ EntryFails(n, p) \/ DirFails(n, d) => UNCHANGED <<config, file, edit>>
  BY DEF VisitEntry, EntryFails, DirFails, Quietly, Step
<1>3. \A p : ReadFile(n, p) \/ SkipUnreadable(n, p) => UNCHANGED <<config, file, edit>>
  BY DEF ReadFile, SkipUnreadable, Takes, Quietly, Step
<1>4. /\ Purge(n) \/ ScanFails(n) => UNCHANGED <<config, file, edit>>
      /\ SizeMtimeMap(n) \/ RootFails(n) \/ Classify(n) => UNCHANGED <<config, file, edit>>
      /\ SendFinish(n) \/ JoinWriter(n) => UNCHANGED <<config, file, edit>>
  BY DEF Purge, ScanFails, SizeMtimeMap, RootFails, Classify, SendFinish, JoinWriter, Quietly, Step
<1>5. WriterStep(n) => UNCHANGED <<config, file, edit>>
  BY DEF WriterStep, LoadRows, UpsertTracks, DeleteRemaining, StoreFails, UpdateTrack, NotMoved,
         MoveTrack, Write
<1> QED BY <1>1, <1>2, <1>3, <1>4, <1>5 DEF Scanner

LEMMA StaysFollow ==
  ASSUME NEW n \in Ids, Stays(n) PROVE Follows(n, scan'[n], writer'[n])
BY StaysFollows DEF Stays

\* Every step is one of the scans that run, or begins one.
LEMMA NextFollows ==
  ASSUME ScanInv, StampsOK, [Next]_vars
  PROVE  /\ (AllFollow /\ UNCHANGED config) \/ \E k \in Ids : Begun(k)
         /\ \A n \in Ids : Follows(n, scan'[n], writer'[n]) \/ Begun(n)
<1>1. (AllFollow /\ UNCHANGED config) \/ \E k \in Ids : Begun(k)
  BY OthersStay, StaysFollow, BackendBegins, ScannerFollows, WriterFollows, ThreadsKeepConfig
     DEF Next, AllFollow
<1> QED BY <1>1, StaysFollow DEF AllFollow, Begun

\* How a row came to be what it is after a step.
RowComes(p) ==
  \/ Stored(p) /\ rows'[p].stamp = rows[p].stamp /\ rows'[p].tags = rows[p].tags
  \/ \E n \in Ids : /\ Running(n)
                    /\ \E x \in Items(scan[n], writer[n]) :
                         x.path = p /\ rows'[p].stamp = x.stamp /\ rows'[p].tags = x.tags
  \/ /\ StoreTagEdits /\ Stored(p) /\ p = edit.path
     /\ rows'[p].stamp = edit.stamp /\ rows'[p].tags = edit.tags

LEMMA WriterRuns ==
  ASSUME ScanInv, StampsOK, NEW n \in Ids, writer[n].pc = "idle"
  PROVE  Running(n)
BY Fields DEF StampedOK, Unstarted, Running

LEMMA ItemOnWay ==
  ASSUME ScanInv, StampsOK, NEW n \in Ids, Receives(n, "tracks"), NEW x \in Message(n).items
  PROVE  x \in Items(scan[n], writer[n])
<1>1. /\ InboxOK(writer[n].inbox, scan[n].missing) /\ writer[n].inbox # <<>>
      /\ writer[n].inbox[1].type = "tracks" /\ x \in writer[n].inbox[1].items
  BY Receiving
<1> QED BY <1>1, OnWayWithout DEF Items

LEMMA WriterRows ==
  ASSUME ScanInv, StampsOK, NEW n \in Ids, WriterStep(n), NEW p \in Paths, Stored(p)'
  PROVE  RowComes(p)
<1>0. DOMAIN rows = Paths /\ DOMAIN rows[p] = {"id", "stamp", "tags"}
  BY DEF ScanInv, RowsOK
<1>1. ASSUME rows'[p] = rows[p] PROVE RowComes(p)
  BY <1>1 DEF RowComes, Stored
<1>2. ASSUME NEW x \in Items(scan[n], writer[n]), NEW id, x.path = p, rows'[p] = RowOf(x, id),
             writer[n].pc = "idle"
      PROVE  RowComes(p)
  <2>1. rows'[p].stamp = x.stamp /\ rows'[p].tags = x.tags
    BY <1>2 DEF RowOf
  <2> QED BY <1>2, <2>1, WriterRuns DEF RowComes
<1>3. ASSUME UpsertTracks(n) PROVE RowComes(p)
  <2>1. writer[n].fresh \subseteq Items(scan[n], writer[n]) /\ writer[n].pc = "idle"
    BY <1>3 DEF Items, OnWay, UpsertTracks, Receives
  <2> QED BY <1>1, <1>2, <1>3, <2>1, UpsertRows
<1>4. ASSUME Receives(n, "tracks"), NEW x \in Message(n).items, UpdateTrack(n, x)
      PROVE  RowComes(p)
  <2>1. x \in Items(scan[n], writer[n]) /\ writer[n].pc = "idle"
    BY <1>4, ItemOnWay DEF Receives
  <2>2. CASE x.path = p
    <3>1. rows'[p] = RowOf(x, rows[x.path].id)
      BY <1>0, <1>4, <2>2 DEF UpdateTrack
    <3> QED BY <1>2, <2>1, <2>2, <3>1
  <2>3. CASE x.path # p
    <3>1. rows'[p] = rows[p]
      BY <1>0, <1>4, <2>3 DEF UpdateTrack
    <3> QED BY <1>1, <3>1
  <2> QED BY <2>2, <2>3
<1>5. ASSUME Receives(n, "tracks"), NEW x \in Message(n).items, NEW c, MoveTrack(n, x, c)
      PROVE  RowComes(p)
  <2>1. x \in Items(scan[n], writer[n]) /\ writer[n].pc = "idle"
    BY <1>5, ItemOnWay DEF Receives
  <2>2. UNCHANGED rows \/ rows' = MovedRow(c.path, x)
    BY <1>5 DEF MoveTrack
  <2>3. CASE rows' = MovedRow(c.path, x) /\ x.path = p
    <3>1. rows'[p] = RowOf(x, rows[c.path].id)
      BY <1>0, <2>3 DEF MovedRow
    <3> QED BY <1>2, <2>1, <2>3, <3>1
  <2>4. CASE rows' = MovedRow(c.path, x) /\ x.path # p
    <3>1. rows'[p] \in {rows[p], NoRow}
      BY <1>0, <2>4 DEF MovedRow
    <3> QED BY <1>1, <3>1 DEF Stored
  <2> QED BY <1>1, <2>2, <2>3, <2>4
<1>6. ASSUME DeleteRemaining(n) PROVE RowComes(p)
  <2>1. rows'[p] \in {rows[p], NoRow}
    BY <1>6 DEF DeleteRemaining
  <2> QED BY <1>1, <2>1 DEF Stored
<1>7. LoadRows(n) \/ StoreFails(n) => UNCHANGED rows
  BY DEF LoadRows, StoreFails
<1>8. \A x : NotMoved(n, x) => UNCHANGED rows
  BY DEF NotMoved
<1> QED BY <1>1, <1>3, <1>4, <1>5, <1>6, <1>7, <1>8 DEF WriterStep

LEMMA ScannerRows ==
  ASSUME NEW n \in Ids, Scanner(n), NEW p \in Paths
  PROVE  rows'[p] = rows[p] \/ (Purge(n) /\ rows'[p] = NoRow)
<1>1. Purge(n) => rows'[p] \in {rows[p], NoRow}
  BY DEF Purge
<1>2. \A r : WalkRoot(n, r) => UNCHANGED rows
  BY DEF WalkRoot, Quietly, Step
<1>3. \A q, d : VisitEntry(n, q) \/ EntryFails(n, q) \/ DirFails(n, d) => UNCHANGED rows
  BY DEF VisitEntry, EntryFails, DirFails, Quietly, Step
<1>4. \A q : ReadFile(n, q) \/ SkipUnreadable(n, q) => UNCHANGED rows
  BY DEF ReadFile, SkipUnreadable, Takes, Quietly, Step
<1>5. SizeMtimeMap(n) \/ RootFails(n) \/ Classify(n) => UNCHANGED rows
  BY DEF SizeMtimeMap, RootFails, Classify, Quietly, Step
<1>6. SendFinish(n) \/ JoinWriter(n) \/ ScanFails(n) => UNCHANGED rows
  BY DEF SendFinish, JoinWriter, ScanFails, Step
<1> QED BY <1>1, <1>2, <1>3, <1>4, <1>5, <1>6 DEF Scanner

LEMMA RowsCome ==
  ASSUME ScanInv, StampsOK, [Next]_vars, NEW p \in Paths, Stored(p)'
  PROVE  RowComes(p)
<1>1. ASSUME rows'[p] = rows[p] PROVE RowComes(p)
  BY <1>1 DEF RowComes, Stored
<1>2. ASSUME NEW n \in Ids, Scanner(n) PROVE RowComes(p)
  BY <1>1, <1>2, ScannerRows DEF Stored
<1>3. ASSUME Editor PROVE RowComes(p)
  <2>1. StatEdited \/ (\E q, c : WriteTags(q, c)) => UNCHANGED rows
    BY DEF StatEdited, WriteTags
  <2>2. ASSUME StoreTagEdits PROVE RowComes(p)
    <3>1. DOMAIN rows = Paths /\ DOMAIN rows[p] = {"id", "stamp", "tags"}
      BY DEF ScanInv, RowsOK
    <3>2. CASE Stored(edit.path) /\ p = edit.path
      <4>1. rows'[p] = [rows[p] EXCEPT !.stamp = edit.stamp, !.tags = edit.tags]
        BY <2>2, <3>1, <3>2 DEF StoreTagEdits
      <4> DEFINE k == edit.stamp
                 t == edit.tags
      <4>2. rows'[p] = [rows[p] EXCEPT !.stamp = k, !.tags = t]
        BY <4>1
      <4> HIDE DEF k, t
      <4>3. rows'[p].stamp = k /\ rows'[p].tags = t
        BY <3>1, <4>2
      <4> QED BY <2>2, <3>2, <4>3 DEF RowComes, k, t
    <3>3. CASE ~(Stored(edit.path) /\ p = edit.path)
      <4>1. rows'[p] = rows[p]
        BY <2>2, <3>1, <3>3 DEF StoreTagEdits
      <4> QED BY <1>1, <4>1
    <3> QED BY <3>2, <3>3
  <2> QED BY <1>1, <1>3, <2>1, <2>2 DEF Editor
<1>4. Outside => UNCHANGED rows
  BY DEF Outside, OtherWrites, OtherRemoves, OtherRenames, ShareChanges, Change
<1>5. Backend => UNCHANGED rows
  BY DEF Backend, Rescan, RemoveFolder, AddFolder, WatcherAsks, BeginScan, CancelScan
<1>6. UNCHANGED vars => UNCHANGED rows
  BY DEF vars
<1> QED BY <1>1, <1>2, <1>3, <1>4, <1>5, <1>6, WriterRows DEF Next

----------------------------------------------------------------------------
(* The versions of the files, and what is known of them.                   *)

\* The library has, or is about to have, version k of the file at p with the
\* tags t.
KnownAs(p, k, t) ==
  \/ Stored(p) /\ rows[p].stamp = k /\ rows[p].tags = t
  \/ \E n \in Ids : \E x \in Items(scan[n], writer[n]) :
       x.path = p /\ x.stamp = k /\ x.tags = t
  \/ edit.pc = "store" /\ edit.path = p /\ edit.stamp = k /\ edit.tags = t

\* What a step lets the library know.
Learnt(p, k, t) ==
  \/ \E n \in Ids : /\ scan[n].pc = "read" /\ p \in scan[n].pending /\ ReadFile(n, p)
                    /\ k = scan[n].seen[p] /\ t = file[p].holds
  \/ /\ StatEdited /\ edit.pc = "stat" /\ edit.path = p /\ OnDisk(p)
     /\ k = file[p].stamp /\ t = edit.tags

LEMMA ItemsLearnt ==
  ASSUME ScanInv, StampsOK, [Next]_vars, NEW n \in Ids, NEW x \in Items(scan'[n], writer'[n])
  PROVE  \/ x \in Items(scan[n], writer[n])
         \/ \E p \in scan[n].pending : scan[n].pc = "read" /\ ReadFile(n, p) /\ x = Read(scan[n], p)
<1>1. CASE Follows(n, scan'[n], writer'[n])
  BY <1>1 DEF Follows
<1>2. CASE Begun(n)
  <2>1. Items(scan'[n], writer'[n]) = {}
    BY <1>2 DEF Begun, Items, OnWay, Unstarted
  <2> QED BY <2>1
<1> QED BY <1>1, <1>2, NextFollows

LEMMA EditLearnt ==
  ASSUME ScanInv, StampsOK, [Next]_vars, edit'.pc = "store"
  PROVE  \/ UNCHANGED edit
         \/ /\ StatEdited /\ edit.pc = "stat" /\ OnDisk(edit.path) /\ edit'.path = edit.path
            /\ edit'.stamp = file[edit.path].stamp /\ edit'.tags = edit.tags
<1>1. DOMAIN edit = {"pc", "path", "tags", "stamp"}
  BY DEF StampsOK, EditOK
<1>2. ASSUME StatEdited
      PROVE  /\ edit.pc = "stat" /\ OnDisk(edit.path) /\ edit'.path = edit.path
             /\ edit'.stamp = file[edit.path].stamp /\ edit'.tags = edit.tags
  <2> DEFINE k == file[edit.path].stamp
  <2>1. edit.pc = "stat" /\ OnDisk(edit.path) /\ edit' = [edit EXCEPT !.pc = "store", !.stamp = k]
    BY <1>2 DEF StatEdited, Idle
  <2> HIDE DEF k
  <2>2. edit'.path = edit.path /\ edit'.stamp = k /\ edit'.tags = edit.tags
    BY <1>1, <2>1
  <2> QED BY <2>1, <2>2 DEF k
<1>3. StoreTagEdits \/ (\E p, c : WriteTags(p, c)) => edit'.pc # "store"
  BY DEF StoreTagEdits, WriteTags, Idle
<1>4. Outside => UNCHANGED edit
  BY DEF Outside, OtherWrites, OtherRemoves, OtherRenames, ShareChanges, Change
<1>5. Backend => UNCHANGED edit
  BY DEF Backend, Rescan, RemoveFolder, AddFolder, WatcherAsks, BeginScan, CancelScan
<1>6. UNCHANGED vars => UNCHANGED edit
  BY DEF vars
<1> QED BY <1>2, <1>3, <1>4, <1>5, <1>6, ThreadsKeepConfig DEF Next, Editor

LEMMA KnownLearnt ==
  ASSUME ScanInv, StampsOK, [Next]_vars, NEW p \in Paths, NEW k, NEW t, KnownAs(p, k, t)'
  PROVE  KnownAs(p, k, t) \/ Learnt(p, k, t)
<1>1. CASE Stored(p)' /\ rows'[p].stamp = k /\ rows'[p].tags = t
  <2>1. RowComes(p)
    BY <1>1, RowsCome
  <2>2. CASE Stored(p) /\ rows'[p].stamp = rows[p].stamp /\ rows'[p].tags = rows[p].tags
    BY <1>1, <2>2 DEF KnownAs
  <2>3. CASE \E n \in Ids : \E x \in Items(scan[n], writer[n]) :
               x.path = p /\ rows'[p].stamp = x.stamp /\ rows'[p].tags = x.tags
    BY <1>1, <2>3 DEF KnownAs
  <2>4. CASE /\ StoreTagEdits /\ p = edit.path
             /\ rows'[p].stamp = edit.stamp /\ rows'[p].tags = edit.tags
    BY <1>1, <2>4 DEF KnownAs, StoreTagEdits
  <2> QED BY <2>1, <2>2, <2>3, <2>4 DEF RowComes
<1>2. ASSUME NEW n \in Ids, NEW x \in Items(scan'[n], writer'[n]),
             x.path = p, x.stamp = k, x.tags = t
      PROVE  KnownAs(p, k, t) \/ Learnt(p, k, t)
  <2>1. CASE x \in Items(scan[n], writer[n])
    BY <1>2, <2>1 DEF KnownAs
  <2>2. ASSUME NEW q \in scan[n].pending, scan[n].pc = "read", ReadFile(n, q), x = Read(scan[n], q)
        PROVE  Learnt(p, k, t)
    <3>1. x.path = q /\ x.stamp = scan[n].seen[q] /\ x.tags = file[q].holds
      BY <2>2 DEF Read
    <3> QED BY <1>2, <2>2, <3>1 DEF Learnt
  <2> QED BY <2>1, <2>2, ItemsLearnt
<1>3. CASE edit'.pc = "store" /\ edit'.path = p /\ edit'.stamp = k /\ edit'.tags = t
  BY <1>3, EditLearnt DEF KnownAs, Learnt
<1> QED BY <1>1, <1>2, <1>3 DEF KnownAs, Stored

LEMMA LearntKeepsFiles ==
  ASSUME NEW p, NEW k, NEW t, Learnt(p, k, t)
  PROVE  UNCHANGED <<file, count>> 
<1>1. \A n : ReadFile(n, p) => UNCHANGED <<file, count>>
  BY DEF ReadFile, Takes, Quietly, Step
<1>2. StatEdited => UNCHANGED <<file, count>>
  BY DEF StatEdited
<1> QED BY <1>1, <1>2 DEF Learnt

\* The library has, or is about to have, version k of the file at p.
Met(p, k) ==
  \/ Stored(p) /\ rows[p].stamp = k
  \/ \E n \in Ids : \E x \in Items(scan[n], writer[n]) : x.path = p /\ x.stamp = k
  \/ edit.pc = "store" /\ edit.path = p /\ edit.stamp = k

LEMMA KnownIsMet == ASSUME NEW p, NEW k, NEW t, KnownAs(p, k, t) PROVE Met(p, k)
BY DEF KnownAs, Met

\* No version is newer than the last; what is known is a version.
Bounded ==
  /\ \A p \in Paths : file[p].stamp \in 0..count.stamp
  /\ \A n \in Ids, p \in Paths : scan[n].seen[p] \in 0..count.stamp
  /\ \A p \in Paths : \A k : Met(p, k) => k \in 1..count.stamp

\* Two files are never the same version.
Unique == \A p, q \in Paths : OnDisk(p) /\ file[p].stamp = file[q].stamp => p = q

\* What the editor stats is what it has written.
EditedHolds == edit.pc = "stat" /\ OnDisk(edit.path) => file[edit.path].holds = edit.tags

VersionsOK == Bounded /\ Unique

\* What a step does to the files.
FileStep ==
  \/ UNCHANGED file /\ count'.stamp = count.stamp
  \/ /\ count'.stamp = count.stamp + 1
     /\ \E p \in Paths, c \in Contents :
          file' = [file EXCEPT ![p] = [stamp |-> count.stamp + 1, holds |-> c]]
  \/ /\ count'.stamp = count.stamp
     /\ \E p \in Paths : OtherRemoves(p) /\ file' = [file EXCEPT ![p] = NoFile]
  \/ /\ count'.stamp = count.stamp
     /\ \E p, q \in Paths : /\ OtherRenames(p, q) /\ OnDisk(p) /\ ~OnDisk(q)
                            /\ file' = [file EXCEPT ![p] = NoFile, ![q] = file[p]]

LEMMA CountOfFiles ==
  ASSUME CountOK, NEW k \in {0, 1}, count' = [count EXCEPT !.changes = @ + 1, !.stamp = @ + k]
  PROVE  count'.stamp = count.stamp + k /\ count.stamp \in Nat
BY DEF CountOK

LEMMA FilesStep == ASSUME ScanInv, StampsOK, [Next]_vars PROVE FileStep
<1>1. CountOK /\ count.stamp \in Nat
  BY DEF ScanInv, CountOK
<1>2. ASSUME NEW p \in Paths, NEW c \in Contents, OtherWrites(p, c) PROVE FileStep
  <2>1. count'.stamp = count.stamp + 1
    BY <1>1, <1>2, CountOfFiles DEF OtherWrites, Change
  <2> QED BY <1>2, <2>1 DEF OtherWrites, Change, FileStep
<1>3. ASSUME NEW p \in Paths, OtherRemoves(p) PROVE FileStep
  <2>1. count'.stamp = count.stamp + 0
    BY <1>1, <1>3, CountOfFiles DEF OtherRemoves, Change
  <2>2. file' = [file EXCEPT ![p] = NoFile]
    BY <1>3 DEF OtherRemoves, Change
  <2>3. count'.stamp = count.stamp
    BY <1>1, <2>1
  <2> QED BY <1>3, <2>2, <2>3 DEF FileStep
<1>4. ASSUME NEW p \in Paths, NEW q \in Paths, OtherRenames(p, q) PROVE FileStep
  <2>1. count'.stamp = count.stamp + 0
    BY <1>1, <1>4, CountOfFiles DEF OtherRenames, Change
  <2>2. OnDisk(p) /\ ~OnDisk(q) /\ file' = [file EXCEPT ![p] = NoFile, ![q] = file[p]]
    BY <1>4 DEF OtherRenames, Change
  <2>3. count'.stamp = count.stamp
    BY <1>1, <2>1
  <2> QED BY <1>4, <2>2, <2>3 DEF FileStep
<1>5. ASSUME NEW r, ShareChanges(r) PROVE FileStep
  BY <1>1, <1>5 DEF ShareChanges, CountOK, FileStep
<1>6. ASSUME NEW p \in Paths, NEW c \in Contents, WriteTags(p, c) PROVE FileStep
  <2>1. count'.stamp = count.stamp + 1
    BY <1>1, <1>6, CountOfFiles DEF WriteTags
  <2> QED BY <1>6, <2>1 DEF WriteTags, FileStep
<1>7. StatEdited \/ StoreTagEdits => FileStep
  BY DEF StatEdited, StoreTagEdits, FileStep
<1>8. ASSUME NEW k \in Ids, Begun(k) PROVE FileStep
  BY <1>8 DEF Begun, FileStep
<1>9. CancelScan => FileStep
  BY DEF CancelScan, FileStep
<1>10. ASSUME NEW n \in Ids, Scanner(n) \/ WriterStep(n) PROVE FileStep
  <2>1. UNCHANGED file
    BY <1>10, ThreadsKeepConfig
  <2>2. count'.stamp = count.stamp
    <3>1. \A d, p : DirFails(n, d) \/ EntryFails(n, p) => count'.stamp = count.stamp
      BY FailureCounted DEF DirFails, EntryFails
    <3>2. StoreFails(n) \/ ScanFails(n) => count'.stamp = count.stamp
      BY <1>1 DEF StoreFails, ScanFails, CountOK
    <3>3. UpsertTracks(n) => count'.stamp = count.stamp
      BY <1>1 DEF UpsertTracks, CountOK
    <3>4. \A p : ReadFile(n, p) \/ SkipUnreadable(n, p) => UNCHANGED count
      BY DEF ReadFile, SkipUnreadable, Takes, Quietly, Step
    <3>5. \A r : WalkRoot(n, r) \/ VisitEntry(n, r) => UNCHANGED count
      BY DEF WalkRoot, VisitEntry, Quietly, Step
    <3>6. SizeMtimeMap(n) \/ RootFails(n) \/ Classify(n) \/ SendFinish(n) \/ JoinWriter(n) \/ Purge(n)
            => UNCHANGED count
      BY DEF SizeMtimeMap, RootFails, Classify, SendFinish, JoinWriter, Quietly, Step, Purge
    <3>7. LoadRows(n) \/ DeleteRemaining(n) => UNCHANGED count
      BY DEF LoadRows, DeleteRemaining
    <3>8. \A x, c : UpdateTrack(n, x) \/ NotMoved(n, x) \/ MoveTrack(n, x, c) => UNCHANGED count
      BY DEF UpdateTrack, NotMoved, MoveTrack
    <3> QED BY <1>10, <3>1, <3>2, <3>3, <3>4, <3>5, <3>6, <3>7, <3>8 DEF Scanner, WriterStep
  <2> QED BY <2>1, <2>2 DEF FileStep
<1>11. UNCHANGED vars => FileStep
  BY DEF vars, FileStep
<1> QED BY <1>2, <1>3, <1>4, <1>5, <1>6, <1>7, <1>8, <1>9, <1>10, <1>11, BackendBegins
   DEF Next, Outside, Editor

\* What is at a path after a step.
LEMMA FileComes ==
  ASSUME ScanInv, StampsOK, [Next]_vars, NEW p \in Paths
  PROVE  \/ file'[p] = file[p]
         \/ /\ file'[p].stamp = count.stamp + 1 /\ count'.stamp = count.stamp + 1
            /\ \A q \in Paths : q # p => file'[q] = file[q]
         \/ file'[p] = NoFile
         \/ \E q \in Paths : OtherRenames(q, p) /\ OnDisk(q) /\ file'[p] = file[q] /\ q # p
                             /\ file'[q] = NoFile
<1>1. DOMAIN file = Paths
  BY DEF ScanInv, FilesOK
<1>2. ASSUME NEW q \in Paths, NEW x, file' = [file EXCEPT ![q] = x]
      PROVE  (p = q => file'[p] = x) /\ \A r \in Paths : r # q => file'[r] = file[r]
  BY <1>1, <1>2
<1>3. ASSUME NEW q \in Paths, NEW c \in Contents, count'.stamp = count.stamp + 1,
             file' = [file EXCEPT ![q] = [stamp |-> count.stamp + 1, holds |-> c]]
      PROVE  \/ file'[p] = file[p]
             \/ /\ file'[p].stamp = count.stamp + 1 /\ count'.stamp = count.stamp + 1
                /\ \A r \in Paths : r # p => file'[r] = file[r]
  BY <1>2, <1>3
<1>4. ASSUME NEW q \in Paths, file' = [file EXCEPT ![q] = NoFile]
      PROVE  file'[p] = file[p] \/ file'[p] = NoFile
  BY <1>2, <1>4
<1>5. ASSUME NEW q \in Paths, NEW r \in Paths, OtherRenames(q, r), OnDisk(q), ~OnDisk(r),
             file' = [file EXCEPT ![q] = NoFile, ![r] = file[q]]
      PROVE  \/ file'[p] = file[p]
             \/ file'[p] = NoFile
             \/ OtherRenames(q, p) /\ OnDisk(q) /\ file'[p] = file[q] /\ q # p /\ file'[q] = NoFile
  <2>1. q # r
    BY <1>5
  <2>2. /\ file'[r] = file[q] /\ file'[q] = NoFile
        /\ \A a \in Paths : a # q /\ a # r => file'[a] = file[a]
    BY <1>1, <1>5, <2>1
  <2> QED BY <1>5, <2>1, <2>2
<1>6. FileStep
  BY FilesStep
<1> QED BY <1>3, <1>4, <1>5, <1>6 DEF FileStep

LEMMA StampBounds ==
  ASSUME ScanInv, StampsOK, VersionsOK, [Next]_vars
  PROVE  /\ count'.stamp \in Nat /\ count.stamp \in Nat /\ count.stamp <= count'.stamp
         /\ \A p \in Paths : file'[p].stamp \in 0..count'.stamp
<1>1. count.stamp \in Nat
  BY DEF ScanInv, CountOK
<1>2. count'.stamp = count.stamp \/ count'.stamp = count.stamp + 1
  BY FilesStep DEF FileStep
<1>3. \A p \in Paths : file[p].stamp \in 0..count.stamp
  BY DEF VersionsOK, Bounded
<1>4. ASSUME NEW p \in Paths PROVE file'[p].stamp \in 0..count'.stamp
  <2>1. CASE \E q \in Paths : file'[p] = file[q]
    BY <1>1, <1>2, <1>3, <2>1
  <2>2. CASE file'[p].stamp = count.stamp + 1 /\ count'.stamp = count.stamp + 1
    BY <1>1, <2>2
  <2>3. CASE file'[p] = NoFile
    BY <1>1, <1>2, <2>3 DEF NoFile
  <2> QED BY <2>1, <2>2, <2>3, FileComes
<1> QED BY <1>1, <1>2, <1>4

LEMMA SeenComes ==
  ASSUME ScanInv, StampsOK, [Next]_vars, NEW n \in Ids, NEW p \in Paths
  PROVE  scan'[n].seen[p] \in {0, scan[n].seen[p], file[p].stamp}
<1>1. CASE Follows(n, scan'[n], writer'[n])
  BY <1>1 DEF Follows
<1>2. CASE Begun(n)
  BY <1>2 DEF Begun
<1> QED BY <1>1, <1>2, NextFollows

LEMMA MetIsKnown == ASSUME NEW p, NEW k, Met(p, k) PROVE \E t : KnownAs(p, k, t)
BY DEF KnownAs, Met

LEMMA LearntBound ==
  ASSUME ScanInv, StampsOK, VersionsOK, NEW p \in Paths, NEW k, NEW t, Learnt(p, k, t)
  PROVE  k \in 1..count.stamp
<1>1. count.stamp \in Nat /\ \A q \in Paths : file[q].stamp = 0 => file[q] = NoFile
  BY DEF ScanInv, CountOK, FilesOK
<1>2. ASSUME NEW n \in Ids, scan[n].pc = "read", p \in scan[n].pending, k = scan[n].seen[p]
      PROVE  k \in 1..count.stamp
  <2>1. k # 0
    BY <1>2 DEF StampsOK, StampedOK
  <2>2. k \in 0..count.stamp
    BY <1>2 DEF VersionsOK, Bounded
  <2> QED BY <1>1, <2>1, <2>2
<1>3. ASSUME OnDisk(p), k = file[p].stamp PROVE k \in 1..count.stamp
  <2>1. k # 0
    BY <1>1, <1>3 DEF OnDisk
  <2>2. k \in 0..count.stamp
    BY <1>3 DEF VersionsOK, Bounded
  <2> QED BY <1>1, <2>1, <2>2
<1> QED BY <1>2, <1>3 DEF Learnt

LEMMA BoundedKept ==
  ASSUME ScanInv, StampsOK, VersionsOK, [Next]_vars PROVE Bounded'
<1>1. /\ count'.stamp \in Nat /\ count.stamp \in Nat /\ count.stamp <= count'.stamp
      /\ \A p \in Paths : file'[p].stamp \in 0..count'.stamp
  BY StampBounds
<1>2. ASSUME NEW n \in Ids, NEW p \in Paths PROVE scan'[n].seen[p] \in 0..count'.stamp
  <2>1. scan[n].seen[p] \in 0..count.stamp /\ file[p].stamp \in 0..count.stamp
    BY DEF VersionsOK, Bounded
  <2> QED BY <1>1, <2>1, SeenComes
<1>3. ASSUME NEW p \in Paths, NEW k, Met(p, k)' PROVE k \in 1..count'.stamp
  <2>1. PICK t : KnownAs(p, k, t)'
    BY <1>3 DEF KnownAs, Met
  <2>2. CASE KnownAs(p, k, t)
    <3>1. k \in 1..count.stamp
      BY <2>2, KnownIsMet DEF VersionsOK, Bounded
    <3> QED BY <1>1, <3>1
  <2>3. CASE Learnt(p, k, t)
    <3>1. k \in 1..count.stamp
      BY <2>3, LearntBound
    <3> QED BY <1>1, <3>1
  <2> QED BY <2>1, <2>2, <2>3, KnownLearnt
<1> QED BY <1>1, <1>2, <1>3 DEF Bounded

LEMMA UniqueKept ==
  ASSUME ScanInv, StampsOK, VersionsOK, [Next]_vars PROVE Unique'
<1> SUFFICES ASSUME NEW p \in Paths, NEW q \in Paths, OnDisk(p)', file'[p].stamp = file'[q].stamp, p # q
             PROVE  FALSE
  BY DEF Unique
<1>1. count.stamp \in Nat /\ \A r \in Paths : file[r].stamp \in 0..count.stamp
  BY DEF VersionsOK, Bounded, ScanInv, CountOK
<1>2. file'[p] # NoFile /\ file'[p].stamp # 0 /\ file'[q] # NoFile
  <2>1. \A r \in Paths : file'[r].stamp = 0 => file'[r] = NoFile
    BY NextKeeps DEF ScanInv, FilesOK
  <2> QED BY <2>1 DEF OnDisk, NoFile
<1>3. DOMAIN file = Paths /\ \A a, b \in Paths : file[a] # NoFile /\ file[a].stamp = file[b].stamp => a = b
  BY DEF VersionsOK, Unique, OnDisk, ScanInv, FilesOK
<1>4. CASE UNCHANGED file
  BY <1>2, <1>3, <1>4
<1>5. ASSUME NEW a \in Paths, NEW c \in Contents,
             file' = [file EXCEPT ![a] = [stamp |-> count.stamp + 1, holds |-> c]]
      PROVE  FALSE
  <2>1. file'[a].stamp = count.stamp + 1 /\ \A r \in Paths : r # a => file'[r] = file[r]
    BY <1>3, <1>5
  <2> QED BY <1>1, <1>2, <1>3, <2>1
<1>6. ASSUME NEW a \in Paths, file' = [file EXCEPT ![a] = NoFile] PROVE FALSE
  <2>1. file'[a] = NoFile /\ \A r \in Paths : r # a => file'[r] = file[r]
    BY <1>3, <1>6
  <2> QED BY <1>2, <1>3, <2>1
<1>7. ASSUME NEW a \in Paths, NEW b \in Paths, OnDisk(a), ~OnDisk(b),
             file' = [file EXCEPT ![a] = NoFile, ![b] = file[a]]
      PROVE  FALSE
  <2>1. /\ a # b /\ file'[a] = NoFile /\ file'[b] = file[a]
        /\ \A r \in Paths : r # a /\ r # b => file'[r] = file[r]
    BY <1>3, <1>7
  <2> QED BY <1>2, <1>3, <2>1
<1> QED BY <1>4, <1>5, <1>6, <1>7, FilesStep DEF FileStep

LEMMA VersionsKept ==
  ASSUME ScanInv, StampsOK, VersionsOK, [Next]_vars PROVE VersionsOK'
BY BoundedKept, UniqueKept DEF VersionsOK

LEMMA VersionsInit == Init => VersionsOK
<1> SUFFICES ASSUME Init PROVE VersionsOK
  OBVIOUS
<1>1. IsFiniteSet(Paths) /\ Cardinality(Paths) \in Nat /\ count.stamp = Cardinality(Paths)
  BY PathsAssumption, FS_CardinalityType DEF Paths, Init
<1>2. ASSUME NEW p \in Paths
      PROVE  /\ file[p].stamp \in 0..Cardinality(Paths)
             /\ file[p] # NoFile => file[p].stamp \in 1..Cardinality(Paths)
  <2>1. CASE Start[p] = NoFile
    BY <1>1, <2>1 DEF Init, NoFile
  <2>2. CASE Start[p] \in [stamp : 1..Cardinality(Paths), holds : Contents]
    BY <1>1, <2>2 DEF Init
  <2> QED BY <2>1, <2>2, StartAssumption
<1>3. ASSUME NEW p \in Paths, NEW q \in Paths, OnDisk(p), file[p].stamp = file[q].stamp PROVE p = q
  <2>1. file[p] = Start[p] /\ Start[p] # NoFile
    BY <1>3 DEF Init, OnDisk
  <2> QED BY <1>3, <2>1, StartAssumption DEF Init
<1>4. \A n \in Ids, p \in Paths : scan[n].seen[p] = 0 /\ scan[n].batch = {} /\ writer[n] = Unstarted
  BY DEF Init, Unscanned
<1>5. ASSUME NEW p \in Paths, NEW k, Met(p, k) PROVE k \in 1..Cardinality(Paths)
  <2>1. edit.pc = "idle"
    BY DEF Init, Idle
  <2>2. \A n \in Ids : Items(scan[n], writer[n]) = {}
    BY <1>4 DEF Items, OnWay, Unstarted
  <2>3. Stored(p) /\ rows[p].stamp = k
    BY <1>5, <2>1, <2>2 DEF Met
  <2>4. file[p] # NoFile /\ rows[p].stamp = file[p].stamp
    BY <2>3 DEF Init, Stored
  <2> QED BY <1>2, <2>3, <2>4
<1> QED BY <1>1, <1>2, <1>3, <1>4, <1>5 DEF VersionsOK, Bounded, Unique

\* Nothing writes the file of the editor before the editor stats it.
LEMMA EditedKept ==
  ASSUME ScanInv, StampsOK, EditedHolds, "race" \notin Faults, [Next]_vars PROVE EditedHolds'
<1>1. DOMAIN file = Paths /\ (edit.pc = "stat" => edit.path \in Paths /\ ~MayChange(edit.path))
  BY DEF ScanInv, FilesOK, StampsOK, EditOK, MayChange
<1>2. ASSUME UNCHANGED edit, edit.pc = "stat" => file'[edit.path] = file[edit.path] PROVE EditedHolds'
  BY <1>2 DEF EditedHolds, OnDisk
<1>3. ASSUME NEW p \in Paths, NEW c \in Contents, OtherWrites(p, c) PROVE EditedHolds'
  <2>1. UNCHANGED edit /\ MayChange(p) /\ \A q \in Paths : q # p => file'[q] = file[q]
    BY <1>1, <1>3 DEF OtherWrites, Change
  <2> QED BY <1>1, <1>2, <2>1
<1>4. ASSUME NEW p \in Paths, OtherRemoves(p) PROVE EditedHolds'
  <2>1. UNCHANGED edit /\ MayChange(p) /\ \A q \in Paths : q # p => file'[q] = file[q]
    BY <1>1, <1>4 DEF OtherRemoves, Change
  <2> QED BY <1>1, <1>2, <2>1
<1>5. ASSUME NEW p \in Paths, NEW r \in Paths, OtherRenames(p, r) PROVE EditedHolds'
  <2>1. /\ UNCHANGED edit /\ MayChange(p) /\ MayChange(r)
        /\ \A q \in Paths : q # p /\ q # r => file'[q] = file[q]
    BY <1>1, <1>5 DEF OtherRenames, Change
  <2> QED BY <1>1, <1>2, <2>1
<1>6. ASSUME NEW p \in Paths, NEW c \in Contents, WriteTags(p, c) PROVE EditedHolds'
  <2>1. edit'.path = p /\ edit'.tags = c /\ file'[p].holds = c
    BY <1>1, <1>6 DEF WriteTags
  <2> QED BY <2>1 DEF EditedHolds
<1>7. ASSUME StatEdited PROVE EditedHolds'
  <2> DEFINE k == file[edit.path].stamp
  <2>1. edit' = Idle \/ edit' = [edit EXCEPT !.pc = "store", !.stamp = k]
    BY <1>7 DEF StatEdited
  <2> HIDE DEF k
  <2>2. DOMAIN edit = {"pc", "path", "tags", "stamp"}
    BY DEF StampsOK, EditOK
  <2>3. Idle.pc = "idle"
    BY DEF Idle
  <2>4. [edit EXCEPT !.pc = "store", !.stamp = k].pc = "store"
    BY <2>2
  <2>5. edit'.pc # "stat"
    BY <2>1, <2>3, <2>4
  <2> QED BY <2>5 DEF EditedHolds
<1>8. StoreTagEdits => EditedHolds'
  BY DEF StoreTagEdits, Idle, EditedHolds
<1>9. Backend \/ (\E r \in Roots : ShareChanges(r)) \/ UNCHANGED vars => EditedHolds'
  <2>1. CancelScan \/ (\E r \in Roots : ShareChanges(r)) \/ UNCHANGED vars => UNCHANGED <<edit, file>>
    BY DEF CancelScan, ShareChanges, vars
  <2>2. (\E k \in Ids : Begun(k)) => UNCHANGED <<edit, file>>
    BY DEF Begun
  <2> QED BY <1>2, <2>1, <2>2, BackendBegins
<1>10. \A n \in Ids : Scanner(n) \/ WriterStep(n) => EditedHolds'
  BY <1>2, ThreadsKeepConfig
<1> QED BY <1>3, <1>4, <1>5, <1>6, <1>7, <1>8, <1>9, <1>10 DEF Next, Outside, Editor

\* What is known of a path is true of the file there, if it is that version.
HonestOK ==
  \A p \in Paths : \A k, t : KnownAs(p, k, t) /\ file[p].stamp = k => file[p].holds = t

\* What is known of a version is true of it wherever it is.
TruthOK ==
  \A p, q \in Paths : \A k, t : KnownAs(p, k, t) /\ file[q].stamp = k => file[q].holds = t

LEMMA LearntHolds ==
  ASSUME EditedHolds, NEW p \in Paths, NEW k, NEW t, Learnt(p, k, t), file[p].stamp = k
  PROVE  file[p].holds = t
BY DEF Learnt, EditedHolds

\* A file is moved to a path of which the library knows that very version.
Returns == \E p, q \in Paths : OtherRenames(p, q) /\ Met(q, file[p].stamp)

LEMMA HonestKept ==
  ASSUME ScanInv, StampsOK, VersionsOK, EditedHolds, HonestOK, [Next]_vars, ~Returns
  PROVE  HonestOK'
<1> SUFFICES ASSUME NEW p \in Paths, NEW k, NEW t, KnownAs(p, k, t)', file'[p].stamp = k
             PROVE  file'[p].holds = t
  BY DEF HonestOK
<1>1. CASE Learnt(p, k, t)
  <2>1. UNCHANGED file
    BY <1>1, LearntKeepsFiles
  <2> QED BY <1>1, <2>1, LearntHolds
<1>2. CASE KnownAs(p, k, t)
  <2>1. Met(p, k) /\ k \in 1..count.stamp /\ count.stamp \in Nat
    BY <1>2, KnownIsMet DEF VersionsOK, Bounded, ScanInv, CountOK
  <2>2. CASE file'[p] = file[p]
    BY <1>2, <2>2 DEF HonestOK
  <2>3. CASE file'[p].stamp = count.stamp + 1
    BY <2>1, <2>3
  <2>4. CASE file'[p] = NoFile
    BY <2>1, <2>4 DEF NoFile
  <2>5. ASSUME NEW q \in Paths, OtherRenames(q, p), file'[p] = file[q] PROVE FALSE
    BY <2>1, <2>5 DEF Returns
  <2> QED BY <2>2, <2>3, <2>4, <2>5, FileComes
<1> QED BY <1>1, <1>2, KnownLearnt

\* A scan reads at a path when the version it has seen there is at another.
ReadsMoved ==
  \E n \in Ids, p \in Paths : ReadFile(n, p) /\ \E q \in Paths \ {p} : file[q].stamp = scan[n].seen[p]

LEMMA TruthKept ==
  ASSUME ScanInv, StampsOK, VersionsOK, EditedHolds, TruthOK, [Next]_vars, ~ReadsMoved
  PROVE  TruthOK'
<1> SUFFICES ASSUME NEW p \in Paths, NEW q \in Paths, NEW k, NEW t,
                    KnownAs(p, k, t)', file'[q].stamp = k
             PROVE  file'[q].holds = t
  BY DEF TruthOK
<1>1. CASE Learnt(p, k, t)
  <2>1. UNCHANGED file
    BY <1>1, LearntKeepsFiles
  <2>2. p = q
    BY <1>1, <2>1 DEF Learnt, VersionsOK, Unique, ReadsMoved
  <2> QED BY <1>1, <2>1, <2>2, LearntHolds
<1>2. CASE KnownAs(p, k, t)
  <2>1. k \in 1..count.stamp /\ count.stamp \in Nat
    BY <1>2, KnownIsMet DEF VersionsOK, Bounded, ScanInv, CountOK
  <2>2. CASE \E r \in Paths : file'[q] = file[r]
    BY <1>2, <2>2 DEF TruthOK
  <2>3. CASE file'[q].stamp = count.stamp + 1
    BY <2>1, <2>3
  <2>4. CASE file'[q] = NoFile
    BY <2>1, <2>4 DEF NoFile
  <2> QED BY <2>2, <2>3, <2>4, FileComes
<1> QED BY <1>1, <1>2, KnownLearnt

LEMMA HonestInit == Init => TruthOK /\ HonestOK /\ EditedHolds
<1> SUFFICES ASSUME Init PROVE TruthOK /\ HonestOK /\ EditedHolds
  OBVIOUS
<1>1. edit.pc = "idle" /\ \A n \in Ids : Items(scan[n], writer[n]) = {}
  BY DEF Init, Idle, Unscanned, Unstarted, Items, OnWay
<1>2. TruthOK
  <2> SUFFICES ASSUME NEW p \in Paths, NEW q \in Paths, NEW k, NEW t,
                      KnownAs(p, k, t), file[q].stamp = k
               PROVE  file[q].holds = t
    BY DEF TruthOK
  <2>1. file[p] # NoFile /\ file[p].stamp = k /\ file[p].holds = t
    BY <1>1 DEF KnownAs, Init, Stored
  <2>2. p = q
    BY <2>1, VersionsInit DEF VersionsOK, Unique, OnDisk
  <2> QED BY <2>1, <2>2
<1> QED BY <1>1, <1>2 DEF TruthOK, HonestOK, EditedHolds

LEMMA HonestIsHonest == HonestOK => StampIsHonest
BY DEF HonestOK, StampIsHonest, KnownAs

LEMMA TruthIsHonest == TruthOK => HonestOK
BY DEF TruthOK, HonestOK

\* However scans, edits and other programs interleave, a row with the stamp of
\* its file holds what the file holds, as long as nobody writes a file between
\* the tag editor's write and its stat (tags/edit.rs:98) and no file is moved to
\* a path at which the library has, or is about to have, its very version: the
\* tags of a file are read after its stamp (scanner/mod.rs:135).
THEOREM StampsAreHonest ==
  ASSUME "race" \notin Faults
  PROVE  Spec /\ [][~Returns]_vars => []StampIsHonest
<1> DEFINE I == ScanInv /\ StampsOK /\ VersionsOK /\ EditedHolds /\ HonestOK
<1>1. Init => I
  BY ScanInit, StampsInit, VersionsInit, HonestInit
<1>2. I /\ [Next]_vars /\ [~Returns]_vars => I'
  <2> SUFFICES ASSUME I, [Next]_vars, ~Returns \/ UNCHANGED vars PROVE I'
    OBVIOUS
  <2>1. (ScanInv /\ StampsOK /\ VersionsOK /\ EditedHolds)'
    BY NextKeeps, NextStamps, VersionsKept, EditedKept
  <2>2. CASE ~Returns
    BY <2>1, <2>2, HonestKept
  <2>3. UNCHANGED vars => HonestOK'
    BY DEF vars, HonestOK, KnownAs, Stored
  <2> QED BY <2>1, <2>2, <2>3
<1>3. I => StampIsHonest
  BY HonestIsHonest
<1> HIDE DEF I
<1> QED BY <1>1, <1>2, <1>3, PTL DEF Spec

\* The same without a word on what other programs rename, as long as no scan
\* reads a file at a path when the version it has seen there is at another
\* (scan_file opens the path that the walk listed, scanner/mod.rs:218).
THEOREM StampsAreHonestInPlace ==
  ASSUME "race" \notin Faults
  PROVE  Spec /\ [][~ReadsMoved]_vars => []StampIsHonest
<1> DEFINE I == ScanInv /\ StampsOK /\ VersionsOK /\ EditedHolds /\ TruthOK
<1>1. Init => I
  BY ScanInit, StampsInit, VersionsInit, HonestInit
<1>2. I /\ [Next]_vars /\ [~ReadsMoved]_vars => I'
  <2> SUFFICES ASSUME I, [Next]_vars, ~ReadsMoved \/ UNCHANGED vars PROVE I'
    OBVIOUS
  <2>1. (ScanInv /\ StampsOK /\ VersionsOK /\ EditedHolds)'
    BY NextKeeps, NextStamps, VersionsKept, EditedKept
  <2>2. CASE ~ReadsMoved
    BY <2>1, <2>2, TruthKept
  <2>3. UNCHANGED vars => TruthOK'
    BY DEF vars, TruthOK, KnownAs, Stored
  <2> QED BY <2>1, <2>2, <2>3
<1>3. I => StampIsHonest
  BY HonestIsHonest, TruthIsHonest
<1> HIDE DEF I
<1> QED BY <1>1, <1>2, <1>3, PTL DEF Spec

\* Under the same conditions a scan nothing interfered with leaves the rows of
\* its folders as the files are, with no word on StampIsHonest: skipping a file
\* whose size and time are those of its row (moves.rs:23) loses nothing.
THEOREM CalmScansAreExactThen ==
  ASSUME "race" \notin Faults
  PROVE  /\ Spec /\ [][~Returns]_vars => []CalmScanIsExact
         /\ Spec /\ [][~ReadsMoved]_vars => []CalmScanIsExact
BY StampsAreHonest, StampsAreHonestInPlace, CalmScansAreExact, PTL

----------------------------------------------------------------------------
(* What a scan takes for moved, for new and for gone.                      *)

\* A message other than the vanished paths; one that lets the writer delete
\* comes when there is nothing left to read.
Sent(m, P) == m.type # "vanished" /\ (m.type = "finish" /\ m.delete => P = {})

\* The vanished paths come first, before the writer has done anything.
OrderedOK(s, w) ==
  /\ \A i \in DOMAIN w.inbox :
       \/ Sent(w.inbox[i], s.pending)
       \/ /\ i = 1 /\ w.inbox[i].type = "vanished" /\ w.inbox[i].paths \subseteq Paths
          /\ w.candidates = {} /\ w.fresh = {} /\ s.inserted = {}
  /\ s.pc \in {"purge", "load", "walk"} => s.inserted = {}
  /\ \A c, d \in w.candidates : c.path \in Paths /\ (c.path = d.path => c = d)

\* No candidate for a move holds what the scan has stored, or is about to store,
\* as a new track, unless that had a candidate whose row was gone.
ApartOK(s, w) ==
  \A c \in w.candidates :
    c.tags \notin w.robbed => c.tags \notin s.inserted /\ \A x \in w.fresh : x.tags # c.tags

Passes(n, t, v) ==
  OrderedOK(scan[n], writer[n]) =>
    /\ OrderedOK(t, v)
    /\ ApartOK(scan[n], writer[n]) => ApartOK(t, v)

AllPass == \A n \in Ids : Passes(n, scan'[n], writer'[n])

\* The thread of the scan reads on and may send a message.
LEMMA SendsPasses ==
  ASSUME NEW n \in Ids, NEW t, NEW v, t.inserted = scan[n].inserted,
         t.pending \subseteq scan[n].pending,
         t.pc \in {"purge", "load", "walk"} => scan[n].pc \in {"purge", "load", "walk"},
         v.candidates = writer[n].candidates, v.fresh = writer[n].fresh,
         v.robbed = writer[n].robbed,
         \A i \in DOMAIN v.inbox : \/ Sent(v.inbox[i], t.pending)
                                   \/ i \in DOMAIN writer[n].inbox /\ v.inbox[i] = writer[n].inbox[i]
  PROVE  Passes(n, t, v)
BY DEF Passes, OrderedOK, ApartOK, Sent

LEMMA StaysPass ==
  ASSUME NEW n \in Ids, Stays(n) PROVE Passes(n, scan'[n], writer'[n])
BY SendsPasses DEF Stays

LEMMA StepPasses ==
  ASSUME ScanInv, NEW n \in Ids, NEW t, NEW v,
         Set(scan, scan', n, t), Set(writer, writer', n, v), Passes(n, t, v)
  PROVE  AllPass
<1>1. DOMAIN scan = Ids /\ DOMAIN writer = Ids
  BY DEF ScanInv, ScansOK
<1>2. scan'[n] = t /\ writer'[n] = v
  BY <1>1 DEF Set
<1>3. ASSUME NEW m \in Ids, m # n PROVE Passes(m, scan'[m], writer'[m])
  <2>1. scan'[m] = scan[m] /\ writer'[m] = writer[m]
    BY <1>1, <1>3 DEF Set
  <2> QED BY <2>1, StaysPass DEF Stays
<1> QED BY <1>2, <1>3 DEF AllPass

LEMMA QuietlyPasses ==
  ASSUME ScanInv, NEW n \in Ids, NEW t, Quietly(n, t), t.inserted = scan[n].inserted,
         t.pending \subseteq scan[n].pending,
         t.pc \in {"purge", "load", "walk"} => scan[n].pc \in {"purge", "load", "walk"}
  PROVE  AllPass
<1>1. Set(scan, scan', n, t) /\ Set(writer, writer', n, writer[n])
  BY DEF Quietly, Step, Set
<1>2. Passes(n, t, writer[n])
  BY SendsPasses
<1> QED BY <1>1, <1>2, StepPasses

LEMMA PurgePasses == ASSUME ScanInv, StampsOK, NEW n \in Ids, Purge(n) PROVE AllPass
<1> DEFINE pc == IF scan[n].roots = {} THEN "done" ELSE "load"
           t == [scan[n] EXCEPT !.pc = pc]
<1>1. DOMAIN scan[n] = ScanFields
  BY Fields
<1>2. scan[n].pc = "purge" /\ Set(scan, scan', n, t) /\ Set(writer, writer', n, writer[n])
  BY DEF Purge, Set
<1> HIDE DEF pc
<1>3. t.inserted = scan[n].inserted /\ t.pending = scan[n].pending
  BY <1>1 DEF ScanFields
<1> HIDE DEF t
<1>4. Passes(n, t, writer[n])
  BY <1>2, <1>3, SendsPasses
<1> QED BY <1>2, <1>4, StepPasses

\* Before it reads, a scan passes from one of its phases to the next.
LEMMA WalkPasses ==
  ASSUME ScanInv, StampsOK, NEW n \in Ids,
         SizeMtimeMap(n) \/ RootFails(n) \/ (\E r : WalkRoot(n, r)) \/ (\E p : VisitEntry(n, p))
  PROVE  AllPass
<1>1. DOMAIN scan[n] = ScanFields
  BY Fields
<1>2. ASSUME SizeMtimeMap(n) PROVE AllPass
  <2> DEFINE K == [p \in Paths |-> rows[p].stamp]
             t == [scan[n] EXCEPT !.pc = "walk", !.left = scan[n].roots, !.known = K]
  <2>1. scan[n].pc = "load" /\ Quietly(n, t)
    BY <1>2 DEF SizeMtimeMap
  <2> HIDE DEF K
  <2>2. t.inserted = scan[n].inserted /\ t.pending = scan[n].pending
    BY <1>1 DEF ScanFields
  <2> HIDE DEF t
  <2> QED BY <2>1, <2>2, QuietlyPasses
<1>3. ASSUME RootFails(n) PROVE AllPass
  <2> DEFINE t == [scan[n] EXCEPT !.at = NoRoot, !.todo = {}]
  <2>1. scan[n].pc = "walk" /\ Quietly(n, t)
    BY <1>3 DEF RootFails, Walking
  <2>2. t.inserted = scan[n].inserted /\ t.pending = scan[n].pending
    BY <1>1 DEF ScanFields
  <2> HIDE DEF t
  <2> QED BY <2>1, <2>2, QuietlyPasses
<1>4. ASSUME NEW p, VisitEntry(n, p) PROVE AllPass
  <2> DEFINE t == Found(scan[n], p)
  <2>1. scan[n].pc = "walk" /\ Quietly(n, t)
    BY <1>4 DEF VisitEntry, Walking
  <2>2. t.inserted = scan[n].inserted /\ t.pending = scan[n].pending
    BY <1>1 DEF ScanFields, Found
  <2> HIDE DEF t
  <2> QED BY <2>1, <2>2, QuietlyPasses
<1>5. ASSUME NEW r, WalkRoot(n, r) PROVE AllPass
  <2> DEFINE v == Walked(scan[n])
             t == [v EXCEPT !.left = @ \ {r}, !.calm = FALSE]
             u == [v EXCEPT !.left = @ \ {r}, !.at = r, !.todo = Under({r})]
  <2>1. /\ DOMAIN v = ScanFields /\ v.pc = scan[n].pc
        /\ v.inserted = scan[n].inserted /\ v.pending = scan[n].pending
    BY <1>1, WalkedFields DEF Walked, ScanFields
  <2>2. scan[n].pc = "walk" /\ (Quietly(n, t) \/ Quietly(n, u))
    BY <1>5, <2>1 DEF WalkRoot
  <2> HIDE DEF v
  <2>3. t.inserted = v.inserted /\ t.pending = v.pending
    BY <2>1 DEF ScanFields
  <2>4. u.inserted = v.inserted /\ u.pending = v.pending
    BY <2>1 DEF ScanFields
  <2> HIDE DEF t, u
  <2> QED BY <2>1, <2>2, <2>3, <2>4, QuietlyPasses
<1> QED BY <1>2, <1>3, <1>4, <1>5

LEMMA ScanFailsPasses ==
  ASSUME ScanInv, StampsOK, NEW n \in Ids, ScanFails(n) PROVE AllPass
<1> DEFINE t == [scan[n] EXCEPT !.pc = "done", !.calm = FALSE]
<1>1. DOMAIN scan[n] = ScanFields
  BY Fields
<1>2. Set(scan, scan', n, t) /\ Set(writer, writer', n, writer[n])
  BY DEF ScanFails, Set
<1>3. t.pc = "done" /\ t.inserted = scan[n].inserted /\ t.pending = scan[n].pending
  BY <1>1 DEF ScanFields
<1> HIDE DEF t
<1>4. Passes(n, t, writer[n])
  BY <1>3, SendsPasses
<1> QED BY <1>2, <1>4, StepPasses

LEMMA EntryFailsPasses ==
  ASSUME ScanInv, StampsOK, NEW n \in Ids, NEW p, EntryFails(n, p) PROVE AllPass
<1> DEFINE t == PassedOver(scan[n], p)
<1>1. DOMAIN scan[n] = ScanFields
  BY Fields
<1>2. scan[n].pc = "walk" /\ Set(scan, scan', n, t) /\ Set(writer, writer', n, writer[n])
  BY DEF EntryFails, Walking, Set
<1>3. t.inserted = scan[n].inserted /\ t.pending = scan[n].pending
  BY <1>1 DEF ScanFields, PassedOver
<1> HIDE DEF t
<1>4. Passes(n, t, writer[n])
  BY <1>2, <1>3, SendsPasses
<1> QED BY <1>2, <1>4, StepPasses

LEMMA DirFailsPasses ==
  ASSUME ScanInv, StampsOK, NEW n \in Ids, NEW d, DirFails(n, d) PROVE AllPass
<1> DEFINE t == Unlisted(scan[n], d)
<1>1. DOMAIN scan[n] = ScanFields
  BY Fields
<1>2. scan[n].pc = "walk" /\ Set(scan, scan', n, t) /\ Set(writer, writer', n, writer[n])
  BY DEF DirFails, Walking, Set
<1>3. t.inserted = scan[n].inserted /\ t.pending = scan[n].pending
  BY <1>1 DEF ScanFields, Unlisted
<1> HIDE DEF t
<1>4. Passes(n, t, writer[n])
  BY <1>2, <1>3, SendsPasses
<1> QED BY <1>2, <1>4, StepPasses

LEMMA ClassifyPasses == ASSUME ScanInv, StampsOK, NEW n \in Ids, Classify(n) PROVE AllPass
<1> DEFINE t == Classified(scan[n])
<1>1. DOMAIN scan[n] = ScanFields
  BY Fields
<1>2. PICK w :
        /\ scan[n].pc = "walk" /\ Step(n, t) /\ writer' = [writer EXCEPT ![n] = w]
        /\ w.fresh = {} /\ w.candidates = {}
        /\ w.inbox = IF VanishedRows(Walked(scan[n])) = {} THEN <<>>
                     ELSE <<Vanished(VanishedRows(Walked(scan[n])))>>
  BY ClassifyStep
<1>3. t.pc = "read" /\ t.inserted = scan[n].inserted
  <2> DEFINE v == Walked(scan[n])
             pending == ClassifyFiles(v)
             u == [v EXCEPT !.pc = "read", !.left = {}, !.todo = {}, !.walked = {}, !.failed = {},
                            !.pending = pending, !.known = Only(pending, @), !.seen = Only(pending, @)]
  <2>1. t = u
    BY DEF Classified
  <2>2. DOMAIN v = ScanFields /\ v.inserted = scan[n].inserted
    BY <1>1, WalkedFields DEF Walked, ScanFields
  <2> HIDE DEF v, pending
  <2>3. u.pc = "read" /\ u.inserted = v.inserted
    BY <2>2 DEF ScanFields
  <2> HIDE DEF u
  <2> QED BY <2>1, <2>2, <2>3
<1> HIDE DEF t
<1>4. \A i \in DOMAIN w.inbox :
        i = 1 /\ w.inbox[i].type = "vanished" /\ w.inbox[i].paths \subseteq Paths
  <2>1. VanishedRows(Walked(scan[n])) \subseteq Paths
    BY DEF VanishedRows, Under
  <2>2. \A V : Vanished(V).type = "vanished" /\ Vanished(V).paths = V
    BY DEF Vanished
  <2> QED BY <1>2, <2>1, <2>2, VanishedInbox
<1>5. Passes(n, t, w)
  BY <1>2, <1>3, <1>4 DEF Passes, OrderedOK, ApartOK
<1>6. Set(scan, scan', n, t) /\ Set(writer, writer', n, w)
  BY <1>2 DEF Step, Set
<1> QED BY <1>5, <1>6, StepPasses

LEMMA TakesPasses ==
  ASSUME ScanInv, StampsOK, NEW n \in Ids, NEW s, Takes(n, s), DOMAIN s = ScanFields,
         s.pc = "read", s.pending \subseteq scan[n].pending, s.inserted = scan[n].inserted
  PROVE  AllPass
<1>1. InboxOK(writer[n].inbox, scan[n].missing)
  BY Fields
<1>2. CASE IsFull(s)
  <2> DEFINE t == Emptied(s)
             m == Tracks(s.batch)
  <2>1. Step(n, t) /\ Send(n, m)
    BY <1>2 DEF Takes, Emptied
  <2>2. PICK w : /\ writer' = [writer EXCEPT ![n] = w] /\ w.fresh = writer[n].fresh
                 /\ w.candidates = writer[n].candidates /\ w.robbed = writer[n].robbed
                 /\ w.inbox = IF writer[n].pc = "failed" THEN <<>> ELSE Append(writer[n].inbox, m)
    BY <2>1, SendStep
  <2>3. t.pc = "read" /\ t.pending = s.pending /\ t.inserted = s.inserted
    BY EmptiedFields DEF Emptied, ScanFields
  <2>4. Sent(m, t.pending)
    BY DEF Tracks, Sent
  <2>5. Set(scan, scan', n, t) /\ Set(writer, writer', n, w)
    BY <2>1, <2>2 DEF Step, Set
  <2> HIDE DEF t, m
  <2>6. \A i \in DOMAIN w.inbox : \/ Sent(w.inbox[i], t.pending)
                                  \/ i \in DOMAIN writer[n].inbox /\ w.inbox[i] = writer[n].inbox[i]
    BY <1>1, <2>2, <2>4, AppendAt
  <2>7. Passes(n, t, w)
    BY <2>2, <2>3, <2>6, SendsPasses
  <2> QED BY <2>5, <2>7, StepPasses
<1>3. CASE ~IsFull(s)
  BY <1>3, QuietlyPasses DEF Takes
<1> QED BY <1>2, <1>3

LEMMA ReadPasses ==
  ASSUME ScanInv, StampsOK, NEW n \in Ids, NEW p, ReadFile(n, p) \/ SkipUnreadable(n, p)
  PROVE  AllPass
<1> DEFINE s == Taken(scan[n], p)
           t == Skipped(scan[n], p)
<1>1. DOMAIN scan[n] = ScanFields
  BY Fields
<1>2. scan[n].pc = "read" /\ (Takes(n, s) \/ Takes(n, t))
  BY DEF ReadFile, SkipUnreadable, MayRead, Taken, Skipped
<1>3. /\ DOMAIN s = ScanFields /\ s.pc = "read" /\ s.pending \subseteq scan[n].pending
      /\ s.inserted = scan[n].inserted
  BY <1>1, <1>2 DEF Taken, ScanFields
<1>4. /\ DOMAIN t = ScanFields /\ t.pc = "read" /\ t.pending \subseteq scan[n].pending
      /\ t.inserted = scan[n].inserted
  BY <1>1, <1>2 DEF Skipped, ScanFields
<1> HIDE DEF s, t
<1> QED BY <1>2, <1>3, <1>4, TakesPasses

LEMMA FinishPasses == ASSUME ScanInv, StampsOK, NEW n \in Ids, SendFinish(n) PROVE AllPass
<1> DEFINE t == [scan[n] EXCEPT !.pc = "join"]
           m == Finish(~scan[n].cancelled)
<1>1. DOMAIN scan[n] = ScanFields /\ InboxOK(writer[n].inbox, scan[n].missing)
  BY Fields
<1>2. /\ scan[n].cancelled \/ scan[n].pending = {} \/ writer[n].pc = "failed"
      /\ Step(n, t) /\ Send(n, m) /\ m.type = "finish" /\ m.delete = ~scan[n].cancelled
  BY DEF SendFinish, Finish
<1>3. PICK w : /\ writer' = [writer EXCEPT ![n] = w] /\ w.fresh = writer[n].fresh
               /\ w.candidates = writer[n].candidates /\ w.robbed = writer[n].robbed
               /\ w.inbox = IF writer[n].pc = "failed" THEN <<>> ELSE Append(writer[n].inbox, m)
  BY <1>2, SendStep
<1>4. t.pc = "join" /\ t.inserted = scan[n].inserted /\ t.pending = scan[n].pending
  BY <1>1 DEF ScanFields
<1>5. Set(scan, scan', n, t) /\ Set(writer, writer', n, w)
  BY <1>2, <1>3 DEF Step, Set
<1> HIDE DEF t, m
<1>6. writer[n].pc # "failed" => Sent(m, t.pending)
  BY <1>2, <1>4 DEF Sent
<1>7. \A i \in DOMAIN w.inbox : \/ Sent(w.inbox[i], t.pending)
                                \/ i \in DOMAIN writer[n].inbox /\ w.inbox[i] = writer[n].inbox[i]
  BY <1>1, <1>3, <1>6, AppendAt
<1>8. Passes(n, t, w)
  BY <1>3, <1>4, <1>7, SendsPasses
<1> QED BY <1>5, <1>8, StepPasses

LEMMA JoinPasses == ASSUME ScanInv, StampsOK, NEW n \in Ids, JoinWriter(n) PROVE AllPass
<1> DEFINE t == Joined(scan[n])
<1>1. Set(scan, scan', n, t) /\ Set(writer, writer', n, Unstarted)
  BY DEF JoinWriter, Step, Set, Joined
<1>2. t.pc = "done" /\ t.inserted = {}
  BY JoinedFields DEF Joined, Unscanned
<1> HIDE DEF t
<1>3. Passes(n, t, Unstarted)
  BY <1>2 DEF Passes, OrderedOK, ApartOK, Unstarted
<1> QED BY <1>1, <1>3, StepPasses

LEMMA ScannerPasses == ASSUME ScanInv, StampsOK, NEW n \in Ids, Scanner(n) PROVE AllPass
BY PurgePasses, ScanFailsPasses, WalkPasses, EntryFailsPasses, ClassifyPasses, DirFailsPasses,
   ReadPasses, FinishPasses, JoinPasses DEF Scanner

LEMMA TailSent ==
  ASSUME ScanInv, StampsOK, NEW n \in Ids, NEW type, Receives(n, type), OrderedOK(scan[n], writer[n])
  PROVE  \A i \in DOMAIN Tail(writer[n].inbox) : Sent(Tail(writer[n].inbox)[i], scan[n].pending)
<1> DEFINE q == writer[n].inbox
<1>1. InboxOK(q, scan[n].missing) /\ q # <<>>
  BY Receiving
<1>2. \A i \in DOMAIN q : i # 1 => Sent(q[i], scan[n].pending)
  BY DEF OrderedOK
<1> HIDE DEF q
<1>3. \A i \in DOMAIN Tail(q) : i + 1 \in DOMAIN q /\ i + 1 # 1 /\ Tail(q)[i] = q[i + 1]
  BY <1>1, TailAt
<1>4. \A i \in DOMAIN Tail(q) : Sent(Tail(q)[i], scan[n].pending)
  BY <1>2, <1>3
<1> QED BY <1>4 DEF q

LEMMA WithoutSent ==
  ASSUME ScanInv, StampsOK, NEW n \in Ids, Receives(n, "tracks"), OrderedOK(scan[n], writer[n]), NEW x
  PROVE  \A i \in DOMAIN Without(writer[n].inbox, x) : Sent(Without(writer[n].inbox, x)[i], scan[n].pending)
<1> DEFINE q == writer[n].inbox
<1>1. InboxOK(q, scan[n].missing) /\ q # <<>> /\ q[1].type = "tracks"
  BY Receiving
<1>2. \A i \in DOMAIN q : Sent(q[i], scan[n].pending) \/ (i = 1 /\ q[i].type = "vanished")
  BY DEF OrderedOK
<1> HIDE DEF q
<1>3. /\ DOMAIN Without(q, x) = DOMAIN q /\ Without(q, x)[1].type = q[1].type
      /\ \A i \in DOMAIN q : i # 1 => Without(q, x)[i] = q[i]
  BY <1>1, WithoutAt
<1>4. \A i \in DOMAIN Without(q, x) : Sent(Without(q, x)[i], scan[n].pending)
  BY <1>1, <1>2, <1>3 DEF Sent
<1> QED BY <1>4 DEF q

\* The writer of scan n is done with w.
LEMMA WritePasses ==
  ASSUME ScanInv, NEW n \in Ids, NEW t, NEW w,
         Set(scan, scan', n, t), writer' = [writer EXCEPT ![n] = w], Passes(n, t, w)
  PROVE  AllPass
<1>1. Set(writer, writer', n, w)
  BY DEF Set
<1> QED BY <1>1, StepPasses

LEMMA LoadRowsPasses == ASSUME ScanInv, StampsOK, NEW n \in Ids, LoadRows(n) PROVE AllPass
<1> DEFINE C == {[path |-> p, tags |-> rows[p].tags] : p \in {q \in Message(n).paths : Stored(q)}}
           w == [writer[n] EXCEPT !.inbox = Tail(@), !.candidates = C]
<1>1. Receives(n, "vanished") /\ Write(n, w) /\ UNCHANGED scan
  BY DEF LoadRows
<1>2. \A c, d \in C : c.path \in Message(n).paths /\ (c.path = d.path => c = d)
  OBVIOUS
<1> HIDE DEF C
<1>3. w.inbox = Tail(writer[n].inbox) /\ w.fresh = writer[n].fresh /\ w.candidates = C
  BY <1>1, Receiving
<1>4. Set(scan, scan', n, scan[n]) /\ writer' = [writer EXCEPT ![n] = w]
  BY <1>1 DEF Write, Set
<1> HIDE DEF w
<1>5. ASSUME OrderedOK(scan[n], writer[n]) PROVE OrderedOK(scan[n], w) /\ ApartOK(scan[n], w)
  <2>1. \A i \in DOMAIN w.inbox : Sent(w.inbox[i], scan[n].pending)
    BY <1>1, <1>3, <1>5, TailSent
  <2>2. /\ 1 \in DOMAIN writer[n].inbox /\ writer[n].inbox[1].type = "vanished"
        /\ Message(n) = writer[n].inbox[1]
    <3>1. /\ InboxOK(writer[n].inbox, scan[n].missing) /\ writer[n].inbox # <<>>
          /\ writer[n].inbox[1].type = "vanished" /\ Message(n) = writer[n].inbox[1]
      BY <1>1, Receiving
    <3> QED BY <3>1, TailAt
  <2>3. writer[n].fresh = {} /\ scan[n].inserted = {} /\ Message(n).paths \subseteq Paths
    BY <1>5, <2>2 DEF OrderedOK, Sent
  <2> QED BY <1>2, <1>3, <2>1, <2>3 DEF OrderedOK, ApartOK
<1>6. Passes(n, scan[n], w)
  BY <1>5 DEF Passes
<1> QED BY <1>4, <1>6, WritePasses

\* A step on an item of the first message.
LEMMA ItemPasses ==
  ASSUME ScanInv, StampsOK, NEW n \in Ids, Receives(n, "tracks"),
         NEW x, NEW w, Write(n, w), UNCHANGED scan,
         w.inbox \in {Without(writer[n].inbox, x), <<>>}, w.candidates \subseteq writer[n].candidates,
         ApartOK(scan[n], writer[n]) => ApartOK(scan[n], w)
  PROVE  AllPass
<1>1. Set(scan, scan', n, scan[n]) /\ writer' = [writer EXCEPT ![n] = w]
  BY DEF Write, Set
<1>2. ASSUME OrderedOK(scan[n], writer[n]) PROVE OrderedOK(scan[n], w)
  <2>1. \A i \in DOMAIN w.inbox : Sent(w.inbox[i], scan[n].pending)
    BY <1>2, WithoutSent
  <2> QED BY <1>2, <2>1 DEF OrderedOK
<1>3. Passes(n, scan[n], w)
  BY <1>2 DEF Passes
<1> QED BY <1>1, <1>3, WritePasses

LEMMA UpdatePasses ==
  ASSUME ScanInv, StampsOK, NEW n \in Ids, Receives(n, "tracks"), NEW x \in Message(n).items,
         UpdateTrack(n, x)
  PROVE  AllPass
<1> DEFINE w == Persisted(writer[n], x)
<1>1. Write(n, w) /\ UNCHANGED scan
  BY DEF UpdateTrack
<1>2. w.inbox = Without(writer[n].inbox, x) /\ w.fresh = writer[n].fresh
      /\ w.candidates = writer[n].candidates /\ w.robbed = writer[n].robbed
  BY Receiving, PersistedFields
<1> HIDE DEF w
<1>3. ApartOK(scan[n], writer[n]) => ApartOK(scan[n], w)
  BY <1>2 DEF ApartOK
<1> QED BY <1>1, <1>2, <1>3, ItemPasses

LEMMA NotMovedPasses ==
  ASSUME ScanInv, StampsOK, NEW n \in Ids, Receives(n, "tracks"), NEW x \in Message(n).items,
         NotMoved(n, x)
  PROVE  AllPass
<1> DEFINE v == Persisted(writer[n], x)
           w == [v EXCEPT !.fresh = @ \cup {x}]
<1>1. Write(n, w) /\ UNCHANGED scan /\ \A c \in writer[n].candidates : c.tags # x.tags
  BY DEF NotMoved, FindMove
<1>2. v.inbox = Without(writer[n].inbox, x) /\ v.fresh = writer[n].fresh
      /\ v.candidates = writer[n].candidates /\ v.robbed = writer[n].robbed
      /\ DOMAIN v = {"pc", "inbox", "candidates", "fresh", "robbed"}
  BY Receiving, PersistedFields
<1> HIDE DEF v
<1>3. w.inbox = Without(writer[n].inbox, x) /\ w.fresh = writer[n].fresh \cup {x}
      /\ w.candidates = writer[n].candidates /\ w.robbed = writer[n].robbed
  BY <1>2
<1> HIDE DEF w
<1>4. ApartOK(scan[n], writer[n]) => ApartOK(scan[n], w)
  BY <1>1, <1>3 DEF ApartOK
<1> QED BY <1>1, <1>3, <1>4, ItemPasses

LEMMA MovePasses ==
  ASSUME ScanInv, StampsOK, NEW n \in Ids, Receives(n, "tracks"), NEW x \in Message(n).items,
         NEW c \in writer[n].candidates, MoveTrack(n, x, c)
  PROVE  AllPass
<1>1. PICK w : /\ Write(n, w) /\ UNCHANGED scan
               /\ w.inbox \in {Without(writer[n].inbox, x), <<>>}
               /\ w.candidates = writer[n].candidates \ {c}
               /\ \/ w.fresh = writer[n].fresh /\ w.robbed = writer[n].robbed
                  \/ /\ w.fresh = writer[n].fresh \cup {x}
                     /\ w.robbed = writer[n].robbed \cup {x.tags}
  BY MoveSteps
<1>2. ApartOK(scan[n], writer[n]) => ApartOK(scan[n], w)
  BY <1>1 DEF ApartOK
<1> QED BY <1>1, <1>2, ItemPasses

LEMMA UpsertPasses == ASSUME ScanInv, StampsOK, NEW n \in Ids, UpsertTracks(n) PROVE AllPass
<1> DEFINE t == Inserted(n)
<1>1. PICK w : /\ Receives(n, "tracks") /\ Write(n, w) /\ scan' = [scan EXCEPT ![n] = t]
               /\ w.inbox = Tail(writer[n].inbox) /\ w.fresh = {}
               /\ w.candidates = writer[n].candidates /\ w.robbed = writer[n].robbed
  BY UpsertStep
<1>2. /\ t.pc = scan[n].pc /\ t.pending = scan[n].pending
      /\ t.inserted = scan[n].inserted \cup {i.tags : i \in {j \in writer[n].fresh : ~Stored(j.path)}}
  <2>1. DOMAIN scan[n] = ScanFields
    BY Fields
  <2> QED BY <2>1, InsertedFields DEF Inserted, ScanFields
<1>3. Set(scan, scan', n, t) /\ writer' = [writer EXCEPT ![n] = w]
  BY <1>1 DEF Write, Set
<1>4. scan[n].pc \notin {"purge", "load", "walk"}
  <2>1. writer[n].pc = "idle"
    BY <1>1, Receiving
  <2> QED BY <2>1, Fields DEF StampedOK, Unstarted
<1> HIDE DEF t
<1>5. ASSUME OrderedOK(scan[n], writer[n]) PROVE OrderedOK(t, w)
  <2>1. \A i \in DOMAIN w.inbox : Sent(w.inbox[i], scan[n].pending)
    BY <1>1, <1>5, TailSent
  <2> QED BY <1>1, <1>2, <1>4, <1>5, <2>1 DEF OrderedOK
<1>6. ApartOK(scan[n], writer[n]) => ApartOK(t, w)
  BY <1>1, <1>2 DEF ApartOK
<1>7. Passes(n, t, w)
  BY <1>5, <1>6 DEF Passes
<1> QED BY <1>3, <1>7, WritePasses

LEMMA DeletePasses == ASSUME ScanInv, StampsOK, NEW n \in Ids, DeleteRemaining(n) PROVE AllPass
<1> DEFINE w == [writer[n] EXCEPT !.pc = "ended", !.inbox = Tail(@)]
<1>1. Receives(n, "finish") /\ Write(n, w) /\ UNCHANGED scan
  BY DEF DeleteRemaining
<1>2. w.inbox = Tail(writer[n].inbox) /\ w.fresh = writer[n].fresh
      /\ w.candidates = writer[n].candidates /\ w.robbed = writer[n].robbed
  BY <1>1, Receiving
<1>3. Set(scan, scan', n, scan[n]) /\ writer' = [writer EXCEPT ![n] = w]
  BY <1>1 DEF Write, Set
<1> HIDE DEF w
<1>4. ASSUME OrderedOK(scan[n], writer[n]) PROVE OrderedOK(scan[n], w)
  <2>1. \A i \in DOMAIN w.inbox : Sent(w.inbox[i], scan[n].pending)
    BY <1>1, <1>2, <1>4, TailSent
  <2> QED BY <1>2, <1>4, <2>1 DEF OrderedOK
<1>5. Passes(n, scan[n], w)
  BY <1>2, <1>4 DEF Passes, ApartOK
<1> QED BY <1>3, <1>5, WritePasses

LEMMA StoreFailsPasses == ASSUME ScanInv, StampsOK, NEW n \in Ids, StoreFails(n) PROVE AllPass
<1> DEFINE t == [scan[n] EXCEPT !.calm = FALSE]
           w == [writer[n] EXCEPT !.pc = "failed", !.inbox = <<>>]
<1>1. writer' = [writer EXCEPT ![n] = w] /\ Set(scan, scan', n, t)
  BY DEF StoreFails, Write, Set
<1>2. DOMAIN scan[n] = ScanFields /\ DOMAIN writer[n] = {"pc", "inbox", "candidates", "fresh", "robbed"}
  BY Fields
<1>3. t.pc = scan[n].pc /\ t.pending = scan[n].pending /\ t.inserted = scan[n].inserted
  BY <1>2 DEF ScanFields
<1>4. /\ w.inbox = <<>> /\ w.fresh = writer[n].fresh
      /\ w.candidates = writer[n].candidates /\ w.robbed = writer[n].robbed
  BY <1>2
<1> HIDE DEF t, w
<1>5. Passes(n, t, w)
  BY <1>3, <1>4, SendsPasses
<1> QED BY <1>1, <1>5, WritePasses

LEMMA WriterPasses == ASSUME ScanInv, StampsOK, NEW n \in Ids, WriterStep(n) PROVE AllPass
BY LoadRowsPasses, UpsertPasses, DeletePasses, StoreFailsPasses, UpdatePasses, NotMovedPasses,
   MovePasses DEF WriterStep

LEMMA NextPasses ==
  ASSUME ScanInv, StampsOK, [Next]_vars, NEW n \in Ids
  PROVE  Passes(n, scan'[n], writer'[n]) \/ Begun(n)
BY OthersStay, StaysPass, BackendBegins, ScannerPasses, WriterPasses DEF Next, AllPass, Begun

AllOrdered == \A n \in Ids : OrderedOK(scan[n], writer[n])
AllApart == \A n \in Ids : ApartOK(scan[n], writer[n])

LEMMA OrderedKept == ASSUME ScanInv, StampsOK, AllOrdered, [Next]_vars PROVE AllOrdered'
<1>1. ASSUME NEW n \in Ids, Begun(n) PROVE OrderedOK(scan'[n], writer'[n])
  BY <1>1 DEF Begun, OrderedOK, Unstarted
<1>2. ASSUME NEW n \in Ids, Passes(n, scan'[n], writer'[n]) PROVE OrderedOK(scan'[n], writer'[n])
  BY <1>2 DEF Passes, AllOrdered
<1> QED BY <1>1, <1>2, NextPasses DEF AllOrdered

LEMMA ApartKept ==
  ASSUME ScanInv, StampsOK, AllOrdered, AllApart, [Next]_vars
  PROVE  AllApart'
<1>1. ASSUME NEW n \in Ids, Begun(n) PROVE ApartOK(scan'[n], writer'[n])
  BY <1>1 DEF Begun, ApartOK, Unstarted
<1>2. ASSUME NEW n \in Ids, Passes(n, scan'[n], writer'[n]) PROVE ApartOK(scan'[n], writer'[n])
  BY <1>2 DEF Passes, AllOrdered, AllApart
<1> QED BY <1>1, <1>2, NextPasses DEF AllApart

LEMMA OrderedInit == Init => AllOrdered /\ AllApart
BY DEF Init, Unscanned, Unstarted, AllOrdered, AllApart, OrderedOK, ApartOK

LEMMA DeletesAll ==
  ASSUME ScanInv, StampsOK, AllOrdered, [Next]_vars, NEW n \in Ids, NEW p \in Paths,
         Deletes(n), Lost(p)
  PROVE  scan[n].pending = {}
<1>1. ASSUME NEW m \in Ids, Purge(m) PROVE FALSE
  BY <1>1 DEF Purge, Deletes
<1>2. ASSUME NEW m \in Ids, DeleteRemaining(m), p \in Remaining(m) PROVE scan[n].pending = {}
  <2>1. m = n
    BY <1>2, DeleteEnds
  <2>2. Message(n).delete /\ Message(n).type = "finish"
    BY <1>2, <2>1 DEF Remaining, DeleteRemaining, Receives
  <2>3. /\ InboxOK(writer[n].inbox, scan[n].missing) /\ writer[n].inbox # <<>>
        /\ Message(n) = writer[n].inbox[1]
    BY <1>2, <2>1, Receiving DEF DeleteRemaining
  <2>4. 1 \in DOMAIN writer[n].inbox
    BY <2>3, TailAt
  <2> QED BY <2>2, <2>3, <2>4 DEF AllOrdered, OrderedOK, Sent
<1> QED BY <1>1, <1>2, LostIsTaken DEF TakenAway

\* A writer deletes rows only when its scan has read all the files it found to
\* differ: whatever was moved has been found by then (scanner/mod.rs:135).
THEOREM DeletesAfterReading ==
  Spec => [][\A n \in Ids, p \in Paths : Deletes(n) /\ Lost(p) => scan[n].pending = {}]_vars
<1> DEFINE I == ScanInv /\ StampsOK /\ AllOrdered
           A == \A n \in Ids, p \in Paths : Deletes(n) /\ Lost(p) => scan[n].pending = {}
<1>1. Init => I
  BY ScanInit, StampsInit, OrderedInit
<1>2. I /\ [Next]_vars => I'
  BY NextKeeps, NextStamps, OrderedKept
<1>3. I /\ [Next]_vars => [A]_vars
  BY DeletesAll
<1> QED BY <1>1, <1>2, <1>3, PTL DEF Spec

\* A file that moved keeps its row, and with it plays, stars and playlists, or
\* at least the row is not deleted while the same is stored as new, however many
\* files hold the same and in whatever batches they are read (writer.rs:133): the
\* exception is a file whose row another scan took first.
THEOREM MovedFilesKeepRows == Spec => MovedFileKeepsRow
<1> DEFINE I == ScanInv /\ StampsOK /\ AllOrdered /\ AllApart
           A == \A n \in Ids, p \in Paths : Deletes(n) /\ Lost(p) =>
                  /\ scan[n].pending = {}
                  /\ \A c \in writer[n].candidates :
                       c.path = p /\ c.tags \in scan[n].inserted => c.tags \in writer[n].robbed
<1>1. Init => I
  BY ScanInit, StampsInit, OrderedInit
<1>2. I /\ [Next]_vars => I'
  BY NextKeeps, NextStamps, OrderedKept, ApartKept
<1>3. I /\ [Next]_vars => [A]_vars
  BY DeletesAll DEF AllApart, ApartOK
<1> HIDE DEF I
<1> QED BY <1>1, <1>2, <1>3, PTL DEF Spec, MovedFileKeepsRow

----------------------------------------------------------------------------
(* One scan at a time.                                                     *)

NoOverlap == \A m, n \in Ids : Running(m) /\ Running(n) => m = n

\* The rows that may have moved are there.
CandidatesStored ==
  \A n \in Ids : writer[n].pc = "idle" => \A c \in writer[n].candidates : Stored(c.path)

\* How the candidates of a writer that goes on came to be.
CandidatesCome(n) ==
  \/ writer[n].pc = "idle" /\ writer'[n].candidates \subseteq writer[n].candidates
  \/ writer'[n].candidates = {}
  \/ LoadRows(n)

LEMMA StaysCome == ASSUME NEW n \in Ids, writer'[n] = writer[n] PROVE writer'[n].pc = "idle" => CandidatesCome(n)
BY DEF CandidatesCome

LEMMA SendComes ==
  ASSUME ScanInv, StampsOK, NEW n \in Ids, NEW m \in Ids, NEW x, UNCHANGED writer \/ Send(m, x)
  PROVE  writer'[n].pc = "idle" => CandidatesCome(n)
<1>1. CASE UNCHANGED writer
  BY <1>1, StaysCome
<1>2. CASE Send(m, x)
  <2>1. PICK w : /\ writer' = [writer EXCEPT ![m] = w] /\ w.pc = writer[m].pc
                 /\ w.candidates = writer[m].candidates
    BY <1>2, SendStep
  <2>2. writer'[n] = (IF n = m THEN w ELSE writer[n])
    BY <2>1 DEF ScanInv, ScansOK
  <2> QED BY <2>1, <2>2 DEF CandidatesCome
<1> QED BY <1>1, <1>2

LEMMA ScannerComes ==
  ASSUME ScanInv, StampsOK, NEW n \in Ids, NEW m \in Ids, Scanner(m), writer'[n].pc = "idle"
  PROVE  CandidatesCome(n)
<1>1. /\ Purge(m) \/ SizeMtimeMap(m) \/ RootFails(m) => UNCHANGED writer
      /\ \A r : WalkRoot(m, r) => UNCHANGED writer
      /\ \A p, d : VisitEntry(m, p) \/ EntryFails(m, p) \/ DirFails(m, d) => UNCHANGED writer
      /\ ScanFails(m) => UNCHANGED writer
  BY DEF Purge, ScanFails, SizeMtimeMap, RootFails, WalkRoot, VisitEntry, EntryFails, DirFails,
         Quietly
<1>2. \A p : ReadFile(m, p) \/ SkipUnreadable(m, p) => \E x : UNCHANGED writer \/ Send(m, x)
  BY DEF ReadFile, SkipUnreadable, Takes, Quietly
<1>3. SendFinish(m) => \E x : Send(m, x)
  BY DEF SendFinish
<1>4. DOMAIN writer = Ids
  BY DEF ScanInv, ScansOK
<1>5. ASSUME Classify(m) PROVE CandidatesCome(n)
  <2>1. PICK w : writer' = [writer EXCEPT ![m] = w] /\ w.candidates = {}
    BY <1>5, ClassifyStep
  <2>2. writer'[n] = (IF n = m THEN w ELSE writer[n])
    BY <1>4, <2>1
  <2> QED BY <2>1, <2>2, StaysCome DEF CandidatesCome
<1>6. ASSUME JoinWriter(m) PROVE CandidatesCome(n)
  <2>1. writer'[n] = (IF n = m THEN Unstarted ELSE writer[n])
    BY <1>4, <1>6 DEF JoinWriter
  <2> QED BY <2>1, StaysCome DEF CandidatesCome, Unstarted
<1> QED BY <1>1, <1>2, <1>3, <1>5, <1>6, SendComes DEF Scanner

\* What becomes of the candidates and the rows when a writer takes a step.
LEMMA WriterComes ==
  ASSUME ScanInv, StampsOK, NEW n \in Ids, NEW m \in Ids, WriterStep(m), writer'[n].pc = "idle"
  PROVE  CandidatesCome(n)
<1>1. PICK w : writer' = [writer EXCEPT ![m] = w]
  BY DEF WriterStep, LoadRows, UpsertTracks, DeleteRemaining, StoreFails, UpdateTrack, NotMoved,
         MoveTrack, Write
<1>2. writer'[n] = (IF n = m THEN w ELSE writer[n])
  BY <1>1 DEF ScanInv, ScansOK
<1>3. CASE n # m
  BY <1>2, <1>3, StaysCome
<1>4. ASSUME n = m, NEW v, Write(n, v), writer[n].pc = "idle", v.candidates \subseteq writer[n].candidates
      PROVE  CandidatesCome(n)
  <2>1. writer'[n] = v
    BY <1>4 DEF Write, ScanInv, ScansOK
  <2> QED BY <1>4, <2>1 DEF CandidatesCome
<1>5. ASSUME n = m, UpsertTracks(n) PROVE CandidatesCome(n)
  BY <1>4, <1>5, UpsertStep DEF Receives
<1>6. ASSUME n = m, Receives(n, "tracks"), NEW x \in Message(n).items, NEW c, MoveTrack(n, x, c)
      PROVE  CandidatesCome(n)
  <2>1. PICK v : Write(n, v) /\ v.candidates = writer[n].candidates \ {c}
    BY <1>6, MoveSteps
  <2> QED BY <1>4, <1>6, <2>1 DEF Receives
<1>7. ASSUME n = m, Receives(n, "tracks"), NEW x \in Message(n).items, UpdateTrack(n, x) \/ NotMoved(n, x)
      PROVE  CandidatesCome(n)
  <2> DEFINE v == Persisted(writer[n], x)
             u == [v EXCEPT !.fresh = @ \cup {x}]
  <2>1. Write(n, v) \/ Write(n, u)
    BY <1>7 DEF UpdateTrack, NotMoved
  <2>2. v.candidates = writer[n].candidates /\ DOMAIN v = {"pc", "inbox", "candidates", "fresh", "robbed"}
    BY <1>7, Receiving, PersistedFields
  <2> HIDE DEF v
  <2>3. u.candidates = v.candidates
    BY <2>2
  <2> HIDE DEF u
  <2> QED BY <1>4, <1>7, <2>1, <2>2, <2>3 DEF Receives
<1>8. ASSUME n = m, StoreFails(n) \/ DeleteRemaining(n) PROVE FALSE
  <2> DEFINE u == [writer[n] EXCEPT !.pc = "failed", !.inbox = <<>>]
             v == [writer[n] EXCEPT !.pc = "ended", !.inbox = Tail(@)]
  <2>1. Write(n, u) \/ Write(n, v)
    BY <1>8 DEF StoreFails, DeleteRemaining
  <2>2. u.pc = "failed" /\ v.pc = "ended"
    BY Fields
  <2> HIDE DEF u, v
  <2> QED BY <2>1, <2>2 DEF Write, ScanInv, ScansOK
<1> QED BY <1>3, <1>5, <1>6, <1>7, <1>8 DEF WriterStep, CandidatesCome

LEMMA NextComes ==
  ASSUME ScanInv, StampsOK, [Next]_vars, NEW n \in Ids, writer'[n].pc = "idle"
  PROVE  CandidatesCome(n)
<1>1. \A k \in Ids : Begun(k) => CandidatesCome(n)
  BY StaysCome DEF Begun, Stays, Unstarted, CandidatesCome
<1>2. (\A m \in Ids : Stays(m)) => CandidatesCome(n)
  BY StaysCome DEF Stays
<1> QED BY <1>1, <1>2, OthersStay, BackendBegins, ScannerComes, WriterComes DEF Next

\* The writer of scan m takes the row at p for that of a file it has found.
TakesRow(m, p) ==
  \E x \in Message(m).items : \E d \in writer[m].candidates :
    Receives(m, "tracks") /\ MoveTrack(m, x, d) /\ d.path = p

LEMMA NewRowIsStored ==
  ASSUME NEW p, NEW x, NEW id, rows'[p] = RowOf(x, id), x.stamp # 0
  PROVE  Stored(p)'
<1>1. rows'[p].stamp # 0 /\ NoRow.stamp = 0
  BY DEF RowOf, NoRow
<1> QED BY <1>1 DEF Stored

LEMMA WriterGoes ==
  ASSUME ScanInv, StampsOK, NEW n \in Ids, WriterStep(n), NEW p \in Paths, Stored(p), ~Stored(p)'
  PROVE  (DeleteRemaining(n) /\ p \in Remaining(n)) \/ TakesRow(n, p)
<1>1. rows'[p] # rows[p] /\ DOMAIN rows = Paths
  BY DEF Stored, ScanInv, RowsOK
<1>2. ASSUME UpsertTracks(n) PROVE FALSE
  <2>1. \A x \in writer[n].fresh : x.stamp # 0
    BY Fields DEF StampedOK, ItemsStamped
  <2> QED BY <1>1, <1>2, <2>1, UpsertRows, NewRowIsStored
<1>3. ASSUME Receives(n, "tracks"), NEW x \in Message(n).items, UpdateTrack(n, x) PROVE FALSE
  <2>1. x.stamp # 0
    BY <1>3, ItemHasStamp
  <2>2. x.path = p => rows'[p] = RowOf(x, rows[x.path].id)
    BY <1>1, <1>3 DEF UpdateTrack
  <2>3. x.path # p => rows'[p] = rows[p]
    BY <1>1, <1>3 DEF UpdateTrack
  <2> QED BY <1>1, <2>1, <2>2, <2>3, NewRowIsStored
<1>4. ASSUME Receives(n, "tracks"), NEW x \in Message(n).items, NEW d \in writer[n].candidates,
             MoveTrack(n, x, d)
      PROVE  TakesRow(n, p)
  <2>1. rows' = MovedRow(d.path, x)
    BY <1>1, <1>4 DEF MoveTrack
  <2>2. x.stamp # 0
    BY <1>4, ItemHasStamp
  <2>3. x.path = p => rows'[p] = RowOf(x, rows[d.path].id)
    BY <1>1, <2>1 DEF MovedRow
  <2>4. x.path # p /\ d.path # p => rows'[p] = rows[p]
    BY <1>1, <2>1 DEF MovedRow
  <2>5. d.path = p
    BY <1>1, <2>2, <2>3, <2>4, NewRowIsStored
  <2> QED BY <1>4, <2>5 DEF TakesRow
<1>5. DeleteRemaining(n) => p \in Remaining(n)
  BY <1>1 DEF DeleteRemaining
<1>6. LoadRows(n) \/ StoreFails(n) \/ (\E x : NotMoved(n, x)) => UNCHANGED rows
  BY DEF LoadRows, StoreFails, NotMoved
<1> QED BY <1>1, <1>2, <1>3, <1>4, <1>5, <1>6 DEF WriterStep

\* The rows that are no longer there after a step.
LEMMA RowsGo ==
  ASSUME ScanInv, StampsOK, [Next]_vars, NEW p \in Paths, Stored(p), ~Stored(p)'
  PROVE  TakenAway(p) \/ \E n \in Ids : TakesRow(n, p)
<1>1. rows'[p] # rows[p] /\ DOMAIN rows = Paths
  BY DEF Stored, ScanInv, RowsOK
<1>2. ASSUME NEW n \in Ids, Scanner(n) PROVE TakenAway(p)
  <2>1. Purge(n)
    BY <1>1, <1>2, ScannerRows
  <2>2. p \notin Under(scan[n].purge) => rows'[p] = rows[p]
    BY <2>1 DEF Purge
  <2> QED BY <1>1, <2>1, <2>2 DEF TakenAway
<1>3. ASSUME StoreTagEdits PROVE FALSE
  <2>1. edit.stamp # 0 /\ DOMAIN rows[p] = {"id", "stamp", "tags"}
    BY <1>3 DEF StoreTagEdits, StampsOK, EditOK, ScanInv, RowsOK
  <2>2. p = edit.path => rows'[p] = [rows[p] EXCEPT !.stamp = edit.stamp, !.tags = edit.tags]
    BY <1>1, <1>3 DEF StoreTagEdits
  <2>3. p # edit.path => rows'[p] = rows[p]
    BY <1>1, <1>3 DEF StoreTagEdits
  <2>4. rows'[p].stamp = edit.stamp
    <3> DEFINE k == edit.stamp
               t == edit.tags
    <3>1. rows'[p] = [rows[p] EXCEPT !.stamp = k, !.tags = t]
      BY <1>1, <2>2, <2>3
    <3> HIDE DEF k, t
    <3>2. rows'[p].stamp = k
      BY <2>1, <3>1
    <3> QED BY <3>2 DEF k
  <2>5. NoRow.stamp = 0
    BY DEF NoRow
  <2> QED BY <2>1, <2>4, <2>5 DEF Stored
<1>4. Outside => UNCHANGED rows
  BY DEF Outside, OtherWrites, OtherRemoves, OtherRenames, ShareChanges, Change
<1>5. Backend => UNCHANGED rows
  BY DEF Backend, Rescan, RemoveFolder, AddFolder, WatcherAsks, BeginScan, CancelScan
<1>6. Editor => StoreTagEdits \/ UNCHANGED rows
  BY DEF Editor, StatEdited, WriteTags
<1>7. UNCHANGED vars => UNCHANGED rows
  BY DEF vars
<1> QED BY <1>1, <1>2, <1>3, <1>4, <1>5, <1>6, <1>7, WriterGoes DEF Next, TakenAway

LEMMA CandidatesKept ==
  ASSUME ScanInv, StampsOK, AllOrdered, NoOverlap, CandidatesStored, [Next]_vars
  PROVE  CandidatesStored'
<1> SUFFICES ASSUME NEW n \in Ids, writer'[n].pc = "idle", NEW c \in writer'[n].candidates, ~Stored(c.path)'
             PROVE  FALSE
  BY DEF CandidatesStored, Stored
<1>1. ASSUME LoadRows(n) PROVE FALSE
  <2> DEFINE C == {[path |-> p, tags |-> rows[p].tags] : p \in {q \in Message(n).paths : Stored(q)}}
             w == [writer[n] EXCEPT !.inbox = Tail(@), !.candidates = C]
  <2>1. Write(n, w) /\ UNCHANGED rows
    BY <1>1 DEF LoadRows
  <2>2. \A d \in C : Stored(d.path)
    OBVIOUS
  <2> HIDE DEF C
  <2>3. w.candidates = C
    BY Fields
  <2> HIDE DEF w
  <2>4. writer'[n] = w
    BY <2>1 DEF Write, ScanInv, ScansOK
  <2> QED BY <2>1, <2>2, <2>3, <2>4 DEF Stored
<1>2. ASSUME writer[n].pc = "idle", writer'[n].candidates \subseteq writer[n].candidates PROVE FALSE
  <2>1. c \in writer[n].candidates /\ c.path \in Paths /\ Stored(c.path)
    BY <1>2 DEF CandidatesStored, AllOrdered, OrderedOK
  <2>2. Running(n) /\ scan[n].pc # "purge" /\ \A m \in Ids : Running(m) => m = n
    BY <1>2, WriterRuns, Fields DEF NoOverlap, StampedOK, Unstarted
  <2>3. ASSUME NEW m \in Ids, Purge(m) PROVE FALSE
    BY <2>2, <2>3 DEF Purge, Running
  <2>4. ASSUME NEW m \in Ids, DeleteRemaining(m) PROVE FALSE
    <3>1. m = n
      BY <2>2, <2>4, WriterRuns DEF DeleteRemaining, Receives
    <3> QED BY <2>4, <3>1, DeleteEnds DEF Deletes
  <2>5. ASSUME NEW m \in Ids, TakesRow(m, c.path) PROVE FALSE
    <3>1. PICK x \in Message(m).items, d \in writer[m].candidates :
            Receives(m, "tracks") /\ MoveTrack(m, x, d) /\ d.path = c.path
      BY <2>5 DEF TakesRow
    <3>2. m = n
      BY <2>2, <3>1, WriterRuns DEF Receives
    <3>3. d = c
      BY <2>1, <3>1, <3>2 DEF AllOrdered, OrderedOK
    <3>4. PICK w : Write(n, w) /\ w.candidates = writer[n].candidates \ {d}
      BY <3>1, <3>2, MoveSteps
    <3>5. writer'[n] = w
      BY <3>4 DEF Write, ScanInv, ScansOK
    <3> QED BY <3>3, <3>4, <3>5
  <2> QED BY <2>1, <2>3, <2>4, <2>5, RowsGo DEF TakenAway
<1> QED BY <1>1, <1>2, NextComes DEF CandidatesCome

NoneRobbed == \A n \in Ids : writer[n].robbed = {}

LEMMA ScannerRobsNone ==
  ASSUME ScanInv, StampsOK, NoneRobbed, NEW m \in Ids, Scanner(m), NEW n \in Ids
  PROVE  writer'[n].robbed = {}
<1>1. /\ Purge(m) \/ SizeMtimeMap(m) \/ RootFails(m) \/ ScanFails(m) => UNCHANGED writer
      /\ \A r : WalkRoot(m, r) => UNCHANGED writer
      /\ \A p, d : VisitEntry(m, p) \/ EntryFails(m, p) \/ DirFails(m, d) => UNCHANGED writer
  BY DEF Purge, ScanFails, SizeMtimeMap, RootFails, WalkRoot, VisitEntry, EntryFails, DirFails,
         Quietly
<1>2. \A p : ReadFile(m, p) \/ SkipUnreadable(m, p) => \E x : UNCHANGED writer \/ Send(m, x)
  BY DEF ReadFile, SkipUnreadable, Takes, Quietly
<1>3. SendFinish(m) => \E x : Send(m, x)
  BY DEF SendFinish
<1>4. ASSUME NEW w, writer' = [writer EXCEPT ![m] = w], w.robbed = {} PROVE writer'[n].robbed = {}
  <2>1. writer'[n] = (IF n = m THEN w ELSE writer[n])
    BY <1>4 DEF ScanInv, ScansOK
  <2> QED BY <1>4, <2>1 DEF NoneRobbed
<1>5. ASSUME NEW x, Send(m, x) PROVE writer'[n].robbed = {}
  <2>1. PICK w : writer' = [writer EXCEPT ![m] = w] /\ w.robbed = writer[m].robbed
    BY <1>5, SendStep
  <2> QED BY <1>4, <2>1 DEF NoneRobbed
<1>6. ASSUME Classify(m) PROVE writer'[n].robbed = {}
  BY <1>4, <1>6, ClassifyStep
<1>7. ASSUME JoinWriter(m) PROVE writer'[n].robbed = {}
  <2>1. writer' = [writer EXCEPT ![m] = Unstarted]
    BY <1>7 DEF JoinWriter
  <2>2. Unstarted.robbed = {}
    BY DEF Unstarted
  <2> QED BY <1>4, <2>1, <2>2
<1> QED BY <1>1, <1>2, <1>3, <1>5, <1>6, <1>7 DEF Scanner, NoneRobbed

\* Only a candidate whose row is gone is robbed.
LEMMA WriterRobsNone ==
  ASSUME ScanInv, StampsOK, CandidatesStored, NoneRobbed, NEW m \in Ids, WriterStep(m), NEW n \in Ids
  PROVE  writer'[n].robbed = {}
<1>1. ASSUME NEW w, Write(m, w), w.robbed = {} PROVE writer'[n].robbed = {}
  <2>1. writer'[n] = (IF n = m THEN w ELSE writer[n])
    BY <1>1 DEF Write, ScanInv, ScansOK
  <2> QED BY <1>1, <2>1 DEF NoneRobbed
<1>2. DOMAIN writer[m] = {"pc", "inbox", "candidates", "fresh", "robbed"} /\ writer[m].robbed = {}
  BY Fields DEF NoneRobbed
<1>3. ASSUME LoadRows(m) \/ StoreFails(m) \/ DeleteRemaining(m) PROVE writer'[n].robbed = {}
  <2> DEFINE C == {[path |-> p, tags |-> rows[p].tags] : p \in {q \in Message(m).paths : Stored(q)}}
             t == [writer[m] EXCEPT !.inbox = Tail(@), !.candidates = C]
             u == [writer[m] EXCEPT !.pc = "failed", !.inbox = <<>>]
             v == [writer[m] EXCEPT !.pc = "ended", !.inbox = Tail(@)]
  <2>1. Write(m, t) \/ Write(m, u) \/ Write(m, v)
    BY <1>3 DEF LoadRows, StoreFails, DeleteRemaining
  <2> HIDE DEF C
  <2>2. t.robbed = {} /\ u.robbed = {} /\ v.robbed = {}
    BY <1>2
  <2> HIDE DEF t, u, v
  <2> QED BY <1>1, <2>1, <2>2
<1>4. ASSUME UpsertTracks(m) PROVE writer'[n].robbed = {}
  BY <1>1, <1>2, <1>4, UpsertStep
<1>5. ASSUME Receives(m, "tracks"), NEW x \in Message(m).items, UpdateTrack(m, x) \/ NotMoved(m, x)
      PROVE  writer'[n].robbed = {}
  <2> DEFINE v == Persisted(writer[m], x)
             u == [v EXCEPT !.fresh = @ \cup {x}]
  <2>1. Write(m, v) \/ Write(m, u)
    BY <1>5 DEF UpdateTrack, NotMoved
  <2>2. v.robbed = {} /\ DOMAIN v = {"pc", "inbox", "candidates", "fresh", "robbed"}
    BY <1>2, PersistedFields
  <2> HIDE DEF v
  <2>3. u.robbed = {}
    BY <2>2
  <2> HIDE DEF u
  <2> QED BY <1>1, <2>1, <2>2, <2>3
<1>6. ASSUME Receives(m, "tracks"), NEW x \in Message(m).items,
             NEW c \in writer[m].candidates, MoveTrack(m, x, c)
      PROVE  writer'[n].robbed = {}
  <2>1. Stored(c.path)
    BY <1>6 DEF CandidatesStored, Receives
  <2>2. PICK w : Write(m, w) /\ w.robbed = writer[m].robbed
    BY <1>6, <2>1, MoveSteps
  <2> QED BY <1>1, <1>2, <2>2
<1> QED BY <1>3, <1>4, <1>5, <1>6 DEF WriterStep

LEMMA NoneRobbedKept ==
  ASSUME ScanInv, StampsOK, CandidatesStored, NoneRobbed, [Next]_vars
  PROVE  NoneRobbed'
<1>1. \A k \in Ids : Begun(k) => NoneRobbed'
  BY DEF Begun, Stays, Unstarted, NoneRobbed
<1>2. (\A m \in Ids : Stays(m)) => NoneRobbed'
  BY DEF Stays, NoneRobbed
<1>3. (\E m \in Ids : Scanner(m) \/ WriterStep(m)) => NoneRobbed'
  BY ScannerRobsNone, WriterRobsNone DEF NoneRobbed
<1> QED BY <1>1, <1>2, <1>3, OthersStay, BackendBegins DEF Next

\* As long as no two scans run side by side, no row is deleted while the scan has
\* stored the same as a new track: only another writer can take a candidate's row
\* away (writer.rs:133).
THEOREM MovedFilesKeepRowsAlone ==
  Spec /\ []NoOverlap =>
    [][\A n \in Ids, p \in Paths : Deletes(n) /\ Lost(p) =>
         \A c \in writer[n].candidates : c.path = p => c.tags \notin scan[n].inserted]_vars
<1> DEFINE I == ScanInv /\ StampsOK /\ AllOrdered /\ AllApart /\ CandidatesStored /\ NoneRobbed
           A == \A n \in Ids, p \in Paths : Deletes(n) /\ Lost(p) =>
                  \A c \in writer[n].candidates : c.path = p => c.tags \notin scan[n].inserted
<1>1. Init => I
  <2>1. Init => CandidatesStored /\ NoneRobbed
    BY DEF Init, Unstarted, CandidatesStored, NoneRobbed
  <2> QED BY <2>1, ScanInit, StampsInit, OrderedInit
<1>2. I /\ NoOverlap /\ [Next]_vars => I'
  BY NextKeeps, NextStamps, OrderedKept, ApartKept, CandidatesKept, NoneRobbedKept
<1>3. I => [A]_vars
  BY DEF AllApart, ApartOK, NoneRobbed
<1> HIDE DEF I
<1> QED BY <1>1, <1>2, <1>3, PTL DEF Spec

----------------------------------------------------------------------------
(* The folders of a scan.                                                  *)

\* What a scan has before it, has found and has read is in its folders.
InPlace(n) ==
  LET s == scan[n] IN
  /\ s.pc = "walk" => s.left \subseteq s.roots /\ s.todo \subseteq Under(s.roots)
  /\ \A p \in Paths : s.seen[p] # 0 => p \in Under(s.roots)
  /\ s.pc = "read" => s.pending \subseteq Under(s.roots)
  /\ \A x \in Items(s, writer[n]) : x.path \in Under(s.roots)

AllInPlace == \A n \in Ids : InPlace(n)

LEMMA InPlaceKept == ASSUME ScanInv, StampsOK, AllInPlace, [Next]_vars PROVE AllInPlace'
<1>1. ASSUME NEW n \in Ids, Begun(n) PROVE InPlace(n)'
  <2>1. Items(scan'[n], writer'[n]) = {}
    BY <1>1 DEF Begun, Items, OnWay, Unstarted
  <2> QED BY <1>1, <2>1 DEF Begun, InPlace
<1>2. ASSUME NEW n \in Ids, Follows(n, scan'[n], writer'[n]) PROVE InPlace(n)'
  <2> DEFINE s == scan[n]
             t == scan'[n]
             U == Under(s.roots)
  <2>1. /\ s.pc = "walk" => s.left \subseteq s.roots /\ s.todo \subseteq U
        /\ \A p \in Paths : s.seen[p] # 0 => p \in U
        /\ s.pc = "read" => s.pending \subseteq U
        /\ \A x \in Items(s, writer[n]) : x.path \in U
    BY DEF AllInPlace, InPlace
  <2>2. t.roots = s.roots
    BY <1>2 DEF Follows
  <2>3. \A R : R \subseteq s.roots => Under(R) \subseteq U
    BY DEF Under
  <2>4. t.pc = "walk" => t.left \subseteq s.roots /\ t.todo \subseteq U
    BY <1>2, <2>1, <2>3 DEF Follows
  <2>5. \A p \in Paths : t.seen[p] # 0 => p \in U
    BY <1>2, <2>1 DEF Follows
  <2>6. t.pc = "read" => t.pending \subseteq U
    BY <1>2, <2>1 DEF Follows
  <2>7. ASSUME NEW x \in Items(t, writer'[n]) PROVE x.path \in U
    <3>1. CASE x \in Items(s, writer[n])
      BY <2>1, <3>1
    <3>2. ASSUME NEW p \in s.pending, s.pc = "read", x = Read(s, p) PROVE x.path \in U
      BY <2>1, <3>2 DEF Read
    <3> QED BY <1>2, <3>1, <3>2 DEF Follows
  <2> QED BY <2>2, <2>4, <2>5, <2>6, <2>7 DEF InPlace
<1> QED BY <1>1, <1>2, NextFollows DEF AllInPlace

LEMMA InPlaceInit == Init => AllInPlace
BY DEF Init, Unscanned, Unstarted, AllInPlace, InPlace, Items, OnWay

\* A path comes into the library only by a scan that runs, and in one of the
\* folders the scan was given (scanner/mod.rs:102).
RowsFound ==
  \A p \in Paths : ~Stored(p) /\ Stored(p)' =>
    \E n \in Ids : Running(n) /\ p \in Under(scan[n].roots)

LEMMA RowsAreFound ==
  ASSUME ScanInv, StampsOK, AllInPlace, [Next]_vars, NEW p \in Paths, Stored(p)'
  PROVE  Stored(p) \/ \E n \in Ids : Running(n) /\ p \in Under(scan[n].roots)
BY RowsCome DEF RowComes, AllInPlace, InPlace

\* A scan stores a file only in the folders it was given, and the tag editor
\* stores none the library has not (scanner/mod.rs:102, tags/edit.rs:98).
THEOREM ScansStayInTheirFolders == Spec => [][RowsFound]_vars
<1> DEFINE I == ScanInv /\ StampsOK /\ AllInPlace
<1>1. Init => I
  BY ScanInit, StampsInit, InPlaceInit
<1>2. I /\ [Next]_vars => I'
  BY NextKeeps, NextStamps, InPlaceKept
<1>3. I /\ [Next]_vars => [RowsFound]_vars
  BY RowsAreFound DEF RowsFound
<1> QED BY <1>1, <1>2, <1>3, PTL DEF Spec

\* The folders of the scans that run are the library's, and a row under any
\* other waits for the scan that was begun to purge it.
RemovedOK ==
  /\ \A n \in Ids : Running(n) => scan[n].roots \subseteq config
  /\ \A p \in Paths : Stored(p) =>
       RootOf[p] \in config \/ \E n \in Ids : scan[n].pc = "purge" /\ RootOf[p] \in scan[n].purge

\* What leaves or brings back rows of a folder that is removed: a scan that runs
\* when it is, a rescan the watcher asks for after, a purge the store refuses.
LeavesRows ==
  \/ \E r \in Roots : RemoveFolder(r) /\ \E n \in Ids : Running(n)
  \/ AsksForRemoved
  \/ \E n \in Ids : scan[n].pc = "purge" /\ ScanFails(n)

LEMMA ConfigGrows ==
  ASSUME ScanInv, StampsOK, [Next]_vars, ~LeavesRows, NEW n \in Ids, Running(n)
  PROVE  config \subseteq config'
<1>1. \A r \in Roots : ~RemoveFolder(r)
  BY DEF LeavesRows
<1>2. Backend => config \subseteq config'
  BY <1>1 DEF Backend, Rescan, AddFolder, WatcherAsks, CancelScan
<1> QED BY <1>2, OthersStay, ThreadsKeepConfig DEF Next

LEMMA RemovedKept ==
  ASSUME ScanInv, StampsOK, AllInPlace, RemovedOK, [Next]_vars, ~LeavesRows
  PROVE  RemovedOK'
<1>1. CASE AllFollow /\ UNCHANGED config
  <2>1. ASSUME NEW n \in Ids, Running(n)' PROVE scan'[n].roots \subseteq config'
    BY <1>1, <2>1 DEF AllFollow, Follows, Running, RemovedOK
  <2>2. ASSUME NEW p \in Paths, Stored(p)', RootOf[p] \notin config
        PROVE  \E n \in Ids : scan'[n].pc = "purge" /\ RootOf[p] \in scan'[n].purge
    <3>1. Stored(p)
      BY <2>2, RowsAreFound DEF RemovedOK, Under
    <3>2. PICK n \in Ids : scan[n].pc = "purge" /\ RootOf[p] \in scan[n].purge
      BY <2>2, <3>1 DEF RemovedOK
    <3>3. ~Purge(n) /\ ~ScanFails(n)
      BY <2>2, <3>2 DEF Purge, Under, Stored, LeavesRows
    <3>4. scan'[n].pc = "purge" /\ scan'[n].purge = scan[n].purge
      BY <1>1, <3>2, <3>3 DEF AllFollow, Follows
    <3> QED BY <3>2, <3>4
  <2> QED BY <1>1, <2>1, <2>2 DEF RemovedOK
<1>2. ASSUME NEW k \in Ids, Begun(k) PROVE RemovedOK'
  <2>1. /\ UNCHANGED rows /\ scan[k].pc = "off" /\ scan'[k].roots \subseteq config'
        /\ \A r \in config : r \in config' \/ (scan'[k].pc = "purge" /\ r \in scan'[k].purge)
        /\ \A n \in Ids : n # k => Stays(n)
    BY <1>2 DEF Begun, LeavesRows
  <2>2. ASSUME NEW n \in Ids, Running(n)' PROVE scan'[n].roots \subseteq config'
    <3>1. CASE n = k
      BY <2>1, <3>1
    <3>2. CASE n # k
      <4>1. scan'[n].pc = scan[n].pc /\ scan'[n].roots = scan[n].roots
        BY <2>1, <3>2 DEF Stays
      <4>2. Running(n)
        BY <2>2, <4>1 DEF Running
      <4> QED BY <4>1, <4>2, ConfigGrows DEF RemovedOK
    <3> QED BY <3>1, <3>2
  <2>3. ASSUME NEW p \in Paths, Stored(p)', RootOf[p] \notin config'
        PROVE  \E n \in Ids : scan'[n].pc = "purge" /\ RootOf[p] \in scan'[n].purge
    <3>1. Stored(p)
      BY <2>1, <2>3 DEF Stored
    <3>2. CASE RootOf[p] \in config
      BY <2>1, <2>3, <3>2
    <3>3. ASSUME NEW n \in Ids, scan[n].pc = "purge", RootOf[p] \in scan[n].purge
          PROVE  \E m \in Ids : scan'[m].pc = "purge" /\ RootOf[p] \in scan'[m].purge
      BY <2>1, <3>3 DEF Stays
    <3> QED BY <3>1, <3>2, <3>3 DEF RemovedOK
  <2> QED BY <2>2, <2>3 DEF RemovedOK
<1> QED BY <1>1, <1>2, NextFollows

\* When all scans have ended, the library holds no track of a folder that was
\* removed from it, as long as no folder is removed while a scan runs, the watcher
\* asks for none that was removed, and the store refuses no purge
\* (ui/src/backend/library/scan.rs:237).
THEOREM RemovedFoldersAreEmpty ==
  Spec /\ [][~LeavesRows]_vars => []RemovedFolderIsEmpty
<1> DEFINE I == ScanInv /\ StampsOK /\ AllInPlace /\ RemovedOK
<1>1. Init => I
  <2>1. Init => RemovedOK
    BY DEF Init, Unscanned, Running, RemovedOK, Roots
  <2> QED BY <2>1, ScanInit, StampsInit, InPlaceInit
<1>2. I /\ [Next]_vars /\ [~LeavesRows]_vars => I'
  <2> SUFFICES ASSUME I, [Next]_vars, ~LeavesRows \/ UNCHANGED vars PROVE I'
    OBVIOUS
  <2>1. (ScanInv /\ StampsOK /\ AllInPlace)'
    BY NextKeeps, NextStamps, InPlaceKept
  <2>2. ~LeavesRows => RemovedOK'
    BY RemovedKept
  <2>3. UNCHANGED vars => RemovedOK'
    BY DEF vars, RemovedOK, Running, Stored
  <2> QED BY <2>1, <2>2, <2>3
<1>3. I => RemovedFolderIsEmpty
  BY DEF RemovedOK, RemovedFolderIsEmpty, Running
<1> HIDE DEF I
<1> QED BY <1>1, <1>2, <1>3, PTL DEF Spec

----------------------------------------------------------------------------
(* The rows, and with them plays, stars and playlists, go with the files.  *)

\* A row is told by its id: the write that inserted it, and where.
IdOf(p) == \E k \in Nat, q \in Paths : k < count.id /\ rows[p].id = <<k, q>>

IdsOK ==
  /\ count.id \in Nat
  /\ \A p \in Paths : Stored(p) => IdOf(p)
  /\ \A p, q \in Paths : Stored(p) /\ Stored(q) /\ rows[p].id = rows[q].id => p = q

\* The row of a candidate goes to q, where there is none, and nothing else.
MovesTo(q) ==
  \E n \in Ids : \E c \in writer[n].candidates :
    /\ c.path \in Paths /\ c.path \in scan[n].missing
    /\ Stored(c.path) /\ ~Stored(q)
    /\ rows'[q].id = rows[c.path].id /\ rows'[q].tags = c.tags
    /\ \A p \in Paths \ {q} : rows'[p] = rows[p] \/ rows'[p] = NoRow
    /\ rows'[c.path] = NoRow

IdComes(q) ==
  \/ ~Stored(q)'
  \/ Stored(q) /\ rows'[q].id = rows[q].id
  \/ count'.id = count.id + 1 /\ rows'[q].id = <<count.id, q>>
  \/ MovesTo(q) /\ count'.id = count.id

IdStep == count'.id \in {count.id, count.id + 1} /\ \A q \in Paths : IdComes(q)

LEMMA SameRows ==
  ASSUME UNCHANGED rows, count'.id = count.id
  PROVE  IdStep
BY DEF IdStep, IdComes, Stored

LEMMA OutsideIds == ASSUME ScanInv, Outside PROVE IdStep
<1>1. UNCHANGED rows
  BY DEF Outside, OtherWrites, OtherRemoves, OtherRenames, ShareChanges, Change
<1>2. \A f, k : Change(f, k) => count'.id = count.id
  BY DEF Change, ScanInv, CountOK
<1>3. \A r : ShareChanges(r) => count'.id = count.id
  BY DEF ShareChanges, ScanInv, CountOK
<1>4. count'.id = count.id
  BY <1>2, <1>3 DEF Outside, OtherWrites, OtherRemoves, OtherRenames
<1> QED BY <1>1, <1>4, SameRows

LEMMA BackendIds == ASSUME ScanInv, Backend PROVE IdStep
<1>1. UNCHANGED rows
  BY DEF Backend, Rescan, RemoveFolder, AddFolder, WatcherAsks, BeginScan, CancelScan
<1>2. \A R, P : BeginScan(R, P) => count'.id = count.id
  BY DEF BeginScan, ScanInv, CountOK
<1>3. count'.id = count.id
  BY <1>2 DEF Backend, Rescan, RemoveFolder, AddFolder, WatcherAsks, CancelScan
<1> QED BY <1>1, <1>3, SameRows

LEMMA EditorIds == ASSUME ScanInv, Editor PROVE IdStep
<1>1. \A p, c : WriteTags(p, c) => UNCHANGED rows /\ count'.id = count.id
  BY DEF WriteTags, ScanInv, CountOK
<1>2. StatEdited => UNCHANGED rows /\ count'.id = count.id
  BY DEF StatEdited
<1>3. ASSUME StoreTagEdits, NEW q \in Paths PROVE IdComes(q)
  <2>1. rows'[q].id = rows[q].id
    BY <1>3 DEF StoreTagEdits, ScanInv, RowsOK
  <2>2. ~Stored(q) => rows'[q] = rows[q]
    BY <1>3 DEF StoreTagEdits, ScanInv, RowsOK, Stored
  <2> QED BY <2>1, <2>2 DEF IdComes, Stored
<1>4. StoreTagEdits => count' = count
  BY DEF StoreTagEdits
<1> QED BY <1>1, <1>2, <1>3, <1>4, SameRows DEF Editor, IdStep

LEMMA ScannerIds == ASSUME ScanInv, NEW n \in Ids, Scanner(n) PROVE IdStep
<1>1. ASSUME NEW q \in Paths PROVE IdComes(q)
  BY ScannerRows DEF IdComes, Stored
<1>2. \A s : Step(n, s) => count' = count
  BY DEF Step
<1>3. \A d, p : DirFails(n, d) \/ EntryFails(n, p) \/ ScanFails(n) => count'.id = count.id
  BY FailureCounted DEF DirFails, EntryFails, ScanFails, ScanInv, CountOK
<1>4. Purge(n) => count' = count
  BY DEF Purge
<1>5. \A r, p : WalkRoot(n, r) \/ VisitEntry(n, p) => count' = count
  BY DEF WalkRoot, VisitEntry, Quietly, Step
<1>6. \A p : ReadFile(n, p) \/ SkipUnreadable(n, p) => count' = count
  BY DEF ReadFile, SkipUnreadable, Takes, Quietly, Step
<1>7. SizeMtimeMap(n) \/ RootFails(n) \/ Classify(n) \/ SendFinish(n) \/ JoinWriter(n) => count' = count
  BY DEF SizeMtimeMap, RootFails, Classify, SendFinish, JoinWriter, Quietly, Step
<1>8. count'.id = count.id
  BY <1>3, <1>4, <1>5, <1>6, <1>7 DEF Scanner
<1> QED BY <1>1, <1>8 DEF IdStep

LEMMA UpsertIds == ASSUME ScanInv, NEW n \in Ids, UpsertTracks(n) PROVE IdStep
<1> DEFINE new == {i \in writer[n].fresh : ~Stored(i.path)}
<1>1. count' = [count EXCEPT !.id = IF new = {} THEN @ ELSE @ + 1]
  BY DEF UpsertTracks
<1>2. count'.id = IF new = {} THEN count.id ELSE count.id + 1
  BY <1>1 DEF ScanInv, CountOK
<1>3. ASSUME NEW q \in Paths PROVE IdComes(q)
  <2>1. CASE \E x \in writer[n].fresh : x.path = q
    <3> DEFINE x == CHOOSE i \in writer[n].fresh : i.path = q
               id == IF x \in new THEN <<count.id, q>> ELSE rows[q].id
    <3>1. x \in writer[n].fresh /\ x.path = q
      BY <2>1
    <3>2. rows'[q] = RowOf(x, id)
      BY <2>1 DEF UpsertTracks
    <3>3. rows'[q].id = id
      <4> HIDE DEF x, id
      <4> QED BY <3>2 DEF RowOf
    <3>4. x \in new <=> ~Stored(q)
      <4> HIDE DEF x
      <4> QED BY <3>1
    <3> HIDE DEF x, new
    <3>5. CASE Stored(q)
      BY <3>3, <3>4, <3>5 DEF IdComes
    <3>6. CASE ~Stored(q)
      <4>1. new # {}
        BY <3>4, <3>6
      <4> QED BY <1>2, <3>3, <3>4, <3>6, <4>1 DEF IdComes
    <3> QED BY <3>5, <3>6
  <2>2. CASE ~\E x \in writer[n].fresh : x.path = q
    <3>1. rows'[q] = rows[q]
      BY <2>2 DEF UpsertTracks
    <3> QED BY <3>1 DEF IdComes, Stored
  <2> QED BY <2>1, <2>2
<1> HIDE DEF new
<1> QED BY <1>2, <1>3 DEF IdStep

LEMMA MoveIds ==
  ASSUME ScanInv, StampsOK, AllOrdered, NEW n \in Ids, Receives(n, "tracks"),
         NEW x \in Message(n).items, NEW c \in writer[n].candidates, MoveTrack(n, x, c)
  PROVE  IdStep
<1>1. count' = count
  BY DEF MoveTrack
<1>2. CASE UNCHANGED rows
  BY <1>1, <1>2, SameRows
<1>3. CASE rows' = MovedRow(c.path, x) /\ Stored(c.path) /\ ~Stored(x.path)
  <2>1. x.path \in Paths /\ c.path \in Paths /\ c.path \in scan[n].missing /\ c.tags = x.tags
    BY ItemPath DEF MoveTrack, FindMove, AllOrdered, OrderedOK, ScanInv, ScansOK, ThreadsOK
  <2>2. c.path # x.path /\ DOMAIN rows = Paths
    BY <1>3 DEF ScanInv, RowsOK
  <2>3. rows'[x.path] = RowOf(x, rows[c.path].id)
    BY <1>3, <2>1, <2>2 DEF MovedRow
  <2>4. rows'[c.path] = NoRow
    BY <1>3, <2>1, <2>2 DEF MovedRow
  <2>5. \A p \in Paths \ {x.path, c.path} : rows'[p] = rows[p]
    BY <1>3, <2>1, <2>2 DEF MovedRow
  <2>6. MovesTo(x.path)
    <3>1. rows'[x.path].id = rows[c.path].id /\ rows'[x.path].tags = c.tags
      BY <2>1, <2>3 DEF RowOf
    <3> QED BY <1>3, <2>1, <2>4, <2>5, <3>1 DEF MovesTo
  <2>7. ASSUME NEW q \in Paths PROVE IdComes(q)
    BY <1>1, <2>4, <2>5, <2>6 DEF IdComes, Stored
  <2> QED BY <1>1, <2>7 DEF IdStep
<1> QED BY <1>2, <1>3, MoveSteps

LEMMA WriterIds == ASSUME ScanInv, StampsOK, AllOrdered, NEW n \in Ids, WriterStep(n) PROVE IdStep
<1>1. LoadRows(n) => IdStep
  BY SameRows DEF LoadRows
<1>2. ASSUME StoreFails(n) PROVE IdStep
  <2>1. count'.id = count.id /\ UNCHANGED rows
    BY <1>2 DEF StoreFails, ScanInv, CountOK
  <2> QED BY <2>1, SameRows
<1>3. \A x : NotMoved(n, x) => IdStep
  BY SameRows DEF NotMoved
<1>4. ASSUME DeleteRemaining(n) PROVE IdStep
  <2>1. \A q \in Paths : rows'[q] \in {rows[q], NoRow}
    BY <1>4 DEF DeleteRemaining
  <2>2. count' = count
    BY <1>4 DEF DeleteRemaining
  <2> QED BY <2>1, <2>2 DEF IdStep, IdComes, Stored
<1>5. ASSUME NEW x, UpdateTrack(n, x) PROVE IdStep
  <2>1. Stored(x.path) /\ rows' = [rows EXCEPT ![x.path] = RowOf(x, rows[x.path].id)] /\ count' = count
    BY <1>5 DEF UpdateTrack, Updated
  <2>2. ASSUME NEW q \in Paths PROVE IdComes(q)
    <3>1. CASE q = x.path
      <4>1. rows'[q] = RowOf(x, rows[q].id)
        BY <2>1, <3>1 DEF ScanInv, RowsOK
      <4>2. rows'[q].id = rows[q].id
        BY <4>1 DEF RowOf
      <4> QED BY <2>1, <3>1, <4>2 DEF IdComes
    <3>2. CASE q # x.path
      <4>1. rows'[q] = rows[q]
        BY <2>1, <3>2 DEF ScanInv, RowsOK
      <4> QED BY <4>1 DEF IdComes, Stored
    <3> QED BY <3>1, <3>2
  <2> QED BY <2>1, <2>2 DEF IdStep
<1> QED BY <1>1, <1>2, <1>3, <1>4, <1>5, UpsertIds, MoveIds DEF WriterStep

LEMMA NextIds == ASSUME ScanInv, StampsOK, AllOrdered, [Next]_vars PROVE IdStep
<1>1. UNCHANGED vars => IdStep
  BY SameRows DEF vars
<1> QED BY <1>1, OutsideIds, BackendIds, EditorIds, ScannerIds, WriterIds DEF Next

LEMMA IdsInit == Init => IdsOK
<1> SUFFICES ASSUME Init PROVE IdsOK
  OBVIOUS
<1>1. ASSUME NEW p \in Paths, Stored(p) PROVE rows[p].id = <<0, p>>
  BY <1>1 DEF Init, Stored
<1>2. count.id = 1
  BY DEF Init
<1> QED BY <1>1, <1>2 DEF IdsOK, IdOf

\* Where the row of p is after a step, and how it got there.
LEMMA RowGoes ==
  ASSUME IdsOK, IdStep, NEW p \in Paths, Stored(p), NEW q \in Paths, Stored(q)',
         rows'[q].id = rows[p].id, p # q
  PROVE  /\ MovesTo(q) /\ ~Stored(p)' /\ ~Stored(q)
         /\ \A r \in Paths \ {q} : rows'[r] = rows[r] \/ rows'[r] = NoRow
         /\ \E n \in Ids : \E c \in writer[n].candidates :
              c.path = p /\ p \in scan[n].missing /\ c.tags = rows'[q].tags
<1>1. PICK k \in Nat, o \in Paths : k < count.id /\ rows[p].id = <<k, o>>
  BY DEF IdsOK, IdOf
<1>2. <<count.id, q>> # <<k, o>>
  <2>1. <<count.id, q>>[1] = count.id /\ <<k, o>>[1] = k
    OBVIOUS
  <2>2. count.id # k
    BY <1>1 DEF IdsOK
  <2> QED BY <2>1, <2>2
<1>3. MovesTo(q)
  BY <1>1, <1>2 DEF IdStep, IdComes, IdsOK
<1>4. PICK n \in Ids : \E c \in writer[n].candidates :
    /\ c.path \in Paths /\ c.path \in scan[n].missing
    /\ Stored(c.path) /\ ~Stored(q)
    /\ rows'[q].id = rows[c.path].id /\ rows'[q].tags = c.tags
    /\ \A r \in Paths \ {q} : rows'[r] = rows[r] \/ rows'[r] = NoRow
    /\ rows'[c.path] = NoRow
  BY <1>3 DEF MovesTo
<1> QED BY <1>3, <1>4 DEF IdsOK, Stored

LEMMA IdsKept == ASSUME IdsOK, IdStep PROVE IdsOK'
<1>1. count'.id \in Nat /\ count'.id >= count.id
  BY DEF IdsOK, IdStep
<1>2. ASSUME NEW p \in Paths, IdOf(p) PROVE \E k \in Nat, q \in Paths : k < count'.id /\ rows[p].id = <<k, q>>
  BY <1>1, <1>2 DEF IdOf, IdsOK
<1>3. ASSUME NEW q \in Paths, Stored(q)' PROVE IdOf(q)'
  <2>1. CASE \E p \in Paths : Stored(p) /\ rows'[q].id = rows[p].id
    BY <1>2, <2>1 DEF IdOf, IdsOK
  <2>2. CASE count'.id = count.id + 1 /\ rows'[q].id = <<count.id, q>>
    BY <2>2 DEF IdOf, IdsOK
  <2> QED BY <1>3, <2>1, <2>2 DEF IdStep, IdComes, MovesTo
<1>4. ASSUME NEW p \in Paths, NEW q \in Paths, Stored(p)', Stored(q)', rows'[p].id = rows'[q].id
      PROVE  p = q
  <2>1. CASE \E o \in Paths : Stored(o) /\ rows'[p].id = rows[o].id
    <3>1. PICK o \in Paths : Stored(o) /\ rows'[p].id = rows[o].id
      BY <2>1
    <3>2. CASE o = p
      BY <1>4, <3>1, <3>2, RowGoes
    <3>3. ASSUME o # p, p # q PROVE FALSE
      <4>1. ~Stored(o)' /\ (rows'[q] = rows[q] \/ rows'[q] = NoRow)
        BY <1>4, <3>1, <3>3, RowGoes
      <4>2. rows'[q] = rows[q] /\ rows'[q] # NoRow
        BY <1>4, <4>1 DEF Stored
      <4>3. o = q
        BY <1>4, <3>1, <4>2 DEF IdsOK, Stored
      <4> QED BY <1>4, <4>1, <4>3
    <3> QED BY <3>2, <3>3
  <2>2. CASE count'.id = count.id + 1 /\ rows'[p].id = <<count.id, p>>
    <3>1. CASE rows'[q].id = <<count.id, q>>
      <4>1. <<count.id, p>>[2] = p /\ <<count.id, q>>[2] = q
        OBVIOUS
      <4> QED BY <1>4, <2>2, <3>1, <4>1
    <3>2. CASE \E o \in Paths : Stored(o) /\ rows'[q].id = rows[o].id
      <4>1. PICK o \in Paths : Stored(o) /\ rows'[q].id = rows[o].id
        BY <3>2
      <4>2. PICK k \in Nat, r \in Paths : k < count.id /\ rows[o].id = <<k, r>>
        BY <4>1 DEF IdsOK, IdOf
      <4>3. <<count.id, p>>[1] = count.id /\ <<k, r>>[1] = k
        OBVIOUS
      <4>4. count.id # k
        BY <4>2 DEF IdsOK
      <4> QED BY <1>4, <2>2, <4>1, <4>2, <4>3, <4>4
    <3> QED BY <1>4, <3>1, <3>2 DEF IdStep, IdComes, MovesTo
  <2> QED BY <1>4, <2>1, <2>2 DEF IdStep, IdComes, MovesTo
<1> QED BY <1>1, <1>3, <1>4 DEF IdsOK

\* A row, and with it plays, stars and playlists, goes to another file only by
\* the move of a scan: at some moment since the scan began there was no file at
\* its own path, or none whose metadata could be read (walk.rs:107), the file it
\* goes to holds what the row held when the scan looked (writer.rs:90), and had
\* no row.
RowsFollow ==
  \A p, q \in Paths : Stored(p) /\ Stored(q)' /\ rows'[q].id = rows[p].id /\ p # q =>
    /\ ~Stored(q) /\ ~Stored(p)'
    /\ \E n \in Ids : \E c \in writer[n].candidates :
         c.path = p /\ p \in scan[n].missing /\ c.tags = rows'[q].tags

\* The scans that run side by side, the tag editor and other programs never
\* give the row of a file that is there all the while, with metadata to be read,
\* to another, nor two files one row (writer.rs:133,
\* library/src/store/tracks.rs:142).
THEOREM RowsGoWithTheirFiles == Spec => [][RowsFollow]_vars
<1> DEFINE I == ScanInv /\ StampsOK /\ AllOrdered /\ IdsOK
<1>1. Init => I
  BY ScanInit, StampsInit, OrderedInit, IdsInit
<1>2. I /\ [Next]_vars => I'
  BY NextKeeps, NextStamps, OrderedKept, NextIds, IdsKept
<1>3. I /\ [Next]_vars => [RowsFollow]_vars
  BY NextIds, RowGoes DEF RowsFollow
<1> QED BY <1>1, <1>2, <1>3, PTL DEF Spec

=============================================================================
