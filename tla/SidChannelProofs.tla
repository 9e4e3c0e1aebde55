--------------------------- MODULE SidChannelProofs ---------------------------
(***************************************************************************)
(* A SID tune is played whole, and nothing but a stop, or a stream that    *)
(* refuses a chunk or its end, leaves a playing one without sound, for any *)
(* tune and any number of channels and calls.                              *)
(***************************************************************************)
EXTENDS SidChannelSpec, SequenceTheorems, TLAPS

\* What was heard, is queued and is left make up the subtune it is at.
Whole(ch) ==
  /\ ch.heard + Len(ch.queue) + ch.remaining = PlayLength(ch.current)
  /\ \A i \in DOMAIN ch.queue : ch.queue[i] = ch.current

\* A command sets the subtune, its length and the queue, in this order, one
\* step each; only before and after them the parts make up a whole.
FeederOK(ch) ==
  /\ ch.total = 0 => ch.pc \in {"none", "lease", "done"} /\ ch.queue = <<>> /\ ch.heard = 0
                     /\ ch.remaining = 0 /\ ~ch.eos
  /\ ch.pc \in {"none", "lease"} => ch.total = 0
  /\ ch.pc \in {"store", "length"} => ch.next \in Subtunes
  /\ ch.pc = "length" => ch.next = ch.current
  /\ ch.pc \in {"recv", "reset", "feed"} => ch.total = PlayLength(ch.current)
  /\ ch.pc = "reset" => ch.remaining = ch.total
  /\ ch.pc \in {"recv", "feed", "done"} /\ ch.total # 0 /\ Untouched(ch) => Whole(ch)
  /\ ch.eos => ch.pc = "done" /\ (ch.remaining = 0 \/ "engine" \in ch.failed)
  /\ ch.ended => ch.eos
  /\ ch.ended /\ ~ch.silenced => ch.queue = <<>>

ChanOK(ch) == ch \in ChanType /\ FeederOK(ch)
PlayerIs ==
  /\ player \in PlayerType
  /\ player.refreshing => player.current # NoChannel

SidInv == DOMAIN chan = Channels /\ (\A c \in Channels : ChanOK(chan[c])) /\ PlayerIs

-----------------------------------------------------------------------------
LEMMA Played == \A n \in Subtunes : PlayLength(n) \in Nat \ {0} /\ KnownLength(n) \in Nat
BY LengthsAssumption, FallbackAssumption DEF PlayLength, KnownLength, Subtunes, Unknown

LEMMA FreshIs == Fresh \in ChanType
<1>1. Default \in Subtunes /\ KnownLength(Default) \in Nat
  BY DefaultAssumption, Played
<1>2. <<>> \in Seq(Commands) /\ <<>> \in Seq(Subtunes)
  BY EmptySeq
<1> HIDE DEF Commands, KnownLength, Subtunes
<1> QED BY <1>1, <1>2 DEF Fresh, ChanType

\* A channel whose open has begun.
LEMMA BegunOK ==
  ChanOK([Fresh EXCEPT !.held = "worker", !.pc = "lease"])
<1> DEFINE t == [Fresh EXCEPT !.held = "worker", !.pc = "lease"]
<1>1. t \in ChanType
  BY FreshIs DEF ChanType
<1>2. /\ t.pc = "lease" /\ t.total = 0 /\ t.queue = <<>> /\ t.heard = 0 /\ t.remaining = 0
      /\ t.eos = FALSE /\ t.ended = FALSE
  BY DEF Fresh
<1> HIDE DEF t
<1>3. FeederOK(t)
  BY <1>2 DEF FeederOK
<1> QED BY <1>1, <1>3 DEF ChanOK, t

\* What a channel is asked, told or does beside its queue.
LEMMA AsideOK ==
  ASSUME NEW ch, ChanOK(ch), NEW t \in ChanType,
         t.total = ch.total, t.queue = ch.queue, t.heard = ch.heard, t.remaining = ch.remaining,
         t.eos = ch.eos, t.ended = ch.ended, t.silenced = ch.silenced, t.failed = ch.failed,
         t.pc = ch.pc, t.next = ch.next, t.current = ch.current
  PROVE  ChanOK(t)
BY DEF ChanOK, FeederOK, Untouched, Whole

LEMMA AskedOK ==
  ASSUME NEW ch, ChanOK(ch), NEW held \in {"none", "worker", "message", "player", "nowhere"},
         NEW m \in Commands
  PROVE  ChanOK([ch EXCEPT !.held = held, !.commands = Append(@, m)])
<1> DEFINE q == Append(ch.commands, m)
           t == [ch EXCEPT !.held = held, !.commands = q]
<1>1. ch \in ChanType
  BY DEF ChanOK
<1>2. q \in Seq(Commands)
  BY <1>1, AppendProperties DEF ChanType
<1> HIDE DEF q
<1>3. t \in ChanType
  BY <1>1, <1>2 DEF ChanType
<1>4. /\ t.pc = ch.pc /\ t.total = ch.total /\ t.remaining = ch.remaining /\ t.next = ch.next
      /\ t.current = ch.current /\ t.silenced = ch.silenced /\ t.ended = ch.ended
      /\ t.queue = ch.queue /\ t.heard = ch.heard /\ t.eos = ch.eos /\ t.failed = ch.failed
  BY <1>1 DEF ChanType
<1>5. ChanOK(t)
  BY <1>3, <1>4, AsideOK
<1> QED BY <1>5 DEF q

LEMMA DroppedOK == ASSUME NEW ch, ChanOK(ch) PROVE ChanOK(Dropped(ch))
BY AskedOK DEF Dropped, Commands

\* The same at another place of the feeder.
LEMMA PlaceOK ==
  ASSUME NEW ch, ChanOK(ch), NEW t \in ChanType, ch.pc \in {"recv", "feed"},
         t.total = ch.total, t.queue = ch.queue, t.heard = ch.heard, t.remaining = ch.remaining,
         t.eos = ch.eos, t.ended = ch.ended, t.silenced = ch.silenced, t.failed = ch.failed,
         t.current = ch.current, t.pc \in {"recv", "feed", "done"}
  PROVE  ChanOK(t)
BY DEF ChanOK, FeederOK, Untouched, Whole

\* A feeder that returns, after the failures f, with the end marked or not.
MarksEnd(ch, f) == [ch EXCEPT !.eos = TRUE, !.failed = ch.failed \cup f, !.pc = "done"]
Returns(ch, f) == [ch EXCEPT !.failed = ch.failed \cup f, !.pc = "done"]

LEMMA EndsAs ==
  ASSUME NEW c, NEW ch \in ChanType, Ends(c, ch)
  PROVE  \/ chan' = [chan EXCEPT ![c] = MarksEnd(ch, {})]
         \/ chan' = [chan EXCEPT ![c] = Returns(ch, {"mark"})]
<1>1. [Finished(ch) EXCEPT !.pc = "done"] = MarksEnd(ch, {})
  BY DEF Finished, MarksEnd, ChanType
<1>2. [Unmarked(ch) EXCEPT !.pc = "done"] = Returns(ch, {"mark"})
  BY DEF Unmarked, Returns, ChanType
<1> QED BY <1>1, <1>2 DEF Ends, Exits

LEMMA EngineAs ==
  ASSUME NEW c, NEW ch \in ChanType, EngineFails(c, ch)
  PROVE  \/ chan' = [chan EXCEPT ![c] = MarksEnd(ch, {"engine"})]
         \/ chan' = [chan EXCEPT ![c] = Returns(ch, {"engine", "mark"})]
<1> DEFINE s == [ch EXCEPT !.failed = ch.failed \cup {"engine"}]
<1>1. Ends(c, s)
  BY DEF EngineFails
<1>2. s \in ChanType
  BY DEF ChanType, Failures
<1>3. MarksEnd(s, {}) = MarksEnd(ch, {"engine"})
  BY DEF MarksEnd, ChanType
<1>4. Returns(s, {"mark"}) = Returns(ch, {"engine", "mark"})
  <2>1. (ch.failed \cup {"engine"}) \cup {"mark"} = ch.failed \cup {"engine", "mark"}
    OBVIOUS
  <2>2. s.failed = ch.failed \cup {"engine"}
    BY DEF ChanType
  <2> QED BY <2>1, <2>2 DEF Returns, ChanType
<1> HIDE DEF s
<1> QED BY <1>1, <1>2, <1>3, <1>4, EndsAs

LEMMA PushAs ==
  ASSUME NEW c, NEW ch \in ChanType, Exits(c, PushRefused(ch))
  PROVE  chan' = [chan EXCEPT ![c] = Returns(ch, {"push"})]
<1>1. [PushRefused(ch) EXCEPT !.pc = "done"] = Returns(ch, {"push"})
  BY DEF PushRefused, Returns, ChanType
<1> QED BY <1>1 DEF Exits

LEMMA ReturnsIs ==
  ASSUME NEW ch \in ChanType, NEW f \in SUBSET Failures, NEW t \in {MarksEnd(ch, f), Returns(ch, f)}
  PROVE  /\ t \in ChanType
         /\ t.held = ch.held /\ t.commands = ch.commands /\ t.silenced = ch.silenced
         /\ t.failed = ch.failed \cup f /\ t.pc = "done" /\ t.current = ch.current
         /\ t.total = ch.total /\ t.remaining = ch.remaining /\ t.queue = ch.queue
         /\ t.heard = ch.heard /\ t.ended = ch.ended
         /\ (t = MarksEnd(ch, f) => t.eos) /\ (t = MarksEnd(ch, f) \/ t.eos = ch.eos)
<1>0. ch.failed \cup f \in SUBSET Failures
  BY DEF ChanType
<1> HIDE DEF Failures
<1>1. CASE t = MarksEnd(ch, f)
  BY <1>0, <1>1 DEF MarksEnd, ChanType
<1>2. CASE t = Returns(ch, f) /\ t # MarksEnd(ch, f)
  BY <1>0, <1>2 DEF Returns, ChanType
<1> QED BY <1>1, <1>2

LEMMA ReturnsOK ==
  ASSUME NEW ch, ChanOK(ch), ch.pc \in {"recv", "feed"}, NEW f \in SUBSET Failures,
         "reset" \notin f, NEW t \in {MarksEnd(ch, f), Returns(ch, f)},
         t = MarksEnd(ch, f) => ch.remaining = 0 \/ "engine" \in f
  PROVE  ChanOK(t)
<1>1. ch \in ChanType /\ FeederOK(ch)
  BY DEF ChanOK
<1>2. /\ t \in ChanType /\ t.held = ch.held /\ t.commands = ch.commands
      /\ t.silenced = ch.silenced /\ t.failed = ch.failed \cup f /\ t.pc = "done" /\ t.current = ch.current
      /\ t.total = ch.total /\ t.remaining = ch.remaining /\ t.queue = ch.queue
      /\ t.heard = ch.heard /\ t.ended = ch.ended
      /\ (t = MarksEnd(ch, f) => t.eos) /\ (t = MarksEnd(ch, f) \/ t.eos = ch.eos)
  BY <1>1, ReturnsIs
<1>7. t.eos => ch.eos \/ ch.remaining = 0 \/ "engine" \in f
  BY <1>2
<1>3. ch.total # 0 /\ ~ch.eos /\ ~ch.ended /\ (Untouched(ch) => Whole(ch))
  BY <1>1 DEF FeederOK
<1>4. Untouched(t) <=> Untouched(ch)
  BY <1>2 DEF Untouched
<1>5. Whole(ch) => Whole(t)
  BY <1>2 DEF Whole
<1>6. FeederOK(t)
  BY <1>2, <1>7, <1>3, <1>4, <1>5 DEF FeederOK
<1> QED BY <1>2, <1>6 DEF ChanOK

LEMMA SidStep ==
  ASSUME SidInv, NEW c \in Channels, NEW ch, ChanOK(ch), chan' = [chan EXCEPT ![c] = ch],
         PlayerIs'
  PROVE  SidInv'
BY DEF SidInv

\* A step of the feeder or the audio thread of channel c.
LEMMA ThreadStep ==
  ASSUME SidInv, NEW c \in Channels, NEW ch, ChanOK(ch), chan' = [chan EXCEPT ![c] = ch],
         UNCHANGED player
  PROVE  SidInv'
<1>1. PlayerIs'
  BY DEF SidInv, PlayerIs
<1> QED BY <1>1, SidStep

----------------------------------------------------------------------------
LEMMA LoadsOK == ASSUME SidInv, NEW c \in Channels, FeederLoads(c) PROVE SidInv'
<1> DEFINE ch == chan[c]
           frames == PlayLength(ch.current)
           t == [ch EXCEPT !.pc = "recv", !.total = frames, !.remaining = frames]
           u == [ch EXCEPT !.pc = "done"]
<1>1. ch \in ChanType /\ FeederOK(ch) /\ ch.pc = "lease" /\ UNCHANGED player
      /\ (chan' = [chan EXCEPT ![c] = t] \/ chan' = [chan EXCEPT ![c] = u])
  BY DEF FeederLoads, SidInv, ChanOK
<1>2. frames \in Nat \ {0}
  BY <1>1, Played DEF ChanType
<1> HIDE DEF ch, frames
<1>3. ASSUME chan' = [chan EXCEPT ![c] = t] PROVE SidInv'
  <2>1. t \in ChanType
    BY <1>1, <1>2 DEF ChanType
  <2>2. /\ t.pc = "recv" /\ t.total = frames /\ t.remaining = frames /\ t.queue = ch.queue
        /\ t.heard = ch.heard /\ t.current = ch.current /\ t.eos = ch.eos /\ t.ended = ch.ended
    BY <1>1 DEF ChanType
  <2>3. ch.queue = <<>> /\ ch.heard = 0 /\ ~ch.eos /\ ~ch.ended
    BY <1>1 DEF FeederOK
  <2> HIDE DEF t
  <2>4. Whole(t)
    <3>1. Len(<<>>) = 0 /\ DOMAIN <<>> = {}
      BY EmptySeq
    <3> QED BY <1>2, <2>2, <2>3, <3>1 DEF Whole, frames
  <2>5. FeederOK(t)
    BY <1>2, <2>2, <2>3, <2>4 DEF FeederOK, frames
  <2> QED BY <1>1, <1>3, <2>1, <2>5, ThreadStep DEF ChanOK
<1>4. ASSUME chan' = [chan EXCEPT ![c] = u] PROVE SidInv'
  <2>1. u \in ChanType
    BY <1>1 DEF ChanType
  <2>2. /\ u.pc = "done" /\ u.total = ch.total /\ u.remaining = ch.remaining /\ u.queue = ch.queue
        /\ u.heard = ch.heard /\ u.current = ch.current /\ u.eos = ch.eos /\ u.ended = ch.ended
    BY <1>1 DEF ChanType
  <2> HIDE DEF u
  <2>3. FeederOK(u)
    BY <1>1, <2>2 DEF FeederOK
  <2> QED BY <1>1, <1>4, <2>1, <2>3, ThreadStep DEF ChanOK
<1> QED BY <1>1, <1>3, <1>4

\* The feeder at a command or none.
LEMMA ReceivesOK == ASSUME SidInv, NEW c \in Channels, FeederReceives(c) PROVE SidInv'
<1> DEFINE ch == chan[c]
           rest == [ch EXCEPT !.commands = Tail(@)]
<1>1. ch \in ChanType /\ FeederOK(ch) /\ ChanOK(ch) /\ ch.pc = "recv" /\ UNCHANGED player
  BY DEF FeederReceives, MayReceive, SidInv, ChanOK
<1>2. \/ chan' = [chan EXCEPT ![c] = [ch EXCEPT !.pc = "done"]]
      \/ chan' = [chan EXCEPT ![c].pc = "feed"]
      \/ ch.commands # <<>> /\ chan' = [chan EXCEPT ![c] = [rest EXCEPT !.pc = "done"]]
      \/ ch.commands # <<>> /\ chan' = [chan EXCEPT ![c] = TakesRestart(rest)]
      \/ /\ ch.commands # <<>> /\ Head(ch.commands).type = "select"
         /\ chan' = [chan EXCEPT ![c] = TakesSubtune(rest, Head(ch.commands).subtune)]
      \/ ch.commands # <<>> /\ EngineFails(c, rest)
  BY DEF FeederReceives, Exits
<1>3. ch.commands # <<>> =>
        /\ rest \in ChanType
        /\ Head(ch.commands).type = "select" => Head(ch.commands).subtune \in Subtunes
  <2> SUFFICES ASSUME ch.commands # <<>>
               PROVE  /\ rest \in ChanType
                      /\ Head(ch.commands).type = "select" => Head(ch.commands).subtune \in Subtunes
    OBVIOUS
  <2>1. ch.commands \in Seq(Commands)
    BY <1>1 DEF ChanType
  <2>2. Tail(ch.commands) \in Seq(Commands) /\ Head(ch.commands) \in Commands
    BY <2>1, HeadTailProperties
  <2>3. \A m \in Commands : m.type = "select" => m.subtune \in Subtunes
    BY DEF Commands, Restart, StopFeeder, SelectSubtune
  <2>4. rest \in ChanType
    BY <1>1, <2>2 DEF ChanType
  <2> QED BY <2>2, <2>3, <2>4
<1>4. /\ rest.pc = "recv" /\ rest.total = ch.total /\ rest.remaining = ch.remaining
      /\ rest.queue = ch.queue /\ rest.heard = ch.heard /\ rest.current = ch.current
      /\ rest.eos = ch.eos /\ rest.ended = ch.ended /\ rest.silenced = ch.silenced
      /\ rest.failed = ch.failed
  BY <1>1 DEF ChanType
<1> HIDE DEF ch, rest
<1>5. ASSUME NEW s \in ChanType, ChanOK(s), s.pc = "recv", NEW pc \in {"feed", "done"}
      PROVE  ChanOK([s EXCEPT !.pc = pc])
  <2> DEFINE t == [s EXCEPT !.pc = pc]
  <2>1. t \in ChanType
    BY DEF ChanType
  <2>2. /\ t.pc = pc /\ t.total = s.total /\ t.remaining = s.remaining
        /\ t.queue = s.queue /\ t.heard = s.heard /\ t.current = s.current
        /\ t.eos = s.eos /\ t.ended = s.ended /\ t.silenced = s.silenced
        /\ t.failed = s.failed
    BY DEF ChanType
  <2> HIDE DEF t
  <2>3. ChanOK(t)
    BY <1>5, <2>1, <2>2, PlaceOK
  <2> QED BY <2>3 DEF t
<1>6. ch.commands # <<>> => ChanOK(rest)
  <2>1. rest \in ChanType => ChanOK(rest)
    BY <1>1, <1>4, PlaceOK
  <2> QED BY <1>3, <2>1
<1>7. CASE chan' = [chan EXCEPT ![c] = [ch EXCEPT !.pc = "done"]]
  BY <1>1, <1>5, <1>7, ThreadStep
<1>8. CASE chan' = [chan EXCEPT ![c].pc = "feed"]
  <2>1. chan' = [chan EXCEPT ![c] = [ch EXCEPT !.pc = "feed"]]
    BY <1>8 DEF ch
  <2> QED BY <1>1, <1>5, <2>1, ThreadStep
<1>9. CASE ch.commands # <<>> /\ chan' = [chan EXCEPT ![c] = [rest EXCEPT !.pc = "done"]]
  BY <1>1, <1>3, <1>4, <1>5, <1>6, <1>9, ThreadStep
<1>10. CASE ch.commands # <<>> /\ chan' = [chan EXCEPT ![c] = TakesRestart(rest)]
  <2> DEFINE t == TakesRestart(rest)
  <2>1. t \in ChanType
    BY <1>3, <1>10 DEF TakesRestart, ChanType
  <2>2. /\ t.pc = "reset" /\ t.total = rest.total /\ t.remaining = rest.total
        /\ t.current = rest.current /\ t.eos = rest.eos /\ t.ended = rest.ended
        /\ t.queue = rest.queue /\ t.heard = rest.heard
    BY <1>3, <1>10 DEF TakesRestart, ChanType
  <2> HIDE DEF t
  <2>3. FeederOK(t)
    <3>1. PlayLength(rest.current) # 0
      BY <1>3, <1>10, Played DEF ChanType
    <3> QED BY <1>4, <1>6, <1>10, <2>2, <3>1 DEF FeederOK, ChanOK
  <2> QED BY <1>1, <1>10, <2>1, <2>3, ThreadStep DEF ChanOK, t
<1>11. CASE /\ ch.commands # <<>> /\ Head(ch.commands).type = "select"
            /\ chan' = [chan EXCEPT ![c] = TakesSubtune(rest, Head(ch.commands).subtune)]
  <2> DEFINE n == Head(ch.commands).subtune
             t == TakesSubtune(rest, n)
  <2>1. n \in Subtunes
    BY <1>3, <1>11
  <2> HIDE DEF n
  <2>2. t \in ChanType
    BY <1>3, <1>11, <2>1 DEF TakesSubtune, ChanType
  <2>3. /\ t.pc = "store" /\ t.total = rest.total /\ t.next = n
        /\ t.current = rest.current /\ t.eos = rest.eos /\ t.ended = rest.ended
        /\ t.queue = rest.queue /\ t.heard = rest.heard
    BY <1>3, <1>11 DEF TakesSubtune, ChanType
  <2> HIDE DEF t
  <2>4. FeederOK(t)
    <3>1. PlayLength(rest.current) # 0
      BY <1>3, <1>11, Played DEF ChanType
    <3> QED BY <1>4, <1>6, <1>11, <2>1, <2>3, <3>1 DEF FeederOK, ChanOK
  <2> QED BY <1>1, <1>11, <2>2, <2>4, ThreadStep DEF ChanOK, t, n
<1>12. CASE ch.commands # <<>> /\ EngineFails(c, rest)
  <2>1. rest \in ChanType /\ ChanOK(rest) /\ rest.pc = "recv"
    BY <1>3, <1>4, <1>6, <1>12
  <2>2. ChanOK(MarksEnd(rest, {"engine"})) /\ ChanOK(Returns(rest, {"engine", "mark"}))
    BY <2>1, ReturnsOK DEF Failures
  <2> QED BY <1>1, <1>12, <2>1, <2>2, EngineAs, ThreadStep
<1> QED BY <1>2, <1>7, <1>8, <1>9, <1>10, <1>11, <1>12

LEMMA StoresOK == ASSUME SidInv, NEW c \in Channels, FeederStoresSubtune(c) PROVE SidInv'
<1> DEFINE ch == chan[c]
           t == [ch EXCEPT !.current = ch.next, !.pc = "length"]
<1>1. /\ ch \in ChanType /\ FeederOK(ch) /\ ch.pc = "store" /\ UNCHANGED player
      /\ chan' = [chan EXCEPT ![c] = t]
  BY DEF FeederStoresSubtune, SidInv, ChanOK
<1>2. ch.next \in Subtunes /\ ch.total # 0 /\ ~ch.eos /\ ~ch.ended
  BY <1>1 DEF FeederOK
<1>3. t \in ChanType
  BY <1>1, <1>2 DEF ChanType
<1>4. /\ t.pc = "length" /\ t.total = ch.total /\ t.next = ch.next /\ t.current = ch.next
      /\ t.eos = ch.eos /\ t.ended = ch.ended
  BY <1>1 DEF ChanType
<1> HIDE DEF t, ch
<1>5. FeederOK(t)
  BY <1>2, <1>4 DEF FeederOK
<1> QED BY <1>1, <1>3, <1>5, ThreadStep DEF ChanOK

LEMMA LengthOK == ASSUME SidInv, NEW c \in Channels, FeederSetsLength(c) PROVE SidInv'
<1> DEFINE ch == chan[c]
           t == SetsLength(ch)
           frames == PlayLength(ch.next)
<1>1. /\ ch \in ChanType /\ FeederOK(ch) /\ ch.pc = "length" /\ UNCHANGED player
      /\ chan' = [chan EXCEPT ![c] = t]
  BY DEF FeederSetsLength, SidInv, ChanOK
<1>2. /\ ch.next \in Subtunes /\ ch.next = ch.current /\ ch.total # 0 /\ ~ch.eos /\ ~ch.ended
  BY <1>1 DEF FeederOK
<1>3. frames \in Nat \ {0} /\ KnownLength(ch.next) \in Nat
  BY <1>2, Played
<1> HIDE DEF frames, ch
<1>4. PICK d \in Nat :
        t = [ch EXCEPT !.duration = d, !.total = frames, !.remaining = frames, !.next = 0,
                       !.pc = "reset"]
  <2>1. ch.duration \in Nat
    BY <1>1 DEF ChanType
  <2>2. t = [ch EXCEPT !.duration = IF KnownLength(ch.next) = Unknown THEN ch.duration
                                    ELSE KnownLength(ch.next),
                       !.total = frames, !.remaining = frames, !.next = 0, !.pc = "reset"]
    BY DEF SetsLength, frames
  <2> QED BY <1>3, <2>1, <2>2
<1>5. t \in ChanType
  BY <1>1, <1>3, <1>4 DEF ChanType
<1>6. /\ t.pc = "reset" /\ t.total = frames /\ t.remaining = frames /\ t.current = ch.current
      /\ t.eos = ch.eos /\ t.ended = ch.ended
  BY <1>1, <1>4 DEF ChanType
<1> HIDE DEF t
<1>7. FeederOK(t)
  BY <1>2, <1>3, <1>6 DEF FeederOK, frames
<1> QED BY <1>1, <1>5, <1>7, ThreadStep DEF ChanOK

LEMMA ResetsOK == ASSUME SidInv, NEW c \in Channels, FeederResetsQueue(c) PROVE SidInv'
<1> DEFINE ch == chan[c]
           t == Emptied(ch)
           k == Kept(ch)
<1>1. /\ ch \in ChanType /\ FeederOK(ch) /\ ch.pc = "reset" /\ UNCHANGED player
      /\ chan' = [chan EXCEPT ![c] = t] \/ chan' = [chan EXCEPT ![c] = k]
  BY DEF FeederResetsQueue, SidInv, ChanOK
<1>2. /\ ch.total = PlayLength(ch.current) /\ ch.remaining = ch.total /\ ch.total # 0
      /\ ~ch.eos /\ ~ch.ended /\ ch.total \in Nat
  BY <1>1 DEF FeederOK, ChanType
<1>3. <<>> \in Seq(Subtunes) /\ Len(<<>>) = 0 /\ DOMAIN <<>> = {}
  BY EmptySeq
<1> HIDE DEF ch
<1>4. CASE chan' = [chan EXCEPT ![c] = t]
  <2>1. t \in ChanType
    BY <1>1, <1>3 DEF Emptied, ChanType
  <2>2. /\ t.pc = "feed" /\ t.total = ch.total /\ t.remaining = ch.remaining
        /\ t.current = ch.current /\ t.eos = ch.eos /\ t.ended = ch.ended
        /\ t.queue = <<>> /\ t.heard = 0
    BY <1>1 DEF Emptied, ChanType
  <2> HIDE DEF t
  <2>3. Whole(t)
    BY <1>2, <1>3, <2>2 DEF Whole
  <2>4. FeederOK(t)
    BY <1>2, <2>2, <2>3 DEF FeederOK
  <2> QED BY <1>1, <1>4, <2>1, <2>4, ThreadStep DEF ChanOK
<1>5. CASE chan' = [chan EXCEPT ![c] = k]
  <2>1. k \in ChanType
    BY <1>1 DEF Kept, ChanType, Failures
  <2>2. /\ k.pc = "feed" /\ k.total = ch.total /\ k.current = ch.current
        /\ k.eos = ch.eos /\ k.ended = ch.ended /\ "reset" \in k.failed
    BY <1>1 DEF Kept, ChanType
  <2> HIDE DEF k
  <2>3. FeederOK(k)
    BY <1>2, <2>2 DEF FeederOK, Untouched
  <2> QED BY <1>1, <1>5, <2>1, <2>3, ThreadStep DEF ChanOK
<1> QED BY <1>1, <1>4, <1>5

LEMMA FeedsOK == ASSUME SidInv, NEW c \in Channels, FeederFeeds(c) PROVE SidInv'
<1> DEFINE ch == chan[c]
           g == [ch EXCEPT !.pc = "recv"]
           h == Pushed(ch)
<1>1. /\ ch \in ChanType /\ FeederOK(ch) /\ ChanOK(ch) /\ ch.pc = "feed" /\ UNCHANGED player
      /\ \/ ch.remaining = 0 /\ Ends(c, ch)
         \/ chan' = [chan EXCEPT ![c] = g]
         \/ ch.remaining > 0 /\ chan' = [chan EXCEPT ![c] = h]
         \/ EngineFails(c, ch) \/ Exits(c, PushRefused(ch))
  BY DEF FeederFeeds, SidInv, ChanOK
<1>2. /\ ch.total = PlayLength(ch.current) /\ ch.total # 0 /\ ~ch.eos /\ ~ch.ended
      /\ Untouched(ch) => Whole(ch)
  BY <1>1 DEF FeederOK
<1>3. /\ ch.queue \in Seq(Subtunes) /\ ch.current \in Subtunes
      /\ ch.heard \in Nat /\ ch.remaining \in Nat
  BY <1>1 DEF ChanType
<1> HIDE DEF ch
<1>4. CASE \/ ch.remaining = 0 /\ Ends(c, ch)
           \/ EngineFails(c, ch) \/ Exits(c, PushRefused(ch))
  <2>1. \/ ch.remaining = 0 /\ chan' = [chan EXCEPT ![c] = MarksEnd(ch, {})]
        \/ chan' = [chan EXCEPT ![c] = MarksEnd(ch, {"engine"})]
        \/ \E f \in SUBSET {"engine", "mark", "push"} :
             f # {} /\ chan' = [chan EXCEPT ![c] = Returns(ch, f)]
    BY <1>1, <1>4, EndsAs, EngineAs, PushAs
  <2>2. /\ ch.remaining = 0 => ChanOK(MarksEnd(ch, {}))
        /\ ChanOK(MarksEnd(ch, {"engine"}))
    BY <1>1, ReturnsOK DEF Failures
  <2>3. ASSUME NEW f \in SUBSET {"engine", "mark", "push"}, f # {} PROVE ChanOK(Returns(ch, f))
    <3>1. f \in SUBSET Failures /\ "reset" \notin f
      BY <2>3 DEF Failures
    <3>2. Returns(ch, f) # MarksEnd(ch, f)
      <4>1. ~Returns(ch, f).eos /\ MarksEnd(ch, f).eos
        BY <1>1, <1>2 DEF Returns, MarksEnd, ChanType
      <4> QED BY <4>1
    <3> QED BY <1>1, <3>1, <3>2, ReturnsOK
  <2> QED BY <1>1, <2>1, <2>2, <2>3, ThreadStep
<1>5. CASE chan' = [chan EXCEPT ![c] = g]
  <2>1. g \in ChanType
    BY <1>1 DEF ChanType
  <2>2. /\ g.pc = "recv" /\ g.total = ch.total /\ g.remaining = ch.remaining
        /\ g.current = ch.current /\ g.ended = ch.ended /\ g.silenced = ch.silenced
        /\ g.queue = ch.queue /\ g.heard = ch.heard /\ g.eos = ch.eos /\ g.failed = ch.failed
    BY <1>1 DEF ChanType
  <2> HIDE DEF g
  <2> QED BY <1>1, <1>5, <2>1, <2>2, PlaceOK, ThreadStep
<1>6. CASE ch.remaining > 0 /\ chan' = [chan EXCEPT ![c] = h]
  <2> DEFINE q == Append(ch.queue, ch.current)
             left == ch.remaining - 1
  <2>1. /\ q \in Seq(Subtunes) /\ Len(q) = Len(ch.queue) + 1 /\ Len(ch.queue) \in Nat
        /\ DOMAIN q = 1..Len(q) /\ DOMAIN ch.queue = 1..Len(ch.queue)
        /\ \A i \in 1..Len(ch.queue) : q[i] = ch.queue[i]
        /\ q[Len(ch.queue) + 1] = ch.current
    BY <1>3, AppendProperties, LenProperties
  <2>2. left \in Nat /\ left + 1 = ch.remaining
    BY <1>3, <1>6
  <2>3. h = [ch EXCEPT !.queue = q, !.remaining = left, !.pc = "recv"]
    BY DEF Pushed
  <2> HIDE DEF q, left, h
  <2>4. h \in ChanType
    BY <1>1, <2>1, <2>2, <2>3 DEF ChanType
  <2>5. /\ h.pc = "recv" /\ h.total = ch.total /\ h.remaining = left
        /\ h.current = ch.current /\ h.ended = ch.ended /\ h.silenced = ch.silenced
        /\ h.queue = q /\ h.heard = ch.heard /\ h.eos = ch.eos /\ h.failed = ch.failed
    BY <1>1, <2>3 DEF ChanType
  <2>6. ASSUME Untouched(ch) PROVE Whole(h)
    <3>1. ch.heard + Len(q) + left = ch.heard + Len(ch.queue) + ch.remaining
      <4> DEFINE x == ch.heard
                 m == Len(ch.queue)
                 n == Len(q)
                 r == ch.remaining
      <4>1. x \in Nat /\ m \in Nat /\ r \in Nat /\ left \in Nat /\ n = m + 1 /\ left + 1 = r
        BY <1>3, <2>1, <2>2
      <4> HIDE DEF x, m, n, r
      <4>2. x + n + left = x + m + r
        BY <4>1
      <4> QED BY <4>2 DEF x, m, n, r
    <3>2. ASSUME NEW i \in DOMAIN q PROVE q[i] = ch.current
      <4>1. i \in 1..Len(ch.queue) \/ i = Len(ch.queue) + 1
        BY <2>1, <3>2
      <4> QED BY <1>2, <2>1, <2>6, <4>1 DEF Whole
    <3> QED BY <1>2, <2>5, <2>6, <3>1, <3>2 DEF Whole
  <2>7. FeederOK(h)
    <3>1. Untouched(h) => Untouched(ch)
      BY <2>5 DEF Untouched
    <3> QED BY <1>2, <2>5, <2>6, <3>1 DEF FeederOK
  <2> QED BY <1>1, <1>6, <2>4, <2>7, ThreadStep DEF ChanOK
<1> QED BY <1>1, <1>4, <1>5, <1>6

----------------------------------------------------------------------------
LEMMA PlaysOK == ASSUME SidInv, NEW c \in Channels, AudioPlays(c) PROVE SidInv'
<1> DEFINE ch == chan[c]
           q == Tail(ch.queue)
           n == ch.heard + 1
           t == [ch EXCEPT !.queue = q, !.heard = n]
<1>1. /\ ch \in ChanType /\ FeederOK(ch) /\ ch.queue # <<>> /\ UNCHANGED player
      /\ chan' = [chan EXCEPT ![c] = t]
  BY DEF AudioPlays, SidInv, ChanOK
<1>2. /\ ch.queue \in Seq(Subtunes) /\ ch.heard \in Nat /\ ch.remaining \in Nat
  BY <1>1 DEF ChanType
<1> HIDE DEF ch
<1>3. /\ q \in Seq(Subtunes) /\ Len(q) \in Nat /\ Len(q) + 1 = Len(ch.queue)
      /\ \A i \in DOMAIN q : \E j \in DOMAIN ch.queue : q[i] = ch.queue[j]
  <2>1. /\ q \in Seq(Subtunes) /\ Len(q) = Len(ch.queue) - 1
        /\ \A i \in 1..Len(q) : q[i] = ch.queue[i + 1]
    BY <1>1, <1>2, HeadTailProperties
  <2>2. DOMAIN q = 1..Len(q) /\ DOMAIN ch.queue = 1..Len(ch.queue)
        /\ Len(q) \in Nat /\ Len(ch.queue) \in Nat
    BY <1>2, <2>1, LenProperties
  <2>3. ASSUME NEW i \in 1..Len(q) PROVE i + 1 \in 1..Len(ch.queue)
    BY <2>1, <2>2
  <2> QED BY <2>1, <2>2, <2>3
<1>a. n \in Nat /\ n = ch.heard + 1
  BY <1>2
<1> HIDE DEF q, n
<1>4. t \in ChanType
  BY <1>1, <1>2, <1>3, <1>a DEF ChanType
<1>5. /\ t.pc = ch.pc /\ t.total = ch.total /\ t.remaining = ch.remaining /\ t.next = ch.next
      /\ t.current = ch.current /\ t.ended = ch.ended /\ t.silenced = ch.silenced
      /\ t.queue = q /\ t.heard = n /\ t.eos = ch.eos /\ t.failed = ch.failed
  BY <1>1 DEF ChanType
<1> HIDE DEF t
<1>6. ASSUME Whole(ch) PROVE Whole(t)
  <2>1. t.heard + Len(t.queue) + t.remaining = ch.heard + Len(ch.queue) + ch.remaining
    <3>1. ch.heard \in Nat /\ Len(q) \in Nat /\ ch.remaining \in Nat
      BY <1>2, <1>3
    <3>2. Len(q) + 1 = Len(ch.queue) /\ n = ch.heard + 1
      BY <1>3, <1>a
    <3>3. n + Len(q) + ch.remaining = ch.heard + Len(ch.queue) + ch.remaining
      BY <3>1, <3>2
    <3> QED BY <1>5, <3>3
  <2>2. ASSUME NEW i \in DOMAIN q PROVE q[i] = ch.current
    BY <1>3, <1>6 DEF Whole
  <2> QED BY <1>5, <1>6, <2>1, <2>2 DEF Whole
<1>7. ch.total # 0 /\ ~(ch.ended /\ ~ch.silenced)
  BY <1>1 DEF FeederOK
<1>8. Untouched(t) <=> Untouched(ch)
  BY <1>5 DEF Untouched
<1>9. FeederOK(t)
  BY <1>1, <1>5, <1>6, <1>7, <1>8 DEF FeederOK
<1> QED BY <1>1, <1>4, <1>9, ThreadStep DEF ChanOK

LEMMA EndsOK == ASSUME SidInv, NEW c \in Channels, AudioEnds(c) PROVE SidInv'
<1> DEFINE ch == chan[c]
           t == [ch EXCEPT !.active = "stopped", !.ended = TRUE]
<1>1. /\ ch \in ChanType /\ FeederOK(ch) /\ ch.queue = <<>> /\ ch.eos /\ UNCHANGED player
      /\ chan' = [chan EXCEPT ![c] = t]
  BY DEF AudioEnds, SidInv, ChanOK
<1> HIDE DEF ch
<1>2. t \in ChanType
  BY <1>1 DEF ChanType
<1>3. /\ t.pc = ch.pc /\ t.total = ch.total /\ t.remaining = ch.remaining /\ t.next = ch.next
      /\ t.current = ch.current /\ t.silenced = ch.silenced
      /\ t.queue = ch.queue /\ t.heard = ch.heard /\ t.eos = ch.eos /\ t.failed = ch.failed
  BY <1>1 DEF ChanType
<1> HIDE DEF t
<1>4. FeederOK(t)
  BY <1>1, <1>3 DEF FeederOK, Untouched, Whole
<1> QED BY <1>1, <1>2, <1>4, ThreadStep DEF ChanOK

LEMMA WorkerOK == ASSUME SidInv, NEW c \in Channels, WorkerFinishes(c) PROVE SidInv'
<1> DEFINE ch == chan[c]
           t == [ch EXCEPT !.held = "message"]
<1>1. /\ ch \in ChanType /\ ChanOK(ch) /\ UNCHANGED player
      /\ chan' = [chan EXCEPT ![c] = t] \/ chan' = [chan EXCEPT ![c] = Dropped(ch)]
  BY DEF WorkerFinishes, Abandoned, SidInv, ChanOK
<1> HIDE DEF ch
<1>2. ChanOK(t)
  <2>1. t \in ChanType
    BY <1>1 DEF ChanType
  <2>2. /\ t.pc = ch.pc /\ t.total = ch.total /\ t.remaining = ch.remaining /\ t.next = ch.next
        /\ t.current = ch.current /\ t.silenced = ch.silenced /\ t.ended = ch.ended
        /\ t.queue = ch.queue /\ t.heard = ch.heard /\ t.eos = ch.eos /\ t.failed = ch.failed
    BY <1>1 DEF ChanType
  <2> QED BY <1>1, <2>1, <2>2, AsideOK
<1> QED BY <1>1, <1>2, DroppedOK, ThreadStep

----------------------------------------------------------------------------
(* The player, as a world w of channels and player.                        *)
WorldOK(w) ==
  /\ DOMAIN w.chan = Channels /\ \A c \in Channels : ChanOK(w.chan[c])
  /\ w.player \in PlayerType
  /\ w.player.refreshing => w.player.current # NoChannel

Calm(w) == WorldOK(w) /\ ~w.player.refreshing

LEMMA WorldIs == ASSUME SidInv, ~player.refreshing PROVE Calm(World)
BY DEF SidInv, PlayerIs, World, Calm, WorldOK

LEMMA DropCurrentOK == ASSUME NEW w, Calm(w) PROVE Calm(DropCurrent(w))
<1> DEFINE c == w.player.current
           p == [w.player EXCEPT !.current = NoChannel, !.shown = Unknown]
           d == [w.chan EXCEPT ![c] = Dropped(w.chan[c])]
<1>1. CASE c = NoChannel
  BY <1>1 DEF DropCurrent
<1>2. CASE c # NoChannel
  <2>1. c \in Channels
    BY <1>2 DEF Calm, WorldOK, PlayerType
  <2>2. ChanOK(Dropped(w.chan[c]))
    BY <2>1, DroppedOK DEF Calm, WorldOK
  <2>3. p \in PlayerType /\ ~p.refreshing
    BY DEF Calm, WorldOK, PlayerType, Unknown
  <2>4. DOMAIN d = Channels /\ \A x \in Channels : ChanOK(d[x])
    BY <2>1, <2>2 DEF Calm, WorldOK
  <2>5. DropCurrent(w) = [chan |-> d, player |-> p]
    BY <1>2 DEF DropCurrent
  <2> HIDE DEF d, p
  <2> QED BY <2>3, <2>4, <2>5 DEF Calm, WorldOK
<1> QED BY <1>1, <1>2

LEMMA StartOpenOK ==
  ASSUME NEW w, Calm(w), w.player.opened < MaxOpens PROVE Calm(StartOpen(w))
<1> DEFINE c == w.player.opened + 1
           p == w.player.pending
           left == IF p # NoChannel /\ w.chan[p].held = "message"
                   THEN [w.chan EXCEPT ![p] = Dropped(w.chan[p])] ELSE w.chan
           b == [Fresh EXCEPT !.held = "worker", !.pc = "lease"]
           d == [left EXCEPT ![c] = b]
           q == [w.player EXCEPT !.pending = c, !.opened = c]
<1>1. w.player \in PlayerType /\ DOMAIN w.chan = Channels /\ ~w.player.refreshing
      /\ \A x \in Channels : ChanOK(w.chan[x])
  BY DEF Calm, WorldOK
<1>2. c \in Channels /\ c \in 0..MaxOpens
  <2>1. w.player.opened \in 0..MaxOpens
    BY <1>1 DEF PlayerType
  <2> QED BY <2>1, SidBoundsAssumption DEF Channels
<1>3. q \in PlayerType /\ ~q.refreshing
  <2> HIDE DEF c
  <2> QED BY <1>1, <1>2 DEF PlayerType
<1>4. DOMAIN left = Channels /\ \A x \in Channels : ChanOK(left[x])
  <2>1. p # NoChannel => p \in Channels
    BY <1>1 DEF PlayerType
  <2>2. p # NoChannel => ChanOK(Dropped(w.chan[p]))
    BY <1>1, <2>1, DroppedOK
  <2> QED BY <1>1, <2>1, <2>2
<1>5. ChanOK(b)
  BY BegunOK
<1> HIDE DEF left, b
<1>6. DOMAIN d = Channels /\ \A x \in Channels : ChanOK(d[x])
  BY <1>2, <1>4, <1>5
<1>7. StartOpen(w) = [chan |-> d, player |-> q]
  BY DEF StartOpen, left, b
<1> HIDE DEF d, q
<1> QED BY <1>3, <1>6, <1>7 DEF Calm, WorldOK

LEMMA ShownIs == ASSUME NEW ch, ChanOK(ch) PROVE ShownDuration(ch) \in Nat
BY DEF ChanOK, ChanType, ShownDuration, Unknown

LEMMA ProcessOK == ASSUME NEW w, Calm(w) PROVE Calm(ProcessPendingOpen(w))
<1> DEFINE c == w.player.pending
           ch == w.chan[c]
           f == [ch EXCEPT !.held = "nowhere"]
           g == [ch EXCEPT !.held = "player", !.active = "playing"]
           shown == ShownDuration(ch)
           fp == [w.player EXCEPT !.pending = NoChannel, !.state = "Stopped"]
           gp == [w.player EXCEPT !.pending = NoChannel, !.current = c, !.state = "Playing",
                                  !.shown = shown]
<1>1. w.player \in PlayerType /\ DOMAIN w.chan = Channels /\ ~w.player.refreshing
      /\ \A x \in Channels : ChanOK(w.chan[x])
  BY DEF Calm, WorldOK
<1>2. CASE c = NoChannel \/ ch.held # "message"
  BY <1>2 DEF ProcessPendingOpen
<1>3. CASE ~(c = NoChannel \/ ch.held # "message")
  <2>1. c \in Channels
    BY <1>1, <1>3 DEF PlayerType
  <2>2. ChanOK(ch) /\ shown \in Nat
    BY <1>1, <2>1, ShownIs
  <2> HIDE DEF shown
  <2>3. fp \in PlayerType /\ gp \in PlayerType /\ ~fp.refreshing /\ ~gp.refreshing
    BY <1>1, <2>1, <2>2 DEF PlayerType
  <2>4. ChanOK(f) /\ ChanOK(g)
    <3> HIDE DEF ch
    <3>0. ch \in ChanType
      BY <2>2 DEF ChanOK
    <3>1. f \in ChanType /\ g \in ChanType
      BY <3>0 DEF ChanType
    <3>2. ASSUME NEW t \in {f, g}
          PROVE  /\ t.pc = ch.pc /\ t.total = ch.total /\ t.remaining = ch.remaining
                 /\ t.next = ch.next /\ t.current = ch.current /\ t.silenced = ch.silenced
                 /\ t.ended = ch.ended /\ t.queue = ch.queue /\ t.heard = ch.heard
                 /\ t.eos = ch.eos /\ t.failed = ch.failed
      BY <3>0 DEF ChanType
    <3> QED BY <2>2, <3>1, <3>2, AsideOK
  <2>5. ProcessPendingOpen(w) \in {[chan |-> [w.chan EXCEPT ![c] = f], player |-> fp],
                                   [chan |-> [w.chan EXCEPT ![c] = g], player |-> gp]}
    BY <1>3, <2>1, <1>1 DEF ProcessPendingOpen, shown
  <2> HIDE DEF f, g, fp, gp
  <2>6. ASSUME NEW t, ChanOK(t)
        PROVE  LET d == [w.chan EXCEPT ![c] = t]
               IN  DOMAIN d = Channels /\ \A x \in Channels : ChanOK(d[x])
    BY <1>1, <2>1, <2>6
  <2> QED BY <2>3, <2>4, <2>5, <2>6 DEF Calm, WorldOK
<1> QED BY <1>2, <1>3

LEMMA BecomesOK == ASSUME NEW w, Calm(w), Becomes(w) PROVE SidInv'
BY DEF Calm, WorldOK, Becomes, SidInv, PlayerIs

LEMMA TickOK == ASSUME SidInv, Tick PROVE SidInv'
<1> DEFINE w == ProcessPendingOpen(World)
<1>1. Calm(w)
  BY WorldIs, ProcessOK DEF Tick
<1>2. PICK after \in IF signal /\ w.player.current # NoChannel
                     THEN OpenNextOrStop(DropCurrent(w)) ELSE {w} : Becomes(after)
  BY DEF Tick
<1> HIDE DEF w
<1>3. Calm(DropCurrent(w))
  BY <1>1, DropCurrentOK
<1>4. ASSUME NEW x, Calm(x), NEW y \in OpenNextOrStop(x) PROVE Calm(y)
  <2> DEFINE z == [x EXCEPT !.player.state = "Stopped"]
             p == [x.player EXCEPT !.state = "Stopped"]
  <2>1. x.player \in PlayerType /\ p \in PlayerType /\ ~p.refreshing
    BY <1>4 DEF Calm, WorldOK, PlayerType
  <2>2. CASE y = StartOpen(x) /\ x.player.opened < MaxOpens
    BY <1>4, <2>2, StartOpenOK
  <2>3. CASE y = z
    <3>1. y.chan = x.chan /\ y.player = p
      BY <1>4, <2>3 DEF Calm, WorldOK
    <3> QED BY <1>4, <2>1, <3>1 DEF Calm, WorldOK
  <2> QED BY <1>4, <2>2, <2>3 DEF OpenNextOrStop
<1>5. Calm(after)
  BY <1>1, <1>2, <1>3, <1>4
<1> QED BY <1>2, <1>5, BecomesOK

LEMMA OpenTrackOK == ASSUME SidInv, OpenTrack PROVE SidInv'
<1>1. Calm(World) /\ Becomes(StartOpen(DropCurrent(World))) /\ player.opened < MaxOpens
  BY WorldIs DEF OpenTrack, Call
<1>2. Calm(DropCurrent(World)) /\ DropCurrent(World).player.opened < MaxOpens
  <2>1. DropCurrent(World).player.opened = player.opened
    BY DEF DropCurrent, World, SidInv, PlayerIs, PlayerType
  <2> QED BY <1>1, <2>1, DropCurrentOK
<1> QED BY <1>1, <1>2, StartOpenOK, BecomesOK

\* A call that reaches the channel the player holds.
LEMMA CurrentIs ==
  ASSUME SidInv, player.current # NoChannel
  PROVE  player.current \in Channels /\ ChanOK(chan[player.current])
BY DEF SidInv, PlayerIs, PlayerType

LEMMA PlayPauseOK == ASSUME SidInv, PlayPause PROVE SidInv'
<1> DEFINE c == player.current
           ch == chan[c]
<1>1. /\ c \in Channels /\ ChanOK(ch) /\ ch \in ChanType
      /\ player \in PlayerType /\ ~player.refreshing
  BY CurrentIs DEF PlayPause, Call, SidInv, PlayerIs, ChanOK
<1>2. PICK active \in {"paused", "playing"}, state \in {"Paused", "Playing"} :
        /\ chan' = [chan EXCEPT ![c] = [ch EXCEPT !.active = active]]
        /\ player' = [player EXCEPT !.state = state]
  BY DEF PlayPause, Becomes
<1> DEFINE t == [ch EXCEPT !.active = active]
<1>3. PlayerIs'
  BY <1>1, <1>2 DEF PlayerIs, PlayerType
<1>4. ChanOK(t)
  <2> HIDE DEF ch
  <2>1. t \in ChanType
    BY <1>1 DEF ChanType
  <2>2. /\ t.pc = ch.pc /\ t.total = ch.total /\ t.remaining = ch.remaining /\ t.next = ch.next
        /\ t.current = ch.current /\ t.silenced = ch.silenced /\ t.ended = ch.ended
        /\ t.queue = ch.queue /\ t.heard = ch.heard /\ t.eos = ch.eos /\ t.failed = ch.failed
    BY <1>1 DEF ChanType
  <2> HIDE DEF t
  <2> QED BY <1>1, <2>1, <2>2, AsideOK
<1> QED BY <1>1, <1>2, <1>3, <1>4, SidStep

\* A channel that was stopped owes the listener nothing more.
LEMMA StopOK == ASSUME SidInv, Stop PROVE SidInv'
<1> DEFINE c == player.current
           ch == chan[c]
<1>1. player \in PlayerType /\ ~player.refreshing /\ player' = [player EXCEPT !.state = "Stopped"]
  BY DEF Stop, Call, SidInv, PlayerIs
<1>2. PlayerIs'
  BY <1>1 DEF PlayerIs, PlayerType
<1>3. CASE c = NoChannel
  BY <1>2, <1>3 DEF Stop, SidInv
<1>4. CASE c # NoChannel
  <2>1. c \in Channels /\ ch \in ChanType /\ FeederOK(ch)
    BY <1>4, CurrentIs DEF ChanOK
  <2>2. PICK queue \in {<<>>, ch.queue} : chan' = [chan EXCEPT ![c] = Silenced(ch, queue)]
    BY <1>4 DEF Stop
  <2> DEFINE t == Silenced(ch, queue)
             q == Append(ch.commands, StopFeeder)
  <2> HIDE DEF ch
  <2>3. q \in Seq(Commands) /\ queue \in Seq(Subtunes)
    <3>1. StopFeeder \in Commands
      BY DEF Commands
    <3>2. ch.commands \in Seq(Commands) /\ ch.queue \in Seq(Subtunes)
      BY <2>1 DEF ChanType
    <3>3. q \in Seq(Commands)
      BY <3>1, <3>2, AppendProperties
    <3>4. queue \in Seq(Subtunes)
      BY <2>2, <3>2, EmptySeq
    <3> QED BY <3>3, <3>4
  <2>4. t = [ch EXCEPT !.commands = q, !.silenced = TRUE, !.active = "stopped", !.heard = 0,
                       !.queue = queue]
    BY DEF Silenced
  <2> HIDE DEF q, t
  <2>5. t \in ChanType
    BY <2>1, <2>3, <2>4 DEF ChanType
  <2>6. /\ t.pc = ch.pc /\ t.total = ch.total /\ t.remaining = ch.remaining /\ t.next = ch.next
        /\ t.current = ch.current /\ t.silenced /\ t.ended = ch.ended
        /\ t.queue = queue /\ t.heard = 0 /\ t.eos = ch.eos /\ t.failed = ch.failed
    BY <2>1, <2>4 DEF ChanType
  <2>7. FeederOK(t)
    BY <2>1, <2>2, <2>6 DEF FeederOK, Untouched
  <2>8. ChanOK(t)
    BY <2>5, <2>7 DEF ChanOK
  <2>9. chan' = [chan EXCEPT ![c] = t]
    BY <2>2 DEF t
  <2> QED BY <1>2, <2>1, <2>8, <2>9, SidStep
<1> QED BY <1>3, <1>4

LEMMA SentOK ==
  ASSUME SidInv, player.current # NoChannel, NEW m \in Commands,
         chan' = [chan EXCEPT ![player.current].commands = Append(@, m)], PlayerIs'
  PROVE  SidInv'
<1> DEFINE c == player.current
           ch == chan[c]
<1>1. c \in Channels /\ ChanOK(ch) /\ ch \in ChanType
  BY CurrentIs DEF ChanOK
<1>2. chan' = [chan EXCEPT ![c] = [ch EXCEPT !.commands = Append(ch.commands, m)]]
  OBVIOUS
<1>3. [ch EXCEPT !.held = ch.held, !.commands = Append(ch.commands, m)]
        = [ch EXCEPT !.commands = Append(ch.commands, m)]
  BY <1>1 DEF ChanType
<1>4. ch.held \in {"none", "worker", "message", "player", "nowhere"}
  BY <1>1 DEF ChanType
<1>5. ChanOK([ch EXCEPT !.commands = Append(ch.commands, m)])
  BY <1>1, <1>3, <1>4, AskedOK
<1> QED BY <1>1, <1>2, <1>5, SidStep

LEMMA SeekOK == ASSUME SidInv, SeekToStart PROVE SidInv'
<1>1. PlayerIs'
  BY DEF SeekToStart, SidInv, PlayerIs
<1> QED BY <1>1, SentOK DEF SeekToStart, Commands

LEMMA SelectOK ==
  ASSUME SidInv, NEW n \in 0..(Len(Lengths) + 1), SelectSubsong(n) PROVE SidInv'
<1>1. Clamped(n) \in Subtunes
  <2>1. Len(Lengths) \in Nat /\ Len(Lengths) > 0 /\ Subtunes = 1..Len(Lengths)
    BY LengthsAssumption, LenProperties DEF Subtunes
  <2> QED BY <2>1 DEF Clamped
<1>2. SelectSubtune(Clamped(n)) \in Commands
  BY <1>1 DEF Commands
<1>3. PlayerIs'
  BY DEF SelectSubsong, SidInv, PlayerIs, PlayerType
<1> QED BY <1>2, <1>3, SentOK DEF SelectSubsong

LEMMA RefreshOK == ASSUME SidInv, SelectRefreshes PROVE SidInv'
<1> DEFINE shown == ShownDuration(chan[player.current])
<1>1. player.current # NoChannel
  BY DEF SelectRefreshes, SidInv, PlayerIs
<1>2. shown \in Nat
  BY <1>1, CurrentIs, ShownIs
<1>3. player' = [player EXCEPT !.refreshing = FALSE, !.shown = shown] /\ UNCHANGED chan
  BY DEF SelectRefreshes
<1> HIDE DEF shown
<1>4. PlayerIs'
  BY <1>2, <1>3 DEF SidInv, PlayerIs, PlayerType
<1> QED BY <1>3, <1>4 DEF SidInv

LEMMA InitOK == Init => SidInv
<1> SUFFICES ASSUME Init PROVE SidInv
  OBVIOUS
<1>1. ChanOK(Fresh)
  <2>1. /\ Fresh.pc = "none" /\ Fresh.total = 0 /\ Fresh.queue = <<>> /\ Fresh.heard = 0
        /\ Fresh.remaining = 0 /\ ~Fresh.eos /\ ~Fresh.ended
    BY DEF Fresh
  <2>2. FeederOK(Fresh)
    BY <2>1 DEF FeederOK
  <2> QED BY <2>2, FreshIs DEF ChanOK
<1>2. PlayerIs
  BY SidBoundsAssumption DEF Init, PlayerIs, PlayerType, Unknown
<1> HIDE DEF Fresh
<1> QED BY <1>1, <1>2 DEF Init, SidInv

LEMMA NextOK == SidInv /\ [Next]_vars => SidInv'
<1> SUFFICES ASSUME SidInv, [Next]_vars PROVE SidInv'
  OBVIOUS
<1>1. CASE UNCHANGED vars
  BY <1>1 DEF vars, SidInv, PlayerIs
<1>2. CASE OpenTrack \/ PlayPause \/ Stop \/ SeekToStart \/ SelectRefreshes \/ Tick
  BY <1>2, OpenTrackOK, PlayPauseOK, StopOK, SeekOK, RefreshOK, TickOK
<1>3. ASSUME NEW n \in 0..(Len(Lengths) + 1), SelectSubsong(n) PROVE SidInv'
  BY <1>3, SelectOK
<1>4. ASSUME NEW c \in Channels, Feeder(c) \/ WorkerFinishes(c) \/ AudioPlays(c) \/ AudioEnds(c)
      PROVE  SidInv'
  BY <1>4, LoadsOK, ReceivesOK, StoresOK, LengthOK, ResetsOK, FeedsOK, WorkerOK, PlaysOK, EndsOK
     DEF Feeder
<1> QED BY <1>1, <1>2, <1>3, <1>4 DEF Next

LEMMA InvIsWhole == SidInv => SubtuneIsWhole
<1> SUFFICES ASSUME SidInv, NEW c \in Channels
             PROVE  LET ch == chan[c]
                    IN  /\ Settled(ch) =>
                             /\ ch.heard + Len(ch.queue) + ch.remaining = PlayLength(ch.current)
                             /\ \A i \in DOMAIN ch.queue : ch.queue[i] = ch.current
                        /\ ch.ended /\ Untouched(ch) /\ "engine" \notin ch.failed =>
                             ch.heard = PlayLength(ch.current)
  BY DEF SubtuneIsWhole
<1> DEFINE ch == chan[c]
<1>1. ch \in ChanType /\ FeederOK(ch)
  BY DEF SidInv, ChanOK
<1> HIDE DEF ch
<1>2. ASSUME Settled(ch) PROVE Whole(ch)
  BY <1>1, <1>2 DEF Settled, FeederOK
<1>3. ASSUME ch.ended, Untouched(ch), "engine" \notin ch.failed
      PROVE  ch.heard = PlayLength(ch.current)
  <2>1. /\ ch.queue = <<>> /\ ch.remaining = 0 /\ ch.pc = "done" /\ ch.total # 0
    BY <1>1, <1>3 DEF FeederOK, Untouched
  <2>2. Whole(ch)
    BY <1>1, <1>3, <2>1 DEF FeederOK
  <2>3. Len(ch.queue) = 0 /\ ch.heard \in Nat
    BY <1>1, <2>1, EmptySeq DEF ChanType
  <2> QED BY <2>1, <2>2, <2>3 DEF Whole
<1> QED BY <1>2, <1>3 DEF Whole, ch

\* A tune plays every chunk of the subtune selected last, once and in order, and
\* says that it ended only at its end or where the engine failed, for every tune,
\* whatever was selected, restarted, paused and opened before, as long as it was
\* not stopped and the stream took the last reset of its queue
\* (crates/player/src/sid/channel.rs:352, 353, 373).
THEOREM SubtunesPlayWhole == Spec => []SubtuneIsWhole
BY InitOK, NextOK, InvIsWhole, PTL DEF Spec

-----------------------------------------------------------------------------
(* A tune that was not stopped has something to play, unless its stream    *)
(* refused a chunk or the mark of the end.                                 *)

NoStop(ch) == \A i \in DOMAIN ch.commands : ch.commands[i] # StopFeeder

\* The feeder of a channel that is wanted marks the end when it returns, unless
\* its stream is the reason.
FedOK(ch) ==
  /\ ch.held # "nowhere" /\ ~ch.silenced =>
       NoStop(ch) /\ (ch.pc = "done" => ch.eos \/ ch.total = 0 \/ StreamRefused(ch))
  /\ ch.held # "none" => ch.pc # "none"
  /\ ch.held \in {"message", "player"} => ch.pc # "lease"
  /\ ch.held = "player" => ch.total # 0

FedInv ==
  /\ \A c \in Channels : FedOK(chan[c]) /\ (c > player.opened => chan[c].held = "none")
  /\ player.current # NoChannel => chan[player.current].held = "player"

\* The feeder goes on: what it is asked may be one command less.
LEMMA GoesOnFed ==
  ASSUME NEW ch, FedOK(ch), NEW t, t.held = ch.held, t.silenced = ch.silenced, t.eos = ch.eos,
         NoStop(ch) => NoStop(t), ch.total # 0 => t.total # 0,
         t.pc \in {"none", "lease"} => t.pc = ch.pc,
         t.pc = "done" =>
           \/ ch.held = "nowhere" \/ ~NoStop(ch) \/ t.total = 0
           \/ ch.pc = "done" /\ t.total = ch.total /\ t.failed = ch.failed
  PROVE  FedOK(t)
BY DEF FedOK, StreamRefused

LEMMA ReturnsFed ==
  ASSUME NEW ch \in ChanType, FedOK(ch), ch.pc \in {"recv", "feed"}, NEW f \in SUBSET Failures,
         NEW t \in {MarksEnd(ch, f), Returns(ch, f)},
         t = MarksEnd(ch, f) \/ f \cap {"push", "mark"} # {}
  PROVE  FedOK(t) /\ t.held = ch.held
<1>1. /\ t.held = ch.held /\ t.commands = ch.commands /\ t.silenced = ch.silenced
      /\ t.failed = ch.failed \cup f /\ t.pc = "done" /\ t.total = ch.total
      /\ (t = MarksEnd(ch, f) => t.eos) /\ (t = MarksEnd(ch, f) \/ t.eos = ch.eos)
  BY ReturnsIs
<1>2. t.eos \/ StreamRefused(t)
  <2>1. CASE f \cap {"push", "mark"} # {}
    <3>1. (ch.failed \cup f) \cap {"push", "mark"} # {}
      BY <2>1
    <3> QED BY <1>1, <3>1 DEF StreamRefused
  <2> QED BY <1>1, <2>1
<1> QED BY <1>1, <1>2 DEF FedOK, NoStop

\* A step of the feeder or the audio thread of channel c, or of its worker.
LEMMA ThreadFed ==
  ASSUME SidInv, FedInv, NEW c \in Channels, NEW t, FedOK(t), chan' = [chan EXCEPT ![c] = t],
         chan[c].held \in {"player", "none"} => t.held = chan[c].held, UNCHANGED player
  PROVE  FedInv'
BY DEF SidInv, FedInv

LEMMA LoadsFed == ASSUME SidInv, FedInv, NEW c \in Channels, FeederLoads(c) PROVE FedInv'
<1> DEFINE ch == chan[c]
           frames == PlayLength(ch.current)
           t == [ch EXCEPT !.pc = "recv", !.total = frames, !.remaining = frames]
           u == [ch EXCEPT !.pc = "done"]
<1>1. ch \in ChanType /\ FeederOK(ch) /\ FedOK(ch) /\ ch.pc = "lease" /\ UNCHANGED player
      /\ (chan' = [chan EXCEPT ![c] = t] \/ chan' = [chan EXCEPT ![c] = u])
  BY DEF FeederLoads, SidInv, ChanOK, FedInv
<1>2. frames # 0
  BY <1>1, Played DEF ChanType
<1> HIDE DEF frames
<1>3. /\ t.held = ch.held /\ t.silenced = ch.silenced /\ t.eos = ch.eos
      /\ t.commands = ch.commands /\ t.total = frames /\ t.pc = "recv"
      /\ u.held = ch.held /\ u.silenced = ch.silenced /\ u.eos = ch.eos
      /\ u.commands = ch.commands /\ u.total = ch.total /\ u.pc = "done"
  <2> HIDE DEF ch
  <2> QED BY <1>1 DEF ChanType
<1>4. ch.total = 0
  <2> HIDE DEF ch
  <2> QED BY <1>1 DEF FeederOK
<1>5. chan' = [chan EXCEPT ![c] = t] => FedInv'
  <2> HIDE DEF t
  <2>1. FedOK(t)
    <3> HIDE DEF ch
    <3> QED BY <1>1, <1>2, <1>3, GoesOnFed DEF NoStop
  <2> QED BY <1>1, <1>3, <2>1, ThreadFed
<1>6. chan' = [chan EXCEPT ![c] = u] => FedInv'
  <2> HIDE DEF u
  <2>1. FedOK(u)
    <3> HIDE DEF ch
    <3> QED BY <1>1, <1>3, <1>4, GoesOnFed DEF NoStop
  <2> QED BY <1>1, <1>3, <2>1, ThreadFed
<1> QED BY <1>1, <1>5, <1>6

\* An engine that fails a command ends the stream, if it is not refused.
LEMMA EngineFed ==
  ASSUME SidInv, FedInv, NEW c \in Channels, chan[c].pc = "recv", chan[c].commands # <<>>,
         EngineFails(c, [chan[c] EXCEPT !.commands = Tail(@)]), UNCHANGED player
  PROVE  FedInv'
<1> DEFINE ch == chan[c]
           q == Tail(ch.commands)
<1>0. ch \in ChanType /\ FedOK(ch) /\ ch.pc = "recv" /\ ch.commands # <<>>
  BY DEF SidInv, ChanOK, FedInv
<1> DEFINE rest == [ch EXCEPT !.commands = q]
<1> HIDE DEF ch
<1>1. q \in Seq(Commands) /\ (NoStop(ch) => \A i \in DOMAIN q : q[i] # StopFeeder)
  <2> DEFINE s == ch.commands
  <2>1. s \in Seq(Commands) /\ s # <<>>
    BY <1>0 DEF ChanType
  <2> HIDE DEF s
  <2>2. /\ Tail(s) \in Seq(Commands) /\ Len(Tail(s)) = Len(s) - 1
        /\ \A i \in 1..Len(Tail(s)) : Tail(s)[i] = s[i + 1]
    BY <2>1, HeadTailProperties
  <2>3. Len(s) \in Nat /\ DOMAIN s = 1..Len(s) /\ DOMAIN Tail(s) = 1..Len(Tail(s))
    BY <2>1, <2>2, LenProperties
  <2>4. \A i \in DOMAIN Tail(s) : i + 1 \in DOMAIN s
    BY <2>2, <2>3
  <2> QED BY <2>2, <2>3, <2>4 DEF NoStop, s
<1> HIDE DEF q
<1>2. rest \in ChanType
  BY <1>0, <1>1 DEF ChanType
<1>3. /\ rest.held = ch.held /\ rest.silenced = ch.silenced /\ rest.eos = ch.eos
      /\ rest.commands = q /\ rest.total = ch.total /\ rest.pc = "recv"
  BY <1>0 DEF ChanType
<1>4. EngineFails(c, rest)
  BY DEF ch, q
<1> HIDE DEF rest
<1>5. FedOK(rest)
  <2>1. NoStop(ch) => NoStop(rest)
    BY <1>1, <1>3 DEF NoStop
  <2> QED BY <1>0, <1>3, <2>1, GoesOnFed
<1>6. /\ FedOK(MarksEnd(rest, {"engine"})) /\ MarksEnd(rest, {"engine"}).held = ch.held
      /\ FedOK(Returns(rest, {"engine", "mark"})) /\ Returns(rest, {"engine", "mark"}).held = ch.held
  BY <1>2, <1>3, <1>5, ReturnsFed DEF Failures
<1> QED BY <1>0, <1>2, <1>4, <1>6, EngineAs, ThreadFed DEF ch

\* Only a channel nobody holds, one told to stop and a failing engine make the
\* feeder return.
LEMMA CommandsFed ==
  ASSUME SidInv, FedInv, NEW c \in Channels, FeederReceives(c),
         ~(chan[c].commands # <<>> /\ EngineFails(c, [chan[c] EXCEPT !.commands = Tail(@)]))
  PROVE  FedInv'
<1> DEFINE ch == chan[c]
           q == Tail(ch.commands)
<1>1. ch \in ChanType /\ FeederOK(ch) /\ FedOK(ch) /\ ch.pc = "recv" /\ UNCHANGED player
  BY DEF FeederReceives, MayReceive, SidInv, ChanOK, FedInv
<1>2. PICK t : /\ chan' = [chan EXCEPT ![c] = t]
               /\ t.held = ch.held /\ t.silenced = ch.silenced /\ t.eos = ch.eos
               /\ t.total = ch.total
               /\ t.commands = ch.commands \/ (ch.commands # <<>> /\ t.commands = q)
               /\ t.pc \in {"feed", "reset", "store", "done"}
               /\ t.pc = "done" => \/ ch.held = "nowhere"
                                   \/ ch.commands # <<>> /\ Head(ch.commands) = StopFeeder
  <2> DEFINE rest == [ch EXCEPT !.commands = q]
             n == Head(ch.commands).subtune
             t1 == [ch EXCEPT !.pc = "done"]
             t2 == [ch EXCEPT !.pc = "feed"]
             t3 == [rest EXCEPT !.pc = "done"]
             t4 == TakesRestart(rest)
             t5 == TakesSubtune(rest, n)
             IsNext(t) ==
               /\ t.held = ch.held /\ t.silenced = ch.silenced /\ t.eos = ch.eos
               /\ t.total = ch.total
               /\ t.commands = ch.commands \/ (ch.commands # <<>> /\ t.commands = q)
               /\ t.pc \in {"feed", "reset", "store", "done"}
               /\ t.pc = "done" => \/ ch.held = "nowhere"
                                   \/ ch.commands # <<>> /\ Head(ch.commands) = StopFeeder
  <2>1. \/ ch.held = "nowhere" /\ chan' = [chan EXCEPT ![c] = t1]
        \/ chan' = [chan EXCEPT ![c] = t2]
        \/ ch.commands # <<>> /\ Head(ch.commands) = StopFeeder /\ chan' = [chan EXCEPT ![c] = t3]
        \/ ch.commands # <<>> /\ chan' = [chan EXCEPT ![c] = t4]
        \/ ch.commands # <<>> /\ chan' = [chan EXCEPT ![c] = t5]
    BY DEF FeederReceives, Exits
  <2> HIDE DEF ch, q, n
  <2>2. /\ t1.held = ch.held /\ t1.silenced = ch.silenced /\ t1.eos = ch.eos
        /\ t1.total = ch.total /\ t1.commands = ch.commands /\ t1.pc = "done"
        /\ t2.held = ch.held /\ t2.silenced = ch.silenced /\ t2.eos = ch.eos
        /\ t2.total = ch.total /\ t2.commands = ch.commands /\ t2.pc = "feed"
    BY <1>1 DEF ChanType
  <2>3. /\ t3.held = ch.held /\ t3.silenced = ch.silenced /\ t3.eos = ch.eos
        /\ t3.total = ch.total /\ t3.commands = q /\ t3.pc = "done"
    BY <1>1 DEF ChanType
  <2>4. /\ t4.held = ch.held /\ t4.silenced = ch.silenced /\ t4.eos = ch.eos
        /\ t4.total = ch.total /\ t4.commands = q /\ t4.pc = "reset"
        /\ t5.held = ch.held /\ t5.silenced = ch.silenced /\ t5.eos = ch.eos
        /\ t5.total = ch.total /\ t5.commands = q /\ t5.pc = "store"
    BY <1>1 DEF ChanType, TakesRestart, TakesSubtune
  <2> HIDE DEF t1, t2, t3, t4, t5
  <2>5. /\ ch.held = "nowhere" => IsNext(t1)
        /\ IsNext(t2)
    BY <2>2
  <2>7. ch.commands # <<>> /\ Head(ch.commands) = StopFeeder => IsNext(t3)
    BY <2>3
  <2>8. ch.commands # <<>> => IsNext(t4) /\ IsNext(t5)
    BY <2>4
  <2> HIDE DEF IsNext
  <2>6. \E t : chan' = [chan EXCEPT ![c] = t] /\ IsNext(t)
    BY <2>1, <2>5, <2>7, <2>8
  <2> QED BY <2>6 DEF IsNext, ch
<1>3. ch.commands # <<>> =>
        /\ Head(ch.commands) = StopFeeder => ~NoStop(ch)
        /\ \A i \in DOMAIN q : \E j \in DOMAIN ch.commands : q[i] = ch.commands[j]
  <2> SUFFICES ASSUME ch.commands # <<>>
               PROVE  /\ Head(ch.commands) = StopFeeder => ~NoStop(ch)
                      /\ \A i \in DOMAIN q : \E j \in DOMAIN ch.commands : q[i] = ch.commands[j]
    OBVIOUS
  <2> DEFINE s == ch.commands
  <2>1. s \in Seq(Commands) /\ s # <<>>
    BY <1>1 DEF ChanType
  <2> HIDE DEF s
  <2>2. /\ Tail(s) \in Seq(Commands) /\ Len(Tail(s)) = Len(s) - 1 /\ Head(s) = s[1]
        /\ \A i \in 1..Len(Tail(s)) : Tail(s)[i] = s[i + 1]
    BY <2>1, HeadTailProperties
  <2>3. Len(s) \in Nat /\ Len(s) # 0 /\ DOMAIN s = 1..Len(s) /\ DOMAIN Tail(s) = 1..Len(Tail(s))
    BY <2>1, <2>2, LenProperties, EmptySeq
  <2>4. 1 \in DOMAIN s
    BY <2>3
  <2>5. \A i \in DOMAIN Tail(s) : i + 1 \in DOMAIN s
    BY <2>2, <2>3
  <2> QED BY <2>2, <2>3, <2>4, <2>5 DEF NoStop, s
<1> HIDE DEF q
<1>4. FedOK(t)
  <2> HIDE DEF ch
  <2>1. NoStop(ch) => NoStop(t)
    BY <1>2, <1>3 DEF NoStop
  <2> QED BY <1>1, <1>2, <1>3, <2>1, GoesOnFed
<1> QED BY <1>1, <1>2, <1>4, ThreadFed

LEMMA ReceivesFed == ASSUME SidInv, FedInv, NEW c \in Channels, FeederReceives(c) PROVE FedInv'
<1> DEFINE fails == chan[c].commands # <<>> /\ EngineFails(c, [chan[c] EXCEPT !.commands = Tail(@)])
<1>1. CASE fails
  BY <1>1, EngineFed DEF FeederReceives, MayReceive
<1>2. CASE ~fails
  BY <1>2, CommandsFed
<1> QED BY <1>1, <1>2

LEMMA SwitchesFed ==
  ASSUME SidInv, FedInv, NEW c \in Channels,
         FeederStoresSubtune(c) \/ FeederSetsLength(c) \/ FeederResetsQueue(c)
  PROVE  FedInv'
<1> DEFINE ch == chan[c]
<1>1. ch \in ChanType /\ FeederOK(ch) /\ FedOK(ch) /\ UNCHANGED player
  BY DEF FeederStoresSubtune, FeederSetsLength, FeederResetsQueue, SidInv, ChanOK, FedInv
<1>2. PICK t : /\ chan' = [chan EXCEPT ![c] = t]
               /\ t.held = ch.held /\ t.silenced = ch.silenced /\ t.eos = ch.eos
               /\ t.commands = ch.commands /\ t.pc \in {"length", "reset", "feed"}
               /\ t.total = ch.total \/ t.total # 0
  <2>1. CASE FeederStoresSubtune(c)
    <3> DEFINE t == [ch EXCEPT !.current = ch.next, !.pc = "length"]
    <3>1. chan' = [chan EXCEPT ![c] = t]
      BY <2>1 DEF FeederStoresSubtune
    <3> HIDE DEF ch
    <3>2. /\ t.held = ch.held /\ t.silenced = ch.silenced /\ t.eos = ch.eos
          /\ t.commands = ch.commands /\ t.pc = "length" /\ t.total = ch.total
      BY <1>1 DEF ChanType
    <3> HIDE DEF t
    <3> QED BY <3>1, <3>2
  <2>2. CASE FeederSetsLength(c)
    <3> DEFINE t == SetsLength(ch)
               frames == PlayLength(ch.next)
    <3>1. chan' = [chan EXCEPT ![c] = t] /\ ch.pc = "length"
      BY <2>2 DEF FeederSetsLength
    <3> HIDE DEF ch
    <3>2. frames # 0
      BY <1>1, <3>1, Played DEF FeederOK
    <3> HIDE DEF frames
    <3>3. /\ t.held = ch.held /\ t.silenced = ch.silenced /\ t.eos = ch.eos
          /\ t.commands = ch.commands /\ t.pc = "reset" /\ t.total = frames
      BY <1>1 DEF ChanType, SetsLength, frames
    <3> HIDE DEF t
    <3> QED BY <3>1, <3>2, <3>3
  <2>3. CASE FeederResetsQueue(c)
    <3> DEFINE t == Emptied(ch)
               k == Kept(ch)
    <3>1. chan' = [chan EXCEPT ![c] = t] \/ chan' = [chan EXCEPT ![c] = k]
      BY <2>3 DEF FeederResetsQueue
    <3> HIDE DEF ch
    <3>2. /\ t.held = ch.held /\ t.silenced = ch.silenced /\ t.eos = ch.eos
          /\ t.commands = ch.commands /\ t.pc = "feed" /\ t.total = ch.total
      BY <1>1 DEF ChanType, Emptied
    <3>3. /\ k.held = ch.held /\ k.silenced = ch.silenced /\ k.eos = ch.eos
          /\ k.commands = ch.commands /\ k.pc = "feed" /\ k.total = ch.total
      BY <1>1 DEF ChanType, Kept
    <3> HIDE DEF t, k
    <3> QED BY <3>1, <3>2, <3>3
  <2> QED BY <2>1, <2>2, <2>3
<1>3. FedOK(t)
  <2> HIDE DEF ch
  <2> QED BY <1>1, <1>2, GoesOnFed DEF NoStop
<1> QED BY <1>1, <1>2, <1>3, ThreadFed

\* A feeder with nothing more to feed marks the end of the stream, and one whose
\* engine fails; only one the stream refuses leaves it open.
LEMMA FeedsFed == ASSUME SidInv, FedInv, NEW c \in Channels, FeederFeeds(c) PROVE FedInv'
<1> DEFINE ch == chan[c]
           g == [ch EXCEPT !.pc = "recv"]
           h == Pushed(ch)
<1>1. /\ ch \in ChanType /\ FedOK(ch) /\ ch.pc = "feed" /\ UNCHANGED player
      /\ \/ Ends(c, ch) \/ EngineFails(c, ch) \/ Exits(c, PushRefused(ch))
         \/ chan' = [chan EXCEPT ![c] = g] \/ chan' = [chan EXCEPT ![c] = h]
  BY DEF FeederFeeds, SidInv, ChanOK, FedInv
<1>2. ASSUME NEW t \in {g, h} PROVE FedOK(t) /\ t.held = ch.held
  <2> HIDE DEF ch
  <2>1. /\ t.held = ch.held /\ t.silenced = ch.silenced /\ t.commands = ch.commands
        /\ t.total = ch.total /\ t.pc = "recv" /\ t.eos = ch.eos
    BY <1>1 DEF ChanType, Pushed
  <2> HIDE DEF g, h
  <2> QED BY <1>1, <2>1, GoesOnFed DEF NoStop
<1>3. CASE chan' = [chan EXCEPT ![c] = g] \/ chan' = [chan EXCEPT ![c] = h]
  <2> HIDE DEF g, h
  <2> QED BY <1>1, <1>2, <1>3, ThreadFed
<1>4. CASE Ends(c, ch) \/ EngineFails(c, ch) \/ Exits(c, PushRefused(ch))
  <2> HIDE DEF ch
  <2>1. \/ \E f \in SUBSET {"engine"} : chan' = [chan EXCEPT ![c] = MarksEnd(ch, f)]
        \/ \E f \in SUBSET {"engine", "mark", "push"} :
             f \cap {"push", "mark"} # {} /\ chan' = [chan EXCEPT ![c] = Returns(ch, f)]
    BY <1>1, <1>4, EndsAs, EngineAs, PushAs
  <2>2. ASSUME NEW f \in SUBSET {"engine"}
        PROVE  FedOK(MarksEnd(ch, f)) /\ MarksEnd(ch, f).held = ch.held
    <3>1. f \in SUBSET Failures
      BY DEF Failures
    <3> QED BY <1>1, <3>1, ReturnsFed
  <2>3. ASSUME NEW f \in SUBSET {"engine", "mark", "push"}, f \cap {"push", "mark"} # {}
        PROVE  FedOK(Returns(ch, f)) /\ Returns(ch, f).held = ch.held
    <3>1. f \in SUBSET Failures
      BY DEF Failures
    <3> QED BY <1>1, <2>3, <3>1, ReturnsFed
  <2> QED BY <1>1, <2>1, <2>2, <2>3, ThreadFed DEF ch
<1> QED BY <1>1, <1>3, <1>4

LEMMA AudioFed ==
  ASSUME SidInv, FedInv, NEW c \in Channels, AudioPlays(c) \/ AudioEnds(c) PROVE FedInv'
<1> DEFINE ch == chan[c]
           t == [ch EXCEPT !.queue = Tail(ch.queue), !.heard = ch.heard + 1]
           u == [ch EXCEPT !.active = "stopped", !.ended = TRUE]
<1>1. /\ ch \in ChanType /\ FedOK(ch) /\ UNCHANGED player
      /\ chan' = [chan EXCEPT ![c] = t] \/ chan' = [chan EXCEPT ![c] = u]
  BY DEF AudioPlays, AudioEnds, SidInv, ChanOK, FedInv
<1>2. ASSUME NEW s \in {t, u}
      PROVE  /\ s.held = ch.held /\ s.silenced = ch.silenced /\ s.commands = ch.commands
             /\ s.total = ch.total /\ s.pc = ch.pc /\ s.eos = ch.eos /\ s.failed = ch.failed
  <2> HIDE DEF ch
  <2> QED BY <1>1 DEF ChanType
<1> HIDE DEF t, u
<1>3. ASSUME NEW s \in {t, u} PROVE FedOK(s)
  <2>1. /\ s.held = ch.held /\ s.silenced = ch.silenced /\ s.commands = ch.commands
        /\ s.total = ch.total /\ s.pc = ch.pc /\ s.eos = ch.eos /\ s.failed = ch.failed
    BY <1>2
  <2> HIDE DEF ch
  <2> QED BY <1>1, <2>1, GoesOnFed DEF NoStop
<1> QED BY <1>1, <1>2, <1>3, ThreadFed

\* Nobody waits for what a dropped channel plays.
LEMMA DroppedFed ==
  ASSUME NEW ch \in ChanType, FedOK(ch), ch.held # "none"
  PROVE  Dropped(ch).held = "nowhere" /\ FedOK(Dropped(ch))
<1> DEFINE t == Dropped(ch)
<1>1. t.held = "nowhere" /\ t.pc = ch.pc
  BY DEF Dropped, ChanType
<1> HIDE DEF t
<1> QED BY <1>1 DEF FedOK, t

LEMMA WorkerFed == ASSUME SidInv, FedInv, NEW c \in Channels, WorkerFinishes(c) PROVE FedInv'
<1> DEFINE ch == chan[c]
           t == [ch EXCEPT !.held = "message"]
<1>1. /\ ch \in ChanType /\ FedOK(ch) /\ UNCHANGED player /\ ch.held = "worker" /\ ch.pc # "lease"
      /\ chan' = [chan EXCEPT ![c] = t] \/ chan' = [chan EXCEPT ![c] = Dropped(ch)]
  BY DEF WorkerFinishes, Abandoned, SidInv, ChanOK, FedInv
<1>2. /\ t.held = "message" /\ t.silenced = ch.silenced /\ t.commands = ch.commands
      /\ t.total = ch.total /\ t.pc = ch.pc /\ t.eos = ch.eos /\ t.failed = ch.failed
  <2> HIDE DEF ch
  <2> QED BY <1>1 DEF ChanType
<1> HIDE DEF t
<1>3. FedOK(t)
  <2> HIDE DEF ch
  <2> QED BY <1>1, <1>2 DEF FedOK, NoStop, StreamRefused
<1> QED BY <1>1, <1>2, <1>3, DroppedFed, ThreadFed

----------------------------------------------------------------------------
WorldFed(w) ==
  /\ \A c \in Channels : FedOK(w.chan[c]) /\ (c > w.player.opened => w.chan[c].held = "none")
  /\ w.player.current # NoChannel => w.chan[w.player.current].held = "player"

LEMMA DropCurrentFed ==
  ASSUME NEW w, Calm(w), WorldFed(w) PROVE WorldFed(DropCurrent(w))
<1> DEFINE c == w.player.current
           p == [w.player EXCEPT !.current = NoChannel, !.shown = Unknown]
           t == Dropped(w.chan[c])
           d == [w.chan EXCEPT ![c] = t]
<1>1. CASE c = NoChannel
  BY <1>1 DEF DropCurrent
<1>2. CASE c # NoChannel
  <2>1. c \in Channels /\ w.chan[c] \in ChanType /\ w.player \in PlayerType /\ DOMAIN w.chan = Channels
    BY <1>2 DEF Calm, WorldOK, PlayerType, ChanOK
  <2>2. t.held = "nowhere" /\ FedOK(t) /\ w.chan[c].held = "player"
    BY <1>2, <2>1, DroppedFed DEF WorldFed
  <2>3. p.opened = w.player.opened /\ p.current = NoChannel
    BY <2>1 DEF PlayerType
  <2>4. DropCurrent(w) = [chan |-> d, player |-> p]
    BY <1>2 DEF DropCurrent
  <2> HIDE DEF t, p
  <2>5. \A x \in Channels : FedOK(d[x]) /\ (x > p.opened => d[x].held = "none")
    BY <2>1, <2>2, <2>3 DEF WorldFed
  <2> HIDE DEF d
  <2> QED BY <2>3, <2>4, <2>5 DEF WorldFed
<1> QED BY <1>1, <1>2

LEMMA StartOpenFed ==
  ASSUME NEW w, Calm(w), WorldFed(w), w.player.opened < MaxOpens PROVE WorldFed(StartOpen(w))
<1> DEFINE c == w.player.opened + 1
           p == w.player.pending
           left == IF p # NoChannel /\ w.chan[p].held = "message"
                   THEN [w.chan EXCEPT ![p] = Dropped(w.chan[p])] ELSE w.chan
           b == [Fresh EXCEPT !.held = "worker", !.pc = "lease"]
           d == [left EXCEPT ![c] = b]
           q == [w.player EXCEPT !.pending = c, !.opened = c]
<1>1. /\ w.player \in PlayerType /\ DOMAIN w.chan = Channels
      /\ \A x \in Channels : w.chan[x] \in ChanType
  BY DEF Calm, WorldOK, ChanOK
<1>2. c \in Channels /\ w.player.opened \in Nat /\ c = w.player.opened + 1
  <2>1. w.player.opened \in 0..MaxOpens
    BY <1>1 DEF PlayerType
  <2> QED BY <2>1, SidBoundsAssumption DEF Channels
<1>3. /\ DOMAIN left = Channels
      /\ \A x \in Channels : /\ FedOK(left[x])
                             /\ w.chan[x].held \in {"none", "player"} => left[x].held = w.chan[x].held
  <2>1. ASSUME p # NoChannel, w.chan[p].held = "message"
        PROVE  p \in Channels /\ FedOK(Dropped(w.chan[p]))
    <3>1. p \in Channels
      BY <1>1, <2>1 DEF PlayerType
    <3> QED BY <1>1, <2>1, <3>1, DroppedFed DEF WorldFed
  <2> QED BY <1>1, <2>1 DEF WorldFed
<1>4. FedOK(b)
  <2>1. b.held = "worker" /\ b.pc = "lease" /\ b.commands = <<>> /\ DOMAIN <<>> = {}
    BY EmptySeq DEF Fresh
  <2> HIDE DEF b
  <2> QED BY <2>1 DEF FedOK, NoStop
<1>5. q.opened = c /\ q.current = w.player.current
  <2> HIDE DEF c
  <2> QED BY <1>1 DEF PlayerType
<1>6. StartOpen(w) = [chan |-> d, player |-> q]
  BY DEF StartOpen
<1> HIDE DEF left, b, q, c
<1>7. \A x \in Channels : FedOK(d[x])
  BY <1>2, <1>3, <1>4
<1>8. \A x \in Channels : x > c => d[x].held = "none"
  <2> SUFFICES ASSUME NEW x \in Channels, x > c PROVE d[x].held = "none"
    OBVIOUS
  <2>1. x > w.player.opened /\ x # c
    BY <1>2 DEF Channels
  <2> QED BY <1>2, <1>3, <2>1 DEF WorldFed
<1>9. w.player.current # NoChannel => d[w.player.current].held = "player"
  <2> SUFFICES ASSUME w.player.current # NoChannel PROVE d[w.player.current].held = "player"
    OBVIOUS
  <2>1. w.player.current \in Channels /\ w.chan[w.player.current].held = "player"
    BY <1>1 DEF WorldFed, PlayerType
  <2>2. w.player.current # c
    <3>1. c > w.player.opened
      BY <1>2
    <3> QED BY <1>2, <2>1, <3>1 DEF WorldFed
  <2> QED BY <1>3, <2>1, <2>2
<1> HIDE DEF d
<1> QED BY <1>5, <1>6, <1>7, <1>8, <1>9 DEF WorldFed

LEMMA ProcessFed ==
  ASSUME NEW w, Calm(w), WorldFed(w) PROVE WorldFed(ProcessPendingOpen(w))
<1> DEFINE c == w.player.pending
           ch == w.chan[c]
           f == [ch EXCEPT !.held = "nowhere"]
           g == [ch EXCEPT !.held = "player", !.active = "playing"]
           fp == [w.player EXCEPT !.pending = NoChannel, !.state = "Stopped"]
           gp == [w.player EXCEPT !.pending = NoChannel, !.current = c, !.state = "Playing",
                                  !.shown = ShownDuration(ch)]
<1>1. w.player \in PlayerType /\ DOMAIN w.chan = Channels
      /\ \A x \in Channels : ChanOK(w.chan[x])
  BY DEF Calm, WorldOK
<1>2. CASE c = NoChannel \/ ch.held # "message"
  BY <1>2 DEF ProcessPendingOpen
<1>3. CASE ~(c = NoChannel \/ ch.held # "message")
  <2>1. c \in Channels /\ ch \in ChanType /\ FeederOK(ch) /\ FedOK(ch) /\ ch.held = "message"
    BY <1>1, <1>3 DEF PlayerType, ChanOK, WorldFed
  <2>2. /\ f.held = "nowhere" /\ f.pc = ch.pc
        /\ g.held = "player" /\ g.pc = ch.pc /\ g.total = ch.total /\ g.eos = ch.eos
        /\ g.silenced = ch.silenced /\ g.commands = ch.commands /\ g.failed = ch.failed
    <3> HIDE DEF ch
    <3> QED BY <2>1 DEF ChanType
  <2>3. /\ fp.opened = w.player.opened /\ fp.current = w.player.current
        /\ gp.opened = w.player.opened /\ gp.current = c
    <3> HIDE DEF c, ch
    <3> QED BY <1>1 DEF PlayerType
  <2>4. ProcessPendingOpen(w) = IF Failed(ch) THEN [chan |-> [w.chan EXCEPT ![c] = f], player |-> fp]
                                ELSE [chan |-> [w.chan EXCEPT ![c] = g], player |-> gp]
    BY <1>3 DEF ProcessPendingOpen
  <2>5. ~(c > w.player.opened)
    BY <2>1 DEF WorldFed
  <2> HIDE DEF f, g, fp, gp
  <2>6. FedOK(f) /\ (~Failed(ch) => FedOK(g))
    <3> HIDE DEF ch
    <3> QED BY <2>1, <2>2 DEF FedOK, NoStop, Failed, FeederOK, StreamRefused
  <2>7. w.player.current # NoChannel => w.player.current \in Channels /\ w.player.current # c
    BY <1>1, <2>1 DEF WorldFed, PlayerType
  <2>8. CASE Failed(ch)
    <3> DEFINE d == [w.chan EXCEPT ![c] = f]
    <3>1. ProcessPendingOpen(w) = [chan |-> d, player |-> fp]
      BY <2>4, <2>8
    <3>2. \A x \in Channels : FedOK(d[x]) /\ (x > fp.opened => d[x].held = "none")
      BY <1>1, <2>1, <2>3, <2>5, <2>6 DEF WorldFed
    <3>3. fp.current # NoChannel => d[fp.current].held = "player"
      BY <1>1, <2>1, <2>3, <2>7 DEF WorldFed
    <3> HIDE DEF d
    <3> QED BY <3>1, <3>2, <3>3 DEF WorldFed
  <2>9. CASE ~Failed(ch)
    <3> DEFINE d == [w.chan EXCEPT ![c] = g]
    <3>1. ProcessPendingOpen(w) = [chan |-> d, player |-> gp]
      BY <2>4, <2>9
    <3>2. \A x \in Channels : FedOK(d[x]) /\ (x > gp.opened => d[x].held = "none")
      BY <1>1, <2>1, <2>3, <2>5, <2>6, <2>9 DEF WorldFed
    <3>3. d[gp.current].held = "player"
      BY <1>1, <2>1, <2>2, <2>3
    <3> HIDE DEF d
    <3> QED BY <3>1, <3>2, <3>3 DEF WorldFed
  <2> QED BY <2>8, <2>9
<1> QED BY <1>2, <1>3

LEMMA BecomesFed == ASSUME NEW w, WorldFed(w), Becomes(w) PROVE FedInv'
BY DEF WorldFed, Becomes, FedInv

LEMMA WorldIsFed == FedInv => WorldFed(World)
BY DEF FedInv, WorldFed, World

LEMMA TickFed == ASSUME SidInv, FedInv, Tick PROVE FedInv'
<1> DEFINE w == ProcessPendingOpen(World)
<1>1. Calm(w) /\ WorldFed(w)
  BY WorldIs, ProcessOK, WorldIsFed, ProcessFed DEF Tick
<1>2. PICK after \in IF signal /\ w.player.current # NoChannel
                     THEN OpenNextOrStop(DropCurrent(w)) ELSE {w} : Becomes(after)
  BY DEF Tick
<1> HIDE DEF w
<1>3. Calm(DropCurrent(w)) /\ WorldFed(DropCurrent(w))
  BY <1>1, DropCurrentOK, DropCurrentFed
<1>4. ASSUME NEW x, Calm(x), WorldFed(x), NEW y \in OpenNextOrStop(x) PROVE WorldFed(y)
  <2>1. CASE y = StartOpen(x) /\ x.player.opened < MaxOpens
    BY <1>4, <2>1, StartOpenFed
  <2>2. CASE y = [x EXCEPT !.player.state = "Stopped"]
    <3> DEFINE p == [x.player EXCEPT !.state = "Stopped"]
    <3>1. p.opened = x.player.opened /\ p.current = x.player.current
      BY <1>4 DEF Calm, WorldOK, PlayerType
    <3>2. y.chan = x.chan /\ y.player = p
      BY <1>4, <2>2 DEF Calm, WorldOK
    <3> HIDE DEF p
    <3> QED BY <1>4, <3>1, <3>2 DEF WorldFed
  <2> QED BY <1>4, <2>1, <2>2 DEF OpenNextOrStop
<1>5. WorldFed(after)
  BY <1>1, <1>2, <1>3, <1>4
<1> QED BY <1>2, <1>5, BecomesFed

LEMMA OpenTrackFed == ASSUME SidInv, FedInv, OpenTrack PROVE FedInv'
<1>1. Calm(World) /\ Becomes(StartOpen(DropCurrent(World))) /\ player.opened < MaxOpens
  BY WorldIs DEF OpenTrack, Call
<1>2. /\ Calm(DropCurrent(World)) /\ WorldFed(DropCurrent(World))
      /\ DropCurrent(World).player.opened < MaxOpens
  <2>1. DropCurrent(World).player.opened = player.opened
    BY DEF DropCurrent, World, SidInv, PlayerIs, PlayerType
  <2> QED BY <1>1, <2>1, DropCurrentOK, WorldIsFed, DropCurrentFed
<1> QED BY <1>1, <1>2, StartOpenFed, BecomesFed

\* A call on the channel the player holds.
LEMMA CallFed ==
  ASSUME SidInv, FedInv, NEW c \in Channels, c = player.current, NEW t, FedOK(t),
         t.held = chan[c].held, chan' = [chan EXCEPT ![c] = t],
         player'.opened = player.opened, player'.current = player.current
  PROVE  FedInv'
BY DEF SidInv, FedInv

LEMMA PlayPauseFed == ASSUME SidInv, FedInv, PlayPause PROVE FedInv'
<1> DEFINE c == player.current
           ch == chan[c]
<1>1. c \in Channels /\ ch \in ChanType /\ FedOK(ch) /\ player \in PlayerType
  BY CurrentIs DEF PlayPause, ChanOK, SidInv, PlayerIs, FedInv
<1>2. PICK active, state :
        /\ chan' = [chan EXCEPT ![c] = [ch EXCEPT !.active = active]]
        /\ player' = [player EXCEPT !.state = state]
  BY DEF PlayPause, Becomes
<1> DEFINE t == [ch EXCEPT !.active = active]
<1>3. player'.opened = player.opened /\ player'.current = player.current
  BY <1>1, <1>2 DEF PlayerType
<1>4. /\ t.held = ch.held /\ t.silenced = ch.silenced /\ t.commands = ch.commands
      /\ t.total = ch.total /\ t.pc = ch.pc /\ t.eos = ch.eos /\ t.failed = ch.failed
  <2> HIDE DEF ch
  <2> QED BY <1>1 DEF ChanType
<1>5. chan' = [chan EXCEPT ![c] = t]
  BY <1>2
<1> HIDE DEF t
<1>6. FedOK(t)
  <2> HIDE DEF ch
  <2> QED BY <1>1, <1>4, GoesOnFed DEF NoStop
<1> QED BY <1>1, <1>3, <1>4, <1>5, <1>6, CallFed

LEMMA StopFed == ASSUME SidInv, FedInv, Stop PROVE FedInv'
<1> DEFINE c == player.current
           ch == chan[c]
<1>1. player'.opened = player.opened /\ player'.current = player.current
  BY DEF Stop, SidInv, PlayerIs, PlayerType
<1>2. CASE c = NoChannel
  BY <1>1, <1>2 DEF Stop, FedInv
<1>3. CASE c # NoChannel
  <2>1. c \in Channels /\ ch \in ChanType /\ FedOK(ch)
    BY <1>3, CurrentIs DEF ChanOK, FedInv
  <2>2. PICK queue : chan' = [chan EXCEPT ![c] = Silenced(ch, queue)]
    BY <1>3 DEF Stop
  <2> DEFINE t == Silenced(ch, queue)
  <2>3. t.held = ch.held /\ t.silenced /\ t.pc = ch.pc /\ t.total = ch.total
    <3> HIDE DEF ch
    <3> QED BY <2>1 DEF Silenced, ChanType
  <2>4. chan' = [chan EXCEPT ![c] = t]
    BY <2>2
  <2> HIDE DEF t
  <2>5. FedOK(t)
    <3> HIDE DEF ch
    <3> QED BY <2>1, <2>3 DEF FedOK
  <2> QED BY <1>1, <2>1, <2>3, <2>4, <2>5, CallFed
<1> QED BY <1>2, <1>3

LEMMA SentFed ==
  ASSUME SidInv, FedInv, player.current # NoChannel, NEW m \in Commands, m # StopFeeder,
         chan' = [chan EXCEPT ![player.current].commands = Append(@, m)],
         player'.opened = player.opened, player'.current = player.current
  PROVE  FedInv'
<1> DEFINE c == player.current
           ch == chan[c]
           q == Append(ch.commands, m)
           t == [ch EXCEPT !.commands = q]
<1>1. c \in Channels /\ ch \in ChanType /\ FedOK(ch)
  BY CurrentIs DEF ChanOK, FedInv
<1>2. chan' = [chan EXCEPT ![c] = t]
  OBVIOUS
<1> HIDE DEF ch
<1>3. \A i \in DOMAIN q : q[i] = m \/ (i \in DOMAIN ch.commands /\ q[i] = ch.commands[i])
  <2> DEFINE s == ch.commands
  <2>1. s \in Seq(Commands)
    BY <1>1 DEF ChanType
  <2> HIDE DEF s
  <2>2. /\ Len(Append(s, m)) = Len(s) + 1 /\ Append(s, m)[Len(s) + 1] = m
        /\ \A i \in 1..Len(s) : Append(s, m)[i] = s[i]
        /\ Append(s, m) \in Seq(Commands)
    BY <2>1, AppendProperties
  <2>3. DOMAIN s = 1..Len(s) /\ Len(s) \in Nat /\ DOMAIN Append(s, m) = 1..(Len(s) + 1)
    BY <2>1, <2>2, LenProperties
  <2>4. \A i \in 1..(Len(s) + 1) : i = Len(s) + 1 \/ i \in 1..Len(s)
    BY <2>3
  <2>5. ASSUME NEW i \in DOMAIN Append(s, m)
        PROVE  Append(s, m)[i] = m \/ (i \in DOMAIN s /\ Append(s, m)[i] = s[i])
    <3>1. CASE i = Len(s) + 1
      BY <2>2, <3>1
    <3>2. CASE i \in 1..Len(s)
      BY <2>2, <2>3, <3>2
    <3> QED BY <2>3, <2>4, <3>1, <3>2
  <2> QED BY <2>5 DEF s
<1> HIDE DEF q
<1>4. /\ t.held = ch.held /\ t.silenced = ch.silenced /\ t.commands = q
      /\ t.total = ch.total /\ t.pc = ch.pc /\ t.eos = ch.eos /\ t.failed = ch.failed
  BY <1>1 DEF ChanType
<1> HIDE DEF t
<1>5. NoStop(ch) => NoStop(t)
  BY <1>3, <1>4 DEF NoStop
<1>6. FedOK(t)
  BY <1>1, <1>4, <1>5, GoesOnFed
<1> QED BY <1>1, <1>2, <1>4, <1>6, CallFed DEF ch

LEMMA CallsFed ==
  ASSUME SidInv, FedInv,
         SeekToStart \/ SelectRefreshes \/ \E n \in 0..(Len(Lengths) + 1) : SelectSubsong(n)
  PROVE  FedInv'
<1>1. player \in PlayerType
  BY DEF SidInv, PlayerIs
<1>2. CASE SeekToStart
  BY <1>2, SentFed DEF SeekToStart, Commands, Restart, StopFeeder
<1>3. ASSUME NEW n \in 0..(Len(Lengths) + 1), SelectSubsong(n) PROVE FedInv'
  <2>1. Clamped(n) \in Subtunes
    <3>1. Len(Lengths) \in Nat /\ Len(Lengths) > 0 /\ Subtunes = 1..Len(Lengths)
      BY LengthsAssumption, LenProperties DEF Subtunes
    <3> QED BY <3>1 DEF Clamped
  <2>2. SelectSubtune(Clamped(n)) \in Commands /\ SelectSubtune(Clamped(n)) # StopFeeder
    <3>1. SelectSubtune(Clamped(n)).type # StopFeeder.type
      BY DEF SelectSubtune, StopFeeder
    <3> QED BY <2>1, <3>1 DEF Commands
  <2>3. player'.opened = player.opened /\ player'.current = player.current
    BY <1>1, <1>3 DEF SelectSubsong, PlayerType
  <2> QED BY <1>3, <2>2, <2>3, SentFed DEF SelectSubsong
<1>4. CASE SelectRefreshes
  <2>1. player'.opened = player.opened /\ player'.current = player.current
    BY <1>1, <1>4 DEF SelectRefreshes, PlayerType
  <2> QED BY <1>4, <2>1 DEF SelectRefreshes, FedInv
<1> QED BY <1>2, <1>3, <1>4

LEMMA InitFed == Init => FedInv
<1> SUFFICES ASSUME Init PROVE FedInv
  OBVIOUS
<1>1. Fresh.held = "none" /\ Fresh.pc = "none" /\ Fresh.commands = <<>> /\ DOMAIN <<>> = {}
  BY EmptySeq DEF Fresh
<1>2. FedOK(Fresh)
  BY <1>1 DEF FedOK, NoStop
<1> HIDE DEF Fresh
<1> QED BY <1>1, <1>2 DEF Init, FedInv

LEMMA NextFed == SidInv /\ FedInv /\ [Next]_vars => FedInv'
<1> SUFFICES ASSUME SidInv, FedInv, [Next]_vars PROVE FedInv'
  OBVIOUS
<1>1. CASE UNCHANGED vars
  BY <1>1 DEF vars, FedInv
<1>2. CASE OpenTrack \/ PlayPause \/ Stop \/ SeekToStart \/ SelectRefreshes \/ Tick
  BY <1>2, OpenTrackFed, PlayPauseFed, StopFed, CallsFed, TickFed
<1>3. ASSUME NEW n \in 0..(Len(Lengths) + 1), SelectSubsong(n) PROVE FedInv'
  BY <1>3, CallsFed
<1>4. ASSUME NEW c \in Channels, Feeder(c) \/ WorkerFinishes(c) \/ AudioPlays(c) \/ AudioEnds(c)
      PROVE  FedInv'
  BY <1>4, LoadsFed, ReceivesFed, SwitchesFed, FeedsFed, WorkerFed, AudioFed DEF Feeder
<1> QED BY <1>1, <1>2, <1>3, <1>4 DEF Next

\* PlayingIsFed of a channel that nobody told to stop and whose stream took all
\* it was given.
PlayingIsFedUntilStopped ==
  \A c \in Channels :
    player.current = c /\ chan[c].active = "playing" /\ ~chan[c].silenced
      => \/ chan[c].pc # "done" \/ chan[c].queue # <<>> \/ chan[c].eos
         \/ StreamRefused(chan[c])

LEMMA FedIsFed == FedInv => PlayingIsFedUntilStopped
<1> SUFFICES ASSUME FedInv PROVE PlayingIsFedUntilStopped
  OBVIOUS
<1>1. ASSUME NEW c \in Channels, player.current = c, ~chan[c].silenced,
             ~StreamRefused(chan[c]), chan[c].pc = "done"
      PROVE  chan[c].eos
  <2>1. c # NoChannel
    BY DEF Channels, NoChannel
  <2> QED BY <1>1, <2>1 DEF FedInv, FedOK
<1> QED BY <1>1 DEF PlayingIsFedUntilStopped

\* A channel that plays has something to play or has marked its end, unless it
\* was stopped or its stream refused a chunk or the mark: whatever was selected,
\* restarted, opened and dropped, and also when the engine fails, a feeder whose
\* channel the player holds returns without the mark for one of three reasons
\* only: the stop, which ends it for good (channel.rs:211), a failed push
\* (channel.rs:394) and a failed end_of_stream (channel.rs:349, 358, 375, 386).
THEOREM OnlyStopOrRefusalStarves == Spec => []PlayingIsFedUntilStopped
BY InitOK, NextOK, InitFed, NextFed, FedIsFed, PTL DEF Spec

=============================================================================
