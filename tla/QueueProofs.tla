---------------------------- MODULE QueueProofs ----------------------------
(***************************************************************************)
(* What holds of the explicit queue for every set of tracks and every      *)
(* length of list.                                                         *)
(***************************************************************************)
EXTENDS QueueSpec, FiniteSetTheorems, SequenceTheorems, TLAPS

(***************************************************************************)
(* Sequences.                                                              *)
(***************************************************************************)

\* A function on 1..n is a sequence of length n.
LEMMA FunctionIsSeq ==
  ASSUME NEW S, NEW n \in Nat, NEW f \in [1..n -> S]
  PROVE  f \in Seq(S) /\ Len(f) = n
<1>1. f \in Seq(S)
  BY SeqDef
<1>2. DOMAIN f = 1..Len(f) /\ Len(f) \in Nat
  BY <1>1, LenProperties
<1>3. 1..Len(f) = 1..n
  BY <1>2
<1>4. Len(f) = n
  BY <1>2, <1>3
<1>5. QED
  BY <1>1, <1>4

\* What RemoveAt leaves, element by element.
LEMMA RemoveAtProperties ==
  ASSUME NEW S, NEW s \in Seq(S), NEW i \in 1..Len(s)
  PROVE  /\ RemoveAt(s, i) \in Seq(S)
         /\ Len(RemoveAt(s, i)) = Len(s) - 1
         /\ \A k \in 1..(Len(s) - 1) :
              RemoveAt(s, i)[k] = IF k < i THEN s[k] ELSE s[k + 1]
<1> DEFINE front == SubSeq(s, 1, i - 1)
           back  == SubSeq(s, i + 1, Len(s))
<1>1. Len(s) \in Nat /\ \A k \in 1..Len(s) : s[k] \in S
  BY LenProperties, ElementOfSeq
<1>2. front \in Seq(S) /\ Len(front) = i - 1
      /\ \A k \in 1..(i - 1) : front[k] = s[k]
  BY <1>1, SubSeqProperties
<1>3. back \in Seq(S) /\ Len(back) = Len(s) - i
      /\ \A k \in 1..(Len(s) - i) : back[k] = s[i + k]
  BY <1>1, SubSeqProperties
<1>4. RemoveAt(s, i) = front \o back
  BY DEF RemoveAt
<1> HIDE DEF front, back
<1>5. /\ front \o back \in Seq(S)
      /\ Len(front \o back) = Len(front) + Len(back)
      /\ \A k \in 1..(Len(front) + Len(back)) :
           (front \o back)[k] =
             IF k <= Len(front) THEN front[k] ELSE back[k - Len(front)]
  BY <1>2, <1>3, ConcatProperties
<1>6. Len(front) + Len(back) = Len(s) - 1
  BY <1>1, <1>2, <1>3
<1> DEFINE both == front \o back
<1>8. /\ both \in Seq(S)
      /\ Len(both) = Len(s) - 1
      /\ \A k \in 1..(Len(s) - 1) :
           both[k] = IF k <= i - 1 THEN front[k] ELSE back[k - (i - 1)]
  BY <1>5, <1>6, <1>2
<1>9. both = RemoveAt(s, i)
  BY <1>4
<1> HIDE DEF both
<1>10. ASSUME NEW k \in 1..(Len(s) - 1)
       PROVE  both[k] = IF k < i THEN s[k] ELSE s[k + 1]
  <2>1. CASE k < i
    BY <1>1, <1>2, <1>8, <2>1
  <2>2. CASE k >= i
    <3>1. k - (i - 1) \in 1..(Len(s) - i) /\ i + (k - (i - 1)) = k + 1
      BY <1>1, <2>2
    <3>2. back[k - (i - 1)] = s[k + 1]
      BY <1>3, <3>1
    <3>3. QED
      BY <1>1, <1>8, <2>2, <3>2
  <2>3. QED
    BY <1>1, <2>1, <2>2
<1>11. QED
  BY <1>8, <1>9, <1>10

(***************************************************************************)
(* Orders.                                                                 *)
(***************************************************************************)

\* is_permutation checks the length, the range and that nothing repeats;
\* by the pigeonhole principle every index then has a slot.
LEMMA PermutationIsOnto ==
  ASSUME NEW n \in Nat, NEW order \in Seq(Nat), IsPermutation(order, n),
         NEW index \in 1..n
  PROVE  \E s \in 1..n : order[s] = index
<1>1. order \in [1..n -> 1..n]
  <2>1. Len(order) = n /\ order \in [1..Len(order) -> Nat]
    BY LenProperties DEF IsPermutation
  <2>2. QED
    BY <2>1 DEF IsPermutation
<1>2. order \in Injection(1..n, 1..n)
  BY <1>1 DEF IsPermutation, Injection, IsInjective
<1>3. IsFiniteSet(1..n)
  BY FS_Interval
<1>4. order \in Surjection(1..n, 1..n)
  BY <1>2, <1>3, FS_Injection
<1>5. QED
  BY <1>4 DEF Surjection

\* The slot of an index is where the order holds it.
LEMMA SlotOfProperties ==
  ASSUME NEW n \in Nat, NEW order \in Seq(Nat), IsPermutation(order, n),
         NEW index \in 1..n
  PROVE  SlotOf(order, index) \in 1..n /\ order[SlotOf(order, index)] = index
<1>1. Len(order) = n
  BY DEF IsPermutation
<1>2. QED
  BY <1>1, PermutationIsOnto DEF SlotOf

LEMMA IdentityIsPermutation ==
  ASSUME NEW n \in Nat
  PROVE  Identity(n) \in Seq(Nat) /\ IsPermutation(Identity(n), n)
<1>1. Identity(n) \in [1..n -> Nat]
  BY DEF Identity
<1>2. Identity(n) \in Seq(Nat) /\ Len(Identity(n)) = n
  BY <1>1, FunctionIsSeq
<1>3. QED
  BY <1>2 DEF IsPermutation, Identity

LEMMA OrdersArePermutations ==
  ASSUME NEW n \in Nat, NEW order \in Orders(n)
  PROVE  order \in Seq(Nat) /\ IsPermutation(order, n)
<1>1. order \in [1..n -> Nat] /\ IsPermutation(order, n)
  BY DEF Orders
<1>2. QED
  BY <1>1, FunctionIsSeq

\* Pushing the next index on a permutation gives a permutation.
LEMMA AppendIsPermutation ==
  ASSUME NEW n \in Nat, NEW order \in Seq(Nat), IsPermutation(order, n)
  PROVE  /\ Append(order, n + 1) \in Seq(Nat)
         /\ IsPermutation(Append(order, n + 1), n + 1)
<1> DEFINE pushed == Append(order, n + 1)
<1>1. /\ pushed \in Seq(Nat)
      /\ Len(pushed) = n + 1
      /\ \A s \in 1..n : pushed[s] = order[s]
      /\ pushed[n + 1] = n + 1
  BY AppendProperties DEF IsPermutation
<1> HIDE DEF pushed
<1>2. \A s \in 1..n : order[s] \in 1..n
  BY DEF IsPermutation
<1>3. \A s \in 1..(n + 1) : pushed[s] \in 1..(n + 1)
  BY <1>1, <1>2
<1>4. ASSUME NEW s \in 1..(n + 1), NEW t \in 1..(n + 1), pushed[s] = pushed[t]
      PROVE  s = t
  <2>1. CASE s \in 1..n /\ t \in 1..n
    BY <1>1, <1>4, <2>1 DEF IsPermutation
  <2>2. CASE s = n + 1 \/ t = n + 1
    BY <1>1, <1>2, <1>4, <2>2
  <2>3. QED
    BY <2>1, <2>2
<1>5. IsPermutation(pushed, n + 1)
  BY <1>1, <1>3, <1>4 DEF IsPermutation
<1>6. QED
  BY <1>1, <1>5 DEF pushed

\* Pushing the next index on an identity order gives the next one.
LEMMA IdentityAppended ==
  ASSUME NEW n \in Nat
  PROVE  Append(Identity(n), n + 1) = Identity(n + 1)
<1>1. Identity(n) \in Seq(Nat) /\ Len(Identity(n)) = n
  BY IdentityIsPermutation DEF IsPermutation
<1>2. /\ Append(Identity(n), n + 1) \in Seq(Nat)
      /\ Len(Append(Identity(n), n + 1)) = n + 1
      /\ \A s \in 1..n : Append(Identity(n), n + 1)[s] = s
      /\ Append(Identity(n), n + 1)[n + 1] = n + 1
  BY <1>1, AppendProperties DEF Identity
<1>3. Identity(n + 1) \in Seq(Nat) /\ Len(Identity(n + 1)) = n + 1
  BY IdentityIsPermutation DEF IsPermutation
<1>4. \A s \in 1..(n + 1) : Append(Identity(n), n + 1)[s] = Identity(n + 1)[s]
  BY <1>2 DEF Identity
<1>5. QED
  BY <1>2, <1>3, <1>4, SeqEqual

(***************************************************************************)
(* What an edit does to the order.                                         *)
(***************************************************************************)

\* Taking out the slot of an index and closing the gap in the numbers, as
\* remove does, gives a permutation of one index less.
LEMMA RemovedIsPermutation ==
  ASSUME NEW n \in Nat, NEW order \in Seq(Nat), IsPermutation(order, n),
         NEW slot \in 1..n
  PROVE  /\ Len(RemoveAt(order, slot)) = n - 1
         /\ CloseGap(RemoveAt(order, slot), order[slot]) \in Seq(Nat)
         /\ IsPermutation(CloseGap(RemoveAt(order, slot), order[slot]), n - 1)
<1> DEFINE rest == RemoveAt(order, slot)
           index == order[slot]
           from(s) == IF s < slot THEN s ELSE s + 1
           closed(i) == IF i > index THEN i - 1 ELSE i
           left == CloseGap(rest, index)
<1>1. Len(order) = n /\ index \in 1..n
  BY DEF IsPermutation
<1>2. /\ rest \in Seq(Nat)
      /\ Len(rest) = n - 1
      /\ \A s \in 1..(n - 1) : rest[s] = order[from(s)]
  BY <1>1, RemoveAtProperties
<1>3. \A s \in 1..(n - 1) : from(s) \in 1..n /\ from(s) # slot
  OBVIOUS
<1>4. \A s, t \in 1..(n - 1) : from(s) = from(t) => s = t
  OBVIOUS
<1> HIDE DEF rest, from
<1>5. \A s \in 1..(n - 1) : rest[s] \in 1..n /\ rest[s] # index
  BY <1>1, <1>2, <1>3 DEF IsPermutation
<1>6. \A s, t \in 1..(n - 1) : rest[s] = rest[t] => s = t
  BY <1>2, <1>3, <1>4 DEF IsPermutation
<1> HIDE DEF index
<1>7. left = [s \in 1..(n - 1) |-> closed(rest[s])]
  BY <1>2 DEF CloseGap
<1> HIDE DEF left
<1>8. \A i \in 1..n : i # index => closed(i) \in 1..(n - 1)
  BY <1>1
<1>9. \A i, j \in 1..n : i # index /\ j # index /\ closed(i) = closed(j) => i = j
  BY <1>1
<1> HIDE DEF closed
<1>10. \A s \in 1..(n - 1) : left[s] = closed(rest[s]) /\ left[s] \in 1..(n - 1)
  BY <1>5, <1>7, <1>8
<1>11. ASSUME NEW s \in 1..(n - 1), NEW t \in 1..(n - 1), left[s] = left[t]
       PROVE  s = t
  <2>1. closed(rest[s]) = closed(rest[t])
    BY <1>10, <1>11
  <2>2. rest[s] = rest[t]
    BY <1>5, <1>9, <2>1
  <2>3. QED
    BY <1>6, <2>2
<1>12. left \in Seq(Nat) /\ Len(left) = n - 1
  <2>1. n - 1 \in Nat
    BY <1>1
  <2>2. left \in [1..(n - 1) -> Nat]
    BY <1>5, <1>7, <1>8
  <2>3. QED
    BY <2>1, <2>2, FunctionIsSeq
<1>13. IsPermutation(left, n - 1)
  BY <1>10, <1>11, <1>12 DEF IsPermutation
<1>14. QED
  BY <1>2, <1>12, <1>13 DEF left, rest, index

\* Moving an item from one index to another renumbers the items one to one.
LEMMA RemapIsInjective ==
  ASSUME NEW n \in Nat, NEW from \in 1..n, NEW to \in 1..n
  PROVE  /\ \A i \in 1..n : RemapIndexAfterMove(i, from, to) \in 1..n
         /\ \A i, j \in 1..n :
              RemapIndexAfterMove(i, from, to) = RemapIndexAfterMove(j, from, to)
                => i = j
  BY DEF RemapIndexAfterMove

LEMMA RemappedIsPermutation ==
  ASSUME NEW n \in Nat, NEW order \in Seq(Nat), IsPermutation(order, n),
         NEW from \in 1..n, NEW to \in 1..n
  PROVE  LET remapped == [s \in 1..n |-> RemapIndexAfterMove(order[s], from, to)]
         IN  remapped \in Seq(Nat) /\ IsPermutation(remapped, n)
<1> DEFINE remapped == [s \in 1..n |-> RemapIndexAfterMove(order[s], from, to)]
<1>1. \A s \in 1..n : order[s] \in 1..n
  BY DEF IsPermutation
<1>2. \A s \in 1..n : remapped[s] \in 1..n
  BY <1>1, RemapIsInjective
<1>3. remapped \in [1..n -> Nat]
  BY <1>2
<1>4. remapped \in Seq(Nat) /\ Len(remapped) = n
  BY <1>3, FunctionIsSeq
<1> HIDE DEF remapped
<1>5. ASSUME NEW s \in 1..n, NEW t \in 1..n, remapped[s] = remapped[t]
      PROVE  s = t
  <2>1. RemapIndexAfterMove(order[s], from, to) = RemapIndexAfterMove(order[t], from, to)
    BY <1>5 DEF remapped
  <2>2. order[s] = order[t]
    BY <1>1, <2>1, RemapIsInjective
  <2>3. QED
    BY <2>2 DEF IsPermutation
<1>6. IsPermutation(remapped, n)
  BY <1>2, <1>4, <1>5 DEF IsPermutation
<1>7. QED
  BY <1>4, <1>6 DEF remapped

\* Taking an item out and putting it back in elsewhere keeps the length.
LEMMA ReinsertedIsSeq ==
  ASSUME NEW S, NEW s \in Seq(S), NEW from \in 1..Len(s), NEW to \in 1..Len(s)
  PROVE  /\ InsertAt(RemoveAt(s, from), to, s[from]) \in Seq(S)
         /\ Len(InsertAt(RemoveAt(s, from), to, s[from])) = Len(s)
<1> DEFINE rest == RemoveAt(s, from)
           front == SubSeq(rest, 1, to - 1)
           back == SubSeq(rest, to, Len(rest))
<1>1. Len(s) \in Nat /\ s[from] \in S
  BY LenProperties, ElementOfSeq
<1>2. rest \in Seq(S) /\ Len(rest) = Len(s) - 1
  BY RemoveAtProperties
<1> HIDE DEF rest
<1>3. \A k \in 1..Len(rest) : rest[k] \in S
  BY <1>2, ElementOfSeq
<1>4. front \in Seq(S) /\ Len(front) = to - 1
  BY <1>1, <1>2, <1>3, SubSeqProperties
<1>5. back \in Seq(S) /\ Len(back) = Len(s) - to
  BY <1>1, <1>2, <1>3, SubSeqProperties
<1>6. <<s[from]>> \in Seq(S) /\ Len(<<s[from]>>) = 1
  BY <1>1
<1> HIDE DEF front, back
<1> DEFINE upto == front \o <<s[from]>>
<1>7. upto \in Seq(S) /\ Len(upto) = to
  BY <1>1, <1>4, <1>6, ConcatProperties
<1> HIDE DEF upto
<1>8. upto \o back \in Seq(S) /\ Len(upto \o back) = Len(s)
  <2>1. upto \o back \in Seq(S) /\ Len(upto \o back) = Len(upto) + Len(back)
    BY <1>5, <1>7, ConcatProperties
  <2>2. QED
    BY <1>1, <1>5, <1>7, <2>1
<1>9. QED
  BY <1>8 DEF InsertAt, upto, front, back, rest

(***************************************************************************)
(* Every operation takes a well-formed queue to a well-formed queue.       *)
(***************************************************************************)

\* Replacing the three related fields by ones that fit together.
LEMMA WellFormedParts ==
  ASSUME NEW q \in QueueType, NEW n, NEW items \in Seq(Tracks), Len(items) = n,
         NEW order \in Seq(Nat), IsPermutation(order, n),
         NEW pos \in Nat, pos <= n
  PROVE  WellFormed([q EXCEPT !.items = items, !.order = order, !.pos = pos])
  BY DEF WellFormed, QueueType

LEMMA EmptyWellFormed == WellFormed(EmptyQueue)
  BY EmptySeq DEF WellFormed, EmptyQueue, QueueType, IsPermutation, RepeatMode, None

\* What a fresh order may be, the kept item in the slot the position names.
LEMMA RebuildOrderWellFormed ==
  ASSUME NEW q \in QueueType, NEW keep, NEW rebuilt \in RebuildOrder(q, keep)
  PROVE  WellFormed(rebuilt)
<1> DEFINE n == Len(q.items)
           kept == keep \in 1..n
           slot(o) == IF kept THEN SlotOf(o, keep) ELSE IF n = 0 THEN None ELSE 1
<1>1. n \in Nat
  BY LenProperties DEF QueueType
<1>2. PICK o \in Orders(n) \cup {Identity(n)} :
        rebuilt = [q EXCEPT !.order = o, !.pos = slot(o)]
  BY DEF RebuildOrder
<1>3. o \in Seq(Nat) /\ IsPermutation(o, n)
  BY <1>1, IdentityIsPermutation, OrdersArePermutations
<1>4. slot(o) \in 0..n
  BY <1>1, <1>3, SlotOfProperties DEF None
<1> HIDE DEF slot
<1>5. rebuilt = [q EXCEPT !.items = q.items, !.order = o, !.pos = slot(o)]
  BY <1>2 DEF QueueType
<1>6. q.items \in Seq(Tracks)
  BY DEF QueueType
<1>7. slot(o) \in Nat /\ slot(o) <= n
  BY <1>1, <1>4
<1>8. QED
  BY <1>3, <1>5, <1>6, <1>7, WellFormedParts

LEMMA ReplaceWellFormed ==
  ASSUME NEW q \in QueueType, NEW items \in Seq(Tracks), NEW start,
         NEW replaced \in Replace(q, items, start)
  PROVE  WellFormed(replaced)
<1>1. [q EXCEPT !.items = items] \in QueueType
  BY DEF QueueType
<1>2. QED
  BY <1>1, RebuildOrderWellFormed DEF Replace

\* A list replaced plays from the item asked for, if it has that.
LEMMA ReplaceStartsAt ==
  ASSUME NEW q \in QueueType, NEW items \in Seq(Tracks), NEW start \in 1..Len(items),
         NEW replaced \in Replace(q, items, start)
  PROVE  Current(replaced) = items[start]
<1> DEFINE base == [q EXCEPT !.items = items]
           n == Len(items)
<1>1. n \in Nat /\ base \in QueueType /\ base.items = items
  BY LenProperties DEF QueueType
<1> HIDE DEF base
<1>2. PICK o \in Orders(n) \cup {Identity(n)} :
        replaced = [base EXCEPT !.order = o, !.pos = SlotOf(o, start)]
  BY <1>1 DEF Replace, RebuildOrder, base
<1>3. o \in Seq(Nat) /\ IsPermutation(o, n)
  BY <1>1, IdentityIsPermutation, OrdersArePermutations
<1>4. SlotOf(o, start) \in 1..n /\ o[SlotOf(o, start)] = start
  BY <1>1, <1>3, SlotOfProperties
<1>5. replaced.items = items /\ replaced.order = o /\ replaced.pos = SlotOf(o, start)
  BY <1>1, <1>2 DEF QueueType
<1> QED
  BY <1>4, <1>5 DEF Current, None

LEMMA SetShuffleWellFormed ==
  ASSUME NEW q, WellFormed(q), NEW enabled \in BOOLEAN,
         NEW set \in SetShuffle(q, enabled)
  PROVE  WellFormed(set)
<1>1. [q EXCEPT !.shuffle = enabled] \in QueueType
  BY DEF WellFormed, QueueType
<1>2. QED
  BY <1>1, RebuildOrderWellFormed DEF SetShuffle

LEMMA SetRepeatWellFormed ==
  ASSUME NEW q, WellFormed(q), NEW mode \in RepeatMode
  PROVE  WellFormed(SetRepeatMode(q, mode))
  BY DEF WellFormed, QueueType, SetRepeatMode

LEMMA EnqueueWellFormed ==
  ASSUME NEW q, WellFormed(q), NEW track \in Tracks, NEW e \in Enqueue(q, track)
  PROVE  WellFormed(e) /\ Len(e.items) = Len(q.items) + 1
<1> DEFINE items == Append(q.items, track)
           n == Len(q.items)
<1>1. /\ q \in QueueType /\ q.items \in Seq(Tracks) /\ q.order \in Seq(Nat)
      /\ q.pos \in Nat /\ n \in Nat /\ q.pos <= n
      /\ IsPermutation(q.order, n)
  BY LenProperties DEF WellFormed, QueueType
<1>2. items \in Seq(Tracks) /\ Len(items) = n + 1
  BY <1>1, AppendProperties
<1>3. PICK o \in OrdersAfterEnqueue(q) : e = [q EXCEPT !.items = items, !.order = o]
  BY DEF Enqueue
<1>4. o \in Seq(Nat) /\ IsPermutation(o, n + 1)
  <2>1. o \in Orders(n + 1) \/ o = Append(q.order, n + 1)
    BY Zenon DEF OrdersAfterEnqueue
  <2>2. CASE o \in Orders(n + 1)
    BY <1>1, <2>2, OrdersArePermutations
  <2>3. CASE o = Append(q.order, n + 1)
    BY <1>1, <2>3, AppendIsPermutation
  <2>4. QED
    BY <2>1, <2>2, <2>3
<1> HIDE DEF items
<1>5. e = [q EXCEPT !.items = items, !.order = o, !.pos = q.pos]
  BY <1>1, <1>3 DEF QueueType
<1>6. e.items = items
  BY <1>1, <1>3 DEF QueueType
<1>7. q.pos <= n + 1
  BY <1>1
<1>8. WellFormed(e)
  BY <1>1, <1>2, <1>4, <1>5, <1>7, WellFormedParts
<1>9. QED
  BY <1>2, <1>6, <1>8
LEMMA RemoveItemWellFormed ==
  ASSUME NEW q, WellFormed(q), NEW index \in Nat
  PROVE  WellFormed(RemoveItem(q, index))
<1> DEFINE n == Len(q.items)
           slot == SlotOf(q.order, index)
           rest == RemoveAt(q.order, slot)
           items == RemoveAt(q.items, index)
           left == CloseGap(rest, index)
           pos == PosAfterRemove(q.pos, slot, Len(rest))
<1>1. /\ q \in QueueType /\ q.items \in Seq(Tracks) /\ q.order \in Seq(Nat)
      /\ q.pos \in Nat /\ n \in Nat /\ q.pos <= n
      /\ IsPermutation(q.order, n)
  BY LenProperties DEF WellFormed, QueueType
<1>2. CASE index \notin 1..n
  BY <1>2 DEF RemoveItem
<1>3. CASE index \in 1..n
  <2>1. slot \in 1..n /\ q.order[slot] = index
    BY <1>1, <1>3, SlotOfProperties
  <2>2. left \in Seq(Nat) /\ Len(rest) = n - 1 /\ IsPermutation(left, n - 1)
    BY <1>1, <2>1, RemovedIsPermutation
  <2>3. items \in Seq(Tracks) /\ Len(items) = n - 1
    BY <1>1, <1>3, RemoveAtProperties
  <2>4. pos \in Nat /\ pos <= n - 1
    <3>1. slot \in 1..n /\ Len(rest) = n - 1
      BY <2>1, <2>2
    <3> HIDE DEF slot, rest
    <3>2. QED
      BY <1>1, <3>1 DEF PosAfterRemove, None
  <2>5. RemoveItem(q, index) =
          [q EXCEPT !.items = items, !.order = left, !.pos = pos]
    BY <1>1, <1>3 DEF RemoveItem, QueueType
  <2> HIDE DEF items, left, pos, rest, slot
  <2> HIDE DEF n
  <2>6. WellFormed([q EXCEPT !.items = items, !.order = left, !.pos = pos])
    BY <1>1, <2>2, <2>3, <2>4, WellFormedParts
  <2>7. QED
    BY <2>5, <2>6
<1>4. QED
  BY <1>2, <1>3

LEMMA MoveTrackWellFormed ==
  ASSUME NEW q, WellFormed(q), NEW from \in Nat, NEW to \in Nat
  PROVE  WellFormed(MoveTrack(q, from, to))
<1> DEFINE n == Len(q.items)
           items == InsertAt(RemoveAt(q.items, from), to, q.items[from])
           order == OrderAfterMove(q, from, to)
           pos == PosAfterMove(q, from, to)
<1>1. /\ q \in QueueType /\ q.items \in Seq(Tracks) /\ q.order \in Seq(Nat)
      /\ q.pos \in Nat /\ n \in Nat /\ q.pos <= n
      /\ IsPermutation(q.order, n)
  BY LenProperties DEF WellFormed, QueueType
<1>2. CASE from \notin 1..n \/ to \notin 1..n \/ from = to
  BY <1>2 DEF MoveTrack
<1>3. CASE from \in 1..n /\ to \in 1..n /\ from # to
  <2>1. items \in Seq(Tracks) /\ Len(items) = n
    BY <1>1, <1>3, ReinsertedIsSeq
  <2>2. order \in Seq(Nat) /\ IsPermutation(order, n)
    <3>1. CASE q.shuffle
      BY <1>1, <1>3, <3>1, RemappedIsPermutation DEF OrderAfterMove
    <3>2. CASE ~q.shuffle
      BY <1>1, <3>2, IdentityIsPermutation DEF OrderAfterMove
    <3>3. QED
      BY <3>1, <3>2
  <2>3. pos \in 0..n
    <3>1. CASE q.pos = None
      BY <1>1, <3>1 DEF PosAfterMove, None
    <3>2. CASE q.pos # None
      <4>1. CurrentItemIndex(q) \in 1..n
        BY <1>1, <3>2 DEF CurrentItemIndex, IsPermutation, None
      <4>2. RemapIndexAfterMove(CurrentItemIndex(q), from, to) \in 1..n
        BY <1>1, <1>3, <4>1, RemapIsInjective
      <4>3. pos = SlotOf(order, RemapIndexAfterMove(CurrentItemIndex(q), from, to))
        BY <3>2 DEF PosAfterMove
      <4> HIDE DEF order, pos
      <4>4. pos \in 1..n
        BY <1>1, <2>2, <4>2, <4>3, SlotOfProperties
      <4>5. QED
        BY <1>1, <4>4
    <3>3. QED
      BY <3>1, <3>2
  <2>4. MoveTrack(q, from, to) =
          [q EXCEPT !.items = items, !.order = order, !.pos = pos]
    BY <1>3 DEF MoveTrack
  <2> HIDE DEF items, order, pos
  <2>5. pos \in Nat /\ pos <= n
    BY <1>1, <2>3
  <2> HIDE DEF n
  <2>6. WellFormed([q EXCEPT !.items = items, !.order = order, !.pos = pos])
    BY <1>1, <2>1, <2>2, <2>5, WellFormedParts
  <2>7. QED
    BY <2>4, <2>6
<1>4. QED
  BY <1>2, <1>3

LEMMA PlayNextWellFormed ==
  ASSUME NEW q, WellFormed(q), NEW track \in Tracks, NEW next \in PlayNext(q, track)
  PROVE  WellFormed(next)
<1> DEFINE new == Len(q.items) + 1
<1>1. Len(q.items) \in Nat /\ q.pos \in Nat
  BY LenProperties DEF WellFormed, QueueType
<1>2. PICK e \in Enqueue(q, track) :
        next = IF q.pos # None /\ PlayNextTarget(q) < new
               THEN MoveTrack(e, new, PlayNextTarget(q)) ELSE e
  BY DEF PlayNext
<1>3. WellFormed(e)
  BY EnqueueWellFormed
<1>4. CASE q.pos # None /\ PlayNextTarget(q) < new
  <2>1. PlayNextTarget(q) \in Nat
    BY <1>1, <1>4 DEF PlayNextTarget, CurrentItemIndex, WellFormed, IsPermutation, None
  <2>2. QED
    BY <1>1, <1>2, <1>3, <1>4, <2>1, MoveTrackWellFormed
<1>5. QED
  BY <1>2, <1>3, <1>4

\* Navigation only ever moves the position to another slot of the order.
LEMMA MoveToWellFormed ==
  ASSUME NEW q, WellFormed(q), NEW slot \in 0..Len(q.items)
  PROVE  WellFormed(MoveTo(q, slot))
  BY DEF WellFormed, QueueType, MoveTo

LEMMA NavigationWellFormed ==
  ASSUME NEW q, WellFormed(q)
  PROVE  /\ WellFormed(Advance(q))
         /\ WellFormed(Retreat(q))
         /\ \A index \in Nat : WellFormed(JumpTo(q, index))
<1>1. /\ Len(q.items) \in Nat /\ Len(q.order) = Len(q.items)
      /\ q.pos \in Nat /\ q.pos <= Len(q.items)
      /\ q.order \in Seq(Nat) /\ IsPermutation(q.order, Len(q.items))
  BY LenProperties DEF WellFormed, QueueType, IsPermutation
<1>2. AdvanceSlot(q) \in 0..Len(q.items)
  BY <1>1 DEF AdvanceSlot, None
<1>3. RetreatSlot(q) \in 0..Len(q.items)
  BY <1>1 DEF RetreatSlot, None
<1>4. ASSUME NEW index \in Nat
      PROVE  JumpSlot(q, index) \in 0..Len(q.items)
  <2>1. CASE \E s \in 1..Len(q.order) : q.order[s] = index
    <3>1. index \in 1..Len(q.items)
      BY <1>1, <2>1 DEF IsPermutation
    <3>2. SlotOf(q.order, index) \in 1..Len(q.items)
      BY <1>1, <3>1, SlotOfProperties
    <3>3. QED
      BY <1>1, <2>1, <3>2 DEF JumpSlot
  <2>2. QED
    BY <1>1, <2>1 DEF JumpSlot, None
<1>5. QED
  BY <1>2, <1>3, <1>4, MoveToWellFormed DEF Advance, Retreat, JumpTo

\* Whatever order and position a snapshot holds, the repaired queue is good.
LEMMA FromSnapshotWellFormed ==
  ASSUME NEW snapshot \in QueueType
  PROVE  WellFormed(FromSnapshot(snapshot))
<1> DEFINE n == Len(snapshot.items)
           order == IF IsPermutation(snapshot.order, n) THEN snapshot.order
                    ELSE Identity(n)
           pos == IF snapshot.pos <= n THEN snapshot.pos ELSE None
<1>1. /\ snapshot.items \in Seq(Tracks) /\ n \in Nat
      /\ snapshot.order \in Seq(Nat) /\ snapshot.pos \in Nat
  BY LenProperties DEF QueueType
<1>2. order \in Seq(Nat) /\ IsPermutation(order, n)
  BY <1>1, IdentityIsPermutation
<1>3. pos \in Nat /\ pos <= n
  BY <1>1 DEF None
<1>4. FromSnapshot(snapshot) =
        [snapshot EXCEPT !.items = snapshot.items, !.order = order, !.pos = pos]
  BY <1>1 DEF FromSnapshot, QueueType
<1> HIDE DEF order, pos
<1>5. WellFormed([snapshot EXCEPT !.items = snapshot.items, !.order = order, !.pos = pos])
  BY <1>1, <1>2, <1>3, WellFormedParts
<1>6. QED
  BY <1>4, <1>5
(***************************************************************************)
(* Invariants of the specification.                                        *)
(***************************************************************************)

LEMMA ListsAreSeqs ==
  ASSUME NEW items \in Lists
  PROVE  items \in Seq(Tracks) /\ Len(items) \in 0..MaxItems
<1>1. PICK n \in 0..MaxItems : items \in [1..n -> Tracks]
  BY DEF Lists
<1>2. QED
  BY <1>1, FunctionIsSeq, MaxItemsAssumption

LEMMA IndicesAreNat == Indices \subseteq Nat
  BY MaxItemsAssumption DEF Indices

\* One step of any method keeps the queue well formed.
LEMMA NextKeepsWellFormed ==
  ASSUME WellFormed(queue), Next
  PROVE  WellFormed(queue')
<1>1. queue \in QueueType
  BY DEF WellFormed
<1>2. CASE DoReplace
  BY <1>1, <1>2, ListsAreSeqs, ReplaceWellFormed DEF DoReplace
<1>3. CASE DoEnqueue
  BY <1>3, EnqueueWellFormed DEF DoEnqueue
<1>4. CASE DoPlayNext
  BY <1>4, PlayNextWellFormed DEF DoPlayNext
<1>5. CASE DoRemove
  BY <1>5, IndicesAreNat, RemoveItemWellFormed DEF DoRemove
<1>6. CASE DoMoveTrack
  BY <1>6, IndicesAreNat, MoveTrackWellFormed DEF DoMoveTrack
<1>7. CASE DoSetShuffle
  BY <1>7, SetShuffleWellFormed DEF DoSetShuffle
<1>8. CASE DoSetRepeat
  BY <1>8, SetRepeatWellFormed DEF DoSetRepeat
<1>9. CASE DoAdvance \/ DoRetreat
  BY <1>9, NavigationWellFormed DEF DoAdvance, DoRetreat
<1>10. CASE DoJumpTo
  BY <1>10, IndicesAreNat, NavigationWellFormed DEF DoJumpTo
<1>11. QED
  BY <1>2, <1>3, <1>4, <1>5, <1>6, <1>7, <1>8, <1>9, <1>10 DEF Next

\* Whatever a hand-edited session held and whatever is called then, no
\* method indexes out of bounds: order and position always fit the list.
THEOREM EditedQueueOK == EditedSpec => []QueueOK
<1>1. EditedInit => QueueOK
  <2> SUFFICES ASSUME EditedInit PROVE WellFormed(queue)
    BY DEF QueueOK
  <2>1. PICK items \in Lists :
          \E order \in UNION {[1..n -> Indices] : n \in 0..Len(items)},
             pos \in 0..(MaxItems + 1), shuffle \in BOOLEAN, repeat \in RepeatMode :
            queue = FromSnapshot([items |-> items, order |-> order, pos |-> pos,
                                  shuffle |-> shuffle, repeat |-> repeat])
    BY DEF EditedInit
  <2>2. PICK order \in UNION {[1..n -> Indices] : n \in 0..Len(items)},
             pos \in 0..(MaxItems + 1), shuffle \in BOOLEAN, repeat \in RepeatMode :
          queue = FromSnapshot([items |-> items, order |-> order, pos |-> pos,
                                shuffle |-> shuffle, repeat |-> repeat])
    BY <2>1
  <2>3. items \in Seq(Tracks) /\ Len(items) \in Nat
    BY ListsAreSeqs
  <2>4. order \in Seq(Nat)
    <3>1. PICK n \in 0..Len(items) : order \in [1..n -> Indices]
      OBVIOUS
    <3>2. n \in Nat
      BY <2>3
    <3>3. \A i \in Indices : i \in Nat
      BY IndicesAreNat
    <3>4. order \in [1..n -> Nat]
      BY <3>1, <3>3
    <3>5. QED
      BY <3>2, <3>4, FunctionIsSeq
  <2>5. [items |-> items, order |-> order, pos |-> pos,
         shuffle |-> shuffle, repeat |-> repeat] \in QueueType
    BY <2>3, <2>4, MaxItemsAssumption DEF QueueType
  <2>6. QED
    BY <2>2, <2>5, FromSnapshotWellFormed
<1>2. QueueOK /\ [Next]_queue => QueueOK'
  BY NextKeepsWellFormed DEF QueueOK
<1>3. QED
  BY <1>1, <1>2, PTL DEF EditedSpec

\* The same of a queue that is never restored from a file.
THEOREM SpecQueueOK == Spec => []QueueOK
<1>1. Init => QueueOK
  BY EmptyWellFormed DEF Init, QueueOK
<1>2. QueueOK /\ [Next]_queue => QueueOK'
  BY NextKeepsWellFormed DEF QueueOK
<1>3. QED
  BY <1>1, <1>2, PTL DEF Spec

\* Restoring what a queue saved of itself gives that queue back.
THEOREM SpecSnapshotRoundTrip == Spec => []SnapshotRoundTrip
<1>1. QueueOK => SnapshotRoundTrip
  <2> SUFFICES ASSUME WellFormed(queue)
               PROVE  FromSnapshot(queue) = queue
    BY DEF QueueOK, SnapshotRoundTrip
  <2>1. FromSnapshot(queue) =
          [queue EXCEPT !.order = queue.order, !.pos = queue.pos]
    BY DEF FromSnapshot, WellFormed, QueueType
  <2>2. QED
    BY <2>1 DEF WellFormed, QueueType
<1>2. QED
  BY <1>1, SpecQueueOK, PTL

\* Forward then back, or back then forward, is where it started, for every
\* length of list and under every repeat mode.
THEOREM SpecRetreatUndoesAdvance == Spec => []RetreatUndoesAdvance
<1>1. QueueOK => RetreatUndoesAdvance
  <2> SUFFICES ASSUME WellFormed(queue)
               PROVE  RetreatUndoesAdvance
    BY DEF QueueOK
  <2>1. /\ queue \in QueueType
        /\ Len(queue.order) = Len(queue.items) /\ Len(queue.items) \in Nat
        /\ queue.pos \in 0..Len(queue.order)
    BY LenProperties DEF WellFormed, QueueType, IsPermutation
  <2>2. ASSUME AdvanceSlot(queue) # None
        PROVE  Retreat(Advance(queue)) = queue
    <3> DEFINE slot == AdvanceSlot(queue)
               moved == [queue EXCEPT !.pos = slot]
    <3>1. AdvanceSlot(queue) \in 1..Len(queue.order)
      BY <2>1, <2>2 DEF AdvanceSlot, None
    <3>2. /\ moved.order = queue.order /\ moved.repeat = queue.repeat
          /\ moved.pos = slot /\ [moved EXCEPT !.pos = queue.pos] = queue
      <4> HIDE DEF slot
      <4>1. QED
        BY <2>1 DEF QueueType
    <3>3. Advance(queue) = moved
      BY <2>2 DEF Advance, MoveTo
    <3> HIDE DEF moved
    <3>4. RetreatSlot(moved) = queue.pos /\ queue.pos # None
      BY <2>1, <2>2, <3>1, <3>2 DEF RetreatSlot, AdvanceSlot, None
    <3>5. QED
      BY <3>2, <3>3, <3>4 DEF Retreat, MoveTo
  <2>3. ASSUME RetreatSlot(queue) # None
        PROVE  Advance(Retreat(queue)) = queue
    <3> DEFINE slot == RetreatSlot(queue)
               moved == [queue EXCEPT !.pos = slot]
    <3>1. RetreatSlot(queue) \in 1..Len(queue.order)
      BY <2>1, <2>3 DEF RetreatSlot, None
    <3>2. /\ moved.order = queue.order /\ moved.repeat = queue.repeat
          /\ moved.pos = slot /\ [moved EXCEPT !.pos = queue.pos] = queue
      <4> HIDE DEF slot
      <4>1. QED
        BY <2>1 DEF QueueType
    <3>3. Retreat(queue) = moved
      BY <2>3 DEF Retreat, MoveTo
    <3> HIDE DEF moved
    <3>4. AdvanceSlot(moved) = queue.pos /\ queue.pos # None
      BY <2>1, <2>3, <3>1, <3>2 DEF RetreatSlot, AdvanceSlot, None
    <3>5. QED
      BY <3>2, <3>3, <3>4 DEF Advance, MoveTo
  <2>4. QED
    BY <2>2, <2>3 DEF RetreatUndoesAdvance
<1>2. QED
  BY <1>1, SpecQueueOK, PTL

\* An identity order stays one when an index is taken out.
LEMMA IdentityClosed ==
  ASSUME NEW n \in Nat, NEW i \in 1..n
  PROVE  CloseGap(RemoveAt(Identity(n), i), i) = Identity(n - 1)
<1> DEFINE rest == RemoveAt(Identity(n), i)
<1>1. Identity(n) \in Seq(Nat) /\ Len(Identity(n)) = n
  BY IdentityIsPermutation DEF IsPermutation
<1>2. /\ Len(rest) = n - 1
      /\ \A s \in 1..(n - 1) : rest[s] = IF s < i THEN s ELSE s + 1
  <2>1. /\ Len(rest) = n - 1
        /\ \A s \in 1..(n - 1) :
             rest[s] = IF s < i THEN Identity(n)[s] ELSE Identity(n)[s + 1]
    BY <1>1, RemoveAtProperties
  <2>2. \A s \in 1..n : Identity(n)[s] = s
    BY DEF Identity
  <2>3. QED
    BY <2>1, <2>2
<1> HIDE DEF rest
<1>3. CloseGap(rest, i) = [s \in 1..(n - 1) |->
                             IF rest[s] > i THEN rest[s] - 1 ELSE rest[s]]
  BY <1>2 DEF CloseGap
<1>4. \A s \in 1..(n - 1) : (IF rest[s] > i THEN rest[s] - 1 ELSE rest[s]) = s
  BY <1>2
<1>5. CloseGap(rest, i) = [s \in 1..(n - 1) |-> s]
  BY <1>3, <1>4
<1>6. QED
  BY <1>5 DEF Identity, rest

\* With shuffle off the order is the identity.
ListOrder(q) == ~q.shuffle => q.order = Identity(Len(q.items))

LEMMA RebuildOrderListOrder ==
  ASSUME NEW q \in QueueType, NEW keep, NEW rebuilt \in RebuildOrder(q, keep)
  PROVE  ListOrder(rebuilt)
<1>1. PICK o, pos : /\ rebuilt = [q EXCEPT !.order = o, !.pos = pos]
                    /\ ~q.shuffle => o = Identity(Len(q.items))
  BY DEF RebuildOrder
<1>2. rebuilt.shuffle = q.shuffle /\ rebuilt.order = o /\ rebuilt.items = q.items
  BY <1>1 DEF QueueType
<1>3. QED
  BY <1>1, <1>2 DEF ListOrder

LEMMA EnqueueListOrder ==
  ASSUME NEW q, WellFormed(q), ListOrder(q), NEW track \in Tracks,
         NEW e \in Enqueue(q, track)
  PROVE  ListOrder(e)
<1>1. PICK o \in OrdersAfterEnqueue(q) :
        e = [q EXCEPT !.items = Append(q.items, track), !.order = o]
  BY DEF Enqueue
<1>2. /\ q \in QueueType /\ q.items \in Seq(Tracks) /\ Len(q.items) \in Nat
  BY LenProperties DEF WellFormed, QueueType
<1>3. e.shuffle = q.shuffle /\ e.order = o /\ e.items = Append(q.items, track)
  BY <1>1, <1>2 DEF QueueType
<1>4. Len(e.items) = Len(q.items) + 1
  BY <1>2, <1>3, AppendProperties
<1>5. ~q.shuffle => o = Append(q.order, Len(q.items) + 1)
  BY Zenon DEF OrdersAfterEnqueue
<1>6. QED
  BY <1>2, <1>3, <1>4, <1>5, IdentityAppended DEF ListOrder

LEMMA RemoveItemListOrder ==
  ASSUME NEW q, WellFormed(q), ListOrder(q), NEW index \in Nat
  PROVE  ListOrder(RemoveItem(q, index))
<1> DEFINE n == Len(q.items)
           slot == SlotOf(q.order, index)
<1>1. /\ q \in QueueType /\ q.items \in Seq(Tracks) /\ n \in Nat
      /\ q.order \in Seq(Nat) /\ IsPermutation(q.order, n)
  BY LenProperties DEF WellFormed, QueueType
<1>2. CASE index \notin 1..n
  BY <1>2 DEF RemoveItem
<1>3. CASE index \in 1..n
  <2>1. /\ RemoveItem(q, index).shuffle = q.shuffle
        /\ RemoveItem(q, index).items = RemoveAt(q.items, index)
        /\ RemoveItem(q, index).order = CloseGap(RemoveAt(q.order, slot), index)
    BY <1>1, <1>3 DEF RemoveItem, QueueType
  <2>2. slot \in 1..n /\ q.order[slot] = index
    BY <1>1, <1>3, SlotOfProperties
  <2>3. Len(RemoveAt(q.items, index)) = n - 1
    BY <1>1, <1>3, RemoveAtProperties
  <2> HIDE DEF n, slot
  <2>4. ASSUME q.order = Identity(n)
        PROVE  RemoveItem(q, index).order = Identity(n - 1)
    <3>1. slot = index
      BY <2>2, <2>4 DEF Identity
    <3>2. QED
      BY <1>1, <1>3, <2>1, <2>4, <3>1, IdentityClosed
  <2>5. QED
    BY <2>1, <2>3, <2>4 DEF ListOrder, n
<1>4. QED
  BY <1>2, <1>3

LEMMA MoveTrackListOrder ==
  ASSUME NEW q, WellFormed(q), ListOrder(q), NEW from \in Nat, NEW to \in Nat
  PROVE  ListOrder(MoveTrack(q, from, to))
<1> DEFINE n == Len(q.items)
           items == InsertAt(RemoveAt(q.items, from), to, q.items[from])
<1>1. q \in QueueType /\ q.items \in Seq(Tracks)
  BY DEF WellFormed, QueueType
<1>2. CASE from \notin 1..n \/ to \notin 1..n \/ from = to
  BY <1>2 DEF MoveTrack
<1>3. CASE from \in 1..n /\ to \in 1..n /\ from # to
  <2>1. /\ MoveTrack(q, from, to).shuffle = q.shuffle
        /\ MoveTrack(q, from, to).items = items
        /\ MoveTrack(q, from, to).order = OrderAfterMove(q, from, to)
    BY <1>1, <1>3 DEF MoveTrack, QueueType
  <2>2. Len(items) = n
    BY <1>1, <1>3, ReinsertedIsSeq
  <2> HIDE DEF items
  <2>3. ~q.shuffle => OrderAfterMove(q, from, to) = Identity(n)
    BY DEF OrderAfterMove
  <2>4. QED
    BY <2>1, <2>2, <2>3 DEF ListOrder
<1>4. QED
  BY <1>2, <1>3

\* Unshuffled navigation follows list order whatever calls came before.
THEOREM SpecListOrderUnlessShuffled == Spec => []ListOrderUnlessShuffled
<1> DEFINE IInv == WellFormed(queue) /\ ListOrder(queue)
<1>1. Init => IInv
  <2>1. ListOrder(EmptyQueue)
    BY DEF ListOrder, EmptyQueue, Identity
  <2>2. QED
    BY <2>1, EmptyWellFormed DEF Init
<1>2. IInv /\ [Next]_queue => IInv'
  <2> SUFFICES ASSUME IInv, [Next]_queue
               PROVE  WellFormed(queue') /\ ListOrder(queue')
    OBVIOUS
  <2>1. queue \in QueueType
    BY DEF WellFormed
  <2>2. WellFormed(queue')
    BY NextKeepsWellFormed
  <2>3. CASE DoReplace
    <3>1. PICK items \in Lists, start \in Indices : queue' \in Replace(queue, items, start)
      BY <2>3 DEF DoReplace
    <3>2. [queue EXCEPT !.items = items] \in QueueType
      BY <2>1, ListsAreSeqs DEF QueueType
    <3>3. QED
      BY <2>2, <3>1, <3>2, RebuildOrderListOrder DEF Replace
  <2>4. CASE DoEnqueue
    BY <2>2, <2>4, EnqueueListOrder DEF DoEnqueue
  <2>5. CASE DoPlayNext
    <3>1. PICK track \in Tracks : queue' \in PlayNext(queue, track)
      BY <2>5 DEF DoPlayNext
    <3>2. PICK e \in Enqueue(queue, track) :
            queue' = IF queue.pos # None /\ PlayNextTarget(queue) < Len(queue.items) + 1
                     THEN MoveTrack(e, Len(queue.items) + 1, PlayNextTarget(queue))
                     ELSE e
      BY <3>1 DEF PlayNext
    <3>3. WellFormed(e) /\ ListOrder(e)
      BY EnqueueWellFormed, EnqueueListOrder
    <3>4. CASE queue' = e
      BY <3>3, <3>4
    <3>5. CASE queue.pos # None
               /\ queue' = MoveTrack(e, Len(queue.items) + 1, PlayNextTarget(queue))
      <4>1. Len(queue.items) + 1 \in Nat /\ PlayNextTarget(queue) \in Nat
        BY <3>5, LenProperties
           DEF PlayNextTarget, CurrentItemIndex, WellFormed, QueueType, IsPermutation, None
      <4>2. QED
        BY <2>2, <3>3, <3>5, <4>1, MoveTrackListOrder
    <3>6. QED
      BY <2>2, <3>2, <3>4, <3>5
  <2>6. CASE DoRemove
    BY <2>2, <2>6, IndicesAreNat, RemoveItemListOrder DEF DoRemove
  <2>7. CASE DoMoveTrack
    BY <2>2, <2>7, IndicesAreNat, MoveTrackListOrder DEF DoMoveTrack
  <2>8. CASE DoSetShuffle
    <3>1. PICK enabled \in BOOLEAN : queue' \in SetShuffle(queue, enabled)
      BY <2>8 DEF DoSetShuffle
    <3>2. [queue EXCEPT !.shuffle = enabled] \in QueueType
      BY <2>1 DEF QueueType
    <3>3. QED
      BY <2>2, <3>1, <3>2, RebuildOrderListOrder DEF SetShuffle
  <2>9. CASE DoSetRepeat
    BY <2>1, <2>2, <2>9 DEF DoSetRepeat, SetRepeatMode, ListOrder, QueueType
  <2>10. CASE DoAdvance \/ DoRetreat \/ DoJumpTo
    <3>1. PICK slot : queue' = MoveTo(queue, slot)
      BY <2>10 DEF DoAdvance, DoRetreat, DoJumpTo, Advance, Retreat, JumpTo
    <3>2. QED
      BY <2>1, <2>2, <3>1 DEF MoveTo, ListOrder, QueueType
  <2>11. CASE UNCHANGED queue
    BY <2>11
  <2>12. QED
    BY <2>3, <2>4, <2>5, <2>6, <2>7, <2>8, <2>9, <2>10, <2>11 DEF Next
<1>3. IInv => ListOrderUnlessShuffled
  BY DEF ListOrder, ListOrderUnlessShuffled
<1>4. QED
  BY <1>1, <1>2, <1>3, PTL DEF Spec

(***************************************************************************)
(* What an edit of the list does to what was played and what is to come.   *)
(***************************************************************************)

\* Taking an item out and putting it back in elsewhere leaves every item
\* where its index is renumbered to.
LEMMA ReinsertedItems ==
  ASSUME NEW S, NEW s \in Seq(S), NEW from \in 1..Len(s), NEW to \in 1..Len(s),
         NEW i \in 1..Len(s)
  PROVE  InsertAt(RemoveAt(s, from), to, s[from])[RemapIndexAfterMove(i, from, to)] = s[i]
<1> DEFINE rest == RemoveAt(s, from)
           front == SubSeq(rest, 1, to - 1)
           back == SubSeq(rest, to, Len(rest))
           left == Len(s) - 1
<1>1. Len(s) \in Nat /\ s[from] \in S
  BY LenProperties, ElementOfSeq
<1>2. /\ rest \in Seq(S) /\ Len(rest) = left
      /\ \A k \in 1..left : rest[k] = IF k < from THEN s[k] ELSE s[k + 1]
  BY RemoveAtProperties
<1> HIDE DEF rest
<1>3. \A k \in 1..Len(rest) : rest[k] \in S
  BY <1>2, ElementOfSeq
<1>4. front \in Seq(S) /\ Len(front) = to - 1
      /\ \A k \in 1..(to - 1) : front[k] = rest[k]
  BY <1>1, <1>2, <1>3, SubSeqProperties
<1>5. back \in Seq(S) /\ Len(back) = Len(s) - to
      /\ \A k \in 1..(Len(s) - to) : back[k] = rest[to + k - 1]
  BY <1>1, <1>2, <1>3, SubSeqProperties
<1>6. <<s[from]>> \in Seq(S) /\ Len(<<s[from]>>) = 1 /\ <<s[from]>>[1] = s[from]
  BY <1>1
<1> HIDE DEF front, back
<1> DEFINE one == <<s[from]>>
           upto == front \o one
<1> HIDE DEF one
<1>7. /\ upto \in Seq(S) /\ Len(upto) = to
      /\ \A k \in 1..to : upto[k] = IF k <= to - 1 THEN front[k] ELSE one[k - (to - 1)]
  <2>1. one \in Seq(S) /\ Len(one) = 1
    BY <1>6 DEF one
  <2>2. /\ upto \in Seq(S) /\ Len(upto) = Len(front) + Len(one)
        /\ \A k \in 1..(Len(front) + Len(one)) :
             upto[k] = IF k <= Len(front) THEN front[k] ELSE one[k - Len(front)]
    BY <1>4, <2>1, ConcatProperties
  <2>3. Len(front) + Len(one) = to
    BY <1>1, <1>4, <2>1
  <2>4. QED
    BY <1>4, <2>2, <2>3
<1> HIDE DEF upto
<1> DEFINE all == upto \o back
<1>8. \A k \in 1..Len(s) : all[k] = IF k <= to THEN upto[k] ELSE back[k - to]
  <2>1. \A k \in 1..(Len(upto) + Len(back)) :
          all[k] = IF k <= Len(upto) THEN upto[k] ELSE back[k - Len(upto)]
    BY <1>5, <1>7, ConcatProperties
  <2>2. Len(upto) + Len(back) = Len(s)
    BY <1>1, <1>5, <1>7
  <2>3. QED
    BY <1>7, <2>1, <2>2
<1>9. all = InsertAt(RemoveAt(s, from), to, s[from])
  BY DEF InsertAt, upto, one, front, back, rest
<1> HIDE DEF all
<1>10. /\ \A k \in 1..(to - 1) : all[k] = rest[k]
       /\ all[to] = s[from]
       /\ \A k \in (to + 1)..Len(s) : all[k] = rest[k - 1]
  <2>1. ASSUME NEW k \in 1..(to - 1) PROVE all[k] = rest[k]
    <3>1. k \in 1..Len(s) /\ k \in 1..to /\ k <= to /\ k <= to - 1
      BY <1>1, <2>1
    <3>2. all[k] = upto[k]
      BY <1>8, <3>1
    <3>3. upto[k] = front[k]
      BY <1>7, <3>1
    <3>4. QED
      BY <1>4, <3>2, <3>3
  <2>2. all[to] = s[from]
    <3>1. all[to] = upto[to]
      BY <1>1, <1>8
    <3>2. upto[to] = one[to - (to - 1)]
      BY <1>1, <1>7
    <3>3. to - (to - 1) = 1
      BY <1>1
    <3>4. QED
      BY <1>6, <3>1, <3>2, <3>3 DEF one
  <2>3. ASSUME NEW k \in (to + 1)..Len(s) PROVE all[k] = rest[k - 1]
    <3>1. k - to \in 1..(Len(s) - to) /\ to + (k - to) - 1 = k - 1
      BY <1>1, <2>3
    <3>2. all[k] = back[k - to]
      BY <1>1, <1>8, <2>3
    <3>3. QED
      BY <1>5, <3>1, <3>2
  <2>4. QED
    BY <2>1, <2>2, <2>3
<1>11. all[RemapIndexAfterMove(i, from, to)] = s[i]
  <2>1. CASE i = from
    BY <1>10, <2>1 DEF RemapIndexAfterMove
  <2>2. CASE i # from
    <3> DEFINE j == RemapIndexAfterMove(i, from, to)
               k == IF i < from THEN i ELSE i - 1
    <3>1. k \in 1..left /\ rest[k] = s[i]
      BY <1>1, <1>2, <2>2
    <3>2. j = IF k < to THEN k ELSE k + 1
      BY <1>1, <2>2 DEF RemapIndexAfterMove
    <3> HIDE DEF j, k
    <3>3. all[j] = rest[k]
      BY <1>1, <1>10, <3>1, <3>2
    <3>4. QED
      BY <3>1, <3>3 DEF j
  <2>3. QED
    BY <2>1, <2>2
<1>12. QED
  BY <1>9, <1>11

\* What moving an item to another place in the list changes.
LEMMA MoveTrackParts ==
  ASSUME NEW q, WellFormed(q), NEW from \in 1..Len(q.items), NEW to \in 1..Len(q.items),
         from # to
  PROVE  LET moved == MoveTrack(q, from, to)
         IN  /\ moved.shuffle = q.shuffle
             /\ moved.order = OrderAfterMove(q, from, to)
             /\ moved.pos = PosAfterMove(q, from, to)
             /\ Len(moved.items) = Len(q.items)
             /\ \A i \in 1..Len(q.items) :
                  moved.items[RemapIndexAfterMove(i, from, to)] = q.items[i]
<1> DEFINE items == InsertAt(RemoveAt(q.items, from), to, q.items[from])
           moved == MoveTrack(q, from, to)
<1>1. q \in QueueType /\ q.items \in Seq(Tracks)
  BY DEF WellFormed, QueueType
<1>2. /\ Len(items) = Len(q.items)
      /\ \A i \in 1..Len(q.items) :
           items[RemapIndexAfterMove(i, from, to)] = q.items[i]
  BY <1>1, ReinsertedIsSeq, ReinsertedItems
<1>3. /\ moved.shuffle = q.shuffle /\ moved.items = items
      /\ moved.order = OrderAfterMove(q, from, to)
      /\ moved.pos = PosAfterMove(q, from, to)
  BY <1>1 DEF MoveTrack, QueueType
<1> HIDE DEF items, moved
<1>4. QED
  BY <1>2, <1>3 DEF moved

\* The slot of an index that an order holds is the one that holds it.
LEMMA SlotIsUnique ==
  ASSUME NEW n \in Nat, NEW order \in Seq(Nat), IsPermutation(order, n),
         NEW s \in 1..n
  PROVE  SlotOf(order, order[s]) = s
<1>1. order[s] \in 1..n
  BY DEF IsPermutation
<1>2. /\ SlotOf(order, order[s]) \in 1..n
      /\ order[SlotOf(order, order[s])] = order[s]
  BY <1>1, SlotOfProperties
<1>3. QED
  BY <1>2 DEF IsPermutation

\* Moving an item keeps the current track current.
LEMMA MoveTrackKeepsCurrent ==
  ASSUME NEW q, WellFormed(q), NEW from \in Nat, NEW to \in Nat
  PROVE  Current(MoveTrack(q, from, to)) = Current(q)
<1> DEFINE n == Len(q.items)
           moved == MoveTrack(q, from, to)
           index == RemapIndexAfterMove(q.order[q.pos], from, to)
<1>1. /\ q \in QueueType /\ n \in Nat /\ q.pos \in 0..n
      /\ q.order \in Seq(Nat) /\ IsPermutation(q.order, n)
  BY LenProperties DEF WellFormed, QueueType
<1>2. CASE from \notin 1..n \/ to \notin 1..n \/ from = to
  BY <1>2 DEF MoveTrack
<1>3. CASE from \in 1..n /\ to \in 1..n /\ from # to
  <2>1. /\ moved.order = OrderAfterMove(q, from, to)
        /\ moved.pos = PosAfterMove(q, from, to)
        /\ \A i \in 1..n : moved.items[RemapIndexAfterMove(i, from, to)] = q.items[i]
    BY <1>3, MoveTrackParts
  <2>2. WellFormed(moved) /\ IsPermutation(moved.order, n) /\ moved.order \in Seq(Nat)
    BY <1>3, MoveTrackWellFormed, MoveTrackParts DEF WellFormed, QueueType
  <2> HIDE DEF moved
  <2>3. ASSUME q.pos = None PROVE Current(moved) = Current(q)
    BY <2>1, <2>3 DEF PosAfterMove, Current
  <2>4. ASSUME q.pos # None PROVE Current(moved) = Current(q)
    <3>1. q.order[q.pos] \in 1..n
      BY <1>1, <2>4 DEF IsPermutation, None
    <3>2. index \in 1..n
      BY <1>1, <1>3, <3>1, RemapIsInjective
    <3>3. moved.pos = SlotOf(moved.order, index)
      BY <2>1, <2>4 DEF PosAfterMove, CurrentItemIndex
    <3> HIDE DEF index
    <3>4. moved.pos \in 1..n /\ moved.order[moved.pos] = index
      <4> HIDE DEF n
      <4>1. /\ SlotOf(moved.order, index) \in 1..n
            /\ moved.order[SlotOf(moved.order, index)] = index
        BY <1>1, <2>2, <3>2, SlotOfProperties
      <4>2. QED
        BY <3>3, <4>1
    <3>5. moved.items[index] = q.items[q.order[q.pos]]
      BY <2>1, <3>1 DEF index
    <3>6. moved.pos # None
      BY <3>4 DEF None
    <3>7. QED
      BY <2>4, <3>4, <3>5, <3>6 DEF Current
  <2>5. QED
    BY <2>3, <2>4 DEF moved
<1>4. QED
  BY <1>2, <1>3

\* When shuffled, a moved item stays where it is in the playing order, and
\* so do the position and every other item.
LEMMA ShuffledMoveKeepsOrder ==
  ASSUME NEW q, WellFormed(q), q.shuffle, NEW from \in Nat, NEW to \in Nat
  PROVE  LET moved == MoveTrack(q, from, to)
         IN  /\ moved.pos = q.pos
             /\ \A s \in 1..Len(q.items) :
                  moved.items[moved.order[s]] = q.items[q.order[s]]
<1> DEFINE n == Len(q.items)
           moved == MoveTrack(q, from, to)
<1>1. /\ q \in QueueType /\ n \in Nat /\ q.pos \in 0..n
      /\ q.order \in Seq(Nat) /\ IsPermutation(q.order, n)
  BY LenProperties DEF WellFormed, QueueType
<1>2. CASE from \notin 1..n \/ to \notin 1..n \/ from = to
  BY <1>2 DEF MoveTrack
<1>3. CASE from \in 1..n /\ to \in 1..n /\ from # to
  <2>1. /\ moved.order = [s \in 1..n |-> RemapIndexAfterMove(q.order[s], from, to)]
        /\ moved.order = OrderAfterMove(q, from, to)
        /\ moved.pos = PosAfterMove(q, from, to)
        /\ \A i \in 1..n : moved.items[RemapIndexAfterMove(i, from, to)] = q.items[i]
    BY <1>3, MoveTrackParts DEF OrderAfterMove
  <2>2. IsPermutation(moved.order, n) /\ moved.order \in Seq(Nat)
    BY <1>3, MoveTrackWellFormed, MoveTrackParts DEF WellFormed, QueueType
  <2> HIDE DEF moved
  <2>3. ASSUME NEW s \in 1..n PROVE moved.items[moved.order[s]] = q.items[q.order[s]]
    BY <1>1, <2>1 DEF IsPermutation
  <2>4. moved.pos = q.pos
    <3>1. CASE q.pos = None
      BY <2>1, <3>1 DEF PosAfterMove
    <3>2. CASE q.pos # None
      <4>1. q.pos \in 1..n
        BY <1>1, <3>2 DEF None
      <4>2. moved.pos = SlotOf(moved.order, moved.order[q.pos])
        BY <2>1, <3>2, <4>1 DEF PosAfterMove, CurrentItemIndex
      <4>3. QED
        BY <1>1, <2>2, <4>1, <4>2, SlotIsUnique
    <3>3. QED
      BY <3>1, <3>2
  <2>5. QED
    BY <2>3, <2>4 DEF moved
<1>4. QED
  BY <1>2, <1>3

\* A new track never comes into the slots already visited.
LEMMA EnqueueKeepsSlots ==
  ASSUME NEW q, WellFormed(q), NEW track \in Tracks, NEW e \in Enqueue(q, track)
  PROVE  /\ e.pos = q.pos /\ e.shuffle = q.shuffle
         /\ e.items = Append(q.items, track)
         /\ \A s \in 1..q.pos : e.order[s] = q.order[s]
         /\ \A i \in 1..Len(q.items) : e.items[i] = q.items[i]
<1> DEFINE n == Len(q.items)
           pushed == Append(q.order, n + 1)
<1>1. /\ q \in QueueType /\ q.items \in Seq(Tracks) /\ q.order \in Seq(Nat)
      /\ n \in Nat /\ Len(q.order) = n /\ q.pos \in 0..n
  BY LenProperties DEF WellFormed, QueueType, IsPermutation
<1>2. PICK o \in OrdersAfterEnqueue(q) :
        e = [q EXCEPT !.items = Append(q.items, track), !.order = o]
  BY DEF Enqueue
<1>3. /\ e.pos = q.pos /\ e.shuffle = q.shuffle /\ e.order = o
      /\ e.items = Append(q.items, track)
  BY <1>1, <1>2 DEF QueueType
<1>4. \A i \in 1..n : Append(q.items, track)[i] = q.items[i]
  BY <1>1, AppendProperties
<1>5. \A s \in 1..n : pushed[s] = q.order[s]
  BY <1>1, AppendProperties
<1>6. \A s \in 1..q.pos : o[s] = pushed[s]
  BY Zenon DEF OrdersAfterEnqueue
<1> HIDE DEF pushed
<1>7. QED
  BY <1>1, <1>3, <1>4, <1>5, <1>6

\* With shuffle off a track queued to play next comes right behind the
\* current one, and everything up to there stays.
LEMMA PlayNextInList ==
  ASSUME NEW q, WellFormed(q), ListOrder(q), ~q.shuffle, q.pos # None,
         NEW track \in Tracks, NEW next \in PlayNext(q, track)
  PROVE  /\ next.pos = q.pos /\ Len(next.order) = Len(q.items) + 1
         /\ next.order = Identity(Len(q.items) + 1)
         /\ \A i \in 1..q.pos : next.items[i] = q.items[i]
         /\ next.items[q.pos + 1] = track
<1> DEFINE n == Len(q.items)
<1>1. /\ q \in QueueType /\ q.items \in Seq(Tracks) /\ n \in Nat
      /\ q.pos \in 1..n /\ q.order = Identity(n)
  BY LenProperties DEF WellFormed, QueueType, ListOrder, None
<1>2. CurrentItemIndex(q) = q.pos /\ PlayNextTarget(q) = q.pos + 1
  BY <1>1 DEF CurrentItemIndex, PlayNextTarget, Identity
<1>3. PICK e \in Enqueue(q, track) :
        next = IF q.pos # None /\ PlayNextTarget(q) < n + 1
               THEN MoveTrack(e, n + 1, PlayNextTarget(q)) ELSE e
  BY DEF PlayNext
<1>4. /\ WellFormed(e) /\ e.pos = q.pos /\ ~e.shuffle /\ e.order = Identity(n + 1)
      /\ Len(e.items) = n + 1
      /\ \A i \in 1..n : e.items[i] = q.items[i]
  BY EnqueueWellFormed, EnqueueListOrder, EnqueueKeepsSlots DEF ListOrder
<1>5. e.items[n + 1] = track
  BY <1>1, EnqueueKeepsSlots, AppendProperties
<1>6. Identity(n + 1) \in Seq(Nat) /\ IsPermutation(Identity(n + 1), n + 1)
      /\ Len(Identity(n + 1)) = n + 1
  <2>1. n + 1 \in Nat
    BY <1>1
  <2> HIDE DEF n
  <2>2. QED
    BY <2>1, IdentityIsPermutation DEF IsPermutation
<1> HIDE DEF n
<1>7. CASE q.pos = n
  BY <1>1, <1>2, <1>3, <1>4, <1>5, <1>6, <1>7 DEF n
<1>8. CASE q.pos < n
  <2> DEFINE to == q.pos + 1
             moved == MoveTrack(e, n + 1, to)
  <2>1. next = moved /\ to \in 1..(n + 1) /\ to # n + 1 /\ n + 1 \in 1..(n + 1)
    BY <1>1, <1>2, <1>3, <1>8 DEF None
  <2>2. /\ moved.order = OrderAfterMove(e, n + 1, to)
        /\ moved.pos = PosAfterMove(e, n + 1, to)
        /\ \A i \in 1..(n + 1) :
             moved.items[RemapIndexAfterMove(i, n + 1, to)] = e.items[i]
    BY <1>4, <2>1, MoveTrackParts
  <2> HIDE DEF moved
  <2>3. moved.order = Identity(n + 1)
    BY <1>4, <2>2 DEF OrderAfterMove
  <2>4. /\ \A i \in 1..q.pos : RemapIndexAfterMove(i, n + 1, to) = i
        /\ RemapIndexAfterMove(n + 1, n + 1, to) = to
    BY <1>1, <1>8 DEF RemapIndexAfterMove
  <2>5. /\ \A i \in 1..q.pos : moved.items[i] = q.items[i]
        /\ moved.items[to] = track
    <3>1. ASSUME NEW i \in 1..q.pos PROVE moved.items[i] = q.items[i]
      <4>1. i \in 1..n /\ i \in 1..(n + 1)
        BY <1>1
      <4>2. moved.items[i] = e.items[i]
        BY <2>2, <2>4, <4>1
      <4>3. QED
        BY <1>4, <4>1, <4>2 DEF n
    <3>2. moved.items[to] = track
      BY <1>5, <2>1, <2>2, <2>4 DEF n
    <3>3. QED
      BY <3>1, <3>2
  <2>6. moved.pos = q.pos
    <3>1. e.order[e.pos] = q.pos /\ e.pos # None
      BY <1>1, <1>4 DEF Identity, None, n
    <3>2. moved.pos = SlotOf(moved.order, RemapIndexAfterMove(q.pos, n + 1, to))
      BY <2>2, <3>1 DEF PosAfterMove, CurrentItemIndex
    <3>3. moved.pos = SlotOf(Identity(n + 1), q.pos)
      BY <1>1, <2>3, <2>4, <3>2
    <3>4. q.pos \in 1..(n + 1) /\ Identity(n + 1)[q.pos] = q.pos /\ n + 1 \in Nat
      BY <1>1 DEF Identity
    <3>5. QED
      BY <1>6, <3>3, <3>4, SlotIsUnique
  <2>7. QED
    BY <1>6, <2>1, <2>3, <2>5, <2>6 DEF n
<1>9. QED
  BY <1>1, <1>7, <1>8 DEF n

\* A track queued to play next leaves what was played alone.
LEMMA PlayNextKeepsPlayed ==
  ASSUME NEW q, WellFormed(q), ListOrder(q), NEW track \in Tracks,
         NEW next \in PlayNext(q, track)
  PROVE  /\ next.pos = q.pos
         /\ \A s \in 1..q.pos : next.items[next.order[s]] = q.items[q.order[s]]
<1> DEFINE n == Len(q.items)
<1>1. /\ q \in QueueType /\ n \in Nat /\ q.pos \in 0..n
      /\ \A s \in 1..n : q.order[s] \in 1..n
  BY LenProperties DEF WellFormed, QueueType, IsPermutation
<1>2. PICK e \in Enqueue(q, track) :
        next = IF q.pos # None /\ PlayNextTarget(q) < n + 1
               THEN MoveTrack(e, n + 1, PlayNextTarget(q)) ELSE e
  BY DEF PlayNext
<1>3. /\ WellFormed(e) /\ e.pos = q.pos /\ e.shuffle = q.shuffle
      /\ Len(e.items) = n + 1
      /\ \A s \in 1..q.pos : e.order[s] = q.order[s]
      /\ \A i \in 1..n : e.items[i] = q.items[i]
  BY EnqueueWellFormed, EnqueueKeepsSlots
<1>4. \A s \in 1..q.pos : e.items[e.order[s]] = q.items[q.order[s]]
  BY <1>1, <1>3
<1>5. CASE next = e
  BY <1>3, <1>4, <1>5
<1>6. CASE q.pos # None /\ next = MoveTrack(e, n + 1, PlayNextTarget(q))
  <2>1. CASE q.shuffle
    <3>1. PlayNextTarget(q) \in Nat /\ n + 1 \in Nat
      BY <1>1, <1>6 DEF PlayNextTarget, CurrentItemIndex, None
    <3>2. /\ next.pos = e.pos
          /\ \A s \in 1..Len(e.items) : next.items[next.order[s]] = e.items[e.order[s]]
      BY <1>3, <1>6, <2>1, <3>1, ShuffledMoveKeepsOrder
    <3>3. \A s \in 1..q.pos : s \in 1..Len(e.items)
      BY <1>1, <1>3
    <3>4. QED
      BY <1>3, <1>4, <3>2, <3>3
  <2>2. CASE ~q.shuffle
    <3>1. /\ next.pos = q.pos /\ next.order = Identity(n + 1)
          /\ \A i \in 1..q.pos : next.items[i] = q.items[i]
      BY <1>6, <2>2, PlayNextInList
    <3>2. \A s \in 1..q.pos : next.order[s] = s /\ q.order[s] = s
      <4>1. \A s \in 1..q.pos : s \in 1..n /\ s \in 1..(n + 1)
        BY <1>1
      <4>2. q.order = Identity(n)
        BY <2>2 DEF ListOrder
      <4>3. QED
        BY <3>1, <4>1, <4>2 DEF Identity
    <3>3. QED
      BY <3>1, <3>2
  <2>3. QED
    BY <2>1, <2>2
<1>7. QED
  BY <1>2, <1>5, <1>6

\* Switching shuffle on or off keeps the current track current.
LEMMA SetShuffleKeepsCurrent ==
  ASSUME NEW q, WellFormed(q), q.pos # None, NEW enabled \in BOOLEAN,
         NEW set \in SetShuffle(q, enabled)
  PROVE  Current(set) = Current(q)
<1> DEFINE n == Len(q.items)
           keep == q.order[q.pos]
           before == [q EXCEPT !.shuffle = enabled]
<1>1. /\ q \in QueueType /\ n \in Nat /\ q.pos \in 1..n
      /\ keep \in 1..n
  BY LenProperties DEF WellFormed, QueueType, IsPermutation, None
<1>2. CASE set = q
  BY <1>2
<1>3. CASE set \in RebuildOrder(before, keep)
  <2>1. before.items = q.items
    BY <1>1 DEF QueueType
  <2>2. PICK o \in Orders(n) \cup {Identity(n)} :
          set = [before EXCEPT !.order = o, !.pos = SlotOf(o, keep)]
    BY <1>1, <1>3, <2>1 DEF RebuildOrder
  <2>3. o \in Seq(Nat) /\ IsPermutation(o, n)
    BY <1>1, IdentityIsPermutation, OrdersArePermutations
  <2>4. /\ set.items = q.items /\ set.order = o /\ set.pos = SlotOf(o, keep)
    BY <1>1, <2>2 DEF QueueType
  <2> HIDE DEF n, keep
  <2>5. SlotOf(o, keep) \in 1..n /\ o[SlotOf(o, keep)] = keep
    BY <1>1, <2>3, SlotOfProperties
  <2>6. Current(q) = q.items[keep]
    BY DEF Current, keep
  <2>7. QED
    BY <1>1, <2>4, <2>5, <2>6 DEF Current, None
<1>4. QED
  BY <1>2, <1>3 DEF SetShuffle, CurrentItemIndex

\* A piece of a sequence begins with the element at its first index.
LEMMA SubSeqStart ==
  ASSUME NEW s, NEW m \in Int, NEW n \in Int, m <= n, \A i \in m..n : s[i] \in Nat
  PROVE  /\ SubSeq(s, m, n) \in Seq(Nat)
         /\ Len(SubSeq(s, m, n)) = n - m + 1
         /\ SubSeq(s, m, n)[1] = s[m]
<1>1. /\ SubSeq(s, m, n) \in Seq(Nat) /\ Len(SubSeq(s, m, n)) = n - m + 1
      /\ \A i \in 1..(n - m + 1) : SubSeq(s, m, n)[i] = s[m + i - 1]
  BY SubSeqProperties
<1>2. 1 \in 1..(n - m + 1) /\ m + 1 - 1 = m
  OBVIOUS
<1>3. QED
  BY <1>1, <1>2

\* Taking a track out leaves the others in the order in which they play.
LEMMA RemovedKeepsPaths ==
  ASSUME NEW q, WellFormed(q), NEW index \in 1..Len(q.items)
  PROVE  LET left == RemoveItem(q, index)
             kept == RemoveAt(q.order, SlotOf(q.order, index))
         IN  /\ Len(left.order) = Len(q.items) - 1
             /\ Len(kept) = Len(q.items) - 1
             /\ \A s \in 1..(Len(q.items) - 1) :
                  left.items[left.order[s]] = q.items[kept[s]]
<1> DEFINE n == Len(q.items)
           slot == SlotOf(q.order, index)
           kept == RemoveAt(q.order, slot)
           left == RemoveItem(q, index)
<1>1. /\ q \in QueueType /\ q.items \in Seq(Tracks) /\ q.order \in Seq(Nat)
      /\ n \in Nat /\ Len(q.order) = n /\ IsPermutation(q.order, n)
  BY LenProperties DEF WellFormed, QueueType, IsPermutation
<1>2. /\ left.order = CloseGap(kept, index)
      /\ left.items = RemoveAt(q.items, index)
  BY <1>1 DEF RemoveItem, QueueType
<1>3. /\ \A k \in 1..(n - 1) :
           left.items[k] = IF k < index THEN q.items[k] ELSE q.items[k + 1]
  BY <1>1, <1>2, RemoveAtProperties
<1>4. slot \in 1..n /\ q.order[slot] = index
  BY <1>1, SlotOfProperties
<1> HIDE DEF left, slot
<1>5. /\ Len(kept) = n - 1
      /\ \A s \in 1..(n - 1) :
           kept[s] = IF s < slot THEN q.order[s] ELSE q.order[s + 1]
  <2>1. slot \in 1..Len(q.order)
    BY <1>1, <1>4
  <2>2. QED
    BY <1>1, <2>1, RemoveAtProperties
<1> HIDE DEF kept
<1>6. ASSUME NEW s \in 1..(n - 1)
      PROVE  kept[s] \in 1..n /\ kept[s] # index
  <2> DEFINE t == IF s < slot THEN s ELSE s + 1
  <2>1. t \in 1..n /\ t # slot /\ kept[s] = q.order[t]
    BY <1>1, <1>4, <1>5
  <2> HIDE DEF t, n
  <2>2. QED
    BY <1>4, <2>1, <1>1 DEF IsPermutation
<1>7. /\ Len(left.order) = n - 1
      /\ \A s \in 1..(n - 1) :
           left.order[s] = IF kept[s] > index THEN kept[s] - 1 ELSE kept[s]
  <2>1. left.order = [s \in 1..(n - 1) |->
                        IF kept[s] > index THEN kept[s] - 1 ELSE kept[s]]
    BY <1>2, <1>5 DEF CloseGap
  <2>2. left.order \in [1..(n - 1) -> Nat] /\ n - 1 \in Nat
    BY <1>1, <1>4, <1>6, <2>1
  <2>3. QED
    BY <2>1, <2>2, FunctionIsSeq
<1>8. ASSUME NEW s \in 1..(n - 1)
      PROVE  left.items[left.order[s]] = q.items[kept[s]]
  <2>1. /\ kept[s] \in 1..n /\ kept[s] # index
        /\ left.order[s] = IF kept[s] > index THEN kept[s] - 1 ELSE kept[s]
    BY <1>6, <1>7
  <2>2. CASE kept[s] > index
    <3>1. /\ kept[s] - 1 \in 1..(n - 1) /\ ~(kept[s] - 1 < index)
          /\ kept[s] - 1 + 1 = kept[s]
      <4> HIDE DEF n
      <4>1. QED
        BY <1>1, <2>1, <2>2
    <3>2. QED
      BY <1>3, <2>1, <2>2, <3>1
  <2>3. CASE kept[s] < index
    <3>1. kept[s] \in 1..(n - 1)
      <4> HIDE DEF n
      <4>1. QED
        BY <1>1, <1>4, <2>1, <2>3 DEF n
    <3>2. QED
      BY <1>3, <2>1, <2>3, <3>1
  <2>4. kept[s] > index \/ kept[s] < index
    BY <1>1, <2>1
  <2>5. QED
    BY <2>2, <2>3, <2>4
<1>9. QED
  BY <1>5, <1>7, <1>8 DEF left, kept, slot

\* The track that is current after one was taken out.
LEMMA RemovedCurrent ==
  ASSUME NEW q, WellFormed(q), NEW index \in 1..Len(q.items)
  PROVE  LET due == IF CurrentItemIndex(q) # index THEN <<CurrentItemIndex(q)>>
                    ELSE Upcoming(q)
         IN  Current(RemoveItem(q, index)) =
               IF due \in {<<>>, <<None>>} THEN NoTrack ELSE q.items[due[1]]
<1> DEFINE n == Len(q.items)
           slot == SlotOf(q.order, index)
           kept == RemoveAt(q.order, slot)
           left == RemoveItem(q, index)
           due == IF CurrentItemIndex(q) # index THEN <<CurrentItemIndex(q)>>
                  ELSE Upcoming(q)
<1>1. /\ q \in QueueType /\ q.order \in Seq(Nat) /\ q.pos \in 0..n
      /\ n \in Nat /\ Len(q.order) = n /\ IsPermutation(q.order, n)
  BY LenProperties DEF WellFormed, QueueType, IsPermutation
<1>2. slot \in 1..n /\ q.order[slot] = index
  BY <1>1, SlotOfProperties
<1>3. left.pos = PosAfterRemove(q.pos, slot, n - 1)
  BY <1>1, RemovedKeepsPaths DEF RemoveItem, QueueType
<1>4. \A s \in 1..(n - 1) : left.items[left.order[s]] = q.items[kept[s]]
  BY RemovedKeepsPaths
<1> HIDE DEF left, slot
<1>5. \A s \in 1..(n - 1) : kept[s] = IF s < slot THEN q.order[s] ELSE q.order[s + 1]
  <2>1. slot \in 1..Len(q.order)
    BY <1>1, <1>2
  <2>2. QED
    BY <1>1, <2>1, RemoveAtProperties
<1> HIDE DEF kept
<1>6. \A s \in 1..n : q.order[s] \in 1..n /\ (q.order[s] = index => s = slot)
  BY <1>1, <1>2 DEF IsPermutation
<1> HIDE DEF n
<1>7. CASE q.pos = 0
  <2>1. left.pos = None
    BY <1>2, <1>3, <1>7 DEF PosAfterRemove, None
  <2>2. due = <<None>>
    BY <1>2, <1>7 DEF CurrentItemIndex, None, n
  <2>3. QED
    BY <2>1, <2>2 DEF Current, left
<1>8. CASE q.pos # 0 /\ q.pos # slot
  <2> DEFINE here == IF slot < q.pos THEN q.pos - 1 ELSE q.pos
  <2>1. left.pos = here /\ here \in 1..(n - 1)
    BY <1>1, <1>2, <1>3, <1>8 DEF PosAfterRemove, None
  <2>2. kept[here] = q.order[q.pos]
    BY <1>1, <1>2, <1>5, <1>8
  <2>3. Current(left) = q.items[q.order[q.pos]]
    BY <1>4, <2>1, <2>2 DEF Current, None
  <2>4. CurrentItemIndex(q) = q.order[q.pos]
    BY <1>8 DEF CurrentItemIndex, None
  <2>5. q.order[q.pos] # index /\ q.order[q.pos] # None
    BY <1>1, <1>6, <1>8 DEF None
  <2>6. due = <<q.order[q.pos]>>
    BY <2>4, <2>5
  <2>7. QED
    BY <2>3, <2>5, <2>6 DEF left
<1>9. CASE q.pos # 0 /\ q.pos = slot
  <2>1. due = SubSeq(q.order, q.pos + 1, n)
    BY <1>1, <1>2, <1>9 DEF CurrentItemIndex, None, Upcoming
  <2>2. CASE q.pos = n
    <3>1. q.pos + 1 \in Int /\ n \in Int /\ n < q.pos + 1
      BY <1>1, <2>2
    <3>2. SubSeq(q.order, q.pos + 1, n) = <<>>
      BY <3>1, SubSeqEmpty
    <3>3. due = <<>>
      BY <2>1, <3>2
    <3>4. left.pos = None
      BY <1>1, <1>2, <1>3, <1>9, <2>2 DEF PosAfterRemove, None
    <3>5. QED
      BY <3>3, <3>4 DEF Current, left
  <2>3. CASE q.pos < n
    <3>1. \A s \in (q.pos + 1)..n : q.order[s] \in Nat
      BY <1>1, <1>6
    <3> DEFINE coming == SubSeq(q.order, q.pos + 1, n)
    <3>2. Len(due) = n - q.pos /\ due[1] = q.order[q.pos + 1] /\ due \in Seq(Nat)
      <4>1. q.pos + 1 \in Int /\ n \in Int /\ q.pos + 1 <= n
        BY <1>1, <2>3
      <4>2. /\ coming \in Seq(Nat) /\ Len(coming) = n - (q.pos + 1) + 1
            /\ coming[1] = q.order[q.pos + 1]
        BY <3>1, <4>1, SubSeqStart
      <4> HIDE DEF coming
      <4>3. Len(coming) = n - q.pos
        BY <1>1, <4>2
      <4>4. QED
        BY <2>1, <4>2, <4>3 DEF coming
    <3>3. q.order[q.pos + 1] \in 1..n
      BY <1>1, <1>6, <2>3
    <3> HIDE DEF due
    <3>4. due \notin {<<>>, <<None>>}
      BY <1>1, <2>3, <3>2, <3>3 DEF None
    <3>5. left.pos = q.pos /\ q.pos \in 1..(n - 1)
      BY <1>1, <1>2, <1>3, <1>9, <2>3 DEF PosAfterRemove, None
    <3>6. kept[q.pos] = q.order[q.pos + 1]
      BY <1>1, <1>5, <1>9, <3>5
    <3>7. Current(left) = q.items[due[1]]
      <4>1. left.items[left.order[q.pos]] = q.items[kept[q.pos]]
        BY <1>4, <3>5
      <4>2. left.pos # None
        BY <3>5 DEF None
      <4>3. Current(left) = left.items[left.order[left.pos]]
        BY <4>2 DEF Current
      <4>4. QED
        BY <3>2, <3>5, <3>6, <4>1, <4>3
    <3>8. QED
      BY <3>4, <3>7 DEF due, left
  <2>4. QED
    BY <1>1, <2>2, <2>3
<1>10. QED
  BY <1>7, <1>8, <1>9

\* Whatever calls came before, no edit of the list changes what has been
\* played, and moving and shuffling keep the current track current.
THEOREM SpecEditsKeepPlayed == Spec => []EditsKeepPlayed
<1>1. QueueOK /\ ListOrderUnlessShuffled => EditsKeepPlayed
  <2> SUFFICES ASSUME WellFormed(queue), ListOrder(queue),
                      NEW track \in Tracks, NEW from \in Indices, NEW to \in Indices,
                      NEW enabled \in BOOLEAN
               PROVE  /\ \A edited \in Enqueue(queue, track) \cup PlayNext(queue, track)
                              \cup (IF queue.shuffle THEN {MoveTrack(queue, from, to)} ELSE {}) :
                            Played(edited) = Played(queue)
                      /\ \A edited \in {MoveTrack(queue, from, to)}
                              \cup (IF queue.pos # None THEN SetShuffle(queue, enabled) ELSE {}) :
                            Current(edited) = Current(queue)
    BY DEF QueueOK, ListOrderUnlessShuffled, ListOrder, EditsKeepPlayed
  <2>1. /\ queue.pos \in 0..Len(queue.items) /\ Len(queue.items) \in Nat
        /\ \A s \in 1..Len(queue.items) : queue.order[s] \in 1..Len(queue.items)
    BY LenProperties DEF WellFormed, QueueType, IsPermutation
  <2>2. from \in Nat /\ to \in Nat
    BY IndicesAreNat
  <2>3. ASSUME NEW edited \in Enqueue(queue, track) \cup PlayNext(queue, track)
                 \cup (IF queue.shuffle THEN {MoveTrack(queue, from, to)} ELSE {})
        PROVE  Played(edited) = Played(queue)
    <3>1. /\ edited.pos = queue.pos
          /\ \A s \in 1..queue.pos :
               edited.items[edited.order[s]] = queue.items[queue.order[s]]
      <4>1. CASE edited \in Enqueue(queue, track)
        BY <2>1, <4>1, EnqueueKeepsSlots
      <4>2. CASE edited \in PlayNext(queue, track)
        BY <4>2, PlayNextKeepsPlayed
      <4>3. CASE queue.shuffle /\ edited = MoveTrack(queue, from, to)
        BY <2>1, <2>2, <4>3, ShuffledMoveKeepsOrder
      <4>4. QED
        BY <2>3, <4>1, <4>2, <4>3
    <3>2. QED
      BY <3>1 DEF Played
  <2>4. ASSUME NEW edited \in {MoveTrack(queue, from, to)}
                 \cup (IF queue.pos # None THEN SetShuffle(queue, enabled) ELSE {})
        PROVE  Current(edited) = Current(queue)
    <3>1. CASE edited = MoveTrack(queue, from, to)
      BY <2>2, <3>1, MoveTrackKeepsCurrent
    <3>2. CASE queue.pos # None /\ edited \in SetShuffle(queue, enabled)
      BY <3>2, SetShuffleKeepsCurrent
    <3>3. QED
      BY <2>4, <3>1, <3>2
  <2>5. QED
    BY <2>3, <2>4
<1>2. QED
  BY <1>1, SpecQueueOK, SpecListOrderUnlessShuffled, PTL

\* Whatever calls came before, removing a track leaves the order of the
\* others, and with shuffle off a track queued to play next plays next.
THEOREM SpecEditsKeepUpcoming == Spec => []EditsKeepUpcoming
<1>1. QueueOK /\ ListOrderUnlessShuffled => EditsKeepUpcoming
  <2> SUFFICES ASSUME WellFormed(queue), ListOrder(queue)
               PROVE  RemoveKeepsOrder /\ PlayNextIsNextInList
    BY DEF QueueOK, ListOrderUnlessShuffled, ListOrder, EditsKeepUpcoming
  <2>1. ASSUME NEW index \in 1..Len(queue.items)
        PROVE  LET left == RemoveItem(queue, index)
                   kept == RemoveAt(queue.order, SlotOf(queue.order, index))
               IN  PathsAt(left, left.order) = PathsAt(queue, kept)
    <3> DEFINE left == RemoveItem(queue, index)
               kept == RemoveAt(queue.order, SlotOf(queue.order, index))
    <3>1. /\ Len(left.order) = Len(queue.items) - 1
          /\ Len(kept) = Len(queue.items) - 1
          /\ \A s \in 1..(Len(queue.items) - 1) :
               left.items[left.order[s]] = queue.items[kept[s]]
      BY RemovedKeepsPaths
    <3> HIDE DEF left, kept
    <3>2. PathsAt(left, left.order) = PathsAt(queue, kept)
      BY <3>1 DEF PathsAt
    <3>3. QED
      BY <3>2 DEF left, kept
  <2>2. RemoveKeepsOrder
    BY <2>1, RemovedCurrent DEF RemoveKeepsOrder
  <2>3. ASSUME queue.pos # None, ~queue.shuffle, NEW track \in Tracks,
               NEW next \in PlayNext(queue, track)
        PROVE  PlaysNext(next, track)
    <3> DEFINE n == Len(queue.items)
               coming == SubSeq(next.order, next.pos + 1, Len(next.order))
    <3>1. n \in Nat /\ queue.pos \in 1..n
      BY <2>3, LenProperties DEF WellFormed, QueueType, None
    <3>2. /\ next.pos = queue.pos /\ Len(next.order) = n + 1
          /\ next.order = Identity(n + 1) /\ next.items[queue.pos + 1] = track
      BY <2>3, PlayNextInList
    <3> HIDE DEF n
    <3>3. \A s \in 1..(n + 1) : next.order[s] = s
      BY <3>2 DEF Identity
    <3>4. \A s \in (queue.pos + 1)..(n + 1) : next.order[s] \in Nat
      BY <3>1, <3>3
    <3>5. /\ coming \in Seq(Nat) /\ Len(coming) = n + 1 - queue.pos
          /\ coming[1] = next.order[queue.pos + 1]
      BY <3>1, <3>2, <3>4, SubSeqProperties
    <3> HIDE DEF coming
    <3>6. coming # <<>> /\ coming[1] = queue.pos + 1
      <4>1. queue.pos + 1 \in 1..(n + 1) /\ n + 1 - queue.pos > 0
        BY <3>1
      <4>2. QED
        BY <3>3, <3>5, <4>1, EmptySeq
    <3>7. QED
      BY <3>2, <3>6 DEF PlaysNext, Upcoming, coming
  <2>4. PlayNextIsNextInList
    BY <2>3 DEF PlayNextIsNextInList
  <2>5. QED
    BY <2>2, <2>4
<1>2. QED
  BY <1>1, SpecQueueOK, SpecListOrderUnlessShuffled, PTL
=============================================================================
