--------------------------- MODULE ShuffleProofs ---------------------------
(***************************************************************************)
(* Why the scoped shuffle keeps its promise, for scopes of any length:     *)
(* bag and history never share an index nor hold one twice, and every call *)
(* is a step of OncePerCycle or none.                                      *)
(***************************************************************************)
EXTENDS ShuffleSpec, FiniteSetTheorems, SequenceTheorems, TLAPS

(***************************************************************************)
(* Sequences and orders.                                                   *)
(***************************************************************************)

\* A function on 1..n is a sequence of length n.
LEMMA FunctionIsSeq ==
  ASSUME NEW S, NEW n \in Nat, NEW f \in [1..n -> S]
  PROVE  f \in Seq(S) /\ Len(f) = n
<1>1. f \in Seq(S)
  BY SeqDef
<1>2. DOMAIN f = 1..Len(f) /\ Len(f) \in Nat
  BY <1>1, LenProperties
<1>3. 1..Len(f) = 1..n
  BY <1>2
<1>4. Len(f) = n
  BY <1>2, <1>3
<1>5. QED
  BY <1>1, <1>4

\* What RemoveAt leaves, element by element.
LEMMA RemoveAtProperties ==
  ASSUME NEW S, NEW s \in Seq(S), NEW i \in 1..Len(s)
  PROVE  /\ RemoveAt(s, i) \in Seq(S)
         /\ Len(RemoveAt(s, i)) = Len(s) - 1
         /\ \A k \in 1..(Len(s) - 1) :
              RemoveAt(s, i)[k] = IF k < i THEN s[k] ELSE s[k + 1]
<1> DEFINE front == SubSeq(s, 1, i - 1)
           back  == SubSeq(s, i + 1, Len(s))
<1>1. Len(s) \in Nat /\ \A k \in 1..Len(s) : s[k] \in S
  BY LenProperties, ElementOfSeq
<1>2. front \in Seq(S) /\ Len(front) = i - 1
      /\ \A k \in 1..(i - 1) : front[k] = s[k]
  BY <1>1, SubSeqProperties
<1>3. back \in Seq(S) /\ Len(back) = Len(s) - i
      /\ \A k \in 1..(Len(s) - i) : back[k] = s[i + k]
  BY <1>1, SubSeqProperties
<1>4. RemoveAt(s, i) = front \o back
  BY DEF RemoveAt
<1> HIDE DEF front, back
<1>5. /\ front \o back \in Seq(S)
      /\ Len(front \o back) = Len(front) + Len(back)
      /\ \A k \in 1..(Len(front) + Len(back)) :
           (front \o back)[k] =
             IF k <= Len(front) THEN front[k] ELSE back[k - Len(front)]
  BY <1>2, <1>3, ConcatProperties
<1>6. Len(front) + Len(back) = Len(s) - 1
  BY <1>1, <1>2, <1>3
<1> DEFINE both == front \o back
<1>8. /\ both \in Seq(S)
      /\ Len(both) = Len(s) - 1
      /\ \A k \in 1..(Len(s) - 1) :
           both[k] = IF k <= i - 1 THEN front[k] ELSE back[k - (i - 1)]
  BY <1>5, <1>6, <1>2
<1>9. both = RemoveAt(s, i)
  BY <1>4
<1> HIDE DEF both
<1>10. ASSUME NEW k \in 1..(Len(s) - 1)
       PROVE  both[k] = IF k < i THEN s[k] ELSE s[k + 1]
  <2>1. CASE k < i
    BY <1>1, <1>2, <1>8, <2>1
  <2>2. CASE k >= i
    <3>1. k - (i - 1) \in 1..(Len(s) - i) /\ i + (k - (i - 1)) = k + 1
      BY <1>1, <2>2
    <3>2. back[k - (i - 1)] = s[k + 1]
      BY <1>3, <3>1
    <3>3. QED
      BY <1>1, <1>8, <2>2, <3>2
  <2>3. QED
    BY <1>1, <2>1, <2>2
<1>11. QED
  BY <1>8, <1>9, <1>10

LEMMA OrdersArePermutations ==
  ASSUME NEW n \in Nat, NEW order \in Orders(n)
  PROVE  order \in Seq(Nat) /\ IsPermutation(order, n)
<1>1. order \in [1..n -> Nat] /\ IsPermutation(order, n)
  BY DEF Orders
<1>2. QED
  BY <1>1, FunctionIsSeq

\* is_permutation checks the length, the range and that nothing repeats;
\* by the pigeonhole principle every index then has a slot.
LEMMA PermutationIsOnto ==
  ASSUME NEW n \in Nat, NEW order \in Seq(Nat), IsPermutation(order, n),
         NEW index \in 1..n
  PROVE  \E s \in 1..n : order[s] = index
<1>1. order \in [1..n -> 1..n]
  <2>1. Len(order) = n /\ order \in [1..Len(order) -> Nat]
    BY LenProperties DEF IsPermutation
  <2>2. QED
    BY <2>1 DEF IsPermutation
<1>2. order \in Injection(1..n, 1..n)
  BY <1>1 DEF IsPermutation, Injection, IsInjective
<1>3. IsFiniteSet(1..n)
  BY FS_Interval
<1>4. order \in Surjection(1..n, 1..n)
  BY <1>2, <1>3, FS_Injection
<1>5. QED
  BY <1>4 DEF Surjection

(***************************************************************************)
(* The indices of a sequence.                                              *)
(***************************************************************************)

\* No index twice: what bag and history are, each for itself.
Distinct(s) == s \in Seq(Nat) /\ IsInjective(s)

LEMMA ToSetIs ==
  ASSUME NEW s \in Seq(Nat)
  PROVE  /\ \A i \in 1..Len(s) : s[i] \in ToSet(s)
         /\ \A x \in ToSet(s) : \E i \in 1..Len(s) : s[i] = x
         /\ ToSet(s) \subseteq Nat
         /\ IsInjective(s) <=> \A i, j \in 1..Len(s) : s[i] = s[j] => i = j
         /\ Len(s) \in Nat
  BY LenProperties, ElementOfSeq DEF ToSet, IsInjective

\* How the two are shown of a sequence.
LEMMA DistinctBy ==
  ASSUME NEW s \in Seq(Nat), \A i, j \in 1..Len(s) : s[i] = s[j] => i = j
  PROVE  Distinct(s)
  BY ToSetIs DEF Distinct

LEMMA ToSetBy ==
  ASSUME NEW s \in Seq(Nat), NEW S,
         \A i \in 1..Len(s) : s[i] \in S,
         \A x \in S : \E i \in 1..Len(s) : s[i] = x
  PROVE  ToSet(s) = S
<1>1. DOMAIN s = 1..Len(s)
  BY LenProperties
<1> QED
  BY <1>1 DEF ToSet

LEMMA EmptyIs == Distinct(<<>>) /\ ToSet(<<>>) = {} /\ Len(<<>>) = 0
  BY EmptySeq DEF Distinct, ToSet, IsInjective

LEMMA OrderIs ==
  ASSUME NEW n \in Nat, NEW order \in Orders(n)
  PROVE  Distinct(order) /\ ToSet(order) = 1..n /\ Len(order) = n
<1>1. order \in Seq(Nat) /\ IsPermutation(order, n)
  BY OrdersArePermutations
<1>2. /\ Len(order) = n
      /\ \A s \in 1..n : order[s] \in 1..n
      /\ \A s, t \in 1..n : order[s] = order[t] => s = t
  BY <1>1 DEF IsPermutation
<1>3. \A i \in 1..n : \E s \in 1..n : order[s] = i
  BY <1>1, PermutationIsOnto
<1> QED
  BY <1>1, <1>2, <1>3, DistinctBy, ToSetBy

LEMMA AppendIs ==
  ASSUME NEW s, Distinct(s), NEW x \in Nat, x \notin ToSet(s)
  PROVE  /\ Distinct(Append(s, x))
         /\ ToSet(Append(s, x)) = ToSet(s) \cup {x}
         /\ Len(Append(s, x)) = Len(s) + 1
         /\ \A i \in 1..Len(s) : Append(s, x)[i] = s[i]
         /\ Append(s, x)[Len(s) + 1] = x
<1> DEFINE t == Append(s, x)
<1>1. /\ t \in Seq(Nat) /\ Len(t) = Len(s) + 1
      /\ \A i \in 1..Len(s) : t[i] = s[i]
      /\ t[Len(s) + 1] = x
  BY AppendProperties DEF Distinct
<1> HIDE DEF t
<1>2. /\ Len(s) \in Nat
      /\ \A i \in 1..Len(s) : s[i] \in ToSet(s)
      /\ \A y \in ToSet(s) : \E i \in 1..Len(s) : s[i] = y
      /\ \A i, j \in 1..Len(s) : s[i] = s[j] => i = j
  BY ToSetIs DEF Distinct
<1>3. \A i, j \in 1..Len(t) : t[i] = t[j] => i = j
  BY <1>1, <1>2
<1>4. ToSet(t) = ToSet(s) \cup {x}
  <2>1. \A i \in 1..Len(t) : t[i] \in ToSet(s) \cup {x}
    BY <1>1, <1>2
  <2>2. \A y \in ToSet(s) \cup {x} : \E i \in 1..Len(t) : t[i] = y
    BY <1>1, <1>2
  <2> QED
    BY <1>1, <2>1, <2>2, ToSetBy
<1> QED
  BY <1>1, <1>3, <1>4, DistinctBy DEF t

\* The first entries of a sequence.
LEMMA PrefixIs ==
  ASSUME NEW s, Distinct(s), NEW n \in 0..Len(s)
  PROVE  /\ Distinct(SubSeq(s, 1, n))
         /\ Len(SubSeq(s, 1, n)) = n
         /\ \A i \in 1..n : SubSeq(s, 1, n)[i] = s[i]
         /\ ToSet(SubSeq(s, 1, n)) \subseteq ToSet(s)
<1> DEFINE t == SubSeq(s, 1, n)
<1>0. /\ Len(s) \in Nat
      /\ \A i \in 1..Len(s) : s[i] \in ToSet(s) /\ s[i] \in Nat
      /\ \A i, j \in 1..Len(s) : s[i] = s[j] => i = j
  BY ToSetIs DEF Distinct
<1>1. t \in Seq(Nat) /\ Len(t) = n /\ \A i \in 1..n : t[i] = s[i]
  BY <1>0, SubSeqProperties
<1> HIDE DEF t
<1>2. \A i, j \in 1..Len(t) : t[i] = t[j] => i = j
  BY <1>0, <1>1
<1>3. \A y \in ToSet(t) : y \in ToSet(s)
  BY <1>0, <1>1, ToSetIs
<1> QED
  BY <1>1, <1>2, <1>3, DistinctBy DEF t

\* A sequence without the entry at i.
LEMMA RemoveAtIs ==
  ASSUME NEW s, Distinct(s), NEW i \in 1..Len(s)
  PROVE  /\ Distinct(RemoveAt(s, i))
         /\ ToSet(RemoveAt(s, i)) = ToSet(s) \ {s[i]}
<1> DEFINE t == RemoveAt(s, i)
<1>0. /\ Len(s) \in Nat
      /\ \A k \in 1..Len(s) : s[k] \in ToSet(s)
      /\ \A y \in ToSet(s) : \E k \in 1..Len(s) : s[k] = y
      /\ \A j, k \in 1..Len(s) : s[j] = s[k] => j = k
  BY ToSetIs DEF Distinct
<1>1. /\ t \in Seq(Nat) /\ Len(t) = Len(s) - 1
      /\ \A k \in 1..(Len(s) - 1) : t[k] = IF k < i THEN s[k] ELSE s[k + 1]
  BY RemoveAtProperties DEF Distinct
<1> HIDE DEF t
<1>2. \A j, k \in 1..Len(t) : t[j] = t[k] => j = k
  <2> TAKE j, k \in 1..Len(t)
  <2>1. /\ j + 1 \in 1..Len(s) /\ j \in 1..Len(s)
        /\ k + 1 \in 1..Len(s) /\ k \in 1..Len(s)
    BY <1>0, <1>1
  <2>2. /\ t[j] = IF j < i THEN s[j] ELSE s[j + 1]
        /\ t[k] = IF k < i THEN s[k] ELSE s[k + 1]
    BY <1>1
  <2>3. t[j] = t[k] => (IF j < i THEN j ELSE j + 1) = (IF k < i THEN k ELSE k + 1)
    BY <1>0, <2>1, <2>2
  <2> QED
    BY <2>1, <2>3
<1>3. \A k \in 1..Len(t) : t[k] \in ToSet(s) \ {s[i]}
  <2> TAKE k \in 1..Len(t)
  <2>1. CASE k < i
    BY <1>0, <1>1, <2>1
  <2>2. CASE k >= i
    <3>1. t[k] = s[k + 1] /\ k + 1 \in 1..Len(s) /\ k + 1 # i
      BY <1>0, <1>1, <2>2
    <3> QED
      BY <1>0, <3>1
  <2> QED
    BY <1>0, <1>1, <2>1, <2>2
<1>4. \A y \in ToSet(s) \ {s[i]} : \E k \in 1..Len(t) : t[k] = y
  <2> TAKE y \in ToSet(s) \ {s[i]}
  <2>1. PICK k \in 1..Len(s) : s[k] = y /\ k # i
    BY <1>0
  <2>2. CASE k < i
    BY <1>0, <1>1, <2>1, <2>2
  <2>3. CASE k > i
    <3>1. k - 1 \in 1..Len(t) /\ t[k - 1] = y
      BY <1>0, <1>1, <2>1, <2>3
    <3> QED
      BY <3>1
  <2> QED
    BY <1>0, <2>1, <2>2, <2>3
<1> QED
  BY <1>1, <1>2, <1>3, <1>4, DistinctBy, ToSetBy DEF t

\* The last entry and those in front of it.
LEMMA FrontIs ==
  ASSUME NEW s, Distinct(s), s # <<>>
  PROVE  /\ Distinct(Front(s))
         /\ Last(s) \in ToSet(s)
         /\ ToSet(Front(s)) = ToSet(s) \ {Last(s)}
         /\ Len(Front(s)) = Len(s) - 1
<1> DEFINE n == Len(s) - 1
           t == SubSeq(s, 1, n)
<1>0. /\ Len(s) \in Nat \ {0}
      /\ \A k \in 1..Len(s) : s[k] \in ToSet(s)
      /\ \A y \in ToSet(s) : \E k \in 1..Len(s) : s[k] = y
      /\ \A j, k \in 1..Len(s) : s[j] = s[k] => j = k
  BY ToSetIs, EmptySeq DEF Distinct
<1>1. Front(s) = t /\ Last(s) = s[Len(s)]
  BY DEF Front, Last
<1>2. n \in 0..Len(s)
  BY <1>0
<1> HIDE DEF n
<1>3. Distinct(t) /\ Len(t) = n /\ \A i \in 1..n : t[i] = s[i]
  BY <1>2, PrefixIs
<1> HIDE DEF t
<1>4. \A i \in 1..Len(t) : t[i] \in ToSet(s) \ {s[Len(s)]}
  BY <1>0, <1>3 DEF n
<1>5. \A y \in ToSet(s) \ {s[Len(s)]} : \E i \in 1..Len(t) : t[i] = y
  BY <1>0, <1>3 DEF n
<1>6. ToSet(t) = ToSet(s) \ {s[Len(s)]}
  BY <1>3, <1>4, <1>5, ToSetBy DEF Distinct
<1> QED
  BY <1>0, <1>1, <1>3, <1>6 DEF n

\* A sequence with one more entry in front.
LEMMA PushedFrontIs ==
  ASSUME NEW s, Distinct(s), NEW x \in Nat, x \notin ToSet(s)
  PROVE  Distinct(<<x>> \o s) /\ ToSet(<<x>> \o s) = ToSet(s) \cup {x}
<1> DEFINE t == <<x>> \o s
<1>0. /\ Len(s) \in Nat
      /\ \A k \in 1..Len(s) : s[k] \in ToSet(s)
      /\ \A y \in ToSet(s) : \E k \in 1..Len(s) : s[k] = y
      /\ \A j, k \in 1..Len(s) : s[j] = s[k] => j = k
  BY ToSetIs DEF Distinct
<1>1. <<x>> \in Seq(Nat) /\ Len(<<x>>) = 1 /\ <<x>>[1] = x
  OBVIOUS
<1>2. /\ t \in Seq(Nat) /\ Len(t) = Len(s) + 1
      /\ \A k \in 1..(Len(s) + 1) : t[k] = IF k <= 1 THEN x ELSE s[k - 1]
  BY <1>0, <1>1, ConcatProperties DEF Distinct
<1> HIDE DEF t
<1>3. t[1] = x /\ \A k \in 1..Len(s) : t[k + 1] = s[k]
  <2>1. t[1] = x
    BY <1>0, <1>2
  <2>2. ASSUME NEW k \in 1..Len(s) PROVE t[k + 1] = s[k]
    <3>1. k + 1 \in 1..(Len(s) + 1) /\ ~(k + 1 <= 1) /\ (k + 1) - 1 = k
      BY <1>0
    <3> QED
      BY <1>2, <3>1
  <2> QED
    BY <2>1, <2>2
<1>4. \A j, k \in 1..Len(t) : t[j] = t[k] => j = k
  <2> TAKE j, k \in 1..Len(t)
  <2>1. /\ j # 1 => j - 1 \in 1..Len(s) /\ t[j] = s[j - 1]
        /\ k # 1 => k - 1 \in 1..Len(s) /\ t[k] = s[k - 1]
    BY <1>0, <1>2
  <2>2. j # 1 /\ k # 1 /\ t[j] = t[k] => j - 1 = k - 1
    BY <1>0, <2>1
  <2>3. j # 1 => t[j] # x
    BY <1>0, <2>1
  <2>4. k # 1 => t[k] # x
    BY <1>0, <2>1
  <2> QED
    BY <1>0, <1>2, <1>3, <2>2, <2>3, <2>4
<1>5. \A k \in 1..Len(t) : t[k] \in ToSet(s) \cup {x}
  <2> TAKE k \in 1..Len(t)
  <2>1. CASE k = 1
    BY <1>3, <2>1
  <2>2. CASE k # 1
    <3>1. k - 1 \in 1..Len(s) /\ t[k] = s[k - 1]
      BY <1>0, <1>2, <2>2
    <3> QED
      BY <1>0, <3>1
  <2> QED
    BY <2>1, <2>2
<1>6. \A y \in ToSet(s) \cup {x} : \E k \in 1..Len(t) : t[k] = y
  <2> TAKE y \in ToSet(s) \cup {x}
  <2>1. CASE y = x
    BY <1>0, <1>2, <1>3, <2>1
  <2>2. CASE y \in ToSet(s)
    <3>1. PICK k \in 1..Len(s) : s[k] = y
      BY <1>0, <2>2
    <3>2. k + 1 \in 1..Len(t) /\ t[k + 1] = y
      BY <1>0, <1>2, <1>3, <3>1
    <3> QED
      BY <3>2
  <2> QED
    BY <2>1, <2>2
<1> QED
  BY <1>2, <1>4, <1>5, <1>6, DistinctBy, ToSetBy DEF t

-----------------------------------------------------------------------------
(***************************************************************************)
(* The inductive invariant, stated of one source q: ShuffleInRange and     *)
(* NoTrackTwice together.                                                  *)
(***************************************************************************)
Sound(q) ==
  /\ q \in SourceType
  /\ Distinct(q.bag) /\ Distinct(q.history)
  /\ ToSet(q.bag) \subseteq 1..Len(q.items)
  /\ ToSet(q.history) \subseteq 1..Len(q.items)
  /\ ToSet(q.bag) \cap ToSet(q.history) = {}
  /\ q.cursor \in 1..Len(q.history) \/ (q.history = <<>> /\ q.cursor = 1)

LEMMA SoundMeans ==
  ASSUME NEW q, Sound(q)
  PROVE  /\ InRange(q) /\ NoneTwice(q)
         /\ Len(q.items) \in Nat /\ Len(q.bag) \in Nat /\ Len(q.history) \in Nat
         /\ q.cursor \in Nat \ {0}
<1>1. /\ q.items \in Seq(Tracks) /\ q.bag \in Seq(Nat) /\ q.history \in Seq(Nat)
      /\ q.cursor \in Nat
  BY DEF Sound, SourceType
<1>2. Len(q.items) \in Nat /\ Len(q.bag) \in Nat /\ Len(q.history) \in Nat
  BY <1>1, LenProperties
<1>3. /\ \A s \in 1..Len(q.bag) : q.bag[s] \in 1..Len(q.items)
      /\ \A s \in 1..Len(q.history) : q.history[s] \in 1..Len(q.items)
  BY <1>1, ToSetIs DEF Sound
<1>4. q.cursor >= 1 /\ (q.cursor <= Len(q.history) \/ (q.history = <<>> /\ q.cursor = 1))
  BY <1>2 DEF Sound
<1>5. InRange(q)
  BY <1>3, <1>4 DEF Sound, InRange
<1>6. NoneTwice(q)
  BY DEF Sound, Distinct, NoneTwice
<1> QED
  BY <1>1, <1>2, <1>4, <1>5, <1>6

\* The current track is one the history holds, or there is none yet.
LEMMA CurrentIs ==
  ASSUME NEW q, Sound(q)
  PROVE  /\ q.history = <<>> => CurrentItemIndex(q) = 0
         /\ q.history # <<>> => /\ CurrentItemIndex(q) = q.history[q.cursor]
                                /\ CurrentItemIndex(q) \in ToSet(q.history)
                                /\ CurrentItemIndex(q) # 0
<1>1. q.history = <<>> => Len(q.history) = 0 /\ q.cursor = 1
  BY SoundMeans, EmptySeq DEF Sound
<1>2. q.history # <<>> => q.cursor \in 1..Len(q.history)
  BY DEF Sound
<1>3. q.cursor \in 1..Len(q.history) => q.history[q.cursor] \in ToSet(q.history)
  BY ToSetIs DEF Sound, Distinct
<1>4. 0 \notin ToSet(q.history)
  BY DEF Sound
<1>5. q.history = <<>> => CurrentItemIndex(q) = 0
  BY <1>1 DEF CurrentItemIndex, None
<1>6. q.history # <<>> => CurrentItemIndex(q) = q.history[q.cursor]
  BY <1>2, SoundMeans DEF CurrentItemIndex
<1> QED
  BY <1>2, <1>3, <1>4, <1>5, <1>6

-----------------------------------------------------------------------------
(***************************************************************************)
(* What a call does to a scope, as its listener sees it.                   *)
(***************************************************************************)
Same(q, r) == Len(r.items) = Len(q.items) /\ r.repeat = q.repeat

\* r plays i, a pending track of q.
Draws(q, r, i) ==
  /\ Same(q, r)
  /\ i \in ToSet(q.bag)
  /\ ToSet(r.bag) = ToSet(q.bag) \ {i}
  /\ CurrentItemIndex(r) = i
  /\ ToSet(r.history) \subseteq ToSet(q.history) \cup {i}
  /\ {CurrentItemIndex(q), i} \ {0} \subseteq ToSet(r.history)

\* r is at another place of the history of q.
Walks(q, r) ==
  /\ Same(q, r) /\ r.bag = q.bag /\ r.history = q.history
  /\ CurrentItemIndex(r) \in ToSet(q.history)

\* r plays i, the first of a new cycle.
Renews(q, r, i) ==
  /\ Same(q, r)
  /\ q.repeat = "All" /\ q.bag = <<>>
  /\ i \in 1..Len(q.items)
  /\ ToSet(r.bag) = 1..Len(q.items) \ {i}
  /\ ToSet(r.history) = {i}
  /\ CurrentItemIndex(r) = i

Navigates(q, r) ==
  \/ r = q
  \/ Walks(q, r)
  \/ \E i \in 1..Len(q.items) : Draws(q, r, i) \/ Renews(q, r, i)

-----------------------------------------------------------------------------
(***************************************************************************)
(* The methods.                                                            *)
(***************************************************************************)

\* A fresh track goes on top of the history that is kept.
LEMMA PlayFreshIs ==
  ASSUME NEW q, Sound(q), NEW i \in 1..Len(q.items),
         i \notin ToSet(q.bag), i \notin ToSet(q.history)
  PROVE  LET r == PlayFresh(q, i)
         IN  /\ Sound(r)
             /\ r.bag = q.bag /\ r.items = q.items /\ r.repeat = q.repeat
             /\ CurrentItemIndex(r) = i
             /\ ToSet(r.history) \subseteq ToSet(q.history) \cup {i}
             /\ {CurrentItemIndex(q), i} \ {0} \subseteq ToSet(r.history)
             /\ q.history = <<>> => ToSet(r.history) = {i}
             /\ Len(r.history) = r.cursor
             /\ q.history # <<>> => r.cursor = q.cursor + 1 /\ r.history[q.cursor] = q.history[q.cursor]
<1> DEFINE r == PlayFresh(q, i)
           kept == IF q.history = <<>> THEN <<>> ELSE SubSeq(q.history, 1, q.cursor)
           n == IF q.history = <<>> THEN 0 ELSE q.cursor
<1>0. /\ i \in Nat /\ Len(q.items) \in Nat /\ Len(q.history) \in Nat
      /\ q.history = <<>> => Len(q.history) = 0 /\ ToSet(q.history) = {}
      /\ q.history # <<>> => q.cursor \in 1..Len(q.history)
      /\ Distinct(q.history)
  BY SoundMeans, EmptyIs DEF Sound
<1>1. /\ Distinct(kept) /\ Len(kept) = n /\ ToSet(kept) \subseteq ToSet(q.history)
      /\ \A s \in 1..n : kept[s] = q.history[s]
  <2>1. CASE q.history = <<>>
    BY <2>1, EmptyIs
  <2>2. CASE q.history # <<>>
    <3>1. q.cursor \in 0..Len(q.history)
      BY <1>0, <2>2
    <3> QED
      BY <1>0, <2>2, <3>1, PrefixIs
  <2> QED
    BY <2>1, <2>2
<1>2. r = [q EXCEPT !.history = Append(kept, i), !.cursor = Len(kept) + 1]
  BY DEF PlayFresh
<1>3. n \in 0..Len(q.history)
  BY <1>0
<1> HIDE DEF kept
<1>4. i \notin ToSet(kept)
  BY <1>1
<1> DEFINE h == Append(kept, i)
<1>5. /\ Distinct(h) /\ ToSet(h) = ToSet(kept) \cup {i} /\ Len(h) = n + 1
      /\ \A s \in 1..n : h[s] = kept[s]
      /\ h[n + 1] = i
  BY <1>0, <1>1, <1>4, AppendIs
<1> HIDE DEF h, n
<1>6. /\ r.history = h /\ r.cursor = n + 1
      /\ r.bag = q.bag /\ r.items = q.items /\ r.repeat = q.repeat
      /\ r \in SourceType
  <2>1. h \in Seq(Nat) /\ n + 1 \in Nat
    BY <1>3, <1>0, <1>5 DEF Distinct
  <2> QED
    BY <1>1, <1>2, <2>1 DEF h, Sound, SourceType
<1> HIDE DEF r
<1>7. r.cursor \in 1..Len(r.history)
  BY <1>0, <1>3, <1>5, <1>6
<1>8. Sound(r)
  BY <1>1, <1>5, <1>6, <1>7 DEF Sound
<1>9. CurrentItemIndex(r) = i
  BY <1>5, <1>6, <1>7 DEF CurrentItemIndex
<1>10. {CurrentItemIndex(q), i} \ {0} \subseteq ToSet(h)
  <2>1. CASE q.history = <<>>
    BY <1>5, <2>1, CurrentIs
  <2>2. CASE q.history # <<>>
    <3>1. n = q.cursor /\ n \in 1..n
      BY <1>0, <2>2 DEF n
    <3>2. CurrentItemIndex(q) = kept[n]
      BY <1>1, <2>2, <3>1, CurrentIs
    <3>3. kept[n] \in ToSet(kept)
      BY <1>1, <3>1, ToSetIs DEF Distinct
    <3> QED
      BY <1>5, <3>2, <3>3
  <2> QED
    BY <2>1, <2>2
<1>11. q.history # <<>> => n = q.cursor /\ n \in 1..n
  BY <1>0 DEF n
<1> QED
  BY <1>0, <1>1, <1>5, <1>6, <1>7, <1>8, <1>9, <1>10, <1>11 DEF r

\* A track is taken from the bag and played, from the end of it or from the middle.
LEMMA TakeAndPlay ==
  ASSUME NEW q, Sound(q), NEW bag, Distinct(bag), NEW i \in ToSet(q.bag),
         ToSet(bag) = ToSet(q.bag) \ {i}
  PROVE  LET r == PlayFresh([q EXCEPT !.bag = bag], i)
         IN  Sound(r) /\ Draws(q, r, i)
<1> DEFINE m == [q EXCEPT !.bag = bag]
           r == PlayFresh(m, i)
<1>1. /\ m \in SourceType /\ m.bag = bag /\ m.history = q.history /\ m.cursor = q.cursor
      /\ m.items = q.items /\ m.repeat = q.repeat
  BY DEF Sound, SourceType, Distinct
<1>2. Sound(m) /\ i \in 1..Len(m.items) /\ i \notin ToSet(m.bag) /\ i \notin ToSet(m.history)
  BY <1>1 DEF Sound
<1>3. CurrentItemIndex(m) = CurrentItemIndex(q)
  BY <1>1 DEF CurrentItemIndex
<1> HIDE DEF m
<1>4. /\ Sound(r) /\ r.bag = m.bag /\ r.items = m.items /\ r.repeat = m.repeat
      /\ CurrentItemIndex(r) = i
      /\ ToSet(r.history) \subseteq ToSet(m.history) \cup {i}
      /\ {CurrentItemIndex(m), i} \ {0} \subseteq ToSet(r.history)
  BY <1>2, PlayFreshIs
<1> HIDE DEF r
<1>5. Draws(q, r, i)
  BY <1>1, <1>3, <1>4 DEF Draws, Same
<1> QED
  BY <1>4, <1>5 DEF r, m

LEMMA DrawLastIs ==
  ASSUME NEW q, Sound(q), q.bag # <<>>
  PROVE  /\ Sound(DrawLast(q))
         /\ Last(q.bag) \in 1..Len(q.items)
         /\ Draws(q, DrawLast(q), Last(q.bag))
<1>1. /\ Distinct(Front(q.bag)) /\ Last(q.bag) \in ToSet(q.bag)
      /\ ToSet(Front(q.bag)) = ToSet(q.bag) \ {Last(q.bag)}
  BY FrontIs DEF Sound
<1>2. Sound(DrawLast(q)) /\ Draws(q, DrawLast(q), Last(q.bag))
  BY <1>1, TakeAndPlay DEF DrawLast
<1> QED
  BY <1>1, <1>2 DEF Sound

LEMMA ReshuffleIs ==
  ASSUME NEW q, Sound(q), NEW r \in Reshuffle(q)
  PROVE  /\ Sound(r)
         /\ r.items = q.items /\ r.repeat = q.repeat /\ r.history = <<>>
         /\ ToSet(r.bag) = 1..Len(q.items)
<1>1. PICK bag \in Orders(Len(q.items)) :
        r = [q EXCEPT !.history = <<>>, !.cursor = 1, !.bag = bag]
  BY DEF Reshuffle
<1>2. Distinct(bag) /\ ToSet(bag) = 1..Len(q.items)
  BY SoundMeans, OrderIs
<1>3. /\ r.history = <<>> /\ r.cursor = 1 /\ r.bag = bag
      /\ r.items = q.items /\ r.repeat = q.repeat
      /\ r \in SourceType
  <2>1. bag \in Seq(Nat) /\ <<>> \in Seq(Nat) /\ 1 \in Nat
    BY <1>2, EmptyIs DEF Distinct
  <2> QED
    BY <1>1, <2>1 DEF Sound, SourceType
<1> QED
  BY <1>2, <1>3, EmptyIs DEF Sound

LEMMA RenewIs ==
  ASSUME NEW q, Sound(q), q.bag = <<>>, MayReshuffle(q), NEW r \in Reshuffle(q)
  PROVE  /\ Sound(DrawLast(r))
         /\ \E i \in 1..Len(q.items) : Renews(q, DrawLast(r), i)
<1>1. /\ Sound(r) /\ r.items = q.items /\ r.repeat = q.repeat /\ r.history = <<>>
      /\ ToSet(r.bag) = 1..Len(q.items)
  BY ReshuffleIs
<1>2. r.bag # <<>>
  <2>1. Len(q.items) \in Nat \ {0}
    BY EmptySeq DEF MayReshuffle, Sound, SourceType
  <2>2. 1 \in ToSet(r.bag)
    BY <1>1, <2>1
  <2> QED
    BY <2>2, EmptyIs
<1> DEFINE d == DrawLast(r)
           i == Last(r.bag)
<1>3. Sound(d) /\ i \in 1..Len(q.items) /\ Draws(r, d, i)
  BY <1>1, <1>2, DrawLastIs
<1> HIDE DEF d, i
<1>4. ToSet(d.history) = {i}
  <2>1. ToSet(r.history) = {}
    BY <1>1, EmptyIs
  <2>2. i # 0
    BY <1>3, SoundMeans
  <2> QED
    BY <1>3, <2>1, <2>2 DEF Draws
<1>5. Renews(q, d, i)
  BY <1>1, <1>3, <1>4 DEF Renews, Draws, Same, MayReshuffle
<1> QED
  BY <1>3, <1>5 DEF d

LEMMA ReplayIs ==
  ASSUME NEW q, Sound(q), NEW c \in 1..Len(q.history)
  PROVE  LET r == [q EXCEPT !.cursor = c]
         IN  Sound(r) /\ Walks(q, r) /\ CurrentItemIndex(r) = q.history[c]
<1> DEFINE r == [q EXCEPT !.cursor = c]
<1>1. /\ r \in SourceType /\ r.cursor = c /\ r.history = q.history /\ r.bag = q.bag
      /\ r.items = q.items /\ r.repeat = q.repeat
  <2>1. c \in Nat
    BY SoundMeans
  <2> QED
    BY <2>1 DEF Sound, SourceType
<1> HIDE DEF r
<1>2. Sound(r)
  BY <1>1 DEF Sound
<1>3. CurrentItemIndex(r) = q.history[c]
  BY <1>1, SoundMeans DEF CurrentItemIndex
<1>4. q.history[c] \in ToSet(q.history)
  BY ToSetIs DEF Sound, Distinct
<1> QED
  BY <1>1, <1>2, <1>3, <1>4 DEF Walks, Same, r

\* advance and advance_skip.
LEMMA MovesAre ==
  ASSUME NEW q, Sound(q), NEW reshuffle \in BOOLEAN, NEW r \in Moves(q, reshuffle)
  PROVE  Sound(r) /\ Navigates(q, r)
<1>1. CASE CanReplay(q)
  <2>1. q.cursor + 1 \in 1..Len(q.history)
    BY <1>1, SoundMeans DEF CanReplay
  <2>2. r = [q EXCEPT !.cursor = q.cursor + 1]
    BY <1>1 DEF Moves, ReplayForward
  <2> QED
    BY <2>1, <2>2, ReplayIs DEF Navigates
<1>2. CASE ~CanReplay(q) /\ q.bag # <<>>
  <2>1. r = DrawLast(q)
    BY <1>2 DEF Moves, DrawFromBag
  <2> QED
    BY <1>2, <2>1, DrawLastIs DEF Navigates
<1>3. CASE ~CanReplay(q) /\ q.bag = <<>>
  <2>1. MayReshuffle(q) /\ r \in {DrawLast(s) : s \in Reshuffle(q)}
    BY <1>3 DEF Moves, DrawFromBag
  <2>2. PICK s \in Reshuffle(q) : r = DrawLast(s)
    BY <2>1
  <2> QED
    BY <1>3, <2>1, <2>2, RenewIs DEF Navigates
<1> QED
  BY <1>1, <1>2, <1>3

LEMMA AdvanceIs ==
  ASSUME NEW q, Sound(q), NEW r \in Advance(q) \cup AdvanceSkip(q)
  PROVE  Sound(r) /\ Navigates(q, r)
<1>1. r = q \/ r \in Moves(q, TRUE) \/ r \in Moves(q, FALSE)
  BY DEF Advance, AdvanceSkip, OrStay
<1> QED
  BY <1>1, MovesAre DEF Navigates

LEMMA RetreatIs ==
  ASSUME NEW q, Sound(q)
  PROVE  Sound(Retreat(q)) /\ Navigates(q, Retreat(q))
<1>1. CASE CanRetreat(q)
  <2>1. q.cursor - 1 \in 1..Len(q.history)
    BY <1>1, SoundMeans DEF CanRetreat, Sound
  <2> QED
    BY <1>1, <2>1, ReplayIs DEF Retreat, Navigates
<1>2. CASE ~CanRetreat(q)
  BY <1>2 DEF Retreat, Navigates
<1> QED
  BY <1>1, <1>2

\* The bag without an upcoming track.
LEMMA TakeOutIs ==
  ASSUME NEW q, Sound(q), NEW i, InBag(q, i)
  PROVE  LET bag == RemoveAt(q.bag, SlotOf(q.bag, i))
         IN  /\ i \in ToSet(q.bag) /\ Distinct(bag)
             /\ ToSet(bag) = ToSet(q.bag) \ {i}
             /\ TakeOut(q, i) = [q EXCEPT !.bag = bag]
<1>1. SlotOf(q.bag, i) \in 1..Len(q.bag) /\ q.bag[SlotOf(q.bag, i)] = i
  BY DEF InBag, SlotOf
<1>2. i \in ToSet(q.bag)
  BY <1>1, ToSetIs DEF Sound, Distinct
<1> QED
  BY <1>1, <1>2, RemoveAtIs DEF Sound, TakeOut

LEMMA JumpToIs ==
  ASSUME NEW q, Sound(q), NEW i
  PROVE  Sound(JumpTo(q, i)) /\ Navigates(q, JumpTo(q, i))
<1>1. CASE InBag(q, i)
  <2> DEFINE bag == RemoveAt(q.bag, SlotOf(q.bag, i))
  <2>1. /\ i \in ToSet(q.bag) /\ Distinct(bag) /\ ToSet(bag) = ToSet(q.bag) \ {i}
        /\ JumpTo(q, i) = PlayFresh([q EXCEPT !.bag = bag], i)
    BY <1>1, TakeOutIs DEF JumpTo
  <2> HIDE DEF bag
  <2>2. Sound(JumpTo(q, i)) /\ Draws(q, JumpTo(q, i), i)
    BY <2>1, TakeAndPlay
  <2> QED
    BY <2>1, <2>2 DEF Navigates, Sound
<1>2. CASE ~InBag(q, i)
  BY <1>2 DEF JumpTo, Navigates
<1> QED
  BY <1>1, <1>2

\* A track is added to the scope and its index to the bag.
Adds(q, r) ==
  /\ Len(r.items) = Len(q.items) + 1
  /\ ToSet(r.bag) = ToSet(q.bag) \cup {Len(q.items) + 1}
  /\ r.history = q.history /\ r.cursor = q.cursor /\ r.repeat = q.repeat

LEMMA AddIs ==
  ASSUME NEW q, Sound(q), NEW track \in Tracks, NEW bag, Distinct(bag),
         ToSet(bag) = ToSet(q.bag) \cup {Len(q.items) + 1}
  PROVE  LET r == [q EXCEPT !.items = Append(q.items, track), !.bag = bag]
         IN  Sound(r) /\ Adds(q, r)
<1> DEFINE r == [q EXCEPT !.items = Append(q.items, track), !.bag = bag]
<1>1. q.items \in Seq(Tracks) /\ Len(q.items) \in Nat
  BY SoundMeans DEF Sound, SourceType
<1>2. Append(q.items, track) \in Seq(Tracks) /\ Len(Append(q.items, track)) = Len(q.items) + 1
  BY <1>1, AppendProperties
<1>3. /\ r \in SourceType /\ r.bag = bag /\ Len(r.items) = Len(q.items) + 1
      /\ r.history = q.history /\ r.cursor = q.cursor /\ r.repeat = q.repeat
  BY <1>2 DEF Sound, SourceType, Distinct
<1> HIDE DEF r
<1>4. /\ 1..Len(q.items) \subseteq 1..Len(r.items)
      /\ Len(q.items) + 1 \in 1..Len(r.items)
      /\ Len(q.items) + 1 \notin 1..Len(q.items)
  BY <1>1, <1>3
<1>5. Sound(r)
  BY <1>3, <1>4 DEF Sound
<1> QED
  BY <1>3, <1>5 DEF Adds, r

LEMMA EnqueueIs ==
  ASSUME NEW q, Sound(q), NEW track \in Tracks
  PROVE  /\ Sound(Enqueue(q, track)) /\ Adds(q, Enqueue(q, track))
         /\ Sound(PlayNext(q, track)) /\ Adds(q, PlayNext(q, track))
<1> DEFINE new == Len(q.items) + 1
           behind == <<new>> \o q.bag
           ahead == Append(q.bag, new)
<1>1. new \in Nat /\ new \notin ToSet(q.bag) /\ Distinct(q.bag)
  BY SoundMeans DEF Sound
<1> HIDE DEF new
<1>2. Distinct(behind) /\ ToSet(behind) = ToSet(q.bag) \cup {new}
  BY <1>1, PushedFrontIs
<1>3. Distinct(ahead) /\ ToSet(ahead) = ToSet(q.bag) \cup {new}
  BY <1>1, AppendIs
<1>4. /\ Enqueue(q, track) = [q EXCEPT !.items = Append(q.items, track), !.bag = behind]
      /\ PlayNext(q, track) = [q EXCEPT !.items = Append(q.items, track), !.bag = ahead]
  BY DEF Enqueue, PlayNext, new
<1> HIDE DEF behind, ahead
<1>5. Sound(Enqueue(q, track)) /\ Adds(q, Enqueue(q, track))
  <2>1. Distinct(behind) /\ ToSet(behind) = ToSet(q.bag) \cup {Len(q.items) + 1}
    BY <1>2 DEF new
  <2> DEFINE r == [q EXCEPT !.items = Append(q.items, track), !.bag = behind]
  <2>2. Sound(r) /\ Adds(q, r)
    BY <2>1, AddIs
  <2> QED
    BY <1>4, <2>2
<1>6. Sound(PlayNext(q, track)) /\ Adds(q, PlayNext(q, track))
  <2>1. Distinct(ahead) /\ ToSet(ahead) = ToSet(q.bag) \cup {Len(q.items) + 1}
    BY <1>3 DEF new
  <2> DEFINE r == [q EXCEPT !.items = Append(q.items, track), !.bag = ahead]
  <2>2. Sound(r) /\ Adds(q, r)
    BY <2>1, AddIs
  <2> QED
    BY <1>4, <2>2
<1> QED
  BY <1>5, <1>6

\* A track is dropped from the bag.
Drops(q, r, i) ==
  /\ i \in ToSet(q.bag)
  /\ ToSet(r.bag) = ToSet(q.bag) \ {i}
  /\ r.items = q.items /\ r.history = q.history /\ r.cursor = q.cursor /\ r.repeat = q.repeat

LEMMA RemoveItemIs ==
  ASSUME NEW q, Sound(q), NEW i
  PROVE  LET r == RemoveItem(q, i) IN Sound(r) /\ (r = q \/ Drops(q, r, i))
<1>1. CASE InBag(q, i)
  <2> DEFINE bag == RemoveAt(q.bag, SlotOf(q.bag, i))
             r == RemoveItem(q, i)
  <2>1. /\ i \in ToSet(q.bag) /\ Distinct(bag) /\ ToSet(bag) = ToSet(q.bag) \ {i}
        /\ r = [q EXCEPT !.bag = bag]
    BY <1>1, TakeOutIs DEF RemoveItem
  <2> HIDE DEF bag, r
  <2>2. /\ r \in SourceType /\ r.bag = bag
        /\ r.items = q.items /\ r.history = q.history /\ r.cursor = q.cursor /\ r.repeat = q.repeat
    BY <2>1 DEF Sound, SourceType, Distinct
  <2>3. Sound(r) /\ Drops(q, r, i)
    BY <2>1, <2>2 DEF Sound, Drops
  <2> QED
    BY <2>3 DEF r
<1>2. CASE ~InBag(q, i)
  BY <1>2 DEF RemoveItem
<1> QED
  BY <1>1, <1>2

LEMMA SetRepeatIs ==
  ASSUME NEW q, Sound(q), NEW mode \in RepeatMode
  PROVE  LET r == SetRepeatMode(q, mode)
         IN  /\ Sound(r)
             /\ r.items = q.items /\ r.bag = q.bag /\ r.history = q.history /\ r.cursor = q.cursor
  BY DEF SetRepeatMode, Sound, SourceType

LEMMA NewIs ==
  ASSUME NEW items \in Seq(Tracks), NEW mode \in RepeatMode, NEW q \in New(items, mode)
  PROVE  /\ Sound(q) /\ q.items = items /\ q.repeat = mode
         /\ q.history = <<>> /\ ToSet(q.bag) = 1..Len(items)
<1>1. PICK bag \in Orders(Len(items)) :
        q = [items |-> items, bag |-> bag, history |-> <<>>, cursor |-> 1, repeat |-> mode]
  BY DEF New
<1>2. Len(items) \in Nat
  BY LenProperties
<1>3. Distinct(bag) /\ ToSet(bag) = 1..Len(items)
  BY <1>2, OrderIs
<1>4. q \in SourceType
  BY <1>1, <1>3, EmptyIs DEF SourceType, Distinct
<1> QED
  BY <1>1, <1>3, <1>4, EmptyIs DEF Sound

-----------------------------------------------------------------------------
(***************************************************************************)
(* The invariant.                                                          *)
(***************************************************************************)
ShuffleInv == Sound(source)

LEMMA InitIsSound == Init => ShuffleInv
<1> SUFFICES ASSUME Init PROVE Sound(source)
  BY DEF ShuffleInv
<1>1. PICK items \in Scopes, repeat \in RepeatMode : source \in New(items, repeat)
  BY DEF Init
<1> QED
  BY <1>1, NewIs, ScopesAssumption

LEMMA NextIsSound == ShuffleInv /\ [Next]_vars => ShuffleInv'
<1> SUFFICES ASSUME Sound(source), [Next]_vars PROVE Sound(source')
  BY DEF ShuffleInv
<1>1. CASE DoAdvance
  BY <1>1, AdvanceIs DEF DoAdvance
<1>2. CASE DoAdvanceSkip
  BY <1>2, AdvanceIs DEF DoAdvanceSkip
<1>3. CASE DoRetreat
  BY <1>3, RetreatIs DEF DoRetreat
<1>4. CASE DoJumpTo
  BY <1>4, JumpToIs DEF DoJumpTo
<1>5. CASE DoRemove
  BY <1>5, RemoveItemIs DEF DoRemove
<1>6. CASE DoEnqueue
  BY <1>6, EnqueueIs DEF DoEnqueue
<1>7. CASE DoPlayNext
  BY <1>7, EnqueueIs DEF DoPlayNext
<1>8. CASE DoSetRepeat
  BY <1>8, SetRepeatIs DEF DoSetRepeat
<1>9. CASE UNCHANGED vars
  BY <1>9 DEF vars
<1> QED
  BY <1>1, <1>2, <1>3, <1>4, <1>5, <1>6, <1>7, <1>8, <1>9 DEF Next

LEMMA ShuffleInvariant == Spec => []ShuffleInv
  BY InitIsSound, NextIsSound, PTL DEF Spec

\* Every index of bag and history names a track of the scope, and the cursor
\* is on the history.
THEOREM IndicesInRange == Spec => []ShuffleInRange
<1>1. ShuffleInv => ShuffleInRange
  BY SoundMeans DEF ShuffleInv, ShuffleInRange
<1> QED
  BY <1>1, ShuffleInvariant, PTL

\* However the user jumps, skips, removes and inserts, no track is both played
\* and to play in a cycle, or either of them twice.
THEOREM NeverTwice == Spec => []NoTrackTwice
<1>1. ShuffleInv => NoTrackTwice
  BY SoundMeans DEF ShuffleInv, NoTrackTwice
<1> QED
  BY <1>1, ShuffleInvariant, PTL

-----------------------------------------------------------------------------
(***************************************************************************)
(* The refinement.                                                         *)
(***************************************************************************)

\* Going on or back, or jumping, plays a pending track, walks the history or
\* begins a new cycle.
LEMMA NavigationImplements ==
  ASSUME Sound(source), Sound(source'), Navigates(source, source')
  PROVE  [Promise!Next]_(Promise!vars)
<1>1. CASE source' = source
  BY <1>1 DEF Promise!vars
<1>2. CASE Walks(source, source')
  <2> DEFINE i == CurrentItemIndex(source')
  <2>1. i \in ToSet(source.history) /\ i \in 1..Len(source.items)
    BY <1>2 DEF Walks, Sound
  <2>2. Promise!Replay(i)
    BY <1>2, <2>1 DEF Walks, Same, Promise!Replay
  <2> QED
    BY <2>1, <2>2 DEF Promise!Next
<1>3. ASSUME NEW i \in 1..Len(source.items), Draws(source, source', i)
      PROVE  [Promise!Next]_(Promise!vars)
  <2>1. Promise!Play(i)
    BY <1>3 DEF Draws, Same, Promise!Play
  <2> QED
    BY <2>1 DEF Promise!Next
<1>4. ASSUME NEW i \in 1..Len(source.items), Renews(source, source', i)
      PROVE  [Promise!Next]_(Promise!vars)
  <2>1. ToSet(source.bag) = {}
    BY <1>4, EmptyIs DEF Renews
  <2>2. Promise!NewCycle(i)
    BY <1>4, <2>1 DEF Renews, Same, Promise!NewCycle
  <2> QED
    BY <2>2 DEF Promise!Next
<1> QED
  BY <1>1, <1>2, <1>3, <1>4 DEF Navigates

LEMMA NextImplements ==
  ASSUME ShuffleInv, ShuffleInv', [Next]_vars
  PROVE  [Promise!Next]_(Promise!vars)
<1>0. Sound(source) /\ Sound(source')
  BY DEF ShuffleInv
<1>1. CASE DoAdvance \/ DoAdvanceSkip \/ DoRetreat \/ DoJumpTo
  <2>1. Navigates(source, source')
    BY <1>0, <1>1, AdvanceIs, RetreatIs, JumpToIs DEF DoAdvance, DoAdvanceSkip, DoRetreat, DoJumpTo
  <2> QED
    BY <1>0, <2>1, NavigationImplements
<1>2. CASE DoRemove
  <2>1. PICK i \in Indices : source' = RemoveItem(source, i)
    BY <1>2 DEF DoRemove
  <2>2. CASE source' = source
    BY <2>2 DEF Promise!vars
  <2>3. CASE Drops(source, source', i)
    <3>1. i \in 1..Len(source.items)
      BY <1>0, <2>3 DEF Drops, Sound
    <3>2. CurrentItemIndex(source') = CurrentItemIndex(source)
      BY <2>3 DEF Drops, CurrentItemIndex
    <3>3. Promise!Drop(i)
      BY <2>3, <3>2 DEF Drops, Promise!Drop
    <3> QED
      BY <3>1, <3>3 DEF Promise!Next
  <2> QED
    BY <1>0, <2>1, <2>2, <2>3, RemoveItemIs
<1>3. CASE DoEnqueue \/ DoPlayNext
  <2>1. Adds(source, source')
    BY <1>0, <1>3, EnqueueIs DEF DoEnqueue, DoPlayNext
  <2>2. CurrentItemIndex(source') = CurrentItemIndex(source)
    BY <2>1 DEF Adds, CurrentItemIndex
  <2>3. Promise!Add
    BY <2>1, <2>2 DEF Adds, Promise!Add
  <2> QED
    BY <2>3 DEF Promise!Next
<1>4. CASE DoSetRepeat
  <2>1. /\ source'.items = source.items /\ source'.bag = source.bag
        /\ source'.history = source.history /\ source'.cursor = source.cursor
    BY <1>0, <1>4, SetRepeatIs DEF DoSetRepeat
  <2>2. CurrentItemIndex(source') = CurrentItemIndex(source)
    BY <2>1 DEF CurrentItemIndex
  <2>3. Promise!SetLooping
    BY <2>1, <2>2 DEF Promise!SetLooping
  <2> QED
    BY <2>3 DEF Promise!Next
<1>5. CASE UNCHANGED vars
  BY <1>5 DEF vars, Promise!vars
<1> QED
  BY <1>1, <1>2, <1>3, <1>4, <1>5 DEF Next

\* "Every track plays once per cycle" (shuffle.rs:7): every call on a scope is a
\* step the promise to the listener allows, or none that it can tell.
THEOREM KeepsPromise == Spec => PlaysOncePerCycle
<1>1. Init => Promise!Init
  <2> SUFFICES ASSUME Init PROVE Promise!Init
    OBVIOUS
  <2>1. PICK items \in Scopes, repeat \in RepeatMode : source \in New(items, repeat)
    BY DEF Init
  <2>2. /\ Sound(source) /\ source.items = items /\ source.history = <<>>
        /\ ToSet(source.bag) = 1..Len(items)
    BY <2>1, NewIs, ScopesAssumption
  <2>3. CurrentItemIndex(source) = 0 /\ ToSet(source.history) = {} /\ Len(source.items) \in Nat
    BY <2>2, CurrentIs, EmptyIs, SoundMeans
  <2> QED
    BY <2>2, <2>3 DEF Promise!Init
<1>2. ShuffleInv /\ ShuffleInv' /\ [Next]_vars => [Promise!Next]_(Promise!vars)
  BY NextImplements
<1> QED
  BY <1>1, <1>2, ShuffleInvariant, PTL DEF Spec, PlaysOncePerCycle, Promise!Spec

-----------------------------------------------------------------------------
(***************************************************************************)
(* What follows of single calls.                                           *)
(***************************************************************************)

\* A draw from the bag puts the cursor at the end of the history, one up.
LEMMA DrawMovesUp ==
  ASSUME NEW q, Sound(q), q.bag # <<>>
  PROVE  LET r == DrawLast(q)
         IN  /\ Len(r.bag) = Len(q.bag) - 1
             /\ Len(r.history) = r.cursor
             /\ q.history # <<>> => r.cursor = q.cursor + 1 /\ r.history[q.cursor] = q.history[q.cursor]
<1> DEFINE i == Last(q.bag)
           m == [q EXCEPT !.bag = Front(q.bag)]
           r == PlayFresh(m, i)
<1>1. /\ Distinct(Front(q.bag)) /\ i \in ToSet(q.bag)
      /\ ToSet(Front(q.bag)) = ToSet(q.bag) \ {i}
      /\ Len(Front(q.bag)) = Len(q.bag) - 1
  BY FrontIs DEF Sound
<1>2. /\ m \in SourceType /\ m.bag = Front(q.bag) /\ m.history = q.history /\ m.cursor = q.cursor
      /\ m.items = q.items /\ m.repeat = q.repeat
  BY <1>1 DEF Sound, SourceType, Distinct
<1> HIDE DEF m, i
<1>3. Sound(m) /\ i \in 1..Len(m.items) /\ i \notin ToSet(m.bag) /\ i \notin ToSet(m.history)
  BY <1>1, <1>2 DEF Sound
<1>4. /\ r.bag = m.bag /\ Len(r.history) = r.cursor
      /\ m.history # <<>> => r.cursor = m.cursor + 1 /\ r.history[m.cursor] = m.history[m.cursor]
  BY <1>3, PlayFreshIs
<1>5. DrawLast(q) = r
  BY DEF DrawLast, m, i
<1> HIDE DEF r
<1> QED
  BY <1>1, <1>2, <1>4, <1>5

\* advance_skip "can't loop forever" (shuffle.rs:137): every move of it leaves
\* less to visit, for any scope and from anywhere in its history.
THEOREM SkipsEnd == Spec => []SkipTerminates
<1>1. ASSUME NEW q, Sound(q), NEW r \in Moves(q, FALSE)
      PROVE  LeftToVisit(r) < LeftToVisit(q) \/ (q.history = <<>> /\ Len(r.bag) < Len(q.bag))
  <2>0. /\ Len(q.bag) \in Nat /\ Len(q.history) \in Nat /\ q.cursor \in Nat
        /\ q.history # <<>> => q.cursor <= Len(q.history)
    <3>1. Len(q.bag) \in Nat /\ Len(q.history) \in Nat /\ q.cursor \in Nat
      BY <1>1, SoundMeans
    <3> QED
      BY <1>1, <3>1 DEF Sound
  <2>1. CASE CanReplay(q)
    <3>1. r = [q EXCEPT !.cursor = q.cursor + 1]
      BY <1>1, <2>1 DEF Moves, ReplayForward
    <3>2. r.bag = q.bag /\ r.history = q.history /\ r.cursor = q.cursor + 1
      BY <1>1, <3>1 DEF Sound, SourceType
    <3> QED
      BY <2>0, <3>2 DEF LeftToVisit
  <2>2. CASE ~CanReplay(q)
    <3>1. q.bag # <<>> /\ r = DrawLast(q)
      BY <1>1, <2>2 DEF Moves, DrawFromBag
    <3>2. Sound(r) /\ Len(r.bag) = Len(q.bag) - 1 /\ Len(r.history) = r.cursor
      <4>1. Sound(DrawLast(q))
        BY <1>1, <3>1, DrawLastIs
      <4>2. Len(DrawLast(q).bag) = Len(q.bag) - 1 /\ Len(DrawLast(q).history) = DrawLast(q).cursor
        BY <1>1, <3>1, DrawMovesUp
      <4> QED
        BY <3>1, <4>1, <4>2
    <3>3. r.cursor \in Nat
      BY <3>2, SoundMeans
    <3> QED
      BY <2>0, <3>2, <3>3 DEF LeftToVisit
  <2> QED
    BY <2>1, <2>2
<1>2. ShuffleInv => SkipTerminates
  BY <1>1 DEF ShuffleInv, SkipTerminates
<1> QED
  BY <1>2, ShuffleInvariant, PTL

\* Back and then forward is the same source; forward and then back the same
\* track, unless forward began a new cycle.
THEOREM BackUndoesForward == Spec => []RetreatUndoesAdvance
<1>1. ASSUME NEW q, Sound(q), CanRetreat(q)
      PROVE  Advance(Retreat(q)) = {q}
  <2> DEFINE r == Retreat(q)
  <2>1. /\ q.cursor \in Nat /\ q.cursor > 1 /\ q.cursor <= Len(q.history) /\ Len(q.history) \in Nat
    BY <1>1, SoundMeans DEF CanRetreat, Sound
  <2>2. r = [q EXCEPT !.cursor = q.cursor - 1]
    BY <1>1 DEF Retreat
  <2>3. r.cursor = q.cursor - 1 /\ r.history = q.history
    BY <2>2 DEF Sound, SourceType
  <2>4. CanReplay(r)
    BY <2>1, <2>3 DEF CanReplay
  <2>5. ReplayForward(r) = q
    <3>1. ReplayForward(r) = [r EXCEPT !.cursor = q.cursor]
      BY <2>1, <2>3 DEF ReplayForward
    <3>2. q \in SourceType
      BY <1>1 DEF Sound
    <3> HIDE DEF r
    <3>3. [r EXCEPT !.cursor = q.cursor] = q
      BY <2>2, <3>2 DEF SourceType
    <3> QED
      BY <3>1, <3>3
  <2> HIDE DEF r
  <2>6. Advance(r) = {ReplayForward(r)}
    BY <2>4 DEF Advance, OrStay, Moves
  <2> QED
    BY <2>5, <2>6 DEF r
<1>2. ASSUME NEW q, Sound(q), CurrentItemIndex(q) # None, Moves(q, FALSE) # {}, NEW r \in Advance(q)
      PROVE  CurrentItemIndex(Retreat(r)) = CurrentItemIndex(q)
  <2>0. /\ q.history # <<>> /\ q.cursor \in 1..Len(q.history)
        /\ CurrentItemIndex(q) = q.history[q.cursor]
        /\ Len(q.history) \in Nat
    BY <1>2, CurrentIs, SoundMeans DEF None, Sound
  <2>1. /\ Sound(r) /\ r.cursor = q.cursor + 1
        /\ r.history[q.cursor] = q.history[q.cursor] /\ r.cursor <= Len(r.history)
    <3>1. CASE CanReplay(q)
      <4>1. r = [q EXCEPT !.cursor = q.cursor + 1]
        BY <3>1 DEF Advance, OrStay, Moves, ReplayForward
      <4>2. r.history = q.history /\ r.cursor = q.cursor + 1
        BY <4>1 DEF Sound, SourceType
      <4>3. Sound(r) /\ q.cursor < Len(q.history)
        BY <1>2, <3>1, AdvanceIs DEF CanReplay
      <4> QED
        BY <2>0, <4>2, <4>3
    <3>2. CASE ~CanReplay(q)
      <4>1. q.bag # <<>> /\ r = DrawLast(q)
        BY <1>2, <3>2 DEF Advance, OrStay, Moves, DrawFromBag
      <4>2. Sound(r) /\ r.cursor = q.cursor + 1 /\ Len(r.history) = r.cursor
            /\ r.history[q.cursor] = q.history[q.cursor]
        <5>1. Sound(DrawLast(q))
          BY <4>1, <1>2, DrawLastIs
        <5>2. LET d == DrawLast(q)
              IN  Len(d.history) = d.cursor /\ d.cursor = q.cursor + 1 /\ d.history[q.cursor] = q.history[q.cursor]
          BY <1>2, <2>0, <4>1, DrawMovesUp
        <5> QED
          BY <4>1, <5>1, <5>2
      <4> QED
        BY <2>0, <4>2
    <3> QED
      BY <3>1, <3>2
  <2>2. r.cursor - 1 = q.cursor /\ CanRetreat(r) /\ q.cursor \in 1..Len(r.history)
    BY <2>0, <2>1, SoundMeans DEF CanRetreat
  <2>3. Retreat(r) = [r EXCEPT !.cursor = q.cursor]
    BY <2>2 DEF Retreat
  <2>4. CurrentItemIndex(Retreat(r)) = r.history[q.cursor]
    BY <2>1, <2>2, <2>3, ReplayIs
  <2> QED
    BY <2>0, <2>1, <2>4
<1>3. ShuffleInv => RetreatUndoesAdvance
  BY <1>1, <1>2 DEF ShuffleInv, RetreatUndoesAdvance
<1> QED
  BY <1>3, ShuffleInvariant, PTL
=============================================================================
