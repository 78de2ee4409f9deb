-------------------------- MODULE OpenRequests_proofs --------------------------
(***************************************************************************)
(* What holds of OpenRequests for any windows, keys and limits: every      *)
(* image an operation makes is one the service accepts (Sound), what is on *)
(* disk is behind it by applications only, and a token that was handed to  *)
(* a page is never used again.                                             *)
(***************************************************************************)
EXTENDS OpenRequests, FiniteSetTheorems, WellFoundedInduction, TLAPS

-----------------------------------------------------------------------------
(* The list of acknowledged ranges is the set of acknowledged sequences.   *)

\* Every non-empty set of naturals has a least element.
LEMMA LeastNumber ==
  ASSUME NEW T \in SUBSET Nat, T # {}
  PROVE  \E m \in T : \A k \in T : m <= k
<1> DEFINE R == OpToRel(<, Nat)
<1>1. PICK m \in T : \A k \in T : ~ (<<k, m>> \in R)
  <2>1. IsWellFoundedOn(R, Nat)
    BY NatLessThanWellFounded
  <2> HIDE DEF R
  <2> QED  BY <2>1, WFMin
<1>2. \A k \in T : ~(k < m)
  BY <1>1 DEF OpToRel
<1> QED  BY <1>2

\* A sorted list of naturals is split by every bound (the precondition of partition_point).
LEMMA SortedSplit ==
  ASSUME NEW len \in Nat, NEW f \in [1 .. len -> Nat], NEW n \in Nat,
         \A i, j \in 1 .. len : i < j => f[i] < f[j]
  PROVE  \E k \in 0 .. len : \A i \in 1 .. len : i <= k <=> f[i] < n
<1> DEFINE Stops == {k \in 0 .. len : k = len \/ f[k + 1] >= n}
<1>1. len \in Stops /\ Stops \in SUBSET Nat
  OBVIOUS
<1>2. PICK m \in Stops : \A k \in Stops : m <= k
  <2> HIDE DEF Stops
  <2>1. Stops # {}
    BY <1>1
  <2> QED  BY <1>1, <2>1, LeastNumber
<1>3. m \in 0 .. len /\ (m = len \/ f[m + 1] >= n)
  OBVIOUS
<1>4. ASSUME NEW i \in 1 .. len, i <= m
      PROVE  f[i] < n
  <2>1. i - 1 \in 0 .. len /\ ~(m <= i - 1)
    BY <1>3, <1>4
  <2>2. i - 1 \notin Stops
    BY <1>2, <2>1
  <2>3. ~(f[(i - 1) + 1] >= n)
    BY <2>1, <2>2
  <2>4. f[i] \in Nat /\ (i - 1) + 1 = i
    OBVIOUS
  <2> QED  BY <2>3, <2>4
<1>5. ASSUME NEW i \in 1 .. len, i > m
      PROVE  ~(f[i] < n)
  <2>1. m + 1 \in 1 .. len /\ f[m + 1] >= n
    BY <1>3, <1>5
  <2>2. f[i] \in Nat /\ f[m + 1] \in Nat
    BY <2>1
  <2>3. CASE m + 1 = i
    BY <2>1, <2>2, <2>3
  <2>4. CASE m + 1 < i
    <3>1. f[m + 1] < f[i]
      BY <2>1, <2>4
    <3> QED  BY <2>1, <2>2, <3>1
  <2> QED  BY <2>3, <2>4, <1>3, <1>5
<1>6. \A i \in 1 .. len : i <= m <=> f[i] < n
  BY <1>3, <1>4, <1>5
<1> QED  BY <1>3, <1>6

\* StartingBefore splits a well-formed list: the ranges up to it start before the sequence,
\* the later ones do not.
LEMMA StartingBeforeSplits ==
  ASSUME NEW ranges \in Seq(AckRange), WellFormed(ranges), NEW n \in Nat
  PROVE  /\ StartingBefore(ranges, n) \in 0 .. Len(ranges)
         /\ \A i \in 1 .. Len(ranges) :
              i <= StartingBefore(ranges, n) <=> ranges[i].start < n
<1> DEFINE f == [i \in 1 .. Len(ranges) |-> ranges[i].start]
<1>1. f \in [1 .. Len(ranges) -> Nat]
  <2>1. \A i \in 1 .. Len(ranges) : ranges[i] \in AckRange
    OBVIOUS
  <2> QED  BY <2>1 DEF AckRange
<1>2. \A i, j \in 1 .. Len(ranges) : i < j => f[i] < f[j]
  <2> SUFFICES ASSUME NEW i \in 1 .. Len(ranges), NEW j \in 1 .. Len(ranges), i < j
               PROVE  ranges[i].start < ranges[j].start
    OBVIOUS
  <2>1. ranges[i].start < ranges[i].end /\ ranges[i].end < ranges[j].start
    BY DEF WellFormed
  <2>2. ranges[i] \in AckRange /\ ranges[j] \in AckRange
    OBVIOUS
  <2> QED  BY <2>1, <2>2 DEF AckRange
<1> HIDE DEF f
<1>3. \E k \in 0 .. Len(ranges) : \A i \in 1 .. Len(ranges) : i <= k <=> f[i] < n
  BY <1>1, <1>2, SortedSplit, Len(ranges) \in Nat
<1>4. \E k \in 0 .. Len(ranges) : \A i \in 1 .. Len(ranges) : i <= k <=> ranges[i].start < n
  BY <1>3 DEF f
<1> QED  BY <1>4 DEF StartingBefore

\* EndingBy splits a well-formed list: the ranges up to it end by the sequence, the later ones
\* do not.
LEMMA EndingBySplits ==
  ASSUME NEW ranges \in Seq(AckRange), WellFormed(ranges), NEW n \in Nat
  PROVE  /\ EndingBy(ranges, n) \in 0 .. Len(ranges)
         /\ \A i \in 1 .. Len(ranges) : i <= EndingBy(ranges, n) <=> ranges[i].end <= n
<1> DEFINE f == [i \in 1 .. Len(ranges) |-> ranges[i].end]
<1>1. f \in [1 .. Len(ranges) -> Nat]
  <2>1. \A i \in 1 .. Len(ranges) : ranges[i] \in AckRange
    OBVIOUS
  <2> QED  BY <2>1 DEF AckRange
<1>2. \A i, j \in 1 .. Len(ranges) : i < j => f[i] < f[j]
  <2> SUFFICES ASSUME NEW i \in 1 .. Len(ranges), NEW j \in 1 .. Len(ranges), i < j
               PROVE  ranges[i].end < ranges[j].end
    OBVIOUS
  <2>1. ranges[i].end < ranges[j].start /\ ranges[j].start < ranges[j].end
    BY DEF WellFormed
  <2>2. ranges[i] \in AckRange /\ ranges[j] \in AckRange
    OBVIOUS
  <2> QED  BY <2>1, <2>2 DEF AckRange
<1> HIDE DEF f
<1>3. \E k \in 0 .. Len(ranges) : \A i \in 1 .. Len(ranges) : i <= k <=> f[i] < n + 1
  BY <1>1, <1>2, SortedSplit, n + 1 \in Nat, Len(ranges) \in Nat
<1>4. \A i \in 1 .. Len(ranges) : f[i] < n + 1 <=> f[i] <= n
  BY <1>1
<1>5. \E k \in 0 .. Len(ranges) : \A i \in 1 .. Len(ranges) : i <= k <=> ranges[i].end <= n
  BY <1>3, <1>4 DEF f
<1> QED  BY <1>5 DEF EndingBy

\* is_acknowledged_sequence answers by binary search what the ranges cover.
THEOREM SearchIsCover ==
  ASSUME NEW ranges \in Seq(AckRange), WellFormed(ranges), NEW n \in Nat
  PROVE  IsAcknowledged(ranges, n) <=> Covers(ranges, n)
<1> DEFINE k == EndingBy(ranges, n)
<1>1. /\ k \in 0 .. Len(ranges)
      /\ \A i \in 1 .. Len(ranges) : i <= k <=> ranges[i].end <= n
  BY EndingBySplits
<1>2. \A i \in 1 .. Len(ranges) : ranges[i] \in AckRange
  OBVIOUS
<1>3. IsAcknowledged(ranges, n) <=>
        k + 1 <= Len(ranges) /\ ranges[k + 1].start <= n /\ n < ranges[k + 1].end
  BY DEF IsAcknowledged
<1> HIDE DEF k
<1>4. ASSUME Covers(ranges, n)
      PROVE  k + 1 <= Len(ranges) /\ ranges[k + 1].start <= n /\ n < ranges[k + 1].end
  <2>1. PICK i \in 1 .. Len(ranges) : ranges[i].start <= n /\ n < ranges[i].end
    BY <1>4 DEF Covers
  <2>2. k < i
    BY <1>1, <1>2, <2>1 DEF AckRange
  <2>3. k + 1 \in 1 .. Len(ranges)
    BY <1>1, <2>2
  <2>4. n < ranges[k + 1].end
    BY <1>1, <1>2, <2>3 DEF AckRange
  <2>5. ranges[k + 1].start <= n
    <3>1. CASE k + 1 = i
      BY <2>1, <3>1
    <3>2. CASE k + 1 < i
      <4>1. ranges[k + 1].end < ranges[i].start
        BY <2>3, <3>2 DEF WellFormed
      <4> QED  BY <4>1, <2>1, <2>3, <2>4, <1>2 DEF AckRange
    <3> QED  BY <3>1, <3>2, <2>2, <1>1
  <2> QED  BY <2>3, <2>4, <2>5
<1>5. ASSUME k + 1 <= Len(ranges), ranges[k + 1].start <= n, n < ranges[k + 1].end
      PROVE  Covers(ranges, n)
  BY <1>1, <1>5, k + 1 \in 1 .. Len(ranges) DEF Covers
<1> QED  BY <1>3, <1>4, <1>5

-----------------------------------------------------------------------------
\* Concatenation, element by element.
LEMMA ConcatElements ==
  ASSUME NEW S, NEW s \in Seq(S), NEW t \in Seq(S)
  PROVE  /\ s \o t \in Seq(S)
         /\ Len(s \o t) = Len(s) + Len(t)
         /\ \A i \in 1 .. Len(s) + Len(t) : (s \o t)[i] =
              IF i <= Len(s) THEN s[i] ELSE t[i - Len(s)]
OBVIOUS

\* InsertAt shifts the elements from its position on.
LEMMA InsertAtElements ==
  ASSUME NEW S, NEW s \in Seq(S), NEW e \in S, NEW k \in 1 .. Len(s) + 1
  PROVE  /\ InsertAt(s, k, e) \in Seq(S)
         /\ Len(InsertAt(s, k, e)) = Len(s) + 1
         /\ \A i \in 1 .. Len(s) + 1 : InsertAt(s, k, e)[i] =
              IF i < k THEN s[i] ELSE IF i = k THEN e ELSE s[i - 1]
<1> DEFINE before == SubSeq(s, 1, k - 1)
           after  == SubSeq(s, k, Len(s))
           one    == <<e>>
<1>1. /\ before \in Seq(S) /\ Len(before) = k - 1
      /\ \A i \in 1 .. k - 1 : before[i] = s[i]
  OBVIOUS
<1>2. /\ after \in Seq(S) /\ Len(after) = Len(s) + 1 - k
      /\ \A i \in 1 .. Len(s) + 1 - k : after[i] = s[k + i - 1]
  OBVIOUS
<1>3. one \in Seq(S) /\ Len(one) = 1 /\ one[1] = e
  OBVIOUS
<1>4. InsertAt(s, k, e) = (before \o one) \o after
  BY DEF InsertAt
<1> HIDE DEF before, after, one
<1>5. /\ before \o one \in Seq(S) /\ Len(before \o one) = k
      /\ \A i \in 1 .. k : (before \o one)[i] = IF i < k THEN s[i] ELSE e
  <2>1. /\ before \o one \in Seq(S)
        /\ Len(before \o one) = Len(before) + Len(one)
        /\ \A i \in 1 .. Len(before) + Len(one) : (before \o one)[i] =
              IF i <= Len(before) THEN before[i] ELSE one[i - Len(before)]
    BY <1>1, <1>3, ConcatElements
  <2> QED  BY <2>1, <1>1, <1>3
<1> DEFINE front == before \o one
<1>6. /\ front \o after \in Seq(S)
      /\ Len(front \o after) = k + (Len(s) + 1 - k)
      /\ \A i \in 1 .. k + (Len(s) + 1 - k) : (front \o after)[i] =
            IF i <= k THEN front[i] ELSE after[i - k]
  <2>1. front \in Seq(S) /\ Len(front) = k /\ after \in Seq(S) /\ Len(after) = Len(s) + 1 - k
    BY <1>2, <1>5
  <2> HIDE DEF front
  <2>2. /\ front \o after \in Seq(S)
        /\ Len(front \o after) = Len(front) + Len(after)
        /\ \A i \in 1 .. Len(front) + Len(after) : (front \o after)[i] =
              IF i <= Len(front) THEN front[i] ELSE after[i - Len(front)]
    BY <2>1, ConcatElements
  <2> QED
    BY <2>1, <2>2
<1>7. \A i \in 1 .. Len(s) + 1 : i > k => after[i - k] = s[i - 1]
  BY <1>2
<1> QED  BY <1>4, <1>5, <1>6, <1>7

\* RemoveAt shifts the elements after the removed one.
LEMMA RemoveAtElements ==
  ASSUME NEW S, NEW s \in Seq(S), NEW k \in 1 .. Len(s)
  PROVE  /\ RemoveAt(s, k) \in Seq(S)
         /\ Len(RemoveAt(s, k)) = Len(s) - 1
         /\ \A i \in 1 .. Len(s) - 1 : RemoveAt(s, k)[i] = IF i < k THEN s[i] ELSE s[i + 1]
<1> DEFINE before == SubSeq(s, 1, k - 1)
           after  == SubSeq(s, k + 1, Len(s))
<1>1. /\ before \in Seq(S) /\ Len(before) = k - 1
      /\ \A i \in 1 .. k - 1 : before[i] = s[i]
  OBVIOUS
<1>2. /\ after \in Seq(S) /\ Len(after) = Len(s) - k
      /\ \A i \in 1 .. Len(s) - k : after[i] = s[k + i]
  OBVIOUS
<1>3. RemoveAt(s, k) = before \o after
  BY DEF RemoveAt
<1> HIDE DEF before, after
<1>4. /\ before \o after \in Seq(S)
      /\ Len(before \o after) = Len(before) + Len(after)
      /\ \A i \in 1 .. Len(before) + Len(after) : (before \o after)[i] =
            IF i <= Len(before) THEN before[i] ELSE after[i - Len(before)]
  BY <1>1, <1>2, ConcatElements
<1>5. Len(before) + Len(after) = Len(s) - 1
  BY <1>1, <1>2
<1>6. ASSUME NEW i \in 1 .. Len(s) - 1
      PROVE  (before \o after)[i] = IF i < k THEN s[i] ELSE s[i + 1]
  <2>1. CASE i < k
    BY <1>1, <1>4, <1>5, <2>1
  <2>2. CASE ~(i < k)
    <3>1. (before \o after)[i] = after[i - (k - 1)]
      BY <1>1, <1>4, <1>5, <2>2
    <3>2. i - (k - 1) \in 1 .. Len(s) - k /\ k + (i - (k - 1)) = i + 1
      BY <2>2
    <3>3. after[i - (k - 1)] = s[k + (i - (k - 1))]
      BY <1>2, <3>2
    <3> QED  BY <2>2, <3>1, <3>2, <3>3
  <2> QED  BY <2>1, <2>2
<1> QED  BY <1>3, <1>4, <1>5, <1>6

\* ReplaceAt changes one element.
LEMMA ReplaceElements ==
  ASSUME NEW S, NEW s \in Seq(S), NEW e \in S, NEW k \in 1 .. Len(s)
  PROVE  /\ [s EXCEPT ![k] = e] \in Seq(S)
         /\ Len([s EXCEPT ![k] = e]) = Len(s)
         /\ \A i \in 1 .. Len(s) : [s EXCEPT ![k] = e][i] = IF i = k THEN e ELSE s[i]
OBVIOUS

\* Where a sequence that is not covered belongs: between two ranges, with a gap where it
\* does not merge.
LEMMA PlaceOfNew ==
  ASSUME NEW ranges \in Seq(AckRange), WellFormed(ranges), NEW n \in Nat, ~Covers(ranges, n)
  PROVE  LET k == StartingBefore(ranges, n)
         IN /\ k \in 0 .. Len(ranges)
            /\ \A i \in 1 .. Len(ranges) : i <= k =>
                 ranges[i].end <= n /\ (~MergesLeft(ranges, n, k) => ranges[i].end < n)
            /\ \A i \in 1 .. Len(ranges) : i > k =>
                 ranges[i].start > n /\ (~MergesRight(ranges, n, k) => ranges[i].start > n + 1)
<1> DEFINE k == StartingBefore(ranges, n)
<1>1. /\ k \in 0 .. Len(ranges)
      /\ \A i \in 1 .. Len(ranges) : i <= k <=> ranges[i].start < n
  BY StartingBeforeSplits
<1> HIDE DEF k
<1>2. \A i \in 1 .. Len(ranges) : /\ ranges[i].start \in Nat /\ ranges[i].end \in Nat
                                  /\ ranges[i].start < ranges[i].end
                                  /\ ~(ranges[i].start <= n /\ n < ranges[i].end)
  <2>1. \A i \in 1 .. Len(ranges) : ranges[i] \in AckRange
    OBVIOUS
  <2> QED  BY <2>1 DEF AckRange, WellFormed, Covers
<1>3. ASSUME NEW i \in 1 .. Len(ranges), i <= k
      PROVE  ranges[i].end <= n /\ (~MergesLeft(ranges, n, k) => ranges[i].end < n)
  <2>1. ranges[i].end <= n
    BY <1>1, <1>2, <1>3
  <2>2. ASSUME ranges[i].end = n  PROVE MergesLeft(ranges, n, k)
    <3>1. k \in 1 .. Len(ranges)
      BY <1>1, <1>3
    <3>2. ranges[k].end <= n
      BY <1>1, <1>2, <3>1
    <3>3. ~(i < k)
      BY <3>1, <3>2, <2>2, <1>2 DEF WellFormed
    <3> QED  BY <3>1, <3>3, <1>3, <2>2 DEF MergesLeft
  <2> QED  BY <2>1, <2>2, <1>2
<1>4. ASSUME NEW i \in 1 .. Len(ranges), i > k
      PROVE  ranges[i].start > n /\ (~MergesRight(ranges, n, k) => ranges[i].start > n + 1)
  <2>1. ranges[i].start > n
    BY <1>1, <1>2, <1>4
  <2>2. ASSUME ranges[i].start = n + 1  PROVE MergesRight(ranges, n, k)
    <3>1. k + 1 \in 1 .. Len(ranges)
      BY <1>1, <1>4
    <3>2. ranges[k + 1].start > n
      BY <1>1, <1>2, <3>1
    <3>3. ~(k + 1 < i)
      BY <3>1, <3>2, <2>2, <1>2 DEF WellFormed
    <3> QED  BY <1>1, <3>1, <3>3, <1>4, <2>2 DEF MergesRight
  <2> QED  BY <2>1, <2>2, <1>2
<1> QED  BY <1>1, <1>3, <1>4 DEF k

\* What it is for a list of ranges to be well-formed, element by element.
LEMMA Elements ==
  ASSUME NEW ranges \in Seq(AckRange), WellFormed(ranges)
  PROVE  /\ Len(ranges) \in Nat
         /\ \A i \in 1 .. Len(ranges) :
              /\ ranges[i] \in AckRange
              /\ ranges[i].start \in Nat /\ ranges[i].end \in Nat
              /\ ranges[i].start < ranges[i].end
         /\ \A i, j \in 1 .. Len(ranges) : i < j => ranges[i].end < ranges[j].start
<1>1. Len(ranges) \in Nat /\ \A i \in 1 .. Len(ranges) : ranges[i] \in AckRange
  OBVIOUS
<1> QED  BY <1>1 DEF AckRange, WellFormed

\* insert_acknowledged_sequence keeps the list sorted, disjoint and merged, and adds exactly
\* the new sequence to what it covers.
THEOREM AcknowledgeAddsOne ==
  ASSUME NEW ranges \in Seq(AckRange), WellFormed(ranges), NEW n \in Nat, ~Covers(ranges, n)
  PROVE  /\ Acknowledge(ranges, n) \in Seq(AckRange)
         /\ WellFormed(Acknowledge(ranges, n))
         /\ \A m \in Nat : Covers(Acknowledge(ranges, n), m) <=> Covers(ranges, m) \/ m = n
<1> DEFINE k == StartingBefore(ranges, n)
           left  == MergesLeft(ranges, n, k)
           right == MergesRight(ranges, n, k)
           after == Acknowledge(ranges, n)
           len == Len(ranges)
<1>1. /\ k \in 0 .. len
      /\ \A i \in 1 .. len : i <= k => ranges[i].end <= n /\ (~left => ranges[i].end < n)
      /\ \A i \in 1 .. len : i > k => ranges[i].start > n /\ (~right => ranges[i].start > n + 1)
  BY PlaceOfNew
<1>2. /\ len \in Nat
      /\ \A i \in 1 .. len :
           /\ ranges[i] \in AckRange
           /\ ranges[i].start \in Nat /\ ranges[i].end \in Nat
           /\ ranges[i].start < ranges[i].end
      /\ \A i, j \in 1 .. len : i < j => ranges[i].end < ranges[j].start
  BY Elements
<1>3. left => k \in 1 .. len /\ ranges[k].end = n
  BY <1>1 DEF MergesLeft
<1>4. right => k + 1 \in 1 .. len /\ ranges[k + 1].start = n + 1
  BY <1>1 DEF MergesRight
<1>5. CASE left /\ right
  <2> DEFINE e == [start |-> ranges[k].start, end |-> ranges[k + 1].end]
             joined == [ranges EXCEPT ![k] = e]
  <2>1. /\ k \in 1 .. len /\ k + 1 \in 1 .. len /\ e \in AckRange
        /\ [ranges[k] EXCEPT !.end = ranges[k + 1].end] = e
        /\ e.start = ranges[k].start /\ e.end = ranges[k + 1].end
    <3>1. k \in 1 .. len /\ k + 1 \in 1 .. len
      BY <1>3, <1>4, <1>5
    <3>2. e \in AckRange
      BY <3>1, <1>2 DEF AckRange
    <3>3. [ranges[k] EXCEPT !.end = ranges[k + 1].end] = e
      BY <3>1, <1>2 DEF AckRange
    <3>4. e.start = ranges[k].start /\ e.end = ranges[k + 1].end
      OBVIOUS
    <3> QED  BY <3>1, <3>2, <3>3, <3>4
  <2>2. after = RemoveAt(joined, k + 1)
    BY <2>1, <1>5 DEF Acknowledge
  <2> HIDE DEF after, k, len, left, right, e
  <2>3. /\ joined \in Seq(AckRange) /\ Len(joined) = len
        /\ \A i \in 1 .. len : joined[i] = IF i = k THEN e ELSE ranges[i]
    BY <2>1, ReplaceElements DEF len
  <2> HIDE DEF joined
  <2>4. /\ after \in Seq(AckRange) /\ Len(after) = len - 1
        /\ \A i \in 1 .. len - 1 : after[i] = IF i < k + 1 THEN joined[i] ELSE joined[i + 1]
    BY <2>1, <2>2, <2>3, RemoveAtElements
  <2>5. /\ \A i \in 1 .. len : i < k => i \in 1 .. len - 1 /\ after[i] = ranges[i]
        /\ k \in 1 .. len - 1
        /\ after[k].start = ranges[k].start /\ after[k].end = ranges[k + 1].end
        /\ \A i \in 1 .. len - 1 : i > k => i + 1 \in 1 .. len /\ after[i] = ranges[i + 1]
        /\ \A i \in 1 .. len : i > k + 1 => i - 1 \in 1 .. len - 1 /\ after[i - 1] = ranges[i]
    <3>1. \A i \in 1 .. len : i < k => i \in 1 .. len - 1 /\ after[i] = ranges[i]
      BY <2>1, <2>3, <2>4, <1>2
    <3>2. k \in 1 .. len - 1 /\ after[k] = e
      BY <2>1, <2>3, <2>4, <1>2
    <3>3. \A i \in 1 .. len - 1 : i > k => i + 1 \in 1 .. len /\ after[i] = ranges[i + 1]
      BY <2>1, <2>3, <2>4, <1>2
    <3>4. ASSUME NEW i \in 1 .. len, i > k + 1
          PROVE  i - 1 \in 1 .. len - 1 /\ after[i - 1] = ranges[i]
      <4>1. i - 1 \in 1 .. len - 1 /\ i - 1 > k /\ (i - 1) + 1 = i
        BY <3>4, <2>1, <1>2
      <4> QED  BY <4>1, <3>3
    <3> QED  BY <3>1, <3>2, <3>3, <3>4, <2>1
  <2>6. ASSUME NEW i \in 1 .. len - 1
        PROVE  after[i].start < after[i].end
    <3>1. CASE i < k
      BY <3>1, <2>5, <1>2
    <3>2. CASE i = k
      <4>1. ranges[k].end < ranges[k + 1].start /\ ranges[k].start < ranges[k].end
        BY <2>1, <1>2, k < k + 1
      <4> QED  BY <4>1, <3>2, <2>1, <2>5, <1>2
    <3>3. CASE i > k
      BY <3>3, <2>5, <1>2
    <3> QED  BY <3>1, <3>2, <3>3, <2>1
  <2>7. ASSUME NEW i \in 1 .. len - 1, NEW j \in 1 .. len - 1, i < j
        PROVE  after[i].end < after[j].start
    <3>1. CASE j <= k
      <4>1. i \in 1 .. len /\ j \in 1 .. len /\ i < k
        BY <3>1, <2>1, <2>7, <1>2
      <4>2. ranges[i].end < ranges[j].start
        BY <4>1, <2>7, <1>2
      <4>3. after[i] = ranges[i] /\ after[j].start = ranges[j].start
        BY <4>1, <3>1, <2>1, <2>5
      <4> QED  BY <4>2, <4>3
    <3>2. CASE j > k /\ i < k
      <4>1. i \in 1 .. len /\ j + 1 \in 1 .. len /\ i < j + 1
        BY <3>2, <2>1, <2>7, <1>2
      <4>2. ranges[i].end < ranges[j + 1].start
        BY <4>1, <1>2
      <4> QED  BY <3>2, <4>1, <4>2, <2>5
    <3>3. CASE j > k /\ i = k
      <4>1. ranges[k + 1].end < ranges[j + 1].start
        BY <3>3, <2>1, <2>5, <1>2
      <4> QED  BY <3>3, <4>1, <2>5
    <3>4. CASE j > k /\ i > k
      <4>1. ranges[i + 1].end < ranges[j + 1].start
        BY <3>4, <2>5, <2>7, <1>2
      <4> QED  BY <3>4, <4>1, <2>5
    <3> QED  BY <3>1, <3>2, <3>3, <3>4, <2>1
  <2>8. ASSUME NEW m \in Nat
        PROVE  (\E i \in 1 .. len - 1 : after[i].start <= m /\ m < after[i].end)
                 <=> (\E i \in 1 .. len : ranges[i].start <= m /\ m < ranges[i].end) \/ m = n
    <3>1. ASSUME NEW i \in 1 .. len - 1, after[i].start <= m, m < after[i].end
          PROVE  (\E q \in 1 .. len : ranges[q].start <= m /\ m < ranges[q].end) \/ m = n
      <4>1. CASE i < k
        <5>1. i \in 1 .. len
          BY <1>2
        <5> QED  BY <5>1, <4>1, <3>1, <2>5
      <4>2. CASE i = k
        <5>1. ranges[k].start <= m /\ m < ranges[k + 1].end
          BY <4>2, <3>1, <2>5
        <5>2. m < ranges[k].end \/ m = n \/ ranges[k + 1].start <= m
          BY <2>1, <1>2, <1>3, <1>4, <1>5
        <5> QED  BY <5>1, <5>2, <2>1
      <4>3. CASE i > k
        BY <4>3, <3>1, <2>5
      <4> QED  BY <4>1, <4>2, <4>3, <2>1
    <3>2. ASSUME NEW i \in 1 .. len, ranges[i].start <= m, m < ranges[i].end
          PROVE  \E q \in 1 .. len - 1 : after[q].start <= m /\ m < after[q].end
      <4>1. CASE i < k
        BY <4>1, <3>2, <2>5
      <4>2. CASE i = k \/ i = k + 1
        <5>1. ranges[k].start <= m /\ m < ranges[k + 1].end
          BY <4>2, <3>2, <2>1, <1>2, <1>3, <1>4, <1>5
        <5> QED  BY <5>1, <2>5
      <4>3. CASE i > k + 1
        BY <4>3, <3>2, <2>5
      <4> QED  BY <4>1, <4>2, <4>3, <2>1
    <3>3. after[k].start <= n /\ n < after[k].end
      BY <2>1, <2>5, <1>2, <1>3, <1>4, <1>5
    <3> QED  BY <3>1, <3>2, <3>3, <2>5
  <2> QED  BY <2>4, <2>6, <2>7, <2>8 DEF WellFormed, Covers, after, len
<1>6. CASE left /\ ~right
  <2> DEFINE e == [start |-> ranges[k].start, end |-> n + 1]
  <2>1. k \in 1 .. len /\ e \in AckRange /\ [ranges[k] EXCEPT !.end = n + 1] = e
    BY <1>2, <1>3, <1>6 DEF AckRange
  <2>2. after = [ranges EXCEPT ![k] = e]
    BY <2>1, <1>6 DEF Acknowledge
  <2>3. e.start = ranges[k].start /\ e.end = n + 1
    OBVIOUS
  <2> HIDE DEF after, k, len, left, right, e
  <2>4. /\ after \in Seq(AckRange) /\ Len(after) = len
        /\ \A i \in 1 .. len : after[i] = IF i = k THEN e ELSE ranges[i]
    BY <2>1, <2>2, ReplaceElements DEF len
  <2>5. \A i \in 1 .. len :
           /\ after[i].start = ranges[i].start
           /\ after[i].end = IF i = k THEN n + 1 ELSE ranges[i].end
    BY <2>3, <2>4
  <2>6. \A i \in 1 .. len : after[i].start < after[i].end
    BY <2>5, <1>1, <1>2, <1>3, <1>6
  <2>7. \A i, j \in 1 .. len : i < j => after[i].end < after[j].start
    BY <2>5, <1>1, <1>2, <1>3, <1>6
  <2>8. ASSUME NEW m \in Nat
        PROVE  (\E i \in 1 .. len : after[i].start <= m /\ m < after[i].end)
                 <=> (\E i \in 1 .. len : ranges[i].start <= m /\ m < ranges[i].end) \/ m = n
    <3>1. ASSUME NEW i \in 1 .. len, after[i].start <= m, m < after[i].end
          PROVE  (ranges[i].start <= m /\ m < ranges[i].end) \/ m = n
      BY <3>1, <2>5, <1>2, <1>3, <1>6
    <3>2. ASSUME NEW i \in 1 .. len, ranges[i].start <= m, m < ranges[i].end
          PROVE  after[i].start <= m /\ m < after[i].end
      BY <3>2, <2>5, <1>2, <1>3, <1>6
    <3>3. after[k].start <= n /\ n < after[k].end
      BY <2>1, <2>5, <1>2, <1>3, <1>6
    <3> QED  BY <3>1, <3>2, <3>3, <2>1
  <2> QED  BY <2>4, <2>6, <2>7, <2>8 DEF WellFormed, Covers, after, len
<1>7. CASE ~left /\ right
  <2> DEFINE e == [start |-> n, end |-> ranges[k + 1].end]
  <2>1. k + 1 \in 1 .. len /\ e \in AckRange /\ [ranges[k + 1] EXCEPT !.start = n] = e
    BY <1>2, <1>4, <1>7 DEF AckRange
  <2>2. after = [ranges EXCEPT ![k + 1] = e]
    BY <2>1, <1>7 DEF Acknowledge
  <2>3. e.start = n /\ e.end = ranges[k + 1].end
    OBVIOUS
  <2> HIDE DEF after, k, len, left, right, e
  <2>4. /\ after \in Seq(AckRange) /\ Len(after) = len
        /\ \A i \in 1 .. len : after[i] = IF i = k + 1 THEN e ELSE ranges[i]
    BY <2>1, <2>2, ReplaceElements DEF len
  <2>5. \A i \in 1 .. len :
           /\ after[i].start = IF i = k + 1 THEN n ELSE ranges[i].start
           /\ after[i].end = ranges[i].end
    BY <2>3, <2>4
  <2>6. \A i \in 1 .. len : after[i].start < after[i].end
    BY <2>5, <1>1, <1>2, <1>4, <1>7
  <2>7. \A i, j \in 1 .. len : i < j => after[i].end < after[j].start
    BY <2>5, <1>1, <1>2, <1>4, <1>7
  <2>8. ASSUME NEW m \in Nat
        PROVE  (\E i \in 1 .. len : after[i].start <= m /\ m < after[i].end)
                 <=> (\E i \in 1 .. len : ranges[i].start <= m /\ m < ranges[i].end) \/ m = n
    <3>1. ASSUME NEW i \in 1 .. len, after[i].start <= m, m < after[i].end
          PROVE  (ranges[i].start <= m /\ m < ranges[i].end) \/ m = n
      BY <3>1, <2>5, <1>2, <1>4, <1>7
    <3>2. ASSUME NEW i \in 1 .. len, ranges[i].start <= m, m < ranges[i].end
          PROVE  after[i].start <= m /\ m < after[i].end
      <4>1. CASE i = k + 1
        BY <4>1, <3>2, <2>5, <1>4, <1>7
      <4>2. CASE i # k + 1
        BY <4>2, <3>2, <2>5
      <4> QED  BY <4>1, <4>2
    <3>3. after[k + 1].start <= n /\ n < after[k + 1].end
      BY <2>1, <2>5, <1>2, <1>4, <1>7
    <3> QED  BY <3>1, <3>2, <3>3, <2>1
  <2> QED  BY <2>4, <2>6, <2>7, <2>8 DEF WellFormed, Covers, after, len
<1>8. CASE ~left /\ ~right
  <2> DEFINE e == [start |-> n, end |-> n + 1]
  <2>1. e \in AckRange /\ e.start = n /\ e.end = n + 1 /\ k + 1 \in 1 .. len + 1
    BY <1>1, <1>2 DEF AckRange
  <2>2. after = InsertAt(ranges, k + 1, e)
    BY <1>8 DEF Acknowledge
  <2> HIDE DEF after, k, len, left, right, e
  <2> DEFINE p == k + 1
  <2>3. /\ after \in Seq(AckRange) /\ Len(after) = len + 1
        /\ \A i \in 1 .. len + 1 : after[i] =
             IF i < p THEN ranges[i] ELSE IF i = p THEN e ELSE ranges[i - 1]
    <3>1. p \in 1 .. Len(ranges) + 1 /\ after = InsertAt(ranges, p, e)
      BY <2>1, <2>2 DEF len
    <3> HIDE DEF p
    <3>2. p \in 1 .. Len(ranges) + 1 /\ e \in AckRange /\ ranges \in Seq(AckRange)
      BY <3>1, <2>1
    <3>3. /\ InsertAt(ranges, p, e) \in Seq(AckRange)
          /\ Len(InsertAt(ranges, p, e)) = Len(ranges) + 1
          /\ \A i \in 1 .. Len(ranges) + 1 : InsertAt(ranges, p, e)[i] =
               IF i < p THEN ranges[i] ELSE IF i = p THEN e ELSE ranges[i - 1]
      BY <3>2, InsertAtElements
    <3> QED  BY <3>1, <3>3 DEF len
  <2>4. /\ \A i \in 1 .. len : i <= k => after[i] = ranges[i]
        /\ after[k + 1].start = n /\ after[k + 1].end = n + 1
        /\ \A i \in 1 .. len : i > k => after[i + 1] = ranges[i]
        /\ \A i \in 1 .. len + 1 : i > k + 1 => i - 1 \in 1 .. len /\ after[i] = ranges[i - 1]
    BY <2>1, <2>3, <1>1, <1>2
  <2>5. ASSUME NEW i \in 1 .. len + 1
        PROVE  after[i].start < after[i].end
    <3>1. CASE i <= k
      BY <3>1, <2>4, <1>1, <1>2
    <3>2. CASE i = k + 1
      BY <3>2, <2>4
    <3>3. CASE i > k + 1
      BY <3>3, <2>4, <1>2
    <3> QED  BY <3>1, <3>2, <3>3, <1>1
  <2>6. ASSUME NEW i \in 1 .. len + 1, NEW j \in 1 .. len + 1, i < j
        PROVE  after[i].end < after[j].start
    <3>1. CASE j <= k
      BY <3>1, <2>4, <2>6, <1>1, <1>2
    <3>2. CASE j = k + 1
      <4>1. i \in 1 .. len /\ i <= k
        BY <3>2, <2>6, <1>1, <1>2
      <4>2. ranges[i].end < n
        BY <4>1, <1>1, <1>8
      <4> QED  BY <3>2, <4>1, <4>2, <2>4
    <3>3. CASE j > k + 1 /\ i <= k
      <4>1. i \in 1 .. len /\ j - 1 \in 1 .. len /\ i < j - 1
        BY <3>3, <2>4, <1>1, <1>2
      <4>2. ranges[i].end < ranges[j - 1].start
        BY <4>1, <1>2
      <4> QED  BY <3>3, <4>1, <4>2, <2>4
    <3>4. CASE j > k + 1 /\ i = k + 1
      BY <3>4, <2>4, <1>1, <1>2, <1>8
    <3>5. CASE j > k + 1 /\ i > k + 1
      <4>1. i - 1 \in 1 .. len /\ j - 1 \in 1 .. len /\ i - 1 < j - 1
        BY <3>5, <2>6, <2>4
      <4>2. ranges[i - 1].end < ranges[j - 1].start
        BY <4>1, <1>2
      <4> QED  BY <3>5, <4>2, <2>4
    <3> QED  BY <3>1, <3>2, <3>3, <3>4, <3>5, <2>6, <1>1
  <2>7. ASSUME NEW m \in Nat
        PROVE  (\E i \in 1 .. len + 1 : after[i].start <= m /\ m < after[i].end)
                 <=> (\E i \in 1 .. len : ranges[i].start <= m /\ m < ranges[i].end) \/ m = n
    <3>1. ASSUME NEW i \in 1 .. len + 1, after[i].start <= m, m < after[i].end
          PROVE  (\E q \in 1 .. len : ranges[q].start <= m /\ m < ranges[q].end) \/ m = n
      <4>1. CASE i <= k
        <5>1. i \in 1 .. len
          BY <4>1, <1>1, <1>2
        <5> QED  BY <5>1, <4>1, <3>1, <2>4
      <4>2. CASE i = k + 1
        BY <4>2, <3>1, <2>4
      <4>3. CASE i > k + 1
        BY <4>3, <3>1, <2>4
      <4> QED  BY <4>1, <4>2, <4>3, <1>1
    <3>2. ASSUME NEW i \in 1 .. len, ranges[i].start <= m, m < ranges[i].end
          PROVE  \E q \in 1 .. len + 1 : after[q].start <= m /\ m < after[q].end
      <4>1. CASE i <= k
        BY <4>1, <3>2, <2>4, <1>2
      <4>2. CASE i > k
        BY <4>2, <3>2, <2>4, <1>2, i + 1 \in 1 .. len + 1
      <4> QED  BY <4>1, <4>2, <1>1
    <3>3. after[k + 1].start <= n /\ n < after[k + 1].end
      BY <2>4
    <3> QED  BY <3>1, <3>2, <3>3, <2>1
  <2> QED  BY <2>3, <2>5, <2>6, <2>7 DEF WellFormed, Covers, after, len
<1> QED  BY <1>5, <1>6, <1>7, <1>8

-----------------------------------------------------------------------------
(* Records.                                                                *)

\* A record is told by its state, its window and its token.
LEMMA Records ==
  ASSUME NEW r \in Record
  PROVE  /\ r.window \in Windows /\ r.state \in {"queued", "processing", "applied"}
         /\ r.state = "queued" => r = Queued(r.window)
         /\ r.state = "processing" => r.token \in Attempts /\ r = Processing(r.window, r.token)
         /\ r.state = "applied" => r.token \in Attempts /\ r = Applied(r.window, r.token)
         /\ r # NoRecord
BY NullAssumption DEF Record, Queued, Processing, Applied

LEMMA MadeRecords ==
  ASSUME NEW w \in Windows
  PROVE  /\ Queued(w) \in Record /\ Queued(w).state = "queued" /\ Queued(w).window = w
         /\ \A t \in Attempts :
              /\ Processing(w, t) \in Record /\ Processing(w, t).state = "processing"
              /\ Processing(w, t).window = w /\ Processing(w, t).token = t
         /\ \A t \in Attempts :
              /\ Applied(w, t) \in Record /\ Applied(w, t).state = "applied"
              /\ Applied(w, t).window = w /\ Applied(w, t).token = t
BY DEF Record, Queued, Processing, Applied

\* The fields of an image.
LEMMA Images ==
  ASSUME NEW d \in Image
  PROVE  /\ d.records \in [Sequences -> Record \cup {NoRecord}]
         /\ d.ranges \in Seq(AckRange) /\ d.fences \in Seq(Fence)
         /\ d.retained \in [Sequences -> Request \cup {NoRequest}]
         /\ d.nextSequence \in 0 .. (MaxSequence - 1) /\ d.nextAttempt \in 0 .. (MaxAttempt - 1)
         /\ d.nextRequestId \in 0 .. (MaxSequence - 1)
BY DEF Image

\* An image with other records.
LEMMA OtherRecords ==
  ASSUME NEW d \in Image, NEW records \in [Sequences -> Record \cup {NoRecord}]
  PROVE  LET e == [d EXCEPT !.records = records]
         IN /\ e \in Image /\ e.records = records
            /\ e.ranges = d.ranges /\ e.fences = d.fences /\ e.retained = d.retained
            /\ e.nextSequence = d.nextSequence /\ e.nextAttempt = d.nextAttempt
            /\ e.nextRequestId = d.nextRequestId
BY DEF Image

\* Two images are the same when their fields are.
LEMMA SameImage ==
  ASSUME NEW d \in Image, NEW e \in Image,
         d.records = e.records, d.ranges = e.ranges, d.fences = e.fences, d.retained = e.retained,
         d.nextSequence = e.nextSequence, d.nextAttempt = e.nextAttempt, d.nextRequestId = e.nextRequestId
  PROVE  d = e
BY DEF Image

LEMMA Limits ==
  /\ MaxSequence \in Nat /\ MaxSequence >= 2 /\ MaxAttempt \in Nat /\ MaxAttempt >= 2
  /\ MaxFences \in Nat /\ MaxFences > 0
  /\ Sequences \subseteq Nat /\ Attempts \subseteq Nat
BY LimitAssumption DEF Sequences, Attempts

\* The records an image has, and those among them that were tried.
LEMMA RecordsOf ==
  ASSUME NEW d \in Image
  PROVE  /\ Recorded(d) \subseteq Sequences /\ Tried(d) \subseteq Recorded(d)
         /\ Retained(d) \subseteq Sequences
         /\ \A s \in Recorded(d) : d.records[s] \in Record
         /\ \A s \in Tried(d) : d.records[s].token \in Attempts
         /\ \A s \in Retained(d) : d.retained[s] \in Request
<1>1. /\ Recorded(d) \subseteq Sequences /\ Tried(d) \subseteq Recorded(d) /\ Retained(d) \subseteq Sequences
      /\ \A s \in Recorded(d) : d.records[s] \in Record
      /\ \A s \in Retained(d) : d.retained[s] \in Request
  BY Images DEF Recorded, Tried, Retained
<1>2. \A s \in Tried(d) : d.records[s].token \in Attempts
  BY <1>1, Records DEF Tried
<1> QED
  BY <1>1, <1>2

-----------------------------------------------------------------------------
(* Sound images.                                                           *)

\* What every operation may rely on, and leaves behind.
Sound(d) == d \in Image /\ ValidSnapshot(d) /\ RetainedValid(d)

\* A change of the records' states alone.
LEMMA SoundRecords ==
  ASSUME NEW d, Sound(d), NEW records \in [Sequences -> Record \cup {NoRecord}],
         \A s \in Sequences : records[s] = NoRecord <=> d.records[s] = NoRecord,
         \A s \in Recorded(d) : records[s].window = d.records[s].window,
         \A s \in Recorded(d) : records[s].state # "queued" =>
           d.records[s].state # "queued" /\ records[s].token = d.records[s].token
  PROVE  Sound([d EXCEPT !.records = records])
<1>1. PICK e : e = [d EXCEPT !.records = records]
  OBVIOUS
<1>2. /\ e \in Image /\ e.records = records
      /\ e.ranges = d.ranges /\ e.fences = d.fences /\ e.retained = d.retained
      /\ e.nextSequence = d.nextSequence /\ e.nextAttempt = d.nextAttempt
      /\ e.nextRequestId = d.nextRequestId
  BY <1>1, OtherRecords DEF Sound
<1>3. Recorded(e) = Recorded(d) /\ Retained(e) = Retained(d) /\ FenceIds(e) = FenceIds(d)
  BY <1>2 DEF Recorded, Retained, FenceIds
<1>4. \A s \in Tried(e) : s \in Tried(d) /\ e.records[s].token = d.records[s].token
  BY <1>2, <1>3 DEF Tried
<1>5. SequencesShared(e)
  BY <1>2, <1>3 DEF SequencesShared, Sound, ValidSnapshot
<1>6. TokensUnique(e)
  BY <1>2, <1>3, <1>4 DEF TokensUnique, Sound, ValidSnapshot
<1>7. FencesValid(e)
  BY <1>2, <1>3 DEF FencesValid, Sound, ValidSnapshot
<1>8. RetainedValid(e)
  BY <1>2, <1>3 DEF RetainedValid, Sound
<1> QED
  BY <1>1, <1>2, <1>5, <1>6, <1>7, <1>8 DEF Sound, ValidSnapshot

\* What a restart makes of the records.
LEMMA RequeuedRecords ==
  ASSUME NEW d \in Image, NEW s \in Sequences
  PROVE  /\ Requeued(d.records[s]) \in Record \cup {NoRecord}
         /\ Requeued(d.records[s]) = NoRecord <=> d.records[s] = NoRecord
         /\ d.records[s] # NoRecord =>
              /\ Requeued(d.records[s]).window = d.records[s].window
              /\ Requeued(d.records[s]).state = (IF d.records[s].state = "applied" THEN "applied" ELSE "queued")
              /\ d.records[s].state # "processing" => Requeued(d.records[s]) = d.records[s]
<1>1. d.records[s] \in Record \cup {NoRecord}
  BY Images
<1>2. CASE d.records[s] = NoRecord
  BY <1>2 DEF Requeued
<1>3. CASE d.records[s] \in Record
  <2>1. d.records[s] # NoRecord /\ d.records[s].window \in Windows
        /\ d.records[s].state \in {"queued", "processing", "applied"}
    BY <1>3, Records
  <2>2. LET q == Queued(d.records[s].window)
        IN q \in Record /\ q.state = "queued" /\ q.window = d.records[s].window /\ q # NoRecord
    BY <2>1, MadeRecords, Records
  <2> QED
    BY <1>3, <2>1, <2>2 DEF Requeued
<1> QED
  BY <1>1, <1>2, <1>3

LEMMA ColdFields ==
  ASSUME NEW d \in Image
  PROVE  /\ Cold(d) \in Image
         /\ Cold(d).records = [s \in Sequences |-> Requeued(d.records[s])]
         /\ Cold(d).ranges = d.ranges /\ Cold(d).fences = d.fences /\ Cold(d).retained = d.retained
         /\ Cold(d).nextSequence = d.nextSequence /\ Cold(d).nextAttempt = d.nextAttempt
         /\ Cold(d).nextRequestId = d.nextRequestId
<1> DEFINE records == [s \in Sequences |-> Requeued(d.records[s])]
<1>1. records \in [Sequences -> Record \cup {NoRecord}]
  BY RequeuedRecords
<1> QED
  BY <1>1, OtherRecords DEF Cold

\* A restart keeps the sequences, the windows and the attempts that were applied.
LEMMA ColdIsSound ==
  ASSUME NEW d, Sound(d)
  PROVE  Sound(Cold(d))
<1> DEFINE records == [s \in Sequences |-> Requeued(d.records[s])]
<1>1. d \in Image /\ records \in [Sequences -> Record \cup {NoRecord}]
  BY RequeuedRecords DEF Sound
<1>2. \A s \in Sequences : records[s] = NoRecord <=> d.records[s] = NoRecord
  BY <1>1, RequeuedRecords
<1>3. \A s \in Recorded(d) : records[s].window = d.records[s].window
  BY <1>1, RequeuedRecords DEF Recorded
<1>4. \A s \in Recorded(d) : records[s].state # "queued" =>
        d.records[s].state # "queued" /\ records[s].token = d.records[s].token
  BY <1>1, RequeuedRecords DEF Recorded
<1> HIDE DEF records
<1>5. Sound([d EXCEPT !.records = records])
  BY <1>1, <1>2, <1>3, <1>4, SoundRecords
<1> QED
  BY <1>5 DEF Cold, records

LEMMA SoundLoads ==
  ASSUME NEW d, Sound(d)
  PROVE  Loadable(d)
BY ColdIsSound DEF Sound, Loadable

LEMMA ColdTwice ==
  ASSUME NEW d \in Image
  PROVE  Cold(Cold(d)) = Cold(d)
<1>1. Cold(d) \in Image /\ Cold(Cold(d)) \in Image
  BY ColdFields
<1>2. ASSUME NEW s \in Sequences
      PROVE  Requeued(Requeued(d.records[s])) = Requeued(d.records[s])
  <2>1. PICK r : r = Requeued(d.records[s])
    OBVIOUS
  <2>2. r = NoRecord \/ r.state \in {"queued", "applied"}
    BY <2>1, RequeuedRecords
  <2> QED
    BY <2>1, <2>2 DEF Requeued
<1>3. Cold(Cold(d)).records = Cold(d).records
  <2>1. PICK c \in Image : c = Cold(d)
    BY <1>1
  <2>2. c.records = [s \in Sequences |-> Requeued(d.records[s])]
    BY <2>1, ColdFields
  <2>3. Cold(c).records = [s \in Sequences |-> Requeued(c.records[s])]
    BY ColdFields
  <2>4. \A s \in Sequences : Requeued(c.records[s]) = Requeued(d.records[s])
    BY <1>2, <2>2
  <2> QED
    BY <2>1, <2>2, <2>3, <2>4
<1> QED
  BY <1>1, <1>3, ColdFields, SameImage

LEMMA EmptyIsSound == Sound(Empty) /\ Cold(Empty) = Empty
<1>1. /\ Empty.records = [s \in Sequences |-> NoRecord] /\ Empty.ranges = <<>> /\ Empty.fences = <<>>
      /\ Empty.retained = [s \in Sequences |-> NoRequest]
      /\ Empty.nextSequence = 0 /\ Empty.nextAttempt = 0 /\ Empty.nextRequestId = 0
  BY DEF Empty
<1>2. Empty \in Image
  BY Limits DEF Empty, Image
<1>3. Recorded(Empty) = {} /\ Retained(Empty) = {} /\ Tried(Empty) = {} /\ FenceIds(Empty) = {}
  BY <1>1 DEF Recorded, Retained, Tried, FenceIds
<1>4. SequencesShared(Empty)
  BY <1>1, <1>3, Limits DEF SequencesShared, WellFormed
<1>5. TokensUnique(Empty) /\ FencesValid(Empty) /\ RetainedValid(Empty)
  BY <1>1, <1>3, Limits DEF TokensUnique, FencesValid, RetainedValid
<1>6. Sound(Empty)
  BY <1>1, <1>2, <1>4, <1>5, Limits DEF Sound, ValidSnapshot
<1>7. Cold(Empty).records = Empty.records
  BY <1>1, <1>2, ColdFields DEF Requeued
<1>8. Cold(Empty) = Empty
  BY <1>2, <1>7, ColdFields, SameImage
<1> QED
  BY <1>6, <1>8
-----------------------------------------------------------------------------
(* What the operations make of a sound image.                              *)

\* A sequence is acknowledged when a range covers it.
LEMMA SoundRanges ==
  ASSUME NEW d, Sound(d)
  PROVE  /\ d.ranges \in Seq(AckRange) /\ WellFormed(d.ranges)
         /\ \A n \in Nat : IsAcknowledged(d.ranges, n) <=> Covers(d.ranges, n)
         /\ \A n \in Nat : Covers(d.ranges, n) => n < d.nextSequence
         /\ \A s \in Recorded(d) : s < d.nextSequence /\ ~Covers(d.ranges, s)
<1>1. /\ d.ranges \in Seq(AckRange) /\ WellFormed(d.ranges) /\ d.nextSequence \in Nat
      /\ \A i \in 1 .. Len(d.ranges) : d.ranges[i].end <= d.nextSequence
  BY Images, Limits DEF Sound, ValidSnapshot, SequencesShared
<1>2. \A n \in Nat : IsAcknowledged(d.ranges, n) <=> Covers(d.ranges, n)
  BY <1>1, SearchIsCover
<1>3. \A n \in Nat : Covers(d.ranges, n) => n < d.nextSequence
  BY <1>1, Elements DEF Covers
<1>4. \A s \in Recorded(d) : s < d.nextSequence /\ ~IsAcknowledged(d.ranges, s)
  BY RecordsOf, Limits DEF Sound, ValidSnapshot, SequencesShared
<1>5. \A s \in Recorded(d) : s \in Nat
  BY RecordsOf, Limits DEF Sound
<1> QED
  BY <1>1, <1>2, <1>3, <1>4, <1>5

\* The next sequence is nobody's: the new request is queued, and it is the only one of its
\* window for the file.
LEMMA EnqueuedIsSound ==
  ASSUME Sound(image), NEW w \in Windows, NEW keys \in Identities,
         ~Overlapping(w, keys), image.nextSequence + 1 # MaxSequence
  PROVE  /\ Sound(Enqueued(w, keys))
         /\ image.nextSequence \in Sequences
         /\ Enqueued(w, keys).ranges = image.ranges /\ Enqueued(w, keys).fences = image.fences
         /\ Enqueued(w, keys).records = [image.records EXCEPT ![image.nextSequence] = Queued(w)]
         /\ Enqueued(w, keys).nextAttempt = image.nextAttempt
<1> DEFINE s == image.nextSequence
           request == [window |-> w, keys |-> keys]
<1>1. PICK e : e = Enqueued(w, keys)
  OBVIOUS
<1>2. image \in Image /\ s \in Sequences /\ s \in Nat /\ image.nextRequestId = s
  <2>1. image \in Image /\ image.nextRequestId = s
    BY DEF Sound, RetainedValid
  <2>2. s \in 0 .. (MaxSequence - 1) /\ s + 1 # MaxSequence
    BY <2>1, Images
  <2> HIDE DEF s
  <2> QED
    BY <2>1, <2>2, Limits DEF Sequences
<1>3. Queued(w) \in Record /\ Queued(w) # NoRecord /\ Queued(w).state = "queued" /\ Queued(w).window = w
  BY MadeRecords, Records
<1>4. request \in Request /\ request # NoRequest
  BY NullAssumption DEF Request
<1>5. /\ e.records = [image.records EXCEPT ![s] = Queued(w)]
      /\ e.retained = [image.retained EXCEPT ![s] = request]
      /\ e.nextSequence = s + 1 /\ e.nextRequestId = s + 1
      /\ e.ranges = image.ranges /\ e.fences = image.fences /\ e.nextAttempt = image.nextAttempt
      /\ e \in Image
  <2>1. e = [image EXCEPT !.records = [image.records EXCEPT ![s] = Queued(w)],
                          !.retained = [image.retained EXCEPT ![s] = request],
                          !.nextSequence = s + 1, !.nextRequestId = s + 1]
    BY <1>1, <1>2 DEF Enqueued
  <2>2. /\ [image.records EXCEPT ![s] = Queued(w)] \in [Sequences -> Record \cup {NoRecord}]
        /\ [image.retained EXCEPT ![s] = request] \in [Sequences -> Request \cup {NoRequest}]
        /\ s + 1 \in 0 .. (MaxSequence - 1)
    BY <1>2, <1>3, <1>4, Images, Limits DEF Sequences
  <2> HIDE DEF request
  <2> QED
    BY <1>2, <2>1, <2>2 DEF Image
<1> HIDE DEF s, request
<1>6. /\ Recorded(e) = Recorded(image) \cup {s} /\ Retained(e) = Retained(image) \cup {s}
      /\ s \notin Recorded(image) /\ s \notin Retained(image)
      /\ FenceIds(e) = FenceIds(image)
  <2>1. s \notin Recorded(image)
    BY <1>2, SoundRanges DEF s
  <2>2. s \notin Retained(image)
    BY <2>1 DEF Sound, RetainedValid
  <2>3. image.records \in [Sequences -> Record \cup {NoRecord}]
        /\ image.retained \in [Sequences -> Request \cup {NoRequest}]
    BY <1>2, Images
  <2>4. Recorded(e) = Recorded(image) \cup {s}
    BY <1>2, <1>3, <1>5, <2>3 DEF Recorded
  <2>5. Retained(e) = Retained(image) \cup {s}
    BY <1>2, <1>4, <1>5, <2>3 DEF Retained
  <2> QED
    BY <1>5, <2>1, <2>2, <2>4, <2>5 DEF FenceIds
<1>7. /\ e.records[s] = Queued(w) /\ e.retained[s] = request
      /\ \A u \in Sequences : u # s => e.records[u] = image.records[u] /\ e.retained[u] = image.retained[u]
  BY <1>2, <1>5, Images
<1>8. Tried(e) = Tried(image) /\ \A u \in Tried(e) : e.records[u].token = image.records[u].token
  BY <1>2, <1>3, <1>6, <1>7, RecordsOf DEF Tried
<1>9. SequencesShared(e)
  <2>1. WellFormed(e.ranges) /\ \A i \in 1 .. Len(e.ranges) : e.ranges[i].end <= e.nextSequence
    <3>1. \A i \in 1 .. Len(image.ranges) : image.ranges[i].end \in Nat
      BY <1>2, Images, SoundRanges, Elements
    <3> QED
      BY <1>2, <1>5, <3>1 DEF Sound, ValidSnapshot, SequencesShared, s
  <2>2. ASSUME NEW u \in Sequences
        PROVE  IF u < e.nextSequence THEN u \in Recorded(e) <=> ~IsAcknowledged(e.ranges, u)
               ELSE u \notin Recorded(e)
    <3>1. CASE u = s
      <4>1. ~IsAcknowledged(image.ranges, s)
        BY <1>2, SoundRanges DEF s
      <4> QED
        BY <1>2, <1>5, <1>6, <3>1, <4>1
    <3>2. CASE u # s
      <4>1. IF u < s THEN u \in Recorded(image) <=> ~IsAcknowledged(image.ranges, u)
            ELSE u \notin Recorded(image)
        BY DEF Sound, ValidSnapshot, SequencesShared, s
      <4>2. u < s + 1 <=> u < s
        BY <1>2, <3>2, Limits
      <4> QED
        BY <1>5, <1>6, <3>2, <4>1, <4>2
    <3> QED
      BY <3>1, <3>2
  <2> QED
    BY <2>1, <2>2 DEF SequencesShared
<1>10. TokensUnique(e) /\ FencesValid(e)
  BY <1>5, <1>6, <1>8 DEF TokensUnique, FencesValid, Sound, ValidSnapshot
<1>11. RetainedValid(e)
  <2>1. \A u \in Recorded(e) : u \in Retained(e) /\ e.retained[u].window = e.records[u].window
    <3>1. e.retained[s].window = e.records[s].window
      BY <1>3, <1>7 DEF request
    <3>2. \A u \in Recorded(image) :
            u \in Sequences /\ u # s /\ u \in Retained(image)
              /\ image.retained[u].window = image.records[u].window
      BY <1>2, <1>6, RecordsOf DEF Sound, RetainedValid
    <3> QED
      BY <1>6, <1>7, <3>1, <3>2
  <2>2. Retained(e) \subseteq Recorded(e) /\ e.nextRequestId = e.nextSequence
    BY <1>5, <1>6 DEF Sound, RetainedValid
  <2>3. ASSUME NEW u \in Retained(e), NEW v \in Retained(e), u # v,
               e.retained[u].window = e.retained[v].window
        PROVE  e.retained[u].keys \cap e.retained[v].keys = {}
    <3>1. \A x \in Retained(image) : image.retained[x].window = w => image.retained[x].keys \cap keys = {}
      BY DEF Overlapping
    <3>2. CASE u \in Retained(image) /\ v \in Retained(image)
      BY <1>2, <1>6, <1>7, <2>3, <3>2, RecordsOf DEF Sound, RetainedValid
    <3>5. e.retained[s].window = w /\ e.retained[s].keys = keys
      BY <1>7 DEF request
    <3>6. \A x \in Retained(image) : x # s /\ e.retained[x] = image.retained[x]
      BY <1>2, <1>6, <1>7, RecordsOf
    <3>3. CASE u = s /\ v \in Retained(image)
      BY <2>3, <3>1, <3>3, <3>5, <3>6
    <3>4. CASE v = s /\ u \in Retained(image)
      BY <2>3, <3>1, <3>4, <3>5, <3>6
    <3> QED
      BY <1>6, <2>3, <3>2, <3>3, <3>4
  <2> QED
    BY <2>1, <2>2, <2>3 DEF RetainedValid
<1>12. e.nextSequence # MaxSequence /\ e.nextAttempt # MaxAttempt
  BY <1>5 DEF s, Sound, ValidSnapshot
<1> QED
  BY <1>1, <1>2, <1>5, <1>9, <1>10, <1>11, <1>12 DEF Sound, ValidSnapshot, s
\* The window's waiting requests get tokens of their own, all of them new.
LEMMA TokensDiffer ==
  ASSUME Sound(image), NEW w \in Windows, TokensLeft(w)
  PROVE  /\ IsFiniteSet(Waiting(w)) /\ Cardinality(Waiting(w)) \in Nat
         /\ \A s \in Waiting(w) :
              /\ TokenFor(w, s) \in Nat /\ image.nextAttempt <= TokenFor(w, s)
              /\ TokenFor(w, s) < image.nextAttempt + Cardinality(Waiting(w))
         /\ \A s, u \in Waiting(w) : TokenFor(w, s) = TokenFor(w, u) => s = u
<1> DEFINE Before(s) == {u \in Waiting(w) : u < s}
<1>1. Waiting(w) \subseteq Sequences /\ Sequences \subseteq Nat /\ image.nextAttempt \in Nat
  BY RecordsOf, Images, Limits DEF Sound, Waiting
<1>2. IsFiniteSet(Sequences)
  BY Limits, FS_Interval DEF Sequences
<1>3. IsFiniteSet(Waiting(w)) /\ Cardinality(Waiting(w)) \in Nat
  BY <1>1, <1>2, FS_Subset, FS_CardinalityType
<1>4. ASSUME NEW S, S \subseteq Waiting(w), NEW T, T \subseteq S, T # S
      PROVE  Cardinality(T) \in Nat /\ Cardinality(S) \in Nat /\ Cardinality(T) < Cardinality(S)
  <2>1. IsFiniteSet(S) /\ IsFiniteSet(T)
    BY <1>3, <1>4, FS_Subset
  <2> QED
    BY <1>4, <2>1, FS_Subset, FS_CardinalityType
<1>5. ASSUME NEW s \in Waiting(w)
      PROVE  /\ TokenFor(w, s) \in Nat /\ image.nextAttempt <= TokenFor(w, s)
             /\ TokenFor(w, s) < image.nextAttempt + Cardinality(Waiting(w))
  <2>1. Before(s) \subseteq Waiting(w) /\ Before(s) # Waiting(w)
    <3>1. s \in Nat /\ s \in Waiting(w)
      BY <1>1
    <3>2. s \notin Before(s)
      BY <3>1
    <3> QED
      BY <3>1, <3>2
  <2>2. Cardinality(Before(s)) \in Nat /\ Cardinality(Before(s)) < Cardinality(Waiting(w))
    BY <1>4, <2>1
  <2>3. TokenFor(w, s) = image.nextAttempt + Cardinality(Before(s))
    BY DEF TokenFor
  <2> HIDE DEF Before
  <2> QED
    BY <1>1, <1>3, <2>2, <2>3
<1>6. ASSUME NEW s \in Waiting(w), NEW u \in Waiting(w), s < u
      PROVE  TokenFor(w, s) # TokenFor(w, u)
  <2>1. Before(s) \subseteq Before(u) /\ s \in Before(u) /\ s \notin Before(s) /\ Before(u) \subseteq Waiting(w)
    <3>1. s \in Nat /\ u \in Nat /\ \A v \in Waiting(w) : v \in Nat
      BY <1>1
    <3>2. \A v \in Waiting(w) : v < s => v < u
      BY <1>6, <3>1
    <3>3. ~(s < s)
      BY <3>1
    <3> QED
      BY <1>6, <3>2, <3>3
  <2>2. TokenFor(w, s) = image.nextAttempt + Cardinality(Before(s))
        /\ TokenFor(w, u) = image.nextAttempt + Cardinality(Before(u))
    BY DEF TokenFor
  <2> HIDE DEF Before
  <2>3. Cardinality(Before(s)) \in Nat /\ Cardinality(Before(u)) \in Nat
        /\ Cardinality(Before(s)) < Cardinality(Before(u))
    BY <1>4, <2>1
  <2> QED
    BY <1>1, <2>2, <2>3
<1>7. ASSUME NEW s \in Waiting(w), NEW u \in Waiting(w), s # u
      PROVE  TokenFor(w, s) # TokenFor(w, u)
  <2>1. s \in Nat /\ u \in Nat
    BY <1>1
  <2>2. s < u \/ u < s
    BY <1>7, <2>1
  <2> QED
    BY <1>6, <2>2
<1> QED
  BY <1>3, <1>5, <1>7

LEMMA ClaimedFields ==
  ASSUME Sound(image), NEW w \in Windows, TokensLeft(w)
  PROVE  /\ Claimed(w) \in Image
         /\ Claimed(w).records = [s \in Sequences |-> IF s \in Waiting(w) THEN Processing(w, TokenFor(w, s))
                                                     ELSE image.records[s]]
         /\ Claimed(w).ranges = image.ranges /\ Claimed(w).fences = image.fences
         /\ Claimed(w).retained = image.retained /\ Claimed(w).nextSequence = image.nextSequence
         /\ Claimed(w).nextRequestId = image.nextRequestId
         /\ Claimed(w).nextAttempt = image.nextAttempt + Cardinality(Waiting(w))
         /\ Claimed(w).nextAttempt \in Nat /\ Claimed(w).nextAttempt < MaxAttempt
         /\ \A s \in Waiting(w) : TokenFor(w, s) \in Attempts
<1> DEFINE records == [s \in Sequences |-> IF s \in Waiting(w) THEN Processing(w, TokenFor(w, s))
                                          ELSE image.records[s]]
           next == image.nextAttempt + Cardinality(Waiting(w))
<1>1. image \in Image /\ image.nextAttempt \in Nat
  BY Images, Limits DEF Sound
<1>2. next \in Nat /\ next < MaxAttempt /\ next \in 0 .. (MaxAttempt - 1)
  BY <1>1, TokensDiffer, Limits DEF TokensLeft
<1>3. \A s \in Waiting(w) : TokenFor(w, s) \in Nat /\ TokenFor(w, s) < next
  BY TokensDiffer
<1>4. \A s \in Waiting(w) : TokenFor(w, s) \in Attempts
  <2> HIDE DEF next
  <2> QED
    BY <1>2, <1>3, Limits DEF Attempts
<1>5. records \in [Sequences -> Record \cup {NoRecord}]
  BY <1>1, <1>4, Images, MadeRecords
<1>6. Claimed(w) = [image EXCEPT !.records = records, !.nextAttempt = next]
  BY DEF Claimed
<1> HIDE DEF records, next
<1>7. /\ Claimed(w) \in Image /\ Claimed(w).records = records /\ Claimed(w).nextAttempt = next
      /\ Claimed(w).ranges = image.ranges /\ Claimed(w).fences = image.fences
      /\ Claimed(w).retained = image.retained /\ Claimed(w).nextSequence = image.nextSequence
      /\ Claimed(w).nextRequestId = image.nextRequestId
  BY <1>1, <1>2, <1>5, <1>6 DEF Image
<1> QED
  BY <1>2, <1>4, <1>7 DEF records, next

\* The attempts of an image after a claim: those that were under way, and the new ones.
LEMMA ClaimedAttempts ==
  ASSUME Sound(image), NEW w \in Windows, TokensLeft(w), NEW e, e = Claimed(w)
  PROVE  /\ Recorded(e) = Recorded(image)
         /\ Tried(e) = Tried(image) \cup Waiting(w) /\ Tried(image) \cap Waiting(w) = {}
         /\ \A s \in Tried(image) : e.records[s] = image.records[s]
         /\ \A s \in Waiting(w) : /\ e.records[s] = Processing(w, TokenFor(w, s))
                                  /\ e.records[s].state = "processing"
                                  /\ e.records[s].window = w /\ e.records[s].token = TokenFor(w, s)
                                  /\ image.records[s].window = w
         /\ \A s \in Recorded(image) : e.records[s].window = image.records[s].window
<1>1. /\ image \in Image /\ Waiting(w) \subseteq Recorded(image)
      /\ Recorded(image) \subseteq Sequences /\ Tried(image) \subseteq Recorded(image)
      /\ \A s \in Waiting(w) : image.records[s] = Queued(w)
  BY RecordsOf DEF Sound, Waiting
<1>2. /\ \A s \in Waiting(w) : e.records[s] = Processing(w, TokenFor(w, s))
      /\ \A s \in Sequences : s \notin Waiting(w) => e.records[s] = image.records[s]
  BY <1>1, ClaimedFields
<1>3. /\ \A s \in Waiting(w) : /\ e.records[s].state = "processing" /\ e.records[s] # NoRecord
                               /\ e.records[s].window = w /\ e.records[s].token = TokenFor(w, s)
      /\ \A s \in Waiting(w) : image.records[s].state = "queued" /\ image.records[s].window = w
  <2>1. ASSUME NEW s \in Waiting(w)
        PROVE  /\ Processing(w, TokenFor(w, s)) \in Record
               /\ Processing(w, TokenFor(w, s)).state = "processing"
               /\ Processing(w, TokenFor(w, s)).window = w
               /\ Processing(w, TokenFor(w, s)).token = TokenFor(w, s)
    <3>1. TokenFor(w, s) \in Attempts
      BY <2>1, ClaimedFields
    <3> QED
      BY <3>1, MadeRecords
  <2>2. \A s \in Waiting(w) : Processing(w, TokenFor(w, s)) # NoRecord
    BY <2>1, Records
  <2>3. Queued(w).state = "queued" /\ Queued(w).window = w
    BY MadeRecords
  <2> QED
    BY <1>1, <1>2, <2>1, <2>2, <2>3
<1>4. Recorded(e) = Recorded(image)
  BY <1>1, <1>2, <1>3 DEF Recorded
<1>5. Tried(image) \cap Waiting(w) = {}
  BY <1>3 DEF Tried
<1>6. Tried(e) = Tried(image) \cup Waiting(w)
  BY <1>1, <1>2, <1>3, <1>4 DEF Tried
<1> QED
  BY <1>1, <1>2, <1>3, <1>4, <1>5, <1>6

LEMMA ClaimedIsSound ==
  ASSUME Sound(image), NEW w \in Windows, TokensLeft(w)
  PROVE  Sound(Claimed(w))
<1>1. PICK e : e = Claimed(w)
  OBVIOUS
<1>2. /\ e \in Image /\ e.ranges = image.ranges /\ e.fences = image.fences
      /\ e.retained = image.retained /\ e.nextSequence = image.nextSequence
      /\ e.nextRequestId = image.nextRequestId
      /\ e.nextAttempt = image.nextAttempt + Cardinality(Waiting(w))
      /\ e.nextAttempt \in Nat /\ e.nextAttempt < MaxAttempt
  BY <1>1, ClaimedFields
<1>3. /\ Recorded(e) = Recorded(image)
      /\ Tried(e) = Tried(image) \cup Waiting(w) /\ Tried(image) \cap Waiting(w) = {}
      /\ \A s \in Tried(image) : e.records[s].token = image.records[s].token
      /\ \A s \in Waiting(w) : e.records[s].token = TokenFor(w, s)
      /\ \A s \in Recorded(image) : e.records[s].window = image.records[s].window
  BY <1>1, ClaimedAttempts
<1>4. Retained(e) = Retained(image) /\ FenceIds(e) = FenceIds(image)
  BY <1>2 DEF Retained, FenceIds
<1>5. SequencesShared(e)
  BY <1>2, <1>3 DEF SequencesShared, Sound, ValidSnapshot
<1>6. FencesValid(e)
  BY <1>2, <1>4 DEF FencesValid, Sound, ValidSnapshot
<1>7. TokensUnique(e)
  <2>1. /\ image.nextAttempt \in Nat /\ Cardinality(Waiting(w)) \in Nat
        /\ \A s \in Tried(image) : image.records[s].token \in Nat /\ image.records[s].token < image.nextAttempt
        /\ \A i \in FenceIds(image) : image.fences[i].token \in Nat /\ image.fences[i].token < image.nextAttempt
    <3>1. image \in Image /\ TokensUnique(image)
      BY DEF Sound, ValidSnapshot
    <3>2. \A i \in FenceIds(image) : image.fences[i] \in Fence
      BY <3>1, Images DEF FenceIds
    <3>3. image.nextAttempt \in Nat /\ Cardinality(Waiting(w)) \in Nat
      BY <3>1, Images, TokensDiffer, Limits
    <3>4. \A s \in Tried(image) : image.records[s].token \in Nat
      BY <3>1, RecordsOf, Limits
    <3>5. \A i \in FenceIds(image) : image.fences[i].token \in Nat
      BY <3>2, Limits DEF Fence
    <3> QED
      BY <3>1, <3>3, <3>4, <3>5 DEF TokensUnique
  <2>2. \A s \in Waiting(w) : /\ TokenFor(w, s) \in Nat /\ image.nextAttempt <= TokenFor(w, s)
                              /\ TokenFor(w, s) < e.nextAttempt
    BY <1>2, TokensDiffer
  <2>3. \A s, u \in Waiting(w) : TokenFor(w, s) = TokenFor(w, u) => s = u
    BY TokensDiffer
  <2>4. \A s \in Tried(e) : e.records[s].token < e.nextAttempt
    BY <1>2, <1>3, <2>1, <2>2
  <2>5. \A i \in FenceIds(e) : e.fences[i].token < e.nextAttempt
    BY <1>2, <1>4, <2>1
  <2>6. \A s, u \in Tried(image) : image.records[s].token = image.records[u].token => s = u
    BY DEF Sound, ValidSnapshot, TokensUnique
  <2>7. \A s, u \in Tried(e) : e.records[s].token = e.records[u].token => s = u
    <3>1. \A s \in Tried(image), u \in Waiting(w) : e.records[s].token # e.records[u].token
      BY <1>3, <2>1, <2>2
    <3> QED
      BY <1>3, <2>3, <2>6, <3>1
  <2>8. \A i, j \in FenceIds(e) : e.fences[i].token = e.fences[j].token => i = j
    BY <1>2, <1>4 DEF Sound, ValidSnapshot, TokensUnique
  <2>9. \A s \in Tried(image), i \in FenceIds(image) : image.records[s].token # image.fences[i].token
    BY DEF Sound, ValidSnapshot, TokensUnique
  <2>10. \A s \in Tried(e), i \in FenceIds(e) : e.records[s].token # e.fences[i].token
    <3>1. \A s \in Waiting(w), i \in FenceIds(image) : TokenFor(w, s) # image.fences[i].token
      BY <2>1, <2>2
    <3> QED
      BY <1>2, <1>3, <1>4, <2>9, <3>1
  <2> QED
    BY <2>4, <2>5, <2>7, <2>8, <2>10 DEF TokensUnique
<1>8. RetainedValid(e)
  BY <1>2, <1>3, <1>4 DEF RetainedValid, Sound
<1>9. e.nextSequence # MaxSequence /\ e.nextAttempt # MaxAttempt
  BY <1>2, Limits DEF Sound, ValidSnapshot
<1> QED
  BY <1>1, <1>2, <1>5, <1>6, <1>7, <1>8, <1>9 DEF Sound, ValidSnapshot
\* A completion is fenced last; the oldest fence may have made room for it.
LEMMA FencedElements ==
  ASSUME NEW fences \in Seq(Fence), Len(fences) <= MaxFences, NEW f \in Fence
  PROVE  /\ Fenced(fences, f) \in Seq(Fence) /\ Len(Fenced(fences, f)) <= MaxFences
         /\ Len(Fenced(fences, f)) \in Nat /\ Len(Fenced(fences, f)) >= 1
         /\ Fenced(fences, f)[Len(Fenced(fences, f))] = f
         /\ \E k \in {0, 1} : \A i \in 1 .. Len(Fenced(fences, f)) - 1 :
              i + k \in 1 .. Len(fences) /\ Fenced(fences, f)[i] = fences[i + k]
<1>1. PICK g : g = Fenced(fences, f)
  OBVIOUS
<1>2. CASE Len(fences) = MaxFences
  <2>1. g = Append(Tail(fences), f) /\ fences # <<>>
    BY <1>1, <1>2, Limits DEF Fenced
  <2>2. /\ Tail(fences) \in Seq(Fence) /\ Len(Tail(fences)) = Len(fences) - 1
        /\ \A i \in 1 .. Len(fences) - 1 : Tail(fences)[i] = fences[i + 1]
    BY <2>1
  <2>3. /\ g \in Seq(Fence) /\ Len(g) = Len(fences) /\ g[Len(g)] = f
        /\ \A i \in 1 .. Len(fences) - 1 : g[i] = Tail(fences)[i]
    BY <2>1, <2>2
  <2>4. Len(fences) \in Nat /\ Len(fences) >= 1
    BY <1>2, Limits
  <2>5. \A i \in 1 .. Len(g) - 1 : i + 1 \in 1 .. Len(fences) /\ g[i] = fences[i + 1]
    BY <2>2, <2>3, <2>4
  <2> QED
    BY <1>1, <1>2, <2>3, <2>4, <2>5
<1>3. CASE Len(fences) # MaxFences
  <2>1. g = Append(fences, f) /\ Len(fences) \in Nat /\ Len(fences) + 1 <= MaxFences
    BY <1>1, <1>3, Limits DEF Fenced
  <2>2. /\ g \in Seq(Fence) /\ Len(g) = Len(fences) + 1 /\ g[Len(g)] = f
        /\ \A i \in 1 .. Len(fences) : g[i] = fences[i]
    BY <2>1
  <2>3. \A i \in 1 .. Len(g) - 1 : i + 0 \in 1 .. Len(fences) /\ g[i] = fences[i + 0]
    BY <2>1, <2>2
  <2> QED
    BY <1>1, <2>1, <2>2, <2>3
<1> QED
  BY <1>2, <1>3

LEMMA AcknowledgedFields ==
  ASSUME Sound(image), NEW a \in Attempt, IsAttempt(a, "applied")
  PROVE  /\ a.sequence \in Tried(image) /\ a.sequence \in Sequences /\ a.sequence \in Nat
         /\ Acknowledged(a) \in Image
         /\ Acknowledged(a).records = [image.records EXCEPT ![a.sequence] = NoRecord]
         /\ Acknowledged(a).retained = [image.retained EXCEPT ![a.sequence] = NoRequest]
         /\ Acknowledged(a).ranges = Acknowledge(image.ranges, a.sequence)
         /\ Acknowledged(a).fences = Fenced(image.fences,
              [sequence |-> a.sequence, window |-> a.window, token |-> a.token])
         /\ Acknowledged(a).nextSequence = image.nextSequence
         /\ Acknowledged(a).nextAttempt = image.nextAttempt
         /\ Acknowledged(a).nextRequestId = image.nextRequestId
         /\ WellFormed(Acknowledged(a).ranges)
         /\ \A n \in Nat : Covers(Acknowledged(a).ranges, n) <=> Covers(image.ranges, n) \/ n = a.sequence
<1> DEFINE f == [sequence |-> a.sequence, window |-> a.window, token |-> a.token]
           records == [image.records EXCEPT ![a.sequence] = NoRecord]
           retained == [image.retained EXCEPT ![a.sequence] = NoRequest]
           ranges == Acknowledge(image.ranges, a.sequence)
           fences == Fenced(image.fences, f)
<1>1. a.sequence \in Sequences /\ a.sequence \in Nat /\ f \in Fence
  BY Limits DEF Attempt, Fence
<1>2. a.sequence \in Tried(image)
  BY <1>1 DEF IsAttempt, InState, Tried, Recorded
<1>3. image \in Image /\ a.sequence \in Recorded(image) /\ Len(image.fences) <= MaxFences
  BY <1>2, RecordsOf DEF Sound, ValidSnapshot, FencesValid
<1>4. /\ ranges \in Seq(AckRange) /\ WellFormed(ranges)
      /\ \A n \in Nat : Covers(ranges, n) <=> Covers(image.ranges, n) \/ n = a.sequence
  BY <1>1, <1>3, SoundRanges, AcknowledgeAddsOne
<1>5. fences \in Seq(Fence)
  BY <1>1, <1>3, Images, FencedElements
<1>6. /\ records \in [Sequences -> Record \cup {NoRecord}]
      /\ retained \in [Sequences -> Request \cup {NoRequest}]
  BY <1>3, Images
<1>7. Acknowledged(a) = [image EXCEPT !.records = records, !.retained = retained, !.ranges = ranges, !.fences = fences]
  BY DEF Acknowledged
<1> HIDE DEF f, records, retained, ranges, fences
<1>8. /\ Acknowledged(a) \in Image
      /\ Acknowledged(a).records = records /\ Acknowledged(a).retained = retained
      /\ Acknowledged(a).ranges = ranges /\ Acknowledged(a).fences = fences
      /\ Acknowledged(a).nextSequence = image.nextSequence
      /\ Acknowledged(a).nextAttempt = image.nextAttempt
      /\ Acknowledged(a).nextRequestId = image.nextRequestId
  BY <1>3, <1>4, <1>5, <1>6, <1>7 DEF Image
<1> QED
  BY <1>1, <1>2, <1>4, <1>8 DEF f, records, retained, ranges, fences

\* The attempts and the fences of an image after a completion.
LEMMA AcknowledgedAttempts ==
  ASSUME Sound(image), NEW a \in Attempt, IsAttempt(a, "applied"), NEW e, e = Acknowledged(a)
  PROVE  /\ Recorded(e) = Recorded(image) \ {a.sequence}
         /\ Tried(e) = Tried(image) \ {a.sequence}
         /\ Retained(e) = Retained(image) \ {a.sequence}
         /\ \A s \in Sequences : s # a.sequence =>
              e.records[s] = image.records[s] /\ e.retained[s] = image.retained[s]
         /\ Len(e.fences) <= MaxFences
         /\ e.fences[Len(e.fences)].sequence = a.sequence /\ e.fences[Len(e.fences)].token = a.token
         /\ \A i \in FenceIds(e) :
              \/ i = Len(e.fences) /\ e.fences[i].sequence = a.sequence
                   /\ e.fences[i].window = a.window /\ e.fences[i].token = a.token
              \/ \E j \in FenceIds(image) : e.fences[i] = image.fences[j]
         /\ \A i, j \in FenceIds(e) : i # j /\ i # Len(e.fences) /\ j # Len(e.fences) =>
              \E p, q \in FenceIds(image) : p # q /\ e.fences[i] = image.fences[p] /\ e.fences[j] = image.fences[q]
<1> DEFINE f == [sequence |-> a.sequence, window |-> a.window, token |-> a.token]
<1>1. image \in Image /\ e \in Image /\ a.sequence \in Sequences
  BY AcknowledgedFields DEF Sound
<1>2. \A s \in Sequences :
        /\ e.records[s] = (IF s = a.sequence THEN NoRecord ELSE image.records[s])
        /\ e.retained[s] = (IF s = a.sequence THEN NoRequest ELSE image.retained[s])
  BY <1>1, AcknowledgedFields, Images
<1>3. Recorded(e) = Recorded(image) \ {a.sequence} /\ Retained(e) = Retained(image) \ {a.sequence}
  BY <1>2 DEF Recorded, Retained
<1>4. Tried(e) = Tried(image) \ {a.sequence}
  <2>1. \A s \in Recorded(e) : s \in Sequences
    BY <1>1, RecordsOf
  <2> QED
    BY <1>2, <1>3, <2>1 DEF Tried
<1>5. image.fences \in Seq(Fence) /\ Len(image.fences) <= MaxFences /\ f \in Fence
  BY <1>1, Images DEF Sound, ValidSnapshot, FencesValid, Fence, Attempt
<1>6. e.fences = Fenced(image.fences, f)
  BY AcknowledgedFields
<1>7. f.sequence = a.sequence /\ f.window = a.window /\ f.token = a.token
  OBVIOUS
<1> HIDE DEF f
<1>8. PICK k \in {0, 1} : /\ Len(e.fences) \in Nat /\ Len(e.fences) >= 1
                          /\ e.fences[Len(e.fences)] = f
                          /\ \A i \in 1 .. Len(e.fences) - 1 :
                               i + k \in 1 .. Len(image.fences) /\ e.fences[i] = image.fences[i + k]
                          /\ Len(e.fences) <= MaxFences
  <2>1. PICK fences \in Seq(Fence) : fences = image.fences /\ Len(fences) <= MaxFences
    BY <1>5
  <2>2. /\ Len(Fenced(fences, f)) \in Nat /\ Len(Fenced(fences, f)) >= 1
        /\ Len(Fenced(fences, f)) <= MaxFences
        /\ Fenced(fences, f)[Len(Fenced(fences, f))] = f
        /\ \E k \in {0, 1} : \A i \in 1 .. Len(Fenced(fences, f)) - 1 :
             i + k \in 1 .. Len(fences) /\ Fenced(fences, f)[i] = fences[i + k]
    BY <1>5, <2>1, FencedElements
  <2>3. e.fences = Fenced(fences, f)
    BY <1>6, <2>1
  <2> QED
    BY <2>1, <2>2, <2>3
<1>9. \A i \in FenceIds(e) : i # Len(e.fences) => i \in 1 .. Len(e.fences) - 1
  BY <1>8 DEF FenceIds
<1>10. ASSUME NEW i \in FenceIds(e)
       PROVE  \/ i = Len(e.fences) /\ e.fences[i].sequence = a.sequence
                   /\ e.fences[i].window = a.window /\ e.fences[i].token = a.token
              \/ \E j \in FenceIds(image) : e.fences[i] = image.fences[j]
  BY <1>7, <1>8, <1>9 DEF FenceIds
<1>11. ASSUME NEW i \in FenceIds(e), NEW j \in FenceIds(e), i # j, i # Len(e.fences), j # Len(e.fences)
       PROVE  \E p, q \in FenceIds(image) : p # q /\ e.fences[i] = image.fences[p] /\ e.fences[j] = image.fences[q]
  <2>1. i + k \in FenceIds(image) /\ j + k \in FenceIds(image) /\ i + k # j + k
    BY <1>8, <1>9, <1>11 DEF FenceIds
  <2>2. e.fences[i] = image.fences[i + k] /\ e.fences[j] = image.fences[j + k]
    BY <1>8, <1>9, <1>11
  <2> QED
    BY <2>1, <2>2
<1> QED
  BY <1>2, <1>3, <1>4, <1>7, <1>8, <1>10, <1>11

LEMMA AcknowledgedIsSound ==
  ASSUME Sound(image), NEW a \in Attempt, IsAttempt(a, "applied")
  PROVE  Sound(Acknowledged(a))
<1>1. PICK e : e = Acknowledged(a)
  OBVIOUS
<1>2. PICK n : n = a.sequence
  OBVIOUS
<1>3. /\ n \in Tried(image) /\ n \in Sequences /\ n \in Nat /\ n \in Recorded(image)
      /\ image.records[n].token = a.token
      /\ image \in Image /\ e \in Image
      /\ e.nextSequence = image.nextSequence /\ e.nextAttempt = image.nextAttempt
      /\ e.nextRequestId = image.nextRequestId
  BY <1>1, <1>2, AcknowledgedFields, RecordsOf DEF Sound, IsAttempt
<1>4. /\ WellFormed(e.ranges) /\ e.ranges \in Seq(AckRange)
      /\ \A m \in Nat : Covers(e.ranges, m) <=> Covers(image.ranges, m) \/ m = n
      /\ \A m \in Nat : IsAcknowledged(e.ranges, m) <=> IsAcknowledged(image.ranges, m) \/ m = n
  <2>1. /\ WellFormed(e.ranges) /\ e.ranges \in Seq(AckRange)
        /\ \A m \in Nat : Covers(e.ranges, m) <=> Covers(image.ranges, m) \/ m = n
    BY <1>1, <1>2, <1>3, AcknowledgedFields, Images
  <2> QED
    BY <2>1, SoundRanges, SearchIsCover
<1>5. /\ Recorded(e) = Recorded(image) \ {n} /\ Tried(e) = Tried(image) \ {n}
      /\ Retained(e) = Retained(image) \ {n}
      /\ \A s \in Sequences : s # n => e.records[s] = image.records[s] /\ e.retained[s] = image.retained[s]
  BY <1>1, <1>2, AcknowledgedAttempts
<1>6. \A i \in FenceIds(e) :
        \/ i = Len(e.fences) /\ e.fences[i].sequence = n /\ e.fences[i].token = a.token
        \/ \E j \in FenceIds(image) : e.fences[i] = image.fences[j]
  BY <1>1, <1>2, AcknowledgedAttempts
<1>7. \A i, j \in FenceIds(e) : i # j /\ i # Len(e.fences) /\ j # Len(e.fences) =>
        \E p, q \in FenceIds(image) : p # q /\ e.fences[i] = image.fences[p] /\ e.fences[j] = image.fences[q]
  BY <1>1, AcknowledgedAttempts
<1>8. /\ SequencesShared(image) /\ TokensUnique(image) /\ FencesValid(image) /\ RetainedValid(image)
      /\ image.nextSequence # MaxSequence /\ image.nextAttempt # MaxAttempt
  BY DEF Sound, ValidSnapshot
<1>9. ~IsAcknowledged(image.ranges, n) /\ n < image.nextSequence
  BY <1>3, SoundRanges
<1>10. SequencesShared(e)
  <2>1. ASSUME NEW i \in 1 .. Len(e.ranges)
        PROVE  e.ranges[i].end <= e.nextSequence
    <3>1. e.ranges[i].start \in Nat /\ e.ranges[i].end \in Nat /\ e.ranges[i].start < e.ranges[i].end
      BY <1>4, Elements
    <3>2. e.ranges[i].end - 1 \in Nat /\ Covers(e.ranges, e.ranges[i].end - 1)
      BY <3>1 DEF Covers
    <3>3. Covers(image.ranges, e.ranges[i].end - 1) \/ e.ranges[i].end - 1 = n
      BY <1>4, <3>2
    <3>4. e.ranges[i].end - 1 < image.nextSequence /\ image.nextSequence \in Nat
      BY <1>3, <1>9, <3>2, <3>3, SoundRanges, Images, Limits
    <3> QED
      BY <1>3, <3>1, <3>4
  <2>2. ASSUME NEW s \in Sequences
        PROVE  IF s < e.nextSequence THEN s \in Recorded(e) <=> ~IsAcknowledged(e.ranges, s)
               ELSE s \notin Recorded(e)
    <3>1. IF s < image.nextSequence THEN s \in Recorded(image) <=> ~IsAcknowledged(image.ranges, s)
          ELSE s \notin Recorded(image)
      BY <1>8 DEF SequencesShared
    <3>2. IsAcknowledged(e.ranges, s) <=> IsAcknowledged(image.ranges, s) \/ s = n
      BY <1>4, Limits
    <3> QED
      BY <1>3, <1>5, <3>1, <3>2
  <2> QED
    BY <1>4, <2>1, <2>2 DEF SequencesShared
<1>11. TokensUnique(e)
  <2>1. \A s \in Tried(e) : s \in Tried(image) /\ s # n /\ s \in Sequences /\ e.records[s] = image.records[s]
    BY <1>3, <1>5, RecordsOf
  <2>2. \A s \in Tried(e) : e.records[s].token < e.nextAttempt
    BY <1>3, <1>8, <2>1 DEF TokensUnique
  <2>3. \A i \in FenceIds(e) : e.fences[i].token < e.nextAttempt
    BY <1>3, <1>6, <1>8 DEF TokensUnique
  <2>4. \A s, u \in Tried(e) : e.records[s].token = e.records[u].token => s = u
    BY <1>8, <2>1 DEF TokensUnique
  <2>5. \A j \in FenceIds(image) : image.fences[j].token # a.token
    BY <1>3, <1>8 DEF TokensUnique
  <2>6. \A i, j \in FenceIds(e) : e.fences[i].token = e.fences[j].token => i = j
    <3> SUFFICES ASSUME NEW i \in FenceIds(e), NEW j \in FenceIds(e), i # j
                 PROVE  e.fences[i].token # e.fences[j].token
      OBVIOUS
    <3>1. CASE i # Len(e.fences) /\ j # Len(e.fences)
      BY <1>7, <1>8, <3>1 DEF TokensUnique
    <3>2. CASE i = Len(e.fences) \/ j = Len(e.fences)
      <4>1. \A p, q \in FenceIds(image) : image.fences[p].token = image.fences[q].token => p = q
        BY <1>8 DEF TokensUnique
      <4>2. e.fences[Len(e.fences)].token = a.token
        BY <1>1, AcknowledgedAttempts
      <4> QED
        BY <1>6, <2>5, <3>2, <4>2
    <3> QED
      BY <3>1, <3>2
  <2>7. \A s \in Tried(e), i \in FenceIds(e) : e.records[s].token # e.fences[i].token
    <3>1. \A s \in Tried(image), j \in FenceIds(image) : image.records[s].token # image.fences[j].token
      BY <1>8 DEF TokensUnique
    <3>2. \A s \in Tried(image) : s # n => image.records[s].token # a.token
      BY <1>3, <1>8 DEF TokensUnique
    <3> QED
      BY <1>6, <2>1, <3>1, <3>2
  <2> QED
    BY <2>2, <2>3, <2>4, <2>6, <2>7 DEF TokensUnique
<1>12. FencesValid(e)
  <2>1. \A j \in FenceIds(image) : /\ IsAcknowledged(image.ranges, image.fences[j].sequence)
                                   /\ image.fences[j].sequence \in Nat
                                   /\ image.fences[j].sequence # n
    <3>1. \A j \in FenceIds(image) : image.fences[j] \in Fence
      BY <1>3, Images DEF FenceIds
    <3> QED
      BY <1>8, <1>9, <3>1, Limits DEF FencesValid, Fence
  <2>2. /\ Len(e.fences) <= MaxFences /\ e.fences[Len(e.fences)].sequence = n
    BY <1>1, <1>2, AcknowledgedAttempts
  <2>3. \A i \in FenceIds(e) : IsAcknowledged(e.ranges, e.fences[i].sequence)
    BY <1>3, <1>4, <1>6, <2>1
  <2>4. \A i, j \in FenceIds(e) : e.fences[i].sequence = e.fences[j].sequence => i = j
    <3> SUFFICES ASSUME NEW i \in FenceIds(e), NEW j \in FenceIds(e), i # j
                 PROVE  e.fences[i].sequence # e.fences[j].sequence
      OBVIOUS
    <3>1. CASE i # Len(e.fences) /\ j # Len(e.fences)
      BY <1>7, <1>8, <3>1 DEF FencesValid
    <3>2. CASE i = Len(e.fences) \/ j = Len(e.fences)
      BY <1>6, <2>1, <2>2, <3>2
    <3> QED
      BY <3>1, <3>2
  <2> QED
    BY <2>2, <2>3, <2>4 DEF FencesValid
<1>13. RetainedValid(e)
  <2>1. \A s \in Recorded(e) : /\ s \in Recorded(image) /\ s \in Sequences /\ s # n
                               /\ e.records[s] = image.records[s] /\ e.retained[s] = image.retained[s]
    BY <1>3, <1>5, RecordsOf
  <2>2. Retained(e) = Recorded(e)
    BY <1>5, <1>8 DEF RetainedValid
  <2> QED
    BY <1>3, <1>5, <1>8, <2>1, <2>2 DEF RetainedValid
<1> QED
  BY <1>1, <1>3, <1>8, <1>10, <1>11, <1>12, <1>13 DEF Sound, ValidSnapshot
\* A record that moves on in the hands of its window.
LEMMA WithRecordIsSound ==
  ASSUME Sound(image), NEW s \in Recorded(image), NEW r \in Record,
         r.window = image.records[s].window,
         r.state # "queued" => image.records[s].state # "queued" /\ r.token = image.records[s].token
  PROVE  /\ Sound(WithRecord(s, r))
         /\ WithRecord(s, r).records = [image.records EXCEPT ![s] = r]
         /\ WithRecord(s, r).ranges = image.ranges /\ WithRecord(s, r).fences = image.fences
         /\ WithRecord(s, r).retained = image.retained
         /\ WithRecord(s, r).nextSequence = image.nextSequence
         /\ WithRecord(s, r).nextAttempt = image.nextAttempt
         /\ WithRecord(s, r).nextRequestId = image.nextRequestId
<1> DEFINE records == [image.records EXCEPT ![s] = r]
<1>1. image \in Image /\ s \in Sequences /\ r # NoRecord /\ image.records[s] # NoRecord
  BY RecordsOf, Records DEF Sound
<1>2. records \in [Sequences -> Record \cup {NoRecord}]
  BY <1>1, Images
<1>3. \A u \in Sequences : records[u] = (IF u = s THEN r ELSE image.records[u])
  BY <1>1, Images
<1>4. WithRecord(s, r) = [image EXCEPT !.records = records]
  BY DEF WithRecord
<1> HIDE DEF records
<1>5. \A u \in Recorded(image) : u \in Sequences
  BY <1>1, RecordsOf
<1>6. /\ \A u \in Sequences : records[u] = NoRecord <=> image.records[u] = NoRecord
      /\ \A u \in Recorded(image) : records[u].window = image.records[u].window
      /\ \A u \in Recorded(image) : records[u].state # "queued" =>
           image.records[u].state # "queued" /\ records[u].token = image.records[u].token
  BY <1>1, <1>3, <1>5
<1>7. Sound([image EXCEPT !.records = records])
  BY <1>2, <1>6, SoundRecords
<1> QED
  BY <1>1, <1>2, <1>4, <1>7, OtherRecords DEF records

\* What an attempt is, in a sound image.
LEMMA AttemptsOf ==
  ASSUME Sound(image), NEW a \in Attempt, NEW state \in {"processing", "applied"}, IsAttempt(a, state)
  PROVE  /\ a.sequence \in Tried(image) /\ a.sequence \in Recorded(image) /\ a.sequence \in Sequences
         /\ image.records[a.sequence] \in Record
         /\ image.records[a.sequence].state = state
         /\ image.records[a.sequence].window = a.window /\ image.records[a.sequence].token = a.token
         /\ a.window \in Windows /\ a.token \in Attempts
<1>1. a.sequence \in Sequences /\ a.window \in Windows /\ a.token \in Attempts
  BY DEF Attempt
<1>2. a.sequence \in Tried(image)
  BY <1>1 DEF IsAttempt, InState, Tried, Recorded
<1> QED
  BY <1>1, <1>2, RecordsOf DEF IsAttempt, InState, Sound

\* The image after release_window.
Released(w) ==
  [image EXCEPT !.records = [s \in Sequences |->
     IF s \in Underway(w) THEN Queued(w) ELSE image.records[s]]]

LEMMA ReleasedIsSound ==
  ASSUME Sound(image), NEW w \in Windows
  PROVE  /\ Sound(Released(w))
         /\ Released(w).records = [s \in Sequences |-> IF s \in Underway(w) THEN Queued(w) ELSE image.records[s]]
         /\ Released(w).ranges = image.ranges /\ Released(w).fences = image.fences
         /\ Released(w).retained = image.retained
         /\ Released(w).nextSequence = image.nextSequence
         /\ Released(w).nextAttempt = image.nextAttempt
         /\ Released(w).nextRequestId = image.nextRequestId
<1> DEFINE records == [s \in Sequences |-> IF s \in Underway(w) THEN Queued(w) ELSE image.records[s]]
<1>1. image \in Image /\ Queued(w) \in Record /\ Queued(w) # NoRecord
      /\ Queued(w).window = w /\ Queued(w).state = "queued"
  BY MadeRecords, Records DEF Sound
<1>2. records \in [Sequences -> Record \cup {NoRecord}]
  BY <1>1, Images
<1>3. \A s \in Underway(w) : image.records[s] # NoRecord /\ image.records[s].window = w
  BY DEF Underway, Recorded
<1>4. \A u \in Recorded(image) : u \in Sequences
  BY <1>1, RecordsOf
<1>5. \A u \in Sequences : records[u] = NoRecord <=> image.records[u] = NoRecord
  BY <1>1, <1>3
<1>6. \A u \in Recorded(image) : records[u].window = image.records[u].window
  BY <1>1, <1>3, <1>4
<1>7. \A u \in Recorded(image) : records[u].state # "queued" =>
        image.records[u].state # "queued" /\ records[u].token = image.records[u].token
  BY <1>1, <1>4
<1>8. Released(w) = [image EXCEPT !.records = records]
  BY DEF Released
<1> HIDE DEF records
<1>9. Sound([image EXCEPT !.records = records])
  BY <1>2, <1>5, <1>6, <1>7, SoundRecords
<1> QED
  BY <1>1, <1>2, <1>8, <1>9, OtherRecords DEF records

-----------------------------------------------------------------------------
(* Steps.                                                                  *)

(* What a call may turn the image into. *)
Enqueues(after) ==
  \E w \in Windows, keys \in Identities :
    ~Overlapping(w, keys) /\ image.nextSequence + 1 # MaxSequence /\ after = Enqueued(w, keys)
Claims(after) == \E w \in Windows : TokensLeft(w) /\ after = Claimed(w)
Applies(after) ==
  \E a \in Attempt :
    IsAttempt(a, "processing") /\ after = WithRecord(a.sequence, Applied(a.window, a.token))
Completes(after) == \E a \in Attempt : IsAttempt(a, "applied") /\ after = Acknowledged(a)
Abandons(after) ==
  \E a \in Attempt : IsAttempt(a, "processing") /\ after = WithRecord(a.sequence, Queued(a.window))
Releases(after) == \E w \in Windows : after = Released(w)

Change(after) ==
  \/ after = image
  \/ Enqueues(after) \/ Claims(after) \/ Applies(after) \/ Completes(after)
  \/ Abandons(after) \/ Releases(after)

LEMMA ChangesAreSound ==
  ASSUME Sound(image), NEW after, Change(after)
  PROVE  Sound(after)
<1>1. CASE Enqueues(after)
  BY <1>1, EnqueuedIsSound DEF Enqueues
<1>2. CASE Claims(after)
  BY <1>2, ClaimedIsSound DEF Claims
<1>3. CASE Applies(after)
  <2>1. PICK a \in Attempt : IsAttempt(a, "processing") /\ after = WithRecord(a.sequence, Applied(a.window, a.token))
    BY <1>3 DEF Applies
  <2>2. /\ a.sequence \in Recorded(image) /\ a.window \in Windows /\ a.token \in Attempts
        /\ image.records[a.sequence].state = "processing"
        /\ image.records[a.sequence].window = a.window /\ image.records[a.sequence].token = a.token
    BY <2>1, AttemptsOf
  <2>3. PICK r \in Record : r = Applied(a.window, a.token) /\ r.window = a.window /\ r.token = a.token
    BY <2>2, MadeRecords
  <2>4. PICK s \in Recorded(image) : s = a.sequence
    BY <2>2
  <2>5. /\ r.window = image.records[s].window
        /\ image.records[s].state # "queued" /\ r.token = image.records[s].token
    BY <2>2, <2>3, <2>4
  <2>6. Sound(WithRecord(s, r))
    BY <2>5, WithRecordIsSound
  <2> QED
    BY <2>1, <2>3, <2>4, <2>6
<1>4. CASE Completes(after)
  BY <1>4, AcknowledgedIsSound DEF Completes
<1>5. CASE Abandons(after)
  <2>1. PICK a \in Attempt : IsAttempt(a, "processing") /\ after = WithRecord(a.sequence, Queued(a.window))
    BY <1>5 DEF Abandons
  <2>2. /\ a.sequence \in Recorded(image) /\ a.window \in Windows
        /\ image.records[a.sequence].window = a.window
    BY <2>1, AttemptsOf
  <2>3. PICK r \in Record : r = Queued(a.window) /\ r.window = a.window /\ r.state = "queued"
    BY <2>2, MadeRecords
  <2>4. PICK s \in Recorded(image) : s = a.sequence
    BY <2>2
  <2>5. r.window = image.records[s].window
    BY <2>2, <2>3, <2>4
  <2>6. Sound(WithRecord(s, r))
    BY <2>3, <2>5, WithRecordIsSound
  <2> QED
    BY <2>1, <2>3, <2>4, <2>6
<1>6. CASE Releases(after)
  BY <1>6, ReleasedIsSound DEF Releases
<1> QED
  BY <1>1, <1>2, <1>3, <1>4, <1>5, <1>6 DEF Change

Typed == dirty \in BOOLEAN /\ known \subseteq Attempt

\* A call changes nothing, saves what it changed, or keeps it in memory; nothing else is kept
\* than what a window did with its requests.
LEMMA Calls ==
  ASSUME Typed, Next
  PROVE  \/ UNCHANGED <<image, dirty, disk>>
         \/ \E after : Change(after) /\ Saved(after)
         \/ \E after : (Applies(after) \/ Releases(after)) /\ RetainMutation(after)
         \/ Restart
<1>1. ASSUME NEW after, NEW ok \in BOOLEAN, Transaction(after, ok)
      PROVE  UNCHANGED <<image, dirty, disk>> \/ Saved(after)
  BY <1>1 DEF Transaction, RollBack
<1>2. ASSUME NEW after, NEW ok \in BOOLEAN, RetainingTransaction(after, ok)
      PROVE  \/ UNCHANGED <<image, dirty, disk>> \/ Saved(after)
             \/ after # image /\ RetainMutation(after)
  <2>1. CASE after = image
    <3>1. CASE ~Writes(after)
      BY <1>2, <3>1 DEF RetainingTransaction
    <3>2. CASE Writes(after)
      <4>1. dirty = TRUE
        BY <2>1, <3>2 DEF Writes, Typed
      <4>2. Saved(after) \/ RetainMutation(after)
        BY <1>2, <3>2 DEF RetainingTransaction
      <4> QED
        BY <2>1, <4>1, <4>2 DEF RetainMutation
    <3> QED
      BY <3>1, <3>2
  <2>2. CASE after # image
    BY <1>2, <2>2 DEF RetainingTransaction
  <2> QED
    BY <2>1, <2>2
<1>3. ASSUME NEW w \in Windows, NEW keys \in Identities, NEW ok \in BOOLEAN, Enqueue(w, keys, ok)
      PROVE  UNCHANGED <<image, dirty, disk>> \/ \E after : Change(after) /\ Saved(after)
  <2>1. PICK after : after = (IF Overlapping(w, keys) THEN image ELSE Enqueued(w, keys))
    OBVIOUS
  <2>2. Change(after) /\ Transaction(after, ok)
    <3>1. CASE Overlapping(w, keys)
      BY <1>3, <2>1, <3>1 DEF Enqueue, Change
    <3>2. CASE ~Overlapping(w, keys)
      BY <1>3, <2>1, <3>2 DEF Enqueue, Change, Enqueues
    <3> QED
      BY <3>1, <3>2
  <2> QED
    BY <1>1, <2>2
<1>4. ASSUME NEW w \in Windows, NEW ok \in BOOLEAN, Claim(w, ok)
      PROVE  UNCHANGED <<image, dirty, disk>> \/ \E after : Change(after) /\ Saved(after)
  <2>1. PICK after : after = Claimed(w)
    OBVIOUS
  <2>2. Change(after) /\ Transaction(after, ok)
    BY <1>4, <2>1 DEF Claim, Change, Claims
  <2> QED
    BY <1>1, <2>2
<1>5. ASSUME NEW w \in Windows, NEW ok \in BOOLEAN, ReleaseWindow(w, ok)
      PROVE  \/ UNCHANGED <<image, dirty, disk>> \/ \E after : Change(after) /\ Saved(after)
             \/ \E after : Releases(after) /\ RetainMutation(after)
  <2>1. PICK after : after = Released(w)
    OBVIOUS
  <2>2. Releases(after) /\ Change(after) /\ RetainingTransaction(after, ok)
    BY <1>5, <2>1 DEF ReleaseWindow, Change, Releases, Released
  <2> QED
    BY <1>2, <2>2
<1>6. ASSUME NEW a \in known, NEW ok \in BOOLEAN, RecordApplied(a, ok)
      PROVE  \/ UNCHANGED <<image, dirty, disk>> \/ \E after : Change(after) /\ Saved(after)
             \/ \E after : Applies(after) /\ RetainMutation(after)
  <2>1. a \in Attempt
    BY DEF Typed
  <2>2. CASE IsAttempt(a, "processing") /\ RetainingTransaction(WithRecord(a.sequence, Applied(a.window, a.token)), ok)
    <3>1. PICK after : after = WithRecord(a.sequence, Applied(a.window, a.token))
      OBVIOUS
    <3>2. Applies(after) /\ Change(after) /\ RetainingTransaction(after, ok)
      BY <2>1, <2>2, <3>1 DEF Change, Applies
    <3> QED
      BY <1>2, <3>2
  <2>3. CASE RetainingTransaction(image, ok)
    <3>1. PICK after : after = image
      OBVIOUS
    <3>2. Change(after) /\ RetainingTransaction(after, ok)
      BY <2>3, <3>1 DEF Change
    <3> QED
      BY <1>2, <3>1, <3>2
  <2> QED
    BY <1>6, <2>2, <2>3 DEF RecordApplied
<1>7. ASSUME NEW a \in known, NEW ok \in BOOLEAN, AcknowledgeCompletion(a, ok) \/ Abandon(a, ok)
      PROVE  UNCHANGED <<image, dirty, disk>> \/ \E after : Change(after) /\ Saved(after)
  <2>1. a \in Attempt
    BY DEF Typed
  <2>2. \E after : Change(after) /\ Transaction(after, ok)
    <3>1. Change(image)
      BY DEF Change
    <3>2. IsAttempt(a, "applied") => Change(Acknowledged(a))
      BY <2>1 DEF Change, Completes
    <3>3. IsAttempt(a, "processing") => Change(WithRecord(a.sequence, Queued(a.window)))
      BY <2>1 DEF Change, Abandons
    <3> QED
      BY <1>7, <3>1, <3>2, <3>3 DEF AcknowledgeCompletion, Abandon
  <2> QED
    BY <1>1, <2>2
<1>8. ASSUME NEW w \in Windows, Recover(w)
      PROVE  UNCHANGED <<image, dirty, disk>>
  BY <1>8 DEF Recover
<1> QED
  BY <1>3, <1>4, <1>5, <1>6, <1>7, <1>8 DEF Next
-----------------------------------------------------------------------------
(* The file and the memory.                                                *)

\* The file is behind in nothing but the records.
FieldsOnDisk ==
  /\ Loaded(disk).ranges = image.ranges /\ Loaded(disk).fences = image.fences
  /\ Loaded(disk).retained = image.retained
  /\ Loaded(disk).nextSequence = image.nextSequence
  /\ Loaded(disk).nextAttempt = image.nextAttempt
  /\ Loaded(disk).nextRequestId = image.nextRequestId

\* And in those only by applications.
RecordsOnDisk ==
  \A s \in Sequences :
    Loaded(disk).records[s] # Requeued(image.records[s]) => dirty /\ ApplicationUnsaved(s)

\* An attempt that is under way was saved before its page got it.
AttemptsAreSaved ==
  \A s \in Sequences :
    InState(image, s, "processing") => disk # NoFile /\ disk.records[s] = image.records[s]

Stored ==
  /\ Sound(image)
  /\ disk # NoFile => Sound(disk)
  /\ FieldsOnDisk /\ RecordsOnDisk /\ AttemptsAreSaved

LEMMA LoadedIsSound ==
  ASSUME disk # NoFile => Sound(disk)
  PROVE  /\ Sound(Loaded(disk)) /\ Cold(Loaded(disk)) = Loaded(disk)
         /\ disk # NoFile => Loaded(disk).records = [s \in Sequences |-> Requeued(disk.records[s])]
<1>1. CASE disk = NoFile
  BY <1>1, EmptyIsSound DEF Loaded
<1>2. CASE disk # NoFile
  BY <1>2, ColdIsSound, ColdTwice, ColdFields DEF Loaded, Sound
<1> QED
  BY <1>1, <1>2

LEMMA SavedStores ==
  ASSUME NEW after, Sound(after), Saved(after)
  PROVE  Stored'
<1>1. image' = after /\ disk' = after /\ after # NoFile /\ after \in Image
  BY NullAssumption DEF Saved, Sound
<1>2. Loaded(after) = Cold(after)
  BY <1>1 DEF Loaded
<1>3. FieldsOnDisk'
  BY <1>1, <1>2, ColdFields DEF FieldsOnDisk
<1>4. RecordsOnDisk'
  <2>1. Loaded(after).records = [s \in Sequences |-> Requeued(after.records[s])]
    BY <1>1, <1>2, ColdFields
  <2> QED
    BY <1>1, <2>1 DEF RecordsOnDisk
<1>5. AttemptsAreSaved'
  BY <1>1 DEF AttemptsAreSaved
<1> QED
  BY <1>1, <1>3, <1>4, <1>5 DEF Stored

\* An application that could not be saved: the file still has it under way.
LEMMA AppliesStored ==
  ASSUME Stored, NEW after, Applies(after), RetainMutation(after)
  PROVE  Stored'
<1>1. PICK a \in Attempt : IsAttempt(a, "processing") /\ after = WithRecord(a.sequence, Applied(a.window, a.token))
  BY DEF Applies
<1>2. PICK n : n = a.sequence
  OBVIOUS
<1>3. /\ n \in Recorded(image) /\ n \in Sequences /\ a.window \in Windows /\ a.token \in Attempts
      /\ image.records[n].state = "processing"
      /\ image.records[n].window = a.window /\ image.records[n].token = a.token
  BY <1>1, <1>2, AttemptsOf DEF Stored
<1>4. PICK r \in Record : r = Applied(a.window, a.token) /\ r.window = a.window /\ r.token = a.token /\ r.state = "applied"
  BY <1>3, MadeRecords
<1>5. /\ Sound(after) /\ after.records = [image.records EXCEPT ![n] = r]
      /\ after.ranges = image.ranges /\ after.fences = image.fences /\ after.retained = image.retained
      /\ after.nextSequence = image.nextSequence /\ after.nextAttempt = image.nextAttempt
      /\ after.nextRequestId = image.nextRequestId
  BY <1>1, <1>2, <1>3, <1>4, WithRecordIsSound DEF Stored
<1>6. image' = after /\ dirty' = TRUE /\ disk' = disk
  BY DEF RetainMutation
<1>7. FieldsOnDisk'
  BY <1>5, <1>6 DEF FieldsOnDisk, Stored
<1>8. image.records \in [Sequences -> Record \cup {NoRecord}] /\ r # NoRecord
  BY Images, Records DEF Stored, Sound
<1>9. \A s \in Sequences : after.records[s] = (IF s = n THEN r ELSE image.records[s])
  BY <1>3, <1>5, <1>8
<1>10. disk # NoFile /\ disk.records[n] = image.records[n] /\ image.records[n] # NoRecord
  BY <1>3 DEF Stored, AttemptsAreSaved, InState, Recorded
<1>11. RecordsOnDisk'
  <2> SUFFICES ASSUME NEW s \in Sequences, Loaded(disk).records[s] # Requeued(after.records[s])
               PROVE  dirty' /\ ApplicationUnsaved(s)'
    BY <1>6 DEF RecordsOnDisk
  <2>1. CASE s = n
    BY <1>3, <1>4, <1>6, <1>8, <1>9, <1>10, <2>1 DEF ApplicationUnsaved, InState
  <2>2. CASE s # n
    <3>1. ApplicationUnsaved(s)
      BY <1>9, <2>2 DEF Stored, RecordsOnDisk
    <3> QED
      BY <1>6, <1>9, <2>2, <3>1 DEF ApplicationUnsaved, InState
  <2> QED
    BY <2>1, <2>2
<1>12. AttemptsAreSaved'
  BY <1>4, <1>6, <1>9 DEF Stored, AttemptsAreSaved, InState
<1> QED
  BY <1>5, <1>6, <1>7, <1>11, <1>12 DEF Stored

\* A release that could not be saved makes no difference to a restart.
LEMMA ReleasesStored ==
  ASSUME Stored, NEW after, Releases(after), RetainMutation(after)
  PROVE  Stored'
<1>1. PICK w \in Windows : after = Released(w)
  BY DEF Releases
<1>2. /\ Sound(after)
      /\ after.records = [s \in Sequences |-> IF s \in Underway(w) THEN Queued(w) ELSE image.records[s]]
      /\ after.ranges = image.ranges /\ after.fences = image.fences /\ after.retained = image.retained
      /\ after.nextSequence = image.nextSequence /\ after.nextAttempt = image.nextAttempt
      /\ after.nextRequestId = image.nextRequestId
  BY <1>1, ReleasedIsSound DEF Stored
<1>3. image' = after /\ dirty' = TRUE /\ disk' = disk
  BY DEF RetainMutation
<1>4. FieldsOnDisk'
  BY <1>2, <1>3 DEF FieldsOnDisk, Stored
<1>5. /\ Queued(w) # NoRecord /\ Queued(w).state = "queued"
      /\ \A s \in Underway(w) : s \in Sequences /\ image.records[s] # NoRecord
           /\ image.records[s].state = "processing" /\ image.records[s].window = w
  <2>1. Queued(w) # NoRecord /\ Queued(w).state = "queued"
    BY MadeRecords, Records
  <2>2. Recorded(image) \subseteq Sequences
    BY RecordsOf DEF Stored, Sound
  <2> QED
    BY <2>1, <2>2 DEF Underway, InState
<1>6. ASSUME NEW s \in Sequences
      PROVE  /\ Requeued(after.records[s]) = Requeued(image.records[s])
             /\ InState(after, s, "applied") <=> InState(image, s, "applied")
             /\ InState(after, s, "applied") => after.records[s] = image.records[s]
             /\ InState(after, s, "processing") => InState(image, s, "processing") /\ after.records[s] = image.records[s]
  <2>1. CASE s \in Underway(w)
    BY <1>2, <1>5, <2>1 DEF Requeued, InState
  <2>2. CASE s \notin Underway(w)
    BY <1>2, <2>2 DEF InState
  <2> QED
    BY <2>1, <2>2
<1>7. RecordsOnDisk'
  <2> SUFFICES ASSUME NEW s \in Sequences, Loaded(disk).records[s] # Requeued(after.records[s])
               PROVE  dirty' /\ ApplicationUnsaved(s)'
    BY <1>3 DEF RecordsOnDisk
  <2>1. ApplicationUnsaved(s)
    BY <1>6 DEF Stored, RecordsOnDisk
  <2> QED
    BY <1>3, <1>6, <2>1 DEF ApplicationUnsaved, InState
<1>8. AttemptsAreSaved'
  BY <1>3, <1>6 DEF Stored, AttemptsAreSaved
<1> QED
  BY <1>2, <1>3, <1>4, <1>7, <1>8 DEF Stored

\* The process starts from the file, and has nothing under way.
LEMMA RestartStored ==
  ASSUME Stored, Restart
  PROVE  Stored'
<1>1. image' = Loaded(disk) /\ disk' = disk
  BY DEF Restart
<1>2. Sound(Loaded(disk)) /\ Cold(Loaded(disk)) = Loaded(disk) /\ Loaded(disk) \in Image
  BY LoadedIsSound DEF Stored, Sound
<1>3. FieldsOnDisk'
  BY <1>1 DEF FieldsOnDisk
<1>4. \A s \in Sequences : Requeued(Loaded(disk).records[s]) = Loaded(disk).records[s]
  <2>1. Cold(Loaded(disk)).records = [s \in Sequences |-> Requeued(Loaded(disk).records[s])]
    BY <1>2, ColdFields
  <2> QED
    BY <1>2, <2>1
<1>5. RecordsOnDisk'
  BY <1>1, <1>4 DEF RecordsOnDisk
<1>6. \A s \in Sequences : ~InState(Loaded(disk), s, "processing")
  BY <1>2, <1>4, RequeuedRecords DEF InState
<1>7. AttemptsAreSaved'
  BY <1>1, <1>6 DEF AttemptsAreSaved, InState
<1> QED
  BY <1>1, <1>2, <1>3, <1>5, <1>7 DEF Stored

LEMMA UnchangedStored ==
  ASSUME Stored, UNCHANGED <<image, dirty, disk>>
  PROVE  Stored'
BY DEF Stored, FieldsOnDisk, RecordsOnDisk, ApplicationUnsaved, AttemptsAreSaved, InState

LEMMA NextStored ==
  ASSUME Typed, Stored, Next
  PROVE  Stored'
<1>1. CASE \E after : Change(after) /\ Saved(after)
  BY <1>1, ChangesAreSound, SavedStores DEF Stored
<1> QED
  BY <1>1, Calls, UnchangedStored, AppliesStored, ReleasesStored, RestartStored

LEMMA InitStored == Init => Stored
<1> SUFFICES ASSUME Init PROVE Stored
  OBVIOUS
<1>1. image = Empty /\ disk = NoFile /\ Loaded(disk) = Empty
  BY DEF Init, Loaded
<1>2. Sound(Empty) /\ Empty.records = [s \in Sequences |-> NoRecord]
  BY EmptyIsSound DEF Empty
<1> QED
  BY <1>1, <1>2 DEF Stored, FieldsOnDisk, RecordsOnDisk, AttemptsAreSaved, InState, Requeued

LEMMA StoredForgetsLittle == Stored => CrashForgetsOnlyApplications
<1> SUFFICES ASSUME Stored PROVE CrashForgetsOnlyApplications
  OBVIOUS
<1>1. PICK loaded \in Image : loaded = Loaded(disk)
  BY LoadedIsSound DEF Stored, Sound
<1>2. PICK now \in Image : now = Cold(image)
  BY ColdFields DEF Stored, Sound
<1>3. /\ now.records = [s \in Sequences |-> Requeued(image.records[s])]
      /\ now.ranges = image.ranges /\ now.fences = image.fences /\ now.retained = image.retained
      /\ now.nextSequence = image.nextSequence /\ now.nextAttempt = image.nextAttempt
      /\ now.nextRequestId = image.nextRequestId
  BY <1>2, ColdFields DEF Stored, Sound
<1>4. [loaded EXCEPT !.records = now.records] = now
  <2>1. PICK mixed : mixed = [loaded EXCEPT !.records = now.records]
    OBVIOUS
  <2>2. /\ mixed \in Image /\ mixed.records = now.records
        /\ mixed.ranges = loaded.ranges /\ mixed.fences = loaded.fences /\ mixed.retained = loaded.retained
        /\ mixed.nextSequence = loaded.nextSequence /\ mixed.nextAttempt = loaded.nextAttempt
        /\ mixed.nextRequestId = loaded.nextRequestId
    BY <2>1, Images, OtherRecords
  <2>3. mixed = now
    BY <1>1, <1>3, <2>2, SameImage DEF Stored, FieldsOnDisk
  <2> QED
    BY <2>1, <2>3
<1>5. \A s \in Sequences : loaded.records[s] # now.records[s] => dirty /\ ApplicationUnsaved(s)
  BY <1>1, <1>3 DEF Stored, RecordsOnDisk
<1> QED
  BY <1>1, <1>2, <1>4, <1>5 DEF CrashForgetsOnlyApplications
-----------------------------------------------------------------------------
(* The attempts.                                                           *)

\* Everything but a claim and a completion leaves at most the attempts there were.
LEMMA FewerAttempts ==
  ASSUME Sound(image), NEW after, Enqueues(after) \/ Applies(after) \/ Abandons(after) \/ Releases(after)
  PROVE  /\ after.fences = image.fences /\ after.nextAttempt = image.nextAttempt
         /\ \A s \in Tried(after) :
              /\ s \in Tried(image) /\ after.records[s].token = image.records[s].token
              /\ after.records[s].window = image.records[s].window
<1>1. image \in Image /\ image.records \in [Sequences -> Record \cup {NoRecord}] /\ Sound(after)
  BY Images, ChangesAreSound DEF Sound, Change
<1>2. Tried(after) \subseteq Sequences
  BY <1>1, RecordsOf DEF Sound
<1>3. CASE Enqueues(after)
  <2>1. PICK w \in Windows, keys \in Identities :
          ~Overlapping(w, keys) /\ image.nextSequence + 1 # MaxSequence /\ after = Enqueued(w, keys)
    BY <1>3 DEF Enqueues
  <2>2. /\ image.nextSequence \in Sequences /\ after.fences = image.fences
        /\ after.records = [image.records EXCEPT ![image.nextSequence] = Queued(w)]
        /\ after.nextAttempt = image.nextAttempt
    BY <2>1, EnqueuedIsSound
  <2>3. \A s \in Sequences : after.records[s] = (IF s = image.nextSequence THEN Queued(w) ELSE image.records[s])
    BY <1>1, <2>2
  <2>4. Queued(w).state = "queued"
    BY MadeRecords
  <2> QED
    BY <1>2, <2>2, <2>3, <2>4 DEF Tried, Recorded
<1>4. ASSUME NEW n \in Recorded(image), NEW r \in Record, after = WithRecord(n, r),
             r.window = image.records[n].window,
             r.state # "queued" => image.records[n].state # "queued" /\ r.token = image.records[n].token
      PROVE  /\ after.fences = image.fences /\ after.nextAttempt = image.nextAttempt
             /\ \A s \in Tried(after) :
                  /\ s \in Tried(image) /\ after.records[s].token = image.records[s].token
                  /\ after.records[s].window = image.records[s].window
  <2>1. /\ after.records = [image.records EXCEPT ![n] = r]
        /\ after.fences = image.fences /\ after.nextAttempt = image.nextAttempt
    BY <1>4, WithRecordIsSound
  <2>2. \A s \in Sequences : after.records[s] = (IF s = n THEN r ELSE image.records[s])
    BY <1>1, <2>1
  <2> QED
    BY <1>2, <1>4, <2>1, <2>2 DEF Tried, Recorded
<1>5. CASE Applies(after)
  <2>1. PICK a \in Attempt : IsAttempt(a, "processing") /\ after = WithRecord(a.sequence, Applied(a.window, a.token))
    BY <1>5 DEF Applies
  <2>2. PICK r \in Record : r = Applied(a.window, a.token) /\ r.window = a.window /\ r.token = a.token
    BY <2>1, AttemptsOf, MadeRecords
  <2>3. PICK n \in Recorded(image) : n = a.sequence
    BY <2>1, AttemptsOf
  <2>4. /\ image.records[n].state = "processing"
        /\ image.records[n].window = a.window /\ image.records[n].token = a.token
    BY <2>1, <2>3, AttemptsOf
  <2> QED
    BY <1>4, <2>1, <2>2, <2>3, <2>4
<1>6. CASE Abandons(after)
  <2>1. PICK a \in Attempt : IsAttempt(a, "processing") /\ after = WithRecord(a.sequence, Queued(a.window))
    BY <1>6 DEF Abandons
  <2>2. PICK r \in Record : r = Queued(a.window) /\ r.window = a.window /\ r.state = "queued"
    BY <2>1, AttemptsOf, MadeRecords
  <2>3. PICK n \in Recorded(image) : n = a.sequence
    BY <2>1, AttemptsOf
  <2>4. image.records[n].window = a.window
    BY <2>1, <2>3, AttemptsOf
  <2> QED
    BY <1>4, <2>1, <2>2, <2>3, <2>4
<1>7. CASE Releases(after)
  <2>1. PICK w \in Windows : after = Released(w)
    BY <1>7 DEF Releases
  <2>2. /\ after.records = [s \in Sequences |-> IF s \in Underway(w) THEN Queued(w) ELSE image.records[s]]
        /\ after.fences = image.fences /\ after.nextAttempt = image.nextAttempt
    BY <2>1, ReleasedIsSound
  <2>3. Queued(w).state = "queued"
    BY MadeRecords
  <2> QED
    BY <1>2, <2>2, <2>3 DEF Tried, Recorded
<1> QED
  BY <1>3, <1>5, <1>6, <1>7

\* What is tried before and after a call is the same attempt.
LEMMA ChangesKeepAttempts ==
  ASSUME Sound(image), NEW after, Change(after)
  PROVE  \A s \in Tried(image) \cap Tried(after) : after.records[s].token = image.records[s].token
<1>1. CASE Enqueues(after) \/ Applies(after) \/ Abandons(after) \/ Releases(after)
  BY <1>1, FewerAttempts
<1>2. CASE Claims(after)
  <2>1. PICK w \in Windows : TokensLeft(w) /\ after = Claimed(w)
    BY <1>2 DEF Claims
  <2> QED
    BY <2>1, ClaimedAttempts
<1>3. CASE Completes(after)
  <2>1. PICK a \in Attempt : IsAttempt(a, "applied") /\ after = Acknowledged(a)
    BY <1>3 DEF Completes
  <2>2. Tried(image) \subseteq Sequences
    BY RecordsOf DEF Sound
  <2> QED
    BY <2>1, <2>2, AcknowledgedAttempts
<1> QED
  BY <1>1, <1>2, <1>3 DEF Change

\* An attempt whose token stands for nothing else in an image.
FencedIn(d, a) ==
  /\ a.token < d.nextAttempt
  /\ \A s \in Tried(d) : d.records[s].token = a.token => s = a.sequence /\ d.records[s].window = a.window
  /\ \A i \in FenceIds(d) : d.fences[i].token = a.token
       => d.fences[i].sequence = a.sequence /\ d.fences[i].window = a.window

\* The attempt at a request that is tried is one.
LEMMA TriedIsFenced ==
  ASSUME NEW d, Sound(d), NEW s \in Tried(d)
  PROVE  LET a == [window |-> d.records[s].window, sequence |-> s, token |-> d.records[s].token]
         IN a \in Attempt /\ FencedIn(d, a)
<1>1. d \in Image /\ TokensUnique(d)
  BY DEF Sound, ValidSnapshot
<1>2. s \in Sequences /\ d.records[s].token \in Attempts /\ d.records[s].window \in Windows
  BY <1>1, RecordsOf, Records
<1>3. \A u \in Tried(d) : d.records[u].token = d.records[s].token => u = s
  BY <1>1 DEF TokensUnique
<1> QED
  BY <1>1, <1>2, <1>3 DEF TokensUnique, FencedIn, Attempt

LEMMA ChangesKeepFences ==
  ASSUME Sound(image), NEW after, Change(after), NEW a \in Attempt, FencedIn(image, a)
  PROVE  FencedIn(after, a)
<1>1. image \in Image /\ image.nextAttempt \in Nat /\ a.token \in Nat
  <2>1. image \in Image
    BY DEF Sound
  <2>2. image.nextAttempt \in 0 .. (MaxAttempt - 1)
    BY <2>1, Images
  <2>3. a.token \in Nat
    BY Limits DEF Attempt
  <2> QED
    BY <2>1, <2>2, <2>3, Limits
<1>2. CASE Enqueues(after) \/ Applies(after) \/ Abandons(after) \/ Releases(after)
  <2>1. /\ after.fences = image.fences /\ after.nextAttempt = image.nextAttempt
        /\ \A s \in Tried(after) :
             /\ s \in Tried(image) /\ after.records[s].token = image.records[s].token
             /\ after.records[s].window = image.records[s].window
    BY <1>2, FewerAttempts
  <2>2. FenceIds(after) = FenceIds(image)
    BY <2>1 DEF FenceIds
  <2>3. \A s \in Tried(after) : after.records[s].token = a.token
          => s = a.sequence /\ after.records[s].window = a.window
    BY <2>1 DEF FencedIn
  <2>4. \A i \in FenceIds(after) : after.fences[i].token = a.token
          => after.fences[i].sequence = a.sequence /\ after.fences[i].window = a.window
    BY <2>1, <2>2 DEF FencedIn
  <2>5. a.token < after.nextAttempt
    BY <2>1 DEF FencedIn
  <2> QED
    BY <2>3, <2>4, <2>5 DEF FencedIn
<1>3. CASE Claims(after)
  <2>1. PICK w \in Windows : TokensLeft(w) /\ after = Claimed(w)
    BY <1>3 DEF Claims
  <2>2. /\ after.fences = image.fences /\ after.nextAttempt = image.nextAttempt + Cardinality(Waiting(w))
        /\ Cardinality(Waiting(w)) \in Nat
    BY <2>1, ClaimedFields, TokensDiffer
  <2>3. /\ Tried(after) = Tried(image) \cup Waiting(w)
        /\ \A s \in Tried(image) : after.records[s] = image.records[s]
        /\ \A s \in Waiting(w) : after.records[s].token = TokenFor(w, s)
    BY <2>1, ClaimedAttempts
  <2>4. \A s \in Waiting(w) : TokenFor(w, s) # a.token
    BY <1>1, <2>1, TokensDiffer DEF FencedIn
  <2>5. a.token < after.nextAttempt
    BY <1>1, <2>2 DEF FencedIn
  <2> QED
    BY <2>2, <2>3, <2>4, <2>5 DEF FencedIn, FenceIds
<1>4. CASE Completes(after)
  <2>1. PICK b \in Attempt : IsAttempt(b, "applied") /\ after = Acknowledged(b)
    BY <1>4 DEF Completes
  <2>2. /\ b.sequence \in Tried(image) /\ image.records[b.sequence].token = b.token
        /\ image.records[b.sequence].window = b.window
    BY <2>1, AttemptsOf
  <2>3. after.nextAttempt = image.nextAttempt
    BY <2>1, AcknowledgedFields
  <2>4. \A s \in Tried(after) : s \in Tried(image) /\ after.records[s] = image.records[s]
    BY <2>1, AcknowledgedAttempts, RecordsOf DEF Sound
  <2>5. \A i \in FenceIds(after) :
          \/ after.fences[i].sequence = b.sequence /\ after.fences[i].window = b.window
               /\ after.fences[i].token = b.token
          \/ \E j \in FenceIds(image) : after.fences[i] = image.fences[j]
    BY <2>1, AcknowledgedAttempts
  <2>6. b.token = a.token => b.sequence = a.sequence /\ b.window = a.window
    BY <2>2 DEF FencedIn
  <2> QED
    BY <2>3, <2>4, <2>5, <2>6 DEF FencedIn
<1> QED
  BY <1>2, <1>3, <1>4 DEF Change

\* A page knows what it knew before, and the attempts at its requests.
LEMMA NextKnows ==
  ASSUME Typed, Stored, Next, NEW a \in known'
  PROVE  \/ a \in known /\ ~Restart
         \/ a \in known /\ UNCHANGED <<image, dirty, disk>>
         \/ \E s \in Tried(image') :
              a = [window |-> image'.records[s].window, sequence |-> s, token |-> image'.records[s].token]
<1>1. ASSUME NEW w \in Windows, NEW ok \in BOOLEAN, Claim(w, ok), a \notin known
      PROVE  \E s \in Tried(image') :
               a = [window |-> image'.records[s].window, sequence |-> s, token |-> image'.records[s].token]
  <2>1. ok /\ a \in Deliveries(Claimed(w), w)
    BY <1>1 DEF Claim
  <2>2. image' = Claimed(w)
    BY <1>1, <2>1 DEF Claim, Transaction, Saved, Writes
  <2> QED
    BY <2>1, <2>2 DEF Deliveries, Tried, InState
<1>2. ASSUME NEW w \in Windows, Recover(w), a \notin known
      PROVE  \E s \in Tried(image') :
               a = [window |-> image'.records[s].window, sequence |-> s, token |-> image'.records[s].token]
  BY <1>2 DEF Recover, Tried, InState
<1>3. ASSUME Restart PROVE FALSE
  BY <1>3 DEF Restart
<1>4. a \in known \/ \E w \in Windows, ok \in BOOLEAN : Claim(w, ok) \/ Recover(w)
  BY <1>3 DEF Next, Enqueue, ReleaseWindow, RecordApplied, AcknowledgeCompletion, Abandon
<1> QED
  BY <1>1, <1>2, <1>3, <1>4

KnownAreFenced == \A a \in known : FencedIn(image, a)

IInv == Typed /\ Stored /\ KnownAreFenced

LEMMA NextTyped ==
  ASSUME Typed, Stored, Next, Stored'
  PROVE  Typed'
<1>1. dirty' \in BOOLEAN
  BY Calls DEF Typed, Saved, RetainMutation, Restart
<1>2. ASSUME NEW a \in known'
      PROVE  a \in Attempt
  <2>1. CASE a \in known
    BY <2>1 DEF Typed
  <2>2. CASE \E s \in Tried(image') :
               a = [window |-> image'.records[s].window, sequence |-> s, token |-> image'.records[s].token]
    <3>1. PICK d : d = image'
      OBVIOUS
    <3>2. Sound(d)
      BY <3>1 DEF Stored, Sound, ValidSnapshot, RetainedValid
    <3> QED
      BY <2>2, <3>1, <3>2, TriedIsFenced
  <2> QED
    BY <2>1, <2>2, NextKnows
<1> QED
  BY <1>1, <1>2 DEF Typed
LEMMA InitHolds == Init => IInv
BY InitStored DEF Init, IInv, Typed, KnownAreFenced

\* No call gives a page's token to something else.
LEMMA NextFenced ==
  ASSUME Typed, Stored, KnownAreFenced, Next, Stored', Typed'
  PROVE  KnownAreFenced'
<1> SUFFICES ASSUME NEW a \in known' PROVE FencedIn(image, a)'
  BY DEF KnownAreFenced
<1>1. PICK d : d = image'
  OBVIOUS
<1>2. Sound(d) /\ a \in Attempt /\ Sound(image)
  BY <1>1 DEF Stored, Typed, Sound, ValidSnapshot, RetainedValid
<1>3. CASE a \in known /\ UNCHANGED <<image, dirty, disk>>
  BY <1>3 DEF KnownAreFenced, FencedIn
<1>4. CASE \E s \in Tried(image') :
             a = [window |-> image'.records[s].window, sequence |-> s, token |-> image'.records[s].token]
  <2>1. FencedIn(d, a)
    BY <1>1, <1>2, <1>4, TriedIsFenced
  <2> QED
    BY <1>1, <2>1 DEF FencedIn
<1>5. CASE a \in known /\ ~Restart
  <2>1. FencedIn(image, a)
    BY <1>5 DEF KnownAreFenced
  <2>2. ASSUME NEW after, Change(after), image' = after
        PROVE  FencedIn(image, a)'
    <3>1. FencedIn(after, a)
      BY <1>2, <2>1, <2>2, ChangesKeepFences
    <3> QED
      BY <2>2, <3>1 DEF FencedIn
  <2>3. \/ UNCHANGED <<image, dirty, disk>>
        \/ \E after : Change(after) /\ image' = after
    <3>1. \/ UNCHANGED <<image, dirty, disk>>
          \/ \E after : Change(after) /\ Saved(after)
          \/ \E after : Applies(after) /\ RetainMutation(after)
          \/ \E after : Releases(after) /\ RetainMutation(after)
      BY <1>5, Calls
    <3> QED
      BY <3>1 DEF Saved, RetainMutation, Change
  <2>4. UNCHANGED <<image, dirty, disk>> => FencedIn(image, a)'
    BY <2>1 DEF FencedIn
  <2> QED
    BY <2>2, <2>3, <2>4
<1> QED
  BY <1>3, <1>4, <1>5, NextKnows

LEMMA NextHolds == IInv /\ [Next]_vars => IInv'
<1> SUFFICES ASSUME IInv, [Next]_vars PROVE IInv'
  OBVIOUS
<1>1. CASE Next
  <2>1. Typed /\ Stored /\ KnownAreFenced
    BY DEF IInv
  <2>2. Stored'
    BY <1>1, <2>1, NextStored
  <2>3. Typed'
    BY <1>1, <2>1, <2>2, NextTyped
  <2>4. KnownAreFenced'
    BY <1>1, <2>1, <2>2, <2>3, NextFenced
  <2> QED
    BY <2>2, <2>3, <2>4 DEF IInv
<1>2. CASE UNCHANGED vars
  <2>1. Stored'
    BY <1>2, UnchangedStored DEF vars, IInv
  <2>2. Typed'
    BY <1>2 DEF vars, IInv, Typed
  <2>3. KnownAreFenced'
    BY <1>2 DEF vars, IInv, KnownAreFenced, FencedIn
  <2> QED
    BY <2>1, <2>2, <2>3 DEF IInv
<1> QED
  BY <1>1, <1>2
-----------------------------------------------------------------------------
(* The theorems.                                                           *)

\* The registry in memory and the one on disk are sound, the file is behind the memory only
\* by what a window applied, and what a page was handed stands for its request alone.
THEOREM InvariantHolds == Spec => []IInv
BY InitHolds, NextHolds, PTL DEF Spec

\* No sequence of enqueues, claims, completions, failed writes and crashes leaves an image
\* that a transaction would refuse, or a file that the next start could not load
\* (validate_snapshot, validate_loaded_runtime).
THEOREM RegistryAlwaysLoads == Spec => []RegistryNeverWedges
<1>1. IInv => RegistryNeverWedges
  BY SoundLoads DEF IInv, Stored, RegistryNeverWedges
<1> QED
  BY <1>1, InvariantHolds, PTL

\* What a crash loses is at most the note that a window had opened a file: every request,
\* its window, its place in the order and every token given out are on disk already.
THEOREM CrashesForgetLittle == Spec => []CrashForgetsOnlyApplications
<1>1. IInv => CrashForgetsOnlyApplications
  BY StoredForgetsLittle DEF IInv
<1> QED
  BY <1>1, InvariantHolds, PTL

\* A token that a page holds is its own for ever: below the counter that the file restores,
\* and on no other record or fence.
THEOREM AttemptsAlwaysFenced == Spec => []AttemptsAreFenced
<1>1. IInv => AttemptsAreFenced
  BY DEF IInv, KnownAreFenced, FencedIn, Stored, FieldsOnDisk, AttemptsAreFenced
<1> QED
  BY <1>1, InvariantHolds, PTL

\* What a restart brings back as applied was applied, by the same attempt.
LEMMA RestartKeepsAttempts ==
  ASSUME IInv, Restart
  PROVE  \A s \in Tried(image) \cap Tried(image') : image'.records[s].token = image.records[s].token
<1> SUFFICES ASSUME NEW s \in Tried(image), s \in Tried(image')
             PROVE  image'.records[s].token = image.records[s].token
  OBVIOUS
<1>1. PICK d : d = image' /\ d = Loaded(disk)
  BY DEF Restart
<1>2. Sound(d) /\ Cold(d) = d /\ Sound(image)
  BY <1>1, LoadedIsSound DEF IInv, Stored
<1>3. s \in Tried(d) /\ s \in Sequences /\ d.records[s].state # "queued" /\ d.records[s] # NoRecord
  BY <1>1, <1>2, RecordsOf DEF Sound, Tried, Recorded
<1>4. d.records[s] = Requeued(d.records[s])
  <2>1. Cold(d).records = [u \in Sequences |-> Requeued(d.records[u])]
    BY <1>2, ColdFields DEF Sound
  <2> QED
    BY <1>2, <1>3, <2>1
<1>5. d.records[s].state # "processing"
  <2>1. Requeued(d.records[s]).state = (IF d.records[s].state = "applied" THEN "applied" ELSE "queued")
    BY <1>2, <1>3, RequeuedRecords DEF Sound
  <2> QED
    BY <1>4, <2>1
<1>6. CASE d.records[s] = Requeued(image.records[s])
  <2>1. image.records[s] \in Record /\ image.records[s] # NoRecord
    BY <1>2, RecordsOf, Records DEF Sound, Tried, Recorded
  <2>2. d.records[s] = image.records[s]
    BY <1>3, <1>6, <2>1, MadeRecords, Records DEF Requeued
  <2> QED
    BY <1>1, <2>2
<1>7. CASE d.records[s] # Requeued(image.records[s])
  <2>1. ApplicationUnsaved(s) /\ disk # NoFile
    BY <1>1, <1>3, <1>7 DEF IInv, Stored, RecordsOnDisk, ApplicationUnsaved
  <2>2. d.records[s] = Requeued(disk.records[s])
    BY <1>1, <1>3, <2>1, LoadedIsSound DEF IInv, Stored
  <2>3. disk.records[s] # NoRecord /\ disk.records[s].state = "processing" /\ disk \in Image
    BY <2>1 DEF ApplicationUnsaved, InState, IInv, Stored, Sound
  <2>4. d.records[s].state = "queued"
    BY <1>3, <2>2, <2>3, Images, Records, MadeRecords DEF Requeued
  <2> QED
    BY <1>3, <2>4
<1> QED
  BY <1>6, <1>7

\* A request keeps its attempt until it is queued again, through reloads, failed writes and
\* crashes: a late answer to an attempt that was given up is never taken for another's.
THEOREM AttemptsAlwaysKept == Spec => AttemptsAreKept
<1>1. IInv /\ [Next]_vars
        => [\A s \in Tried(image) \cap Tried(image') :
              image'.records[s].token = image.records[s].token]_vars
  <2> SUFFICES ASSUME IInv, Next
               PROVE  \A s \in Tried(image) \cap Tried(image') :
                        image'.records[s].token = image.records[s].token
    OBVIOUS
  <2>1. ASSUME NEW after, Change(after), image' = after
        PROVE  \A s \in Tried(image) \cap Tried(image') :
                 image'.records[s].token = image.records[s].token
    BY <2>1, ChangesKeepAttempts DEF IInv, Stored
  <2>2. CASE UNCHANGED <<image, dirty, disk>>
    BY <2>2
  <2>3. CASE Restart
    BY <2>3, RestartKeepsAttempts
  <2>4. \/ UNCHANGED <<image, dirty, disk>>
        \/ \E after : Change(after) /\ image' = after
        \/ Restart
    <3>1. \/ UNCHANGED <<image, dirty, disk>>
          \/ \E after : Change(after) /\ Saved(after)
          \/ \E after : Applies(after) /\ RetainMutation(after)
          \/ \E after : Releases(after) /\ RetainMutation(after)
          \/ Restart
      BY Calls DEF IInv
    <3> QED
      BY <3>1 DEF Saved, RetainMutation, Change
  <2> QED
    BY <2>1, <2>2, <2>3, <2>4
<1> QED
  BY <1>1, InvariantHolds, PTL DEF Spec, AttemptsAreKept
-----------------------------------------------------------------------------
(* The handoff.                                                            *)

\* StageOf, of any image.
StageIn(d, s) ==
  IF IsAcknowledged(d.ranges, s) THEN "done"
  ELSE IF s \notin Recorded(d) THEN "unborn"
  ELSE IF d.records[s].state = "applied" THEN "applied" ELSE "waiting"

\* A sound image tells the stages apart by its records and the next sequence.
LEMMA StagesOf ==
  ASSUME NEW d, Sound(d), NEW s \in Sequences
  PROVE  /\ s \in Nat /\ d.nextSequence \in Nat
         /\ ~(s < d.nextSequence) => StageIn(d, s) = "unborn"
         /\ s < d.nextSequence /\ d.records[s] = NoRecord => StageIn(d, s) = "done"
         /\ s < d.nextSequence /\ d.records[s] # NoRecord =>
              StageIn(d, s) = (IF d.records[s].state = "applied" THEN "applied" ELSE "waiting")
         /\ d.records[s] # NoRecord => s < d.nextSequence
<1>1. s \in Nat /\ d.nextSequence \in Nat
  <2>1. d.nextSequence \in 0 .. (MaxSequence - 1)
    BY Images DEF Sound
  <2> QED
    BY <2>1, Limits
<1>2. IsAcknowledged(d.ranges, s) => s < d.nextSequence
  BY <1>1, SoundRanges
<1>3. s \in Recorded(d) <=> d.records[s] # NoRecord
  BY DEF Recorded
<1>4. IF s < d.nextSequence THEN s \in Recorded(d) <=> ~IsAcknowledged(d.ranges, s)
                            ELSE s \notin Recorded(d)
  BY DEF Sound, ValidSnapshot, SequencesShared
<1> QED
  BY <1>1, <1>2, <1>3, <1>4 DEF StageIn

\* Records of the same kind, and the same next sequence: the same stages.
LEMMA SameStages ==
  ASSUME NEW d, Sound(d), NEW e, Sound(e), e.nextSequence = d.nextSequence, NEW s \in Sequences,
         e.records[s] = NoRecord <=> d.records[s] = NoRecord,
         d.records[s] # NoRecord => (e.records[s].state = "applied" <=> d.records[s].state = "applied")
  PROVE  StageIn(e, s) = StageIn(d, s)
<1>1. s \in Nat /\ d.nextSequence \in Nat
  BY StagesOf
<1>2. CASE ~(s < d.nextSequence)
  BY <1>2, StagesOf
<1>3. CASE s < d.nextSequence /\ d.records[s] = NoRecord
  BY <1>3, StagesOf
<1>4. CASE s < d.nextSequence /\ d.records[s] # NoRecord
  BY <1>4, StagesOf
<1> QED
  BY <1>2, <1>3, <1>4

MovesIn(after, n, from, to) ==
  /\ n \in Sequences /\ StageIn(image, n) = from
  /\ \A s \in Sequences : StageIn(after, s) = (IF s = n THEN to ELSE StageIn(image, s))

\* An enqueue gives the first request that is not born a place.
LEMMA EnqueuesMove ==
  ASSUME Sound(image), NEW after, Enqueues(after)
  PROVE  \E n \in Sequences : /\ MovesIn(after, n, "unborn", "waiting")
                              /\ \A q \in Sequences : q < n => StageIn(image, q) # "unborn"
<1>1. PICK w \in Windows, keys \in Identities :
        ~Overlapping(w, keys) /\ image.nextSequence + 1 # MaxSequence /\ after = Enqueued(w, keys)
  BY DEF Enqueues
<1>2. PICK n : n = image.nextSequence
  OBVIOUS
<1>3. /\ Sound(after) /\ n \in Sequences
      /\ after.records = [image.records EXCEPT ![n] = Queued(w)]
  BY <1>1, <1>2, EnqueuedIsSound
<1>4. image \in Image /\ image.records \in [Sequences -> Record \cup {NoRecord}]
  BY Images DEF Sound
<1>5. after.nextSequence = n + 1
  BY <1>1, <1>2, <1>4 DEF Enqueued, Image
<1>6. n \in Nat
  BY <1>3, Limits
<1>7. Queued(w) # NoRecord /\ Queued(w).state = "queued"
  BY MadeRecords, Records
<1>8. \A s \in Sequences : after.records[s] = (IF s = n THEN Queued(w) ELSE image.records[s])
  BY <1>3, <1>4
<1>9. ASSUME NEW s \in Sequences
      PROVE  /\ StageIn(after, s) = (IF s = n THEN "waiting" ELSE StageIn(image, s))
             /\ s < n => StageIn(image, s) # "unborn"
             /\ s = n => StageIn(image, s) = "unborn"
  <2>1. s \in Nat
    BY Limits
  <2>2. CASE s = n
    <3>1. s < after.nextSequence /\ after.records[s] # NoRecord /\ after.records[s].state # "applied"
      BY <1>5, <1>6, <1>7, <1>8, <2>2
    <3>2. StageIn(after, s) = "waiting"
      BY <1>3, <3>1, StagesOf
    <3>3. ~(s < image.nextSequence)
      BY <1>2, <1>6, <2>2
    <3>4. StageIn(image, s) = "unborn"
      BY <3>3, StagesOf
    <3> QED
      BY <1>6, <2>2, <3>2, <3>4
  <2>3. CASE s < n
    <3>1. s < after.nextSequence /\ s < image.nextSequence /\ after.records[s] = image.records[s]
      BY <1>2, <1>5, <1>6, <1>8, <2>1, <2>3
    <3>2. CASE image.records[s] = NoRecord
      <4>1. StageIn(image, s) = "done"
        BY <3>1, <3>2, StagesOf
      <4>2. StageIn(after, s) = "done"
        BY <1>3, <3>1, <3>2, StagesOf
      <4> QED
        BY <1>6, <2>1, <2>3, <4>1, <4>2
    <3>3. CASE image.records[s] # NoRecord
      <4>1. StageIn(image, s) = (IF image.records[s].state = "applied" THEN "applied" ELSE "waiting")
        BY <3>1, <3>3, StagesOf
      <4>2. StageIn(after, s) = (IF image.records[s].state = "applied" THEN "applied" ELSE "waiting")
        BY <1>3, <3>1, <3>3, StagesOf
      <4> QED
        BY <1>6, <2>1, <2>3, <4>1, <4>2
    <3> QED
      BY <3>2, <3>3
  <2>4. CASE ~(s < n) /\ s # n
    <3>1. ~(s < after.nextSequence) /\ ~(s < image.nextSequence)
      BY <1>2, <1>5, <1>6, <2>1, <2>4
    <3> QED
      BY <1>3, <2>4, <3>1, StagesOf
  <2> QED
    BY <2>2, <2>3, <2>4
<1> QED
  BY <1>3, <1>9 DEF MovesIn

\* A claim and a release leave every request where it is on its way, and so does an abandon.
LEMMA ClaimsStay ==
  ASSUME Sound(image), NEW after, Claims(after) \/ Releases(after) \/ Abandons(after)
  PROVE  \A s \in Sequences : StageIn(after, s) = StageIn(image, s)
<1>1. Sound(after)
  BY ChangesAreSound DEF Change
<1> SUFFICES ASSUME NEW s \in Sequences
             PROVE  /\ after.nextSequence = image.nextSequence
                    /\ after.records[s] = NoRecord <=> image.records[s] = NoRecord
                    /\ image.records[s] # NoRecord =>
                         (after.records[s].state = "applied" <=> image.records[s].state = "applied")
  BY <1>1, SameStages
<1>2. CASE Claims(after)
  <2>1. PICK w \in Windows : TokensLeft(w) /\ after = Claimed(w)
    BY <1>2 DEF Claims
  <2>2. /\ after.nextSequence = image.nextSequence
        /\ after.records[s] = (IF s \in Waiting(w) THEN Processing(w, TokenFor(w, s)) ELSE image.records[s])
        /\ s \in Waiting(w) => TokenFor(w, s) \in Attempts
    BY <2>1, ClaimedFields
  <2>3. CASE s \in Waiting(w)
    <3>1. image.records[s] = Queued(w) /\ image.records[s] # NoRecord
      BY <2>3 DEF Waiting, Recorded
    <3>2. image.records[s].state = "queued"
      BY <3>1, MadeRecords
    <3>3. PICK t \in Attempts : after.records[s] = Processing(w, t)
      BY <2>2, <2>3
    <3>4. after.records[s] # NoRecord /\ after.records[s].state = "processing"
      BY <3>3, MadeRecords, Records
    <3> QED
      BY <2>2, <3>1, <3>2, <3>4
  <2>4. CASE s \notin Waiting(w)
    BY <2>2, <2>4
  <2> QED
    BY <2>3, <2>4
<1>3. CASE Releases(after)
  <2>1. PICK w \in Windows : after = Released(w)
    BY <1>3 DEF Releases
  <2>2. /\ after.nextSequence = image.nextSequence
        /\ after.records[s] = (IF s \in Underway(w) THEN Queued(w) ELSE image.records[s])
    BY <2>1, ReleasedIsSound
  <2>3. CASE s \in Underway(w)
    <3>1. image.records[s] # NoRecord /\ image.records[s].state = "processing"
      BY <2>3 DEF Underway, InState, Recorded
    <3>2. Queued(w) # NoRecord /\ Queued(w).state = "queued"
      BY MadeRecords, Records
    <3> QED
      BY <2>2, <2>3, <3>1, <3>2
  <2>4. CASE s \notin Underway(w)
    BY <2>2, <2>4
  <2> QED
    BY <2>3, <2>4
<1>4. CASE Abandons(after)
  <2>1. PICK a \in Attempt : IsAttempt(a, "processing") /\ after = WithRecord(a.sequence, Queued(a.window))
    BY <1>4 DEF Abandons
  <2>2. /\ a.sequence \in Recorded(image) /\ a.window \in Windows
        /\ image.records[a.sequence].window = a.window
        /\ image.records[a.sequence].state = "processing"
    BY <2>1, AttemptsOf
  <2>3. PICK r \in Record : /\ r = Queued(a.window) /\ r.window = a.window /\ r.state = "queued"
                            /\ r # NoRecord
    BY <2>2, MadeRecords, Records
  <2>4. PICK n \in Recorded(image) : n = a.sequence
    BY <2>2
  <2>5. /\ after.nextSequence = image.nextSequence
        /\ after.records = [image.records EXCEPT ![n] = r]
    BY <2>1, <2>2, <2>3, <2>4, WithRecordIsSound
  <2>6. image.records \in [Sequences -> Record \cup {NoRecord}] /\ image.records[n] # NoRecord
    BY Images DEF Sound, Recorded
  <2> QED
    BY <2>2, <2>3, <2>4, <2>5, <2>6
<1> QED
  BY <1>2, <1>3, <1>4

\* An application moves a request that is under way, and nothing else.
LEMMA AppliesMove ==
  ASSUME Sound(image), NEW after, Applies(after)
  PROVE  \E n \in Sequences :
           /\ MovesIn(after, n, "waiting", "applied")
           /\ InState(image, n, "processing") /\ InState(after, n, "applied")
           /\ after.records[n].token = image.records[n].token
           /\ \A s \in Sequences : s # n => after.records[s] = image.records[s]
<1>1. PICK a \in Attempt : IsAttempt(a, "processing") /\ after = WithRecord(a.sequence, Applied(a.window, a.token))
  BY DEF Applies
<1>2. PICK n \in Recorded(image) : n = a.sequence
  BY <1>1, AttemptsOf
<1>3. /\ n \in Sequences /\ a.window \in Windows /\ a.token \in Attempts
      /\ image.records[n].state = "processing" /\ image.records[n] # NoRecord
      /\ image.records[n].window = a.window /\ image.records[n].token = a.token
  BY <1>1, <1>2, AttemptsOf DEF Recorded
<1>4. PICK r \in Record : /\ r = Applied(a.window, a.token) /\ r.window = a.window /\ r.token = a.token
                          /\ r.state = "applied" /\ r # NoRecord
  BY <1>3, MadeRecords, Records
<1>5. /\ Sound(after) /\ after.records = [image.records EXCEPT ![n] = r]
      /\ after.nextSequence = image.nextSequence
  BY <1>1, <1>2, <1>3, <1>4, WithRecordIsSound
<1>6. image.records \in [Sequences -> Record \cup {NoRecord}]
  BY Images DEF Sound
<1>7. \A s \in Sequences : after.records[s] = (IF s = n THEN r ELSE image.records[s])
  BY <1>3, <1>5, <1>6
<1>8. StageIn(image, n) = "waiting"
  BY <1>3, StagesOf
<1>9. StageIn(after, n) = "applied"
  BY <1>3, <1>4, <1>5, <1>7, StagesOf
<1>10. ASSUME NEW s \in Sequences, s # n
       PROVE  StageIn(after, s) = StageIn(image, s)
  BY <1>5, <1>7, <1>10, SameStages
<1>11. MovesIn(after, n, "waiting", "applied")
  BY <1>3, <1>8, <1>9, <1>10 DEF MovesIn
<1> QED
  BY <1>3, <1>4, <1>7, <1>11 DEF InState

\* A completion takes a request that was applied out of the registry.
LEMMA CompletesMove ==
  ASSUME Sound(image), NEW after, Completes(after)
  PROVE  \E n \in Sequences : MovesIn(after, n, "applied", "done")
<1>1. PICK a \in Attempt : IsAttempt(a, "applied") /\ after = Acknowledged(a)
  BY DEF Completes
<1>2. PICK n \in Sequences : n = a.sequence
  BY <1>1, AttemptsOf
<1>3. /\ image.records[n].state = "applied" /\ image.records[n] # NoRecord
  BY <1>1, <1>2 DEF IsAttempt, InState
<1>4. /\ Sound(after) /\ after.nextSequence = image.nextSequence
      /\ after.records = [image.records EXCEPT ![n] = NoRecord]
  BY <1>1, <1>2, AcknowledgedFields, AcknowledgedIsSound
<1>5. image.records \in [Sequences -> Record \cup {NoRecord}]
  BY Images DEF Sound
<1>6. \A s \in Sequences : after.records[s] = (IF s = n THEN NoRecord ELSE image.records[s])
  BY <1>4, <1>5
<1>7. StageIn(image, n) = "applied" /\ n < image.nextSequence
  BY <1>3, StagesOf
<1>8. StageIn(after, n) = "done"
  BY <1>4, <1>6, <1>7, StagesOf
<1>9. ASSUME NEW s \in Sequences, s # n
      PROVE  StageIn(after, s) = StageIn(image, s)
  BY <1>4, <1>6, <1>9, SameStages
<1> QED
  BY <1>7, <1>8, <1>9 DEF MovesIn
\* Where the requests are on their way, and which of them a crash would offer again.
Stages  == [s \in Sequences |-> StageOf(s)]
Unsaved == {s \in Sequences : ApplicationUnsaved(s)}

\* What is saved is not offered again.
LEMMA SavedIsSafe ==
  ASSUME NEW after, Saved(after)
  PROVE  Unsaved' = {}
BY DEF Saved, Unsaved, ApplicationUnsaved, InState

LEMMA StagesAfter ==
  ASSUME NEW after, image' = after
  PROVE  /\ Stages = [s \in Sequences |-> StageIn(image, s)]
         /\ Stages' = [s \in Sequences |-> StageIn(after, s)]
BY DEF Stages, StageOf, StageIn, Recorded

Promised ==
  \/ UNCHANGED <<Stages, Unsaved>>
  \/ \E r \in Sequences : /\ Stages[r] = "unborn" /\ Stages' = [Stages EXCEPT ![r] = "waiting"]
                          /\ \A q \in Sequences : q < r => Stages[q] # "unborn"
                          /\ Unsaved' = {}
  \/ \E r \in Sequences : /\ Stages[r] = "waiting" /\ Stages' = [Stages EXCEPT ![r] = "applied"]
                          /\ Unsaved' \in {{}, Unsaved \cup {r}}
  \/ \E r \in Sequences : /\ Stages[r] = "applied" /\ Stages' = [Stages EXCEPT ![r] = "done"]
                          /\ Unsaved' = {}
  \/ Unsaved' = {} /\ UNCHANGED Stages
  \/ /\ Stages' = [r \in Sequences |-> IF r \in Unsaved THEN "waiting" ELSE Stages[r]]
     /\ Unsaved' = {}

\* A move of one request is one of its stage.
LEMMA MovesStages ==
  ASSUME NEW after, image' = after, NEW n \in Sequences, NEW from, NEW to, MovesIn(after, n, from, to)
  PROVE  Stages[n] = from /\ Stages' = [Stages EXCEPT ![n] = to]
BY StagesAfter DEF MovesIn

LEMMA SavesArePromised ==
  ASSUME Stored, NEW after, Change(after), Saved(after)
  PROVE  Promised
<1>1. image' = after /\ Unsaved' = {} /\ Sound(image)
  BY SavedIsSafe DEF Saved, Stored
<1>2. ASSUME \A s \in Sequences : StageIn(after, s) = StageIn(image, s)
      PROVE  Promised
  <2>1. Stages' = Stages
    BY <1>1, <1>2, StagesAfter
  <2> QED
    BY <1>1, <2>1 DEF Promised
<1>3. CASE after = image
  BY <1>2, <1>3
<1>4. CASE Claims(after) \/ Releases(after) \/ Abandons(after)
  BY <1>1, <1>2, <1>4, ClaimsStay
<1>5. CASE Enqueues(after)
  <2>1. PICK n \in Sequences : /\ MovesIn(after, n, "unborn", "waiting")
                               /\ \A q \in Sequences : q < n => StageIn(image, q) # "unborn"
    BY <1>1, <1>5, EnqueuesMove
  <2>2. Stages[n] = "unborn" /\ Stages' = [Stages EXCEPT ![n] = "waiting"]
    BY <1>1, <2>1, MovesStages
  <2>3. \A q \in Sequences : q < n => Stages[q] # "unborn"
    BY <1>1, <2>1, StagesAfter
  <2> QED
    BY <1>1, <2>2, <2>3 DEF Promised
<1>6. CASE Applies(after)
  <2>1. PICK n \in Sequences : MovesIn(after, n, "waiting", "applied")
    BY <1>1, <1>6, AppliesMove
  <2>2. Stages[n] = "waiting" /\ Stages' = [Stages EXCEPT ![n] = "applied"]
    BY <1>1, <2>1, MovesStages
  <2> QED
    BY <1>1, <2>2 DEF Promised
<1>7. CASE Completes(after)
  <2>1. PICK n \in Sequences : MovesIn(after, n, "applied", "done")
    BY <1>1, <1>7, CompletesMove
  <2>2. Stages[n] = "applied" /\ Stages' = [Stages EXCEPT ![n] = "done"]
    BY <1>1, <2>1, MovesStages
  <2> QED
    BY <1>1, <2>2 DEF Promised
<1> QED
  BY <1>3, <1>4, <1>5, <1>6, <1>7 DEF Change

\* An application that could not be saved is the one thing a crash offers again.
LEMMA RetainedApplicationsArePromised ==
  ASSUME Stored, NEW after, Applies(after), RetainMutation(after)
  PROVE  Promised
<1>1. image' = after /\ disk' = disk /\ Sound(image)
  BY DEF RetainMutation, Stored
<1>2. PICK n \in Sequences :
        /\ MovesIn(after, n, "waiting", "applied")
        /\ InState(image, n, "processing") /\ InState(after, n, "applied")
        /\ after.records[n].token = image.records[n].token
        /\ \A s \in Sequences : s # n => after.records[s] = image.records[s]
  BY <1>1, AppliesMove
<1>3. Stages[n] = "waiting" /\ Stages' = [Stages EXCEPT ![n] = "applied"]
  BY <1>1, <1>2, MovesStages
<1>4. disk # NoFile /\ InState(disk, n, "processing") /\ disk.records[n].token = image.records[n].token
  BY <1>2 DEF Stored, AttemptsAreSaved, InState
<1>5. ASSUME NEW s \in Sequences
      PROVE  ApplicationUnsaved(s)' <=> ApplicationUnsaved(s) \/ s = n
  <2>1. CASE s = n
    BY <1>1, <1>2, <1>4, <2>1 DEF ApplicationUnsaved, InState
  <2>2. CASE s # n
    BY <1>1, <1>2, <2>2 DEF ApplicationUnsaved, InState
  <2> QED
    BY <2>1, <2>2
<1>6. Unsaved' = Unsaved \cup {n}
  BY <1>5 DEF Unsaved
<1> QED
  BY <1>3, <1>6 DEF Promised

\* A release that could not be saved is no step of the handoff.
LEMMA RetainedReleasesArePromised ==
  ASSUME Stored, NEW after, Releases(after), RetainMutation(after)
  PROVE  Promised
<1>1. image' = after /\ disk' = disk /\ Sound(image)
  BY DEF RetainMutation, Stored
<1>2. Stages' = Stages
  BY <1>1, ClaimsStay, StagesAfter
<1>3. ASSUME NEW s \in Sequences
      PROVE  ApplicationUnsaved(s)' <=> ApplicationUnsaved(s)
  <2>1. PICK w \in Windows : after = Released(w)
    BY DEF Releases
  <2>2. after.records[s] = (IF s \in Underway(w) THEN Queued(w) ELSE image.records[s])
    BY <1>1, <2>1, ReleasedIsSound
  <2>3. CASE s \in Underway(w)
    <3>1. image.records[s].state = "processing"
      BY <2>3 DEF Underway, InState
    <3>2. after.records[s].state = "queued"
      BY <2>2, <2>3, MadeRecords
    <3> QED
      BY <1>1, <3>1, <3>2 DEF ApplicationUnsaved, InState
  <2>4. CASE s \notin Underway(w)
    BY <1>1, <2>2, <2>4 DEF ApplicationUnsaved, InState
  <2> QED
    BY <2>3, <2>4
<1>4. Unsaved' = Unsaved
  BY <1>3 DEF Unsaved
<1> QED
  BY <1>2, <1>4 DEF Promised

\* A restart offers again exactly the applications that were not saved.
LEMMA RestartIsPromised ==
  ASSUME Stored, Restart
  PROVE  Promised
<1>1. PICK d : d = image' /\ d = Loaded(disk)
  BY DEF Restart
<1>2. /\ disk' = disk /\ Sound(d) /\ Sound(image) /\ d \in Image
      /\ d.nextSequence = image.nextSequence
      /\ disk # NoFile => Sound(disk) /\ d.records = [s \in Sequences |-> Requeued(disk.records[s])]
  BY <1>1, LoadedIsSound DEF Restart, Stored, FieldsOnDisk, Sound
<1>3. ASSUME NEW s \in Sequences, disk # NoFile, InState(disk, s, "processing")
      PROVE  d.records[s] # NoRecord /\ d.records[s].state = "queued"
  <2>1. d.records[s] = Requeued(disk.records[s]) /\ disk \in Image
    BY <1>2, <1>3 DEF Sound
  <2>2. disk.records[s] # NoRecord /\ disk.records[s].state = "processing"
    BY <1>3 DEF InState
  <2>3. Requeued(disk.records[s]) # NoRecord /\ Requeued(disk.records[s]).state = "queued"
    BY <2>1, <2>2, RequeuedRecords
  <2> QED
    BY <2>1, <2>3
<1>4. Unsaved' = {}
  BY <1>1, <1>2, <1>3 DEF Unsaved, ApplicationUnsaved, InState
<1>5. ASSUME NEW s \in Sequences
      PROVE  StageIn(d, s) = (IF ApplicationUnsaved(s) THEN "waiting" ELSE StageIn(image, s))
  <2>1. CASE ApplicationUnsaved(s)
    <3>1. d.records[s] # NoRecord /\ d.records[s].state = "queued"
      BY <1>3, <2>1 DEF ApplicationUnsaved
    <3>2. StageIn(d, s) = "waiting"
      BY <1>2, <3>1, StagesOf
    <3> QED
      BY <2>1, <3>2
  <2>2. CASE ~ApplicationUnsaved(s)
    <3>1. d.records[s] = Requeued(image.records[s])
      BY <1>1, <2>2 DEF Stored, RecordsOnDisk
    <3>2. image \in Image
      BY <1>2 DEF Sound
    <3>3. d.records[s] = NoRecord <=> image.records[s] = NoRecord
      BY <3>1, <3>2, RequeuedRecords
    <3>4. image.records[s] # NoRecord =>
            (d.records[s].state = "applied" <=> image.records[s].state = "applied")
      BY <3>1, <3>2, RequeuedRecords
    <3>5. StageIn(d, s) = StageIn(image, s)
      BY <1>2, <3>3, <3>4, SameStages
    <3> QED
      BY <2>2, <3>5
  <2> QED
    BY <2>1, <2>2
<1>6. Stages' = [r \in Sequences |-> IF r \in Unsaved THEN "waiting" ELSE Stages[r]]
  BY <1>1, <1>5, StagesAfter DEF Unsaved
<1> QED
  BY <1>4, <1>6 DEF Promised

LEMMA UnchangedIsPromised ==
  ASSUME UNCHANGED <<image, dirty, disk>>
  PROVE  UNCHANGED <<Stages, Unsaved>>
BY DEF Stages, Unsaved, StageOf, ApplicationUnsaved, InState, Recorded

LEMMA NextIsPromised ==
  ASSUME IInv, [Next]_vars
  PROVE  Promised
<1>1. Typed /\ Stored
  BY DEF IInv
<1>2. CASE UNCHANGED <<image, dirty, disk>>
  BY <1>2, UnchangedIsPromised DEF Promised
<1>3. CASE Next
  BY <1>1, <1>2, <1>3, Calls, SavesArePromised, RetainedApplicationsArePromised,
     RetainedReleasesArePromised, RestartIsPromised
<1>4. CASE UNCHANGED vars
  BY <1>2, <1>4 DEF vars
<1> QED
  BY <1>3, <1>4

LEMMA InitIsPromised == Init => Handoff!Init
<1> SUFFICES ASSUME Init PROVE Handoff!Init
  OBVIOUS
<1>1. image = Empty /\ disk = NoFile
  BY DEF Init
<1>2. Sound(image) /\ image.nextSequence = 0
  BY <1>1, EmptyIsSound DEF Empty
<1>3. \A s \in Sequences : StageIn(image, s) = "unborn"
  BY <1>2, StagesOf
<1>4. \A s \in Sequences : StageOf(s) = "unborn"
  BY <1>3 DEF StageIn, StageOf
<1>5. \A s \in Sequences : ~ApplicationUnsaved(s)
  BY <1>1 DEF ApplicationUnsaved
<1> QED
  BY <1>4, <1>5 DEF Handoff!Init

\* The service is the handoff it promises, through failed writes and crashes: a request goes
\* from accepted to applied to done in that order and in its own place, and the one thing a
\* crash can take back is an application that could not be saved.
THEOREM HandoffImplemented == Spec => ImplementsHandoff
<1>1. Init => Handoff!Init
  BY InitIsPromised
<1>2. IInv /\ [Next]_vars => [Handoff!Next]_(Handoff!vars)
  <2> SUFFICES ASSUME Promised PROVE [Handoff!Next]_(Handoff!vars)
    BY NextIsPromised
  <2> QED
    BY DEF Promised, Stages, Unsaved, Handoff!Next, Handoff!vars, Handoff!Accept, Handoff!Apply,
       Handoff!Finish, Handoff!Save, Handoff!Crash, Handoff!Moves
<1> QED
  BY <1>1, <1>2, InvariantHolds, PTL DEF Spec, ImplementsHandoff, Handoff!Spec
=============================================================================
