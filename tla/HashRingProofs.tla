--------------------------- MODULE HashRingProofs ---------------------------
(***************************************************************************)
(* Proofs about the hashing ring and the selector of an aggregate that     *)
(* keeps one, for a ring of any size and any set of children.  What a diff *)
(* amounts to is proved for fractions that are whole chunks                *)
(* (kFracsPerChunk = 1).                                                   *)
(***************************************************************************)
EXTENDS HashingDowngradeSelector, FiniteSetTheorems, TLAPS

-----------------------------------------------------------------------------
(* The ring: what its operators compute.                                   *)

\* The id space has at least two ids.
LEMMA IdSpaceType == IdSpaceSize \in Nat /\ IdSpaceSize > 1
BY RingAssumption DEF IdSpaceSize

\* The two halves of the 128-bit sums that the ring computes: the low half is
\* the id reached, the high half tells whether the sum left the id space.
LEMMA Halves ==
    ASSUME NEW x \in Int, -1 <= x, x < 2 * IdSpaceSize
    PROVE  /\ Uint128Low64(x) = IF x = -1 THEN MaxId
                                ELSE IF x < IdSpaceSize THEN x
                                ELSE x - IdSpaceSize
           /\ Uint128High64(x) = 0 <=> (0 <= x /\ x < IdSpaceSize)
<1> DEFINE n == IdSpaceSize
<1>n. n \in Nat /\ n > 1 /\ x < 2 * n
  BY IdSpaceType
<1> HIDE DEF n
<1>1. x % n = IF x < 0 THEN x + n ELSE IF x < n THEN x ELSE x - n
  BY <1>n
<1>2. n * n \in Nat /\ n * n >= 2 * n
  BY <1>n
<1>3. x % (n * n) = IF x < 0 THEN x + n * n ELSE x
  <2> DEFINE m == n * n
  <2>1. m \in Nat \ {0} /\ -m <= x /\ x < m
    BY <1>n, <1>2
  <2> HIDE DEF m
  <2>2. x % m = IF x < 0 THEN x + m ELSE x
    BY <2>1
  <2> QED
    BY <2>2 DEF m
<1>4. CASE x >= 0
  <2>1. x \div n = IF x < n THEN 0 ELSE 1
    BY <1>4, <1>n
  <2> QED
    BY <2>1, <1>1, <1>3, <1>4, <1>n DEF Uint128Low64, Uint128High64, MaxId, n
<1>5. CASE x = -1
  <2>1. (n * n - 1) \div n = n - 1
    BY <1>n, <1>2
  <2> QED
    BY <2>1, <1>1, <1>3, <1>5, <1>n DEF Uint128Low64, Uint128High64, MaxId, n
<1> QED
  BY <1>4, <1>5

\* With whole-chunk fractions a fraction covers exactly its share of the ids.
LEMMA WholeChunks ==
    ASSUME kFracsPerChunk = 1, NEW f \in Fracs
    PROVE  /\ FracToRing(f) = f * kChunkSize
           /\ FracToRing(f) \in 0 .. IdSpaceSize
           /\ FracToRing(f) = 0 <=> f = 0
<1>1. f \in Nat /\ f <= kNumChunks
  BY RingAssumption DEF Fracs, One
<1>2. (2 * f + 1) \div (2 * 1) = f
  BY <1>1
<1>3. FracToRing(f) = f * kChunkSize
  BY <1>2 DEF FracToRing
<1>4. f * kChunkSize \in Nat /\ f * kChunkSize <= kNumChunks * kChunkSize
  BY <1>1, RingAssumption
<1>5. f * kChunkSize = 0 <=> f = 0
  BY <1>1, RingAssumption
<1> QED
  BY <1>3, <1>4, <1>5, RingAssumption DEF IdSpaceSize

\* FracToRing is additive, hence strictly increasing, on whole chunks.
LEMMA Additive ==
    ASSUME kFracsPerChunk = 1, NEW f \in Fracs, NEW g \in Fracs, g < f
    PROVE  /\ f - g \in Fracs
           /\ FracToRing(f - g) = FracToRing(f) - FracToRing(g)
           /\ FracToRing(f - g) > 0
<1>1. f \in Nat /\ g \in Nat /\ f - g \in Fracs /\ f - g # 0
  BY RingAssumption DEF Fracs, One
<1>2. FracToRing(f - g) \in 0 .. IdSpaceSize /\ FracToRing(f - g) # 0
  BY <1>1, WholeChunks
<1>3. (f - g) * kChunkSize = f * kChunkSize - g * kChunkSize
  BY <1>1, RingAssumption
<1> QED
  BY <1>1, <1>2, <1>3, WholeChunks, IdSpaceType

Rings == [start : Ids, frac : Fracs]

\* A ring stays in the id space, whatever the fractions.
LEMMA UpdateFracType ==
    ASSUME NEW r \in Rings, NEW frac \in Int
    PROVE  UpdateFrac(r, frac).ring \in Rings
<1> DEFINE x == r.start + Uint128Low64(FracToRing(r.frac - Clamp(frac)))
<1>1. r.start \in Ids /\ r.frac \in Int /\ Clamp(frac) \in Fracs
  BY RingAssumption DEF Rings, Fracs, One, Clamp
<1>2. FracToRing(r.frac - Clamp(frac)) \in Int
  <2>1. r.frac - Clamp(frac) \in Int
    BY <1>1 DEF Fracs, One
  <2> HIDE DEF x
  <2> QED
    BY <2>1, RingAssumption DEF FracToRing
<1>3. x \in Int
  BY <1>1, <1>2, IdSpaceType DEF Ids, MaxId, Uint128Low64
<1> HIDE DEF x
<1>4. Uint128Low64(x) \in Ids
  BY <1>3, IdSpaceType DEF Ids, MaxId, Uint128Low64
<1> QED
  BY <1>1, <1>4 DEF UpdateFrac, Moved, Rings, x

\* MatchingRanges is the arc of FracToRing(frac) ids that begins at start.
LEMMA Arc ==
    ASSUME kFracsPerChunk = 1, NEW r \in Rings, NEW i \in Ids
    PROVE  i \in MatchingRanges(r) <=>
               \/ r.start <= i /\ i < r.start + FracToRing(r.frac)
               \/ i < r.start + FracToRing(r.frac) - IdSpaceSize
<1> DEFINE s == r.start
           n == IdSpaceSize
           len == FracToRing(r.frac)
           e == End(r)
<1>1. n \in Nat /\ n > 1 /\ s \in 0 .. n - 1 /\ i \in 0 .. n - 1 /\ r.frac \in Fracs
  BY IdSpaceType DEF Rings, Ids, MaxId
<1>2. len \in 0 .. n /\ (len = 0 <=> r.frac = 0)
  BY <1>1, WholeChunks
<1>3. e = s + len - 1 /\ e \in Int /\ -1 <= e /\ e < 2 * n
  BY <1>1, <1>2 DEF End
<1>4. /\ Uint128Low64(e) = IF e = -1 THEN MaxId ELSE IF e < n THEN e ELSE e - n
      /\ Uint128High64(e) = 0 <=> (0 <= e /\ e < n)
  BY <1>3, Halves
<1>5. i \in MatchingRanges(r) <=>
        /\ r.frac # 0
        /\ IF Uint128High64(e) # 0 THEN i <= Uint128Low64(e) \/ s <= i
                                   ELSE s <= i /\ i <= Uint128Low64(e)
  BY <1>1 DEF MatchingRanges, IdRange, Ids, MaxId
<1> HIDE DEF s, n, len, e
<1>6. i \in MatchingRanges(r) <=> \/ s <= i /\ i < s + len
                                 \/ i < s + len - n
  BY <1>1, <1>2, <1>3, <1>4, <1>5
<1> QED
  BY <1>6 DEF s, n, len

\* Growing: the range added is what the longer arc has and the shorter lacks.
LEMMA Grow ==
    ASSUME kFracsPerChunk = 1, NEW r \in Rings, NEW f \in Fracs, r.frac < f,
           NEW i \in Ids
    PROVE  i \in AddedRange(r, [start |-> r.start, frac |-> f]) <=>
               /\ i \in MatchingRanges([start |-> r.start, frac |-> f])
               /\ i \notin MatchingRanges(r)
<1> DEFINE q == [start |-> r.start, frac |-> f]
           s == r.start
           n == IdSpaceSize
           old == FracToRing(r.frac)
           new == FracToRing(f)
           from == s + old
           e == s + new - 1
<1>1. n \in Nat /\ n > 1 /\ s \in 0 .. n - 1 /\ i \in 0 .. n - 1 /\ r.frac \in Fracs
      /\ q \in Rings
  BY IdSpaceType DEF Rings, Ids, MaxId
<1>2. old \in 0 .. n /\ new \in 0 .. n /\ old < new
  BY <1>1, WholeChunks, Additive
<1>3. End(r) + 1 = from /\ End(q) = e
  BY <1>1, <1>2 DEF End
<1>4. /\ Uint128Low64(from) = IF from < n THEN from ELSE from - n
      /\ Uint128High64(from) = 0 <=> from < n
      /\ Uint128Low64(e) = IF e < n THEN e ELSE e - n
      /\ Uint128High64(e) = 0 <=> e < n
  <2>1. from \in Int /\ 0 <= from /\ from < 2 * n /\ e \in Int /\ 0 <= e /\ e < 2 * n
    BY <1>1, <1>2
  <2> HIDE DEF from, e
  <2> QED
    BY <2>1, Halves
<1>5. i \in AddedRange(r, q) <=>
        IF Uint128High64(e) # 0 /\ Uint128High64(from) = 0
        THEN i <= Uint128Low64(e) \/ Uint128Low64(from) <= i
        ELSE Uint128Low64(from) <= i /\ i <= Uint128Low64(e)
  <2> HIDE DEF from, e
  <2> QED
    BY <1>1, <1>3 DEF AddedRange, IdRange, Ids, MaxId
<1>6. i \in MatchingRanges(r) <=> \/ s <= i /\ i < s + old
                                 \/ i < s + old - n
  BY <1>1, Arc
<1>7. i \in MatchingRanges(q) <=> \/ s <= i /\ i < s + new
                                 \/ i < s + new - n
  BY <1>1, Arc
<1>8. i \in AddedRange(r, q) <=> i \in MatchingRanges(q) /\ i \notin MatchingRanges(r)
  <2> HIDE DEF s, n, old, new, q
  <2> QED
    BY <1>1, <1>2, <1>4, <1>5, <1>6, <1>7
<1> QED
  BY <1>8

\* Shrinking: the start moves forward, and the range deleted is what the
\* longer arc has and the shorter, which ends where it ended, lacks.
LEMMA Shrink ==
    ASSUME kFracsPerChunk = 1, NEW r \in Rings, NEW f \in Fracs, f < r.frac
    PROVE  /\ Moved(r, f) \in Rings
           /\ \A i \in Ids : i \in DeletedRange(r, Moved(r, f)) <=>
                    /\ i \in MatchingRanges(r)
                    /\ i \notin MatchingRanges(Moved(r, f))
           /\ MatchingRanges(Moved(r, f)) \subseteq MatchingRanges(r)
<1> DEFINE q == Moved(r, f)
           s == r.start
           n == IdSpaceSize
           old == FracToRing(r.frac)
           new == FracToRing(f)
           move == old - new
           t == q.start
<1>1. n \in Nat /\ n > 1 /\ s \in 0 .. n - 1 /\ r.frac \in Fracs /\ q.frac = f
  BY IdSpaceType DEF Rings, Ids, MaxId, Moved
<1>2. /\ old \in 0 .. n /\ new \in 0 .. n /\ move > 0
      /\ FracToRing(r.frac - f) = move
  BY <1>1, WholeChunks, Additive
<1>3. t = Uint128Low64(s + Uint128Low64(move))
  BY <1>1, <1>2 DEF Moved
<1>4. Uint128Low64(move) = IF move < n THEN move ELSE 0
  BY <1>1, <1>2, Halves
<1>5. t = IF s + move < n THEN s + move ELSE s + move - n
  <2>1. CASE move < n
    BY <2>1, <1>1, <1>2, <1>3, <1>4, Halves
  <2>2. CASE move = n
    BY <2>2, <1>1, <1>2, <1>3, <1>4, Halves
  <2> QED
    BY <2>1, <2>2, <1>1, <1>2
<1>6. q \in Rings /\ t \in 0 .. n - 1
  <2>1. t \in 0 .. n - 1
    BY <1>5, <1>1, <1>2
  <2> QED
    BY <2>1 DEF Rings, Ids, MaxId, Moved
<1>7. ASSUME NEW i \in Ids
      PROVE  /\ i \in DeletedRange(r, q) <=>
                i \in MatchingRanges(r) /\ i \notin MatchingRanges(q)
             /\ i \in MatchingRanges(q) => i \in MatchingRanges(r)
  <2>1. i \in 0 .. n - 1
    BY DEF Ids, MaxId
  <2>2. i \in DeletedRange(r, q) <=>
            IF s < t THEN s <= i /\ i <= t - 1
            ELSE IF t = 0 THEN s <= i
            ELSE i <= t - 1 \/ s <= i
    BY <2>1, <1>1, <1>6 DEF DeletedRange, IdRange, Ids, MaxId
  <2>3. i \in MatchingRanges(r) <=> \/ s <= i /\ i < s + old
                                   \/ i < s + old - n
    BY Arc
  <2>4. i \in MatchingRanges(q) <=> \/ t <= i /\ i < t + new
                                   \/ i < t + new - n
    BY <1>1, <1>6, Arc
  <2> HIDE DEF s, t, n, old, new, q
  <2> QED
    BY <1>1, <1>2, <1>5, <1>6, <2>1, <2>2, <2>3, <2>4
<1>8. MatchingRanges(q) \subseteq Ids
  BY DEF MatchingRanges, IdRange
<1> QED
  BY <1>6, <1>7, <1>8

\* UpdateFrac keeps a ring a ring, and its diff holds exactly the ids whose
\* marking changed, with the type that says which way.
LEMMA UpdateFracExact ==
    ASSUME kFracsPerChunk = 1, NEW r \in Rings, NEW f \in Int
    PROVE  LET u == UpdateFrac(r, f)
               old == MatchingRanges(r)
               new == MatchingRanges(u.ring)
           IN  /\ u.ring \in Rings
               /\ \/ u.diff.type = "kAdd" /\ old \subseteq new /\ u.diff.ids = new \ old
                  \/ u.diff.type = "kDel" /\ new \subseteq old /\ u.diff.ids = old \ new
<1> DEFINE g == Clamp(f)
           q == Moved(r, g)
           d == ComputeRangeDiff(r, q)
           old == MatchingRanges(r)
           new == MatchingRanges(q)
<1>1. g \in Fracs /\ r.frac \in Fracs /\ g \in Int /\ r.frac \in Int
  BY RingAssumption DEF Clamp, Fracs, One, Rings
<1>2. UpdateFrac(r, f).ring = q /\ UpdateFrac(r, f).diff = d
  BY DEF UpdateFrac
<1>3. old \subseteq Ids /\ new \subseteq Ids
  BY DEF MatchingRanges, IdRange
<1> HIDE DEF g
<1>4. CASE r.frac = g
  <2>0. ~(r.frac > g) /\ r = [start |-> r.start, frac |-> r.frac]
    BY <1>1, <1>4 DEF Rings
  <2>1. q = r
    BY <1>4, <2>0 DEF Moved
  <2>2. d.type = "kAdd" /\ d.ids = {}
    BY <2>1 DEF ComputeRangeDiff, Diff
  <2> QED
    BY <1>2, <2>1, <2>2
<1>5. CASE r.frac < g
  <2>0. ~(r.frac > g) /\ r.frac # g
    BY <1>1, <1>5
  <2>1. q = [start |-> r.start, frac |-> g] /\ q \in Rings /\ q.frac = g
    BY <1>1, <2>0 DEF Moved, Rings
  <2>2. d.type = "kAdd" /\ d.ids = AddedRange(r, q) /\ d.ids \subseteq Ids
    BY <1>5, <2>0, <2>1 DEF ComputeRangeDiff, Diff, AddedRange, IdRange
  <2>3. \A i \in Ids : i \in d.ids <=> i \in new /\ i \notin old
    BY <1>1, <1>5, <2>1, <2>2, Grow
  <2>4. old \subseteq new
    <3>1. FracToRing(r.frac) \in Int /\ FracToRing(g) \in Int
          /\ FracToRing(r.frac) < FracToRing(g) /\ r.start \in Int
          /\ IdSpaceSize \in Int
      <4>1. FracToRing(g - r.frac) = FracToRing(g) - FracToRing(r.frac)
            /\ FracToRing(g - r.frac) > 0
        BY <1>1, <1>5, Additive
      <4>2. FracToRing(g) \in 0 .. IdSpaceSize /\ FracToRing(r.frac) \in 0 .. IdSpaceSize
        BY <1>1, WholeChunks
      <4> QED
        BY <4>1, <4>2, IdSpaceType DEF Rings, Ids, MaxId
    <3>2. ASSUME NEW i \in Ids, i \in old  PROVE i \in new
      <4>1. i \in Int
        BY IdSpaceType DEF Ids, MaxId
      <4>2. \/ r.start <= i /\ i < r.start + FracToRing(r.frac)
            \/ i < r.start + FracToRing(r.frac) - IdSpaceSize
        BY <3>2, Arc
      <4>3. \/ q.start <= i /\ i < q.start + FracToRing(q.frac)
            \/ i < q.start + FracToRing(q.frac) - IdSpaceSize
        BY <4>1, <4>2, <3>1, <2>1
      <4> QED
        BY <4>3, <2>1, Arc
    <3> QED
      BY <3>2, <1>3
  <2> QED
    BY <1>2, <1>3, <2>1, <2>2, <2>3, <2>4
<1>6. CASE g < r.frac
  <2>1. q \in Rings /\ q.frac = g
    BY <1>1, <1>6, Shrink DEF Moved
  <2>0. ~(r.frac < q.frac) /\ r.frac # q.frac
    BY <1>1, <1>6, <2>1
  <2>2. d.type = "kDel" /\ d.ids = DeletedRange(r, q) /\ d.ids \subseteq Ids
    BY <2>0 DEF ComputeRangeDiff, Diff, DeletedRange, IdRange
  <2>3. \A i \in Ids : i \in d.ids <=> i \in old /\ i \notin new
    BY <1>1, <1>6, <2>2, Shrink
  <2>4. new \subseteq old
    BY <1>1, <1>6, Shrink
  <2> QED
    BY <1>2, <1>3, <2>1, <2>2, <2>3, <2>4
<1> QED
  BY <1>1, <1>4, <1>5, <1>6

\* The marked ids are an arc of FracToRing(frac) ids.
LEMMA ArcSize ==
    ASSUME kFracsPerChunk = 1, NEW r \in Rings
    PROVE  Cardinality(MatchingRanges(r)) = FracToRing(r.frac)
<1> DEFINE s == r.start
           n == IdSpaceSize
           len == FracToRing(r.frac)
           m == MatchingRanges(r)
<1>1. n \in Nat /\ n > 1 /\ s \in 0 .. n - 1 /\ r.frac \in Fracs
  BY IdSpaceType DEF Rings, Ids, MaxId
<1>2. len \in 0 .. n
  BY <1>1, WholeChunks
<1>3. /\ m \subseteq 0 .. n - 1
      /\ \A i \in 0 .. n - 1 : i \in m <=> \/ s <= i /\ i < s + len
                                          \/ i < s + len - n
  <2>1. Ids = 0 .. n - 1
    BY <1>1 DEF Ids, MaxId
  <2>2. m \subseteq Ids
    BY DEF MatchingRanges, IdRange
  <2> QED
    BY <2>1, <2>2, Arc
<1> HIDE DEF s, n, len, m
<1>4. CASE s + len <= n
  <2>1. m = s .. (s + len - 1)
    <3>1. ASSUME NEW i \in m PROVE i \in s .. (s + len - 1)
      <4>1. i \in 0 .. n - 1
        BY <1>3
      <4> QED
        BY <4>1, <1>1, <1>2, <1>3, <1>4
    <3>2. ASSUME NEW i \in s .. (s + len - 1) PROVE i \in m
      <4>1. i \in 0 .. n - 1
        BY <1>1, <1>2, <1>4
      <4> QED
        BY <4>1, <1>1, <1>2, <1>3, <1>4
    <3> QED
      BY <3>1, <3>2
  <2>2. Cardinality(m) = len
    BY <1>1, <1>2, <2>1, FS_Interval
  <2> QED
    BY <2>2 DEF m, len
<1>5. CASE s + len > n
  <2> DEFINE up == s .. (n - 1)
             low == 0 .. (s + len - n - 1)
  <2>1. m = up \cup low
    <3>1. ASSUME NEW i \in m PROVE i \in up \cup low
      <4>1. i \in 0 .. n - 1
        BY <1>3
      <4> QED
        BY <4>1, <1>1, <1>2, <1>3, <1>5
    <3>2. ASSUME NEW i \in up \cup low PROVE i \in m
      <4>1. i \in 0 .. n - 1
        BY <1>1, <1>2, <1>5
      <4> QED
        BY <4>1, <1>1, <1>2, <1>3, <1>5
    <3> QED
      BY <3>1, <3>2
  <2>2. up \cap low = {}
    BY <1>1, <1>2, <1>5
  <2>3. IsFiniteSet(up) /\ Cardinality(up) = n - s
    BY <1>1, <1>2, <1>5, FS_Interval
  <2>4. IsFiniteSet(low) /\ Cardinality(low) = s + len - n
    BY <1>1, <1>2, <1>5, FS_Interval
  <2> HIDE DEF up, low
  <2>5. Cardinality(m) = Cardinality(up) + Cardinality(low) - Cardinality({})
    BY <2>1, <2>2, <2>3, <2>4, FS_Union
  <2> QED
    BY <2>3, <2>4, <2>5, FS_EmptySet, <1>1, <1>2 DEF m, len
<1> QED
  BY <1>1, <1>2, <1>4, <1>5

\* The id that is downgraded next: the first behind the arc.
Turn(ring) == IF ring.start + FracToRing(ring.frac) < IdSpaceSize
              THEN ring.start + FracToRing(ring.frac)
              ELSE ring.start + FracToRing(ring.frac) - IdSpaceSize

LEMMA TurnType ==
    ASSUME kFracsPerChunk = 1, NEW r \in Rings
    PROVE  Turn(r) \in 0 .. MaxId
<1>1. /\ r.start \in 0 .. IdSpaceSize - 1 /\ FracToRing(r.frac) \in 0 .. IdSpaceSize
      /\ IdSpaceSize \in Nat
  BY IdSpaceType, WholeChunks DEF Rings, Ids, MaxId
<1> QED
  BY <1>1 DEF Turn, MaxId

\* The ids that an arc growing from r to q takes in, on top of those before the
\* turn of r: those before the turn of q, and everyone once more if the round
\* is closed.
LEMMA TurnsTaken ==
    ASSUME kFracsPerChunk = 1, NEW r \in Rings, NEW q \in Rings, q.start = r.start,
           FracToRing(r.frac) <= FracToRing(q.frac), NEW i \in Ids
    PROVE  (IF i < Turn(r) THEN 1 ELSE 0)
               + (IF i \in MatchingRanges(q) \ MatchingRanges(r) THEN 1 ELSE 0)
             = (IF Turn(r) = r.start + FracToRing(r.frac)
                     /\ Turn(q) # q.start + FracToRing(q.frac) THEN 1 ELSE 0)
               + (IF i < Turn(q) THEN 1 ELSE 0)
<1> DEFINE n == IdSpaceSize
           s == r.start
           old == FracToRing(r.frac)
           new == FracToRing(q.frac)
           a == i \in MatchingRanges(r)
           b == i \in MatchingRanges(q)
           t == Turn(r)
           w == Turn(q)
<1>1. /\ n \in Nat /\ n > 1 /\ i \in 0 .. n - 1 /\ s \in 0 .. n - 1
      /\ old \in 0 .. n /\ new \in 0 .. n /\ old <= new
  BY IdSpaceType, WholeChunks DEF Rings, Ids, MaxId
<1>2. t = IF s + old < n THEN s + old ELSE s + old - n
  BY DEF Turn
<1>3. w = IF s + new < n THEN s + new ELSE s + new - n
  BY DEF Turn
<1>4. a <=> (s <= i /\ i < s + old) \/ i < s + old - n
  BY Arc
<1>5. b <=> (s <= i /\ i < s + new) \/ i < s + new - n
  BY Arc
<1>6. i \in MatchingRanges(q) \ MatchingRanges(r) <=> b /\ ~a
  OBVIOUS
<1> HIDE DEF n, s, old, new, a, b, t, w
<1>7. (IF i < t THEN 1 ELSE 0) + (IF b /\ ~a THEN 1 ELSE 0)
        = (IF t = s + old /\ w # s + new THEN 1 ELSE 0) + (IF i < w THEN 1 ELSE 0)
  BY <1>1, <1>2, <1>3, <1>4, <1>5
<1> QED
  BY <1>6, <1>7 DEF s, old, new, t, w

\* Growing leaves the start of the arc, shrinking leaves its end.
LEMMA TurnKept ==
    ASSUME kFracsPerChunk = 1, NEW r \in Rings, NEW f \in Int
    PROVE  LET u == UpdateFrac(r, f)
           IN  \/ /\ u.diff.type = "kAdd" /\ u.ring.start = r.start
                  /\ FracToRing(r.frac) <= FracToRing(u.ring.frac)
               \/ u.diff.type = "kDel" /\ Turn(u.ring) = Turn(r)
<1> DEFINE g == Clamp(f)
           q == Moved(r, g)
           d == ComputeRangeDiff(r, q)
           s == r.start
           n == IdSpaceSize
           old == FracToRing(r.frac)
           new == FracToRing(g)
<1>1. /\ g \in Fracs /\ r.frac \in Fracs /\ g \in Int /\ r.frac \in Int
      /\ s \in 0 .. n - 1 /\ n \in Nat /\ n > 1
  BY RingAssumption, IdSpaceType DEF Clamp, Fracs, One, Rings, Ids, MaxId
<1>2. UpdateFrac(r, f).ring = q /\ UpdateFrac(r, f).diff = d /\ q.frac = g
  BY DEF UpdateFrac, Moved
<1>3. old \in 0 .. n /\ new \in 0 .. n
  BY <1>1, WholeChunks
<1> HIDE DEF g
<1>4. CASE r.frac <= g
  <2>1. ~(r.frac > g) /\ (r.frac = g \/ r.frac < g)
    BY <1>1, <1>4
  <2>2. q.start = s /\ d.type = "kAdd"
    BY <2>1, <1>2 DEF Moved, ComputeRangeDiff, Diff
  <2>3. old <= new
    BY <2>1, <1>1, <1>3, Additive
  <2> QED
    BY <1>2, <2>2, <2>3
<1>5. CASE g < r.frac
  <2> DEFINE move == old - new
  <2>1. FracToRing(r.frac - g) = move /\ move \in 1 .. n
    BY <1>1, <1>3, <1>5, Additive
  <2>2. q.start = Uint128Low64(s + Uint128Low64(move))
    BY <1>5, <2>1 DEF Moved
  <2>3. Uint128Low64(move) = IF move < n THEN move ELSE 0
    BY <1>1, <2>1, Halves
  <2>4. q.start = IF s + move < n THEN s + move ELSE s + move - n
    <3>1. CASE move < n
      BY <3>1, <1>1, <2>1, <2>2, <2>3, Halves
    <3>2. CASE move = n
      BY <3>2, <1>1, <2>1, <2>2, <2>3, Halves
    <3> QED
      BY <3>1, <3>2, <2>1, <1>1
  <2>5. ~(r.frac < g) /\ r.frac # g
    BY <1>1, <1>5
  <2>6. d.type = "kDel"
    BY <2>5, <1>2 DEF ComputeRangeDiff, Diff
  <2>7. Turn(q) = Turn(r)
    <3> DEFINE t == q.start
    <3> HIDE DEF q
    <3>1. Turn(q) = IF t + new < n THEN t + new ELSE t + new - n
      BY <1>2 DEF Turn
    <3>2. Turn(r) = IF s + old < n THEN s + old ELSE s + old - n
      BY DEF Turn
    <3>3. t = IF s + move < n THEN s + move ELSE s + move - n
      BY <2>4, Zenon
    <3> HIDE DEF t, s, old, new, n
    <3> QED
      BY <3>1, <3>2, <3>3, <1>1, <1>3, <2>1
  <2> QED
    BY <1>2, <2>6, <2>7
<1> QED
  BY <1>1, <1>4, <1>5

-----------------------------------------------------------------------------
(* The selector of one aggregate.                                          *)

\* Who had a turn more than the others: the ids before the one that is next,
\* since every round of downgrades starts at id 0.
TurnsInv == /\ downs \in [Ids -> Int]
            /\ \A i \in Ids : downs[i] = IF i < Turn(lopri) THEN 1 ELSE 0

\* The inductive invariant: DiffsTrackRing says nothing of the children, and
\* SyncedTracksRing is preserved only because the ids a diff does not name
\* keep their marking, which UpdateFracExact gives for a well-formed ring;
\* RoundRobin follows from where the ring is in its current round.
SelectorInv == lopri \in Rings /\ SelectorTypeOK /\ DiffsTrackRing /\ SyncedTracksRing
               /\ TurnsInv

\* A call keeps the turns: a diff that grows the arc gives the ids from the
\* next one on their turn, and closes the round when it passes the last id.
LEMMA TurnsStep ==
    ASSUME kFracsPerChunk = 1, lopri \in Rings, DiffsTrackRing, TurnsInv,
           NEW frac \in Int, lopri' = UpdateFrac(lopri, frac).ring,
           downs' = Counted(UpdateFrac(lopri, frac).diff)
    PROVE  TurnsInv'
<1> DEFINE d == UpdateFrac(lopri, frac).diff
           q == UpdateFrac(lopri, frac).ring
           up == [i \in Ids |-> IF d.type = "kAdd" /\ i \in d.ids \ told
                                THEN downs[i] + 1 ELSE downs[i]]
           low == CHOOSE m \in {up[i] : i \in Ids} : \A i \in Ids : m <= up[i]
           old == MatchingRanges(lopri)
           new == MatchingRanges(q)
           Had(i) == IF i < Turn(q) THEN 1 ELSE 0
<1>1. downs' = [i \in Ids |-> up[i] - low]
  BY DEF Counted
<1>2. /\ q \in Rings
      /\ \/ d.type = "kAdd" /\ d.ids = new \ old
         \/ d.type = "kDel"
  BY UpdateFracExact
<1>3. /\ downs \in [Ids -> Int]
      /\ \A i \in Ids : downs[i] = IF i < Turn(lopri) THEN 1 ELSE 0
      /\ told = old
  BY DEF TurnsInv, DiffsTrackRing
<1>4. \E c \in Int : \A i \in Ids : up[i] = c + Had(i)
  <2>1. CASE d.type = "kDel"
    <3>1. Turn(q) = Turn(lopri)
      BY <2>1, TurnKept
    <3>2. \A i \in Ids : up[i] = 0 + Had(i)
      BY <2>1, <3>1, <1>3
    <3> QED
      BY <3>2
  <2>2. CASE d.type = "kAdd"
    <3>1. q.start = lopri.start /\ FracToRing(lopri.frac) <= FracToRing(q.frac)
      BY <2>2, TurnKept
    <3> DEFINE c == IF Turn(lopri) = lopri.start + FracToRing(lopri.frac)
                         /\ Turn(q) # q.start + FracToRing(q.frac) THEN 1 ELSE 0
    <3>2. ASSUME NEW i \in Ids
          PROVE  up[i] = c + Had(i)
      <4>1. up[i] = downs[i] + (IF i \in new \ old THEN 1 ELSE 0)
        BY <2>2, <1>2, <1>3
      <4>2. downs[i] = IF i < Turn(lopri) THEN 1 ELSE 0
        BY <1>3
      <4> HIDE DEF up, d, q
      <4> QED
        BY <4>1, <4>2, <1>2, <3>1, TurnsTaken
    <3>3. c \in Int
      OBVIOUS
    <3> HIDE DEF c, up, Had
    <3> QED
      BY <3>2, <3>3
  <2> QED
    BY <2>1, <2>2, <1>2
<1> HIDE DEF up, q, d
<1>5. PICK c \in Int : \A i \in Ids : up[i] = c + Had(i)
  BY <1>4
<1>6. MaxId \in Ids /\ Had(MaxId) = 0 /\ Turn(q) \in Int
  BY <1>2, TurnType, IdSpaceType DEF Ids, MaxId
<1>7. \A i \in Ids : Had(i) \in {0, 1}
  OBVIOUS
<1>8. low = c
  <2> HIDE DEF Had
  <2> QED
    BY <1>5, <1>6, <1>7
<1>9. \A i \in Ids : downs'[i] = Had(i)
  <2> HIDE DEF Had, low
  <2> QED
    BY <1>1, <1>5, <1>7, <1>8
<1>10. downs' \in [Ids -> Int]
  <2> HIDE DEF Had, low
  <2> QED
    BY <1>1, <1>5, <1>7, <1>8
<1>11. lopri' = q
  BY DEF q
<1> QED
  BY <1>9, <1>10, <1>11 DEF TurnsInv

\* The invariant holds of a selector that was never called.
LEMMA SelectorInvInit == ASSUME kFracsPerChunk = 1 PROVE SelectorInit => SelectorInv
<1> SUFFICES ASSUME SelectorInit PROVE SelectorInv
  OBVIOUS
<1>1. 0 \in Ids /\ 0 \in Fracs
  BY IdSpaceType, RingAssumption DEF Ids, MaxId, Fracs, One
<1>2. lopri \in Rings /\ lopri.start = 0 /\ lopri.frac = 0
  BY <1>1 DEF SelectorInit, HashRing0, Rings
<1>3. MatchingRanges(lopri) = {}
  BY <1>2 DEF MatchingRanges
<1>4. TurnsInv
  <2>1. Turn(lopri) = 0
    BY <1>1, <1>2, WholeChunks, IdSpaceType DEF Turn
  <2> QED
    BY <2>1, IdSpaceType DEF SelectorInit, TurnsInv, Ids, MaxId
<1> QED
  BY <1>1, <1>2, <1>3, <1>4
     DEF SelectorInit, SelectorInv, SelectorTypeOK, DiffsTrackRing, SyncedTracksRing

\* A call preserves the invariant, and its diff changes only what it says.
LEMMA SelectorInvStep ==
    ASSUME kFracsPerChunk = 1, SelectorInv, SelectorNext
    PROVE  SelectorInv' /\ (\A i \in diff'.ids : i \in told <=> diff'.type = "kDel")
<1> PICK frac \in WantFracs, present \in SUBSET Children :
        \E reported \in SUBSET present : PickLOPRIChildren(frac, present, reported)
  BY DEF SelectorNext
<1> PICK reported \in SUBSET present : PickLOPRIChildren(frac, present, reported)
  OBVIOUS
<1> DEFINE u == UpdateFrac(lopri, frac)
           old == MatchingRanges(lopri)
           new == MatchingRanges(lopri')
           pick == Picked(present, reported, u.diff)
<1>1. /\ lopri' = u.ring /\ diff' = u.diff
      /\ last_is_lopri' = Remembered(present, pick)
      /\ told' = Applied(told, u.diff)
      /\ downs' = Counted(u.diff)
      /\ steady' = (steady \cup u.diff.ids) \cap present
  BY DEF PickLOPRIChildren
<1>2. frac \in Int
  BY RingAssumption DEF WantFracs, One
<1>3. /\ u.ring \in Rings
      /\ \/ u.diff.type = "kAdd" /\ old \subseteq new /\ u.diff.ids = new \ old
         \/ u.diff.type = "kDel" /\ new \subseteq old /\ u.diff.ids = old \ new
  BY <1>1, <1>2, UpdateFracExact DEF SelectorInv
<1>4. told = old /\ told' = new
  BY <1>1, <1>3 DEF SelectorInv, DiffsTrackRing, Applied
<1>5. \A i \in diff'.ids : i \in told <=> diff'.type = "kDel"
  BY <1>1, <1>3, <1>4
<1>6. new \subseteq Ids
  BY DEF MatchingRanges, IdRange
<1>7. /\ DOMAIN last_is_lopri' = DOMAIN last_is_lopri \cup present
      /\ \A c \in present : last_is_lopri'[c] = (c \in pick)
      /\ \A c \in DOMAIN last_is_lopri \ present : last_is_lopri'[c] = last_is_lopri[c]
  BY <1>1 DEF Remembered
<1>8. SelectorTypeOK'
  <2>1. lopri'.start \in Ids /\ lopri'.frac \in Fracs
    BY <1>1, <1>3 DEF Rings
  <2>2. ASSUME NEW c \in DOMAIN last_is_lopri'
        PROVE  last_is_lopri'[c] \in BOOLEAN
    <3>1. CASE c \in present
      <4>1. last_is_lopri'[c] = (c \in pick)
        BY <3>1, <1>7
      <4>2. (c \in pick) \in BOOLEAN
        OBVIOUS
      <4> QED
        BY <4>1, <4>2, Zenon
    <3>2. CASE c \in DOMAIN last_is_lopri \ present
      BY <3>2, <1>7, Zenon DEF SelectorInv, SelectorTypeOK
    <3> QED
      BY <3>1, <3>2, <1>7
  <2>3. DOMAIN last_is_lopri' \subseteq Children
    BY <1>7 DEF SelectorInv, SelectorTypeOK
  <2> QED
    BY <2>1, <2>2, <2>3, <1>4, <1>6 DEF SelectorTypeOK
<1>9. ASSUME NEW c \in steady'
      PROVE  c \in DOMAIN last_is_lopri' /\ last_is_lopri'[c] = IsLOPRI(lopri', c)
  <2>1. c \in present /\ (c \in steady \/ c \in u.diff.ids)
    BY <1>1, <1>9
  <2>2. c \in pick <=> c \in new
    <3>1. CASE c \in u.diff.ids
      BY <3>1, <2>1, <1>3 DEF Picked, Applied
    <3>2. CASE c \in steady /\ c \notin u.diff.ids
      <4>1. c \in DOMAIN last_is_lopri /\ (last_is_lopri[c] <=> c \in old)
        BY <3>2 DEF SelectorInv, SyncedTracksRing, IsLOPRI
      <4>2. c \in pick <=> last_is_lopri[c]
        BY <3>2, <4>1, <2>1 DEF Picked, Applied
      <4>3. c \in old <=> c \in new
        BY <3>2, <1>3
      <4> QED
        BY <4>1, <4>2, <4>3
    <3> QED
      BY <3>1, <3>2, <2>1
  <2>3. last_is_lopri'[c] = (c \in pick) /\ c \in DOMAIN last_is_lopri'
    BY <2>1, <1>7
  <2>4. IsLOPRI(lopri', c) = (c \in new)
    BY Zenon DEF IsLOPRI
  <2> HIDE DEF pick, new
  <2>5. (c \in pick) = (c \in new)
    BY <2>2
  <2> QED
    BY <2>3, <2>4, <2>5, Zenon
<1>10. SyncedTracksRing'
  BY <1>9 DEF SyncedTracksRing
<1>11. TurnsInv'
  BY <1>1, <1>2, TurnsStep DEF SelectorInv
<1> QED
  BY <1>1, <1>3, <1>4, <1>5, <1>8, <1>10, <1>11 DEF SelectorInv, DiffsTrackRing

\* A step that changes nothing preserves it.
LEMMA SelectorInvStutter == ASSUME SelectorInv, UNCHANGED selectorVars PROVE SelectorInv'
BY DEF SelectorInv, selectorVars, SelectorTypeOK, DiffsTrackRing, SyncedTracksRing, TurnsInv

\* The invariant holds in every reachable state.
LEMMA SelectorInvariance == ASSUME kFracsPerChunk = 1 PROVE SelectorSpec => []SelectorInv
<1>1. SelectorInv /\ [SelectorNext]_selectorVars => SelectorInv'
  BY SelectorInvStep, SelectorInvStutter
<1> QED
  BY SelectorInvInit, <1>1, PTL DEF SelectorSpec

\* After any sequence of whole-chunk fractions, on a ring of any size: the
\* state is well-formed whatever wraps around, as many ids are marked as the
\* fraction asks for, and no id was downgraded twice more often than another.
THEOREM RingTakesTurns == ASSUME kFracsPerChunk = 1 PROVE SelectorSpec => []RingInv
<1>1. ASSUME SelectorInv PROVE RingInv
  <2>1. RoundRobin
    <3>1. \A i \in Ids : downs[i] \in {0, 1}
      BY <1>1 DEF SelectorInv, TurnsInv
    <3> QED
      BY <3>1 DEF RoundRobin
  <2>2. MarkedIsFrac
    <3>1. Cardinality(told) = FracToRing(lopri.frac) /\ lopri.frac \in Fracs
      BY <1>1, ArcSize DEF SelectorInv, DiffsTrackRing, Rings
    <3>2. FracToRing(lopri.frac) = lopri.frac * kChunkSize
      BY <3>1, WholeChunks
    <3>3. lopri.frac \in Nat /\ One = kNumChunks
      BY <3>1, RingAssumption DEF Fracs, One
    <3>4. (lopri.frac * kChunkSize) * kNumChunks = lopri.frac * IdSpaceSize
      BY <3>3, RingAssumption, SMTT(30) DEF IdSpaceSize
    <3>5. Cardinality(told) * One = (lopri.frac * kChunkSize) * kNumChunks
      <4>1. Cardinality(told) = lopri.frac * kChunkSize /\ One = kNumChunks
        BY <3>1, <3>2, <3>3
      <4> QED
        BY <4>1, Zenon
    <3> QED
      BY <3>4, <3>5, Zenon DEF MarkedIsFrac
  <2> QED
    BY <1>1, <2>1, <2>2 DEF SelectorInv, RingInv
<1> QED
  BY SelectorInvariance, <1>1, PTL

\* The diffs returned by UpdateFrac add up to MatchingRanges, on a ring of any
\* size and after any sequence of whole-chunk fractions.
THEOREM DiffsAddUp == ASSUME kFracsPerChunk = 1 PROVE SelectorSpec => []DiffsTrackRing
<1>1. SelectorInv => DiffsTrackRing
  BY DEF SelectorInv
<1> QED
  BY SelectorInvariance, <1>1, PTL

\* Every child that has kept reporting since a diff last named it has the QoS
\* of its id on the ring, for any set of children.
THEOREM SteadyChildrenRight ==
    ASSUME kFracsPerChunk = 1 PROVE SelectorSpec => []SyncedTracksRing
<1>1. SelectorInv => SyncedTracksRing
  BY DEF SelectorInv
<1> QED
  BY SelectorInvariance, <1>1, PTL

\* No call downgrades an id that is downgraded, or upgrades one that is not.
THEOREM DiffsAreMinimal ==
    ASSUME kFracsPerChunk = 1 PROVE SelectorSpec => NoRedundantChange
<1> DEFINE A == \A i \in diff'.ids : i \in told <=> diff'.type = "kDel"
<1>1. SelectorInv /\ [SelectorNext]_selectorVars => [A]_selectorVars
  BY SelectorInvStep
<1>2. SelectorSpec => [][A]_selectorVars
  BY SelectorInvariance, <1>1, PTL DEF SelectorSpec
<1> QED
  BY <1>2 DEF NoRedundantChange
=============================================================================
