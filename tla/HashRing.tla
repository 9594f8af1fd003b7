------------------------------ MODULE HashRing ------------------------------
(***************************************************************************)
(* The hash ring of heyp/alg/downgrade/hash-ring.h, as operators on a ring *)
(* [start, frac].  The id space is kNumChunks * kChunkSize ids (2^64 in    *)
(* the code); a fraction is a number of 1/(kNumChunks * kFracsPerChunk)-ths *)
(* of the ring, so kFracsPerChunk = 1 gives the fractions that are whole   *)
(* chunks, and a larger value the doubles that fall between two chunks.    *)
(***************************************************************************)
EXTENDS Integers

CONSTANTS kNumChunks,      \* the code: 2^32
          kChunkSize,      \* the code: 2^32
          kFracsPerChunk   \* fractions per chunk: what a double distinguishes

ASSUME RingAssumption == /\ kNumChunks \in Nat \ {0}
                         /\ kChunkSize \in Nat \ {0}
                         /\ kFracsPerChunk \in Nat \ {0}
                         /\ kNumChunks * kChunkSize > 1

IdSpaceSize == kNumChunks * kChunkSize

MaxId == IdSpaceSize - 1

Ids == 0 .. MaxId

One == kNumChunks * kFracsPerChunk     \* the fraction 1.0

Fracs == 0 .. One

\* absl::uint128 arithmetic: the two 64-bit halves of a sum that may have
\* passed the end of the ring, or gone below zero.
Uint128Low64(x) == x % IdSpaceSize

Uint128High64(x) == (x % (IdSpaceSize * IdSpaceSize)) \div IdSpaceSize

IdRange(lo, hi) == {i \in Ids : lo <= i /\ i <= hi}

HashRing0 == [start |-> 0, frac |-> 0]

\* round(frac * kNumChunks), halves away from zero, in ids.
FracToRing(frac) ==
    ((2 * frac + kFracsPerChunk) \div (2 * kFracsPerChunk)) * kChunkSize

End(ring) == ring.start + FracToRing(ring.frac) - 1

MatchingRanges(ring) ==
    IF ring.frac = 0 THEN {}
    ELSE IF Uint128High64(End(ring)) # 0
         THEN IdRange(0, Uint128Low64(End(ring))) \cup IdRange(ring.start, MaxId)
         ELSE IdRange(ring.start, Uint128Low64(End(ring)))

Diff(type, ids) == [type |-> type, ids |-> ids]

\* The branch that grows the marked space.
AddedRange(old, new) ==
    LET from == End(old) + 1
    IN  IF Uint128High64(End(new)) # 0 /\ Uint128High64(from) = 0
        THEN IdRange(0, Uint128Low64(End(new)))
               \cup IdRange(Uint128Low64(from), MaxId)
        ELSE IdRange(Uint128Low64(from), Uint128Low64(End(new)))

\* Mutant: the range that wraps around zero is not split.
DeletedRange_NoWrap(old, new) == IdRange(old.start, new.start - 1)

\* The branch that shrinks it.
DeletedRange(old, new) ==
    IF old.start < new.start
    THEN IdRange(old.start, new.start - 1)
    ELSE IF new.start = 0
         THEN IdRange(old.start, MaxId)
         ELSE IdRange(0, new.start - 1) \cup IdRange(old.start, MaxId)

ComputeRangeDiff(old, new) ==
    IF old.frac = new.frac THEN Diff("kAdd", {})
    ELSE IF old.frac < new.frac THEN Diff("kAdd", AddedRange(old, new))
    ELSE Diff("kDel", DeletedRange(old, new))

\* frac is any number; the ring clamps it to [0, 1].
Clamp(frac) == IF frac < 0 THEN 0 ELSE IF frac > One THEN One ELSE frac

Moved(ring, frac) ==
    [start |-> IF ring.frac > frac
               THEN Uint128Low64(ring.start
                                   + Uint128Low64(FracToRing(ring.frac - frac)))
               ELSE ring.start,
     frac |-> frac]

\* Mutant: the children added last are the first to go.
UpdateFrac_Lifo(ring, frac) ==
    LET new == [start |-> ring.start, frac |-> Clamp(frac)]
    IN  [ring |-> new,
         diff |-> IF ring.frac > new.frac
                  THEN Diff("kDel", MatchingRanges(ring) \ MatchingRanges(new))
                  ELSE ComputeRangeDiff(ring, new)]

\* UpdateFrac: the ring it leaves and the diff it returns.
UpdateFrac(ring, frac) ==
    LET new == Moved(ring, Clamp(frac))
    IN  [ring |-> new, diff |-> ComputeRangeDiff(ring, new)]

IsLOPRI(ring, id) == id \in MatchingRanges(ring)
=============================================================================
