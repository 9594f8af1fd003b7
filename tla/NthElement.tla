----------------------------- MODULE NthElement -----------------------------
(***************************************************************************)
(* heyp/alg/fairness/nth-element.h: quickselect that moves the data back   *)
(* and forth between the array and a scratch buffer, recursing on ever     *)
(* smaller segments of the two.  One step is one call of NthElementScratch *)
(* (the segment is in the array) or NthElementInto (it is in the scratch   *)
(* buffer).  The partition and sort functions are a library's              *)
(* (exp_gerbens): any pivot, any order on each side, and the segment they  *)
(* partition from is left with nothing to rely on.                         *)
(***************************************************************************)
EXTENDS Integers, Sequences, SequencesExt, Functions, FiniteSets, FiniteSetsExt, TLC

CONSTANTS kSmallSortThreshold,    \* segments up to this length are sorted
          Values, MaxLen

Junk == -1

VARIABLES call,        \* the array and the rank the caller passed
          arr, scr,    \* the array and the scratch buffer
          f, g,        \* where the segment, or its place, starts in each
          n, nth,      \* the segment's length; the rank wanted, from 1
          mode         \* "scratch", "into", "done"

vars == <<call, arr, scr, f, g, n, nth, mode>>

Init == \E s \in BoundedSeq(Values, MaxLen) \ {<<>>} :
          /\ arr = s
          /\ scr = [i \in DOMAIN s |-> Junk]
          /\ f = 1 /\ g = 1 /\ n = Len(s)
          /\ nth \in DOMAIN s
          /\ call = [arr |-> s, nth |-> nth]
          /\ mode = "scratch"

Segment(b, from) == SubSeq(b, from, from + n - 1)

\* b with s written from index i on (std::move).
Put(b, i, s) == [j \in DOMAIN b |-> IF j \in i .. i + Len(s) - 1 THEN s[j - i + 1] ELSE b[j]]

\* The output of MoveMedianOfThreeToEnd and PartitionInto, and the pivot's place.
PartitionInto(s) ==
    {r \in {[out |-> [i \in DOMAIN s |-> s[q[i]]], p |-> p] :
              q \in Bijection(DOMAIN s, DOMAIN s), p \in DOMAIN s} :
        /\ \A i \in 1 .. r.p - 1 : r.out[i] <= r.out[r.p]
        /\ \A i \in r.p + 1 .. Len(s) : r.out[i] >= r.out[r.p]}

Sorted(s) == SortSeq(s, <)

Blank == [i \in 1 .. n |-> Junk]

\* What is not selected further is moved back to the array from the scratch
\* buffer: all up to the pivot, all from the pivot on, or everything.
MovedBack(r) ==
    LET cleared == Put(arr, f, Blank)
    IN  IF r.p < nth THEN Put(cleared, f, SubSeq(r.out, 1, r.p))
        ELSE IF r.p > nth THEN Put(cleared, f + r.p - 1, SubSeq(r.out, r.p, n))
        ELSE Put(cleared, f, r.out)

\* The side of the pivot that nth is on becomes the segment; shift is how far
\* the scratch buffer's start moves with it.
Narrow(p, next, shift) ==
    \/ p < nth /\ f' = f + p /\ g' = g + shift /\ n' = n - p /\ nth' = nth - p
               /\ mode' = next
    \/ p > nth /\ n' = p - 1 /\ mode' = next /\ UNCHANGED <<f, g, nth>>
    \/ p = nth /\ mode' = "done" /\ UNCHANGED <<f, g, n, nth>>

NthElementScratch ==
    /\ mode = "scratch" /\ n > kSmallSortThreshold
    /\ \E r \in PartitionInto(Segment(arr, f)) :
         /\ arr' = MovedBack(r)
         /\ scr' = Put(scr, g, r.out)
         /\ Narrow(r.p, "into", r.p)
    /\ UNCHANGED call

\* After this call's partition the segment is in its place in the array, and
\* the scratch buffer starts where the old segment did.
NthElementInto ==
    /\ mode = "into" /\ n > kSmallSortThreshold
    /\ \E r \in PartitionInto(Segment(scr, g)) :
         /\ arr' = Put(arr, f, r.out)
         /\ scr' = Put(scr, g, Blank)
         /\ Narrow(r.p, "scratch", 0)
    /\ UNCHANGED call

SmallSort ==
    /\ mode # "done" /\ n <= kSmallSortThreshold
    /\ arr' = Put(arr, f, Sorted(IF mode = "into" THEN Segment(scr, g)
                                                  ELSE Segment(arr, f)))
    /\ mode' = "done"
    /\ UNCHANGED <<call, scr, f, g, n, nth>>

Next == NthElementScratch \/ NthElementInto \/ SmallSort

Spec == Init /\ [][Next]_vars
-----------------------------------------------------------------------------
\* What PartialSortAllocator relies on: the array is a permutation of what it
\* was, with nothing lost in the scratch buffer, and the element of rank nth
\* is in its place between the smaller and the larger ones.
Selected ==
    mode = "done" =>
      LET Count(b, v) == Cardinality({i \in DOMAIN b : b[i] = v})
      IN  /\ \A v \in Values : Count(arr, v) = Count(call.arr, v)
          /\ \A i \in 1 .. call.nth : arr[i] <= arr[call.nth]
          /\ \A i \in call.nth .. Len(arr) : arr[i] >= arr[call.nth]

\* The segment stays inside both buffers and around the place asked for, and
\* never holds what a partition left behind.
SegmentInBounds ==
    mode # "done" => /\ nth \in 1 .. n /\ f + nth - 1 = call.nth
                     /\ f + n - 1 <= Len(arr) /\ g + n - 1 <= Len(scr)
                     /\ \A i \in 1 .. n : (IF mode = "into" THEN scr[g + i - 1]
                                           ELSE arr[f + i - 1]) # Junk

\* The selection stays in bounds and is right.
SelectionInv == Selected /\ SegmentInBounds
=============================================================================
