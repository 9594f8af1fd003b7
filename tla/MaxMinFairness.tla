--------------------------- MODULE MaxMinFairness ---------------------------
(***************************************************************************)
(* heyp/alg/fairness/max-min-fairness.cc: the waterlevel that shares a     *)
(* capacity max-min fairly, found by partial sorting.  One step is one     *)
(* round of PartialSortAllocator::ComputeWaterlevel; NthElement may leave  *)
(* the segment in any order it promises (NthElement.tla models how).       *)
(* Indices start at 1.                                                     *)
(***************************************************************************)
EXTENDS AllocFunctions

CONSTANTS Demands,      \* the values a demand may have
          MaxDemands,   \* how many demands there are, at most
          Capacities

VARIABLES demands, capacity,      \* the problem
          sorted_demands,         \* the buffer, without the tiny demands
          capacity_without_tiny, residual_capacity,
          lower_limit, upper_limit, waterlevel,
          pc                      \* "filter", "search", "done"

vars == <<demands, capacity, sorted_demands, capacity_without_tiny,
          residual_capacity, lower_limit, upper_limit, waterlevel, pc>>

Init == /\ demands \in BoundedSeq(Demands, MaxDemands)
        /\ capacity \in Capacities
        /\ sorted_demands = <<>>
        /\ capacity_without_tiny = 0 /\ residual_capacity = 0
        /\ lower_limit = 1 /\ upper_limit = 0 /\ waterlevel = 0
        /\ pc = "filter"

\* Demands of at most an equal share can all be met: they are taken out
\* first (enable_tiny_flow_opt; tiny_demand_thresh is -1 without it).
Filter(thresh) ==
    LET Tiny(d) == d <= thresh
        Big(d)  == d > thresh
        tiny == SelectSeq(demands, Tiny)
        big  == SelectSeq(demands, Big)
    IN  [buf  |-> big,
         wl   |-> Max({0} \cup Range(tiny)),
         cap  |-> capacity - Total(tiny),
         left |-> capacity - Total(tiny) - Max({0} \cup Range(tiny)) * Len(big)]

Thresh(enable_tiny_flow_opt) ==
    IF enable_tiny_flow_opt THEN capacity \div Max({Len(demands), 1}) ELSE -1

\* SingleLinkMaxMinFairnessProblem::ComputeWaterlevel up to the search.
ComputeWaterlevel ==
    /\ pc = "filter"
    /\ \E tiny \in BOOLEAN :
         LET f == Filter(Thresh(tiny))
         IN  /\ sorted_demands' = f.buf
             /\ waterlevel' = f.wl
             /\ capacity_without_tiny' = f.cap
             /\ residual_capacity' = f.left
             /\ lower_limit' = 1
             /\ upper_limit' = Len(f.buf)
    /\ pc' = "search"
    /\ UNCHANGED <<demands, capacity>>

\* What NthElement promises: the segment is permuted so that no demand before
\* nth is larger than the one at nth, and none after it is smaller.
NthElement(buf, first, nth, last) ==
    {b \in {[i \in DOMAIN buf |-> IF i \in first .. last THEN buf[p[i]] ELSE buf[i]] :
              p \in Bijection(first .. last, first .. last)} :
        /\ \A i \in first .. nth : b[i] <= b[nth]
        /\ \A i \in nth .. last : b[i] >= b[nth]}

\* The capacity needed to bring A = lower .. partition to its demands and all
\* the others to the largest demand of A.
Ask(buf, partition) ==
    LET A == [i \in lower_limit .. partition |-> buf[i] - waterlevel]
    IN  Total(A) + (buf[partition] - waterlevel) * (Len(buf) - partition)

\* One round of the loop: A fits, and the search goes on above it; or A does
\* not fit, and the search goes on in A.
Partition == lower_limit + (upper_limit - lower_limit) \div 2

Shrunk(partition) ==
    IF lower_limit = upper_limit THEN lower_limit - 1 ELSE partition

Search ==
    /\ pc = "search" /\ upper_limit >= lower_limit
    /\ sorted_demands' \in
          NthElement(sorted_demands, lower_limit, Partition, upper_limit)
    /\ LET ask == Ask(sorted_demands', Partition)
       IN  IF ask <= residual_capacity
           THEN /\ waterlevel' = sorted_demands'[Partition]
                /\ residual_capacity' = residual_capacity - ask
                /\ lower_limit' = Partition + 1
                /\ UNCHANGED upper_limit
           ELSE /\ upper_limit' = Shrunk(Partition)
                /\ UNCHANGED <<waterlevel, residual_capacity, lower_limit>>
    /\ UNCHANGED <<demands, capacity, capacity_without_tiny, pc>>

\* Mutant: one demand too many shares.
Share_OffByOne(next) ==
    IF next < Len(sorted_demands)
    THEN residual_capacity \div (Len(sorted_demands) - next) ELSE 0

\* What is left is divided evenly over the demands that cannot be met.
Share(next) ==
    IF next <= Len(sorted_demands)
    THEN residual_capacity \div (Len(sorted_demands) - next + 1) ELSE 0

Divide ==
    /\ pc = "search" /\ upper_limit < lower_limit
    /\ waterlevel' = waterlevel + Share(Max({lower_limit, upper_limit}))
    /\ pc' = "done"
    /\ UNCHANGED <<demands, capacity, sorted_demands, capacity_without_tiny,
                   residual_capacity, lower_limit, upper_limit>>

Next == ComputeWaterlevel \/ Search \/ Divide

Spec == Init /\ [][Next]_vars

\* ComputeWaterlevel is a call: nothing stops it between two of its steps.
FairSpec == Spec /\ WF_vars(Next)
-----------------------------------------------------------------------------
\* The invariants the code states above residual_capacity_ and asserts in
\* every round (PrintInvariantViolations): the demands below lower_limit are
\* met by the waterlevel, the others are not below it, and the residual
\* capacity is what the allocation so far leaves; and no demand above
\* upper_limit can be met.
SearchInvariant ==
    pc # "filter" =>
      LET n == Len(sorted_demands)
      IN  /\ \A i \in 1 .. lower_limit - 1 : sorted_demands[i] <= waterlevel
          /\ pc = "search" =>
               /\ \A i \in lower_limit .. n : sorted_demands[i] >= waterlevel
               /\ residual_capacity >= 0
               /\ residual_capacity = capacity_without_tiny
                      - Total([i \in 1 .. lower_limit - 1 |-> sorted_demands[i]])
                      - waterlevel * (n - lower_limit + 1)
               /\ \A i \in upper_limit + 1 .. n :
                     sorted_demands[i] > FairShare(capacity, demands)

\* The search ends at the max-min fair share, which is also what the full
\* sort computes, with the fast path for tiny demands and without it; and
\* the extra that EvenlyDistributeExtra hands out on top still fits.
WaterlevelIsFair ==
    pc = "done" =>
      /\ waterlevel = FairShare(capacity, demands)
      /\ \A tiny \in BOOLEAN : LET f == Filter(Thresh(tiny))
                               IN  SolveFullSort(f.left, f.wl, f.buf) = waterlevel
      /\ Total(SetAllocations(waterlevel, demands)) + Len(demands) *
             EvenlyDistributeExtra(capacity, demands, waterlevel) <= capacity

\* The search keeps its invariants and ends at the fair share.
WaterlevelInv == SearchInvariant /\ WaterlevelIsFair

\* The search ends: every round shrinks [lower_limit, upper_limit].
SearchEnds == <>(pc = "done")
=============================================================================
