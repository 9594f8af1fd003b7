--------------------------- MODULE AllocFunctions ---------------------------
(***************************************************************************)
(* The pure functions that the allocators are built from.                  *)
(*                                                                         *)
(* heyp/alg/qos-downgrade.cc and .h: how much of an aggregate's traffic    *)
(* should be LOPRI; heyp/alg/downgrade, heyp/alg/agg-info-views.cc: which  *)
(* children, [host, job, demand, usage, lopri], to send as LOPRI to get    *)
(* there (the hashing selector has a module of its own).  A fraction is a  *)
(* record [num, den], the exact value of the code's double (den = 0: NaN); *)
(* what the feedback controller adds up over the periods is a whole number *)
(* of percents, rounded down.                                              *)
(*                                                                         *)
(* heyp/alg/fairness/max-min-fairness.cc and heyp/alg/rate-limits.cc, over *)
(* sequences of demands, and the max-min fair share that ComputeWaterlevel *)
(* must compute (MaxMinFairness.tla).                                      *)
(***************************************************************************)
EXTENDS Integers, Sequences, FiniteSets, SequencesExt, FiniteSetsExt, Functions, TLC

Frac(n, d) == [num |-> n, den |-> d]

\* a < b for doubles: false when one of them is NaN (0/0).
Less(a, b) == a.num * b.den < b.num * a.den

\* int64(frac * x)
Times(frac, x) == (frac.num * x) \div frac.den

\* GetFlowVolume
GetFlowVolume(info, downgrade_usage) ==
    IF downgrade_usage THEN info.usage ELSE info.demand

Volume(view) == MapThenSumSet(LAMBDA i : view[i].vol, DOMAIN view)

VolumeOf(view, S) == MapThenSumSet(LAMBDA i : view[i].vol, S)

\* HostLevelView::Create: one child of the view per host.
HostLevelView(children, usage) ==
    [i \in DOMAIN children |->
        [id |-> children[i].host, vol |-> GetFlowVolume(children[i], usage),
         lopri |-> children[i].lopri]]

\* JobLevelView::Create: the hosts of a job are one child, in the order their
\* jobs first appear; it is LOPRI when one of its hosts is.
Jobs(children) ==
    FoldLeft(LAMBDA acc, c : IF Contains(acc, c.job) THEN acc ELSE Append(acc, c.job),
             <<>>, children)

JobIndex(children, i) == CHOOSE j \in DOMAIN Jobs(children) :
                             Jobs(children)[j] = children[i].job

JobLevelView(children, usage) ==
    [j \in DOMAIN Jobs(children) |->
        LET hosts == {i \in DOMAIN children : children[i].job = Jobs(children)[j]}
        IN  [id |-> Jobs(children)[j],
             vol |-> MapThenSumSet(LAMBDA i : GetFlowVolume(children[i], usage), hosts),
             lopri |-> \E i \in hosts : children[i].lopri]]

\* The children of a view by decreasing volume; of equals the last comes first.
Larger(view, i, j) == \/ view[i].vol > view[j].vol
                      \/ view[i].vol = view[j].vol /\ i > j

ByDecDemand(view) == SetToSortSeq(DOMAIN view, LAMBDA i, j : Larger(view, i, j))

\* GreedyAssignToMinimizeGap<StateToIncrease>: in that order, children outside
\* the bin are moved into it while they fit.  The last one may overshoot by as
\* much as it would have fallen short; with punish_only_largest that is the
\* first that does not fit, and the loop ends there.
Flips(next, cur, want, is_last) ==
    next <= want \/ (is_last /\ next <= 2 * want - cur)

GreedyAssignToMinimizeGap(view, bin, want, punish_only_largest) ==
    LET order == ByDecDemand(view)
        Step(acc, i) ==
          LET next == acc.cur + view[i].vol
              last == punish_only_largest \/ i = order[Len(order)]
              flip == Flips(next, acc.cur, want, last)
          IN  IF acc.ended \/ i \in acc.bin THEN acc
              ELSE [bin   |-> IF flip THEN acc.bin \cup {i} ELSE acc.bin,
                    cur   |-> IF flip THEN next ELSE acc.cur,
                    ended |-> punish_only_largest /\ next > want]
    IN  FoldLeft(Step, [bin |-> bin, cur |-> VolumeOf(view, bin), ended |-> FALSE],
                 order).bin

\* Each selector's PickLOPRIChildren: the set of children of the view chosen.
LargestFirst(view, frac) ==
    IF Volume(view) = 0 THEN {}
    ELSE GreedyAssignToMinimizeGap(view, {}, Times(frac, Volume(view)), TRUE)

HeypSigcomm20(view, frac) ==
    LET cur   == {i \in DOMAIN view : view[i].lopri}
        total == Volume(view)
    IN  IF total = 0 THEN {}
        ELSE IF Less(frac, Frac(VolumeOf(view, cur), total))
        THEN DOMAIN view \ GreedyAssignToMinimizeGap(view, DOMAIN view \ cur,
                             Times(Frac(frac.den - frac.num, frac.den), total), FALSE)
        ELSE GreedyAssignToMinimizeGap(view, cur, Times(frac, total), FALSE)

\* The knapsack solver is a library's: it may return any subset that fits,
\* with time_limit_sec a subset that is not the fullest.
KnapsackSolver(view, frac) ==
    {S \in SUBSET DOMAIN view : VolumeOf(view, S) <= Times(frac, Volume(view))}

\* The two CHECKs that follow a call of the solver.
KnapsackChecks(view, frac, S) == VolumeOf(view, S) <= Times(frac, Volume(view))

Selectors == {"DS_HEYP_SIGCOMM20", "DS_KNAPSACK_SOLVER", "DS_LARGEST_FIRST"}

Pick(type, view, frac) ==
    CASE type = "DS_HEYP_SIGCOMM20"  -> {HeypSigcomm20(view, frac)}
      [] type = "DS_LARGEST_FIRST"   -> {LargestFirst(view, frac)}
      [] type = "DS_KNAPSACK_SOLVER" -> KnapsackSolver(view, frac)

\* DowngradeSelector::PickLOPRIChildren: the hosts chosen, or those of the
\* jobs chosen.
PickLOPRIChildren(selector, children, frac) ==
    IF selector.downgrade_jobs
    THEN {{i \in DOMAIN children : JobIndex(children, i) \in S} :
            S \in Pick(selector.type, JobLevelView(children, selector.downgrade_usage), frac)}
    ELSE Pick(selector.type, HostLevelView(children, selector.downgrade_usage), frac)
-----------------------------------------------------------------------------
One == Frac(1, 1)

Zero == Frac(0, 1)

\* ClampFracLOPRI and ClampFracLOPRISilent: NaN becomes 0.
ClampFracLOPRI(frac) ==
    IF frac.den = 0 \/ frac.num < 0 THEN Zero ELSE IF Less(One, frac) THEN One ELSE frac

\* DowngradeFracController::TrafficFracToDowngrade, in percents, for a
\* configuration c = [prop_gain, max_inc, ignore_overage_below, coarseness].
\* With err = (hipri - limit) / total:
InNoise(c, hipri, total, limit, max_task) ==
    /\ hipri > limit
    /\ \/ 100 * (hipri - limit) < c.ignore_overage_below * total
       \/ 100 * (hipri - limit) < c.coarseness * max_task

\* "saw invalid pre-clamping downgrade frac inc": the process exits.
Exits(c, hipri, lopri, limit, max_task) ==
    LET total == hipri + lopri
        x     == c.prop_gain * (hipri - limit)
    IN  /\ total # 0 /\ ~InNoise(c, hipri, total, limit, max_task)
        /\ (x > 100 * total \/ x < -100 * total)

\* The increment; without any usage the error is NaN, fmin drops it and
\* copysign takes the sign a NaN happens to have.
TrafficFracToDowngrade(c, hipri, lopri, limit, max_task) ==
    LET total == hipri + lopri
        x     == (c.prop_gain * (hipri - limit)) \div total
    IN  IF total = 0 THEN {c.max_inc, 0 - c.max_inc}
        ELSE IF InNoise(c, hipri, total, limit, max_task) THEN {0}
        ELSE IF x >= 0 THEN {Min({x, c.max_inc})} ELSE {Max({x, 0 - c.max_inc})}

\* FracAdmittedAtLOPRI<kPredictedDemand>: what HIPRI does not cover of the
\* demand that both limits admit.
FracAdmittedAtLOPRI(demand, hipri_limit, lopri_limit) ==
    LET admitted == Min({demand, hipri_limit + lopri_limit})
    IN  IF lopri_limit > 0 /\ demand > 0 /\ demand > hipri_limit
        THEN Frac(admitted - hipri_limit, admitted)
        ELSE Zero

\* FracAdmittedAtLOPRIToProbe: when demand lies between the HIPRI limit and
\* mult times it, enough to move the smallest child.
FracAdmittedAtLOPRIToProbe(demand, children, hipri_limit, lopri_limit, mult, frac) ==
    LET smallest == Min({children[i].demand : i \in DOMAIN children})
        revised  == Frac(100001 * smallest, 100000 * demand)
    IN  IF \/ demand < hipri_limit
           \/ demand * mult.den > mult.num * hipri_limit
           \/ children = <<>>
           \/ smallest > lopri_limit
           \/ ~Less(frac, revised)
        THEN frac ELSE revised

\* Mutant: the limit follows what arrived, up as well as down.
MaybeRevise_Raise(ratio, time, parent, st) ==
    LET lopri == parent.cum_lopri - st.last_cum_lopri
    IN  IF time <= st.last_time \/ st.frac_lopri.num <= 0
        THEN st.lopri ELSE (8 * lopri) \div (time - st.last_time)

\* HeypSigcomm20MaybeReviseLOPRIAdmission: when less LOPRI traffic arrived
\* than was intended, LOPRI is congested, and its limit becomes what arrived.
MaybeReviseLOPRIAdmission(ratio, time, parent, st) ==
    LET hipri == parent.cum_hipri - st.last_cum_hipri
        lopri == parent.cum_lopri - st.last_cum_lopri
        f     == st.frac_lopri
    IN  IF \/ time <= st.last_time
           \/ st.hipri = 0 \/ f.num <= 0
           \/ hipri = 0
           \/ lopri * (f.den - f.num) * ratio.den >= ratio.num * hipri * f.num
        THEN st.lopri
        ELSE Min({(8 * lopri) \div (time - st.last_time), st.lopri})

\* BweBurstinessFactor (rate-limits.cc)
BweBurstinessFactor(parent_demand, children) ==
    LET sum == MapThenSumSet(LAMBDA i : children[i].demand, DOMAIN children)
    IN  IF parent_demand = 0 \/ sum = 0 \/ sum < parent_demand
        THEN One ELSE Frac(sum, parent_demand)
-----------------------------------------------------------------------------
(* Fair shares.                                                            *)

Total(s) == FoldFunction(+, 0, s)

\* SolveFullSort, the slower method the code keeps for comparison.
SolveFullSort(cap, wl, buf) ==
    LET Fill(acc, d) ==
            LET unsatisfied == Len(buf) - acc.next
                ask == (d - acc.wl) * unsatisfied
            IN  IF acc.stop THEN acc
                ELSE IF ask <= acc.cap
                THEN [acc EXCEPT !.wl = d, !.cap = @ - ask, !.next = @ + 1]
                ELSE [acc EXCEPT !.wl = @ + acc.cap \div unsatisfied, !.stop = TRUE]
        start == [wl |-> wl, cap |-> cap, next |-> 0, stop |-> FALSE]
    IN  FoldLeft(Fill, start, SortSeq(buf, <)).wl

\* SetAllocations
SetAllocations(wl, ds) == [i \in DOMAIN ds |-> Min({wl, ds[i]})]

\* EvenlyDistributeExtra (rate-limits.cc)
EvenlyDistributeExtra(admission, ds, wl) ==
    IF ds = <<>> THEN admission
    ELSE Max({0, admission - Total(SetAllocations(wl, ds))}) \div Len(ds)

\* The max-min fair share by definition: enough for every demand, else the
\* largest level whose allocations fit.
FairShare(cap, ds) ==
    IF Total(ds) <= cap THEN Max({0} \cup Range(ds))
    ELSE Max({w \in 0 .. cap : Total(SetAllocations(w, ds)) <= cap})
=============================================================================
