-------------------------- MODULE PerAggAllocators --------------------------
(***************************************************************************)
(* heyp/cluster-agent/per-agg-allocators: what the cluster agent's         *)
(* allocators decide for one aggregate, period after period.  The hosts    *)
(* report, the aggregate's usage is updated as FlowAggregator does         *)
(* (FlowState.tla), and AllocAgg of the configured allocator sets a limit  *)
(* and a QoS for every child.  A host sends its bytes with the QoS of its  *)
(* last allocation, or of the one before: it may not have applied the last.*)
(***************************************************************************)
EXTENDS AllocFunctions, FlowState

CONSTANTS Hosts,         \* sequence of [host, job]: the children
          Reports,       \* what a host may report: [bytes, usage, demand]
          Configs,       \* the configurations of the run
          Admissions,    \* cluster-wide allocations: [hipri, lopri]
          FracConfig,    \* downgrade_frac_controller
          Oversub,       \* oversub_factor
          MaxPeriods

demand_multiplier == Frac(multNum, multDen)
kMaxChildBandwidthBps == 1000
Period == 5
AcceptableRatio == Frac(9, 10)

VARIABLES config, admission,   \* chosen once; admission is NoAdmission without one
          agg,                 \* AggState of the parent
          downgrade_frac, ewma_max_child_usage,   \* SimpleDowngrade's PerAggState
          heyp,                \* HeypSigcomm20's PerAggState
          sent,                \* children's counters: [hipri, lopri]
          prev,                \* the children LOPRI by the last allocations but one
          call,                \* the last AllocAgg: children, fraction, choice
          allocs,              \* its result: [hipri, lopri] per child, <<>> for none
          exited, period

vars == <<config, admission, agg, downgrade_frac, ewma_max_child_usage, heyp, sent,
          prev, call, allocs, exited, period>>

NoAdmission == [hipri |-> -1, lopri |-> -1]

Init == /\ config \in Configs
        /\ admission \in Admissions \cup {NoAdmission}
        /\ config.type = "CA_BWE" => admission.lopri <= 0
        /\ agg = AggState
        /\ downgrade_frac = 0 /\ ewma_max_child_usage = -1
        /\ heyp = [hipri |-> admission.hipri, lopri |-> admission.lopri,
                   frac_lopri |-> Zero, last_time |-> 0,
                   last_cum_hipri |-> 0, last_cum_lopri |-> 0]
        /\ sent = [i \in DOMAIN Hosts |-> [hipri |-> 0, lopri |-> 0]]
        /\ prev = {}
        /\ call = [children |-> <<>>, frac |-> Zero, picked |-> {}, hipri |-> 0, lopri |-> 0]
        /\ allocs = <<>> /\ exited = FALSE /\ period = 0

\* The children LOPRI by the last allocations (LookupAlloc: a limit above 0).
Lopri == {i \in DOMAIN allocs : allocs[i].lopri > 0}

\* The bytes of this period, those of the hosts in low as LOPRI.
Sent(reports, low) ==
    [i \in DOMAIN Hosts |->
        IF i \in low THEN [sent[i] EXCEPT !.lopri = @ + reports[i].bytes]
                     ELSE [sent[i] EXCEPT !.hipri = @ + reports[i].bytes]]

ChildInfos(reports) ==
    [i \in DOMAIN Hosts |-> [host |-> Hosts[i].host, job |-> Hosts[i].job,
                             usage |-> reports[i].usage, demand |-> reports[i].demand,
                             lopri |-> i \in Lopri]]

\* The update of the parent that ForEachAgg makes of the children.
ParentUpdate(children, s) ==
    LET Sum(Op(_), S) == MapThenSumSet(Op, S)
        all == DOMAIN Hosts
    IN  [time |-> (period + 1) * Period,
         sum |-> Sum(LAMBDA i : children[i].usage, all),
         sum_hipri |-> Sum(LAMBDA i : children[i].usage, all \ Lopri),
         sum_lopri |-> Sum(LAMBDA i : children[i].usage, Lopri),
         cum_hipri |-> Sum(LAMBDA i : s[i].hipri, all),
         cum_lopri |-> Sum(LAMBDA i : s[i].lopri, all)]

DemandsOf(children, S) == [k \in 1 .. Cardinality(S) |->
                             children[SetToSortSeq(S, <)[k]].demand]

\* The limit of one class: waterlevel, bonus and oversubscription.
Limit(adm, demands) ==
    LET wl    == FairShare(adm, demands)
        bonus == IF config.enable_bonus THEN EvenlyDistributeExtra(adm, demands, wl) ELSE 0
    IN  Times(Oversub, wl + bonus)

Bursty(parent, children, adm) ==
    IF config.enable_burstiness
    THEN Times(BweBurstinessFactor(parent.demand, children), adm) ELSE adm

ThrottleHipri(lopri_bps, picked) ==
    CASE config.throttle = "HTC_NEVER" -> FALSE
      [] config.throttle = "HTC_WHEN_ABOVE_HIPRI_LIMIT" -> lopri_bps > 0
      [] config.throttle = "HTC_WHEN_ASSIGNED_LOPRI" -> picked # {}
      [] config.throttle = "HTC_ALWAYS" -> TRUE

\* One FlowAlloc per child, with a limit in its class only.
Allocs(children, picked, hipri_limit, lopri_limit) ==
    [i \in DOMAIN children |-> IF i \in picked THEN [hipri |-> 0, lopri |-> lopri_limit]
                                               ELSE [hipri |-> hipri_limit, lopri |-> 0]]

Called(children, frac, picked, hipri, lopri) ==
    call' = [children |-> children, frac |-> frac, picked |-> picked,
             hipri |-> hipri, lopri |-> lopri]

\* Mutant: the two admissions are exchanged.
Limits_Swapped(children, picked, hipri_adm, lopri_adm) ==
    [hipri |-> Limit(lopri_adm, DemandsOf(children, DOMAIN children \ picked)),
     lopri |-> Limit(hipri_adm, DemandsOf(children, picked))]

\* HIPRI and LOPRI limits for a choice of children, as SimpleDowngrade and
\* HeypSigcomm20 set them.
Limits(children, picked, hipri_adm, lopri_adm) ==
    [hipri |-> Limit(hipri_adm, DemandsOf(children, DOMAIN children \ picked)),
     lopri |-> Limit(lopri_adm, DemandsOf(children, picked))]

\* SimpleDowngradeAllocator::AllocAgg with a downgrade_frac_controller: what
\* is added to downgrade_frac, in percents.
Increments(parent, ewma_max) ==
    IF parent.usage < admission.hipri THEN {-20}
    ELSE TrafficFracToDowngrade(FracConfig, parent.hipri_usage, parent.lopri_usage,
                                admission.hipri, ewma_max)

\* The controller's sanity check fails and the process exits.
ControllerExits(parent, ewma_max) ==
    /\ parent.usage >= admission.hipri
    /\ Exits(FracConfig, parent.hipri_usage, parent.lopri_usage, admission.hipri, ewma_max)

SimpleDowngrade(parent, children) ==
    LET volume == GetFlowVolume(parent, config.selector.downgrade_usage)
        lopri_bps == Max({0, volume - admission.hipri})
        max_child == Max({0} \cup {children[i].usage : i \in DOMAIN children})
        ewma == IF ewma_max_child_usage < 0 THEN max_child
                ELSE (3 * max_child + 7 * ewma_max_child_usage) \div 10
        hipri_adm == Bursty(parent, children, admission.hipri)
        lopri_adm == Bursty(parent, children, admission.lopri)
    IN  /\ config.type = "CA_SIMPLE_DOWNGRADE"
        /\ \E inc \in IF config.feedback THEN Increments(parent, ewma) ELSE {0} :
             LET next == Max({0, Min({100, downgrade_frac + inc})})
                 frac == IF config.feedback THEN Frac(next, 100)
                         ELSE ClampFracLOPRI(Frac(lopri_bps, volume))
             IN  \E choice \in PickLOPRIChildren(config.selector, children, frac) :
                   LET picked == IF frac.num <= 0 THEN {} ELSE choice
                       l == Limits(children, picked, hipri_adm, lopri_adm)
                   IN  /\ downgrade_frac' = next
                       /\ allocs' = Allocs(children, picked,
                                          IF ThrottleHipri(lopri_bps, picked) THEN l.hipri
                                          ELSE kMaxChildBandwidthBps, l.lopri)
                       /\ Called(children, frac, picked, hipri_adm, lopri_adm)
        /\ ewma_max_child_usage' = IF config.feedback THEN ewma ELSE ewma_max_child_usage
        /\ exited' = (config.feedback /\ ControllerExits(parent, ewma))
        /\ UNCHANGED heyp

\* HeypSigcomm20Allocator::AllocAgg
HeypSigcomm20Alloc(parent, children) ==
    LET time  == parent.time
        lopri == MaybeReviseLOPRIAdmission(AcceptableRatio, time, parent, heyp)
        frac  == FracAdmittedAtLOPRI(parent.demand, heyp.hipri, lopri)
        probe == ClampFracLOPRI(
                   IF config.probe
                   THEN FracAdmittedAtLOPRIToProbe(parent.demand, children, heyp.hipri,
                                                   lopri, demand_multiplier, frac)
                   ELSE frac)
        hipri_adm == Bursty(parent, children, heyp.hipri)
        lopri_adm == Bursty(parent, children, lopri)
    IN  /\ config.type = "CA_HEYP_SIGCOMM20"
        /\ \E picked \in PickLOPRIChildren(config.selector, children, probe) :
             LET l == Limits(children, picked, hipri_adm, lopri_adm)
                 demand == Total(DemandsOf(children, DOMAIN children))
                 got == Frac(Total(DemandsOf(children, picked)), demand)
             IN  /\ heyp' = [heyp EXCEPT !.lopri = lopri, !.last_time = time,
                                !.last_cum_hipri = parent.cum_hipri,
                                !.last_cum_lopri = parent.cum_lopri,
                                !.frac_lopri = IF Less(got, frac) THEN got ELSE frac]
                 /\ allocs' = Allocs(children, picked, l.hipri, l.lopri)
                 /\ Called(children, probe, picked, hipri_adm, lopri_adm)
        /\ UNCHANGED <<downgrade_frac, ewma_max_child_usage, exited>>

\* BweAggAllocator::AllocAgg: one limit for all, no LOPRI.
BweAlloc(parent, children) ==
    LET adm == Bursty(parent, children, admission.hipri)
    IN  /\ config.type = "CA_BWE"
        /\ allocs' = Allocs(children, {}, Limit(adm, DemandsOf(children, DOMAIN children)), 0)
        /\ Called(children, Zero, {}, adm, 0)
        /\ UNCHANGED <<downgrade_frac, ewma_max_child_usage, heyp, exited>>

\* NopAllocator, and every allocator for an aggregate without an admission.
NoAlloc(children) ==
    /\ config.type = "CA_NOP" \/ admission = NoAdmission
    /\ allocs' = <<>>
    /\ Called(children, Zero, {}, 0, 0)
    /\ UNCHANGED <<downgrade_frac, ewma_max_child_usage, heyp, exited>>

AllocAgg(parent, children) ==
    \/ NoAlloc(children)
    \/ /\ admission # NoAdmission
       /\ \/ SimpleDowngrade(parent, children)
          \/ HeypSigcomm20Alloc(parent, children)
          \/ BweAlloc(parent, children)

\* A control period.  The hosts in low sent their bytes as LOPRI.
Step(reports, low) ==
    LET children == ChildInfos(reports)
        s == Sent(reports, low)
        parent == UpdateUsage(agg, ParentUpdate(children, s), FALSE, 2 * Period, Period)
    IN  /\ period < MaxPeriods /\ ~exited
        /\ agg' = parent
        /\ sent' = s
        /\ prev' = Lopri
        /\ period' = period + 1
        /\ AllocAgg(parent, children)
        /\ UNCHANGED <<config, admission>>

Next == \E reports \in [DOMAIN Hosts -> Reports], low \in {Lopri, prev} : Step(reports, low)

Spec == Init /\ [][Next]_vars
-----------------------------------------------------------------------------
\* The controller's sanity check never ends the process (qos-downgrade.cc,
\* "saw invalid pre-clamping downgrade frac inc") with a prop_gain of at most
\* 1: an aggregate is only handed to the controller when its usage reached
\* the HIPRI admission, and the usages of the two classes that the aggregator
\* keeps apart always make up at least that usage.
ControllerNeverExits == ~exited

\* What the children may send within their limits is what their class is
\* admitted, times oversub_factor (burstiness included), whatever was picked;
\* unless HIPRI is not throttled.
WithinAdmission ==
    allocs # <<>> =>
      LET Use(S, Lim(_)) == MapThenSumSet(LAMBDA i : Min({call.children[i].demand, Lim(i)}), S)
          hi == DOMAIN allocs \ call.picked
      IN  /\ Use(call.picked, LAMBDA i : allocs[i].lopri) * Oversub.den
               <= Oversub.num * call.lopri
          /\ (\A i \in hi : allocs[i].hipri # kMaxChildBandwidthBps) =>
               Use(hi, LAMBDA i : allocs[i].hipri) * Oversub.den <= Oversub.num * call.hipri

\* Inferred LOPRI congestion only ever lowers the LOPRI admission ("avoid
\* increasing the LOPRI limit"), never below zero.
LopriAdmissionFalls == [][heyp'.lopri <= heyp.lopri /\ (heyp.lopri >= 0 => heyp'.lopri >= 0)]_vars

\* Hosts of one job have one QoS when whole jobs are downgraded.
JobsTogether ==
    config.selector.downgrade_jobs =>
      \A i, j \in DOMAIN call.children :
         call.children[i].job = call.children[j].job =>
            (i \in call.picked <=> j \in call.picked)

\* The greedy selectors never leave the LOPRI volume further from what was
\* asked for than it was: before the call for HeypSigcomm20, which starts from
\* the current assignment, none at all for LargestFirst.
GapNeverGrows ==
    LET view == IF config.selector.downgrade_jobs
                THEN JobLevelView(call.children, config.selector.downgrade_usage)
                ELSE HostLevelView(call.children, config.selector.downgrade_usage)
        chosen == IF config.selector.downgrade_jobs
                  THEN {JobIndex(call.children, i) : i \in call.picked} ELSE call.picked
        before == IF config.selector.type = "DS_HEYP_SIGCOMM20"
                  THEN {i \in DOMAIN view : view[i].lopri} ELSE {}
        Gap(S) == LET d == VolumeOf(view, S) * call.frac.den - call.frac.num * Volume(view)
                  IN  IF d < 0 THEN -d ELSE d
    IN  call.frac.num > 0 => Gap(chosen) < Gap(before) + call.frac.den

\* When HIPRI has room for all of the demand, every child goes back to HIPRI.
BackToHipri ==
    /\ config.type = "CA_HEYP_SIGCOMM20" /\ config.selector.type = "DS_HEYP_SIGCOMM20"
    /\ allocs # <<>> /\ agg.demand < heyp.hipri
    => Lopri = {}

\* A period's decision is safe: it ends no process, admits no more than it may,
\* splits no job, moves towards its target and back when there is room.
AllocInv == ControllerNeverExits /\ WithinAdmission /\ JobsTogether /\ GapNeverGrows
              /\ BackToHipri
=============================================================================
