---------------------------- MODULE MCAlgorithms ----------------------------
(***************************************************************************)
(* Small instances of the components without a process of their own: the   *)
(* algorithms that decide who is sent as LOPRI and how much each host may  *)
(* send, and the tools that generate load and record results.  A behaviour *)
(* is one of one component, chosen at the start and named by comp; the     *)
(* variables of the others stay as they are.                               *)
(***************************************************************************)
EXTENDS HashingDowngradeSelector, TLC

\* Three children of two jobs; a child reports nothing or a lot.
Kids == <<[host |-> 1, job |-> "a"], [host |-> 2, job |-> "b"], [host |-> 3, job |-> "a"]>>
KidReports == {[bytes |-> 0, usage |-> 0, demand |-> 5],
               [bytes |-> 20, usage |-> 24, demand |-> 27]}

Config(type, feedback, sel, jobs, usage, burst, bonus, throttle) ==
    [type |-> type, feedback |-> feedback, probe |-> TRUE,
     selector |-> [type |-> sel, downgrade_jobs |-> jobs, downgrade_usage |-> usage],
     enable_burstiness |-> burst, enable_bonus |-> bonus, throttle |-> throttle]

AllocConfigs == {
    Config("CA_SIMPLE_DOWNGRADE", TRUE, "DS_LARGEST_FIRST", FALSE, TRUE, FALSE, TRUE,
           "HTC_WHEN_ASSIGNED_LOPRI"),
    Config("CA_SIMPLE_DOWNGRADE", FALSE, "DS_KNAPSACK_SOLVER", TRUE, FALSE, TRUE, FALSE,
           "HTC_WHEN_ABOVE_HIPRI_LIMIT"),
    Config("CA_SIMPLE_DOWNGRADE", FALSE, "DS_LARGEST_FIRST", FALSE, FALSE, TRUE, TRUE,
           "HTC_NEVER"),
    Config("CA_HEYP_SIGCOMM20", FALSE, "DS_HEYP_SIGCOMM20", FALSE, FALSE, TRUE, TRUE,
           "HTC_ALWAYS"),
    Config("CA_HEYP_SIGCOMM20", FALSE, "DS_HEYP_SIGCOMM20", TRUE, FALSE, FALSE, FALSE,
           "HTC_ALWAYS"),
    Config("CA_BWE", FALSE, "DS_LARGEST_FIRST", FALSE, FALSE, TRUE, TRUE, "HTC_ALWAYS"),
    Config("CA_NOP", FALSE, "DS_LARGEST_FIRST", FALSE, FALSE, FALSE, FALSE, "HTC_ALWAYS")}

KidAdmissions == {[hipri |-> 30, lopri |-> 30], [hipri |-> 40, lopri |-> 10],
                  [hipri |-> 50, lopri |-> 0]}

\* Snapshots of a fixed pattern: several, with pairs for no host; one that has
\* more than the hosts there are; none.
Pair(alloc, num_hosts) == [alloc |-> alloc, num_hosts |-> num_hosts]
FixedPatterns == (1 :> <<<<Pair(5, 2), Pair(7, 0), Pair(2, 1)>>, <<Pair(3, 0), Pair(4, 1)>>,
                         <<>> >>) @@ (2 :> <<<<Pair(5, 9)>>>>) @@ (3 :> <<>>)

VARIABLES
    comp,       \* the component this behaviour is of
    demands, capacity, sorted_demands, capacity_without_tiny, residual_capacity,
    lower_limit, upper_limit, waterlevel, fairness_pc,
    nth_call, arr, scr, f, g, n, nth, mode,
    leaf, all, aborted,
    config, admission, agg, downgrade_frac, ewma_max_child_usage, heyp, sent, prev,
    alloc_call, alloc_allocs, exited, period,
    fixed_next, step, fixed_pc, snapshot, loaded, pair_index, pair_remaining,
    fixed_allocs,
    a, b,
    sampler, usage, sampler_lopri, pending, est, counts, volume,
    sizes, issued, buf, queue, completed, num_issued, num_seen, read_buf_size,
    to_server, to_client, stream, acks, up,
    kind, now, conns, retries, run, hr_now, load_started, timer, iterate, load_next,
    stage, writes, lost, wip, load_closed,
    cum, prev_cum, rpcs, hist, recorder_started, steps, bounds, task, recorder_file,
    open, write_status, recorder_closed,
    merge_file, torn, pos, eof, merge_next, cur_records, num_done, output,
    merge_status,
    num_shards, pids, shards_status, reaped, i, shards_pc, ret

MMF == INSTANCE MaxMinFairness WITH
    Demands <- {0, 1, 2, 4}, MaxDemands <- 4, Capacities <- {0, 1, 3, 4, 6, 9},
    pc <- fairness_pc

NE == INSTANCE NthElement WITH
    kSmallSortThreshold <- 1, Values <- {1, 2, 3}, MaxLen <- 4, call <- nth_call

DH == INSTANCE DemandHistory WITH
    multNum <- 11, multDen <- 10, min_demand_bps <- 5, time_window <- 2,
    usage_history_window <- 2, Counters <- {1, 3}, Rates <- {0, 20}, MaxTime <- 6,
    MaxUpdates <- 4

PA == INSTANCE PerAggAllocators WITH
    multNum <- 11, multDen <- 10, min_demand_bps <- 5, Hosts <- Kids,
    Reports <- KidReports, Configs <- AllocConfigs, Admissions <- KidAdmissions,
    FracConfig <- [prop_gain |-> 100, max_inc |-> 40, ignore_overage_below |-> 5, coarseness |-> 50],
    Oversub <- [num |-> 5, den |-> 4], MaxPeriods <- 3, call <- alloc_call,
    allocs <- alloc_allocs

FH == INSTANCE FixedHostPattern WITH
    FGs <- {1, 2, 3}, Patterns <- FixedPatterns, NumChildren <- 4, MaxSteps <- 2,
    next <- fixed_next, pc <- fixed_pc, allocs <- fixed_allocs

FM == INSTANCE FlowMarkers

TS == INSTANCE ThresholdSampler WITH
    Hosts <- {"h1", "h2", "h3"},
    Shard <- [h \in {"h1", "h2", "h3"} |-> IF h = "h1" THEN 0 ELSE 1],
    Usages <- {0, 1, 2, 5}, Samplers <- {<<2, 6>>, <<3, 5>>, <<2, 0>>, <<4, 3>>},
    lopri <- sampler_lopri

RS == INSTANCE RpcStream WITH
    Workloads <- {<<3, 3, 3, 3>>, <<2, 2, 2, 2>>, <<4, 4, 4>>}, SockCap <- 4

LG == INSTANCE LoadGenerator WITH
    Kinds <- {"open", "semi"}, RunDurs <- <<2, 2>>, Delays <- {2, 3}, NumConns <- 1,
    WritesPerConn <- 2, MaxTime <- 6, MaxRetries <- 1, started <- load_started,
    next <- load_next, closed <- load_closed

SR == INSTANCE StatsRecorder WITH
    MaxRpcs <- 3, MaxSteps <- 3, Junk <- {0, 5}, started <- recorder_started,
    file <- recorder_file, closed <- recorder_closed

ML == INSTANCE MergeLogs WITH
    NumFiles <- 2, Labels <- {"a", "b"}, Counts <- {1}, MaxLines <- 2,
    file <- merge_file, next <- merge_next, status <- merge_status

SM == INSTANCE ShardedMain WITH
    MaxShards <- 3, Codes <- {0, 2}, Signals <- {6}, status <- shards_status,
    pc <- shards_pc

fairnessVars == <<demands, capacity, sorted_demands, capacity_without_tiny,
                  residual_capacity, lower_limit, upper_limit, waterlevel,
                  fairness_pc>>
nthVars == <<nth_call, arr, scr, f, g, n, nth, mode>>
demandVars == <<leaf, all, aborted>>
allocVars == <<config, admission, agg, downgrade_frac, ewma_max_child_usage, heyp,
               sent, prev, alloc_call, alloc_allocs, exited, period>>
fixedVars == <<fixed_next, step, fixed_pc, snapshot, loaded, pair_index,
               pair_remaining, fixed_allocs>>
markersVars == <<a, b>>
samplerVars == <<sampler, usage, sampler_lopri, pending, est, counts, volume>>
rpcVars == <<sizes, issued, buf, queue, completed, num_issued, num_seen,
             read_buf_size, to_server, to_client, stream, acks, up>>
loadVars == <<kind, now, conns, retries, run, hr_now, load_started, timer, iterate,
              load_next, stage, writes, lost, wip, load_closed>>
recorderVars == <<cum, prev_cum, rpcs, hist, recorder_started, steps, bounds, task,
                  recorder_file, open, write_status, recorder_closed>>
mergeVars == <<merge_file, torn, pos, eof, merge_next, cur_records, num_done,
               output, merge_status>>
shardsVars == <<num_shards, pids, shards_status, reaped, i, shards_pc, ret>>

AllVars == <<comp, selectorVars, fairnessVars, nthVars, demandVars, allocVars, fixedVars,
             markersVars, samplerVars, rpcVars, loadVars, recorderVars, mergeVars,
             shardsVars>>

Components == {"hashing", "fairness", "nth", "demand", "alloc", "fixed", "markers",
               "sampler", "rpc", "load", "recorder", "merge", "shards"}

MCInit ==
    /\ comp \in Components
    /\ SelectorInit
    /\ IF comp = "fairness" THEN MMF!Init
       ELSE /\ demands = 0 /\ capacity = 0 /\ sorted_demands = 0
            /\ capacity_without_tiny = 0 /\ residual_capacity = 0 /\ lower_limit = 0
            /\ upper_limit = 0 /\ waterlevel = 0 /\ fairness_pc = 0
    /\ IF comp = "nth" THEN NE!Init
       ELSE /\ nth_call = 0 /\ arr = 0 /\ scr = 0 /\ f = 0 /\ g = 0 /\ n = 0
            /\ nth = 0 /\ mode = 0
    /\ DH!Init
    /\ IF comp = "alloc" THEN PA!Init
       ELSE /\ config = 0 /\ admission = 0 /\ agg = 0 /\ downgrade_frac = 0
            /\ ewma_max_child_usage = 0 /\ heyp = [lopri |-> 0] /\ sent = 0
            /\ prev = 0 /\ alloc_call = 0 /\ alloc_allocs = 0 /\ exited = 0
            /\ period = 0
    /\ FH!Init
    /\ FM!Init
    /\ IF comp = "sampler" THEN TS!Init
       ELSE /\ sampler = 0 /\ usage = 0 /\ sampler_lopri = 0 /\ pending = 0
            /\ est = 0 /\ counts = 0 /\ volume = 0
    /\ IF comp = "rpc" THEN RS!Init
       ELSE /\ sizes = 0 /\ issued = 0 /\ buf = 0 /\ queue = 0 /\ completed = 0
            /\ num_issued = 0 /\ num_seen = 0 /\ read_buf_size = 0 /\ to_server = 0
            /\ to_client = 0 /\ stream = 0 /\ acks = 0 /\ up = 0
    /\ IF comp = "load" THEN LG!Init
       ELSE /\ kind = 0 /\ now = 0 /\ conns = 0 /\ retries = 0 /\ run = 0
            /\ hr_now = 0 /\ load_started = 0 /\ timer = 0 /\ iterate = 0
            /\ load_next = 0 /\ stage = 0 /\ writes = 0 /\ lost = 0 /\ wip = 0
            /\ load_closed = 0
    /\ IF comp = "recorder" THEN SR!Init
       ELSE /\ cum = 0 /\ prev_cum = 0 /\ rpcs = 0 /\ hist = 0
            /\ recorder_started = 0 /\ steps = 0 /\ bounds = 0 /\ task = 0
            /\ recorder_file = 0 /\ open = 0 /\ write_status = 0
            /\ recorder_closed = 0
    /\ IF comp = "merge" THEN ML!Init
       ELSE /\ merge_file = 0 /\ torn = 0 /\ pos = 0 /\ eof = 0 /\ merge_next = 0
            /\ cur_records = 0 /\ num_done = 0 /\ output = 0 /\ merge_status = 0
    /\ IF comp = "shards" THEN SM!Init
       ELSE /\ num_shards = 0 /\ pids = 0 /\ shards_status = 0 /\ reaped = 0
            /\ i = 0 /\ shards_pc = 0 /\ ret = 0

MCNext ==
    /\ UNCHANGED comp
    /\ IF comp = "hashing" THEN SelectorNext ELSE UNCHANGED selectorVars
    /\ IF comp = "fairness" THEN MMF!Next ELSE UNCHANGED fairnessVars
    /\ IF comp = "nth" THEN NE!Next ELSE UNCHANGED nthVars
    /\ IF comp = "demand" THEN DH!Next ELSE UNCHANGED demandVars
    /\ IF comp = "alloc" THEN PA!Next ELSE UNCHANGED allocVars
    /\ IF comp = "fixed" THEN FH!Next ELSE UNCHANGED fixedVars
    /\ IF comp = "markers" THEN FM!Next ELSE UNCHANGED markersVars
    /\ IF comp = "sampler" THEN TS!Next ELSE UNCHANGED samplerVars
    /\ IF comp = "rpc" THEN RS!Next ELSE UNCHANGED rpcVars
    /\ IF comp = "load" THEN LG!Next ELSE UNCHANGED loadVars
    /\ IF comp = "recorder" THEN SR!Next ELSE UNCHANGED recorderVars
    /\ IF comp = "merge" THEN ML!Next ELSE UNCHANGED mergeVars
    /\ IF comp = "shards" THEN SM!Next ELSE UNCHANGED shardsVars

MCSpec == MCInit /\ [][MCNext]_AllVars
-----------------------------------------------------------------------------
\* DemandHistory: histories stay within the CHECKs and long enough.
DemandInv == comp = "demand" => DH!DemandInv

\* FlowMarkers: comparing, hashing, checking and aggregating agree.
MarkersInv == comp = "markers" => FM!MarkersInv

\* ThresholdSampler: over all draws the estimates are right on average.
SamplerInv == comp = "sampler" => TS!SamplerInv

\* ShardedMain: the parent outlives its shards and returns the worst status.
ShardsInv == comp = "shards" => SM!ShardsInv

\* MaxMinFairness and NthElement, which it calls: the solvers are exact.
SolversExact == /\ comp = "fairness" => MMF!WaterlevelInv
                /\ comp = "nth" => NE!SelectionInv

\* PerAggAllocators, FixedHostPattern: the decisions of a period are safe, and
\* a fixed pattern is handed out as it was written.
AllocationsRight == /\ comp = "alloc" => PA!AllocInv
                    /\ comp = "fixed" => FH!HostsByCount

\* RpcStream, LoadGenerator: the client's requests and answers match, and the
\* client is never waiting for nothing.
ClientInv == /\ comp = "rpc" => RS!StreamInv
             /\ comp = "load" => LG!GeneratorInv

\* StatsRecorder, MergeLogs: what is recorded and merged is complete.
RecordsComplete == /\ comp = "recorder" => SR!RecordInv
                   /\ comp = "merge" => ML!MergeInv

\* No step of a history is taken back or made in vain: a diff names no id
\* whose marking it keeps (HashRing), an update takes back no time and no
\* bytes (DemandHistory), and inferred congestion does not raise the LOPRI
\* admission (PerAggAllocators).
StepsForward == NoRedundantChange /\ DH!NeverBack /\ PA!LopriAdmissionFalls
=============================================================================
