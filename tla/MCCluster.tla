----------------------------- MODULE MCCluster ------------------------------
(***************************************************************************)
(* Small instances of what runs in a cluster agent: two connections of     *)
(* hosts to the server, the full controller behind it, the two things that *)
(* its threads share, the executor and the indexed map, and the tester     *)
(* that plays the agents' traffic.  A behaviour is one of one component,   *)
(* chosen at the start and named by comp; the variables of the others stay *)
(* as they are.                                                            *)
(***************************************************************************)
EXTENDS HostReactor, TLC

CONSTANTS
    Workers, Groups, MaxTasks,                  \* of Executor
    Keys, Users, kSpanSize, kNumSpans, MaxOps,  \* of ParIndexedMap
    NumHosts, NumSteps, MaxSends                \* of OSTester

ASSUME ClusterAssumption ==
    /\ MaxTasks \in Nat
    /\ kSpanSize \in Nat \ {0} /\ kNumSpans \in Nat
    /\ Keys # {} /\ "free" \notin Users
    /\ NumHosts \in Nat \ {0}

VARIABLES
    comp,       \* the component this behaviour is of
    sent, current, slot, reader, loaded, full_finished, registered, ids, bundles,
    pc, visited, num_ids, wips, agg_states, full_tasks, partial_sets, by_host,
    full_todo, full_version, last, full_got, reordered, aborted,
    executor_tasks, is_dead, children, executor_wpc, wtask, wdead, wst, gpc, added,
    count, status, executor_got, dpc, ran, executor_finished,
    spans, len, id_map, add_mu, user, walk,
    main, ostester_todo, step, serve, send, recv, go, down, locked, wire, counter,
    measured, raced, reports

FC == INSTANCE FullController WITH
    Hosts <- {"h1", "h2"}, FGs <- {"f"}, Movers <- {}, multNum <- 1, multDen <- 1,
    min_demand_bps <- 0, window <- 1, MaxTime <- 2, MaxRounds <- 2,
    finished <- full_finished, tasks <- full_tasks, todo <- full_todo,
    version <- full_version, got <- full_got

EX == INSTANCE Executor WITH
    tasks <- executor_tasks, wpc <- executor_wpc, got <- executor_got,
    finished <- executor_finished

PM == INSTANCE ParIndexedMap

OT == INSTANCE OSTester WITH todo <- ostester_todo

fullVars == <<sent, current, slot, reader, loaded, full_finished, registered, ids,
              bundles, pc, visited, num_ids, wips, agg_states, full_tasks,
              partial_sets, by_host, full_todo, full_version, last, full_got,
              reordered, aborted>>
executorVars == <<executor_tasks, is_dead, children, executor_wpc, wtask, wdead,
                  wst, gpc, added, count, status, executor_got, dpc, ran,
                  executor_finished>>
mapVars == <<spans, len, id_map, add_mu, user, walk>>
ostesterVars == <<main, ostester_todo, step, serve, send, recv, go, down, locked,
                  wire, counter, measured, raced, reports>>

AllVars == <<comp, vars, fullVars, executorVars, mapVars, ostesterVars>>

Components == {"reactor", "full", "executor", "map", "ostester"}

MCInit ==
    /\ comp \in Components
    /\ Init
    /\ FC!Init
    /\ EX!Init
    /\ PM!Init /\ (comp # "map" => \A i \in DOMAIN spans : spans[i] = PM!Null)
    /\ OT!Init

MCNext ==
    /\ UNCHANGED comp
    /\ IF comp = "reactor" THEN Next ELSE UNCHANGED vars
    /\ IF comp = "full" THEN FC!Next ELSE UNCHANGED fullVars
    /\ IF comp = "executor" THEN EX!Next ELSE UNCHANGED executorVars
    /\ IF comp = "map" THEN PM!Next ELSE UNCHANGED mapVars
    /\ IF comp = "ostester" THEN OT!Next ELSE UNCHANGED ostesterVars

MCSpec == MCInit /\ [][MCNext]_AllVars
-----------------------------------------------------------------------------
\* FullController: counts never fall, broadcasts are whole, feedback lags one period.
PeriodInv == comp = "full" => FC!PeriodInv

\* Executor implements TaskGroups.
PoolSpec == EX!PoolSpec

\* ParIndexedMap implements IndexedMap.
MapSpec == PM!MapSpec

\* What the threads of the agents and of the tester share: the executor loses
\* no task, the map no entry, and the counters of a test flow no byte.
ThreadsInv == /\ comp = "executor" => EX!PoolInv
              /\ comp = "map" => PM!MapInv
              /\ comp = "ostester" => OT!Conserved
=============================================================================
