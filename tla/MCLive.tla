------------------------------- MODULE MCLive -------------------------------
(***************************************************************************)
(* What must eventually happen: small instances of the components with a   *)
(* liveness property.  A behaviour is one of one component, chosen at the  *)
(* start and named by comp; the variables of the others stay as they are,  *)
(* and each fairness condition is that of the component's own FairSpec,    *)
(* for behaviours of that component.                                       *)
(***************************************************************************)
EXTENDS HostDaemon, TLC

VARIABLES
    comp,       \* the component this behaviour is of
    phase, broken, mu, reactor_finished, finishCalls, lis, listeners, nextLis,
    doomed, buf, staged, wip_write, has_staged, readOp, writeOp, inFlight, written,
    rpc, reactor_wpc, infos, reactor_cpc, reactor_todo, reactor_version,
    executor_tasks, is_dead, children, executor_wpc, wtask, wdead, wst, gpc, added,
    count, executor_status, executor_got, dpc, ran, executor_finished,
    sent, current, slot, reader, loaded, full_finished, registered, ids, bundles,
    full_pc, visited, num_ids, wips, agg_states, full_tasks, partial_sets, by_host,
    full_todo, full_version, last, full_got, reordered, full_aborted,
    conn, proc, events, mon, line, tracker, collect, batch, clock, bundle, bs, agg,
    dying, stale, stats_lost, late, stats_aborted,
    demands, capacity, sorted_demands, capacity_without_tiny, residual_capacity,
    lower_limit, upper_limit, waterlevel, fairness_pc,
    owner, process_timer, child, stubborn, heir, stdout, running, notify, fds,
    polled, timedout, process_raced, process_status,
    main, ostester_todo, step, serve, ostester_send, recv, go, down, locked, wire,
    counter, measured, ostester_raced, reports,
    kind, now, conns, retries, run, hr_now, started, load_timer, iterate, next,
    stage, writes, load_lost, wip, closed,
    hpc, hcode, hint, threads, agents_stream, inbox, agents_cpc, ccode, cint,
    recorder, up

HR == INSTANCE HostReactor WITH
    Reactors <- {"r1"}, MaxInfos <- 2, MaxBroadcasts <- 3,
    finished <- reactor_finished, wpc <- reactor_wpc, cpc <- reactor_cpc,
    todo <- reactor_todo, version <- reactor_version

EX == INSTANCE Executor WITH
    Workers <- {"w1", "w2"}, Groups <- {"g1"}, MaxTasks <- 3, tasks <- executor_tasks,
    wpc <- executor_wpc, status <- executor_status, got <- executor_got,
    finished <- executor_finished

FC == INSTANCE FullController WITH
    Hosts <- {"h1"}, FGs <- {"f"}, Movers <- {"h1"}, multNum <- 1, multDen <- 1,
    min_demand_bps <- 0, window <- 1, MaxTime <- 2, MaxRounds <- 2,
    finished <- full_finished, pc <- full_pc, tasks <- full_tasks, todo <- full_todo,
    version <- full_version, got <- full_got, aborted <- full_aborted

HS == INSTANCE HostStats WITH
    Tuples <- {"t1"}, Mine <- {"t1"}, DstDC <- [t \in {"t1"} |-> "dc"],
    NoDC <- "none", multNum <- 1, multDen <- 1, min_demand_bps <- 0, window <- 0,
    MaxGen <- 1, MaxBytes <- 1, MaxReports <- 1, lost <- stats_lost,
    aborted <- stats_aborted

MMF == INSTANCE MaxMinFairness WITH
    Demands <- {0, 1, 3}, MaxDemands <- 3, Capacities <- {0, 1, 4, 6},
    pc <- fairness_pc

SP == INSTANCE SubProcess WITH
    MaxOutput <- 1, Piped <- {"in", "out"}, timer <- process_timer,
    raced <- process_raced, status <- process_status

OT == INSTANCE OSTester WITH
    NumHosts <- 2, NumSteps <- 1, MaxSends <- 0, todo <- ostester_todo,
    send <- ostester_send, raced <- ostester_raced

LG == INSTANCE LoadGenerator WITH
    Kinds <- {"open", "semi"}, RunDurs <- <<2, 2>>, Delays <- {2}, NumConns <- 1,
    WritesPerConn <- 1, MaxTime <- 4, MaxRetries <- 1, timer <- load_timer,
    lost <- load_lost

AL == INSTANCE AgentLifecycle WITH
    Hosts <- {"h1"}, Servers <- {"s1", "s2"}, ServerOf <- [h \in {"h1"} |-> "s1"],
    stream <- agents_stream, cpc <- agents_cpc

reactorVars == <<phase, broken, mu, reactor_finished, finishCalls, lis, listeners,
                 nextLis, doomed, buf, staged, wip_write, has_staged, readOp,
                 writeOp, inFlight, written, rpc, reactor_wpc, infos, reactor_cpc,
                 reactor_todo, reactor_version>>
executorVars == <<executor_tasks, is_dead, children, executor_wpc, wtask, wdead,
                  wst, gpc, added, count, executor_status, executor_got, dpc, ran,
                  executor_finished>>
fullVars == <<sent, current, slot, reader, loaded, full_finished, registered, ids,
              bundles, full_pc, visited, num_ids, wips, agg_states, full_tasks,
              partial_sets, by_host, full_todo, full_version, last, full_got,
              reordered, full_aborted>>
statsVars == <<conn, proc, events, mon, line, tracker, collect, batch, clock,
               bundle, bs, agg, dying, stale, stats_lost, late, stats_aborted>>
fairnessVars == <<demands, capacity, sorted_demands, capacity_without_tiny,
                  residual_capacity, lower_limit, upper_limit, waterlevel,
                  fairness_pc>>
processVars == <<owner, process_timer, child, stubborn, heir, stdout, running,
                 notify, fds, polled, timedout, process_raced, process_status>>
ostesterVars == <<main, ostester_todo, step, serve, ostester_send, recv, go, down,
                  locked, wire, counter, measured, ostester_raced, reports>>
loadVars == <<kind, now, conns, retries, run, hr_now, started, load_timer, iterate,
              next, stage, writes, load_lost, wip, closed>>
agentsVars == <<hpc, hcode, hint, threads, agents_stream, inbox, agents_cpc, ccode,
                cint, recorder, up>>

AllVars == <<comp, vars, reactorVars, executorVars, fullVars, statsVars,
             fairnessVars, processVars, ostesterVars, loadVars, agentsVars>>

Components == {"daemon", "reactor", "executor", "full", "stats", "fairness",
               "process", "ostester", "load", "agents"}

MCInit ==
    /\ comp \in Components
    /\ Init /\ (comp # "daemon" => ~should_exit)
    /\ HR!Init
    /\ EX!Init
    /\ FC!Init
    /\ HS!Init
    /\ IF comp = "fairness" THEN MMF!Init
       ELSE /\ demands = 0 /\ capacity = 0 /\ sorted_demands = 0
            /\ capacity_without_tiny = 0 /\ residual_capacity = 0 /\ lower_limit = 0
            /\ upper_limit = 0 /\ waterlevel = 0 /\ fairness_pc = "off"
    /\ IF comp = "process" THEN SP!Init
       ELSE /\ owner = "off" /\ process_timer = 0 /\ child = 0 /\ stubborn = 0
            /\ heir = 0 /\ stdout = 0 /\ running = 0 /\ notify = "off" /\ fds = 0
            /\ polled = 0 /\ timedout = 0 /\ process_raced = 0 /\ process_status = 0
    /\ OT!Init
    /\ IF comp = "load" THEN LG!Init
       ELSE /\ kind = "off" /\ now = 0 /\ conns = 0 /\ retries = 0 /\ run = 0
            /\ hr_now = 0 /\ started = 0 /\ load_timer = 0 /\ iterate = 0
            /\ next = 0 /\ stage = 0 /\ writes = 0 /\ load_lost = 0 /\ wip = 0
            /\ closed = 0
    /\ AL!Init

MCNext ==
    /\ UNCHANGED comp
    /\ IF comp = "daemon" THEN Next ELSE UNCHANGED vars
    /\ IF comp = "reactor" THEN HR!Next ELSE UNCHANGED reactorVars
    /\ IF comp = "executor" THEN EX!Next ELSE UNCHANGED executorVars
    /\ IF comp = "full" THEN FC!Next ELSE UNCHANGED fullVars
    /\ IF comp = "stats" THEN HS!Next ELSE UNCHANGED statsVars
    /\ IF comp = "fairness" THEN MMF!Next ELSE UNCHANGED fairnessVars
    /\ IF comp = "process" THEN SP!Next ELSE UNCHANGED processVars
    /\ IF comp = "ostester" THEN OT!Next ELSE UNCHANGED ostesterVars
    /\ IF comp = "load" THEN LG!Next ELSE UNCHANGED loadVars
    /\ IF comp = "agents" THEN AL!Next ELSE UNCHANGED agentsVars

MCSpec == MCInit /\ [][MCNext]_AllVars

Fair ==
    /\ WF_vars(comp = "daemon" /\ SendStep) /\ WF_vars(comp = "daemon" /\ EnforceStep)
    /\ \A s \in StreamIds : WF_vars(comp = "daemon" /\ PeerFinish(s) /\ UNCHANGED loops)
    /\ WF_reactorVars(comp = "reactor" /\ HR!ReadFails("r1"))
    /\ WF_reactorVars(comp = "reactor" /\ HR!WriteCompletes("r1"))
    /\ WF_reactorVars(comp = "reactor" /\ HR!OnWriteStep("r1"))
    /\ WF_reactorVars(comp = "reactor" /\ HR!OnReadStep("r1"))
    /\ WF_reactorVars(comp = "reactor" /\ HR!OnDone("r1"))
    /\ WF_reactorVars(comp = "reactor" /\ HR!BroadcastStep)
    /\ \A w \in {"w1", "w2"} : WF_executorVars(comp = "executor" /\ EX!Worker(w))
    /\ \A g \in {"g1"} :
         /\ WF_executorVars(comp = "executor" /\ EX!AddTaskPush(g))
         /\ WF_executorVars(comp = "executor" /\ EX!WaitAll(g))
         /\ WF_executorVars(comp = "executor" /\ EX!Detach(g))
    /\ WF_executorVars(comp = "executor" /\ EX!ChildrenWait)
    /\ WF_executorVars(comp = "executor" /\ EX!Join)
    /\ WF_fullVars(comp = "full" /\ FC!ComputeAndBroadcast)
    /\ WF_fullVars(comp = "full" /\ \E lopri \in SUBSET {"h1"}, admitted \in BOOLEAN :
                                      FC!AllocAgg("f", lopri, admitted))
    /\ \A s \in {"h1"} \X {1, 2} : WF_fullVars(comp = "full" /\ FC!Reader(s))
    /\ WF_statsVars(comp = "stats" /\ HS!Terminate)
    /\ WF_statsVars(comp = "stats" /\ HS!MonitorDone)
    /\ WF_fairnessVars(comp = "fairness" /\ MMF!Next)
    /\ WF_processVars(comp = "process" /\ SP!Owner) /\ WF_processVars(comp = "process" /\ SP!Timer)
    /\ WF_ostesterVars(comp = "ostester" /\ OT!Run)
    /\ \A f \in {<<1, 2>>, <<2, 1>>} : /\ WF_ostesterVars(comp = "ostester" /\ OT!Sender(f))
                                       /\ WF_ostesterVars(comp = "ostester" /\ OT!Receiver(f))
    /\ \A w \in {1, 2} : WF_ostesterVars(comp = "ostester" /\ OT!Acceptor(w))
    /\ WF_ostesterVars(comp = "ostester" /\ (OT!CollectPeriodicReport \/ OT!PeriodPasses))
    /\ WF_loadVars(comp = "load" /\ LG!Clock) /\ WF_loadVars(comp = "load" /\ LG!Callback)
    /\ WF_loadVars(comp = "load" /\ LG!OnTimerTick)
    /\ WF_loadVars(comp = "load" /\ LG!OnConnect(1))
    /\ WF_loadVars(comp = "load" /\ (LG!OnWriteDone(1) \/ LG!OnWriteError(1)))
    /\ WF_agentsVars(comp = "agents" /\ AL!HostStep("h1"))
    /\ \A t \in AL!Threads : WF_agentsVars(comp = "agents" /\ AL!Thread("h1", t))
    /\ WF_agentsVars(comp = "agents" /\ AL!ClusterStep)

FairMCSpec == MCSpec /\ Fair
-----------------------------------------------------------------------------
\* HostDaemon, FullController: neither end of a connection uses what the other
\* thread has given up, a stream or a listener.
ConnectionsInv == /\ comp = "daemon" => DaemonInv
                  /\ comp = "full" => FC!ListenersAlive

\* HostReactor: a host gets the newest allocations, or its RPC is over; and the
\* reactor of a lost connection is deleted.
HostsServed == HR!NewestDelivered /\ HR!CleanedUp

\* What is told to stop stops: the executor, the ss monitor, a child process,
\* the agents.
StopIsHeard == /\ EX!DestructorReturns
               /\ HS!MonitorExits
               /\ SP!ProcessGone
               /\ AL!HostExits /\ AL!ClusterExits

\* What was started is finished: tasks, control periods, the search for the
\* waterlevel, a command's output, a test, a run of the load generator.
WorkEnds == /\ EX!TasksRun
            /\ FC!RoundsEnd
            /\ comp = "fairness" => MMF!SearchEnds
            /\ SP!CommunicateEnds
            /\ comp = "ostester" => OT!TestEnds
            /\ comp = "load" => LG!RunEnds
=============================================================================
