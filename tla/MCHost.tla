------------------------------- MODULE MCHost -------------------------------
(***************************************************************************)
(* Small instances of what runs on a host: the enforcer, on two flows of   *)
(* which one is simulated with netem and with rate limits on both sides of *)
(* the minimum rate, and the parts below it and beside it.  A behaviour is *)
(* one of one component, chosen at the start and named by comp; the        *)
(* variables of the others stay as they are.                               *)
(***************************************************************************)
EXTENDS LinuxEnforcer, TLC

CONSTANTS f1, f2

VARIABLES
    comp,       \* the component this behaviour is of
    controller_applied, controller_to_del, controller_snapshot, chain, commits,
    mended,
    runner_table, mu, call, buffer,
    entries, pairs, my_addrs, links, device, configs,
    process_owner, timer, child, stubborn, heir, stdout, running, notify, fds,
    polled, timedout, raced, status,
    log_owner, fd, log_pc, total, tail, shorts, result, closed, foreign, ops,
    conn, proc, events, mon, line, tracker, collect, batch, clock, stats_bundle, bs,
    agg, dying, stale, lost, late, aborted

IC == INSTANCE IptablesController WITH
    Ports <- {<<0, 0>>, <<0, 1>>}, Packets <- {<<1, 1>>, <<1, 2>>}, Addrs <- {1, 2},
    Classes <- {1, 2}, MaxSettings <- 2, MaxCommits <- 3,
    applied <- controller_applied, to_del <- controller_to_del,
    snapshot <- controller_snapshot

IR == INSTANCE IptablesRunner WITH
    Callers <- {"t1", "t2"}, Chains <- {"OUTPUT"}, Rules <- {"r1"},
    table <- runner_table

WS == INSTANCE WanSetup WITH
    Hosts <- {"h1", "h2", "h3"}, DCs <- {"east", "west"}, Devices <- {"eth0", "eth1"},
    MaxPairs <- 1

SP == INSTANCE SubProcess WITH
    MaxOutput <- 2, Piped <- {"in", "out"}, owner <- process_owner

JL == INSTANCE JsonLog WITH
    Fds <- {3, 4}, LineLen <- 3, MaxOps <- 4, owner <- log_owner, pc <- log_pc

HS == INSTANCE HostStats WITH
    Tuples <- {"t1"}, Mine <- {"t1"}, DstDC <- [t \in {"t1"} |-> "dc"],
    NoDC <- "none", multNum <- 1, multDen <- 1, min_demand_bps <- 0, window <- 0,
    MaxGen <- 2, MaxBytes <- 2, MaxReports <- 2, bundle <- stats_bundle

controllerVars == <<controller_applied, controller_to_del, controller_snapshot,
                    chain, commits, mended>>
runnerVars == <<runner_table, mu, call, buffer>>
wanVars == <<entries, pairs, my_addrs, links, device, configs>>
processVars == <<process_owner, timer, child, stubborn, heir, stdout, running,
                 notify, fds, polled, timedout, raced, status>>
logVars == <<log_owner, fd, log_pc, total, tail, shorts, result, closed, foreign,
             ops>>
statsVars == <<conn, proc, events, mon, line, tracker, collect, batch, clock,
               stats_bundle, bs, agg, dying, stale, lost, late, aborted>>

AllVars == <<comp, vars, controllerVars, runnerVars, wanVars, processVars, logVars,
             statsVars>>

Components == {"enforcer", "controller", "runner", "wan", "process", "log", "stats"}

MCInit ==
    /\ comp \in Components
    /\ Init
    /\ IF comp = "controller" THEN IC!Init
       ELSE /\ controller_applied = 0 /\ controller_to_del = 0
            /\ controller_snapshot = 0 /\ chain = 0 /\ commits = 0 /\ mended = 0
    /\ IF comp = "runner" THEN IR!Init
       ELSE /\ runner_table = [c \in {"OUTPUT"} |-> <<>>] /\ mu = "free"
            /\ call = [c \in {"t1", "t2"} |-> IR!NoCall] /\ buffer = runner_table
    /\ IF comp = "wan" THEN WS!Init
       ELSE /\ entries = 0 /\ pairs = 0 /\ my_addrs = 0 /\ links = 0 /\ device = 0
            /\ configs = 0
    /\ IF comp = "process" THEN SP!Init
       ELSE /\ process_owner = 0 /\ timer = 0 /\ child = 0 /\ stubborn = 0
            /\ heir = 0 /\ stdout = 0 /\ running = 0 /\ notify = 0 /\ fds = 0
            /\ polled = 0 /\ timedout = 0 /\ raced = 0 /\ status = 0
    /\ IF comp = "log" THEN JL!Init
       ELSE /\ log_owner = 0 /\ fd = 0 /\ log_pc = 0 /\ total = 0 /\ tail = 0
            /\ shorts = 0 /\ result = 0 /\ closed = 0 /\ foreign = 0 /\ ops = 0
    /\ IF comp = "stats" THEN HS!Init
       ELSE /\ conn = 0 /\ proc = 0 /\ events = 0 /\ mon = 0 /\ line = 0
            /\ tracker = 0 /\ collect = 0 /\ batch = 0 /\ clock = 0
            /\ stats_bundle = 0 /\ bs = 0 /\ agg = 0 /\ dying = 0 /\ stale = 0
            /\ lost = 0 /\ late = 0 /\ aborted = 0

MCNext ==
    /\ UNCHANGED comp
    /\ IF comp = "enforcer" THEN Next ELSE UNCHANGED vars
    /\ IF comp = "controller" THEN IC!Next ELSE UNCHANGED controllerVars
    /\ IF comp = "runner" THEN IR!Next ELSE UNCHANGED runnerVars
    /\ IF comp = "wan" THEN WS!Next ELSE UNCHANGED wanVars
    /\ IF comp = "process" THEN SP!Next ELSE UNCHANGED processVars
    /\ IF comp = "log" THEN JL!Next ELSE UNCHANGED logVars
    /\ IF comp = "stats" THEN HS!Next ELSE UNCHANGED statsVars

MCSpec == MCInit /\ [][MCNext]_AllVars
-----------------------------------------------------------------------------
\* IptablesController: snapshot, lookup and chain agree.
ChainInv == comp = "controller" => IC!ChainInv

\* IptablesRunner: what a call checked holds when it acts, and its OK is true.
OkIsTrue == IR!OkIsTrue

\* WanSetup: the device serves this host, and every remote host has a link.
SetUpRight == comp = "wan" => WS!SetUpRight

\* SubProcess: all of the output is returned, and nothing is left behind.
ProcessInv == comp = "process" => SP!ProcessInv

\* JsonLog: an OK means a whole line, and no file leaks.
LogInv == comp = "log" => JL!LogInv

\* HostStats: every byte is counted once and every closed flow ends.
StatsInv == comp = "stats" => HS!StatsInv
=============================================================================
