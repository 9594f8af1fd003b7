-------------------------- MODULE AgentLifecycle --------------------------
(***************************************************************************)
(* From main to exit: the host agents (host-agent/host-agent.cc with       *)
(* HostDaemon::Run and ~HostDaemon) and the cluster agent                  *)
(* (cluster-agent/cluster-agent.cc with RunLoop).  SIGINT only sets a flag *)
(* that the loops read.  A host's enforcer thread may be waiting for a     *)
(* bundle at that time, and grpc::Server::Shutdown (external) waits        *)
(* without a deadline until the streams of the hosts have ended.           *)
(*                                                                         *)
(* HostDaemon has the calls on the stream one by one; here a stream is     *)
(* none, open, registered (the cluster agent got a bundle on it), or       *)
(* cancelled.                                                              *)
(***************************************************************************)
EXTENDS Integers, FiniteSets

CONSTANTS
    Hosts,
    Servers,        \* one for each address the cluster agent listens on
    ServerOf        \* [Hosts -> Servers]: cluster_agent_addr of a host

VARIABLES
    hpc, hcode,     \* host agent: what Run does next, and its exit code
    hint,           \* host agent: should_exit_flag
    threads,        \* host agent: stats, info and enforcer threads
    stream, inbox,  \* its stream, and whether a bundle waits on it
    cpc, ccode, cint,
    recorder,       \* alloc_recorder
    up              \* servers: "down", "up", "null" (not bound), "drain"

host == <<hpc, hcode, hint, threads>>
cluster == <<cpc, ccode, cint, recorder, up>>
vars == <<host, stream, inbox, cluster>>

Threads == {"stats", "info", "enforcer"}
Running == -1

Init ==
    /\ hpc = [h \in Hosts |-> "main"] /\ hcode = [h \in Hosts |-> Running]
    /\ hint = [h \in Hosts |-> FALSE]
    /\ threads = [h \in Hosts |-> [t \in Threads |-> "none"]]
    /\ stream = [h \in Hosts |-> "none"] /\ inbox = [h \in Hosts |-> FALSE]
    /\ cpc = "main" /\ ccode = Running /\ cint = FALSE
    /\ recorder = "none"
    /\ up = [s \in Servers |-> "down"]
-----------------------------------------------------------------------------
(* host-agent.cc *)

HostInterrupt(h) ==
    /\ hcode[h] = Running /\ ~hint[h]
    /\ hint' = [hint EXCEPT ![h] = TRUE]
    /\ UNCHANGED <<hpc, hcode, threads, stream, inbox, cluster>>

HostExit(h, code) ==
    /\ hpc' = [hpc EXCEPT ![h] = "exited"]
    /\ hcode' = [hcode EXCEPT ![h] = code]

HostGoes(h, to) == hpc' = [hpc EXCEPT ![h] = to] /\ UNCHANGED hcode

\* The arguments, the pid file and the config file.
HostMain(h) ==
    /\ hpc[h] = "main"
    /\ \/ HostGoes(h, "parse") \/ HostExit(h, 1) \/ HostExit(h, 2)
    /\ UNCHANGED <<hint, threads, stream, inbox, cluster>>

\* Durations and predictors; then tracker, aggregator and reporter, whose
\* monitor process may not start.
HostParse(h) ==
    /\ hpc[h] = "parse"
    /\ HostGoes(h, "enforcer") \/ HostExit(h, 3)
    /\ UNCHANGED <<hint, threads, stream, inbox, cluster>>

\* Without a device Run returns; errors of ResetDeviceConfig and
\* InitSimulatedWan are only logged.
HostEnforcer(h) ==
    /\ hpc[h] = "enforcer"
    /\ HostGoes(h, "connect") \/ HostExit(h, 3)
    /\ UNCHANGED <<hint, threads, stream, inbox, cluster>>

\* WaitForConnected, until cluster_agent_connection_timeout.
HostConnect(h) ==
    /\ hpc[h] = "connect"
    /\ \/ up[ServerOf[h]] = "up" /\ HostGoes(h, "daemon")
       \/ HostExit(h, 3)
    /\ UNCHANGED <<hint, threads, stream, inbox, cluster>>

\* HostDaemon::Run: CollectStats once, then the threads; Run returns to
\* ~HostDaemon.  SendInfos sends before it looks at the flag.
DaemonRun(h) ==
    /\ hpc[h] = "daemon"
    /\ HostGoes(h, "join")
    /\ threads' = [threads EXCEPT ![h] =
                     [t \in Threads |-> IF t = "info" THEN "body" ELSE "check"]]
    /\ UNCHANGED <<hint, stream, inbox, cluster>>

\* The loop condition of CollectStats and of EnforceAllocs.
Loop(h, t) ==
    /\ t # "info" /\ threads[h][t] = "check"
    /\ threads' = [threads EXCEPT ![h][t] = IF hint[h] THEN "done" ELSE "body"]
    /\ UNCHANGED <<hpc, hcode, hint, stream, inbox, cluster>>

CollectStats(h) ==
    /\ threads[h]["stats"] = "body"
    /\ threads' = [threads EXCEPT ![h]["stats"] = "check"]
    /\ UNCHANGED <<hpc, hcode, hint, stream, inbox, cluster>>

Opened(h) == stream[h] # "none" \/ up[ServerOf[h]] = "up"

\* Write opens the stream if the server takes it.
SendInfos(h) ==
    /\ threads[h]["info"] = "body"
    /\ threads' = [threads EXCEPT ![h]["info"] = "check"]
    /\ stream' = [stream EXCEPT ![h] = IF Opened(h) THEN "registered" ELSE "none"]
    /\ UNCHANGED <<hpc, hcode, hint, inbox, cluster>>

\* Mutant: the stream is closed without a cancel.
SendInfosEnd_NoCancel(h) ==
    /\ threads[h]["info"] = "check"
    /\ threads' = [threads EXCEPT ![h]["info"] = IF hint[h] THEN "done" ELSE "body"]
    /\ UNCHANGED <<hpc, hcode, hint, stream, inbox, cluster>>

\* After the loop: WritesDone and TryCancel.
SendInfosEnd(h) ==
    /\ threads[h]["info"] = "check"
    /\ IF hint[h]
       THEN /\ threads' = [threads EXCEPT ![h]["info"] = "done"]
            /\ stream' = [stream EXCEPT ![h] = "cancelled"]
       ELSE /\ threads' = [threads EXCEPT ![h]["info"] = "body"]
            /\ UNCHANGED stream
    /\ UNCHANGED <<hpc, hcode, hint, inbox, cluster>>

\* Read opens the stream too, but a host that sent nothing is not registered.
EnforceRead(h) ==
    /\ threads[h]["enforcer"] = "body"
    /\ threads' = [threads EXCEPT ![h]["enforcer"] = "reading"]
    /\ stream' = [stream EXCEPT ![h] = IF @ = "none" /\ Opened(h) THEN "open" ELSE @]
    /\ UNCHANGED <<hpc, hcode, hint, inbox, cluster>>

\* Read returns a bundle, or an error if there is no stream or it is cancelled.
EnforceAllocs(h) ==
    /\ threads[h]["enforcer"] = "reading"
    /\ inbox[h] \/ stream[h] \in {"none", "cancelled"}
    /\ inbox' = [inbox EXCEPT ![h] = FALSE]
    /\ threads' = [threads EXCEPT ![h]["enforcer"] = "check"]
    /\ UNCHANGED <<hpc, hcode, hint, stream, cluster>>

\* ~HostDaemon joins the threads; Run returns and the stream is dropped.
DaemonJoined(h) ==
    /\ hpc[h] = "join"
    /\ \A t \in Threads : threads[h][t] = "done"
    /\ HostExit(h, 0)
    /\ stream' = [stream EXCEPT ![h] = "none"]
    /\ inbox' = [inbox EXCEPT ![h] = FALSE]
    /\ UNCHANGED <<hint, threads, cluster>>
-----------------------------------------------------------------------------
(* cluster-agent.cc *)

ClusterInterrupt ==
    /\ ccode = Running /\ ~cint
    /\ cint' = TRUE
    /\ UNCHANGED <<host, stream, inbox, cpc, ccode, recorder, up>>

ClusterExit(code) == cpc' = "exited" /\ ccode' = code

\* The arguments, config and limits; the control period and the predictor.
ClusterMain ==
    /\ cpc = "main"
    /\ \/ cpc' = "create" /\ UNCHANGED ccode
       \/ \E code \in 1..3 : ClusterExit(code)
    /\ UNCHANGED <<host, stream, inbox, cint, recorder, up>>

\* The allocator may be refused, after the recorder was created.
CreateController ==
    /\ cpc = "create"
    /\ recorder' \in {"none", "open"}
    /\ \/ cpc' = "serve" /\ UNCHANGED ccode
       \/ ClusterExit(3)
    /\ UNCHANGED <<host, stream, inbox, cint, up>>

\* BuildAndStart returns null for an address that cannot be bound; the loop
\* goes on with the others.
BuildAndStart(s) ==
    /\ cpc = "serve" /\ up[s] = "down"
    /\ \E got \in {"up", "null"} : up' = [up EXCEPT ![s] = got]
    /\ cpc' = IF \A r \in Servers : up'[r] # "down" THEN "loop" ELSE cpc
    /\ UNCHANGED <<host, stream, inbox, ccode, cint, recorder>>

\* RunLoop: every round sends a bundle to each host with a stream.
RunLoop ==
    /\ cpc = "loop"
    /\ IF cint
       THEN cpc' = "close" /\ UNCHANGED inbox
       ELSE inbox' = [h \in Hosts |-> inbox[h] \/ stream[h] = "registered"] /\ UNCHANGED cpc
    /\ UNCHANGED <<host, stream, ccode, cint, recorder, up>>

CloseRecorder ==
    /\ cpc = "close"
    /\ recorder' = IF recorder = "open" THEN "closed" ELSE recorder
    /\ cpc' = "shutdown"
    /\ UNCHANGED <<host, stream, inbox, ccode, cint, up>>

\* Servers shut down one after the other; Shutdown through a null pointer ends
\* the process, and its streams with it.
Shutdown(s) ==
    /\ cpc = "shutdown"
    /\ \A r \in Servers : up[r] # "drain"
    /\ up[s] \in {"up", "null"}
    /\ IF up[s] = "up"
       THEN up' = [up EXCEPT ![s] = "drain"] /\ UNCHANGED <<cpc, ccode, stream>>
       ELSE /\ ClusterExit(139)
            /\ up' = [r \in Servers |-> "down"]
            /\ stream' = [h \in Hosts |-> "none"]
    /\ UNCHANGED <<host, inbox, cint, recorder>>

\* server->Wait returns when no stream is left.
ServerDrained(s) ==
    /\ cpc = "shutdown" /\ up[s] = "drain"
    /\ \A h \in Hosts : ServerOf[h] = s => stream[h] \notin {"open", "registered"}
    /\ up' = [up EXCEPT ![s] = "down"]
    /\ IF \A r \in Servers : up'[r] = "down" THEN ClusterExit(0) ELSE UNCHANGED <<cpc, ccode>>
    /\ UNCHANGED <<host, stream, inbox, cint, recorder>>
-----------------------------------------------------------------------------
HostStep(h) ==
    \/ HostMain(h) \/ HostParse(h) \/ HostEnforcer(h) \/ HostConnect(h) \/ DaemonRun(h)
    \/ DaemonJoined(h)

ClusterStep ==
    \/ ClusterMain \/ CreateController \/ RunLoop \/ CloseRecorder
    \/ \E s \in Servers : BuildAndStart(s) \/ Shutdown(s) \/ ServerDrained(s)

Thread(h, t) ==
    \/ Loop(h, t)
    \/ t = "stats" /\ CollectStats(h)
    \/ t = "info" /\ (SendInfos(h) \/ SendInfosEnd(h))
    \/ t = "enforcer" /\ (EnforceRead(h) \/ EnforceAllocs(h))

Next ==
    \/ \E h \in Hosts : HostInterrupt(h) \/ HostStep(h) \/ \E t \in Threads : Thread(h, t)
    \/ ClusterInterrupt \/ ClusterStep

Spec == Init /\ [][Next]_vars

\* Every thread of a live process is scheduled; nobody has to send SIGINT.
Fairness ==
    /\ \A h \in Hosts : WF_vars(HostStep(h)) /\ \A t \in Threads : WF_vars(Thread(h, t))
    /\ WF_vars(ClusterStep)

FairSpec == Spec /\ Fairness
-----------------------------------------------------------------------------
\* A host agent that got SIGINT exits, wherever it was then and whatever the
\* cluster agent does: if that is ending too, its loop sends no more bundles
\* and its Shutdown waits for the host's stream, and only TryCancel at the end
\* of SendInfos gets the enforcer thread out of Read.
HostExits == \A h \in Hosts : hint[h] ~> hcode[h] # Running

\* The cluster agent exits after SIGINT if the hosts were told to exit as well
\* (while a host stays, its stream keeps Shutdown waiting).
ClusterExits ==
    (cint /\ \A h \in Hosts : hint[h] \/ hcode[h] # Running) ~> ccode # Running
=============================================================================
