----------------------------- MODULE HostStats ------------------------------
(***************************************************************************)
(* How a host counts its traffic: heyp/host-agent/flow-tracker.cc (the     *)
(* FlowTracker, and SSFlowStateReporter with its MonitorDone thread and    *)
(* the ss process it reads), the CollectStats and SendInfos steps of       *)
(* daemon.cc, and the connection-to-host FlowAggregator they share.        *)
(*                                                                         *)
(* The kernel's connections are the environment: a 5-tuple is reused by    *)
(* one connection after the other.  gen, the connection a count is of, is  *)
(* history: ss does not show it.                                           *)
(***************************************************************************)
EXTENDS FlowState

CONSTANTS Tuples,
          Mine,              \* the tuples with a source address of this host
          DstDC,             \* tuple -> DC of the destination, or NoDC
          NoDC,
          window,            \* usage_history_window of the aggregator
          MaxGen, MaxBytes,  \* bounds: connections per tuple, bytes of each
          MaxReports         \* bound: calls of ReportState

VARIABLES
    conn,                 \* tuple -> [gen, bytes, open]
    proc, events,         \* "ss -E": is it running; the lines it has printed
    mon, line,            \* MonitorDone: where the thread is; the line it parsed
    tracker,              \* FlowTracker: [active, done, next_seqnum]
    collect, batch, clock,\* CollectStats: where the thread is; flow_updates; Now()
    bundle,               \* CollectStats: the bundle of active flows
    bs, agg,              \* the aggregator: BundleState of bundler 0; AggStates
    dying,                \* ~SSFlowStateReporter: "no", "flag", "join"
    stale, lost, late,    \* history: see StaleUpdate, LostEvents, LateRestart
    aborted

kernel  == <<conn, events, proc, lost>>
monitor == <<mon, line, dying, late>>
stats   == <<collect, batch, clock, bundle, bs, agg, aborted>>
vars    == <<kernel, monitor, stats, tracker, stale>>

NoLine == [tuple |-> CHOOSE t \in Tuples : TRUE, bytes |-> 0, gen |-> 0]

Init ==
    /\ conn = [t \in Tuples |-> [gen |-> 0, bytes |-> 0, open |-> FALSE]]
    /\ proc = "up" /\ events = <<>> /\ mon = "read" /\ line = NoLine
    /\ tracker = [active |-> <<>>, done |-> {}, next_seqnum |-> 0]
    /\ collect = "wait" /\ batch = <<>> /\ clock = 0 /\ bundle = <<>>
    /\ bs = BundleState /\ agg = <<>>
    /\ dying = "no" /\ stale = {} /\ lost = {} /\ late = FALSE /\ aborted = FALSE
-----------------------------------------------------------------------------
(* The kernel and ss -E (external).                                         *)
Open(t) ==
    /\ ~conn[t].open /\ conn[t].gen < MaxGen
    /\ conn' = [conn EXCEPT ![t] = [gen |-> @.gen + 1, bytes |-> 0, open |-> TRUE]]
    /\ UNCHANGED <<events, proc, lost, monitor, stats, tracker, stale>>

Transfer(t) ==
    /\ conn[t].open /\ conn[t].bytes < MaxBytes
    /\ conn' = [conn EXCEPT ![t].bytes = @ + 1]
    /\ UNCHANGED <<events, proc, lost, monitor, stats, tracker, stale>>

\* LostEvents: nobody is there to print the line of a closed connection.
Close(t) ==
    LET e == [tuple |-> t, bytes |-> conn[t].bytes, gen |-> conn[t].gen]
    IN  /\ conn[t].open
        /\ conn' = [conn EXCEPT ![t].open = FALSE]
        /\ events' = IF proc = "up" THEN Append(events, e) ELSE events
        /\ lost' = IF proc = "up" THEN lost ELSE lost \cup {<<t, e.gen>>}
        /\ UNCHANGED <<proc, monitor, stats, tracker, stale>>

MonitorDies ==
    /\ proc = "up" /\ dying = "no" /\ proc' = "down"
    /\ UNCHANGED <<conn, events, lost, monitor, stats, tracker, stale>>
-----------------------------------------------------------------------------
(* FlowTracker.  A leaf is the LeafState of one flow: bytes per priority,   *)
(* and the priority it has now (FlowState has its usage and demand).        *)
Leaf(n, t, gen) == [tuple |-> t, seqnum |-> n, cum_hipri |-> 0, cum_lopri |-> 0, lopri |-> FALSE,
                    gen |-> gen]

\* Mutant: the bytes known already are counted again.
UpdateLeaf_Twice(l, cum, is_lopri) ==
    IF is_lopri THEN [l EXCEPT !.cum_lopri = @ + cum, !.lopri = TRUE]
    ELSE [l EXCEPT !.cum_hipri = @ + cum]

UpdateLeaf(l, cum, is_lopri) ==
    LET u == LeafUpdate(l, clock, cum, 0, is_lopri)
    IN  [l EXCEPT !.cum_hipri = u.cum_hipri, !.cum_lopri = u.cum_lopri,
                  !.lopri = u.cum_hipri = l.cum_hipri /\ u.cum_lopri > l.cum_lopri]

Created(tr, u) ==
    IF u.tuple \in DOMAIN tr.active THEN tr
    ELSE [tr EXCEPT !.next_seqnum = @ + 1,
                    !.active = (u.tuple :> Leaf(tr.next_seqnum + 1, u.tuple, u.gen)) @@ @]

Retired(tr, t) ==
    [tr EXCEPT !.done = @ \cup {tr.active[t]}, !.active = Restrict(@, DOMAIN @ \ {t})]

\* One update of UpdateFlows: fewer bytes than are known are another flow's.
UpdateFlow(tr, u, is_lopri) ==
    LET old  == Created(tr, u)
        tr2  == IF Cum(old.active[u.tuple]) > u.bytes
                THEN Created(Retired(old, u.tuple), u) ELSE old
    IN  [tr2 EXCEPT !.active[u.tuple] = UpdateLeaf(@, u.bytes, is_lopri)]

\* One update of FinalizeFlows: the priority is not known, the last one counts.
FinalizeFlow(tr, u) ==
    LET tr2 == Created(tr, u)
    IN  Retired([tr2 EXCEPT !.active[u.tuple] = UpdateLeaf(@, u.bytes, @.lopri)], u.tuple)
-----------------------------------------------------------------------------
(* SSFlowStateReporter::MonitorDone                                         *)
\* getline and ParseLineSS; a line of another host's flow is ignored.
ReadLine ==
    /\ mon = "read" /\ events # <<>>
    /\ events' = Tail(events)
    /\ IF Head(events).tuple \in Mine
       THEN line' = Head(events) /\ mon' = "finalize"
       ELSE UNCHANGED <<line, mon>>
    /\ UNCHANGED <<conn, proc, lost, dying, late, stats, tracker, stale>>

Finalize ==
    /\ mon = "finalize"
    /\ tracker' = FinalizeFlow(tracker, line)
    /\ mon' = "read" /\ line' = NoLine
    /\ UNCHANGED <<kernel, dying, late, stats, stale>>

\* getline fails once the process is gone and its output is read.
EndOfOutput ==
    /\ mon = "read" /\ events = <<>> /\ proc = "down"
    /\ mon' = IF dying # "no" THEN "exit" ELSE "restart"
    /\ UNCHANGED <<kernel, line, dying, late, stats, tracker, stale>>

\* LateRestart: is_dying was set after the loop looked at it, and the new
\* process is not the one the destructor has terminated.
StartDoneMonitor(ok) ==
    /\ mon = "restart"
    /\ proc' = IF ok THEN "up" ELSE "down"
    /\ mon' = "read"
    /\ late' = (late \/ (ok /\ dying = "join"))
    /\ UNCHANGED <<conn, events, lost, line, dying, stats, tracker, stale>>

\* ~SSFlowStateReporter: the flag ...
SetDying ==
    /\ dying = "no" /\ collect = "wait" /\ dying' = "flag"
    /\ UNCHANGED <<kernel, mon, line, late, stats, tracker, stale>>

\* ... then the process.
Terminate ==
    /\ dying = "flag" /\ dying' = "join"
    /\ proc' = "down"
    /\ UNCHANGED <<conn, events, lost, mon, line, late, stats, tracker, stale>>
-----------------------------------------------------------------------------
(* ReportState, CollectStats and SendInfos.                                 *)
Pending(t, g) ==
    \/ \E i \in DOMAIN events : events[i].tuple = t /\ events[i].gen = g
    \/ mon = "finalize" /\ line.tuple = t /\ line.gen = g

\* ReportState: ss lists the open connections.
RunSS ==
    /\ collect = "wait" /\ dying = "no" /\ clock < MaxReports /\ ~aborted
    /\ batch' = [t \in {x \in Mine : conn[x].open} |->
                   [tuple |-> t, bytes |-> conn[t].bytes, gen |-> conn[t].gen]]
    /\ clock' = clock + 1
    /\ collect' = "update"
    /\ UNCHANGED <<kernel, monitor, bundle, bs, agg, aborted, tracker, stale>>

\* UpdateFlows on what ss printed.  StaleUpdate: by now MonitorDone may have
\* retired a flow of the batch.
UpdateFlows(is_lopri) ==
    /\ collect = "update"
    /\ tracker' = FoldSet(LAMBDA t, tr : UpdateFlow(tr, batch[t], is_lopri),
                          tracker, DOMAIN batch)
    /\ stale' = stale \cup {<<t, batch[t].gen>> : t \in {x \in DOMAIN batch :
                   /\ ~(conn[x].open /\ conn[x].gen = batch[x].gen)
                   /\ ~Pending(x, batch[x].gen)}}
    /\ collect' = "bundle" /\ batch' = <<>>
    /\ UNCHANGED <<kernel, monitor, clock, bundle, bs, agg, aborted>>

\* ForEachActiveFlow and WithDCsAndJob: flows between known DCs are bundled.
CollectBundle ==
    LET known == {t \in DOMAIN tracker.active : DstDC[t] # NoDC}
        Flow(t) == <<t, tracker.active[t].seqnum>>
    IN  /\ collect = "bundle"
        /\ bundle' = [f \in {Flow(t) : t \in known} |->
                        LET l == tracker.active[f[1]]
                        IN  [cum_hipri |-> l.cum_hipri, cum_lopri |-> l.cum_lopri,
                             usage |-> 0, lopri |-> l.lopri]]
        /\ collect' = "aggregate"
        /\ UNCHANGED <<kernel, monitor, batch, clock, bs, agg, aborted, tracker, stale>>

AggregatorUpdate ==
    /\ collect = "aggregate"
    /\ bs' = BundleUpdate(bs, clock, bundle, window)
    /\ bundle' = <<>>
    /\ collect' = "log"
    /\ UNCHANGED <<kernel, monitor, batch, clock, agg, aborted, tracker, stale>>

\* FlowAggregator::ForEachAgg, with the CHECKs of AggState::UpdateUsage.
ForEachAgg ==
    LET wips  == AddBundle(<<>>, bs, [f \in DOMAIN bs.active \cup DOMAIN bs.dead |-> DstDC[f[1]]])
        st(a) == IF a \in DOMAIN agg THEN agg[a]
                 ELSE [time |-> InfinitePast, cum_hipri |-> 0, cum_lopri |-> 0]
        u(a)  == WipUpdate(wips[a])
    IN  /\ aborted' = \E a \in DOMAIN wips : Aborts(st(a), u(a))
        /\ agg' = [a \in DOMAIN wips |->
                     IF u(a).time < st(a).time THEN st(a)
                     ELSE [time |-> u(a).time, cum_hipri |-> u(a).cum_hipri,
                           cum_lopri |-> u(a).cum_lopri]] @@ agg

\* CollectStats logs the aggregates when it has a log.
LogInfos(should_log) ==
    /\ collect = "log" /\ ~aborted
    /\ IF should_log THEN ForEachAgg ELSE UNCHANGED <<agg, aborted>>
    /\ collect' = "wait"
    /\ UNCHANGED <<kernel, monitor, batch, clock, bundle, bs, tracker, stale>>

\* SendInfos: the bundle for the cluster agent.
SendInfos ==
    /\ ~aborted /\ dying = "no" /\ ForEachAgg
    /\ UNCHANGED <<kernel, monitor, collect, batch, clock, bundle, bs, tracker, stale>>

MonitorDone == ReadLine \/ Finalize \/ EndOfOutput \/ \E ok \in BOOLEAN : StartDoneMonitor(ok)

Next ==
    \/ \E t \in Tuples : Open(t) \/ Transfer(t) \/ Close(t)
    \/ MonitorDies \/ MonitorDone \/ SetDying \/ Terminate
    \/ RunSS \/ CollectBundle \/ AggregatorUpdate \/ SendInfos
    \/ \E b \in BOOLEAN : UpdateFlows(b) \/ LogInfos(b)

Spec == Init /\ [][Next]_vars

\* The destructor and the monitor thread are scheduled.
FairSpec == Spec /\ WF_vars(Terminate) /\ WF_vars(MonitorDone)
-----------------------------------------------------------------------------
\* A host's byte counts never go down in the eyes of its AggStates (the
\* CHECK_GEs of AggState::UpdateUsage): what a flow has sent stays counted when
\* it ends, is replaced by another on the same 5-tuple, or expires.
HostCountsNeverFall == ~aborted

TrackedFlows == tracker.done \cup {tracker.active[t] : t \in DOMAIN tracker.active}

\* Sequence numbers tell flows apart, and are never 0, which is "unset".
SeqnumsUnique ==
    /\ \A x, y \in TrackedFlows : x.seqnum = y.seqnum => x = y
    /\ \A x \in TrackedFlows : x.seqnum \in 1 .. tracker.next_seqnum

\* A connection's bytes are counted once, however ss and ss -E interleave: only
\* a batch of updates overtaken by MonitorDone, or the reuse of a 5-tuple,
\* makes the sum exceed what was sent.
NoDoubleCount ==
    \A t \in Tuples : stale = {} /\ conn[t].gen = 1 =>
        SumOf({x \in TrackedFlows : x.tuple = t}, LAMBDA x : Cum(x)) <= conn[t].bytes

\* An active flow whose connection is closed is about to be finalized: only a
\* stale update, or a line lost while ss -E was down, leaves a flow behind.
ClosedFlowsLeave ==
    \A t \in DOMAIN tracker.active :
      LET g == tracker.active[t].gen
      IN  \/ conn[t].open /\ conn[t].gen = g
          \/ Pending(t, g)
          \/ <<t, g>> \in stale \cup lost

\* The host's statistics are sound under every interleaving of the two readers
\* of ss, the collector and the connections themselves.
StatsInv == HostCountsNeverFall /\ SeqnumsUnique /\ NoDoubleCount /\ ClosedFlowsLeave

\* The destructor of the reporter gets past its join, unless MonitorDone had
\* decided to restart ss before is_dying was set and did so after the terminate.
MonitorExits == (dying = "join") ~> (mon = "exit" \/ late)
=============================================================================
