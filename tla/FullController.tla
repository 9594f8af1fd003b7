--------------------------- MODULE FullController ---------------------------
(***************************************************************************)
(* heyp/cluster-agent/full-controller.cc with the ClusterAllocator and the *)
(* host-to-cluster FlowAggregator it drives, and the reading half of the   *)
(* HostReactors (server.cc) that feed it.  A host has two streams: the one *)
(* it opens first, and the one it opens when that breaks; the handler of   *)
(* the old stream may still be running then.                               *)
(*                                                                         *)
(* The controller thread is RunLoop's, the only caller of                  *)
(* ComputeAndBroadcast.  What a per-aggregate allocator decides is left    *)
(* open: any flow may be given a LOPRI limit or not, and a flow group      *)
(* without an admission gets nothing (PerAggAllocators has the decisions). *)
(***************************************************************************)
EXTENDS FlowState

CONSTANTS Hosts, FGs,
          Movers,             \* the hosts whose stream may break, once
          window,             \* usage_history_window
          MaxTime,            \* bound: timestamps of reports
          MaxRounds           \* bound: control periods

Streams == Hosts \X {1} \cup Movers \X {2}
HostOf(s) == s[1]
NoBundle == [time |-> 0, fgs |-> {}, seen |-> 0]
NoAllocs == [map |-> <<>>, version |-> 0]

VARIABLES
    sent,                \* host -> [time, fgs] of its last report
    current,             \* host -> the stream it uses
    slot,                \* stream -> the InfoBundle read from it, or NoBundle
    reader,              \* stream -> OnReadDone: idle, register, load, update
    loaded,              \* stream -> last_alloc_bundle_ as loaded by UpdateInfo
    finished,            \* stream -> finished_
    registered,          \* the streams with an entry in new_bundle_funcs_
    ids, bundles,        \* bundle_states_: hosts in the order of their ids; BundleStates
    pc, visited, num_ids, wips,   \* ComputeAndBroadcast and the loop of ForEachAgg
    agg_states,          \* FG -> time and bytes of its AggState (DemandHistory has the rest)
    tasks, partial_sets, \* AddInfo tasks to run; ClusterAllocator::allocs_
    by_host, todo,       \* alloc_bundles; the listeners still to call
    version,             \* the number of this control period
    last,                \* last_alloc_bundle_, and the control period it is of
    got,                 \* host -> control period of the last bundle it was sent
    reordered, aborted   \* a report was applied after a later one; a CHECK failed

server   == <<slot, reader, loaded, finished, registered, ids, bundles, reordered>>
control  == <<pc, visited, num_ids, wips, agg_states, tasks, partial_sets, by_host,
              todo, last, version, got, aborted>>
vars     == <<sent, current, server, control>>

Init ==
    /\ sent = [h \in Hosts |-> [time |-> 0, fgs |-> {}]]
    /\ current = [h \in Hosts |-> 1]
    /\ slot = [s \in Streams |-> NoBundle] /\ reader = [s \in Streams |-> "idle"]
    /\ loaded = [s \in Streams |-> NoAllocs]
    /\ finished = [s \in Streams |-> FALSE] /\ registered = {}
    /\ ids = <<>> /\ bundles = [h \in Hosts |-> BundleState]
    /\ pc = "idle" /\ visited = 0 /\ num_ids = 0 /\ wips = <<>>
    /\ agg_states = [f \in FGs |-> [time |-> InfinitePast, cum_hipri |-> 0, cum_lopri |-> 0]]
    /\ tasks = <<>> /\ partial_sets = <<>> /\ by_host = <<>> /\ todo = {}
    /\ last = NoAllocs /\ version = 0 /\ got = [h \in Hosts |-> 0]
    /\ reordered = FALSE /\ aborted = FALSE
-----------------------------------------------------------------------------
(* The hosts.  A host reports every flow group it ever saw, with counters   *)
(* that grow with time.                                                     *)
Report(h, time, fgs) ==
    LET s == <<h, current[h]>>
    IN  /\ slot[s] = NoBundle /\ ~finished[s]
        /\ time > sent[h].time /\ sent[h].fgs \subseteq fgs
        /\ sent' = [sent EXCEPT ![h] = [time |-> time, fgs |-> fgs]]
        /\ slot' = [slot EXCEPT ![s] = [time |-> time, fgs |-> fgs, seen |-> got[h]]]
        /\ UNCHANGED <<current, reader, loaded, finished, registered, ids, bundles,
                       reordered, control>>

\* The stream breaks and the host opens another; what was sent on the old one
\* may be lost.
Reconnect(h, lost) ==
    LET s == <<h, 1>>
    IN  /\ h \in Movers /\ current[h] = 1
        /\ current' = [current EXCEPT ![h] = 2]
        /\ slot' = [slot EXCEPT ![s] = IF lost /\ reader[s] = "idle" THEN NoBundle ELSE @]
        /\ UNCHANGED <<sent, reader, loaded, finished, registered, ids, bundles,
                       reordered, control>>
-----------------------------------------------------------------------------
(* HostReactor: OnReadDone, up to the next StartRead.  The reader holds mu_ *)
(* except in "register".                                                    *)
Locked(s) == reader[s] \in {"load", "update"}

OnReadDone(s) ==
    /\ reader[s] = "idle" /\ slot[s] # NoBundle
    /\ IF finished[s]
       THEN slot' = [slot EXCEPT ![s] = NoBundle] /\ UNCHANGED reader
       ELSE /\ reader' = [reader EXCEPT ![s] = IF s \in registered THEN "load" ELSE "register"]
            /\ UNCHANGED slot
    /\ UNCHANGED <<sent, current, loaded, finished, registered, ids, bundles,
                   reordered, control>>

\* RegisterListener (broadcasting_mu_ is free) and GetBundlerID.
RegisterListener(s) ==
    /\ reader[s] = "register" /\ pc # "broadcast"
    /\ registered' = registered \cup {s}
    /\ ids' = IF \E i \in DOMAIN ids : ids[i] = HostOf(s) THEN ids ELSE Append(ids, HostOf(s))
    /\ reader' = [reader EXCEPT ![s] = "load"]
    /\ UNCHANGED <<sent, current, slot, loaded, finished, bundles, reordered, control>>

\* Mutant: the load takes broadcasting_mu_, with the reactor's mu_ held.
UpdateInfo_UnderLock(s) ==
    /\ reader[s] = "load" /\ pc # "broadcast"
    /\ loaded' = [loaded EXCEPT ![s] = last]
    /\ reader' = [reader EXCEPT ![s] = "update"]
    /\ UNCHANGED <<sent, current, slot, finished, registered, ids, bundles,
                   reordered, control>>

\* UpdateInfo: the atomic load of last_alloc_bundle_.
UpdateInfo(s) ==
    /\ reader[s] = "load"
    /\ loaded' = [loaded EXCEPT ![s] = last]
    /\ reader' = [reader EXCEPT ![s] = "update"]
    /\ UNCHANGED <<sent, current, slot, finished, registered, ids, bundles,
                   reordered, control>>

\* LookupAlloc: the first allocation for the flow group decides.
LookupAlloc(map, h, f) ==
    IF h \notin DOMAIN map \/ f \notin {map[h][i].fg : i \in DOMAIN map[h]} THEN 2
    ELSE LET i == Min({j \in DOMAIN map[h] : map[h][j].fg = f})
         IN  IF map[h][i].lopri_rate_limit_bps > 0 THEN 1 ELSE 0

\* UpdateInfo: the reported flows with the QoS that was intended, then
\* FlowAggregator::Update; DoReadLoop.
AggregatorUpdate(s) ==
    LET h  == HostOf(s)
        r  == slot[s]
        infos == [f \in r.fgs |->
                    [cum_hipri |-> r.time, cum_lopri |-> 0, usage |-> 1,
                     lopri |-> LookupAlloc(loaded[s].map, h, f) = 1]]
    IN  /\ reader[s] = "update"
        /\ bundles' = [bundles EXCEPT ![h] = BundleUpdate(@, r.time, infos, window)]
        /\ reordered' = (reordered \/ \E f \in DOMAIN bundles[h].active :
                                         bundles[h].active[f].time > r.time)
        /\ slot' = [slot EXCEPT ![s] = NoBundle]
        /\ loaded' = [loaded EXCEPT ![s] = NoAllocs]
        /\ reader' = [reader EXCEPT ![s] = "idle"]
        /\ UNCHANGED <<sent, current, finished, registered, ids, control>>

\* A read or a write fails on a broken stream; the Listener is destroyed under
\* broadcasting_mu_, with mu_ free.
DestroyListener(s) ==
    /\ s \in registered /\ s[2] < current[HostOf(s)]
    /\ pc # "broadcast"
    /\ registered' = registered \ {s}
    /\ finished' = [finished EXCEPT ![s] = TRUE]
    /\ UNCHANGED <<sent, current, slot, reader, loaded, ids, bundles, reordered, control>>
-----------------------------------------------------------------------------
(* ComputeAndBroadcast, one call after the other. *)

\* state_mu_ is taken, allocator_->Reset() clears the allocations, ForEachAgg
\* begins with the bundlers there are now.
Reset ==
    /\ pc = "idle" /\ version < MaxRounds /\ ~aborted
    /\ partial_sets' = <<>>
    /\ wips' = <<>> /\ visited' = 0 /\ num_ids' = Len(ids)
    /\ version' = version + 1 /\ pc' = "visit"
    /\ UNCHANGED <<sent, current, server, agg_states, tasks, by_host, todo, last,
                   got, aborted>>

\* bundle_states_.ForEach: one bundler at a time, each under its own lock.
Visit ==
    /\ pc = "visit" /\ visited < num_ids
    /\ visited' = visited + 1
    /\ LET h      == ids[visited']
           Of(fs) == [x \in {h} \X DOMAIN fs |-> fs[x[2]]]
           bs     == [active |-> Of(bundles[h].active), dead |-> Of(bundles[h].dead)]
       IN  wips' = AddBundle(wips, bs, [x \in DOMAIN bs.active \cup DOMAIN bs.dead |-> x[2]])
    /\ UNCHANGED <<sent, current, server, pc, num_ids, agg_states, tasks, partial_sets,
                   by_host, todo, last, version, got, aborted>>

\* AggState::UpdateUsage and AddInfo for every aggregate; a CHECK may abort.
AddInfos ==
    LET u(f) == WipUpdate(wips[f])
        st   == agg_states
    IN  /\ pc = "visit" /\ visited = num_ids
        /\ aborted' = \E f \in DOMAIN wips : Aborts(st[f], u(f))
        /\ agg_states' = [f \in FGs |->
                            IF f \notin DOMAIN wips \/ u(f).time < st[f].time THEN st[f]
                            ELSE [time |-> u(f).time, cum_hipri |-> u(f).cum_hipri,
                                  cum_lopri |-> u(f).cum_lopri]]
        /\ tasks' = [f \in DOMAIN wips |-> wips[f].children]
        /\ pc' = IF aborted' THEN "aborted" ELSE "alloc"
        /\ UNCHANGED <<sent, current, server, visited, num_ids, wips, partial_sets,
                       by_host, todo, last, version, got>>

\* A task of AddInfo: AllocAgg, and its result under mu_.
AllocAgg(f, lopri, admitted) ==
    /\ pc = "alloc" /\ f \in DOMAIN tasks
    /\ partial_sets' = Append(partial_sets,
                         IF ~admitted THEN {}
                         ELSE {[host |-> x[1], fg |-> f,
                                lopri_rate_limit_bps |-> IF x[1] \in lopri THEN 1 ELSE 0]
                                 : x \in tasks[f]})
    /\ tasks' = Restrict(tasks, DOMAIN tasks \ {f})
    /\ UNCHANGED <<sent, current, server, pc, visited, num_ids, wips, agg_states,
                   by_host, todo, last, version, got, aborted>>

\* BundleByHost
BundleByHost(sets) ==
    LET hosts == UNION {{x.host : x \in sets[i]} : i \in DOMAIN sets}
        Of(h) == LET with == SelectSeq(sets, LAMBDA p : \E x \in p : x.host = h)
                 IN  [i \in DOMAIN with |-> CHOOSE x \in with[i] : x.host = h]
    IN  [h \in hosts |-> Of(h)]

\* GetAllocs waits for the tasks; BundleByHost; broadcasting_mu_ is taken.
GetAllocs ==
    /\ pc = "alloc" /\ tasks = <<>>
    /\ by_host' = BundleByHost(partial_sets)
    /\ todo' = {s \in registered : HostOf(s) \in DOMAIN by_host'}
    /\ pc' = "broadcast"
    /\ UNCHANGED <<sent, current, server, visited, num_ids, wips, agg_states, tasks,
                   partial_sets, last, version, got, aborted>>

\* func(bundle), which takes the reactor's mu_.
Broadcast(s) ==
    /\ pc = "broadcast" /\ s \in todo /\ ~Locked(s)
    /\ todo' = todo \ {s}
    /\ got' = IF s[2] = current[HostOf(s)] THEN [got EXCEPT ![HostOf(s)] = version]
              ELSE got
    /\ UNCHANGED <<sent, current, server, pc, visited, num_ids, wips, agg_states, tasks,
                   partial_sets, by_host, last, version, aborted>>

\* Mutant: stored only when nobody was there to be called.
Store_IfCalled ==
    /\ pc = "broadcast" /\ todo = {}
    /\ last' = IF \E x \in registered : HostOf(x) \in DOMAIN by_host THEN last
               ELSE [map |-> by_host, version |-> version]
    /\ pc' = "idle" /\ wips' = <<>> /\ by_host' = <<>>
    /\ UNCHANGED <<sent, current, server, visited, num_ids, agg_states, tasks,
                   partial_sets, todo, version, got, aborted>>

\* The atomic store of last_alloc_bundle_; the mutex is released.
Store ==
    /\ pc = "broadcast" /\ todo = {}
    /\ last' = [map |-> by_host, version |-> version]
    /\ pc' = "idle" /\ wips' = <<>> /\ by_host' = <<>>
    /\ UNCHANGED <<sent, current, server, visited, num_ids, agg_states, tasks,
                   partial_sets, todo, version, got, aborted>>

Reader(s) == OnReadDone(s) \/ RegisterListener(s) \/ UpdateInfo(s) \/ AggregatorUpdate(s)

ComputeAndBroadcast ==
    \/ Reset \/ Visit \/ AddInfos \/ GetAllocs \/ Store
    \/ \E s \in Streams : Broadcast(s)

Next ==
    \/ \E h \in Hosts, t \in 1 .. MaxTime, fgs \in SUBSET FGs : Report(h, t, fgs)
    \/ \E h \in Hosts, lost \in BOOLEAN : Reconnect(h, lost)
    \/ \E s \in Streams : Reader(s) \/ DestroyListener(s)
    \/ ComputeAndBroadcast
    \/ \E f \in FGs, lopri \in SUBSET Hosts, admitted \in BOOLEAN : AllocAgg(f, lopri, admitted)

Spec == Init /\ [][Next]_vars

\* The control loop, the allocation tasks and the callbacks are all scheduled.
Fairness ==
    /\ WF_vars(ComputeAndBroadcast)
    /\ WF_vars(\E f \in FGs, lopri \in SUBSET Hosts, admitted \in BOOLEAN :
                 AllocAgg(f, lopri, admitted))
    /\ \A s \in Streams : WF_vars(Reader(s))

FairSpec == Spec /\ Fairness
-----------------------------------------------------------------------------
\* The bytes of a flow group never go down in the eyes of its AggState (the
\* CHECK_GEs of AggState::UpdateUsage) as long as the reports of each host are
\* applied in order, whatever the hosts' clocks and the interleaving of reports
\* with the walk over the bundlers.
CountsNeverFall == aborted => reordered

\* "u.cum_hipri_usage_bytes >= cur_.cum_hipri_usage_bytes()" (state.cc, the
\* CHECK_GEs), for all reports.
ChecksHold == ~aborted

\* What is broadcast is this control period's work, all of it: a result of
\* every aggregate (WaitAll), one allocation per host and flow group, for
\* exactly the hosts the aggregate listed.
BroadcastIsWhole ==
    pc = "broadcast" =>
      /\ Len(partial_sets) = Cardinality(DOMAIN wips)
      /\ \A h \in DOMAIN by_host : \A i, j \in DOMAIN by_host[h] :
           by_host[h][i].fg = by_host[h][j].fg => i = j
      /\ \A f \in DOMAIN wips :
           LET with == {h \in DOMAIN by_host : \E i \in DOMAIN by_host[h] : by_host[h][i].fg = f}
           IN  with \in {{}, {x[1] : x \in wips[f].children}}

\* A callback is never run for a Listener that was destroyed: the reactor that
\* owns it may be gone.
ListenersAlive == todo \subseteq registered

\* The QoS an info is annotated with is at most one control period older than
\* the allocation its host had when it sent the info: callbacks run before
\* last_alloc_bundle_ is stored, so it can be that one.
FeedbackLag ==
    \A s \in Streams : reader[s] = "update" => loaded[s].version >= slot[s].seen - 1

\* A control period works on byte counts that never fall, sends all it
\* computed, and its result labels the reports of the next one.
PeriodInv == CountsNeverFall /\ BroadcastIsWhole /\ FeedbackLag

\* A control period ends: the controller, which holds broadcasting_mu_ while it
\* takes the reactors' locks, and the reactors never wait for each other.
RoundsEnd == (pc = "broadcast") ~> (pc = "idle")
=============================================================================
