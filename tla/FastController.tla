--------------------------- MODULE FastController ---------------------------
(***************************************************************************)
(* heyp/cluster-agent/fast-controller.{h,cc}: FastClusterController.       *)
(* Reactor threads register and remove listeners while the control thread  *)
(* runs ComputeAndBroadcast, whose steps fan out over an executor: one     *)
(* task per aggregate moves its hash ring and marks the hosts the diff     *)
(* names, one task per worker tells them, one task per aggregate resets    *)
(* the monitoring flags.  Every OnID (one child state, under its lock) is  *)
(* a step of its own.                                                      *)
(*                                                                         *)
(* A host's ParID is represented by its host id, and the fraction Step 2.1 *)
(* computes from usage by any fraction in [0, 1].  got, count and synced   *)
(* are history.                                                            *)
(***************************************************************************)
EXTENDS HashRing, FiniteSets, Sequences

CONSTANTS
    NumAggs,       \* aggregates (pairs of data centers)
    NumWorkers,    \* exec_.num_workers()
    Listeners,     \* RegisterListener calls: connections of the hosts
    HostOf,        \* the host id of a listener
    MaxGen,        \* bound: generations a host numbers its bundles with
    MaxRounds      \* bound: calls of ComputeAndBroadcast

ASSUME ControllerAssumption ==
    /\ NumAggs \in Nat /\ NumWorkers \in Nat \ {0}
    /\ MaxGen \in Nat /\ MaxRounds \in Nat
    /\ HostOf \in [Listeners -> Ids]

Aggs == 0 .. NumAggs - 1
Workers == 0 .. NumWorkers - 1
Hosts == {HostOf[l] : l \in Listeners}
Gens == 1 .. MaxGen

VARIABLES
    rings,               \* agg_selectors_
    created,             \* the host ids with an entry in child_states_
    child,               \* child_states_
    new_host_id_pairs,
    host2par,            \* host2par_, the hosts the control thread knows
    reg,                 \* RegisterListener and ~Listener: pc of a listener
    step,                \* ComputeAndBroadcast: its current step
    heard,               \* the snapshot's info_gen: host id -> generation
    task,                \* the tasks of an aggregate: what is left to do
    par_ids_to_bcast,
    work,                \* the broadcast task of a worker: its slots left
    got,                 \* last bundle a listener was called with
    count,               \* bundles a listener got from this broadcast
    round,               \* rounds started
    synced               \* hosts in step with the ring of an aggregate

reg_vars == <<created, new_host_id_pairs, reg>>
ctl_vars == <<rings, host2par, step, heard, task, par_ids_to_bcast, work, synced>>
bundle_vars == <<got, count>>
vars == <<reg_vars, ctl_vars, bundle_vars, child, round>>

NoBundle == [lopri |-> {}, gen |-> -1]
NoTask == [pc |-> "none", gens |-> {}, ids |-> {}, mark |-> FALSE]

Init ==
    /\ rings = [a \in Aggs |-> HashRing0]
    /\ created = {}
    /\ child = [h \in Hosts |-> [agg_is_lopri |-> {}, listeners |-> {}, gen_seen |-> 0,
                                 broadcasted_latest_state |-> FALSE,
                                 saw_data_this_run |-> FALSE]]
    /\ new_host_id_pairs = {}
    /\ host2par = {}
    /\ reg = [l \in Listeners |-> "none"]
    /\ step = "idle"
    /\ heard = [h \in {} |-> 0]
    /\ task = [a \in Aggs |-> NoTask]
    /\ par_ids_to_bcast = [a \in Aggs |-> <<>>]
    /\ work = [w \in Workers |-> {}]
    /\ got = [l \in Listeners |-> NoBundle]
    /\ count = [l \in Listeners |-> 0]
    /\ round = 0
    /\ synced = [a \in Aggs |-> {}]
-----------------------------------------------------------------------------
(* RegisterListener and ~Listener *)

RegisterGetID(l) ==
    /\ reg[l] = "none"
    /\ created' = created \cup {HostOf[l]}
    /\ reg' = [reg EXCEPT ![l] = IF HostOf[l] \in created THEN "add" ELSE "pair"]
    /\ UNCHANGED <<round, new_host_id_pairs, child, ctl_vars, bundle_vars>>

RegisterPushPair(l) ==
    /\ reg[l] = "pair"
    /\ new_host_id_pairs' = new_host_id_pairs \cup {HostOf[l]}
    /\ reg' = [reg EXCEPT ![l] = "add"]
    /\ UNCHANGED <<round, created, child, ctl_vars, bundle_vars>>

RegisterAdd(l) ==
    /\ reg[l] = "add"
    /\ child' = [child EXCEPT ![HostOf[l]].listeners = @ \cup {l}]
    /\ reg' = [reg EXCEPT ![l] = "on"]
    /\ UNCHANGED <<round, created, new_host_id_pairs, ctl_vars, bundle_vars>>

Unregister(l) ==
    /\ reg[l] = "on"
    /\ child' = [child EXCEPT ![HostOf[l]].listeners = @ \ {l}]
    /\ reg' = [reg EXCEPT ![l] = "gone"]
    /\ UNCHANGED <<round, created, new_host_id_pairs, ctl_vars, bundle_vars>>
-----------------------------------------------------------------------------
(* ComputeAndBroadcast *)

\* Hosts that can have delivered a bundle: UpdateInfo follows RegisterListener.
Reporters == {HostOf[l] : l \in {k \in Listeners : reg[k] \in {"on", "gone"}}}

\* Step 1, CollectSnapshot: the hosts heard from since the last one.
CollectSnapshot(gens) ==
    /\ step = "idle" /\ round < MaxRounds
    /\ round' = round + 1
    /\ DOMAIN gens \subseteq Reporters
    /\ heard' = gens
    /\ step' = "drain"
    /\ UNCHANGED <<rings, host2par, task, par_ids_to_bcast, work, synced,
                   reg_vars, bundle_vars, child>>

\* Step 1, under mu_: catch up on new hosts; then the tasks of Step 2 start.
DrainNewHosts ==
    /\ step = "drain"
    /\ host2par' = host2par \cup new_host_id_pairs
    /\ new_host_id_pairs' = {}
    /\ synced' = [a \in Aggs |->
                     synced[a] \cup {h \in new_host_id_pairs : ~IsLOPRI(rings[a], h)}]
    /\ task' = [a \in Aggs |-> [NoTask EXCEPT !.pc = "pick"]]
    /\ step' = "tasks"
    /\ UNCHANGED <<round, rings, heard, par_ids_to_bcast, work, created, reg, bundle_vars, child>>

\* The children with an entry in host2par_ whose id is in a diff.
ForEachSelected(ids) == host2par \cap ids

\* Steps 2.1 and 2.2: move the ring to the new fraction.
PickChildren(a, frac) ==
    /\ step = "tasks" /\ task[a].pc = "pick"
    /\ LET u == UpdateFrac(rings[a], frac)
       IN  /\ rings' = [rings EXCEPT ![a] = u.ring]
           /\ task' = [task EXCEPT ![a] =
                         [pc |-> "update", gens |-> DOMAIN heard \cap host2par,
                          ids |-> ForEachSelected(u.diff.ids),
                          mark |-> u.diff.type = "kAdd"]]
           /\ synced' = [synced EXCEPT ![a] = @ \cup ForEachSelected(u.diff.ids)]
    /\ UNCHANGED <<round, host2par, step, heard, par_ids_to_bcast, work,
                   reg_vars, bundle_vars, child>>

Max2(m, n) == IF m >= n THEN m ELSE n

\* Step 2.3: record the generation of a child we just heard from.
RecordGen(a, h) ==
    /\ step = "tasks" /\ h \in task[a].gens
    /\ child' = [child EXCEPT ![h].gen_seen = Max2(heard[h], @),
                              ![h].saw_data_this_run = TRUE]
    /\ task' = [task EXCEPT ![a].gens = @ \ {h}]
    /\ UNCHANGED <<round, rings, host2par, step, heard, par_ids_to_bcast, work, synced,
                   reg_vars, bundle_vars>>

\* Mutant: a child never leaves LOPRI.
SetAggIsLOPRI_Sticky(a, is_lopri, lopri) ==
    IF is_lopri THEN lopri \cup {a} ELSE lopri

\* Step 2.4: SetAggIsLOPRI for a child the diff names.
SetAggIsLOPRI(a, is_lopri, lopri) ==
    IF is_lopri THEN lopri \cup {a} ELSE lopri \ {a}

UpdateChild(a, h) ==
    /\ step = "tasks" /\ task[a].gens = {} /\ h \in task[a].ids
    /\ child' = [child EXCEPT
                   ![h].agg_is_lopri = SetAggIsLOPRI(a, task[a].mark, @),
                   ![h].broadcasted_latest_state = FALSE]
    /\ par_ids_to_bcast' = [par_ids_to_bcast EXCEPT ![a] = Append(@, h)]
    /\ task' = [task EXCEPT ![a].ids = @ \ {h}]
    /\ UNCHANGED <<round, rings, host2par, step, heard, work, synced, reg_vars, bundle_vars>>

\* Mutant: the slots per worker rounded down.
PerWorker_Floor(n) == n \div NumWorkers

\* The slots <<vec_i, i>> that the task of worker w handles: every
\* NumWorkers-th entry of each vector.
PerWorker(n) == (n + NumWorkers - 1) \div NumWorkers

Slots(w) ==
    UNION {{a} \X {i \in 0 .. PerWorker(Len(par_ids_to_bcast[a])) - 1 :
                      w + i * NumWorkers < Len(par_ids_to_bcast[a])} : a \in Aggs}

ParIdAt(w, slot) == par_ids_to_bcast[slot[1]][w + slot[2] * NumWorkers + 1]

Before(s1, s2) == s1[1] < s2[1] \/ (s1[1] = s2[1] /\ s1[2] <= s2[2])

\* WaitAllNoStatus, and the tasks of Step 3 start.
StartBroadcast ==
    /\ step = "tasks"
    /\ \A a \in Aggs : task[a].pc = "update" /\ task[a].gens = {} /\ task[a].ids = {}
    /\ step' = "bcast"
    /\ task' = [a \in Aggs |-> NoTask]
    /\ work' = [w \in Workers |-> Slots(w)]
    /\ UNCHANGED <<round, rings, host2par, heard, par_ids_to_bcast, synced,
                   reg_vars, bundle_vars, child>>
-----------------------------------------------------------------------------
\* BroadcastStateUnconditional: call the listeners of a child.
BroadcastStateUnconditional(h) ==
    LET b == [lopri |-> child[h].agg_is_lopri,
              gen |-> IF child[h].saw_data_this_run THEN child[h].gen_seen ELSE 0]
    IN  /\ got' = [l \in Listeners |-> IF l \in child[h].listeners THEN b ELSE got[l]]
        /\ count' = [l \in Listeners |-> IF l \in child[h].listeners
                                         THEN count[l] + 1 ELSE count[l]]

\* Mutant: broadcasted_latest_state not consulted.
BroadcastStateIfUpdated_Always(h) ==
    /\ BroadcastStateUnconditional(h)
    /\ child' = [child EXCEPT ![h].broadcasted_latest_state = TRUE]

BroadcastStateIfUpdated(h) ==
    IF child[h].broadcasted_latest_state
    THEN UNCHANGED <<child, bundle_vars>>
    ELSE /\ BroadcastStateUnconditional(h)
         /\ child' = [child EXCEPT ![h].broadcasted_latest_state = TRUE]

\* Step 3: the task of worker w takes its next slot.
Broadcast(w) ==
    /\ step = "bcast"
    /\ \E slot \in work[w] :
         /\ \A other \in work[w] : Before(slot, other)
         /\ BroadcastStateIfUpdated(ParIdAt(w, slot))
         /\ work' = [work EXCEPT ![w] = @ \ {slot}]
    /\ UNCHANGED <<round, rings, host2par, step, heard, task, par_ids_to_bcast, synced,
                   reg_vars>>

StartReset ==
    /\ step = "bcast" /\ \A w \in Workers : work[w] = {}
    /\ step' = "reset"
    /\ task' = [a \in Aggs |-> [NoTask EXCEPT !.gens = DOMAIN heard \cap host2par]]
    /\ UNCHANGED <<round, rings, host2par, heard, par_ids_to_bcast, work, synced,
                   reg_vars, bundle_vars, child>>

\* Mutant: saw_data_this_run not reset.
ResetSawData_Keep(a, h) ==
    /\ step = "reset" /\ h \in task[a].gens
    /\ task' = [task EXCEPT ![a].gens = @ \ {h}]
    /\ UNCHANGED <<round, rings, host2par, step, heard, par_ids_to_bcast, work, synced,
                   reg_vars, bundle_vars, child>>

\* Step 4: reset saw_data_this_run.
ResetSawData(a, h) ==
    /\ step = "reset" /\ h \in task[a].gens
    /\ child' = [child EXCEPT ![h].saw_data_this_run = FALSE]
    /\ task' = [task EXCEPT ![a].gens = @ \ {h}]
    /\ UNCHANGED <<round, rings, host2par, step, heard, par_ids_to_bcast, work, synced,
                   reg_vars, bundle_vars>>

\* ComputeAndBroadcast returns: its locals are gone.
EndRound ==
    /\ step = "reset" /\ \A a \in Aggs : task[a].gens = {}
    /\ step' = "idle"
    /\ heard' = [h \in {} |-> 0]
    /\ task' = [a \in Aggs |-> NoTask]
    /\ par_ids_to_bcast' = [a \in Aggs |-> <<>>]
    /\ count' = [l \in Listeners |-> 0]
    /\ UNCHANGED <<round, rings, host2par, work, synced, reg_vars, got, child>>
-----------------------------------------------------------------------------
ListenerStep(l) ==
    RegisterGetID(l) \/ RegisterPushPair(l) \/ RegisterAdd(l) \/ Unregister(l)

AggTask(a) ==
    \/ \E frac \in Fracs : PickChildren(a, frac)
    \/ \E h \in Hosts : RecordGen(a, h) \/ UpdateChild(a, h) \/ ResetSawData(a, h)

Next ==
    \/ \E l \in Listeners : ListenerStep(l)
    \/ \E hs \in SUBSET Hosts : \E gens \in [hs -> Gens] : CollectSnapshot(gens)
    \/ DrainNewHosts
    \/ \E a \in Aggs : AggTask(a)
    \/ \E w \in Workers : Broadcast(w)
    \/ StartBroadcast \/ StartReset \/ EndRound

Spec == Init /\ [][Next]_vars
-----------------------------------------------------------------------------
ChildState ==
    [agg_is_lopri: SUBSET Aggs, listeners: SUBSET Listeners, gen_seen: {0} \cup Gens,
     broadcasted_latest_state: BOOLEAN, saw_data_this_run: BOOLEAN]

TypeOK ==
    /\ rings \in [Aggs -> [start: Ids, frac: Fracs]]
    /\ created \subseteq Hosts /\ new_host_id_pairs \subseteq Hosts
    /\ host2par \subseteq Hosts
    /\ child \in [Hosts -> ChildState]
    /\ reg \in [Listeners -> {"none", "pair", "add", "on", "gone"}]
    /\ step \in {"idle", "drain", "tasks", "bcast", "reset"}
    /\ DOMAIN heard \subseteq Hosts /\ \A h \in DOMAIN heard : heard[h] \in Gens
    /\ task \in [Aggs -> [pc: {"none", "pick", "update"}, gens: SUBSET Hosts,
                          ids: SUBSET Hosts, mark: BOOLEAN]]
    /\ \A a \in Aggs : par_ids_to_bcast[a] \in Seq(Hosts)
    /\ work \in [Workers -> SUBSET (Aggs \X Nat)]
    /\ got \in [Listeners -> {NoBundle} \cup [lopri: SUBSET Aggs, gen: {0} \cup Gens]]
    /\ count \in [Listeners -> Nat]
    /\ round \in 0 .. MaxRounds
    /\ synced \in [Aggs -> SUBSET Hosts]

\* Every host the control thread knows has the priority its aggregate's ring
\* gives its id (the one the aggregator classifies its usage by), although it
\* is told by diffs only.  A host that registers while its id is marked is
\* not in synced until a diff names it: the code has no catching up for it.
ChildrenTrackRings ==
    \A a \in Aggs : \A h \in synced[a] \ task[a].ids :
        a \in child[h].agg_is_lopri <=> IsLOPRI(rings[a], h)

\* After the broadcast a listener that has ever been called was last called
\* with the current priority of its host in every aggregate: no change is
\* lost between the per-aggregate tasks, the slices of the workers and the
\* flag that suppresses repeats.
ListenersCurrent ==
    step \in {"idle", "drain", "reset"} =>
        \A l \in Listeners :
            (reg[l] = "on" /\ got[l] # NoBundle) =>
                got[l].lopri = child[HostOf[l]].agg_is_lopri

\* BroadcastStateIfUpdated: however many aggregates changed the priority of a
\* host, a round calls each of its listeners at most once.
OneBundlePerRound == \A l \in Listeners : count[l] <= 1

\* A bundle names a generation exactly if its host was heard from in this
\* round, and never an older one than the host sent: what a round saw does
\* not leak into the next.
GenOfThisRound ==
    [][\A l \in Listeners : got'[l] # got[l] =>
          IF HostOf[l] \in DOMAIN heard THEN got'[l].gen >= heard[HostOf[l]]
                                        ELSE got'[l].gen = 0]_vars

\* No host is forgotten between child_states_ and host2par_: it is known to
\* the control thread, queued for it, or being registered.
HostsHandedOver ==
    created = host2par \cup new_host_id_pairs
                \cup {HostOf[l] : l \in {k \in Listeners : reg[k] = "pair"}}

\* What holds of the controller's tables at every step: a host is registered
\* with the control thread once it is queued, and told once a round.
ControllerInv == TypeOK /\ OneBundlePerRound /\ HostsHandedOver
=============================================================================
