--------------------------- MODULE FastAggregator ---------------------------
(***************************************************************************)
(* heyp/cluster-agent/fast-aggregator.{h,cc}: the lock-free, sharded,      *)
(* double-buffered inbox of the fast cluster controller.                   *)
(*                                                                         *)
(* The gRPC threads call UpdateInfo concurrently, one bundle per host and  *)
(* call.  The control thread calls CollectSnapshot, which runs one task    *)
(* per shard on an executor.  A shard has two buffers; an atomic holds the *)
(* index of the buffer that takes new infos, or -1 while an updater is     *)
(* inside it.  Every load, store, compare-exchange and vector operation is *)
(* a step of its own.                                                      *)
(*                                                                         *)
(* An info is <<updater, generation, flow>>, so no two pushes are equal    *)
(* and the vectors `infos` and `gens` are represented as sets.             *)
(***************************************************************************)
EXTENDS Integers

CONSTANTS
    Updaters,      \* threads that call UpdateInfo: the reactors of the hosts
    NumShards,     \* kNumInfoShards
    HostId,        \* host id of the bundles an updater delivers
    Flows,         \* flows a bundle may mention
    AggFlows,      \* flows with an entry in agg_flow_to_id_
    MaxUpdates     \* bound: UpdateInfo calls per updater

ASSUME NumShardsAssumption == NumShards \in Nat \ {0}
ASSUME HostIdAssumption == HostId \in [Updaters -> Nat]
ASSUME MaxUpdatesAssumption == MaxUpdates \in [Updaters -> Nat]

VARIABLES
    active,        \* active_info_shard_ids_
    infos, gens,   \* info_shards_[shard][buffer].{infos, gens}
    upc, ucur,     \* UpdateInfo: program counter and cur_id
    got,           \* UpdateInfo: infos of the bundle not pushed yet
    gen,           \* number of bundles an updater has started to deliver
    cpc, ccur,     \* CollectSnapshot's task for a shard: pc and cur_id
    parts,         \* CollectSnapshot: the aggregate of each shard
    snap,          \* the snapshot CollectSnapshot returned last
    sent,          \* history: infos of the bundles given to UpdateInfo
    reported       \* history: infos in the snapshots before snap

uvars == <<upc, ucur, got, gen, sent>>
cvars == <<cpc, ccur, parts, snap, reported>>
vars == <<active, infos, gens, uvars, cvars>>

Shards == 0 .. NumShards - 1
Buffers == {0, 1}
Info == Updaters \X Nat \X AggFlows
Gen == Updaters \X Nat
Aggregate == [children: SUBSET Info, info_gen: SUBSET Gen]
EmptyAggregate == [children |-> {}, info_gen |-> {}]

\* The shard of a host's bundles: host_id % kNumInfoShards.
ShardOf(u) == HostId[u] % NumShards

Init ==
    /\ active = [s \in Shards |-> 0]
    /\ infos = [s \in Shards |-> [b \in Buffers |-> {}]]
    /\ gens = [s \in Shards |-> [b \in Buffers |-> {}]]
    /\ upc = [u \in Updaters |-> "idle"]
    /\ ucur = [u \in Updaters |-> 0]
    /\ got = [u \in Updaters |-> {}]
    /\ gen = [u \in Updaters |-> 0]
    /\ sent = {}
    /\ cpc = [s \in Shards |-> "idle"]
    /\ ccur = [s \in Shards |-> 0]
    /\ parts = [s \in Shards |-> EmptyAggregate]
    /\ snap = EmptyAggregate
    /\ reported = {}
-----------------------------------------------------------------------------
(* UpdateInfo *)

\* Keep the flow infos whose flow belongs to a configured aggregate.
UpdateStart(u, flows) ==
    /\ upc[u] = "idle"
    /\ gen[u] < MaxUpdates[u]
    /\ gen' = [gen EXCEPT ![u] = @ + 1]
    /\ LET known == {u} \X {gen[u] + 1} \X (flows \cap AggFlows)
       IN  got' = [got EXCEPT ![u] = known] /\ sent' = sent \cup known
    /\ upc' = [upc EXCEPT ![u] = "load"]
    /\ UNCHANGED <<active, infos, gens, ucur, cvars>>

\* Spin until the shard has no updater inside.
UpdateLoad(u) ==
    /\ upc[u] = "load"
    /\ active[ShardOf(u)] >= 0
    /\ ucur' = [ucur EXCEPT ![u] = active[ShardOf(u)]]
    /\ upc' = [upc EXCEPT ![u] = "cas"]
    /\ UNCHANGED <<active, infos, gens, got, gen, sent, cvars>>

\* Mutant: a plain store instead of the compare-exchange.
UpdateCAS_Blind(u) ==
    /\ upc[u] = "cas"
    /\ active' = [active EXCEPT ![ShardOf(u)] = -1]
    /\ upc' = [upc EXCEPT ![u] = "push"]
    /\ UNCHANGED <<infos, gens, ucur, got, gen, sent, cvars>>

UpdateCAS(u) ==
    /\ upc[u] = "cas"
    /\ IF active[ShardOf(u)] = ucur[u]
       THEN /\ active' = [active EXCEPT ![ShardOf(u)] = -1]
            /\ upc' = [upc EXCEPT ![u] = "push"]
       ELSE /\ upc' = [upc EXCEPT ![u] = "load"]
            /\ UNCHANGED active
    /\ UNCHANGED <<infos, gens, ucur, got, gen, sent, cvars>>

UpdatePushInfo(u) ==
    /\ upc[u] = "push"
    /\ \E i \in got[u] :
         /\ infos' = [infos EXCEPT ![ShardOf(u)][ucur[u]] = @ \cup {i}]
         /\ got' = [got EXCEPT ![u] = @ \ {i}]
    /\ UNCHANGED <<active, gens, upc, ucur, gen, sent, cvars>>

UpdatePushGen(u) ==
    /\ upc[u] = "push"
    /\ got[u] = {}
    /\ gens' = [gens EXCEPT ![ShardOf(u)][ucur[u]] = @ \cup {<<u, gen[u]>>}]
    /\ upc' = [upc EXCEPT ![u] = "store"]
    /\ UNCHANGED <<active, infos, ucur, got, gen, sent, cvars>>

UpdateStore(u) ==
    /\ upc[u] = "store"
    /\ active' = [active EXCEPT ![ShardOf(u)] = ucur[u]]
    /\ upc' = [upc EXCEPT ![u] = "idle"]
    /\ UNCHANGED <<infos, gens, ucur, got, gen, sent, cvars>>
-----------------------------------------------------------------------------
(* CollectSnapshot: the control thread starts one task per shard and waits *)
(* for all of them.                                                        *)

CollectStart ==
    /\ \A s \in Shards : cpc[s] = "idle"
    /\ cpc' = [s \in Shards |-> "load"]
    /\ UNCHANGED <<active, infos, gens, uvars, ccur, parts, snap, reported>>

CollectLoad(s) ==
    /\ cpc[s] = "load"
    /\ active[s] >= 0
    /\ ccur' = [ccur EXCEPT ![s] = active[s]]
    /\ cpc' = [cpc EXCEPT ![s] = "clear_gens"]
    /\ UNCHANGED <<active, infos, gens, uvars, parts, snap, reported>>

CollectClearGens(s) ==
    /\ cpc[s] = "clear_gens"
    /\ gens' = [gens EXCEPT ![s][1 - ccur[s]] = {}]
    /\ cpc' = [cpc EXCEPT ![s] = "clear_infos"]
    /\ UNCHANGED <<active, infos, uvars, ccur, parts, snap, reported>>

\* Mutant: the buffer being filled is cleared, not the spare one.
CollectClearInfos_Current(s) ==
    /\ cpc[s] = "clear_infos"
    /\ infos' = [infos EXCEPT ![s][ccur[s]] = {}]
    /\ cpc' = [cpc EXCEPT ![s] = "cas"]
    /\ UNCHANGED <<active, gens, uvars, ccur, parts, snap, reported>>

CollectClearInfos(s) ==
    /\ cpc[s] = "clear_infos"
    /\ infos' = [infos EXCEPT ![s][1 - ccur[s]] = {}]
    /\ cpc' = [cpc EXCEPT ![s] = "cas"]
    /\ UNCHANGED <<active, gens, uvars, ccur, parts, snap, reported>>

\* Mutant: expected and desired values of the compare-exchange swapped.
CollectCAS_Swapped(s) ==
    /\ cpc[s] = "cas"
    /\ IF active[s] = 1 - ccur[s]
       THEN /\ active' = [active EXCEPT ![s] = ccur[s]]
            /\ cpc' = [cpc EXCEPT ![s] = "aggregate"]
       ELSE /\ cpc' = [cpc EXCEPT ![s] = "load"]
            /\ UNCHANGED active
    /\ UNCHANGED <<infos, gens, uvars, ccur, parts, snap, reported>>

CollectCAS(s) ==
    /\ cpc[s] = "cas"
    /\ IF active[s] = ccur[s]
       THEN /\ active' = [active EXCEPT ![s] = 1 - ccur[s]]
            /\ cpc' = [cpc EXCEPT ![s] = "aggregate"]
       ELSE /\ cpc' = [cpc EXCEPT ![s] = "load"]
            /\ UNCHANGED active
    /\ UNCHANGED <<infos, gens, uvars, ccur, parts, snap, reported>>

\* Aggregate(cur): the buffer that was active until the exchange.
CollectAggregate(s) ==
    /\ cpc[s] = "aggregate"
    /\ parts' = [parts EXCEPT ![s] = [children |-> infos[s][ccur[s]],
                                      info_gen |-> gens[s][ccur[s]]]]
    /\ cpc' = [cpc EXCEPT ![s] = "done"]
    /\ UNCHANGED <<active, infos, gens, uvars, ccur, snap, reported>>

\* The combined aggregate starts as a copy of part 0; the children of the
\* other parts are appended to it, their generations are not.
CombineParts ==
    [children |-> UNION {parts[s].children : s \in Shards},
     info_gen |-> parts[0].info_gen]

CollectReturn ==
    /\ \A s \in Shards : cpc[s] = "done"
    /\ snap' = CombineParts
    /\ reported' = reported \cup snap.children
    /\ cpc' = [s \in Shards |-> "idle"]
    /\ parts' = [s \in Shards |-> EmptyAggregate]
    /\ UNCHANGED <<active, infos, gens, uvars, ccur>>
-----------------------------------------------------------------------------
UpdateStep(u) ==
    \/ \E flows \in SUBSET Flows : UpdateStart(u, flows)
    \/ UpdateLoad(u) \/ UpdateCAS(u)
    \/ UpdatePushInfo(u) \/ UpdatePushGen(u) \/ UpdateStore(u)

CollectStep(s) ==
    \/ CollectLoad(s) \/ CollectClearGens(s) \/ CollectClearInfos(s)
    \/ CollectCAS(s) \/ CollectAggregate(s)

Next ==
    \/ \E u \in Updaters : UpdateStep(u)
    \/ \E s \in Shards : CollectStep(s)
    \/ CollectStart
    \/ CollectReturn

Spec == Init /\ [][Next]_vars

\* The operating system runs every thread (weak fairness).  An updater's
\* compare-exchange fails only if a snapshot or another updater got in since
\* the load; RunLoop sleeps between snapshots and a host sends one bundle per
\* period, so it does not lose that race forever (strong fairness).
Fairness ==
    /\ \A u \in Updaters :
         /\ WF_vars(UpdateLoad(u) \/ UpdateCAS(u) \/ UpdatePushInfo(u)
                    \/ UpdatePushGen(u) \/ UpdateStore(u))
         /\ SF_vars(UpdateLoad(u))
         /\ SF_vars(UpdateCAS(u) /\ upc'[u] = "push")
    /\ \A s \in Shards : WF_vars(CollectStep(s))
    /\ WF_vars(CollectStart)
    /\ WF_vars(CollectReturn)

FairSpec == Spec /\ Fairness
-----------------------------------------------------------------------------
(* Properties *)

Inside(u) == upc[u] \in {"push", "store"}

TypeOK ==
    /\ active \in [Shards -> {-1, 0, 1}]
    /\ infos \in [Shards -> [Buffers -> SUBSET Info]]
    /\ gens \in [Shards -> [Buffers -> SUBSET Gen]]
    /\ upc \in [Updaters -> {"idle", "load", "cas", "push", "store"}]
    /\ ucur \in [Updaters -> Buffers]
    /\ got \in [Updaters -> SUBSET Info]
    /\ gen \in [Updaters -> Nat]
    /\ sent \subseteq Info
    /\ cpc \in [Shards -> {"idle", "load", "clear_gens", "clear_infos", "cas",
                           "aggregate", "done"}]
    /\ ccur \in [Shards -> Buffers]
    /\ parts \in [Shards -> Aggregate]
    /\ snap \in Aggregate
    /\ reported \subseteq Info

\* The buffer CollectSnapshot's task for shard s may touch right now: the one
\* it clears, or the one it aggregates.
CollectorBuffer(s) ==
    IF cpc[s] \in {"clear_gens", "clear_infos"} THEN {1 - ccur[s]}
    ELSE IF cpc[s] = "aggregate" THEN {ccur[s]} ELSE {}

\* No two threads are ever in the same buffer (std::vector is not thread
\* safe): two updaters never push into one shard at a time, and an updater
\* never pushes into the buffer CollectSnapshot clears or aggregates, although
\* the collector clears before its compare-exchange has succeeded.
RaceFree ==
    \A u \in Updaters : Inside(u) =>
        /\ \A v \in Updaters \ {u} : ShardOf(v) = ShardOf(u) => ~Inside(v)
        /\ ucur[u] \notin CollectorBuffer(ShardOf(u))

\* The live buffer of shard s, the one that takes new infos, is b.
LiveIs(s, b) ==
    /\ active[s] \in {-1, b}
    /\ \A u \in Updaters : (ShardOf(u) = s /\ Inside(u)) => ucur[u] = b

\* The inductive strengthening of RaceFree.  The atomic is -1 exactly while
\* one updater is inside the shard; the collector's cur_id stays the live
\* buffer until its compare-exchange, and is the other one after it, because
\* nobody else ever flips the buffers.
LockInv ==
    /\ \A s \in Shards : active[s] = -1 <=> \E u \in Updaters : ShardOf(u) = s /\ Inside(u)
    /\ \A u, v \in Updaters :
         (Inside(u) /\ Inside(v) /\ ShardOf(u) = ShardOf(v)) => u = v
    /\ \A s \in Shards :
         /\ cpc[s] \in {"clear_gens", "clear_infos", "cas"} => LiveIs(s, ccur[s])
         /\ cpc[s] \in {"aggregate", "done"} => LiveIs(s, 1 - ccur[s])

\* Every info handed to UpdateInfo is still owned by the updater, in the live
\* buffer, in the buffer or part the running CollectSnapshot took, or in a
\* snapshot: the clear of the other buffer never drops an info.
NoLoss ==
    \A i \in sent :
        \/ i \in got[i[1]]
        \/ i \in snap.children \cup reported
        \/ LET s == ShardOf(i[1]) IN
             \/ cpc[s] = "done" /\ i \in parts[s].children
             \/ cpc[s] = "aggregate" /\ i \in infos[s][ccur[s]]
             \/ \E b \in Buffers : i \in infos[s][b]
                                   /\ \/ active[s] = b
                                      \/ \E u \in Updaters : Inside(u) /\ ShardOf(u) = s
                                                             /\ ucur[u] = b

\* No info is counted in two snapshots: buffers are cleared before reuse.
AtMostOnce == snap.children \cap reported = {}

\* A bundle is reported whole: the infos of one UpdateInfo call are never split
\* between two snapshots, nor is one in a snapshot while another is in flight.
WholeBundle ==
    \A i \in snap.children, j \in sent :
        (i[1] = j[1] /\ i[2] = j[2]) => j \in snap.children

\* The bundles of a host reach the control thread in the order they were sent.
InOrder ==
    \A i \in snap.children, j \in sent :
        (i[1] = j[1] /\ j[2] < i[2]) => j \in snap.children \cup reported

\* What UpdateInfo is given reaches the control thread exactly once, bundle by
\* bundle and in the order it was sent, although collectors and updaters share
\* two buffers and one atomic per shard.
ExactlyOnce == NoLoss /\ AtMostOnce /\ WholeBundle /\ InOrder

\* (fast-controller.cc: "Record which children we just heard from (for
\* monitoring response time)".)  A snapshot names the generation of every
\* bundle whose infos it holds.
SnapshotHasGens ==
    \A i \in snap.children : <<i[1], i[2]>> \in snap.info_gen

\* Every info given to UpdateInfo is eventually part of a snapshot.
EventuallyReported ==
    \A u \in Updaters : \A n \in 1 .. MaxUpdates[u], f \in AggFlows :
        <<u, n, f>> \in sent ~> <<u, n, f>> \in snap.children \cup reported
=============================================================================
