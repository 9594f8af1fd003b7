------------------------ MODULE FastAggregatorProofs ------------------------
(* Proofs about FastAggregator, for any number of updaters, shards, flows  *)
(* and updates.                                                            *)
EXTENDS FastAggregator, TLAPS

\* The shard an updater writes to exists.
LEMMA ShardOfType == \A u \in Updaters : ShardOf(u) \in Shards
  <1> SUFFICES ASSUME NEW u \in Updaters PROVE ShardOf(u) \in Shards
    OBVIOUS
  <1>1. HostId[u] \in Nat
    BY HostIdAssumption
  <1> QED
    BY <1>1, NumShardsAssumption DEF ShardOf, Shards

\* Every step of UpdateInfo and CollectSnapshot keeps every variable in its
\* type.
LEMMA TypeStep == TypeOK /\ [Next]_vars => TypeOK'
  <1> SUFFICES ASSUME TypeOK, [Next]_vars PROVE TypeOK'
    OBVIOUS
  <1> USE DEF TypeOK
  <1>1. ASSUME NEW u \in Updaters, UpdateStep(u) PROVE TypeOK'
    <2>0. ShardOf(u) \in Shards
      BY ShardOfType
    <2>1. ASSUME NEW flows \in SUBSET Flows, UpdateStart(u, flows) PROVE TypeOK'
      <3>1. {u} \X {gen[u] + 1} \X (flows \cap AggFlows) \subseteq Info
        BY DEF Info
      <3> QED
        BY <3>1, <2>1 DEF UpdateStart, cvars
    <2>2. CASE UpdateLoad(u)
      BY <2>0, <2>2 DEF UpdateLoad, cvars, Buffers
    <2>3. CASE UpdateCAS(u)
      BY <2>0, <2>3 DEF UpdateCAS, cvars
    <2>4. CASE UpdatePushInfo(u)
      BY <2>0, <2>4 DEF UpdatePushInfo, cvars
    <2>5. CASE UpdatePushGen(u)
      BY <2>0, <2>5 DEF UpdatePushGen, cvars, Gen
    <2>6. CASE UpdateStore(u)
      BY <2>0, <2>6 DEF UpdateStore, cvars, Buffers
    <2> QED
      BY <1>1, <2>1, <2>2, <2>3, <2>4, <2>5, <2>6 DEF UpdateStep
  <1>2. ASSUME NEW s \in Shards, CollectStep(s) PROVE TypeOK'
    <2>1. CASE CollectLoad(s)
      BY <2>1 DEF CollectLoad, uvars, Buffers
    <2>2. CASE CollectClearGens(s)
      BY <2>2 DEF CollectClearGens, uvars, Buffers
    <2>3. CASE CollectClearInfos(s)
      BY <2>3 DEF CollectClearInfos, uvars, Buffers
    <2>4. CASE CollectCAS(s)
      <3>1. 1 - ccur[s] \in {0, 1}
        BY DEF Buffers
      <3>2. active' \in [Shards -> {-1, 0, 1}]
        BY <2>4, <3>1 DEF CollectCAS
      <3> QED
        BY <2>4, <3>2 DEF CollectCAS, uvars
    <2>5. CASE CollectAggregate(s)
      BY <2>5 DEF CollectAggregate, uvars, Aggregate
    <2> QED
      BY <1>2, <2>1, <2>2, <2>3, <2>4, <2>5 DEF CollectStep
  <1>3. CASE CollectStart
    BY <1>3 DEF CollectStart, uvars
  <1>4. CASE CollectReturn
    <2>1. 0 \in Shards
      BY NumShardsAssumption DEF Shards
    <2>2. CombineParts \in Aggregate
      BY <2>1 DEF CombineParts, Aggregate
    <2> QED
      BY <1>4, <2>2 DEF CollectReturn, uvars, Aggregate, EmptyAggregate
  <1>5. CASE UNCHANGED vars
    BY <1>5 DEF vars, uvars, cvars
  <1> QED
    BY <1>1, <1>2, <1>3, <1>4, <1>5 DEF Next

\* The constructor establishes the type invariant.
LEMMA TypeInit == Init => TypeOK
  BY DEF Init, TypeOK, Buffers, EmptyAggregate, Aggregate

\* FastAggregator is type correct.
THEOREM TypeCorrect == Spec => []TypeOK
  BY TypeInit, TypeStep, PTL DEF Spec
-----------------------------------------------------------------------------
\* UpdateInfo and the collector's tasks keep the -1 lock and the collector's
\* notion of the live buffer consistent.
LEMMA LockStep == TypeOK /\ LockInv /\ [Next]_vars => LockInv'
  <1> SUFFICES ASSUME TypeOK, LockInv, [Next]_vars PROVE LockInv'
    OBVIOUS
  <1> USE DEF LockInv, LiveIs, Inside
  <1>0. /\ active \in [Shards -> {-1, 0, 1}]
        /\ upc \in [Updaters -> {"idle", "load", "cas", "push", "store"}]
        /\ ucur \in [Updaters -> {0, 1}]
        /\ ccur \in [Shards -> {0, 1}]
        /\ cpc \in [Shards -> {"idle", "load", "clear_gens", "clear_infos", "cas",
                               "aggregate", "done"}]
    BY DEF TypeOK, Buffers
  <1>1. ASSUME NEW u \in Updaters, UpdateStep(u) PROVE LockInv'
    <2>0. /\ ShardOf(u) \in Shards
          /\ \A v \in Updaters : ShardOf(v)' = ShardOf(v)
      BY ShardOfType DEF ShardOf
    <2>c. cpc' = cpc /\ ccur' = ccur
      BY <1>1 DEF UpdateStep, UpdateStart, UpdateLoad, UpdateCAS, UpdatePushInfo,
                  UpdatePushGen, UpdateStore, cvars
    <2>1. ASSUME NEW flows \in SUBSET Flows, UpdateStart(u, flows) PROVE LockInv'
      BY <1>0, <2>0, <2>c, <2>1 DEF UpdateStart
    <2>2. CASE UpdateLoad(u)
      BY <1>0, <2>0, <2>c, <2>2 DEF UpdateLoad
    <2>3. CASE UpdateCAS(u)
      BY <1>0, <2>0, <2>c, <2>3 DEF UpdateCAS
    <2>4. CASE UpdatePushInfo(u)
      BY <1>0, <2>0, <2>c, <2>4 DEF UpdatePushInfo
    <2>5. CASE UpdatePushGen(u)
      BY <1>0, <2>0, <2>c, <2>5 DEF UpdatePushGen
    <2>6. CASE UpdateStore(u)
      BY <1>0, <2>0, <2>c, <2>6 DEF UpdateStore
    <2> QED
      BY <1>1, <2>1, <2>2, <2>3, <2>4, <2>5, <2>6 DEF UpdateStep
  <1>2. ASSUME NEW s \in Shards, CollectStep(s) PROVE LockInv'
    <2>u. /\ upc' = upc /\ ucur' = ucur
          /\ \A v \in Updaters : ShardOf(v)' = ShardOf(v)
      BY <1>2 DEF CollectStep, CollectLoad, CollectClearGens, CollectClearInfos,
                  CollectCAS, CollectAggregate, uvars, ShardOf
    <2>1. CASE CollectLoad(s)
      BY <1>0, <2>u, <2>1 DEF CollectLoad
    <2>2. CASE CollectClearGens(s)
      BY <1>0, <2>u, <2>2 DEF CollectClearGens
    <2>3. CASE CollectClearInfos(s)
      BY <1>0, <2>u, <2>3 DEF CollectClearInfos
    <2>4. CASE CollectCAS(s)
      BY <1>0, <2>u, <2>4 DEF CollectCAS
    <2>5. CASE CollectAggregate(s)
      BY <1>0, <2>u, <2>5 DEF CollectAggregate
    <2> QED
      BY <1>2, <2>1, <2>2, <2>3, <2>4, <2>5 DEF CollectStep
  <1>3. CASE CollectStart
    BY <1>0, <1>3 DEF CollectStart, uvars, ShardOf
  <1>4. CASE CollectReturn
    BY <1>0, <1>4 DEF CollectReturn, uvars, ShardOf
  <1>5. CASE UNCHANGED vars
    BY <1>0, <1>5 DEF vars, uvars, cvars, ShardOf
  <1> QED
    BY <1>1, <1>2, <1>3, <1>4, <1>5 DEF Next

\* LockInv rules out that two threads are in one buffer.
LEMMA LockInvRaceFree == TypeOK /\ LockInv => RaceFree
  <1> SUFFICES ASSUME TypeOK, LockInv, NEW u \in Updaters, Inside(u)
               PROVE  /\ \A v \in Updaters \ {u} : ShardOf(v) = ShardOf(u) => ~Inside(v)
                      /\ ucur[u] \notin CollectorBuffer(ShardOf(u))
    BY DEF RaceFree
  <1>1. \A v \in Updaters \ {u} : ShardOf(v) = ShardOf(u) => ~Inside(v)
    BY DEF LockInv
  <1> DEFINE s == ShardOf(u)
  <1>2. s \in Shards /\ ccur[s] \in {0, 1}
    BY ShardOfType DEF TypeOK, Buffers
  <1>3. /\ cpc[s] \in {"clear_gens", "clear_infos"} => ucur[u] = ccur[s]
        /\ cpc[s] = "aggregate" => ucur[u] = 1 - ccur[s]
    BY <1>2 DEF LockInv, LiveIs
  <1>4. ucur[u] \notin CollectorBuffer(s)
    BY <1>2, <1>3 DEF CollectorBuffer
  <1> QED
    BY <1>1, <1>4

\* No buffer of FastAggregator is ever used by two threads at a time: neither
\* by two calls of UpdateInfo nor by UpdateInfo and CollectSnapshot.
THEOREM BuffersRaceFree == Spec => []RaceFree
  <1>1. Init => LockInv
    BY DEF Init, LockInv, Inside
  <1> QED
    BY <1>1, TypeInit, TypeStep, LockStep, LockInvRaceFree, PTL DEF Spec
-----------------------------------------------------------------------------
(* Where an info is on its way to the control thread: with the updater, in *)
(* the live buffer of its shard, taken by the running CollectSnapshot, in  *)
(* the last snapshot, in an earlier one.                                   *)

\* Buffer b of shard s takes new infos.
Lives(s, b) ==
    \/ active[s] = b
    \/ \E u \in Updaters : Inside(u) /\ ShardOf(u) = s /\ ucur[u] = b

Held(i) == i \in got[i[1]]

Waiting(i) ==
    \E b \in Buffers : i \in infos[ShardOf(i[1])][b] /\ Lives(ShardOf(i[1]), b)

Taken(i) ==
    \/ cpc[ShardOf(i[1])] = "done" /\ i \in parts[ShardOf(i[1])].children
    \/ cpc[ShardOf(i[1])] = "aggregate" /\ i \in infos[ShardOf(i[1])][ccur[ShardOf(i[1])]]

Shown(i) == i \in snap.children
Past(i) == i \in reported

\* What a buffer or a part holds belongs to its shard, and the spare buffer is
\* empty when the collector tries to flip the buffers.
ShardInv ==
    \A s \in Shards :
        /\ \A b \in Buffers : \A i \in infos[s][b] : ShardOf(i[1]) = s
        /\ \A i \in parts[s].children : ShardOf(i[1]) = s
        /\ cpc[s] = "cas" => infos[s][1 - ccur[s]] = {}

\* An updater delivers one bundle at a time, and has all of it until it is
\* inside the shard.
BundleInv ==
    /\ \A i \in sent :
         /\ i[2] <= gen[i[1]]
         /\ i[2] = gen[i[1]] /\ upc[i[1]] \in {"load", "cas"} => Held(i)
    /\ \A u \in Updaters :
         /\ \A i \in got[u] : i \in sent /\ i[1] = u /\ i[2] = gen[u]
         /\ upc[u] \in {"idle", "store"} => got[u] = {}

\* Every info is at exactly one place, ...
PlaceInv ==
    /\ \A i \in sent : Held(i) \/ Waiting(i) \/ Taken(i) \/ Shown(i) \/ Past(i)
    /\ \A i \in Info :
         /\ Waiting(i) \/ Taken(i) \/ Shown(i) \/ Past(i) => i \in sent /\ ~Held(i)
         /\ Taken(i) \/ Shown(i) \/ Past(i) => ~Waiting(i)
         /\ Shown(i) \/ Past(i) => ~Taken(i)
         /\ Past(i) => ~Shown(i)

\* ... the infos of a bundle are taken, shown and put away together, and
\* after those of the bundles before it.
BatchInv ==
    \A i \in sent, j \in sent :
        /\ i[1] = j[1] /\ i[2] = j[2] =>
             /\ Taken(i) => Taken(j)
             /\ Shown(i) => Shown(j)
             /\ Past(i) => Past(j)
        /\ i[1] = j[1] /\ j[2] < i[2] =>
             /\ Shown(i) \/ Past(i) => Shown(j) \/ Past(j)
             /\ Taken(i) => Taken(j) \/ Shown(j) \/ Past(j)

FlowInv == ShardInv /\ BundleInv /\ PlaceInv /\ BatchInv
-----------------------------------------------------------------------------
\* An info stays where it is.
Unmoved(i) ==
    /\ Held(i)' <=> Held(i)
    /\ Waiting(i)' <=> Waiting(i)
    /\ Taken(i)' <=> Taken(i)
    /\ Shown(i)' <=> Shown(i)
    /\ Past(i)' <=> Past(i)

\* An info names its updater, its generation and its shard.
LEMMA InfoFields ==
    \A i \in Info : i[1] \in Updaters /\ i[2] \in Nat /\ ShardOf(i[1]) \in Shards
  BY ShardOfType DEF Info

\* A shard's infos and its collector are what the places of an info depend on.
LEMMA PlaceFacts ==
    ASSUME TypeOK, NEW i \in Info,
           \A s \in Shards, b \in Buffers : Lives(s, b)' <=> Lives(s, b),
           UNCHANGED <<infos, got, cpc, ccur, parts, snap, reported>>
    PROVE  Unmoved(i)
  <1>1. ShardOf(i[1]) \in Shards /\ ShardOf(i[1])' = ShardOf(i[1])
    BY InfoFields DEF ShardOf
  <1>2. Waiting(i)' <=> Waiting(i)
    BY <1>1 DEF Waiting
  <1>3. (Held(i)' <=> Held(i)) /\ (Taken(i)' <=> Taken(i))
    BY <1>1 DEF Held, Taken
  <1>4. (Shown(i)' <=> Shown(i)) /\ (Past(i)' <=> Past(i))
    BY DEF Shown, Past
  <1> QED
    BY <1>2, <1>3, <1>4 DEF Unmoved

\* UpdateInfo moves the lock from the atomic to itself and back: the live
\* buffer stays the same.
LEMMA UpdaterKeepsLive ==
    ASSUME TypeOK, LockInv, NEW u \in Updaters,
           \/ \E flows \in SUBSET Flows : UpdateStart(u, flows)
           \/ UpdateLoad(u) \/ UpdateCAS(u) \/ UpdatePushInfo(u) \/ UpdatePushGen(u)
           \/ UpdateStore(u),
           NEW s \in Shards, NEW b \in Buffers
    PROVE  Lives(s, b)' <=> Lives(s, b)
  <1>0. /\ active \in [Shards -> {-1, 0, 1}]
        /\ upc \in [Updaters -> {"idle", "load", "cas", "push", "store"}]
        /\ ucur \in [Updaters -> {0, 1}] /\ b \in {0, 1}
        /\ ShardOf(u) \in Shards /\ \A v \in Updaters : ShardOf(v)' = ShardOf(v)
    BY ShardOfType DEF TypeOK, Buffers, ShardOf
  <1>1. /\ active[s] = -1 <=> \E v \in Updaters : ShardOf(v) = s /\ Inside(v)
        /\ \A v, w \in Updaters : (Inside(v) /\ Inside(w) /\ ShardOf(v) = ShardOf(w)) => v = w
    BY DEF LockInv
  <1>2. ASSUME NEW flows \in SUBSET Flows, UpdateStart(u, flows)
        PROVE  Lives(s, b)' <=> Lives(s, b)
    BY <1>0, <1>2 DEF UpdateStart, Lives, Inside
  <1>3. CASE UpdateLoad(u)
    BY <1>0, <1>3 DEF UpdateLoad, Lives, Inside
  <1>4. CASE UpdateCAS(u)
    BY <1>0, <1>1, <1>4 DEF UpdateCAS, Lives, Inside
  <1>5. CASE UpdatePushInfo(u)
    BY <1>0, <1>5 DEF UpdatePushInfo, Lives, Inside
  <1>6. CASE UpdatePushGen(u)
    BY <1>0, <1>6 DEF UpdatePushGen, Lives, Inside
  <1>7. CASE UpdateStore(u)
    BY <1>0, <1>1, <1>7 DEF UpdateStore, Lives, Inside
  <1> QED
    BY <1>2, <1>3, <1>4, <1>5, <1>6, <1>7

\* The steps that move no info between those places.
QuietStep ==
    \/ \E u \in Updaters : UpdateLoad(u) \/ UpdateCAS(u) \/ UpdatePushGen(u) \/ UpdateStore(u)
    \/ \E s \in Shards : \/ CollectLoad(s) \/ CollectClearGens(s) \/ CollectClearInfos(s)
                         \/ CollectCAS(s) /\ active[s] # ccur[s]
                         \/ CollectAggregate(s)
    \/ CollectStart
    \/ UNCHANGED vars

\* Such a step of UpdateInfo or CollectSnapshot leaves every info in its place.
LEMMA QuietSteps ==
    ASSUME TypeOK, LockInv, QuietStep, NEW i \in Info
    PROVE  Unmoved(i)
  <1> DEFINE x == ShardOf(i[1])
  <1>0. /\ active \in [Shards -> {-1, 0, 1}]
        /\ cpc \in [Shards -> {"idle", "load", "clear_gens", "clear_infos", "cas",
                               "aggregate", "done"}]
        /\ ccur \in [Shards -> {0, 1}]
        /\ infos \in [Shards -> [Buffers -> SUBSET Info]]
        /\ parts \in [Shards -> Aggregate]
        /\ \A v \in Updaters : ShardOf(v)' = ShardOf(v)
        /\ x \in Shards /\ x' = x
    BY InfoFields DEF TypeOK, Buffers, ShardOf
  <1>1. ASSUME NEW u \in Updaters,
               UpdateLoad(u) \/ UpdateCAS(u) \/ UpdatePushGen(u) \/ UpdateStore(u)
        PROVE  Unmoved(i)
    <2>1. UNCHANGED <<infos, got, cpc, ccur, parts, snap, reported, sent>>
      BY <1>1 DEF UpdateLoad, UpdateCAS, UpdatePushGen, UpdateStore, cvars
    <2> QED
      BY <1>1, <2>1, UpdaterKeepsLive, PlaceFacts
  <1>2. ASSUME UNCHANGED <<active, upc, ucur, got, snap, reported, sent>>
        PROVE  /\ \A s \in Shards, b \in Buffers : Lives(s, b)' <=> Lives(s, b)
               /\ (Held(i)' <=> Held(i)) /\ (Shown(i)' <=> Shown(i)) /\ (Past(i)' <=> Past(i))
    BY <1>0, <1>2 DEF Lives, Inside, Held, Shown, Past
  <1>3. ASSUME NEW s \in Shards, CollectLoad(s) PROVE Unmoved(i)
    <2>1. UNCHANGED <<active, infos, upc, ucur, got, parts, snap, reported, sent>>
      BY <1>3 DEF CollectLoad, uvars
    <2>2. Waiting(i)' <=> Waiting(i)
      BY <1>0, <1>2, <2>1 DEF Waiting
    <2>3. Taken(i)' <=> Taken(i)
      BY <1>0, <1>3 DEF Taken, CollectLoad
    <2> QED
      BY <1>2, <2>1, <2>2, <2>3 DEF Unmoved
  <1>4. ASSUME NEW s \in Shards, CollectClearGens(s) PROVE Unmoved(i)
    <2>1. UNCHANGED <<active, infos, upc, ucur, got, parts, snap, reported, sent>>
      BY <1>4 DEF CollectClearGens, uvars
    <2>2. Waiting(i)' <=> Waiting(i)
      BY <1>0, <1>2, <2>1 DEF Waiting
    <2>3. Taken(i)' <=> Taken(i)
      BY <1>0, <1>4 DEF Taken, CollectClearGens
    <2> QED
      BY <1>2, <2>1, <2>2, <2>3 DEF Unmoved
  <1>5. ASSUME NEW s \in Shards, CollectClearInfos(s) PROVE Unmoved(i)
    <2>1. UNCHANGED <<active, upc, ucur, got, parts, snap, reported, sent>>
      BY <1>5 DEF CollectClearInfos, uvars
    <2>2. LiveIs(s, ccur[s])
      BY <1>0, <1>5 DEF LockInv, CollectClearInfos
    <2>3. ~Lives(s, 1 - ccur[s])
      BY <1>0, <2>2 DEF Lives, LiveIs
    <2>4. \A t \in Shards, b \in Buffers :
            infos'[t][b] = infos[t][b] \/ (t = s /\ b = 1 - ccur[s])
      BY <1>0, <1>5 DEF CollectClearInfos
    <2>5. Waiting(i)' <=> Waiting(i)
      BY <1>0, <1>2, <2>1, <2>3, <2>4 DEF Waiting
    <2>6. Taken(i)' <=> Taken(i)
      BY <1>0, <1>5 DEF Taken, CollectClearInfos
    <2> QED
      BY <1>2, <2>1, <2>5, <2>6 DEF Unmoved
  <1>6. ASSUME NEW s \in Shards, CollectCAS(s), active[s] # ccur[s]
        PROVE  Unmoved(i)
    <2>1. UNCHANGED <<active, infos, upc, ucur, got, parts, snap, reported, sent>>
      BY <1>6 DEF CollectCAS, uvars
    <2>2. Waiting(i)' <=> Waiting(i)
      BY <1>0, <1>2, <2>1 DEF Waiting
    <2>3. Taken(i)' <=> Taken(i)
      BY <1>0, <1>6 DEF Taken, CollectCAS
    <2> QED
      BY <1>2, <2>1, <2>2, <2>3 DEF Unmoved
  <1>7. ASSUME NEW s \in Shards, CollectAggregate(s) PROVE Unmoved(i)
    <2>1. UNCHANGED <<active, infos, upc, ucur, got, snap, reported, sent>>
      BY <1>7 DEF CollectAggregate, uvars
    <2>2. Waiting(i)' <=> Waiting(i)
      BY <1>0, <1>2, <2>1 DEF Waiting
    <2>3. Taken(i)' <=> Taken(i)
      BY <1>0, <1>7 DEF Taken, CollectAggregate
    <2> QED
      BY <1>2, <2>1, <2>2, <2>3 DEF Unmoved
  <1>8. ASSUME CollectStart PROVE Unmoved(i)
    <2>1. UNCHANGED <<active, infos, upc, ucur, got, parts, snap, reported, sent>>
      BY <1>8 DEF CollectStart, uvars
    <2>2. Waiting(i)' <=> Waiting(i)
      BY <1>0, <1>2, <2>1 DEF Waiting
    <2>3. Taken(i)' <=> Taken(i)
      BY <1>0, <1>8 DEF Taken, CollectStart
    <2> QED
      BY <1>2, <2>1, <2>2, <2>3 DEF Unmoved
  <1>9. ASSUME UNCHANGED vars PROVE Unmoved(i)
    <2>1. UNCHANGED <<active, upc, ucur, infos, got, cpc, ccur, parts, snap, reported, sent>>
      BY <1>9 DEF vars, uvars, cvars
    <2> QED
      BY <1>2, <2>1, PlaceFacts
  <1> QED
    BY <1>1, <1>3, <1>4, <1>5, <1>6, <1>7, <1>8, <1>9 DEF QuietStep
-----------------------------------------------------------------------------
\* Infos stay in their shard, and the collector empties the spare buffer before
\* it tries to flip.
LEMMA ShardStep ==
    ASSUME TypeOK, LockInv, ShardInv, BundleInv, [Next]_vars
    PROVE  ShardInv'
  <1>0. /\ ccur \in [Shards -> {0, 1}] /\ ucur \in [Updaters -> {0, 1}]
        /\ cpc \in [Shards -> {"idle", "load", "clear_gens", "clear_infos", "cas",
                               "aggregate", "done"}]
        /\ infos \in [Shards -> [Buffers -> SUBSET Info]]
        /\ parts \in [Shards -> Aggregate]
        /\ \A i \in Info : ShardOf(i[1])' = ShardOf(i[1])
    BY DEF TypeOK, Buffers, ShardOf
  <1>1. ASSUME UNCHANGED <<infos, parts, ccur>>,
               \A s \in Shards : cpc'[s] = "cas" => cpc[s] = "cas"
        PROVE  ShardInv'
    BY <1>0, <1>1 DEF ShardInv, ShardOf
  <1>2. ASSUME NEW u \in Updaters, UpdateStep(u) PROVE ShardInv'
    <2>1. CASE UpdatePushInfo(u)
      <3>1. PICK i \in got[u] : infos' = [infos EXCEPT ![ShardOf(u)][ucur[u]] = @ \cup {i}]
        BY <2>1, Zenon DEF UpdatePushInfo
      <3>2. /\ i[1] = u /\ ShardOf(u) \in Shards /\ ucur[u] \in Buffers
            /\ UNCHANGED <<cpc, ccur, parts>>
        BY <1>0, <2>1, ShardOfType DEF BundleInv, UpdatePushInfo, cvars, Buffers
      <3>3. \A s \in Shards : cpc[s] = "cas" => LiveIs(s, ccur[s])
        BY DEF LockInv
      <3>4. cpc[ShardOf(u)] = "cas" => ucur[u] = ccur[ShardOf(u)]
        BY <2>1, <3>2, <3>3 DEF LiveIs, Inside, UpdatePushInfo
      <3>5. \A s \in Shards, b \in Buffers :
              \/ infos'[s][b] = infos[s][b]
              \/ s = ShardOf(u) /\ b = ucur[u] /\ infos'[s][b] = infos[s][b] \cup {i}
        BY <1>0, <3>1, <3>2
      <3>6. \A s \in Shards : cpc[s] = "cas" => infos'[s][1 - ccur[s]] = infos[s][1 - ccur[s]]
        BY <1>0, <3>4, <3>5 DEF Buffers
      <3> QED
        BY <1>0, <3>2, <3>5, <3>6 DEF ShardInv, ShardOf
    <2>2. CASE ~UpdatePushInfo(u)
      BY <1>1, <1>2, <2>2 DEF UpdateStep, UpdateStart, UpdateLoad, UpdateCAS, UpdatePushGen,
                              UpdateStore, cvars
    <2> QED
      BY <2>1, <2>2
  <1>3. ASSUME NEW s \in Shards, CollectStep(s) PROVE ShardInv'
    <2>1. CASE CollectLoad(s)
      <3>1. /\ UNCHANGED <<infos, parts>> /\ cpc' = [cpc EXCEPT ![s] = "clear_gens"]
            /\ \A t \in Shards \ {s} : ccur'[t] = ccur[t]
        BY <1>0, <2>1 DEF CollectLoad
      <3> QED
        BY <1>0, <3>1 DEF ShardInv, ShardOf
    <2>2. CASE CollectClearGens(s)
      BY <1>0, <1>1, <2>2 DEF CollectClearGens
    <2>3. CASE CollectClearInfos(s)
      <3>1. /\ \A t \in Shards, b \in Buffers :
                 infos'[t][b] = IF t = s /\ b = 1 - ccur[s] THEN {} ELSE infos[t][b]
            /\ \A t \in Shards \ {s} : cpc'[t] = cpc[t]
            /\ UNCHANGED <<parts, ccur>>
        BY <1>0, <2>3 DEF CollectClearInfos
      <3>2. \A t \in Shards : 1 - ccur[t] \in Buffers
        BY <1>0 DEF Buffers
      <3> QED
        BY <1>0, <3>1, <3>2 DEF ShardInv, ShardOf
    <2>4. CASE CollectCAS(s)
      BY <1>0, <1>1, <2>4 DEF CollectCAS
    <2>5. CASE CollectAggregate(s)
      <3>1. /\ parts' = [parts EXCEPT ![s] = [children |-> infos[s][ccur[s]],
                                              info_gen |-> gens[s][ccur[s]]]]
            /\ UNCHANGED <<infos, ccur>> /\ cpc' = [cpc EXCEPT ![s] = "done"]
        BY <2>5 DEF CollectAggregate
      <3>2. \A t \in Shards : \A i \in parts'[t].children : ShardOf(i[1]) = t
        BY <1>0, <3>1 DEF ShardInv, Buffers
      <3> QED
        BY <1>0, <3>1, <3>2 DEF ShardInv, ShardOf
    <2> QED
      BY <1>3, <2>1, <2>2, <2>3, <2>4, <2>5 DEF CollectStep
  <1>4. CASE CollectStart
    BY <1>1, <1>4 DEF CollectStart
  <1>5. CASE CollectReturn
    <2>1. /\ \A s \in Shards : parts'[s].children = {} /\ cpc'[s] = "idle"
          /\ UNCHANGED <<infos, ccur>>
      BY <1>5 DEF CollectReturn, EmptyAggregate
    <2> QED
      BY <1>0, <2>1 DEF ShardInv, ShardOf
  <1>6. CASE UNCHANGED vars
    BY <1>1, <1>6 DEF vars, cvars
  <1> QED
    BY <1>2, <1>3, <1>4, <1>5, <1>6 DEF Next

\* An updater delivers its bundles one after the other.
LEMMA BundleStep ==
    ASSUME TypeOK, BundleInv, [Next]_vars
    PROVE  BundleInv'
  <1>0. /\ got \in [Updaters -> SUBSET Info] /\ gen \in [Updaters -> Nat]
        /\ upc \in [Updaters -> {"idle", "load", "cas", "push", "store"}]
        /\ sent \subseteq Info
        /\ \A i \in Info : i[1] \in Updaters /\ i[2] \in Nat
    BY InfoFields DEF TypeOK
  <1>1. ASSUME NEW u \in Updaters, UpdateStep(u) PROVE BundleInv'
    <2>1. ASSUME NEW flows \in SUBSET Flows, UpdateStart(u, flows) PROVE BundleInv'
      <3> DEFINE known == {u} \X {gen[u] + 1} \X (flows \cap AggFlows)
      <3>1. /\ gen' = [gen EXCEPT ![u] = @ + 1] /\ got' = [got EXCEPT ![u] = known]
            /\ sent' = sent \cup known /\ upc' = [upc EXCEPT ![u] = "load"]
        BY <2>1 DEF UpdateStart
      <3>2. \A i \in known : i \in Info /\ i[1] = u /\ i[2] = gen[u] + 1
        BY <1>0 DEF Info
      <3>3. \A i \in sent : i[2] <= gen[i[1]] /\ i[2] # gen[i[1]] + 1
        BY <1>0 DEF BundleInv
      <3> HIDE DEF known
      <3>4. ASSUME NEW i \in sent'
            PROVE  /\ i[2] <= gen'[i[1]]
                   /\ i[2] = gen'[i[1]] /\ upc'[i[1]] \in {"load", "cas"} => i \in got'[i[1]]
        <4>1. CASE i \in known
          BY <1>0, <3>1, <3>2, <4>1
        <4>2. CASE i \in sent /\ i[1] = u
          BY <1>0, <3>1, <3>3, <4>2
        <4>3. CASE i \in sent /\ i[1] # u
          BY <1>0, <3>1, <4>3 DEF BundleInv, Held
        <4> QED
          BY <3>1, <4>1, <4>2, <4>3
      <3>5. ASSUME NEW v \in Updaters
            PROVE  /\ \A i \in got'[v] : i \in sent' /\ i[1] = v /\ i[2] = gen'[v]
                   /\ upc'[v] \in {"idle", "store"} => got'[v] = {}
        BY <1>0, <3>1, <3>2 DEF BundleInv
      <3> QED
        BY <3>4, <3>5 DEF BundleInv, Held
    <2>2. CASE UpdatePushInfo(u)
      <3>1. PICK i \in got[u] : got' = [got EXCEPT ![u] = @ \ {i}]
        BY <2>2, Zenon DEF UpdatePushInfo
      <3>2. upc[u] = "push" /\ UNCHANGED <<upc, gen, sent>>
        BY <2>2 DEF UpdatePushInfo
      <3> QED
        BY <1>0, <3>1, <3>2 DEF BundleInv, Held
    <2>3. CASE UpdatePushGen(u)
      BY <1>0, <2>3 DEF UpdatePushGen, BundleInv, Held
    <2>4. CASE UpdateLoad(u)
      BY <1>0, <2>4 DEF UpdateLoad, BundleInv, Held
    <2>5. CASE UpdateCAS(u)
      BY <1>0, <2>5 DEF UpdateCAS, BundleInv, Held
    <2>6. CASE UpdateStore(u)
      BY <1>0, <2>6 DEF UpdateStore, BundleInv, Held
    <2> QED
      BY <1>1, <2>1, <2>2, <2>3, <2>4, <2>5, <2>6 DEF UpdateStep
  <1>2. CASE UNCHANGED uvars
    BY <1>2 DEF uvars, BundleInv, Held
  <1>3. (\E u \in Updaters : UpdateStep(u)) \/ UNCHANGED uvars
    BY DEF Next, CollectStep, CollectLoad, CollectClearGens, CollectClearInfos, CollectCAS,
           CollectAggregate, CollectStart, CollectReturn, vars
  <1> QED
    BY <1>1, <1>2, <1>3
-----------------------------------------------------------------------------
\* Where the infos are, after UpdateInfo was called: the new ones are with the
\* updater, the others where they were.
LEMMA StartMoves ==
    ASSUME TypeOK, LockInv, FlowInv, NEW u \in Updaters, NEW flows \in SUBSET Flows,
           UpdateStart(u, flows)
    PROVE  /\ \A i \in sent' \ sent :
                /\ i[1] = u /\ i[2] = gen[u] + 1
                /\ Held(i)' /\ ~Waiting(i)' /\ ~Taken(i)' /\ ~Shown(i)' /\ ~Past(i)'
           /\ \A i \in Info : i \notin sent' \ sent => Unmoved(i)
           /\ sent \subseteq sent'
  <1> DEFINE known == {u} \X {gen[u] + 1} \X (flows \cap AggFlows)
  <1>1. /\ got' = [got EXCEPT ![u] = known] /\ sent' = sent \cup known
        /\ upc[u] = "idle" /\ UNCHANGED <<infos, cpc, ccur, parts, snap, reported>>
    BY DEF UpdateStart, cvars
  <1>2. \A i \in known : i \in Info /\ i[1] = u /\ i[2] = gen[u] + 1
    BY DEF Info, TypeOK
  <1>3. \A i \in sent : i[1] = u => i[2] # gen[u] + 1
    BY InfoFields DEF FlowInv, BundleInv, TypeOK
  <1>4. known \cap sent = {}
    BY <1>2, <1>3
  <1> HIDE DEF known
  <1>5. \A i \in Info : /\ Waiting(i)' <=> Waiting(i)
                        /\ Taken(i)' <=> Taken(i)
                        /\ Shown(i)' <=> Shown(i)
                        /\ Past(i)' <=> Past(i)
    <2> SUFFICES ASSUME NEW i \in Info
                 PROVE  /\ Waiting(i)' <=> Waiting(i)
                        /\ Taken(i)' <=> Taken(i)
                        /\ Shown(i)' <=> Shown(i)
                        /\ Past(i)' <=> Past(i)
      OBVIOUS
    <2>1. ShardOf(i[1]) \in Shards /\ ShardOf(i[1])' = ShardOf(i[1])
      BY InfoFields DEF ShardOf
    <2>2. \A b \in Buffers : Lives(ShardOf(i[1]), b)' <=> Lives(ShardOf(i[1]), b)
      BY <2>1, UpdaterKeepsLive
    <2>3. Waiting(i)' <=> Waiting(i)
      BY <1>1, <2>1, <2>2 DEF Waiting
    <2> QED
      BY <1>1, <2>1, <2>3 DEF Taken, Shown, Past
  <1>6. ASSUME NEW i \in sent' \ sent
        PROVE  /\ i[1] = u /\ i[2] = gen[u] + 1
               /\ Held(i)' /\ ~Waiting(i)' /\ ~Taken(i)' /\ ~Shown(i)' /\ ~Past(i)'
    <2>1. i \in known /\ i \in Info /\ i[1] = u /\ i[2] = gen[u] + 1
      BY <1>1, <1>2
    <2>2. Held(i)'
      BY <1>1, <2>1 DEF Held, TypeOK
    <2> QED
      BY <1>5, <2>1, <2>2 DEF FlowInv, PlaceInv
  <1>7. ASSUME NEW i \in Info, i \notin sent' \ sent PROVE Unmoved(i)
    <2>1. got[u] = {} /\ i \notin known
      BY <1>1, <1>4, <1>7 DEF FlowInv, BundleInv
    <2>2. Held(i)' <=> Held(i)
      BY <1>1, <2>1, InfoFields DEF Held, TypeOK
    <2> QED
      BY <1>5, <2>2 DEF Unmoved
  <1> QED
    BY <1>1, <1>6, <1>7

\* A push moves one info from the updater into the live buffer.
LEMMA PushMoves ==
    ASSUME TypeOK, LockInv, FlowInv, NEW u \in Updaters, UpdatePushInfo(u)
    PROVE  /\ sent' = sent
           /\ \E i \in sent :
                /\ Held(i) /\ Inside(i[1]) /\ ~Held(i)' /\ Waiting(i)'
                /\ (Taken(i)' <=> Taken(i)) /\ (Shown(i)' <=> Shown(i)) /\ (Past(i)' <=> Past(i))
                /\ \A j \in Info \ {i} : Unmoved(j)
  <1> DEFINE s == ShardOf(u)
  <1>1. PICK i \in got[u] : /\ infos' = [infos EXCEPT ![s][ucur[u]] = @ \cup {i}]
                            /\ got' = [got EXCEPT ![u] = @ \ {i}]
    BY Zenon DEF UpdatePushInfo
  <1>2. /\ i \in sent /\ i \in Info /\ i[1] = u /\ s \in Shards /\ ucur[u] \in Buffers
        /\ Inside(u) /\ UNCHANGED <<upc, ucur, cpc, ccur, parts, snap, reported, sent>>
    BY ShardOfType DEF FlowInv, BundleInv, TypeOK, UpdatePushInfo, cvars, Inside
  <1>3. \A t \in Shards, b \in Buffers :
          infos'[t][b] = IF t = s /\ b = ucur[u] THEN infos[t][b] \cup {i} ELSE infos[t][b]
    BY <1>1, <1>2, Zenon DEF TypeOK
  <1>4. cpc[s] = "aggregate" => ucur[u] # ccur[s]
    <2>1. cpc[s] = "aggregate" => ucur[u] = 1 - ccur[s]
      BY <1>2 DEF LockInv, LiveIs
    <2> QED
      BY <1>2, <2>1 DEF TypeOK, Buffers
  <1>5. Held(i) /\ ~Held(i)'
    BY <1>1, <1>2 DEF Held, TypeOK
  <1>6. Lives(s, ucur[u])
    BY <1>2 DEF Lives
  <1>7. \A t \in Shards, b \in Buffers : Lives(t, b)' <=> Lives(t, b)
    BY UpdaterKeepsLive
  <1>8. Waiting(i)'
    <2>1. ShardOf(i[1])' = s /\ i \in infos'[s][ucur[u]] /\ Lives(s, ucur[u])'
      BY <1>2, <1>3, <1>6, <1>7, Zenon DEF ShardOf
    <2> QED
      BY <1>2, <2>1 DEF Waiting
  <1>9. ASSUME NEW j \in Info
        PROVE  (Taken(j)' <=> Taken(j)) /\ (Shown(j)' <=> Shown(j)) /\ (Past(j)' <=> Past(j))
    <2>1. ShardOf(j[1]) \in Shards /\ ShardOf(j[1])' = ShardOf(j[1])
          /\ ccur[ShardOf(j[1])] \in Buffers
      BY InfoFields DEF ShardOf, TypeOK
    <2>2. Taken(j)' <=> Taken(j)
      <3>1. cpc[ShardOf(j[1])] = "aggregate" =>
              infos'[ShardOf(j[1])][ccur[ShardOf(j[1])]] = infos[ShardOf(j[1])][ccur[ShardOf(j[1])]]
        BY <1>3, <1>4, <2>1, Zenon
      <3> QED
        BY <1>2, <2>1, <3>1, Zenon DEF Taken
    <2> QED
      BY <1>2, <2>2 DEF Shown, Past
  <1>10. ASSUME NEW j \in Info \ {i} PROVE Unmoved(j)
    <2>1. ShardOf(j[1]) \in Shards /\ ShardOf(j[1])' = ShardOf(j[1])
      BY InfoFields DEF ShardOf
    <2>2. Held(j)' <=> Held(j)
      BY <1>1, <1>2, <1>10, InfoFields DEF Held, TypeOK
    <2>3. Waiting(j)' <=> Waiting(j)
      BY <1>3, <1>7, <1>10, <2>1, Zenon DEF Waiting
    <2> QED
      BY <1>9, <2>2, <2>3 DEF Unmoved
  <1> QED
    BY <1>2, <1>5, <1>8, <1>9, <1>10

\* The successful exchange takes what waited in the shard, and only that.
LEMMA CASMoves ==
    ASSUME TypeOK, LockInv, FlowInv, NEW s \in Shards, CollectCAS(s), active[s] = ccur[s]
    PROVE  /\ sent' = sent
           /\ \A u \in Updaters : ShardOf(u) = s => ~Inside(u)
           /\ \A i \in Info : ShardOf(i[1]) # s => Unmoved(i)
           /\ \A i \in Info : ShardOf(i[1]) = s =>
                /\ ~Taken(i) /\ ~Waiting(i)' /\ (Taken(i)' <=> Waiting(i))
                /\ (Held(i)' <=> Held(i)) /\ (Shown(i)' <=> Shown(i)) /\ (Past(i)' <=> Past(i))
  <1>0. /\ active \in [Shards -> {-1, 0, 1}] /\ ccur \in [Shards -> {0, 1}]
        /\ cpc \in [Shards -> {"idle", "load", "clear_gens", "clear_infos", "cas",
                               "aggregate", "done"}]
        /\ \A v \in Updaters : ShardOf(v)' = ShardOf(v)
    BY DEF TypeOK, Buffers, ShardOf
  <1>1. /\ cpc[s] = "cas" /\ active' = [active EXCEPT ![s] = 1 - ccur[s]]
        /\ cpc' = [cpc EXCEPT ![s] = "aggregate"]
        /\ UNCHANGED <<infos, upc, ucur, got, ccur, parts, snap, reported, sent>>
    BY DEF CollectCAS, uvars
  <1>2. \A u \in Updaters : ShardOf(u) = s => ~Inside(u)
    BY <1>0 DEF LockInv
  <1>3. infos[s][1 - ccur[s]] = {}
    BY <1>1 DEF FlowInv, ShardInv
  <1>4. \A b \in Buffers : (Lives(s, b) <=> b = ccur[s]) /\ (Lives(s, b)' <=> b = 1 - ccur[s])
    BY <1>0, <1>1, <1>2 DEF Lives, Inside, Buffers
  <1>5. \A t \in Shards \ {s}, b \in Buffers : Lives(t, b)' <=> Lives(t, b)
    BY <1>0, <1>1 DEF Lives, Inside
  <1>6. ASSUME NEW i \in Info
        PROVE  (Held(i)' <=> Held(i)) /\ (Shown(i)' <=> Shown(i)) /\ (Past(i)' <=> Past(i))
    BY <1>1 DEF Held, Shown, Past
  <1>7. ASSUME NEW i \in Info, ShardOf(i[1]) # s PROVE Unmoved(i)
    <2>1. ShardOf(i[1]) \in Shards /\ ShardOf(i[1])' = ShardOf(i[1])
      BY InfoFields DEF ShardOf
    <2>2. Waiting(i)' <=> Waiting(i)
      BY <1>1, <1>5, <1>7, <2>1 DEF Waiting
    <2>3. Taken(i)' <=> Taken(i)
      BY <1>0, <1>1, <1>7, <2>1 DEF Taken
    <2> QED
      BY <1>6, <2>2, <2>3 DEF Unmoved
  <1>8. ASSUME NEW i \in Info, ShardOf(i[1]) = s
        PROVE  ~Taken(i) /\ ~Waiting(i)' /\ (Taken(i)' <=> Waiting(i))
    <2>1. ShardOf(i[1])' = s /\ ccur[s] \in Buffers
      BY <1>0, <1>8 DEF ShardOf, Buffers
    <2>2. ~Taken(i)
      BY <1>1, <1>8 DEF Taken
    <2>3. ~Waiting(i)'
      BY <1>1, <1>3, <1>4, <2>1 DEF Waiting
    <2>4. Waiting(i) <=> i \in infos[s][ccur[s]]
      BY <1>4, <1>8, <2>1 DEF Waiting
    <2>5. Taken(i)' <=> i \in infos[s][ccur[s]]
      BY <1>0, <1>1, <2>1 DEF Taken
    <2> QED
      BY <2>2, <2>3, <2>4, <2>5
  <1> QED
    BY <1>1, <1>2, <1>6, <1>7, <1>8

\* CollectSnapshot returns what its tasks took.
LEMMA ReturnMoves ==
    ASSUME TypeOK, LockInv, FlowInv, CollectReturn
    PROVE  /\ sent' = sent
           /\ \A i \in Info :
                /\ (Held(i)' <=> Held(i)) /\ (Waiting(i)' <=> Waiting(i)) /\ ~Taken(i)'
                /\ Shown(i)' <=> Taken(i)
                /\ Past(i)' <=> Past(i) \/ Shown(i)
  <1>1. /\ \A s \in Shards : cpc[s] = "done" /\ cpc'[s] = "idle"
        /\ snap'.children = UNION {parts[s].children : s \in Shards}
        /\ reported' = reported \cup snap.children
        /\ UNCHANGED <<active, infos, upc, ucur, got, sent>>
    BY DEF CollectReturn, CombineParts, uvars
  <1>2. \A v \in Updaters : ShardOf(v)' = ShardOf(v)
    BY DEF ShardOf
  <1>3. \A s \in Shards, b \in Buffers : Lives(s, b)' <=> Lives(s, b)
    BY <1>1, <1>2 DEF Lives, Inside
  <1>4. ASSUME NEW i \in Info
        PROVE  /\ (Held(i)' <=> Held(i)) /\ (Waiting(i)' <=> Waiting(i)) /\ ~Taken(i)'
               /\ Shown(i)' <=> Taken(i)
               /\ Past(i)' <=> Past(i) \/ Shown(i)
    <2>1. ShardOf(i[1]) \in Shards /\ ShardOf(i[1])' = ShardOf(i[1])
      BY InfoFields DEF ShardOf
    <2>2. Waiting(i)' <=> Waiting(i)
      BY <1>1, <1>3, <2>1 DEF Waiting
    <2>3. ~Taken(i)'
      BY <1>1, <2>1 DEF Taken
    <2>4. Taken(i) <=> i \in parts[ShardOf(i[1])].children
      BY <1>1, <2>1 DEF Taken
    <2>5. Shown(i)' <=> \E s \in Shards : i \in parts[s].children
      BY <1>1 DEF Shown
    <2>6. \A s \in Shards : i \in parts[s].children => ShardOf(i[1]) = s
      BY DEF FlowInv, ShardInv
    <2>7. Shown(i)' <=> Taken(i)
      BY <2>1, <2>4, <2>5, <2>6
    <2> QED
      BY <1>1, <2>2, <2>3, <2>7 DEF Held, Past, Shown
  <1> QED
    BY <1>1, <1>4
-----------------------------------------------------------------------------
\* Steps that move no info keep the places and the batches.
LEMMA UnmovedKeeps ==
    ASSUME TypeOK, PlaceInv, BatchInv, sent' = sent, \A i \in Info : Unmoved(i)
    PROVE  PlaceInv' /\ BatchInv'
  <1>1. sent \subseteq Info
    BY DEF TypeOK
  <1>2. PlaceInv'
    BY <1>1 DEF PlaceInv, Unmoved
  <1>3. BatchInv'
    BY <1>1 DEF BatchInv, Unmoved
  <1> QED
    BY <1>2, <1>3

\* A new bundle is with its updater, and the last one of it.
LEMMA StartKeeps ==
    ASSUME TypeOK, LockInv, FlowInv, NEW u \in Updaters, NEW flows \in SUBSET Flows,
           UpdateStart(u, flows), TypeOK'
    PROVE  PlaceInv' /\ BatchInv'
  <1>0. sent \subseteq Info /\ sent' \subseteq Info /\ gen \in [Updaters -> Nat]
    BY DEF TypeOK
  <1>1. /\ \A i \in sent' \ sent :
             /\ i[1] = u /\ i[2] = gen[u] + 1
             /\ Held(i)' /\ ~Waiting(i)' /\ ~Taken(i)' /\ ~Shown(i)' /\ ~Past(i)'
        /\ \A i \in Info : i \notin sent' \ sent => Unmoved(i)
        /\ sent \subseteq sent'
    BY StartMoves
  <1>2. \A i \in sent : i[2] \in Nat /\ (i[1] = u => i[2] <= gen[u])
    BY <1>0, InfoFields DEF FlowInv, BundleInv
  <1>3. PlaceInv'
    BY <1>0, <1>1 DEF FlowInv, PlaceInv, Unmoved
  <1>4. ASSUME NEW i \in sent', NEW j \in sent', i[1] = j[1]
        PROVE  /\ i[2] = j[2] =>
                    /\ Taken(i)' => Taken(j)'
                    /\ Shown(i)' => Shown(j)'
                    /\ Past(i)' => Past(j)'
               /\ j[2] < i[2] =>
                    /\ Shown(i)' \/ Past(i)' => Shown(j)' \/ Past(j)'
                    /\ Taken(i)' => Taken(j)' \/ Shown(j)' \/ Past(j)'
    <2>1. CASE i \in sent' \ sent
      BY <1>1, <2>1
    <2>2. CASE i \in sent /\ j \in sent' \ sent
      <3>1. i[2] <= gen[u] /\ j[2] = gen[u] + 1 /\ i[2] \in Nat /\ gen[u] \in Nat
        BY <1>0, <1>1, <1>2, <1>4, <2>2
      <3>2. i[2] # j[2] /\ ~(j[2] < i[2])
        BY <3>1
      <3> QED
        BY <3>2
    <2>3. CASE i \in sent /\ j \in sent
      <3>1. Unmoved(i) /\ Unmoved(j)
        BY <1>0, <1>1, <2>3
      <3> QED
        BY <1>4, <2>3, <3>1 DEF FlowInv, BatchInv, Unmoved
    <2> QED
      BY <2>1, <2>2, <2>3
  <1>5. BatchInv'
    BY <1>4 DEF BatchInv
  <1> QED
    BY <1>3, <1>5

\* A pushed info waits.
LEMMA PushKeeps ==
    ASSUME TypeOK, LockInv, FlowInv, NEW u \in Updaters, UpdatePushInfo(u)
    PROVE  PlaceInv' /\ BatchInv'
  <1>0. sent \subseteq Info /\ sent' = sent
    BY PushMoves DEF TypeOK
  <1>1. PICK i \in sent :
          /\ Held(i) /\ ~Held(i)' /\ Waiting(i)'
          /\ (Taken(i)' <=> Taken(i)) /\ (Shown(i)' <=> Shown(i)) /\ (Past(i)' <=> Past(i))
          /\ \A j \in Info \ {i} : Unmoved(j)
    BY PushMoves
  <1>2. ~Taken(i) /\ ~Shown(i) /\ ~Past(i)
    BY <1>0, <1>1 DEF FlowInv, PlaceInv
  <1>3. \A j \in Info : (Taken(j)' <=> Taken(j)) /\ (Shown(j)' <=> Shown(j)) /\ (Past(j)' <=> Past(j))
    BY <1>1 DEF Unmoved
  <1>4. PlaceInv'
    BY <1>0, <1>1, <1>2 DEF FlowInv, PlaceInv, Unmoved
  <1>5. BatchInv'
    BY <1>0, <1>3 DEF FlowInv, BatchInv
  <1> QED
    BY <1>4, <1>5

\* What the exchange takes are whole bundles, and all the earlier ones: nobody
\* is inside the shard.
LEMMA CASKeeps ==
    ASSUME TypeOK, LockInv, FlowInv, NEW s \in Shards, CollectCAS(s), active[s] = ccur[s]
    PROVE  PlaceInv' /\ BatchInv'
  <1>0. sent \subseteq Info /\ \A i \in Info : i[1] \in Updaters /\ i[2] \in Nat
    BY InfoFields DEF TypeOK
  <1>1. /\ sent' = sent
        /\ \A u \in Updaters : ShardOf(u) = s => ~Inside(u)
        /\ \A i \in Info : ShardOf(i[1]) # s => Unmoved(i)
        /\ \A i \in Info : ShardOf(i[1]) = s =>
             /\ ~Taken(i) /\ ~Waiting(i)' /\ (Taken(i)' <=> Waiting(i))
             /\ (Held(i)' <=> Held(i)) /\ (Shown(i)' <=> Shown(i)) /\ (Past(i)' <=> Past(i))
    BY CASMoves
  <1>2. ASSUME NEW i \in sent
        PROVE  Held(i)' \/ Waiting(i)' \/ Taken(i)' \/ Shown(i)' \/ Past(i)'
    BY <1>0, <1>1 DEF FlowInv, PlaceInv, Unmoved
  <1>3. ASSUME NEW i \in Info
        PROVE  /\ Waiting(i)' \/ Taken(i)' \/ Shown(i)' \/ Past(i)' => i \in sent' /\ ~Held(i)'
               /\ Taken(i)' \/ Shown(i)' \/ Past(i)' => ~Waiting(i)'
               /\ Shown(i)' \/ Past(i)' => ~Taken(i)'
               /\ Past(i)' => ~Shown(i)'
    BY <1>1 DEF FlowInv, PlaceInv, Unmoved
  <1>4. PlaceInv'
    BY <1>1, <1>2, <1>3 DEF PlaceInv
  <1>5. ASSUME NEW i \in sent, Waiting(i), ShardOf(i[1]) = s,
               NEW j \in sent, i[1] = j[1], j[2] <= i[2]
        PROVE  ~Held(j)
    <2>1. SUFFICES ASSUME Held(j) PROVE FALSE
      OBVIOUS
    <2>2. i[1] \in Updaters /\ i[2] \in Nat /\ j[2] \in Nat /\ gen[i[1]] \in Nat
      BY <1>0 DEF TypeOK
    <2>3. j[2] = gen[i[1]] /\ i[2] <= gen[i[1]] /\ upc[i[1]] \notin {"idle", "store"}
      BY <1>5, <2>1, <2>2 DEF FlowInv, BundleInv, Held
    <2>4. i[2] = gen[i[1]]
      BY <1>5, <2>2, <2>3, SMTT(30)
    <2>5. upc[i[1]] \in {"load", "cas"}
      BY <1>1, <1>5, <2>2, <2>3 DEF TypeOK, Inside
    <2>6. Held(i)
      BY <2>4, <2>5 DEF FlowInv, BundleInv
    <2> QED
      BY <1>0, <1>5, <2>6 DEF FlowInv, PlaceInv
  <1>6. ASSUME NEW i \in sent, NEW j \in sent, i[1] = j[1]
        PROVE  /\ i[2] = j[2] =>
                    /\ Taken(i)' => Taken(j)'
                    /\ Shown(i)' => Shown(j)'
                    /\ Past(i)' => Past(j)'
               /\ j[2] < i[2] =>
                    /\ Shown(i)' \/ Past(i)' => Shown(j)' \/ Past(j)'
                    /\ Taken(i)' => Taken(j)' \/ Shown(j)' \/ Past(j)'
    <2>0. i \in Info /\ j \in Info /\ ShardOf(j[1]) = ShardOf(i[1])
      BY <1>0, <1>6
    <2>1. CASE ShardOf(i[1]) # s
      <3>1. Unmoved(i) /\ Unmoved(j)
        BY <1>1, <2>0, <2>1
      <3> QED
        BY <1>6, <3>1 DEF FlowInv, BatchInv, Unmoved
    <2>2. CASE ShardOf(i[1]) = s
      <3>1. /\ (Shown(i)' <=> Shown(i)) /\ (Past(i)' <=> Past(i)) /\ (Taken(i)' <=> Waiting(i))
            /\ (Shown(j)' <=> Shown(j)) /\ (Past(j)' <=> Past(j)) /\ (Taken(j)' <=> Waiting(j))
            /\ ~Taken(j)
        BY <1>1, <2>0, <2>2
      <3>2. Held(j) \/ Waiting(j) \/ Shown(j) \/ Past(j)
        BY <3>1 DEF FlowInv, PlaceInv
      <3>3. Waiting(i) /\ i[2] = j[2] => Waiting(j)
        <4>1. i[2] = j[2] => (Shown(j) => Shown(i)) /\ (Past(j) => Past(i))
          BY <1>6 DEF FlowInv, BatchInv
        <4>2. Waiting(i) => ~Shown(i) /\ ~Past(i)
          BY <2>0 DEF FlowInv, PlaceInv
        <4>3. i[2] = j[2] => j[2] <= i[2]
          BY <1>0, <2>0
        <4> QED
          BY <1>5, <1>6, <2>2, <3>2, <4>1, <4>2, <4>3
      <3>4. Waiting(i) /\ j[2] < i[2] => Waiting(j) \/ Shown(j) \/ Past(j)
        <4>1. j[2] < i[2] => j[2] <= i[2]
          BY <1>0, <2>0
        <4> QED
          BY <1>5, <1>6, <2>2, <3>2, <4>1
      <3>5. /\ i[2] = j[2] => (Shown(i) => Shown(j)) /\ (Past(i) => Past(j))
            /\ j[2] < i[2] => (Shown(i) \/ Past(i) => Shown(j) \/ Past(j))
        BY <1>6 DEF FlowInv, BatchInv
      <3> QED
        BY <3>1, <3>3, <3>4, <3>5
    <2> QED
      BY <2>1, <2>2
  <1>7. BatchInv'
    BY <1>1, <1>6 DEF BatchInv
  <1> QED
    BY <1>4, <1>7

\* What was taken is shown, what was shown is past.
LEMMA ReturnKeeps ==
    ASSUME TypeOK, LockInv, FlowInv, CollectReturn
    PROVE  PlaceInv' /\ BatchInv'
  <1>0. sent \subseteq Info
    BY DEF TypeOK
  <1>1. /\ sent' = sent
        /\ \A i \in Info :
             /\ (Held(i)' <=> Held(i)) /\ (Waiting(i)' <=> Waiting(i)) /\ ~Taken(i)'
             /\ Shown(i)' <=> Taken(i)
             /\ Past(i)' <=> Past(i) \/ Shown(i)
    BY ReturnMoves
  <1>2. PlaceInv'
    BY <1>0, <1>1 DEF FlowInv, PlaceInv
  <1>3. BatchInv'
    BY <1>0, <1>1 DEF FlowInv, BatchInv
  <1> QED
    BY <1>2, <1>3

\* Every step keeps every info at one place and every bundle together.
LEMMA FlowStep ==
    ASSUME TypeOK, LockInv, FlowInv, [Next]_vars
    PROVE  FlowInv'
  <1>1. ShardInv' /\ BundleInv'
    BY ShardStep, BundleStep DEF FlowInv
  <1>2. CASE QuietStep
    <2>1. \A i \in Info : Unmoved(i)
      BY <1>2, QuietSteps
    <2>2. sent' = sent
      BY <1>2 DEF QuietStep, UpdateLoad, UpdateCAS, UpdatePushGen, UpdateStore, CollectLoad,
                  CollectClearGens, CollectClearInfos, CollectCAS, CollectAggregate,
                  CollectStart, uvars, vars
    <2> QED
      BY <1>1, <2>1, <2>2, UnmovedKeeps DEF FlowInv
  <1>3. ASSUME NEW u \in Updaters, NEW flows \in SUBSET Flows, UpdateStart(u, flows)
        PROVE  FlowInv'
    BY <1>1, <1>3, StartKeeps, TypeStep DEF FlowInv
  <1>4. ASSUME NEW u \in Updaters, UpdatePushInfo(u) PROVE FlowInv'
    BY <1>1, <1>4, PushKeeps DEF FlowInv
  <1>5. ASSUME NEW s \in Shards, CollectCAS(s), active[s] = ccur[s] PROVE FlowInv'
    BY <1>1, <1>5, CASKeeps DEF FlowInv
  <1>6. CASE CollectReturn
    BY <1>1, <1>6, ReturnKeeps DEF FlowInv
  <1> QED
    BY <1>2, <1>3, <1>4, <1>5, <1>6 DEF Next, UpdateStep, CollectStep, QuietStep

\* At the start there is no info anywhere.
LEMMA FlowInit == Init => FlowInv
  <1> SUFFICES ASSUME Init PROVE FlowInv
    OBVIOUS
  <1>1. sent = {} /\ reported = {} /\ snap.children = {}
    BY DEF Init, EmptyAggregate
  <1>2. /\ \A s \in Shards : /\ cpc[s] = "idle" /\ parts[s].children = {}
                             /\ \A b \in Buffers : infos[s][b] = {}
        /\ \A u \in Updaters : got[u] = {}
    BY DEF Init, EmptyAggregate
  <1>3. ShardInv
    BY <1>2 DEF ShardInv
  <1>4. BundleInv /\ BatchInv
    BY <1>1, <1>2 DEF BundleInv, BatchInv
  <1>5. \A i \in Info : ~Waiting(i) /\ ~Taken(i) /\ ~Shown(i) /\ ~Past(i)
    BY <1>1, <1>2, InfoFields DEF Waiting, Taken, Shown, Past
  <1>6. PlaceInv
    BY <1>1, <1>5 DEF PlaceInv
  <1> QED
    BY <1>3, <1>4, <1>6 DEF FlowInv

\* The places are those of NoLoss, and the batches those of WholeBundle and
\* InOrder.
LEMMA FlowImpliesOnce == TypeOK /\ FlowInv => ExactlyOnce
  <1> SUFFICES ASSUME TypeOK, FlowInv PROVE ExactlyOnce
    OBVIOUS
  <1>0. sent \subseteq Info /\ snap.children \subseteq Info /\ reported \subseteq Info
    BY DEF TypeOK, Aggregate
  <1>1. NoLoss
    BY DEF FlowInv, PlaceInv, NoLoss, Held, Waiting, Taken, Shown, Past, Lives
  <1>2. \A i \in snap.children : i \in sent /\ i \notin reported
    BY <1>0 DEF FlowInv, PlaceInv, Shown, Past
  <1>3. AtMostOnce
    BY <1>2 DEF AtMostOnce
  <1>4. WholeBundle /\ InOrder
    BY <1>2 DEF FlowInv, BatchInv, WholeBundle, InOrder, Shown, Past
  <1> QED
    BY <1>1, <1>3, <1>4 DEF ExactlyOnce

\* Every info given to UpdateInfo reaches the control thread once, in whole
\* bundles and in order (ExactlyOnce), for any number of updaters and shards.
THEOREM DeliveredExactlyOnce == Spec => []ExactlyOnce
  <1>1. Init => TypeOK /\ LockInv /\ FlowInv
    BY TypeInit, FlowInit DEF Init, LockInv, Inside
  <1>2. TypeOK /\ LockInv /\ FlowInv /\ [Next]_vars => (TypeOK /\ LockInv /\ FlowInv)'
    BY TypeStep, LockStep, FlowStep
  <1> QED
    BY <1>1, <1>2, FlowImpliesOnce, PTL DEF Spec
=============================================================================
