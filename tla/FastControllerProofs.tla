------------------------ MODULE FastControllerProofs ------------------------
(***************************************************************************)
(* Proofs about FastController, for any number of aggregates, workers,     *)
(* listeners and rounds and a ring of any size.  That the children follow  *)
(* the rings is proved for fractions that are whole chunks                 *)
(* (kFracsPerChunk = 1), the rest for any fractions.                       *)
(***************************************************************************)
EXTENDS FastController, HashRingProofs

\* Registration: a host is queued for the control thread by the one listener
\* that created its entry, and before the control thread knows it; a child's
\* listeners are those that are registered and not gone, and only such a
\* listener was ever called.
TableInv ==
    /\ HostsHandedOver
    /\ new_host_id_pairs \cap host2par = {}
    /\ \A l \in Listeners : reg[l] = "pair" =>
         /\ HostOf[l] \notin host2par \cup new_host_id_pairs
         /\ \A k \in Listeners : reg[k] = "pair" /\ HostOf[k] = HostOf[l] => k = l
    /\ \A h \in Hosts :
         child[h].listeners = {l \in Listeners : HostOf[l] = h /\ reg[l] = "on"}
    /\ \A l \in Listeners : reg[l] \notin {"on", "gone"} => got[l] = NoBundle

\* The tasks of an aggregate: what they have left to do names hosts that the
\* control thread knows.
TaskInv ==
    /\ par_ids_to_bcast \in [Aggs -> Seq(Hosts)]
    /\ \A h \in Hosts : child[h].agg_is_lopri # {} => h \in host2par
    /\ \A a \in Aggs :
         /\ synced[a] \cup task[a].ids \subseteq host2par
         /\ task[a].ids # {} => step = "tasks" /\ task[a].pc = "update"
         /\ \A i \in 1 .. Len(par_ids_to_bcast[a]) : par_ids_to_bcast[a][i] \in host2par

\* The slots a worker has left are places of the vectors, which stay as they
\* are while there are any.
SlotInv ==
    \A w \in Workers :
        /\ step # "bcast" => work[w] = {}
        /\ \A slot \in work[w] :
             w + slot[2] * NumWorkers < Len(par_ids_to_bcast[slot[1]])

\* A listener that was not told the latest is one of a host whose flag is down
\* and that is in a vector, and once the workers run in a slot that is left.
ToBeTold(h) ==
    \/ /\ step = "tasks"
       /\ \E a \in Aggs : \E i \in 1 .. Len(par_ids_to_bcast[a]) :
             par_ids_to_bcast[a][i] = h
    \/ /\ step = "bcast"
       /\ \E w \in Workers : \E slot \in work[w] : ParIdAt(w, slot) = h

Outdated(l) ==
    /\ reg[l] = "on" /\ got[l] # NoBundle
    /\ got[l].lopri # child[HostOf[l]].agg_is_lopri

CallInv ==
    \A l \in Listeners :
        /\ Outdated(l) => /\ ~child[HostOf[l]].broadcasted_latest_state
                          /\ ToBeTold(HostOf[l])
        /\ count[l] # 0 => /\ count[l] = 1
                           /\ step \in {"bcast", "reset"}
                           /\ child[HostOf[l]].broadcasted_latest_state

\* Generations: saw_data_this_run is set for hosts of this snapshot only, for
\* all of them once the tasks are done with Step 2.3, and down after the reset.
Seen(h) == child[h].saw_data_this_run /\ child[h].gen_seen >= heard[h]

GenInv ==
    /\ \A a \in Aggs :
         /\ task[a].gens \subseteq DOMAIN heard \cap host2par
         /\ task[a].gens # {} =>
              step = "reset" \/ (step = "tasks" /\ task[a].pc = "update")
    /\ \A h \in Hosts :
         /\ child[h].saw_data_this_run =>
              /\ h \in DOMAIN heard \cap host2par
              /\ step \in {"tasks", "bcast", "reset"}
              /\ Aggs # {}
         /\ step = "reset" /\ child[h].saw_data_this_run =>
              \A a \in Aggs : h \in task[a].gens
    /\ \A h \in DOMAIN heard \cap host2par :
         /\ \A a \in Aggs : step = "tasks" /\ task[a].pc = "update" /\ h \notin task[a].gens
                              => Seen(h)
         /\ step = "bcast" /\ Aggs # {} => Seen(h)

\* With whole-chunk fractions a pending mark is the one the ring gives.
TrackInv ==
    kFracsPerChunk = 1 =>
        /\ ChildrenTrackRings
        /\ \A a \in Aggs : \A h \in task[a].ids : IsLOPRI(rings[a], h) <=> task[a].mark

IInv == TypeOK /\ TableInv /\ TaskInv /\ SlotInv /\ CallInv /\ GenInv /\ TrackInv
-----------------------------------------------------------------------------
\* What the constants are.
LEMMA Constants ==
    /\ NumWorkers \in Nat \ {0} /\ Workers \subseteq Nat
    /\ 0 \in Ids /\ 0 \in Fracs /\ Hosts \subseteq Ids
    /\ \A l \in Listeners : HostOf[l] \in Hosts
  <1>1. \A l \in Listeners : HostOf[l] \in Ids
    BY ControllerAssumption
  <1>2. 0 \in Ids /\ 0 \in Fracs
    BY IdSpaceType, RingAssumption DEF Ids, MaxId, Fracs, One
  <1> QED
    BY <1>1, <1>2, ControllerAssumption DEF Workers, Hosts

\* Nothing is marked and nobody has registered.
LEMMA InitInv == Init => IInv
  <1> SUFFICES ASSUME Init PROVE IInv
    OBVIOUS
  <1>1. HashRing0 \in [start: Ids, frac: Fracs]
    BY Constants DEF HashRing0
  <1>2. MaxRounds \in Nat /\ <<>> \in Seq(Hosts)
    BY ControllerAssumption
  <1>3. TypeOK
    BY <1>1, <1>2, ControllerAssumption DEF Init, TypeOK, ChildState, NoTask, NoBundle
  <1>4. TableInv
    BY DEF Init, TableInv, HostsHandedOver
  <1>5. TaskInv
    BY <1>2 DEF Init, TaskInv, NoTask
  <1>6. SlotInv
    BY DEF Init, SlotInv
  <1>7. CallInv
    BY DEF Init, CallInv, Outdated
  <1>8. GenInv
    BY Constants DEF Init, GenInv, NoTask
  <1>9. TrackInv
    BY DEF Init, TrackInv, ChildrenTrackRings, NoTask
  <1> QED
    BY <1>3, <1>4, <1>5, <1>6, <1>7, <1>8, <1>9 DEF IInv

\* Writing one field of a child leaves the others.
LEMMA SetListeners ==
    ASSUME NEW c \in ChildState, NEW v \in SUBSET Listeners
    PROVE  LET d == [c EXCEPT !.listeners = v]
           IN  /\ d \in ChildState /\ d.listeners = v
               /\ d.agg_is_lopri = c.agg_is_lopri /\ d.gen_seen = c.gen_seen
               /\ d.broadcasted_latest_state = c.broadcasted_latest_state
               /\ d.saw_data_this_run = c.saw_data_this_run
  BY Zenon DEF ChildState

LEMMA SetSent ==
    ASSUME NEW c \in ChildState
    PROVE  LET d == [c EXCEPT !.broadcasted_latest_state = TRUE]
           IN  /\ d \in ChildState /\ d.listeners = c.listeners
               /\ d.agg_is_lopri = c.agg_is_lopri /\ d.gen_seen = c.gen_seen
               /\ d.broadcasted_latest_state
               /\ d.saw_data_this_run = c.saw_data_this_run
  BY Zenon DEF ChildState

LEMMA SetMarked ==
    ASSUME NEW c \in ChildState, NEW v \in SUBSET Aggs
    PROVE  LET d == [c EXCEPT !.agg_is_lopri = v, !.broadcasted_latest_state = FALSE]
           IN  /\ d \in ChildState /\ d.listeners = c.listeners
               /\ d.agg_is_lopri = v /\ d.gen_seen = c.gen_seen
               /\ ~d.broadcasted_latest_state
               /\ d.saw_data_this_run = c.saw_data_this_run
  BY Zenon DEF ChildState

LEMMA SetSeen ==
    ASSUME NEW c \in ChildState, NEW v \in {0} \cup Gens
    PROVE  LET d == [c EXCEPT !.gen_seen = v, !.saw_data_this_run = TRUE]
           IN  /\ d \in ChildState /\ d.listeners = c.listeners
               /\ d.agg_is_lopri = c.agg_is_lopri /\ d.gen_seen = v
               /\ d.broadcasted_latest_state = c.broadcasted_latest_state
               /\ d.saw_data_this_run
  BY Zenon DEF ChildState

LEMMA SetUnseen ==
    ASSUME NEW c \in ChildState
    PROVE  LET d == [c EXCEPT !.saw_data_this_run = FALSE]
           IN  /\ d \in ChildState /\ d.listeners = c.listeners
               /\ d.agg_is_lopri = c.agg_is_lopri /\ d.gen_seen = c.gen_seen
               /\ d.broadcasted_latest_state = c.broadcasted_latest_state
               /\ ~d.saw_data_this_run
  BY Zenon DEF ChildState

\* So for the task of an aggregate.
Task == [pc: {"none", "pick", "update"}, gens: SUBSET Hosts, ids: SUBSET Hosts, mark: BOOLEAN]

LEMMA SetGens ==
    ASSUME NEW t \in Task, NEW v \in SUBSET Hosts
    PROVE  LET d == [t EXCEPT !.gens = v]
           IN  /\ d \in Task /\ d.pc = t.pc /\ d.gens = v /\ d.ids = t.ids
               /\ d.mark = t.mark
  BY Zenon DEF Task

LEMMA SetIds ==
    ASSUME NEW t \in Task, NEW v \in SUBSET Hosts
    PROVE  LET d == [t EXCEPT !.ids = v]
           IN  /\ d \in Task /\ d.pc = t.pc /\ d.gens = t.gens /\ d.ids = v
               /\ d.mark = t.mark
  BY Zenon DEF Task
-----------------------------------------------------------------------------
\* RegisterListener, up to its OnID.
LEMMA RegisterStep ==
    ASSUME IInv, NEW l \in Listeners, RegisterGetID(l) \/ RegisterPushPair(l)
    PROVE  IInv'
  <1> USE DEF ctl_vars, bundle_vars
  <1>1. /\ UNCHANGED <<child, ctl_vars, bundle_vars, round>>
        /\ reg[l] \in {"none", "pair"} /\ reg'[l] \in {"pair", "add"}
        /\ reg' \in [Listeners -> {"none", "pair", "add", "on", "gone"}]
        /\ \A k \in Listeners \ {l} : reg'[k] = reg[k]
    BY DEF RegisterGetID, RegisterPushPair, IInv, TypeOK
  <1>2. HostOf[l] \in Hosts
    BY Constants
  <1>3. TypeOK'
    <2>1. created' \subseteq Hosts /\ new_host_id_pairs' \subseteq Hosts
      BY <1>2 DEF RegisterGetID, RegisterPushPair, IInv, TypeOK
    <2> QED
      BY <1>1, <2>1 DEF IInv, TypeOK
  <1>4. TableInv'
    <2>1. CASE RegisterGetID(l)
      BY <1>1, <1>2, <2>1 DEF RegisterGetID, IInv, TableInv, HostsHandedOver, TypeOK
    <2>2. CASE RegisterPushPair(l)
      BY <1>1, <1>2, <2>2 DEF RegisterPushPair, IInv, TableInv, HostsHandedOver, TypeOK
    <2> QED
      BY <2>1, <2>2
  <1>5. TaskInv'
    BY <1>1 DEF IInv, TaskInv
  <1>6. SlotInv'
    BY <1>1 DEF IInv, SlotInv
  <1>7. CallInv'
    BY <1>1 DEF IInv, CallInv, Outdated, ToBeTold, ParIdAt
  <1>8. GenInv'
    BY <1>1 DEF IInv, GenInv, Seen
  <1>9. TrackInv'
    BY <1>1 DEF IInv, TrackInv, ChildrenTrackRings
  <1> QED
    BY <1>3, <1>4, <1>5, <1>6, <1>7, <1>8, <1>9 DEF IInv

\* RegisterListener's OnID, and ~Listener's: the listeners of the child change
\* as the registration does.
LEMMA ListenStep ==
    ASSUME IInv, NEW l \in Listeners, RegisterAdd(l) \/ Unregister(l)
    PROVE  IInv'
  <1> USE DEF ctl_vars, bundle_vars
  <1>1. /\ UNCHANGED <<created, new_host_id_pairs, ctl_vars, bundle_vars, round>>
        /\ reg[l] \in {"add", "on"} /\ reg'[l] \in {"on", "gone"}
        /\ reg' \in [Listeners -> {"none", "pair", "add", "on", "gone"}]
        /\ \A k \in Listeners \ {l} : reg'[k] = reg[k]
    BY DEF RegisterAdd, Unregister, IInv, TypeOK
  <1>2. HostOf[l] \in Hosts
    BY Constants
  <1>3. /\ child' \in [Hosts -> ChildState]
        /\ \A h \in Hosts :
             /\ child'[h].agg_is_lopri = child[h].agg_is_lopri
             /\ child'[h].gen_seen = child[h].gen_seen
             /\ child'[h].broadcasted_latest_state = child[h].broadcasted_latest_state
             /\ child'[h].saw_data_this_run = child[h].saw_data_this_run
             /\ h # HostOf[l] => child'[h].listeners = child[h].listeners
    <2>1. PICK v \in SUBSET Listeners :
            child' = [child EXCEPT ![HostOf[l]] = [child[HostOf[l]] EXCEPT !.listeners = v]]
      <3>1. child[HostOf[l]].listeners \subseteq Listeners
        BY <1>2 DEF IInv, TypeOK, ChildState
      <3>2. CASE RegisterAdd(l)
        <4>1. child[HostOf[l]].listeners \cup {l} \in SUBSET Listeners
          BY <3>1
        <4> QED
          BY <3>2, <4>1, Zenon DEF RegisterAdd
      <3>3. CASE Unregister(l)
        <4>1. child[HostOf[l]].listeners \ {l} \in SUBSET Listeners
          BY <3>1
        <4> QED
          BY <3>3, <4>1, Zenon DEF Unregister
      <3> QED
        BY <3>2, <3>3
    <2> DEFINE d == [child[HostOf[l]] EXCEPT !.listeners = v]
    <2>2. child \in [Hosts -> ChildState] /\ child[HostOf[l]] \in ChildState
      BY <1>2 DEF IInv, TypeOK
    <2>3. /\ d \in ChildState
          /\ d.agg_is_lopri = child[HostOf[l]].agg_is_lopri
          /\ d.gen_seen = child[HostOf[l]].gen_seen
          /\ d.broadcasted_latest_state = child[HostOf[l]].broadcasted_latest_state
          /\ d.saw_data_this_run = child[HostOf[l]].saw_data_this_run
      BY <2>2, SetListeners
    <2> HIDE DEF d
    <2>4. child' = [child EXCEPT ![HostOf[l]] = d]
      BY <2>1 DEF d
    <2> QED
      BY <1>2, <2>2, <2>3, <2>4
  <1>4. TypeOK'
    BY <1>1, <1>3 DEF IInv, TypeOK
  <1>5. TableInv'
    <2>1. \A h \in Hosts :
             child'[h].listeners = {k \in Listeners : HostOf[k] = h /\ reg'[k] = "on"}
      <3>1. CASE RegisterAdd(l)
        BY <1>1, <1>2, <1>3, <3>1 DEF RegisterAdd, IInv, TableInv, TypeOK, ChildState
      <3>2. CASE Unregister(l)
        BY <1>1, <1>2, <1>3, <3>2 DEF Unregister, IInv, TableInv, TypeOK, ChildState
      <3> QED
        BY <3>1, <3>2
    <2> QED
      BY <1>1, <2>1 DEF IInv, TableInv, HostsHandedOver
  <1>6. TaskInv'
    BY <1>1, <1>3 DEF IInv, TaskInv
  <1>7. SlotInv'
    BY <1>1 DEF IInv, SlotInv
  <1>8. CallInv'
    <2>1. \A k \in Listeners : Outdated(k)' => Outdated(k)
      BY <1>1, <1>3, Constants DEF IInv, TableInv, Outdated, RegisterAdd, Unregister
    <2>2. \A h \in Hosts : ToBeTold(h)' <=> ToBeTold(h)
      BY <1>1 DEF ToBeTold, ParIdAt
    <2> QED
      BY <1>1, <1>3, <2>1, <2>2, Constants DEF IInv, CallInv
  <1>9. GenInv'
    BY <1>1, <1>3 DEF IInv, GenInv, Seen, TypeOK
  <1>10. TrackInv'
    BY <1>1, <1>3 DEF IInv, TrackInv, ChildrenTrackRings, TypeOK
  <1> QED
    BY <1>4, <1>5, <1>6, <1>7, <1>8, <1>9, <1>10 DEF IInv
-----------------------------------------------------------------------------
\* Step 1: the snapshot is taken when nothing of an earlier round is left.
LEMMA SnapshotStep ==
    ASSUME IInv, NEW hs \in SUBSET Hosts, NEW gens \in [hs -> Gens], CollectSnapshot(gens)
    PROVE  IInv'
  <1> USE DEF reg_vars, bundle_vars, CollectSnapshot
  <1>1. TypeOK'
    BY ControllerAssumption DEF IInv, TypeOK
  <1>2. TableInv'
    BY DEF IInv, TableInv, HostsHandedOver
  <1>3. \A a \in Aggs : task[a].ids = {} /\ task[a].gens = {}
    BY DEF IInv, TaskInv, GenInv
  <1>4. TaskInv'
    BY <1>3 DEF IInv, TaskInv
  <1>5. SlotInv'
    BY DEF IInv, SlotInv
  <1>6. CallInv'
    <2>1. \A l \in Listeners : Outdated(l)' <=> Outdated(l)
      BY DEF Outdated
    <2>2. \A l \in Listeners : ~Outdated(l) /\ count[l] = 0
      BY DEF IInv, CallInv, ToBeTold
    <2> QED
      BY <2>1, <2>2 DEF CallInv
  <1>7. GenInv'
    BY <1>3 DEF IInv, GenInv
  <1>8. TrackInv'
    BY DEF IInv, TrackInv, ChildrenTrackRings
  <1> QED
    BY <1>1, <1>2, <1>4, <1>5, <1>6, <1>7, <1>8 DEF IInv

\* Step 1, under mu_: a new host was never marked, so it agrees with every ring
\* that does not mark its id.
LEMMA DrainStep == ASSUME IInv, DrainNewHosts PROVE IInv'
  <1> USE DEF DrainNewHosts, bundle_vars
  <1>1. \A a \in Aggs : task'[a] = [pc |-> "pick", gens |-> {}, ids |-> {}, mark |-> FALSE]
    BY DEF NoTask
  <1>2. TypeOK'
    <2>1. synced' \in [Aggs -> SUBSET Hosts]
      BY DEF IInv, TypeOK
    <2>2. task' \in [Aggs -> [pc: {"none", "pick", "update"}, gens: SUBSET Hosts,
                              ids: SUBSET Hosts, mark: BOOLEAN]]
      BY DEF NoTask
    <2> QED
      BY <2>1, <2>2 DEF IInv, TypeOK
  <1>3. TableInv'
    BY DEF IInv, TableInv, HostsHandedOver
  <1>4. TaskInv'
    BY <1>1 DEF IInv, TaskInv
  <1>5. SlotInv'
    BY DEF IInv, SlotInv
  <1>6. CallInv'
    <2>1. \A l \in Listeners : Outdated(l)' <=> Outdated(l)
      BY DEF Outdated
    <2>2. \A l \in Listeners : ~Outdated(l) /\ count[l] = 0
      BY DEF IInv, CallInv, ToBeTold
    <2> QED
      BY <2>1, <2>2 DEF CallInv
  <1>7. GenInv'
    BY <1>1 DEF IInv, GenInv, TypeOK
  <1>8. TrackInv'
    <2> SUFFICES ASSUME kFracsPerChunk = 1, NEW a \in Aggs, NEW h \in synced'[a]
                 PROVE  a \in child[h].agg_is_lopri <=> IsLOPRI(rings[a], h)
      BY <1>1 DEF TrackInv, ChildrenTrackRings
    <2>1. CASE h \in synced[a]
      <3>1. task[a].ids = {}
        BY DEF IInv, TaskInv
      <3> QED
        BY <2>1, <3>1 DEF IInv, TrackInv, ChildrenTrackRings
    <2>2. CASE h \in new_host_id_pairs /\ ~IsLOPRI(rings[a], h)
      <3>1. h \in Hosts /\ h \notin host2par
        BY <2>2 DEF IInv, TypeOK, TableInv
      <3> QED
        BY <2>2, <3>1 DEF IInv, TaskInv
    <2> QED
      BY <2>1, <2>2
  <1> QED
    BY <1>2, <1>3, <1>4, <1>5, <1>6, <1>7, <1>8 DEF IInv
-----------------------------------------------------------------------------
\* Steps 2.1 and 2.2: only the hosts the diff names are out of step with the
\* new ring, and they are those left to mark.
LEMMA PickStep ==
    ASSUME IInv, NEW a \in Aggs, NEW frac \in Fracs, PickChildren(a, frac)
    PROVE  IInv'
  <1> DEFINE u == UpdateFrac(rings[a], frac)
             old == MatchingRanges(rings[a])
             new == MatchingRanges(u.ring)
             ids == host2par \cap u.diff.ids
             t == [pc |-> "update", gens |-> DOMAIN heard \cap host2par, ids |-> ids,
                   mark |-> u.diff.type = "kAdd"]
  <1>1. rings[a] \in Rings /\ frac \in Int /\ host2par \subseteq Hosts
        /\ DOMAIN heard \subseteq Hosts
    BY RingAssumption DEF IInv, TypeOK, Rings, Fracs, One
  <1>2. /\ u.ring \in Rings
        /\ kFracsPerChunk = 1 =>
             \/ u.diff.type = "kAdd" /\ old \subseteq new /\ u.diff.ids = new \ old
             \/ u.diff.type = "kDel" /\ new \subseteq old /\ u.diff.ids = old \ new
    BY <1>1, UpdateFracType, UpdateFracExact
  <1>3. /\ step = "tasks" /\ task[a].pc = "pick"
        /\ rings' = [rings EXCEPT ![a] = u.ring]
        /\ task' = [task EXCEPT ![a] = t]
        /\ synced' = [synced EXCEPT ![a] = @ \cup ids]
        /\ UNCHANGED <<round, host2par, step, heard, par_ids_to_bcast, work,
                       reg_vars, bundle_vars, child>>
    BY DEF PickChildren, ForEachSelected
  <1>4. /\ t.pc = "update" /\ t.gens = DOMAIN heard \cap host2par /\ t.ids = ids
        /\ t \in Task
        /\ kFracsPerChunk = 1 => \A h \in ids : h \in new <=> t.mark
    <2>1. (u.diff.type = "kAdd") \in BOOLEAN
      OBVIOUS
    <2>2. t \in Task
      BY <1>1, <2>1, Zenon DEF Task
    <2> QED
      BY <1>2, <2>2
  <1> HIDE DEF t
  <1>5. \A b \in Aggs \ {a} : /\ rings'[b] = rings[b] /\ task'[b] = task[b]
                              /\ synced'[b] = synced[b]
    BY <1>3 DEF IInv, TypeOK
  <1>6. rings'[a] = u.ring /\ task'[a] = t /\ synced'[a] = synced[a] \cup ids
    BY <1>3 DEF IInv, TypeOK
  <1> HIDE DEF u
  <1> USE DEF reg_vars, bundle_vars
  <1>7. TypeOK'
    <2>1. task' \in [Aggs -> Task]
      BY <1>3, <1>4 DEF IInv, TypeOK, Task
    <2>2. rings' \in [Aggs -> [start: Ids, frac: Fracs]]
      BY <1>2, <1>3 DEF IInv, TypeOK, Rings
    <2>3. synced' \in [Aggs -> SUBSET Hosts]
      BY <1>1, <1>3 DEF IInv, TypeOK
    <2> QED
      BY <1>3, <2>1, <2>2, <2>3 DEF IInv, TypeOK, Task
  <1>8. TableInv'
    BY <1>3 DEF IInv, TableInv, HostsHandedOver
  <1>9. TaskInv'
    <2>1. \A b \in Aggs :
            /\ synced'[b] \cup task'[b].ids \subseteq host2par
            /\ task'[b].ids # {} => step = "tasks" /\ task'[b].pc = "update"
      BY <1>3, <1>4, <1>5, <1>6 DEF IInv, TaskInv
    <2> QED
      BY <1>3, <2>1 DEF IInv, TaskInv
  <1>10. SlotInv'
    BY <1>3 DEF IInv, SlotInv
  <1>11. CallInv'
    BY <1>3 DEF IInv, CallInv, Outdated, ToBeTold, ParIdAt
  <1>12. GenInv'
    <2>1. UNCHANGED <<step, heard, host2par, child>>
      BY <1>3
    <2>2. \A b \in Aggs : \/ task'[b] = task[b]
                          \/ /\ task'[b].pc = "update"
                             /\ task'[b].gens = DOMAIN heard \cap host2par
      BY <1>4, <1>5, <1>6
    <2>3. \A h \in Hosts : Seen(h)' <=> Seen(h)
      BY <2>1 DEF Seen
    <2>4. step = "tasks" /\ DOMAIN heard \subseteq Hosts
      BY <1>1, <1>3
    <2> QED
      BY <2>1, <2>2, <2>3, <2>4 DEF IInv, GenInv
  <1>13. TrackInv'
    <2> SUFFICES ASSUME kFracsPerChunk = 1, NEW b \in Aggs,
                        NEW h \in synced'[b] \ task'[b].ids
                 PROVE  b \in child[h].agg_is_lopri <=> IsLOPRI(rings'[b], h)
      BY <1>3, <1>4, <1>5, <1>6 DEF IInv, TrackInv, ChildrenTrackRings, IsLOPRI
    <2>1. CASE b = a
      <3>1. h \in synced[a] /\ h \in host2par /\ h \notin u.diff.ids
        BY <2>1, <1>4, <1>6 DEF IInv, TaskInv
      <3>2. task[a].ids = {}
        BY <1>3 DEF IInv, TaskInv
      <3>3. h \in new <=> h \in old
        BY <1>2, <3>1
      <3> QED
        BY <2>1, <1>6, <3>1, <3>2, <3>3 DEF IInv, TrackInv, ChildrenTrackRings, IsLOPRI
    <2>2. CASE b # a
      BY <2>2, <1>5 DEF IInv, TrackInv, ChildrenTrackRings
    <2> QED
      BY <2>1, <2>2
  <1> QED
    BY <1>7, <1>8, <1>9, <1>10, <1>11, <1>12, <1>13 DEF IInv
-----------------------------------------------------------------------------
\* Step 2.3: the flag and the generation of one child.
LEMMA RecordGenStep ==
    ASSUME IInv, NEW a \in Aggs, NEW h \in Hosts, RecordGen(a, h)
    PROVE  IInv'
  <1> USE DEF reg_vars, bundle_vars
  <1>1. /\ step = "tasks" /\ h \in task[a].gens /\ h \in DOMAIN heard \cap host2par
        /\ UNCHANGED <<round, rings, host2par, step, heard, par_ids_to_bcast, work, synced,
                       reg_vars, bundle_vars>>
    BY DEF RecordGen, IInv, GenInv
  <1>2. PICK v : v = Max2(heard[h], child[h].gen_seen)
    OBVIOUS
  <1>3. v \in {0} \cup Gens /\ v >= heard[h]
    <2>1. heard[h] \in Gens /\ child[h].gen_seen \in {0} \cup Gens
      BY <1>1 DEF IInv, TypeOK, ChildState
    <2>2. heard[h] \in Int /\ child[h].gen_seen \in Int
      BY <2>1, ControllerAssumption DEF Gens
    <2>3. CASE heard[h] >= child[h].gen_seen
      BY <1>2, <2>1, <2>2, <2>3 DEF Max2
    <2>4. CASE ~(heard[h] >= child[h].gen_seen)
      BY <1>2, <2>1, <2>2, <2>4 DEF Max2
    <2> QED
      BY <2>3, <2>4
  <1> DEFINE d == [child[h] EXCEPT !.gen_seen = v, !.saw_data_this_run = TRUE]
             t == [task[a] EXCEPT !.gens = task[a].gens \ {h}]
  <1>4. /\ child \in [Hosts -> ChildState] /\ child[h] \in ChildState
        /\ task \in [Aggs -> Task] /\ task[a] \in Task
        /\ task[a].gens \ {h} \in SUBSET Hosts
    BY DEF IInv, TypeOK, Task
  <1>5. child' = [child EXCEPT ![h] = d] /\ task' = [task EXCEPT ![a] = t]
    <2>1. child' = [child EXCEPT ![h].gen_seen = v, ![h].saw_data_this_run = TRUE]
      BY <1>2, Zenon DEF RecordGen
    <2>2. child' = [child EXCEPT ![h] = d]
      BY <1>4, <2>1, Zenon
    <2>3. task' = [task EXCEPT ![a] = t]
      BY Zenon DEF RecordGen
    <2> QED
      BY <2>2, <2>3
  <1>6. /\ d \in ChildState /\ d.listeners = child[h].listeners
        /\ d.agg_is_lopri = child[h].agg_is_lopri /\ d.gen_seen = v
        /\ d.broadcasted_latest_state = child[h].broadcasted_latest_state
        /\ d.saw_data_this_run
    BY <1>3, <1>4, SetSeen, Zenon
  <1>7. /\ t \in Task /\ t.pc = task[a].pc /\ t.gens = task[a].gens \ {h}
        /\ t.ids = task[a].ids /\ t.mark = task[a].mark
    BY <1>4, SetGens, Zenon
  <1> HIDE DEF d, t
  <1>8. /\ child'[h] = d /\ \A g \in Hosts \ {h} : child'[g] = child[g]
        /\ task'[a] = t /\ \A b \in Aggs \ {a} : task'[b] = task[b]
    BY <1>4, <1>5
  <1>9. \A g \in Hosts :
             /\ child'[g].agg_is_lopri = child[g].agg_is_lopri
             /\ child'[g].listeners = child[g].listeners
             /\ child'[g].broadcasted_latest_state = child[g].broadcasted_latest_state
    BY <1>6, <1>8
  <1>10. \A b \in Aggs :
             /\ task'[b].pc = task[b].pc /\ task'[b].ids = task[b].ids
             /\ task'[b].mark = task[b].mark
    BY <1>7, <1>8
  <1>11. TypeOK'
    BY <1>1, <1>4, <1>5, <1>6, <1>7 DEF IInv, TypeOK, Task
  <1>12. TableInv'
    BY <1>1, <1>9 DEF IInv, TableInv, HostsHandedOver
  <1>13. TaskInv'
    BY <1>1, <1>9, <1>10 DEF IInv, TaskInv
  <1>14. SlotInv'
    BY <1>1 DEF IInv, SlotInv
  <1>15. CallInv'
    BY <1>1, <1>9, Constants DEF IInv, CallInv, Outdated, ToBeTold, ParIdAt
  <1>16. GenInv'
    <2>1. \A g \in Hosts : Seen(g) => Seen(g)'
      BY <1>1, <1>3, <1>6, <1>8 DEF Seen
    <2>2. Seen(h)'
      BY <1>1, <1>3, <1>6, <1>8 DEF Seen
    <2>3. \A b \in Aggs : task'[b].gens \subseteq task[b].gens
                           /\ task[b].gens \ {h} \subseteq task'[b].gens
      BY <1>7, <1>8
    <2>4. \A g \in Hosts : child'[g].saw_data_this_run => child[g].saw_data_this_run \/ g = h
      BY <1>8
    <2>5. \A g \in DOMAIN heard \cap host2par : \A b \in Aggs :
             task[b].pc = "update" /\ g \notin task'[b].gens => Seen(g)'
      BY <1>1, <2>1, <2>2, <2>3 DEF IInv, GenInv, TypeOK
    <2> QED
      <3>1. UNCHANGED <<step, heard, host2par>> /\ step = "tasks"
        BY <1>1
      <3>2. \A b \in Aggs : task'[b].pc = task[b].pc
        BY <1>10
      <3> QED
        BY <1>1, <2>3, <2>4, <2>5, <3>1, <3>2 DEF IInv, GenInv
  <1>17. TrackInv'
    <2>1. UNCHANGED <<rings, synced>> /\ \A b \in Aggs : synced[b] \subseteq Hosts
      BY <1>1 DEF IInv, TypeOK
    <2> QED
      BY <1>9, <1>10, <2>1 DEF IInv, TrackInv, ChildrenTrackRings
  <1> QED
    BY <1>11, <1>12, <1>13, <1>14, <1>15, <1>16, <1>17 DEF IInv

\* Step 4: the flag of one child goes down; every aggregate's task finds it down.
LEMMA ResetStep ==
    ASSUME IInv, NEW a \in Aggs, NEW h \in Hosts, ResetSawData(a, h)
    PROVE  IInv'
  <1> USE DEF reg_vars, bundle_vars
  <1>1. /\ step = "reset" /\ h \in task[a].gens /\ h \in DOMAIN heard \cap host2par
        /\ UNCHANGED <<round, rings, host2par, step, heard, par_ids_to_bcast, work, synced,
                       reg_vars, bundle_vars>>
    BY DEF ResetSawData, IInv, GenInv
  <1> DEFINE d == [child[h] EXCEPT !.saw_data_this_run = FALSE]
             t == [task[a] EXCEPT !.gens = task[a].gens \ {h}]
  <1>4. /\ child \in [Hosts -> ChildState] /\ child[h] \in ChildState
        /\ task \in [Aggs -> Task] /\ task[a] \in Task
        /\ task[a].gens \ {h} \in SUBSET Hosts
    BY DEF IInv, TypeOK, Task
  <1>5. child' = [child EXCEPT ![h] = d] /\ task' = [task EXCEPT ![a] = t]
    BY Zenon DEF ResetSawData
  <1>6. /\ d \in ChildState /\ d.listeners = child[h].listeners
        /\ d.agg_is_lopri = child[h].agg_is_lopri
        /\ d.broadcasted_latest_state = child[h].broadcasted_latest_state
        /\ ~d.saw_data_this_run
    BY <1>4, SetUnseen, Zenon
  <1>7. /\ t \in Task /\ t.pc = task[a].pc /\ t.gens = task[a].gens \ {h}
        /\ t.ids = task[a].ids /\ t.mark = task[a].mark
    BY <1>4, SetGens, Zenon
  <1> HIDE DEF d, t
  <1>8. /\ child'[h] = d /\ \A g \in Hosts \ {h} : child'[g] = child[g]
        /\ task'[a] = t /\ \A b \in Aggs \ {a} : task'[b] = task[b]
    BY <1>4, <1>5
  <1>9. \A g \in Hosts :
             /\ child'[g].agg_is_lopri = child[g].agg_is_lopri
             /\ child'[g].listeners = child[g].listeners
             /\ child'[g].broadcasted_latest_state = child[g].broadcasted_latest_state
    BY <1>6, <1>8
  <1>10. \A b \in Aggs :
             /\ task'[b].pc = task[b].pc /\ task'[b].ids = task[b].ids
             /\ task'[b].mark = task[b].mark
    BY <1>7, <1>8
  <1>11. TypeOK'
    BY <1>1, <1>4, <1>5, <1>6, <1>7 DEF IInv, TypeOK, Task
  <1>12. TableInv'
    BY <1>1, <1>9 DEF IInv, TableInv, HostsHandedOver
  <1>13. TaskInv'
    BY <1>1, <1>9, <1>10 DEF IInv, TaskInv
  <1>14. SlotInv'
    BY <1>1 DEF IInv, SlotInv
  <1>15. CallInv'
    BY <1>1, <1>9, Constants DEF IInv, CallInv, Outdated, ToBeTold, ParIdAt
  <1>16. GenInv'
    <2>1. UNCHANGED <<step, heard, host2par>> /\ step = "reset" /\ DOMAIN heard \subseteq Hosts
      BY <1>1 DEF IInv, TypeOK
    <2>2. \A b \in Aggs : task'[b].gens \subseteq task[b].gens
                           /\ task[b].gens \ {h} \subseteq task'[b].gens
      BY <1>7, <1>8
    <2>3. ~child'[h].saw_data_this_run /\ \A g \in Hosts \ {h} : child'[g] = child[g]
      BY <1>6, <1>8
    <2> QED
      BY <2>1, <2>2, <2>3 DEF IInv, GenInv
  <1>17. TrackInv'
    <2>1. UNCHANGED <<rings, synced>> /\ \A b \in Aggs : synced[b] \subseteq Hosts
      BY <1>1 DEF IInv, TypeOK
    <2> QED
      BY <1>9, <1>10, <2>1 DEF IInv, TrackInv, ChildrenTrackRings
  <1> QED
    BY <1>11, <1>12, <1>13, <1>14, <1>15, <1>16, <1>17 DEF IInv

\* Step 2.4: the child a diff names gets the priority the ring gives it, and is
\* in the vector for Step 3.
LEMMA UpdateChildStep ==
    ASSUME IInv, NEW a \in Aggs, NEW h \in Hosts, UpdateChild(a, h)
    PROVE  IInv'
  <1> USE DEF reg_vars, bundle_vars
  <1>1. /\ step = "tasks" /\ task[a].gens = {} /\ h \in task[a].ids /\ h \in host2par
        /\ par_ids_to_bcast' = [par_ids_to_bcast EXCEPT ![a] = Append(@, h)]
        /\ UNCHANGED <<round, rings, host2par, step, heard, work, synced, reg_vars,
                       bundle_vars>>
    BY DEF UpdateChild, IInv, TaskInv
  <1>2. PICK v : v = SetAggIsLOPRI(a, task[a].mark, child[h].agg_is_lopri)
    OBVIOUS
  <1> DEFINE d == [child[h] EXCEPT !.agg_is_lopri = v, !.broadcasted_latest_state = FALSE]
             t == [task[a] EXCEPT !.ids = task[a].ids \ {h}]
  <1>3. /\ child \in [Hosts -> ChildState] /\ child[h] \in ChildState
        /\ task \in [Aggs -> Task] /\ task[a] \in Task
        /\ task[a].ids \ {h} \in SUBSET Hosts
    BY DEF IInv, TypeOK, Task
  <1>4. /\ v \in SUBSET Aggs
        /\ kFracsPerChunk = 1 => (a \in v <=> IsLOPRI(rings[a], h))
        /\ \A b \in Aggs \ {a} : b \in v <=> b \in child[h].agg_is_lopri
    <2>1. child[h].agg_is_lopri \subseteq Aggs
      BY <1>3 DEF ChildState
    <2>2. kFracsPerChunk = 1 => (IsLOPRI(rings[a], h) <=> task[a].mark)
      BY <1>1 DEF IInv, TrackInv
    <2>3. CASE task[a].mark
      BY <1>2, <2>1, <2>2, <2>3 DEF SetAggIsLOPRI
    <2>4. CASE ~task[a].mark
      BY <1>2, <2>1, <2>2, <2>4 DEF SetAggIsLOPRI
    <2> QED
      BY <2>3, <2>4
  <1>5. child' = [child EXCEPT ![h] = d] /\ task' = [task EXCEPT ![a] = t]
    <2>1. child' = [child EXCEPT ![h].agg_is_lopri = v,
                                 ![h].broadcasted_latest_state = FALSE]
      BY <1>2, Zenon DEF UpdateChild
    <2>2. child' = [child EXCEPT ![h] = d]
      BY <1>3, <2>1, Zenon
    <2>3. task' = [task EXCEPT ![a] = t]
      BY Zenon DEF UpdateChild
    <2> QED
      BY <2>2, <2>3
  <1>6. /\ d \in ChildState /\ d.listeners = child[h].listeners
        /\ d.agg_is_lopri = v /\ d.gen_seen = child[h].gen_seen
        /\ ~d.broadcasted_latest_state
        /\ d.saw_data_this_run = child[h].saw_data_this_run
    BY <1>3, <1>4, SetMarked, Zenon
  <1>7. /\ t \in Task /\ t.pc = task[a].pc /\ t.gens = task[a].gens
        /\ t.ids = task[a].ids \ {h} /\ t.mark = task[a].mark
    BY <1>3, SetIds, Zenon
  <1> HIDE DEF d, t
  <1>8. /\ child'[h] = d /\ \A g \in Hosts \ {h} : child'[g] = child[g]
        /\ task'[a] = t /\ \A b \in Aggs \ {a} : task'[b] = task[b]
    BY <1>3, <1>5
  <1>9. \A g \in Hosts :
             /\ child'[g].listeners = child[g].listeners
             /\ child'[g].gen_seen = child[g].gen_seen
             /\ child'[g].saw_data_this_run = child[g].saw_data_this_run
    BY <1>6, <1>8
  <1>10. \A b \in Aggs :
             /\ task'[b].pc = task[b].pc /\ task'[b].gens = task[b].gens
             /\ task'[b].mark = task[b].mark /\ task'[b].ids \subseteq task[b].ids
    BY <1>7, <1>8
  <1>11. /\ par_ids_to_bcast' \in [Aggs -> Seq(Hosts)]
         /\ \A b \in Aggs \ {a} : par_ids_to_bcast'[b] = par_ids_to_bcast[b]
         /\ Len(par_ids_to_bcast[a]) \in Nat
         /\ Len(par_ids_to_bcast'[a]) = Len(par_ids_to_bcast[a]) + 1
         /\ par_ids_to_bcast'[a][Len(par_ids_to_bcast[a]) + 1] = h
         /\ \A i \in 1 .. Len(par_ids_to_bcast[a]) :
               par_ids_to_bcast'[a][i] = par_ids_to_bcast[a][i]
    BY <1>1 DEF IInv, TaskInv
  <1>12. TypeOK'
    BY <1>1, <1>3, <1>5, <1>6, <1>7, <1>11 DEF IInv, TypeOK, Task
  <1>13. TableInv'
    BY <1>1, <1>9 DEF IInv, TableInv, HostsHandedOver
  <1>14. TaskInv'
    <2>1. \A g \in Hosts : child'[g].agg_is_lopri # {} => g \in host2par
      BY <1>1, <1>8 DEF IInv, TaskInv
    <2>2. \A b \in Aggs : \A i \in 1 .. Len(par_ids_to_bcast'[b]) :
             par_ids_to_bcast'[b][i] \in host2par
      BY <1>1, <1>11 DEF IInv, TaskInv
    <2> QED
      BY <1>1, <1>10, <1>11, <2>1, <2>2 DEF IInv, TaskInv
  <1>15. SlotInv'
    BY <1>1 DEF IInv, SlotInv
  <1>16. CallInv'
    <2>0. step = "tasks" /\ step' = "tasks"
      BY <1>1
    <2>1. \A g \in Hosts : ToBeTold(g) => ToBeTold(g)'
      <3> SUFFICES ASSUME NEW b \in Aggs, NEW i \in 1 .. Len(par_ids_to_bcast[b])
                   PROVE  /\ i \in 1 .. Len(par_ids_to_bcast'[b])
                          /\ par_ids_to_bcast'[b][i] = par_ids_to_bcast[b][i]
        BY <2>0 DEF ToBeTold
      <3> QED
        BY <1>11
    <2>2. ToBeTold(h)'
      <3>1. \E i \in 1 .. Len(par_ids_to_bcast'[a]) : par_ids_to_bcast'[a][i] = h
        BY <1>11
      <3> QED
        BY <2>0, <3>1 DEF ToBeTold
    <2>3. \A l \in Listeners : HostOf[l] # h => (Outdated(l)' <=> Outdated(l))
      BY <1>1, <1>8, Constants DEF Outdated
    <2>4. \A l \in Listeners : count'[l] = 0
      BY <1>1 DEF IInv, CallInv
    <2>5. ~child'[h].broadcasted_latest_state
      BY <1>6, <1>8
    <2>6. \A l \in Listeners : Outdated(l)' => /\ ~child'[HostOf[l]].broadcasted_latest_state
                                               /\ ToBeTold(HostOf[l])'
      <3> SUFFICES ASSUME NEW l \in Listeners, Outdated(l)'
                   PROVE  /\ ~child'[HostOf[l]].broadcasted_latest_state
                          /\ ToBeTold(HostOf[l])'
        OBVIOUS
      <3>1. CASE HostOf[l] = h
        BY <2>2, <2>5, <3>1
      <3>2. CASE HostOf[l] # h
        BY <1>8, <2>1, <2>3, <3>2, Constants DEF IInv, CallInv
      <3> QED
        BY <3>1, <3>2
    <2> QED
      BY <2>4, <2>6 DEF CallInv
  <1>17. GenInv'
    <2>1. UNCHANGED <<step, heard, host2par>> /\ step = "tasks" /\ DOMAIN heard \subseteq Hosts
      BY <1>1 DEF IInv, TypeOK
    <2>2. \A b \in Aggs : task'[b].pc = task[b].pc /\ task'[b].gens = task[b].gens
      BY <1>10
    <2>3. \A g \in Hosts : Seen(g)' <=> Seen(g)
      BY <1>9, <2>1 DEF Seen
    <2> QED
      BY <1>9, <2>1, <2>2, <2>3 DEF IInv, GenInv
  <1>18. TrackInv'
    <2> SUFFICES ASSUME kFracsPerChunk = 1, NEW b \in Aggs,
                        NEW g \in synced[b] \ task'[b].ids
                 PROVE  b \in child'[g].agg_is_lopri <=> IsLOPRI(rings[b], g)
      BY <1>1, <1>10 DEF IInv, TrackInv, ChildrenTrackRings
    <2>1. g \in Hosts
      BY DEF IInv, TypeOK
    <2>2. CASE g = h /\ b = a
      BY <1>4, <1>6, <1>8, <2>2
    <2>3. CASE g = h /\ b # a
      BY <1>4, <1>6, <1>8, <2>3 DEF IInv, TrackInv, ChildrenTrackRings
    <2>4. CASE g # h
      BY <1>7, <1>8, <2>1, <2>4 DEF IInv, TrackInv, ChildrenTrackRings
    <2> QED
      BY <2>2, <2>3, <2>4
  <1> QED
    BY <1>12, <1>13, <1>14, <1>15, <1>16, <1>17, <1>18 DEF IInv
-----------------------------------------------------------------------------
\* Dividing by the number of workers.
LEMMA DivMod ==
    ASSUME NEW n \in Nat
    PROVE  /\ n \div NumWorkers \in Nat /\ n % NumWorkers \in Workers
           /\ n = NumWorkers * (n \div NumWorkers) + (n % NumWorkers)
  <1> DEFINE k == NumWorkers
             below == k * (n \div k)
             place == n % k
  <1>1. k \in Nat \ {0}
    BY Constants
  <1>2. place \in 0 .. k - 1 /\ n \div k \in Nat /\ below \in Int
    BY <1>1
  <1>3. place = n - below
    BY <1>1, SMTT(30)
  <1>4. n = below + place
    <2> HIDE DEF below, place, k
    <2> QED
      BY <1>2, <1>3 DEF below, place, k
  <1> QED
    BY <1>2, <1>4 DEF Workers

\* The slices of the workers cover a vector: each of its places is in the slice
\* of some worker, below the number of slots that PerWorker gives.
LEMMA SlicesCover ==
    ASSUME NEW len \in Nat, NEW n \in 0 .. len - 1
    PROVE  \E w \in Workers : \E i \in 0 .. PerWorker(len) - 1 : w + i * NumWorkers = n
  <1> DEFINE i == n \div NumWorkers
             w == n % NumWorkers
             p == PerWorker(len)
             r == (len + NumWorkers - 1) % NumWorkers
  <1>1. NumWorkers \in Nat /\ NumWorkers > 0 /\ n \in Nat /\ n < len
        /\ len + NumWorkers - 1 \in Nat
    BY Constants
  <1>2. i \in Nat /\ w \in Workers /\ n = NumWorkers * i + w
    BY <1>1, DivMod
  <1>3. p \in Nat /\ r \in Workers /\ len + NumWorkers - 1 = NumWorkers * p + r
    BY <1>1, DivMod DEF PerWorker
  <1>4. w \in Nat /\ r \in Nat /\ r <= NumWorkers - 1
    BY <1>1, <1>2, <1>3 DEF Workers
  <1> HIDE DEF i, w, p, r
  <1>5. NumWorkers * i < NumWorkers * p
    <2>1. NumWorkers * i \in Nat /\ NumWorkers * p \in Nat
      BY <1>1, <1>2, <1>3
    <2> QED
      BY <1>1, <1>2, <1>3, <1>4, <2>1
  <1>6. i < p
    <2>1. p <= i => NumWorkers * p <= NumWorkers * i
      BY <1>1, <1>2, <1>3
    <2>2. NumWorkers * i \in Nat /\ NumWorkers * p \in Nat
      BY <1>1, <1>2, <1>3
    <2> QED
      BY <1>2, <1>3, <1>5, <2>1, <2>2
  <1>7. w + i * NumWorkers = n
    BY <1>1, <1>2, <1>4
  <1>8. i \in 0 .. PerWorker(len) - 1
    BY <1>2, <1>3, <1>6 DEF p
  <1> QED
    BY <1>2, <1>7, <1>8

\* The slots of a worker are places of the vectors.
LEMMA SlotsType ==
    ASSUME IInv, NEW w \in Workers
    PROVE  /\ Slots(w) \in SUBSET (Aggs \X Nat)
           /\ \A slot \in Slots(w) :
                w + slot[2] * NumWorkers < Len(par_ids_to_bcast[slot[1]])
  <1>1. \A a \in Aggs : PerWorker(Len(par_ids_to_bcast[a])) \in Nat
    <2> SUFFICES ASSUME NEW a \in Aggs PROVE PerWorker(Len(par_ids_to_bcast[a])) \in Nat
      OBVIOUS
    <2>1. Len(par_ids_to_bcast[a]) + NumWorkers - 1 \in Nat
      BY Constants DEF IInv, TaskInv
    <2> QED
      BY <2>1, DivMod DEF PerWorker
  <1> QED
    BY <1>1 DEF Slots

\* Step 3 starts: every entry of the vectors is in the slots of a worker.
LEMMA StartBroadcastStep == ASSUME IInv, StartBroadcast PROVE IInv'
  <1> USE DEF StartBroadcast, reg_vars, bundle_vars
  <1>1. TypeOK'
    <2>1. work' \in [Workers -> SUBSET (Aggs \X Nat)]
      BY SlotsType
    <2>2. task' \in [Aggs -> Task]
      BY DEF NoTask, Task
    <2> QED
      BY <2>1, <2>2 DEF IInv, TypeOK, Task
  <1>2. TableInv'
    BY DEF IInv, TableInv, HostsHandedOver
  <1>3. TaskInv'
    BY DEF IInv, TaskInv, NoTask
  <1>4. SlotInv'
    BY SlotsType DEF SlotInv
  <1>5. CallInv'
    <2>1. ASSUME NEW h \in Hosts, ToBeTold(h) PROVE ToBeTold(h)'
      <3> PICK a \in Aggs : \E i \in 1 .. Len(par_ids_to_bcast[a]) : par_ids_to_bcast[a][i] = h
        BY <2>1 DEF ToBeTold
      <3>1. PICK i \in 1 .. Len(par_ids_to_bcast[a]) : par_ids_to_bcast[a][i] = h
        OBVIOUS
      <3>2. Len(par_ids_to_bcast[a]) \in Nat
        BY DEF IInv, TaskInv
      <3>3. i - 1 \in 0 .. Len(par_ids_to_bcast[a]) - 1
        BY <3>2
      <3>4. PICK w \in Workers, j \in 0 .. PerWorker(Len(par_ids_to_bcast[a])) - 1 :
               w + j * NumWorkers = i - 1
        BY <3>2, <3>3, SlicesCover
      <3>5. <<a, j>> \in Slots(w)
        BY <3>2, <3>3, <3>4 DEF Slots
      <3>6. par_ids_to_bcast'[a][w + j * NumWorkers + 1] = h
        <4>1. w + j * NumWorkers + 1 = i
          BY <3>2, <3>4, SMTT(20)
        <4> QED
          BY <3>1, <4>1
      <3> QED
        BY <3>5, <3>6 DEF ToBeTold, ParIdAt
    <2>2. \A l \in Listeners : Outdated(l)' <=> Outdated(l)
      BY DEF Outdated
    <2> QED
      BY <2>1, <2>2, Constants DEF IInv, CallInv
  <1>6. GenInv'
    <2>1. \A h \in DOMAIN heard \cap host2par : Aggs # {} => Seen(h)
      BY DEF IInv, GenInv
    <2> QED
      BY <2>1 DEF IInv, GenInv, Seen, NoTask
  <1>7. TrackInv'
    BY DEF IInv, TrackInv, ChildrenTrackRings, NoTask
  <1> QED
    BY <1>1, <1>2, <1>3, <1>4, <1>5, <1>6, <1>7 DEF IInv

\* Step 3: the host of the slot a worker takes.
LEMMA SlotHost ==
    ASSUME IInv, NEW w \in Workers, NEW slot \in work[w]
    PROVE  ParIdAt(w, slot) \in host2par /\ ParIdAt(w, slot) \in Hosts
  <1>1. slot \in Aggs \X Nat
    BY DEF IInv, TypeOK
  <1> DEFINE n == w + slot[2] * NumWorkers
             s == par_ids_to_bcast[slot[1]]
  <1>2. slot[1] \in Aggs /\ n \in Nat
    BY <1>1, Constants
  <1>3. n < Len(s) /\ Len(s) \in Nat
    BY <1>2 DEF IInv, SlotInv, TaskInv
  <1> HIDE DEF n
  <1>4. n + 1 \in 1 .. Len(s)
    BY <1>2, <1>3
  <1>5. s[n + 1] \in host2par
    BY <1>2, <1>4 DEF IInv, TaskInv
  <1> QED
    BY <1>5 DEF ParIdAt, n, IInv, TypeOK

\* Step 3: a child whose flag is down has its listeners called, each for the
\* first time in the round; one whose flag is up needs no call.
LEMMA BroadcastStep == ASSUME IInv, NEW w \in Workers, Broadcast(w) PROVE IInv'
  <1> USE DEF reg_vars, bundle_vars
  <1>1. PICK slot \in work[w] :
          /\ BroadcastStateIfUpdated(ParIdAt(w, slot))
          /\ work' = [work EXCEPT ![w] = @ \ {slot}]
    BY DEF Broadcast
  <1>2. PICK h \in Hosts : h = ParIdAt(w, slot) /\ h \in host2par
    BY SlotHost
  <1>3. /\ step = "bcast"
        /\ UNCHANGED <<round, rings, host2par, step, heard, task, par_ids_to_bcast,
                       synced, reg_vars>>
    BY DEF Broadcast
  <1>4. /\ work' \in [Workers -> SUBSET (Aggs \X Nat)]
        /\ \A v \in Workers : work'[v] \subseteq work[v]
        /\ \A v \in Workers : \A s \in work[v] : s \in work'[v] \/ ParIdAt(v, s) = h
    BY <1>1, <1>2 DEF IInv, TypeOK
  <1>5. \A g \in Hosts : ToBeTold(g) => g = h \/ ToBeTold(g)'
    BY <1>3, <1>4 DEF ToBeTold, ParIdAt
  <1>6. SlotInv'
    BY <1>3, <1>4 DEF IInv, SlotInv
  <1>7. CASE child[h].broadcasted_latest_state
    <2>1. UNCHANGED <<child, bundle_vars>>
      BY <1>1, <1>2, <1>7 DEF BroadcastStateIfUpdated
    <2>2. TypeOK'
      BY <1>3, <1>4, <2>1 DEF IInv, TypeOK
    <2>3. TableInv'
      BY <1>3, <2>1 DEF IInv, TableInv, HostsHandedOver
    <2>4. TaskInv'
      BY <1>3, <2>1 DEF IInv, TaskInv
    <2>5. CallInv'
      <3>1. \A l \in Listeners : Outdated(l)' <=> Outdated(l)
        BY <1>3, <2>1 DEF Outdated
      <3> QED
        BY <1>3, <1>5, <1>7, <2>1, <3>1, Constants DEF IInv, CallInv
    <2>6. GenInv'
      BY <1>3, <2>1 DEF IInv, GenInv, Seen
    <2>7. TrackInv'
      BY <1>3, <2>1 DEF IInv, TrackInv, ChildrenTrackRings
    <2> QED
      BY <1>6, <2>2, <2>3, <2>4, <2>5, <2>6, <2>7 DEF IInv
  <1>8. CASE ~child[h].broadcasted_latest_state
    <2> DEFINE d == [child[h] EXCEPT !.broadcasted_latest_state = TRUE]
    <2>1. PICK b : b = [lopri |-> child[h].agg_is_lopri,
                        gen |-> IF child[h].saw_data_this_run THEN child[h].gen_seen ELSE 0]
      OBVIOUS
    <2>2. /\ got' = [l \in Listeners |-> IF l \in child[h].listeners THEN b ELSE got[l]]
          /\ count' = [l \in Listeners |-> IF l \in child[h].listeners
                                           THEN count[l] + 1 ELSE count[l]]
      BY <1>1, <1>2, <1>8, <2>1 DEF BroadcastStateIfUpdated, BroadcastStateUnconditional
    <2>3. child \in [Hosts -> ChildState] /\ child[h] \in ChildState
      BY DEF IInv, TypeOK
    <2>4. child' = [child EXCEPT ![h] = d]
      <3>1. child' = [child EXCEPT ![h].broadcasted_latest_state = TRUE]
        BY <1>1, <1>2, <1>8, Zenon DEF BroadcastStateIfUpdated
      <3> QED
        BY <3>1, Zenon
    <2>5. /\ d \in ChildState /\ d.listeners = child[h].listeners
          /\ d.agg_is_lopri = child[h].agg_is_lopri /\ d.gen_seen = child[h].gen_seen
          /\ d.broadcasted_latest_state
          /\ d.saw_data_this_run = child[h].saw_data_this_run
      BY <2>3, SetSent, Zenon
    <2> HIDE DEF d
    <2>6. /\ child'[h] = d /\ \A g \in Hosts \ {h} : child'[g] = child[g]
          /\ \A g \in Hosts :
             /\ child'[g].agg_is_lopri = child[g].agg_is_lopri
             /\ child'[g].listeners = child[g].listeners
             /\ child'[g].gen_seen = child[g].gen_seen
             /\ child'[g].saw_data_this_run = child[g].saw_data_this_run
      BY <2>3, <2>4, <2>5
    <2>7. \A l \in Listeners :
            \/ HostOf[l] = h /\ reg[l] = "on" /\ got'[l] = b /\ count'[l] = count[l] + 1
            \/ ~(HostOf[l] = h /\ reg[l] = "on") /\ got'[l] = got[l] /\ count'[l] = count[l]
      <3>1. \A l \in Listeners : l \in child[h].listeners <=> HostOf[l] = h /\ reg[l] = "on"
        BY DEF IInv, TableInv
      <3> QED
        BY <2>2, <3>1
    <2>8. /\ b \in [lopri: SUBSET Aggs, gen: {0} \cup Gens]
          /\ b.lopri = child[h].agg_is_lopri
      BY <2>1, <2>3 DEF ChildState
    <2>9. \A l \in Listeners : HostOf[l] = h => count[l] = 0
      BY <1>8 DEF IInv, CallInv
    <2>10. TypeOK'
      <3>1. got' \in [Listeners -> {NoBundle} \cup [lopri: SUBSET Aggs, gen: {0} \cup Gens]]
        BY <2>2, <2>8 DEF IInv, TypeOK
      <3>2. count' \in [Listeners -> Nat]
        <4>1. count \in [Listeners -> Nat]
          BY DEF IInv, TypeOK
        <4> QED
          <5>1. \A l \in Listeners : count[l] + 1 \in Nat /\ count[l] \in Nat
            BY <4>1, SMTT(20)
          <5> QED
            BY <2>2, <5>1, Zenon
      <3>3. child' \in [Hosts -> ChildState]
        BY <2>3, <2>4, <2>5
      <3> QED
        BY <1>3, <1>4, <3>1, <3>2, <3>3 DEF IInv, TypeOK
    <2>11. TableInv'
      <3>1. UNCHANGED <<created, new_host_id_pairs, host2par, reg>>
        BY <1>3
      <3>2. \A l \in Listeners : reg[l] \notin {"on", "gone"} => got'[l] = got[l]
        BY <2>7
      <3>3. \A g \in Hosts : child'[g].listeners = child[g].listeners
        BY <2>6
      <3> QED
        BY <3>1, <3>2, <3>3 DEF IInv, TableInv, HostsHandedOver
    <2>12. TaskInv'
      BY <1>3, <2>6 DEF IInv, TaskInv
    <2>13. CallInv'
      <3> SUFFICES ASSUME NEW l \in Listeners
                   PROVE  /\ Outdated(l)' => /\ ~child'[HostOf[l]].broadcasted_latest_state
                                             /\ ToBeTold(HostOf[l])'
                          /\ count'[l] # 0 => /\ count'[l] = 1
                                              /\ step' \in {"bcast", "reset"}
                                              /\ child'[HostOf[l]].broadcasted_latest_state
        BY DEF CallInv
      <3>1. CASE HostOf[l] = h
        <4>1. ~Outdated(l)'
          BY <1>3, <2>6, <2>7, <2>8, <3>1 DEF Outdated
        <4>2. count'[l] # 0 => count'[l] = 1
          BY <2>7, <2>9, <3>1, SMTT(20)
        <4>3. child'[h].broadcasted_latest_state
          BY <2>5, <2>6
        <4> QED
          BY <1>3, <3>1, <4>1, <4>2, <4>3
      <3>2. CASE HostOf[l] # h
        <4>1. HostOf[l] \in Hosts /\ child'[HostOf[l]] = child[HostOf[l]]
          BY <2>6, <3>2, Constants
        <4>2. got'[l] = got[l] /\ count'[l] = count[l]
          BY <2>7, <3>2
        <4>3. Outdated(l)' <=> Outdated(l)
          BY <1>3, <4>1, <4>2 DEF Outdated
        <4> QED
          BY <1>3, <1>5, <3>2, <4>1, <4>2, <4>3 DEF IInv, CallInv
      <3> QED
        BY <3>1, <3>2
    <2>14. GenInv'
      BY <1>3, <2>6 DEF IInv, GenInv, Seen, TypeOK
    <2>15. TrackInv'
      BY <1>3, <2>6 DEF IInv, TrackInv, ChildrenTrackRings, TypeOK
    <2> QED
      BY <1>6, <2>10, <2>11, <2>12, <2>13, <2>14, <2>15 DEF IInv
  <1> QED
    BY <1>7, <1>8
-----------------------------------------------------------------------------
\* Nothing is left to be told when the workers are done.
LEMMA StartResetStep == ASSUME IInv, StartReset PROVE IInv'
  <1> USE DEF StartReset, reg_vars, bundle_vars
  <1> DEFINE g == DOMAIN heard \cap host2par
  <1>1. \A a \in Aggs : task'[a] = [pc |-> "none", gens |-> g, ids |-> {}, mark |-> FALSE]
    BY DEF NoTask
  <1>2. TypeOK'
    <2>1. g \subseteq Hosts
      BY DEF IInv, TypeOK
    <2> HIDE DEF g
    <2>2. task' = [a \in Aggs |-> task'[a]]
      OBVIOUS
    <2>3. [pc |-> "none", gens |-> g, ids |-> {}, mark |-> FALSE] \in Task
      BY <2>1 DEF Task
    <2>4. task' \in [Aggs -> Task]
      BY <1>1, <2>2, <2>3
    <2> QED
      BY <2>4 DEF IInv, TypeOK, Task
  <1>3. TableInv'
    BY DEF IInv, TableInv, HostsHandedOver
  <1>4. TaskInv'
    <2>1. \A a \in Aggs : task'[a].ids = {}
      BY <1>1
    <2> QED
      BY <2>1 DEF IInv, TaskInv
  <1>5. SlotInv'
    BY DEF IInv, SlotInv
  <1>6. CallInv'
    <2>1. \A l \in Listeners : Outdated(l)' <=> Outdated(l)
      BY DEF Outdated
    <2>2. \A l \in Listeners : ~Outdated(l)
      BY DEF IInv, CallInv, ToBeTold
    <2> QED
      BY <2>1, <2>2 DEF IInv, CallInv
  <1>7. GenInv'
    BY <1>1 DEF IInv, GenInv
  <1>8. TrackInv'
    BY <1>1 DEF IInv, TaskInv, TrackInv, ChildrenTrackRings
  <1> QED
    BY <1>2, <1>3, <1>4, <1>5, <1>6, <1>7, <1>8 DEF IInv

\* ComputeAndBroadcast returns with every flag of Step 2.3 down.
LEMMA EndRoundStep == ASSUME IInv, EndRound PROVE IInv'
  <1>0. <<>> \in Seq(Hosts)
    OBVIOUS
  <1> USE DEF EndRound, reg_vars
  <1>1. TypeOK'
    <2>1. NoTask \in Task
      BY DEF NoTask, Task
    <2>2. task' \in [Aggs -> Task]
      BY <2>1
    <2> QED
      BY <1>0, <2>2 DEF IInv, TypeOK, Task
  <1>2. TableInv'
    BY DEF IInv, TableInv, HostsHandedOver
  <1>3. TaskInv'
    <2>1. \A a \in Aggs : task'[a].ids = {} /\ par_ids_to_bcast'[a] = <<>>
      BY DEF NoTask
    <2>2. par_ids_to_bcast' \in [Aggs -> Seq(Hosts)]
      OBVIOUS
    <2>3. step' = "idle" /\ UNCHANGED <<child, host2par, synced>>
      OBVIOUS
    <2>4. \A a \in Aggs : synced[a] \subseteq host2par
      BY DEF IInv, TaskInv
    <2>5. \A h \in Hosts : child[h].agg_is_lopri # {} => h \in host2par
      BY DEF IInv, TaskInv
    <2> QED
      BY <2>1, <2>2, <2>3, <2>4, <2>5, SMTT(20) DEF TaskInv
  <1>4. SlotInv'
    BY DEF IInv, SlotInv
  <1>5. CallInv'
    <2>1. \A l \in Listeners : Outdated(l)' <=> Outdated(l)
      BY DEF Outdated
    <2>2. \A l \in Listeners : ~Outdated(l)
      BY DEF IInv, CallInv, ToBeTold
    <2>3. \A l \in Listeners : count'[l] = 0
      OBVIOUS
    <2> QED
      BY <2>1, <2>2, <2>3 DEF CallInv
  <1>6. GenInv'
    <2>1. \A h \in Hosts : ~child[h].saw_data_this_run
      BY DEF IInv, GenInv
    <2> QED
      BY <2>1 DEF GenInv, NoTask
  <1>7. TrackInv'
    BY DEF IInv, TaskInv, TrackInv, ChildrenTrackRings, NoTask
  <1> QED
    BY <1>1, <1>2, <1>3, <1>4, <1>5, <1>6, <1>7 DEF IInv
-----------------------------------------------------------------------------
LEMMA Invariance == Spec => []IInv
  <1>1. ASSUME IInv, Next PROVE IInv'
    <2>1. ASSUME NEW l \in Listeners, ListenerStep(l) PROVE IInv'
      BY <1>1, <2>1, RegisterStep, ListenStep DEF ListenerStep
    <2>2. ASSUME NEW a \in Aggs, AggTask(a) PROVE IInv'
      BY <1>1, <2>2, PickStep, RecordGenStep, UpdateChildStep, ResetStep DEF AggTask
    <2>3. ASSUME NEW hs \in SUBSET Hosts, NEW gens \in [hs -> Gens], CollectSnapshot(gens)
          PROVE  IInv'
      BY <1>1, <2>3, SnapshotStep
    <2>4. CASE DrainNewHosts \/ StartBroadcast \/ StartReset \/ EndRound
      BY <1>1, <2>4, DrainStep, StartBroadcastStep, StartResetStep, EndRoundStep
    <2>5. ASSUME NEW w \in Workers, Broadcast(w) PROVE IInv'
      BY <1>1, <2>5, BroadcastStep
    <2> QED
      BY <1>1, <2>1, <2>2, <2>3, <2>4, <2>5 DEF Next
  <1>2. ASSUME IInv, UNCHANGED vars PROVE IInv'
    <2> USE <1>2 DEF vars, reg_vars, ctl_vars, bundle_vars
    <2>1. TypeOK'
      BY DEF IInv, TypeOK
    <2>2. TableInv' /\ TaskInv' /\ SlotInv'
      BY DEF IInv, TableInv, HostsHandedOver, TaskInv, SlotInv
    <2>3. CallInv'
      BY DEF IInv, CallInv, Outdated, ToBeTold, ParIdAt
    <2>4. GenInv' /\ TrackInv'
      BY DEF IInv, GenInv, Seen, TrackInv, ChildrenTrackRings
    <2> QED
      BY <2>1, <2>2, <2>3, <2>4 DEF IInv
  <1> QED
    BY <1>1, <1>2, InitInv, PTL DEF Spec

\* The controller's view of each host never drifts from the rings: a host in
\* child_states_ that is in step with its aggregate's ring stays so under every
\* interleaving of registrations, tasks and broadcasts.
THEOREM PrioritiesFollowRings ==
    ASSUME kFracsPerChunk = 1
    PROVE  Spec => []ChildrenTrackRings
  <1>1. IInv => ChildrenTrackRings
    BY DEF IInv, TrackInv
  <1> QED
    BY <1>1, Invariance, PTL

\* No change of priority is lost by ComputeAndBroadcast: when the workers are
\* done, every listener that has been called was last called with the current
\* priorities of its host.
THEOREM NoChangeIsLost == Spec => []ListenersCurrent
  <1>1. IInv => ListenersCurrent
    BY DEF IInv, CallInv, ListenersCurrent, Outdated, ToBeTold
  <1> QED
    BY <1>1, Invariance, PTL

\* The tables are well-formed, RegisterListener hands every host to the control
\* thread, and BroadcastStateIfUpdated calls a listener once a round.
THEOREM TablesConsistent == Spec => []ControllerInv
  <1>1. IInv => ControllerInv
    <2> SUFFICES ASSUME IInv PROVE ControllerInv
      OBVIOUS
    <2>1. OneBundlePerRound
      BY DEF IInv, CallInv, OneBundlePerRound
    <2> QED
      BY <2>1 DEF IInv, TableInv, ControllerInv
  <1> QED
    BY <1>1, Invariance, PTL

\* A bundle names the generation of this round's snapshot, or none: Step 4
\* clears what Step 2.3 recorded before the next round reads it.
THEOREM GenerationsAreFresh == Spec => GenOfThisRound
  <1> DEFINE Fresh(l) == IF HostOf[l] \in DOMAIN heard THEN got'[l].gen >= heard[HostOf[l]]
                                                       ELSE got'[l].gen = 0
  <1>1. ASSUME IInv, NEW w \in Workers, Broadcast(w), NEW l \in Listeners, got'[l] # got[l]
        PROVE  Fresh(l)
    <2>1. PICK slot \in work[w] : BroadcastStateIfUpdated(ParIdAt(w, slot))
      BY <1>1 DEF Broadcast
    <2>2. PICK h \in Hosts : h = ParIdAt(w, slot) /\ h \in host2par
      BY <1>1, SlotHost
    <2>3. /\ l \in child[h].listeners
          /\ got'[l] = [lopri |-> child[h].agg_is_lopri,
                        gen |-> IF child[h].saw_data_this_run THEN child[h].gen_seen ELSE 0]
      BY <1>1, <2>1, <2>2
         DEF BroadcastStateIfUpdated, BroadcastStateUnconditional, bundle_vars
    <2>4. HostOf[l] = h /\ step = "bcast" /\ Aggs # {}
      <3>1. slot \in Aggs \X Nat
        BY <1>1 DEF IInv, TypeOK
      <3>2. HostOf[l] = h
        BY <1>1, <2>3 DEF IInv, TableInv
      <3>3. step = "bcast"
        BY <1>1 DEF Broadcast
      <3> QED
        BY <3>1, <3>2, <3>3
    <2>5. CASE h \in DOMAIN heard
      <3>1. Seen(h)
        BY <1>1, <2>2, <2>4, <2>5 DEF IInv, GenInv
      <3> QED
        <4>1. got'[l].gen = child[h].gen_seen
          BY <2>3, <3>1 DEF Seen
        <4> QED
          BY <2>4, <2>5, <3>1, <4>1 DEF Seen
    <2>6. CASE h \notin DOMAIN heard
      <3>1. ~child[h].saw_data_this_run
        BY <1>1, <2>6 DEF IInv, GenInv
      <3> QED
        <4>1. got'[l].gen = 0
          BY <2>3, <3>1
        <4> QED
          BY <2>4, <2>6, <4>1
    <2> QED
      BY <2>5, <2>6
  <1>2. ASSUME IInv, [Next]_vars, NEW l \in Listeners, got'[l] # got[l]
        PROVE  \E w \in Workers : Broadcast(w)
    <2> USE DEF bundle_vars
    <2>1. CASE \E k \in Listeners : ListenerStep(k)
      BY <1>2, <2>1
         DEF ListenerStep, RegisterGetID, RegisterPushPair, RegisterAdd, Unregister
    <2>2. CASE \E a \in Aggs : AggTask(a)
      BY <1>2, <2>2 DEF AggTask, PickChildren, RecordGen, UpdateChild, ResetSawData
    <2>3. CASE \E hs \in SUBSET Hosts : \E gens \in [hs -> Gens] : CollectSnapshot(gens)
      BY <1>2, <2>3 DEF CollectSnapshot
    <2>4. CASE DrainNewHosts \/ StartBroadcast \/ StartReset \/ EndRound
      BY <1>2, <2>4 DEF DrainNewHosts, StartBroadcast, StartReset, EndRound
    <2>5. CASE UNCHANGED vars
      BY <1>2, <2>5 DEF vars
    <2> QED
      BY <1>2, <2>1, <2>2, <2>3, <2>4, <2>5 DEF Next
  <1>3. IInv /\ [Next]_vars =>
          [\A l \in Listeners : got'[l] # got[l] => Fresh(l)]_vars
    BY <1>1, <1>2
  <1> QED
    BY <1>3, Invariance, PTL DEF Spec, GenOfThisRound
=============================================================================
