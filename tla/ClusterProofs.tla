---------------------------- MODULE ClusterProofs ----------------------------
(***************************************************************************)
(* Proofs about what the threads of the agents and of the integration test *)
(* share, for the components as MCCluster instantiates them: the theorems  *)
(* about Executor and ParIndexedMap carried over to MCSpec, and the        *)
(* counters of the tester's flows.                                         *)
(***************************************************************************)
EXTENDS MCCluster, TLAPS

\* Executor, with any number of workers, groups and tasks, implements
\* TaskGroups: AddTask, WaitAll and the destructor behave as if every group
\* ran its own tasks.
THEOREM PoolImplementsTaskGroups == MCSpec => PoolSpec
<1>1. MCInit => EX!Init
  BY DEF MCInit
<1>2. [MCNext]_AllVars => [EX!Next]_(EX!vars)
  BY DEF MCNext, AllVars, EX!vars, executorVars
<1>3. EX!Spec => EX!PoolSpec
  BY ClusterAssumption, EX!ExecutorImplementsTaskGroups
<1> QED
  BY <1>1, <1>2, <1>3, PTL DEF MCSpec, EX!Spec, PoolSpec

\* ParIndexedMap, with any keys, users and spans, implements IndexedMap: its
\* readers see the entries of the map that one lock would guard.
THEOREM MapImplementsIndexedMap == MCSpec => MapSpec
<1>1. MCInit => PM!Init
  BY DEF MCInit
<1>2. [MCNext]_AllVars => [PM!Next]_(PM!vars)
  BY DEF MCNext, AllVars, PM!vars, mapVars
<1>3. PM!Spec => PM!MapSpec
  BY ClusterAssumption, PM!SpansImplementArray DEF PM!MapAssumption, PM!Free
<1> QED
  BY <1>1, <1>2, <1>3, PTL DEF MCSpec, PM!Spec, MapSpec
-----------------------------------------------------------------------------
(* The counters of the tester's flows.                                     *)

SendStates == {"none", "name", "wait", "loop", "count", "exit"}
Totals == [cum : Nat, steps : Int]
Counters == [sent : Nat, rcvd : Nat]
Measurements == [sent : Totals, rcvd : Totals]

\* Conserved is inductive once no flow is started anew: InitFlow runs before
\* Go, when no thread has sent anything.
TestInv ==
    /\ send \in [OT!Flows -> SendStates]
    /\ wire \in [OT!Flows -> Nat]
    /\ counter \in [OT!Flows -> Counters]
    /\ measured \in [OT!Flows -> Measurements]
    /\ go \in [OT!HostWorkers -> BOOLEAN]
    /\ main[1] \in {"init", "go"} =>
         /\ \A w \in OT!HostWorkers : ~go[w]
         /\ \A f \in OT!Flows : send[f] \in {"none", "name", "wait"}
    /\ OT!Conserved

\* Setting one field of a counter.
LEMMA SetCounter ==
    ASSUME NEW c \in Counters, NEW n \in Nat
    PROVE  /\ [c EXCEPT !.sent = n] \in Counters
           /\ [c EXCEPT !.sent = n].sent = n /\ [c EXCEPT !.sent = n].rcvd = c.rcvd
           /\ [c EXCEPT !.rcvd = n] \in Counters
           /\ [c EXCEPT !.rcvd = n].rcvd = n /\ [c EXCEPT !.rcvd = n].sent = c.sent
BY Zenon DEF Counters

\* A read of a counter brings a measurement up to it.
LEMMA MeasuredUp ==
    ASSUME NEW m \in Totals, NEW c \in Nat, NEW exists \in BOOLEAN,
           m.steps = m.cum, m.cum <= c
    PROVE  LET x == OT!Measured(m, c, exists)
           IN  x \in Totals /\ x.steps = x.cum /\ x.cum <= c
<1>1. m.cum \in Nat /\ m.steps \in Int
  BY DEF Totals
<1>2. CASE exists
  BY <1>1, <1>2 DEF OT!Measured, Totals
<1>3. CASE ~exists
  BY <1>3 DEF OT!Measured
<1> QED
  BY <1>2, <1>3

\* Before the first step nothing was sent or measured.
LEMMA TestInit == OT!Init => TestInv
<1> SUFFICES ASSUME OT!Init PROVE TestInv
  OBVIOUS
<1>1. OT!NoBytes \in Totals /\ OT!NoBytes.cum = 0 /\ OT!NoBytes.steps = 0
  BY DEF OT!NoBytes, Totals
<1>2. \A f \in OT!Flows :
        /\ counter[f] \in Counters /\ counter[f].sent = 0 /\ counter[f].rcvd = 0
        /\ measured[f] \in Measurements
        /\ measured[f].sent = OT!NoBytes /\ measured[f].rcvd = OT!NoBytes
  BY <1>1 DEF OT!Init, Counters, Measurements
<1>3. OT!Conserved
  BY <1>1, <1>2 DEF OT!Init, OT!Conserved
<1> QED
  BY <1>2, <1>3 DEF OT!Init, TestInv, SendStates

\* The steps that move only the threads and Run leave the bytes alone.
LEMMA TestControl ==
    ASSUME TestInv, UNCHANGED <<wire, counter, measured>>,
           send' \in [OT!Flows -> SendStates], go' \in [OT!HostWorkers -> BOOLEAN],
           \A f \in OT!Flows : send'[f] = "count" <=> send[f] = "count",
           main'[1] \in {"init", "go"} =>
             /\ main[1] \in {"init", "go"} /\ go' = go
             /\ \A f \in OT!Flows : send'[f] \in {"none", "name", "wait"}
    PROVE  TestInv'
<1>1. OT!Conserved'
  BY DEF TestInv, OT!Conserved
<1> QED
  BY <1>1 DEF TestInv

\* send() puts a buffer on the wire that its thread counts afterwards.
LEMMA TestSend == ASSUME TestInv, NEW f \in OT!Flows, OT!Send(f) PROVE TestInv'
<1>1. /\ send[f] = "loop" /\ send' = [send EXCEPT ![f] = "count"]
      /\ wire' = [wire EXCEPT ![f] = @ + 1]
      /\ UNCHANGED <<main, go, counter, measured>>
  BY DEF OT!Send
<1>2. main[1] \notin {"init", "go"} /\ counter[f] \in Counters
  BY <1>1 DEF TestInv
<1>3. OT!Conserved'
  BY <1>1, <1>2 DEF TestInv, OT!Conserved, Counters
<1> QED
  BY <1>1, <1>2, <1>3 DEF TestInv, SendStates

LEMMA TestCounts == ASSUME TestInv, NEW f \in OT!Flows, OT!SendCounts(f) PROVE TestInv'
<1> DEFINE n == counter[f].sent + 1
           d == [counter[f] EXCEPT !.sent = n]
<1>1. /\ send[f] = "count" /\ send' = [send EXCEPT ![f] = "loop"]
      /\ counter' = [counter EXCEPT ![f] = d]
      /\ UNCHANGED <<main, go, wire, measured>>
  BY DEF OT!SendCounts
<1>2. main[1] \notin {"init", "go"} /\ counter[f] \in Counters /\ n \in Nat
  BY <1>1 DEF TestInv, Counters
<1>3. d \in Counters /\ d.sent = n /\ d.rcvd = counter[f].rcvd
  BY <1>2, SetCounter
<1> HIDE DEF d
<1>4. \A g \in OT!Flows : measured[g] \in Measurements
                           /\ measured[g].sent.cum \in Nat /\ measured[g].rcvd.cum \in Nat
  BY DEF TestInv, Measurements, Totals
<1>5. OT!Conserved'
  BY <1>1, <1>2, <1>3, <1>4 DEF TestInv, OT!Conserved, Counters
<1> QED
  BY <1>1, <1>2, <1>3, <1>5 DEF TestInv, SendStates

LEMMA TestRecv == ASSUME TestInv, NEW f \in OT!Flows, OT!Recv(f) PROVE TestInv'
<1> DEFINE n == counter[f].rcvd + 1
           d == [counter[f] EXCEPT !.rcvd = n]
<1>1. /\ wire[f] > 0 /\ wire' = [wire EXCEPT ![f] = @ - 1]
      /\ counter' = [counter EXCEPT ![f] = d]
      /\ UNCHANGED <<main, go, send, measured>>
  BY DEF OT!Recv
<1>2. counter[f] \in Counters /\ n \in Nat /\ wire[f] \in Nat
  BY DEF TestInv, Counters
<1>3. d \in Counters /\ d.rcvd = n /\ d.sent = counter[f].sent
  BY <1>2, SetCounter
<1> HIDE DEF d
<1>4. \A g \in OT!Flows : measured[g] \in Measurements
                           /\ measured[g].sent.cum \in Nat /\ measured[g].rcvd.cum \in Nat
  BY DEF TestInv, Measurements, Totals
<1>5. OT!Conserved'
  <2>1. /\ counter'[f].rcvd = n /\ counter'[f].sent = counter[f].sent
        /\ wire'[f] = wire[f] - 1
        /\ \A g \in OT!Flows \ {f} : counter'[g] = counter[g] /\ wire'[g] = wire[g]
    BY <1>1, <1>3 DEF TestInv
  <2>2. \A g \in OT!Flows : counter[g].rcvd \in Nat /\ counter[g].sent \in Nat
    BY DEF TestInv, Counters
  <2>3. counter'[f].rcvd + wire'[f] = counter[f].rcvd + wire[f]
    BY <1>2, <2>1, <2>2
  <2>4. measured[f].rcvd.cum <= counter'[f].rcvd
    BY <1>4, <2>1, <2>2 DEF TestInv, OT!Conserved
  <2> HIDE DEF n
  <2> QED
    BY <1>1, <2>1, <2>3, <2>4 DEF TestInv, OT!Conserved
<1> QED
  BY <1>1, <1>2, <1>3, <1>5 DEF TestInv

LEMMA TestCollect == ASSUME TestInv, OT!CollectStep PROVE TestInv'
<1> DEFINE Out(f) == OT!Measured(measured[f].sent, counter[f].sent, send[f] # "none")
           In(f) == OT!Measured(measured[f].rcvd, counter[f].rcvd,
                                recv[f] \in {"loop", "exit"})
<1>1. /\ measured' = [f \in OT!Flows |-> [sent |-> Out(f), rcvd |-> In(f)]]
      /\ main[1] = "step" /\ main'[1] \in {"step", "finish"}
      /\ UNCHANGED <<go, send, wire, counter>>
  BY DEF OT!CollectStep
<1>2. ASSUME NEW f \in OT!Flows
      PROVE  /\ Out(f) \in Totals /\ Out(f).steps = Out(f).cum
             /\ Out(f).cum <= counter[f].sent
             /\ In(f) \in Totals /\ In(f).steps = In(f).cum
             /\ In(f).cum <= counter[f].rcvd
  <2>1. /\ measured[f].sent \in Totals /\ measured[f].rcvd \in Totals
        /\ counter[f].sent \in Nat /\ counter[f].rcvd \in Nat
    BY DEF TestInv, Measurements, Counters
  <2>2. (send[f] # "none") \in BOOLEAN /\ (recv[f] \in {"loop", "exit"}) \in BOOLEAN
    OBVIOUS
  <2>3. /\ measured[f].sent.steps = measured[f].sent.cum
        /\ measured[f].sent.cum <= counter[f].sent
        /\ measured[f].rcvd.steps = measured[f].rcvd.cum
        /\ measured[f].rcvd.cum <= counter[f].rcvd
    BY DEF TestInv, OT!Conserved
  <2> QED
    BY <2>1, <2>2, <2>3, MeasuredUp
<1> HIDE DEF Out, In
<1>3. \A f \in OT!Flows : measured'[f] \in Measurements
                           /\ measured'[f].sent = Out(f) /\ measured'[f].rcvd = In(f)
  BY <1>1, <1>2 DEF Measurements
<1>4. measured' \in [OT!Flows -> Measurements]
  BY <1>1, <1>2 DEF Measurements
<1>5. OT!Conserved'
  BY <1>1, <1>2, <1>3 DEF TestInv, OT!Conserved
<1> QED
  BY <1>1, <1>4, <1>5 DEF TestInv

\* Every step of the tester, by what it changes.
LEMMA TestStep == ASSUME TestInv, [OT!Next]_(OT!vars) PROVE TestInv'
<1>1. CASE UNCHANGED <<main, go, send, wire, counter, measured>>
  BY <1>1, TestControl DEF TestInv
<1>2. ASSUME NEW f \in OT!Flows, OT!InitFlow(f) PROVE TestInv'
  BY <1>2, TestControl DEF OT!InitFlow, TestInv, SendStates
<1>3. CASE OT!InitDone
  BY <1>3, TestControl DEF OT!InitDone, TestInv
<1>4. CASE OT!Go
  BY <1>4, TestControl DEF OT!Go, TestInv
<1>5. CASE OT!FinishJoins \/ OT!CollectorFinish \/ OT!Done
  BY <1>5, TestControl DEF OT!FinishJoins, OT!CollectorFinish, OT!Done, TestInv
<1>6. ASSUME NEW f \in OT!Flows, OT!SendName(f) \/ OT!SendWakes(f) \/ OT!SendExits(f)
      PROVE  TestInv'
  <2>1. CASE OT!SendName(f)
    BY <2>1, TestControl DEF OT!SendName, TestInv, SendStates
  <2>2. CASE OT!SendWakes(f)
    <3>1. f[1] \in OT!HostWorkers
      BY DEF OT!Flows
    <3> QED
      BY <2>2, <3>1, TestControl DEF OT!SendWakes, TestInv, SendStates
  <2>3. CASE OT!SendExits(f)
    BY <2>3, TestControl DEF OT!SendExits, TestInv, SendStates
  <2> QED
    BY <1>6, <2>1, <2>2, <2>3
<1>7. CASE OT!Run
  <2>1. OT!FinishLocks => UNCHANGED <<main, go, send, wire, counter, measured>>
    BY DEF OT!FinishLocks
  <2> QED
    BY <1>7, <1>1, <1>2, <1>3, <1>4, <1>5, <2>1, TestCollect DEF OT!Run
<1>8. ASSUME NEW f \in OT!Flows, OT!Sender(f) \/ OT!Receiver(f) \/ OT!Send(f) \/ OT!Recv(f)
      PROVE  TestInv'
  <2>1. OT!Receiver(f) => UNCHANGED <<main, go, send, wire, counter, measured>>
    BY DEF OT!Receiver, OT!RecvName, OT!RecvCounter, OT!RecvExits
  <2> QED
    BY <1>8, <1>1, <1>6, <2>1, TestSend, TestCounts, TestRecv DEF OT!Sender
<1>9. ASSUME NEW w \in OT!HostWorkers, OT!Acceptor(w)
      PROVE  UNCHANGED <<main, go, send, wire, counter, measured>>
  BY <1>9 DEF OT!Acceptor, OT!ServeExits, OT!Accept, OT!Push
<1>10. OT!CollectPeriodicReport \/ OT!PeriodPasses \/ UNCHANGED OT!vars
         => UNCHANGED <<main, go, send, wire, counter, measured>>
  BY DEF OT!CollectPeriodicReport, OT!PeriodPasses, OT!vars
<1> QED
  BY <1>1, <1>7, <1>8, <1>9, <1>10 DEF OT!Next

\* What the threads share stays whole, for any number of workers, groups,
\* tasks, keys, users, spans, hosts and steps: no task is lost or run twice
\* and WaitAll is a barrier; a reader of the map never misses an entry; and
\* the bytes of a test flow are neither lost nor invented.
THEOREM ThreadsAreSafe == MCSpec => []ThreadsInv
<1>1. MCInit => EX!Init /\ PM!Init /\ OT!Init
  BY DEF MCInit
<1>2. [MCNext]_AllVars => [EX!Next]_(EX!vars)
  BY DEF MCNext, AllVars, EX!vars, executorVars
<1>3. [MCNext]_AllVars => [PM!Next]_(PM!vars)
  BY DEF MCNext, AllVars, PM!vars, mapVars
<1>4. [MCNext]_AllVars => [OT!Next]_(OT!vars)
  BY DEF MCNext, AllVars, OT!vars, ostesterVars
<1>5. EX!Spec => []EX!PoolInv
  BY ClusterAssumption, EX!NoTaskIsLost
<1>6. PM!Spec => []PM!MapInv
  BY ClusterAssumption, PM!ReadersAreSafe DEF PM!MapAssumption, PM!Free
<1>7. OT!Spec => []TestInv
  BY TestInit, TestStep, PTL DEF OT!Spec
<1>8. EX!PoolInv /\ PM!MapInv /\ TestInv => ThreadsInv
  BY DEF ThreadsInv, TestInv
<1> QED
  BY <1>1, <1>2, <1>3, <1>4, <1>5, <1>6, <1>7, <1>8, PTL DEF MCSpec, EX!Spec, PM!Spec, OT!Spec
==============================================================================
