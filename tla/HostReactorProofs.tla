-------------------------- MODULE HostReactorProofs -------------------------
(* Proofs about HostReactor, for any number of connections, infos and      *)
(* broadcasts.                                                             *)
EXTENDS HostReactor, TLAPS

\* The read side: a read is outstanding or OnReadDone runs, not both, and only
\* while the stream is open; mu_ is held across steps only by OnReadDone.
ReadInv ==
    \A r \in Reactors :
        /\ rpc[r] # "idle" => readOp[r] = "none"
        /\ (rpc[r] # "idle" \/ readOp[r] = "pending") => phase[r] = "open"
        /\ rpc[r] \in {"register", "assign"} => lis[r] = 0

\* The write side: while OnWriteDone runs wip_write_ is set and gRPC has no
\* write of this reactor.
WriteInv ==
    \A r \in Reactors :
        wpc[r] # "idle" => (wip_write[r] /\ writeOp[r] = "none")

\* Each side of a reactor that may call Finish does so at most once, and stays
\* dead after it: no read is started again, and wip_write_ stays set.
WriteDead(r) ==
    wip_write[r] /\ writeOp[r] = "none" /\ wpc[r] \in {"set", "clear", "unregister", "idle"}

ReadDead(r) == phase[r] # "new" /\ readOp[r] = "none" /\ rpc[r] = "idle"

FinishInv ==
    \A r \in Reactors :
        /\ finishCalls[r] <= (IF WriteDead(r) THEN 1 ELSE 0) + (IF ReadDead(r) THEN 1 ELSE 0)
        /\ finishCalls[r] > 0 => (finished[r] \/ wpc[r] = "set")

\* A callback the controller holds belongs to lis_, to the listener being
\* destroyed, or to the one RegisterListener returned last.
ListenerInv ==
    /\ nextLis > 0
    /\ cpc = "idle" => todo = {}
    /\ \A r \in Reactors : doomed[r] # 0 => wpc[r] = "unregister"
    /\ \A l \in listeners :
         /\ 0 < l[2] /\ l[2] < nextLis
         /\ phase[l[1]] # "deleted"
         /\ \/ l[2] = lis[l[1]] \/ l[2] = doomed[l[1]]
            \/ /\ rpc[l[1]] = "assign"
               /\ \A k \in listeners : k[1] = l[1] => k[2] <= l[2]

\* Allocations only grow on their way from the control loop to the host.
OrderOf(r) ==
    /\ written[r] <= version
    /\ \A b \in {1, 2} : buf[r][b] <= version
    /\ writeOp[r] = "pending" => written[r] <= buf[r][3 - staged[r]]
    /\ has_staged[r] => /\ written[r] <= buf[r][staged[r]]
                        /\ buf[r][3 - staged[r]] <= buf[r][staged[r]]

OrderInv == \A r \in Reactors : OrderOf(r)

IInv == ReactorInv /\ ReadInv /\ WriteInv /\ FinishInv /\ ListenerInv /\ OrderInv
-----------------------------------------------------------------------------
\* The steps of one reactor and its connection.
ReactorStep(r) ==
    \/ Connect(r) \/ Break(r) \/ ReadOk(r) \/ ReadFails(r) \/ WriteCompletes(r)
    \/ OnWriteStep(r) \/ OnReadStep(r) \/ OnDone(r)

\* A callback is called for a reactor.
LEMMA CallTarget == ASSUME IInv, NEW l \in todo PROVE l[1] \in Reactors /\ l \in listeners
  BY DEF IInv, ReactorInv, TypeOK

\* Every step keeps every variable in its type; Finish is called at most twice.
LEMMA TypeOKStep == IInv /\ [Next]_vars => TypeOK'
  <1> SUFFICES ASSUME IInv, [Next]_vars PROVE TypeOK'
    OBVIOUS
  <1>a. TypeOK
    BY DEF IInv, ReactorInv
  <1>b. \A q \in Reactors : 3 - staged[q] \in {1, 2}
    BY <1>a DEF TypeOK
  <1>c. MaxInfos \in Nat /\ MaxBroadcasts \in Nat
    BY MaxInfosAssumption, MaxBroadcastsAssumption
  <1> USE <1>a, <1>b, <1>c DEF TypeOK, rvars, wvars, lvars, fvars, cvars
  <1>1. ASSUME NEW r \in Reactors, ReactorStep(r) PROVE TypeOK'
    <2>1. CASE ReadOk(r)
      BY <2>1 DEF ReadOk
    <2>2. CASE WriteCompletes(r)
      <3>1. buf[r][3 - staged[r]] \in 0 .. MaxBroadcasts
        OBVIOUS
      <3>2. written' \in [Reactors -> 0 .. MaxBroadcasts]
        BY <2>2, <3>1 DEF WriteCompletes
      <3> QED
        BY <2>2, <3>2, Zenon DEF WriteCompletes
    <2>3. CASE OnWriteDone(r)
      <3>1. buf[r][staged[r]] \in 0 .. MaxBroadcasts
        BY SMTT(30)
      <3>2. CASE has_staged[r] /\ ~finished[r]
        <4>1. buf' = buf /\ inFlight' \in [Reactors -> 0 .. MaxBroadcasts]
          BY <2>3, <3>1, <3>2, ZenonT(40) DEF OnWriteDone, SendAlloc
        <4>2. staged' \in [Reactors -> {1, 2}]
          BY <2>3, <3>2 DEF OnWriteDone, SendAlloc
        <4>3. /\ has_staged' = [has_staged EXCEPT ![r] = FALSE]
              /\ wip_write' = [wip_write EXCEPT ![r] = TRUE]
              /\ writeOp' = [writeOp EXCEPT ![r] = "pending"]
              /\ wpc' = [wpc EXCEPT ![r] = "idle"]
          BY <2>3, <3>2 DEF OnWriteDone, SendAlloc
        <4> QED
          BY <2>3, <4>1, <4>2, <4>3 DEF OnWriteDone
      <3>3. CASE ~(has_staged[r] /\ ~finished[r])
        BY <2>3, <3>3, Zenon DEF OnWriteDone
      <3> QED
        BY <3>2, <3>3
    <2>4. CASE OnWriteFailedFinish(r)
      <3>1. ~WriteDead(r) /\ finishCalls[r] \in Nat
        BY <2>4 DEF WriteDead, OnWriteFailedFinish
      <3>2. finishCalls[r] + 1 \in 0 .. 2
        BY <3>1 DEF IInv, FinishInv
      <3> QED
        BY <2>4, <3>2 DEF OnWriteFailedFinish
    <2>5. CASE OnReadDoneFinish(r)
      <3>1. ~ReadDead(r) /\ finishCalls[r] \in Nat
        BY <2>5, SMTT(30) DEF ReadDead, OnReadDoneFinish
      <3>2. finishCalls[r] + 1 \in 0 .. 2
        BY <3>1 DEF IInv, FinishInv
      <3> QED
        BY <2>5, <3>2 DEF OnReadDoneFinish
    <2>6. CASE OnWriteFailedUnregister(r)
      <3>1. todo \subseteq listeners'
        BY <2>6 DEF IInv, ListenerInv, OnWriteFailedUnregister
      <3> QED
        BY <2>6, <3>1 DEF OnWriteFailedUnregister
    <2>7. CASE OnDone(r)
      <3>1. todo \subseteq listeners'
        BY <2>7 DEF IInv, ListenerInv, OnDone
      <3> QED
        BY <2>7, <3>1 DEF OnDone
    <2>8. CASE OnReadDoneRegister(r)
      BY <2>8 DEF OnReadDoneRegister
    <2>9. CASE OnReadDoneAssign(r)
      BY <2>9 DEF OnReadDoneAssign
    <2>10. CASE OnReadDoneCheck(r)
      <3>1. \E x \in {"idle", "finish", "register", "update"} : rpc' = [rpc EXCEPT ![r] = x]
        BY <2>10 DEF OnReadDoneCheck
      <3>2. mu' \in [Reactors -> {"free", "read"}]
        BY <2>10 DEF OnReadDoneCheck
      <3>3. rpc' \in [Reactors -> {"idle", "ok", "failed", "finish", "register", "assign",
                                 "relock", "update"}]
        BY <3>1
      <3> QED
        BY <2>10, <3>2, <3>3 DEF OnReadDoneCheck
    <2>11. CASE OnReadDoneUpdate(r)
      BY <2>11 DEF OnReadDoneUpdate
    <2>12. CASE OnWriteFailedCheck(r)
      BY <2>12 DEF OnWriteFailedCheck
    <2>13. CASE Connect(r)
      BY <2>13 DEF Connect
    <2>14. CASE ReadFails(r)
      BY <2>14 DEF ReadFails
    <2>15. CASE OnWriteFailedSet(r)
      BY <2>15 DEF OnWriteFailedSet
    <2>16. CASE OnWriteFailedClear(r)
      BY <2>16 DEF OnWriteFailedClear
    <2>17. CASE OnReadDoneRelock(r)
      BY <2>17 DEF OnReadDoneRelock
    <2>18. CASE Break(r)
      BY <2>18 DEF Break
    <2> QED
      BY <1>1, <2>1, <2>2, <2>3, <2>4, <2>5, <2>6, <2>7, <2>8, <2>9, <2>10, <2>11, <2>12, <2>13, <2>14, <2>15, <2>16, <2>17, <2>18 DEF ReactorStep, OnWriteStep, OnReadStep
  <1>2. CASE BroadcastStart
    BY <1>2 DEF BroadcastStart
  <1>3. ASSUME NEW l \in todo, BroadcastCall(l) PROVE TypeOK'
    <2> DEFINE q == l[1]
               b == [buf[q] EXCEPT ![staged[q]] = version]
    <2>0. q \in Reactors
      BY CallTarget
    <2>1. b \in [{1, 2} -> 0 .. MaxBroadcasts] /\ b[staged[q]] = version
      BY <2>0
    <2>2. buf' = [buf EXCEPT ![q] = b]
      BY <1>3, <2>0 DEF BroadcastCall, UpdateAlloc, SendAlloc
    <2>3. buf' \in [Reactors -> [{1, 2} -> 0 .. MaxBroadcasts]]
      BY <2>0, <2>1, <2>2
    <2>4. CASE ~wip_write[q] /\ ~finished[q]
      <3>1. inFlight' = [inFlight EXCEPT ![q] = version] /\ staged' = [staged EXCEPT ![q] = 3 - @]
        BY <1>3, <2>0, <2>1, <2>4 DEF BroadcastCall, UpdateAlloc, SendAlloc
      <3>2. inFlight' \in [Reactors -> 0 .. MaxBroadcasts] /\ staged' \in [Reactors -> {1, 2}]
        BY <2>0, <3>1
      <3> QED
        BY <1>3, <2>0, <2>3, <2>4, <3>2, ZenonT(40) DEF BroadcastCall, UpdateAlloc, SendAlloc
    <2>5. CASE ~(~wip_write[q] /\ ~finished[q])
      BY <1>3, <2>0, <2>3, <2>5, ZenonT(40) DEF BroadcastCall, UpdateAlloc
    <2> QED
      BY <2>4, <2>5
  <1>4. CASE BroadcastEnd
    BY <1>4 DEF BroadcastEnd
  <1>5. CASE UNCHANGED vars
    BY <1>5 DEF vars
  <1> QED
    BY <1>1, <1>2, <1>3, <1>4, <1>5 DEF Next, ReactorStep, BroadcastStep

\* UpdateAlloc and OnWriteDone leave the buffer gRPC writes from alone.
LEMMA InFlightStableStep == IInv /\ [Next]_vars => InFlightStable'
  <1> SUFFICES ASSUME IInv, [Next]_vars PROVE InFlightStable'
    OBVIOUS
  <1>a. InFlightStable
    BY DEF IInv, ReactorInv
  <1>b. /\ buf \in [Reactors -> [{1, 2} -> 0 .. MaxBroadcasts]] /\ staged \in [Reactors -> {1, 2}]
        /\ \A q \in Reactors : 3 - staged[q] \in {1, 2} /\ 3 - staged[q] # staged[q]
    BY DEF IInv, ReactorInv, TypeOK
  <1>c. \A q \in Reactors : writeOp[q] \in {"none", "pending"} /\ wip_write[q] \in BOOLEAN
        /\ writeOp \in [Reactors -> {"none", "pending"}] /\ inFlight \in [Reactors -> 0 .. MaxBroadcasts]
    BY DEF IInv, ReactorInv, TypeOK
  <1> USE <1>a, <1>b, <1>c DEF InFlightStable, rvars, wvars, lvars, fvars, cvars
  <1>1. ASSUME NEW r \in Reactors, ReactorStep(r) PROVE InFlightStable'
    <2>1. CASE WriteCompletes(r)
      BY <2>1 DEF WriteCompletes
    <2>2. CASE OnWriteDone(r)
      <3>1. CASE has_staged[r] /\ ~finished[r]
        BY <2>2, <3>1 DEF OnWriteDone, SendAlloc
      <3>2. CASE ~(has_staged[r] /\ ~finished[r])
        BY <2>2, <3>2 DEF OnWriteDone, SendAlloc
      <3> QED
        BY <3>1, <3>2
    <2>3. CASE Connect(r) \/ Break(r) \/ ReadOk(r) \/ ReadFails(r) \/
                OnWriteFailedCheck(r) \/ OnWriteFailedFinish(r) \/
                OnWriteFailedSet(r) \/ OnWriteFailedClear(r) \/
                OnWriteFailedUnregister(r) \/ OnReadDoneCheck(r) \/
                OnReadDoneFinish(r) \/ OnReadDoneRegister(r) \/
                OnReadDoneAssign(r) \/ OnReadDoneRelock(r) \/
                OnReadDoneUpdate(r) \/ OnDone(r)
      <3>1. CASE Connect(r)
        BY <3>1 DEF Connect
      <3>2. CASE Break(r)
        BY <3>2 DEF Break
      <3>3. CASE ReadOk(r)
        BY <3>3 DEF ReadOk
      <3>4. CASE ReadFails(r)
        BY <3>4 DEF ReadFails
      <3>5. CASE OnWriteFailedCheck(r)
        BY <3>5 DEF OnWriteFailedCheck
      <3>6. CASE OnWriteFailedFinish(r)
        BY <3>6 DEF OnWriteFailedFinish
      <3>7. CASE OnWriteFailedSet(r)
        BY <3>7 DEF OnWriteFailedSet
      <3>8. CASE OnWriteFailedClear(r)
        BY <3>8 DEF OnWriteFailedClear
      <3>9. CASE OnWriteFailedUnregister(r)
        BY <3>9 DEF OnWriteFailedUnregister
      <3>10. CASE OnReadDoneCheck(r)
        BY <3>10 DEF OnReadDoneCheck
      <3>11. CASE OnReadDoneFinish(r)
        BY <3>11 DEF OnReadDoneFinish
      <3>12. CASE OnReadDoneRegister(r)
        BY <3>12 DEF OnReadDoneRegister
      <3>13. CASE OnReadDoneAssign(r)
        BY <3>13 DEF OnReadDoneAssign
      <3>14. CASE OnReadDoneRelock(r)
        BY <3>14 DEF OnReadDoneRelock
      <3>15. CASE OnReadDoneUpdate(r)
        BY <3>15 DEF OnReadDoneUpdate
      <3>16. CASE OnDone(r)
        BY <3>16 DEF OnDone
      <3> QED
        BY <2>3, <3>1, <3>2, <3>3, <3>4, <3>5, <3>6, <3>7, <3>8, <3>9, <3>10, <3>11, <3>12, <3>13, <3>14, <3>15, <3>16
    <2> QED
      BY <1>1, <2>1, <2>2, <2>3 DEF ReactorStep, OnWriteStep, OnReadStep
  <1>2. CASE BroadcastStart
    BY <1>2 DEF BroadcastStart
  <1>3. ASSUME NEW l \in todo, BroadcastCall(l) PROVE InFlightStable'
    <2> DEFINE q == l[1]
    <2>0. q \in Reactors
      BY CallTarget
    <2>1. CASE ~wip_write[q] /\ ~finished[q]
      BY <1>3, <2>0, <2>1 DEF BroadcastCall, UpdateAlloc, SendAlloc
    <2>2. CASE wip_write[q] \/ finished[q]
      BY <1>3, <2>0, <2>2 DEF BroadcastCall, UpdateAlloc
    <2> QED
      BY <2>0, <2>1, <2>2
  <1>4. CASE BroadcastEnd
    BY <1>4 DEF BroadcastEnd
  <1>5. CASE UNCHANGED vars
    BY <1>5 DEF vars
  <1> QED
    BY <1>1, <1>2, <1>3, <1>4, <1>5 DEF Next, ReactorStep, BroadcastStep

\* No write is started while one is outstanding.
LEMMA OneWriteStep == IInv /\ [Next]_vars => OneWrite'
  <1> SUFFICES ASSUME IInv, [Next]_vars PROVE OneWrite'
    OBVIOUS
  <1>a. TypeOK /\ OneWrite /\ WriteInv
    BY DEF IInv, ReactorInv
  <1> USE <1>a DEF TypeOK, OneWrite, WriteInv, rvars, wvars, lvars, fvars, cvars
  <1>1. ASSUME NEW r \in Reactors, ReactorStep(r) PROVE OneWrite'
    <2>1. CASE WriteCompletes(r)
      BY <2>1 DEF WriteCompletes
    <2>2. CASE OnWriteDone(r)
      <3>1. CASE has_staged[r] /\ ~finished[r]
        BY <2>2, <3>1 DEF OnWriteDone, SendAlloc
      <3>2. CASE ~(has_staged[r] /\ ~finished[r])
        BY <2>2, <3>2 DEF OnWriteDone, SendAlloc
      <3> QED
        BY <3>1, <3>2
    <2>3. CASE Connect(r) \/ Break(r) \/ ReadOk(r) \/ ReadFails(r) \/
                OnWriteFailedCheck(r) \/ OnWriteFailedFinish(r) \/
                OnWriteFailedSet(r) \/ OnWriteFailedClear(r) \/
                OnWriteFailedUnregister(r) \/ OnReadDoneCheck(r) \/
                OnReadDoneFinish(r) \/ OnReadDoneRegister(r) \/
                OnReadDoneAssign(r) \/ OnReadDoneRelock(r) \/
                OnReadDoneUpdate(r) \/ OnDone(r)
      <3>1. CASE Connect(r)
        BY <3>1 DEF Connect
      <3>2. CASE Break(r)
        BY <3>2 DEF Break
      <3>3. CASE ReadOk(r)
        BY <3>3 DEF ReadOk
      <3>4. CASE ReadFails(r)
        BY <3>4 DEF ReadFails
      <3>5. CASE OnWriteFailedCheck(r)
        BY <3>5 DEF OnWriteFailedCheck
      <3>6. CASE OnWriteFailedFinish(r)
        BY <3>6 DEF OnWriteFailedFinish
      <3>7. CASE OnWriteFailedSet(r)
        BY <3>7 DEF OnWriteFailedSet
      <3>8. CASE OnWriteFailedClear(r)
        BY <3>8 DEF OnWriteFailedClear
      <3>9. CASE OnWriteFailedUnregister(r)
        BY <3>9 DEF OnWriteFailedUnregister
      <3>10. CASE OnReadDoneCheck(r)
        BY <3>10 DEF OnReadDoneCheck
      <3>11. CASE OnReadDoneFinish(r)
        BY <3>11 DEF OnReadDoneFinish
      <3>12. CASE OnReadDoneRegister(r)
        BY <3>12 DEF OnReadDoneRegister
      <3>13. CASE OnReadDoneAssign(r)
        BY <3>13 DEF OnReadDoneAssign
      <3>14. CASE OnReadDoneRelock(r)
        BY <3>14 DEF OnReadDoneRelock
      <3>15. CASE OnReadDoneUpdate(r)
        BY <3>15 DEF OnReadDoneUpdate
      <3>16. CASE OnDone(r)
        BY <3>16 DEF OnDone
      <3> QED
        BY <2>3, <3>1, <3>2, <3>3, <3>4, <3>5, <3>6, <3>7, <3>8, <3>9, <3>10, <3>11, <3>12, <3>13, <3>14, <3>15, <3>16
    <2> QED
      BY <1>1, <2>1, <2>2, <2>3 DEF ReactorStep, OnWriteStep, OnReadStep
  <1>2. CASE BroadcastStart
    BY <1>2 DEF BroadcastStart
  <1>3. ASSUME NEW l \in todo, BroadcastCall(l) PROVE OneWrite'
    <2> DEFINE q == l[1]
    <2>0. q \in Reactors
      BY CallTarget
    <2>1. CASE ~wip_write[q] /\ ~finished[q]
      BY <1>3, <2>0, <2>1 DEF BroadcastCall, UpdateAlloc, SendAlloc
    <2>2. CASE wip_write[q] \/ finished[q]
      BY <1>3, <2>0, <2>2 DEF BroadcastCall, UpdateAlloc
    <2> QED
      BY <2>0, <2>1, <2>2
  <1>4. CASE BroadcastEnd
    BY <1>4 DEF BroadcastEnd
  <1>5. CASE UNCHANGED vars
    BY <1>5 DEF vars
  <1> QED
    BY <1>1, <1>2, <1>3, <1>4, <1>5 DEF Next, ReactorStep, BroadcastStep

\* While OnWriteDone runs, gRPC has no write of this reactor.
LEMMA WriteInvStep == IInv /\ [Next]_vars => WriteInv'
  <1> SUFFICES ASSUME IInv, [Next]_vars PROVE WriteInv'
    OBVIOUS
  <1>a. TypeOK /\ OneWrite /\ WriteInv
    BY DEF IInv, ReactorInv
  <1> USE <1>a DEF TypeOK, OneWrite, WriteInv, rvars, wvars, lvars, fvars, cvars
  <1>1. ASSUME NEW r \in Reactors, ReactorStep(r) PROVE WriteInv'
    <2>1. CASE WriteCompletes(r)
      BY <2>1 DEF WriteCompletes
    <2>2. CASE OnWriteDone(r)
      <3>1. CASE has_staged[r] /\ ~finished[r]
        BY <2>2, <3>1 DEF OnWriteDone, SendAlloc
      <3>2. CASE ~(has_staged[r] /\ ~finished[r])
        BY <2>2, <3>2 DEF OnWriteDone, SendAlloc
      <3> QED
        BY <3>1, <3>2
    <2>3. CASE Connect(r) \/ Break(r) \/ ReadOk(r) \/ ReadFails(r) \/
                OnWriteFailedCheck(r) \/ OnWriteFailedFinish(r) \/
                OnWriteFailedSet(r) \/ OnWriteFailedClear(r) \/
                OnWriteFailedUnregister(r) \/ OnReadDoneCheck(r) \/
                OnReadDoneFinish(r) \/ OnReadDoneRegister(r) \/
                OnReadDoneAssign(r) \/ OnReadDoneRelock(r) \/
                OnReadDoneUpdate(r) \/ OnDone(r)
      <3>1. CASE Connect(r)
        BY <3>1 DEF Connect
      <3>2. CASE Break(r)
        BY <3>2 DEF Break
      <3>3. CASE ReadOk(r)
        BY <3>3 DEF ReadOk
      <3>4. CASE ReadFails(r)
        BY <3>4 DEF ReadFails
      <3>5. CASE OnWriteFailedCheck(r)
        BY <3>5 DEF OnWriteFailedCheck
      <3>6. CASE OnWriteFailedFinish(r)
        BY <3>6 DEF OnWriteFailedFinish
      <3>7. CASE OnWriteFailedSet(r)
        BY <3>7 DEF OnWriteFailedSet
      <3>8. CASE OnWriteFailedClear(r)
        BY <3>8 DEF OnWriteFailedClear
      <3>9. CASE OnWriteFailedUnregister(r)
        BY <3>9 DEF OnWriteFailedUnregister
      <3>10. CASE OnReadDoneCheck(r)
        BY <3>10 DEF OnReadDoneCheck
      <3>11. CASE OnReadDoneFinish(r)
        BY <3>11 DEF OnReadDoneFinish
      <3>12. CASE OnReadDoneRegister(r)
        BY <3>12 DEF OnReadDoneRegister
      <3>13. CASE OnReadDoneAssign(r)
        BY <3>13 DEF OnReadDoneAssign
      <3>14. CASE OnReadDoneRelock(r)
        BY <3>14 DEF OnReadDoneRelock
      <3>15. CASE OnReadDoneUpdate(r)
        BY <3>15 DEF OnReadDoneUpdate
      <3>16. CASE OnDone(r)
        BY <3>16 DEF OnDone
      <3> QED
        BY <2>3, <3>1, <3>2, <3>3, <3>4, <3>5, <3>6, <3>7, <3>8, <3>9, <3>10, <3>11, <3>12, <3>13, <3>14, <3>15, <3>16
    <2> QED
      BY <1>1, <2>1, <2>2, <2>3 DEF ReactorStep, OnWriteStep, OnReadStep
  <1>2. CASE BroadcastStart
    BY <1>2 DEF BroadcastStart
  <1>3. ASSUME NEW l \in todo, BroadcastCall(l) PROVE WriteInv'
    <2> DEFINE q == l[1]
    <2>0. q \in Reactors
      BY CallTarget
    <2>1. CASE ~wip_write[q] /\ ~finished[q]
      BY <1>3, <2>0, <2>1 DEF BroadcastCall, UpdateAlloc, SendAlloc
    <2>2. CASE wip_write[q] \/ finished[q]
      BY <1>3, <2>0, <2>2 DEF BroadcastCall, UpdateAlloc
    <2> QED
      BY <2>0, <2>1, <2>2
  <1>4. CASE BroadcastEnd
    BY <1>4 DEF BroadcastEnd
  <1>5. CASE UNCHANGED vars
    BY <1>5 DEF vars
  <1> QED
    BY <1>1, <1>2, <1>3, <1>4, <1>5 DEF Next, ReactorStep, BroadcastStep

\* What is staged has a write ahead of it.
LEMMA NothingStrandedStep == IInv /\ [Next]_vars => NothingStranded'
  <1> SUFFICES ASSUME IInv, [Next]_vars PROVE NothingStranded'
    OBVIOUS
  <1>a. TypeOK /\ NothingStranded
    BY DEF IInv, ReactorInv
  <1> USE <1>a DEF TypeOK, NothingStranded, rvars, wvars, lvars, fvars, cvars
  <1>1. ASSUME NEW r \in Reactors, ReactorStep(r) PROVE NothingStranded'
    <2>1. CASE OnWriteDone(r)
      <3>1. CASE has_staged[r] /\ ~finished[r]
        BY <2>1, <3>1 DEF OnWriteDone, SendAlloc
      <3>2. CASE ~(has_staged[r] /\ ~finished[r])
        BY <2>1, <3>2 DEF OnWriteDone, SendAlloc
      <3> QED
        BY <3>1, <3>2
    <2>2. CASE Connect(r) \/ Break(r) \/ ReadOk(r) \/ ReadFails(r) \/
                WriteCompletes(r) \/ OnWriteFailedCheck(r) \/
                OnWriteFailedFinish(r) \/ OnWriteFailedSet(r) \/
                OnWriteFailedClear(r) \/ OnWriteFailedUnregister(r) \/
                OnReadDoneCheck(r) \/ OnReadDoneFinish(r) \/
                OnReadDoneRegister(r) \/ OnReadDoneAssign(r) \/
                OnReadDoneRelock(r) \/ OnReadDoneUpdate(r) \/ OnDone(r)
      <3>1. CASE Connect(r)
        BY <3>1 DEF Connect
      <3>2. CASE Break(r)
        BY <3>2 DEF Break
      <3>3. CASE ReadOk(r)
        BY <3>3 DEF ReadOk
      <3>4. CASE ReadFails(r)
        BY <3>4 DEF ReadFails
      <3>5. CASE WriteCompletes(r)
        BY <3>5 DEF WriteCompletes
      <3>6. CASE OnWriteFailedCheck(r)
        BY <3>6 DEF OnWriteFailedCheck
      <3>7. CASE OnWriteFailedFinish(r)
        BY <3>7 DEF OnWriteFailedFinish
      <3>8. CASE OnWriteFailedSet(r)
        BY <3>8 DEF OnWriteFailedSet
      <3>9. CASE OnWriteFailedClear(r)
        BY <3>9 DEF OnWriteFailedClear
      <3>10. CASE OnWriteFailedUnregister(r)
        BY <3>10 DEF OnWriteFailedUnregister
      <3>11. CASE OnReadDoneCheck(r)
        BY <3>11 DEF OnReadDoneCheck
      <3>12. CASE OnReadDoneFinish(r)
        BY <3>12 DEF OnReadDoneFinish
      <3>13. CASE OnReadDoneRegister(r)
        BY <3>13 DEF OnReadDoneRegister
      <3>14. CASE OnReadDoneAssign(r)
        BY <3>14 DEF OnReadDoneAssign
      <3>15. CASE OnReadDoneRelock(r)
        BY <3>15 DEF OnReadDoneRelock
      <3>16. CASE OnReadDoneUpdate(r)
        BY <3>16 DEF OnReadDoneUpdate
      <3>17. CASE OnDone(r)
        BY <3>17 DEF OnDone
      <3> QED
        BY <2>2, <3>1, <3>2, <3>3, <3>4, <3>5, <3>6, <3>7, <3>8, <3>9, <3>10, <3>11, <3>12, <3>13, <3>14, <3>15, <3>16, <3>17
    <2> QED
      BY <1>1, <2>1, <2>2 DEF ReactorStep, OnWriteStep, OnReadStep
  <1>2. CASE BroadcastStart
    BY <1>2 DEF BroadcastStart
  <1>3. ASSUME NEW l \in todo, BroadcastCall(l) PROVE NothingStranded'
    <2> DEFINE q == l[1]
    <2>0. q \in Reactors
      BY CallTarget
    <2>1. CASE ~wip_write[q] /\ ~finished[q]
      BY <1>3, <2>0, <2>1 DEF BroadcastCall, UpdateAlloc, SendAlloc
    <2>2. CASE wip_write[q] \/ finished[q]
      BY <1>3, <2>0, <2>2 DEF BroadcastCall, UpdateAlloc
    <2> QED
      BY <2>0, <2>1, <2>2
  <1>4. CASE BroadcastEnd
    BY <1>4 DEF BroadcastEnd
  <1>5. CASE UNCHANGED vars
    BY <1>5 DEF vars
  <1> QED
    BY <1>1, <1>2, <1>3, <1>4, <1>5 DEF Next, ReactorStep, BroadcastStep

\* The read side stays in step with gRPC's read.
LEMMA ReadInvStep == IInv /\ [Next]_vars => ReadInv'
  <1> SUFFICES ASSUME IInv, [Next]_vars PROVE ReadInv'
    OBVIOUS
  <1>a. TypeOK /\ ReadInv
    BY DEF IInv, ReactorInv
  <1> USE <1>a DEF TypeOK, ReadInv, rvars, wvars, lvars, fvars, cvars
  <1>1. ASSUME NEW r \in Reactors, ReactorStep(r) PROVE ReadInv'
    <2>1. CASE OnDone(r)
      BY <2>1 DEF OnDone
    <2>2. CASE Connect(r) \/ Break(r) \/ ReadOk(r) \/ ReadFails(r) \/
                WriteCompletes(r) \/ OnWriteDone(r) \/ OnWriteFailedCheck(r) \/
                OnWriteFailedFinish(r) \/ OnWriteFailedSet(r) \/
                OnWriteFailedClear(r) \/ OnWriteFailedUnregister(r) \/
                OnReadDoneCheck(r) \/ OnReadDoneFinish(r) \/
                OnReadDoneRegister(r) \/ OnReadDoneAssign(r) \/
                OnReadDoneRelock(r) \/ OnReadDoneUpdate(r)
      <3>1. CASE Connect(r)
        BY <3>1 DEF Connect
      <3>2. CASE Break(r)
        BY <3>2 DEF Break
      <3>3. CASE ReadOk(r)
        BY <3>3 DEF ReadOk
      <3>4. CASE ReadFails(r)
        BY <3>4 DEF ReadFails
      <3>5. CASE WriteCompletes(r)
        BY <3>5 DEF WriteCompletes
      <3>6. CASE OnWriteDone(r)
        BY <3>6 DEF OnWriteDone
      <3>7. CASE OnWriteFailedCheck(r)
        BY <3>7 DEF OnWriteFailedCheck
      <3>8. CASE OnWriteFailedFinish(r)
        BY <3>8 DEF OnWriteFailedFinish
      <3>9. CASE OnWriteFailedSet(r)
        BY <3>9 DEF OnWriteFailedSet
      <3>10. CASE OnWriteFailedClear(r)
        BY <3>10 DEF OnWriteFailedClear
      <3>11. CASE OnWriteFailedUnregister(r)
        BY <3>11 DEF OnWriteFailedUnregister
      <3>12. CASE OnReadDoneCheck(r)
        BY <3>12 DEF OnReadDoneCheck
      <3>13. CASE OnReadDoneFinish(r)
        BY <3>13 DEF OnReadDoneFinish
      <3>14. CASE OnReadDoneRegister(r)
        BY <3>14 DEF OnReadDoneRegister
      <3>15. CASE OnReadDoneAssign(r)
        BY <3>15 DEF OnReadDoneAssign
      <3>16. CASE OnReadDoneRelock(r)
        BY <3>16 DEF OnReadDoneRelock
      <3>17. CASE OnReadDoneUpdate(r)
        BY <3>17 DEF OnReadDoneUpdate
      <3> QED
        BY <2>2, <3>1, <3>2, <3>3, <3>4, <3>5, <3>6, <3>7, <3>8, <3>9, <3>10, <3>11, <3>12, <3>13, <3>14, <3>15, <3>16, <3>17
    <2> QED
      BY <1>1, <2>1, <2>2 DEF ReactorStep, OnWriteStep, OnReadStep
  <1>2. CASE BroadcastStart
    BY <1>2 DEF BroadcastStart
  <1>3. ASSUME NEW l \in todo, BroadcastCall(l) PROVE ReadInv'
    BY <1>3, CallTarget DEF BroadcastCall, UpdateAlloc, SendAlloc
  <1>4. CASE BroadcastEnd
    BY <1>4 DEF BroadcastEnd
  <1>5. CASE UNCHANGED vars
    BY <1>5 DEF vars
  <1> QED
    BY <1>1, <1>2, <1>3, <1>4, <1>5 DEF Next, ReactorStep, BroadcastStep

\* Each side calls Finish at most once.
LEMMA FinishInvStep == IInv /\ [Next]_vars => FinishInv'
  <1> SUFFICES ASSUME IInv, [Next]_vars PROVE FinishInv'
    OBVIOUS
  <1>a. TypeOK /\ FinishInv /\ ReadInv /\ WriteInv /\ OneWrite
    BY DEF IInv, ReactorInv
  <1> USE <1>a DEF TypeOK, FinishInv, ReadInv, WriteInv, OneWrite, WriteDead, ReadDead, rvars, wvars, lvars, fvars, cvars
  <1>1. ASSUME NEW r \in Reactors, ReactorStep(r) PROVE FinishInv'
    <2>1. CASE WriteCompletes(r)
      BY <2>1 DEF WriteCompletes
    <2>2. CASE OnWriteFailedCheck(r)
      BY <2>2, SMTT(30) DEF OnWriteFailedCheck
    <2>3. CASE OnWriteFailedFinish(r)
      <3>1. ~WriteDead(r) /\ WriteDead(r)' /\ wpc'[r] = "set"
        BY <2>3, SMTT(30) DEF OnWriteFailedFinish
      <3>2. /\ \A q \in Reactors : ReadDead(q)' = ReadDead(q)
            /\ \A q \in Reactors \ {r} : WriteDead(q)' = WriteDead(q) /\ wpc'[q] = wpc[q]
        BY <2>3, SMTT(30) DEF OnWriteFailedFinish
      <3>3. finishCalls' = [finishCalls EXCEPT ![r] = @ + 1] /\ finished' = finished
        BY <2>3 DEF OnWriteFailedFinish
      <3> HIDE DEF WriteDead, ReadDead
      <3> QED
        BY <3>1, <3>2, <3>3, SMTT(30)
    <2>4. CASE OnWriteFailedSet(r)
      BY <2>4 DEF OnWriteFailedSet
    <2>5. CASE OnReadDoneCheck(r)
      BY <2>5, SMTT(30) DEF OnReadDoneCheck
    <2>6. CASE OnReadDoneFinish(r)
      BY <2>6, SMTT(30) DEF OnReadDoneFinish
    <2>7. CASE OnReadDoneUpdate(r)
      BY <2>7 DEF OnReadDoneUpdate
    <2>8. CASE Connect(r)
      BY <2>8 DEF Connect
    <2>9. CASE OnDone(r)
      BY <2>9 DEF OnDone
    <2>10. CASE OnWriteDone(r)
      <3>1. CASE has_staged[r] /\ ~finished[r]
        BY <2>10, <3>1 DEF OnWriteDone, SendAlloc
      <3>2. CASE ~(has_staged[r] /\ ~finished[r])
        BY <2>10, <3>2 DEF OnWriteDone, SendAlloc
      <3> QED
        BY <3>1, <3>2
    <2>11. CASE Break(r) \/ ReadOk(r) \/ ReadFails(r) \/ OnWriteFailedClear(r) \/
                OnWriteFailedUnregister(r) \/ OnReadDoneRegister(r) \/
                OnReadDoneAssign(r) \/ OnReadDoneRelock(r)
      <3>1. CASE Break(r)
        BY <3>1 DEF Break
      <3>2. CASE ReadOk(r)
        BY <3>2 DEF ReadOk
      <3>3. CASE ReadFails(r)
        BY <3>3 DEF ReadFails
      <3>4. CASE OnWriteFailedClear(r)
        BY <3>4 DEF OnWriteFailedClear
      <3>5. CASE OnWriteFailedUnregister(r)
        BY <3>5 DEF OnWriteFailedUnregister
      <3>6. CASE OnReadDoneRegister(r)
        BY <3>6 DEF OnReadDoneRegister
      <3>7. CASE OnReadDoneAssign(r)
        BY <3>7 DEF OnReadDoneAssign
      <3>8. CASE OnReadDoneRelock(r)
        BY <3>8 DEF OnReadDoneRelock
      <3> QED
        BY <2>11, <3>1, <3>2, <3>3, <3>4, <3>5, <3>6, <3>7, <3>8
    <2> QED
      BY <1>1, <2>1, <2>2, <2>3, <2>4, <2>5, <2>6, <2>7, <2>8, <2>9, <2>10, <2>11 DEF ReactorStep, OnWriteStep, OnReadStep
  <1>2. CASE BroadcastStart
    BY <1>2 DEF BroadcastStart
  <1>3. ASSUME NEW l \in todo, BroadcastCall(l) PROVE FinishInv'
    <2> DEFINE q == l[1]
    <2>0. q \in Reactors
      BY CallTarget
    <2>1. CASE ~wip_write[q] /\ ~finished[q]
      BY <1>3, <2>0, <2>1 DEF BroadcastCall, UpdateAlloc, SendAlloc
    <2>2. CASE wip_write[q] \/ finished[q]
      BY <1>3, <2>0, <2>2 DEF BroadcastCall, UpdateAlloc
    <2> QED
      BY <2>0, <2>1, <2>2
  <1>4. CASE BroadcastEnd
    BY <1>4 DEF BroadcastEnd
  <1>5. CASE UNCHANGED vars
    BY <1>5 DEF vars
  <1> QED
    BY <1>1, <1>2, <1>3, <1>4, <1>5 DEF Next, ReactorStep, BroadcastStep

\* The controller's callbacks are those the reactors know of.
LEMMA ListenerInvStep == IInv /\ [Next]_vars => ListenerInv'
  <1> SUFFICES ASSUME IInv, [Next]_vars PROVE ListenerInv'
    OBVIOUS
  <1>a. ListenerInv /\ ReadInv /\ WriteInv
    BY DEF IInv, ReactorInv
  <1>b. /\ lis \in [Reactors -> Nat] /\ doomed \in [Reactors -> Nat] /\ nextLis \in Nat
        /\ listeners \subseteq Reactors \X Nat /\ phase \in [Reactors -> {"new", "open", "deleted"}]
        /\ DOMAIN rpc = Reactors /\ DOMAIN wpc = Reactors
        /\ rpc = [q \in Reactors |-> rpc[q]] /\ wpc = [q \in Reactors |-> wpc[q]]
    BY DEF IInv, ReactorInv, TypeOK
  <1> USE <1>a, <1>b DEF ListenerInv, ReadInv, WriteInv, rvars, wvars, lvars, fvars, cvars
  <1>1. ASSUME NEW r \in Reactors, ReactorStep(r) PROVE ListenerInv'
    <2>1. CASE Connect(r)
      BY <2>1 DEF Connect
    <2>2. CASE ReadOk(r)
      BY <2>2 DEF ReadOk
    <2>3. CASE ReadFails(r)
      BY <2>3 DEF ReadFails
    <2>4. CASE WriteCompletes(r)
      BY <2>4 DEF WriteCompletes
    <2>5. CASE OnWriteFailedClear(r)
      BY <2>5 DEF OnWriteFailedClear
    <2>6. CASE OnReadDoneCheck(r)
      BY <2>6 DEF OnReadDoneCheck
    <2>7. CASE OnReadDoneFinish(r)
      BY <2>7 DEF OnReadDoneFinish
    <2>8. CASE OnReadDoneRegister(r)
      BY <2>8 DEF OnReadDoneRegister
    <2>9. CASE OnReadDoneRelock(r)
      BY <2>9 DEF OnReadDoneRelock
    <2>10. CASE OnReadDoneUpdate(r)
      BY <2>10 DEF OnReadDoneUpdate
    <2>11. CASE OnDone(r)
      BY <2>11 DEF OnDone
    <2>12. CASE OnWriteDone(r)
      BY <2>12 DEF OnWriteDone, SendAlloc
    <2>13. CASE OnWriteFailedCheck(r)
      BY <2>13 DEF OnWriteFailedCheck
    <2>14. CASE OnWriteFailedFinish(r)
      BY <2>14 DEF OnWriteFailedFinish
    <2>15. CASE OnWriteFailedUnregister(r)
      <3>1. \A k \in listeners' : k \in listeners /\ (k[1] = r => k[2] # doomed[r])
        BY <2>15 DEF OnWriteFailedUnregister
      <3>2. doomed' = [doomed EXCEPT ![r] = 0] /\ wpc' = [wpc EXCEPT ![r] = "idle"]
            /\ UNCHANGED <<phase, rpc, lis, nextLis, cpc, todo>>
        BY <2>15 DEF OnWriteFailedUnregister
      <3> QED
        BY <3>1, <3>2
    <2>16. CASE OnReadDoneAssign(r)
      <3>1. PICK m \in listeners :
              /\ m[1] = r /\ \A k \in listeners : k[1] = r => k[2] <= m[2]
              /\ lis' = [lis EXCEPT ![r] = m[2]]
        BY <2>16, Zenon DEF OnReadDoneAssign
      <3>2. rpc[r] = "assign" /\ rpc' = [rpc EXCEPT ![r] = "relock"]
            /\ UNCHANGED <<phase, listeners, doomed, nextLis, wpc, cpc, todo>>
        BY <2>16 DEF OnReadDoneAssign
      <3>3. ASSUME NEW k \in listeners, k[1] = r PROVE k[2] = m[2] \/ k[2] = doomed[r]
        <4>1. lis[r] = 0 /\ k[2] \in Nat /\ m[2] \in Nat /\ k[2] <= m[2]
          BY <3>1, <3>2, <3>3
        <4> QED
          BY <3>1, <3>2, <3>3, <4>1
      <3> QED
        BY <3>1, <3>2, <3>3
    <2>17. CASE Break(r) \/ OnWriteFailedSet(r)
      BY <2>17 DEF Break, OnWriteFailedSet
    <2> QED
      BY <1>1, <2>1, <2>2, <2>3, <2>4, <2>5, <2>6, <2>7, <2>8, <2>9, <2>10, <2>11, <2>12, <2>13, <2>14, <2>15, <2>16, <2>17, Zenon DEF ReactorStep, OnWriteStep, OnReadStep
  <1>2. CASE BroadcastStart
    BY <1>2 DEF BroadcastStart
  <1>3. ASSUME NEW l \in todo, BroadcastCall(l) PROVE ListenerInv'
    BY <1>3, CallTarget DEF BroadcastCall, UpdateAlloc, SendAlloc
  <1>4. CASE BroadcastEnd
    BY <1>4 DEF BroadcastEnd
  <1>5. CASE UNCHANGED vars
    BY <1>5 DEF vars
  <1> QED
    BY <1>1, <1>2, <1>3, <1>4, <1>5 DEF Next, ReactorStep, BroadcastStep

\* Allocations only grow on their way to the host.
LEMMA OrderInvStep == IInv /\ [Next]_vars => OrderInv'
  <1> DEFINE ovars == <<written, version, buf, staged, has_staged, writeOp>>
  <1> SUFFICES ASSUME IInv, [Next]_vars PROVE OrderInv'
    OBVIOUS
  <1>a. TypeOK /\ OrderInv /\ OneWrite /\ NothingStranded
    BY DEF IInv, ReactorInv
  <1>b. /\ MaxBroadcasts \in Nat /\ version \in 0 .. MaxBroadcasts
        /\ written \in [Reactors -> 0 .. MaxBroadcasts]
        /\ buf \in [Reactors -> [{1, 2} -> 0 .. MaxBroadcasts]]
        /\ staged \in [Reactors -> {1, 2}]
        /\ has_staged \in [Reactors -> BOOLEAN]
        /\ writeOp \in [Reactors -> {"none", "pending"}]
    BY <1>a, MaxBroadcastsAssumption DEF TypeOK
  <1>c. \A q \in Reactors :
          /\ 3 - staged[q] \in {1, 2} /\ 3 - staged[q] # staged[q]
          /\ 3 - (3 - staged[q]) = staged[q]
    BY <1>b
  <1>d. \A q \in Reactors : OrderOf(q)
    BY <1>a DEF OrderInv
  <1>e. ASSUME UNCHANGED ovars PROVE OrderInv'
    BY <1>a, <1>e DEF OrderInv, OrderOf
  <1>1. ASSUME NEW r \in Reactors, ReactorStep(r) PROVE OrderInv'
    <2>1. CASE WriteCompletes(r)
      <3>1. /\ writeOp[r] = "pending" /\ writeOp' = [writeOp EXCEPT ![r] = "none"]
            /\ \/ written' = [written EXCEPT ![r] = buf[r][3 - staged[r]]]
               \/ written' = written
            /\ UNCHANGED <<version, buf, staged, has_staged>>
        BY <2>1 DEF WriteCompletes, cvars
      <3>2. OrderOf(r)'
        <4>1. /\ written[r] <= version /\ buf[r][3 - staged[r]] <= version
              /\ has_staged[r] => /\ written[r] <= buf[r][staged[r]]
                                  /\ buf[r][3 - staged[r]] <= buf[r][staged[r]]
          BY <1>c, <1>d DEF OrderOf
        <4>2. writeOp'[r] = "none" /\ (written'[r] = buf[r][3 - staged[r]] \/ written'[r] = written[r])
          BY <1>b, <3>1
        <4> QED
          BY <1>d, <3>1, <4>1, <4>2 DEF OrderOf
      <3>3. ASSUME NEW q \in Reactors, q # r PROVE OrderOf(q)'
        BY <1>b, <1>d, <3>1, <3>3 DEF OrderOf
      <3> QED
        BY <3>2, <3>3 DEF OrderInv
    <2>2. CASE OnWriteDone(r)
      <3>1. CASE has_staged[r] /\ ~finished[r]
        <4>1. /\ has_staged' = [has_staged EXCEPT ![r] = FALSE]
              /\ staged' = [staged EXCEPT ![r] = 3 - @]
              /\ writeOp' = [writeOp EXCEPT ![r] = "pending"]
              /\ buf' = [buf EXCEPT ![r] = buf[r]]
              /\ UNCHANGED <<written, version>>
          BY <2>2, <3>1 DEF OnWriteDone, SendAlloc, cvars
        <4>2. buf' = buf
          BY <1>b, <4>1
        <4>3. 3 - staged'[r] = staged[r] /\ ~has_staged'[r]
          BY <1>b, <1>c, <4>1
        <4>4. OrderOf(r)'
          BY <1>d, <3>1, <4>1, <4>2, <4>3 DEF OrderOf
        <4>5. ASSUME NEW q \in Reactors, q # r PROVE OrderOf(q)'
          BY <1>b, <1>d, <4>1, <4>2, <4>5 DEF OrderOf
        <4> QED
          BY <4>4, <4>5 DEF OrderInv
      <3>2. CASE ~(has_staged[r] /\ ~finished[r])
        BY <1>e, <2>2, <3>2 DEF OnWriteDone, cvars
      <3> QED
        BY <3>1, <3>2
    <2>3. CASE Connect(r) \/ Break(r) \/ ReadOk(r) \/ ReadFails(r) \/
                OnWriteFailedCheck(r) \/ OnWriteFailedFinish(r) \/
                OnWriteFailedSet(r) \/ OnWriteFailedClear(r) \/
                OnWriteFailedUnregister(r) \/ OnReadDoneCheck(r) \/
                OnReadDoneFinish(r) \/ OnReadDoneRegister(r) \/
                OnReadDoneAssign(r) \/ OnReadDoneRelock(r) \/
                OnReadDoneUpdate(r) \/ OnDone(r)
      <3>1. UNCHANGED ovars
        BY <2>3 DEF Connect, Break, ReadOk, ReadFails, OnWriteFailedCheck,
                    OnWriteFailedFinish, OnWriteFailedSet, OnWriteFailedClear,
                    OnWriteFailedUnregister, OnReadDoneCheck, OnReadDoneFinish,
                    OnReadDoneRegister, OnReadDoneAssign, OnReadDoneRelock,
                    OnReadDoneUpdate, OnDone, wvars, cvars
      <3> QED
        BY <1>e, <3>1
    <2> QED
      BY <1>1, <2>1, <2>2, <2>3 DEF ReactorStep, OnWriteStep, OnReadStep
  <1>2. CASE BroadcastStart
    <2>1. version' = version + 1 /\ UNCHANGED <<written, buf, staged, has_staged, writeOp>>
      BY <1>2 DEF BroadcastStart, wvars
    <2> QED
      BY <1>b, <1>d, <2>1 DEF OrderInv, OrderOf
  <1>3. ASSUME NEW l \in todo, BroadcastCall(l) PROVE OrderInv'
    <2> DEFINE q == l[1]
               b == [buf[q] EXCEPT ![staged[q]] = version]
    <2>0. q \in Reactors
      BY CallTarget
    <2>1. buf' = [buf EXCEPT ![q] = b] /\ UNCHANGED <<written, version>>
      BY <1>3, <2>0 DEF BroadcastCall, UpdateAlloc, SendAlloc
    <2>2. /\ buf'[q][staged[q]] = version /\ buf'[q][3 - staged[q]] = buf[q][3 - staged[q]]
          /\ \A p \in Reactors \ {q} : buf'[p] = buf[p]
      BY <1>b, <1>c, <2>0, <2>1
    <2>3. /\ \A i \in {1, 2} : buf'[q][i] <= version
          /\ written[q] <= version /\ buf[q][3 - staged[q]] <= version
      BY <1>b, <1>c, <1>d, <2>0, <2>2 DEF OrderOf
    <2>4. CASE ~wip_write[q] /\ ~finished[q]
      <3>1. /\ staged' = [staged EXCEPT ![q] = 3 - @]
            /\ writeOp' = [writeOp EXCEPT ![q] = "pending"]
            /\ has_staged' = has_staged
        BY <1>3, <2>0, <2>4 DEF BroadcastCall, UpdateAlloc, SendAlloc
      <3>2. 3 - staged'[q] = staged[q] /\ ~has_staged[q]
        BY <1>a, <1>b, <1>c, <2>0, <2>4, <3>1 DEF NothingStranded
      <3>3. OrderOf(q)'
        BY <2>0, <2>1, <2>2, <2>3, <3>1, <3>2 DEF OrderOf
      <3>4. ASSUME NEW p \in Reactors, p # q PROVE OrderOf(p)'
        BY <1>b, <1>d, <2>0, <2>1, <2>2, <3>1, <3>4 DEF OrderOf
      <3> QED
        BY <3>3, <3>4 DEF OrderInv
    <2>5. CASE ~(~wip_write[q] /\ ~finished[q])
      <3>1. /\ has_staged' = [has_staged EXCEPT ![q] = TRUE]
            /\ UNCHANGED <<staged, writeOp>>
        BY <1>3, <2>0, <2>5 DEF BroadcastCall, UpdateAlloc
      <3>2. OrderOf(q)'
        BY <1>d, <2>0, <2>1, <2>2, <2>3, <3>1 DEF OrderOf
      <3>3. ASSUME NEW p \in Reactors, p # q PROVE OrderOf(p)'
        BY <1>b, <1>d, <2>0, <2>1, <2>2, <3>1, <3>3 DEF OrderOf
      <3> QED
        BY <3>2, <3>3 DEF OrderInv
    <2> QED
      BY <2>4, <2>5
  <1>4. CASE BroadcastEnd
    BY <1>e, <1>4 DEF BroadcastEnd, wvars
  <1>5. CASE UNCHANGED vars
    BY <1>e, <1>5 DEF vars, wvars, cvars
  <1> QED
    BY <1>1, <1>2, <1>3, <1>4, <1>5, Zenon DEF Next, ReactorStep, BroadcastStep

\* A reactor is called only while the controller's list has its listener.
LEMMA NoUseAfterFreeHolds == TypeOK /\ ListenerInv => NoUseAfterFree
  BY DEF TypeOK, ListenerInv, NoUseAfterFree

\* The constructors establish the invariant.
LEMMA ReactorInit == Init => IInv
  <1> SUFFICES ASSUME Init PROVE IInv
    OBVIOUS
  <1>1. TypeOK
    <2>1. <<0, 0>> \in [{1, 2} -> 0 .. MaxBroadcasts]
      BY MaxBroadcastsAssumption
    <2> QED
      BY <2>1, MaxInfosAssumption, MaxBroadcastsAssumption DEF Init, TypeOK
  <1>2. ReadInv /\ WriteInv /\ ListenerInv
    BY DEF Init, ReadInv, WriteInv, ListenerInv
  <1>3. FinishInv
    <2>1. \A r \in Reactors : finishCalls[r] = 0 /\ ~WriteDead(r) /\ ~ReadDead(r)
      BY Zenon DEF Init, WriteDead, ReadDead
    <2>2. \A n : n = 0 => n <= 0 + 0 /\ ~(n > 0)
      OBVIOUS
    <2> QED
      BY <2>1, <2>2, Zenon DEF FinishInv
  <1>4. OrderInv
    <2>1. \A r \in Reactors, b \in {1, 2} : buf[r][b] = 0
      BY DEF Init
    <2>2. \A r \in Reactors : writeOp[r] # "pending" /\ ~has_staged[r]
      BY Zenon DEF Init
    <2>3. version = 0 /\ \A r \in Reactors : written[r] = 0
      BY DEF Init
    <2>z. 0 <= 0
      OBVIOUS
    <2>4. \A r \in Reactors : written[r] <= version
      BY <2>3, <2>z, Zenon
    <2>5. \A r \in Reactors, b \in {1, 2} : buf[r][b] <= version
      BY <2>1, <2>3
    <2> QED
      BY <2>2, <2>4, <2>5, Zenon DEF OrderInv, OrderOf
  <1>5. InFlightStable /\ OneWrite /\ NothingStranded /\ NoUseAfterFree
    BY DEF Init, InFlightStable, OneWrite, NothingStranded, NoUseAfterFree
  <1> QED
    BY <1>1, <1>2, <1>3, <1>4, <1>5 DEF IInv, ReactorInv

\* Every step of the reactors and of the control loop keeps the invariant.
LEMMA ReactorStepInv == IInv /\ [Next]_vars => IInv'
  <1>1. TypeOK' /\ ListenerInv' => NoUseAfterFree'
    BY NoUseAfterFreeHolds, PTL
  <1> QED
    BY <1>1, TypeOKStep, InFlightStableStep, OneWriteStep, WriteInvStep, NothingStrandedStep,
       ReadInvStep, FinishInvStep, ListenerInvStep, OrderInvStep DEF IInv, ReactorInv

\* The state shared by gRPC's callbacks and the control loop is consistent
\* (ReactorInv): one write at a time, from a buffer nobody changes, nothing
\* stranded, no call into a deleted reactor.
THEOREM ReactorsConsistent == Spec => []ReactorInv
  <1>1. IInv => ReactorInv
    BY DEF IInv
  <1> QED
    BY <1>1, ReactorInit, ReactorStepInv, PTL DEF Spec

\* A host sees allocations in the order they were computed, and no write is
\* started after Finish (WrittenInOrder).
THEOREM AllocationsInOrder == Spec => WrittenInOrder
  <1> DEFINE A == \A r \in Reactors :
                      /\ written'[r] >= written[r]
                      /\ writeOp[r] = "none" /\ writeOp'[r] = "pending" => finishCalls[r] = 0
  <1>1. ASSUME IInv, [Next]_vars PROVE [A]_vars
    <2>0. /\ TypeOK /\ OneWrite /\ FinishInv /\ OrderInv
          /\ \A q \in Reactors : written[q] >= written[q]
      BY <1>1 DEF IInv, ReactorInv, TypeOK
    <2>1. CASE UNCHANGED <<written, writeOp>>
      BY <2>0, <2>1
    <2>2. ASSUME NEW r \in Reactors, WriteCompletes(r) PROVE A
      <3>1. writeOp[r] = "pending" /\ writeOp' = [writeOp EXCEPT ![r] = "none"]
            /\ (written' = written \/ written' = [written EXCEPT ![r] = buf[r][3 - staged[r]]])
        BY <2>2 DEF WriteCompletes
      <3>2. written[r] <= buf[r][3 - staged[r]]
        BY <2>0, <3>1 DEF OrderInv, OrderOf
      <3>3. written[r] \in Nat /\ buf[r][3 - staged[r]] \in Nat
        BY <2>0 DEF TypeOK
      <3> QED
        BY <2>0, <3>1, <3>2, <3>3 DEF TypeOK
    <2>3. ASSUME NEW r \in Reactors, OnWriteDone(r) PROVE A
      <3>1. wpc[r] = "ok" /\ UNCHANGED written
        BY <2>3 DEF OnWriteDone
      <3>2. CASE has_staged[r] /\ ~finished[r]
        <4>1. finishCalls[r] = 0
          BY <2>0, <3>1, <3>2 DEF FinishInv, TypeOK
        <4>2. writeOp' = [writeOp EXCEPT ![r] = "pending"] /\ writeOp \in [Reactors -> {"none", "pending"}]
          BY <2>0, <2>3, <3>2 DEF OnWriteDone, SendAlloc, TypeOK
        <4> QED
          BY <2>0, <3>1, <4>1, <4>2
      <3>3. CASE ~(has_staged[r] /\ ~finished[r])
        BY <2>0, <2>3, <3>1, <3>3, Zenon DEF OnWriteDone
      <3> QED
        BY <3>2, <3>3
    <2>4. ASSUME NEW l \in todo, BroadcastCall(l) PROVE A
      <3> DEFINE q == l[1]
      <3>1. q \in Reactors /\ UNCHANGED written
        BY <1>1, <2>4, CallTarget DEF BroadcastCall
      <3>2. CASE ~wip_write[q] /\ ~finished[q]
        <4>1. wpc[q] = "idle" /\ finishCalls[q] \in Nat
          BY <2>0, <3>1, <3>2, SMTT(30) DEF OneWrite, TypeOK
        <4>2. finishCalls[q] = 0
          BY <2>0, <3>1, <3>2, <4>1 DEF FinishInv
        <4>3. writeOp' = [writeOp EXCEPT ![q] = "pending"] /\ writeOp \in [Reactors -> {"none", "pending"}]
          BY <2>0, <2>4, <3>2 DEF BroadcastCall, UpdateAlloc, SendAlloc, TypeOK
        <4> QED
          BY <2>0, <3>1, <4>2, <4>3
      <3>3. CASE ~(~wip_write[q] /\ ~finished[q])
        BY <2>0, <2>4, <3>1, <3>3 DEF BroadcastCall, UpdateAlloc
      <3> QED
        BY <3>2, <3>3
    <2>5. \/ UNCHANGED <<written, writeOp>>
          \/ \E r \in Reactors : WriteCompletes(r) \/ OnWriteDone(r)
          \/ \E l \in todo : BroadcastCall(l)
      BY <1>1, ZenonT(40) DEF Next, OnWriteStep, OnReadStep, BroadcastStep, BroadcastStart, BroadcastEnd,
                  Connect, Break, ReadOk, ReadFails, OnWriteFailedCheck, OnWriteFailedFinish,
                  OnWriteFailedSet, OnWriteFailedClear, OnWriteFailedUnregister,
                  OnReadDoneCheck, OnReadDoneFinish, OnReadDoneRegister, OnReadDoneAssign,
                  OnReadDoneRelock, OnReadDoneUpdate, OnDone, vars, wvars
    <2> QED
      BY <2>1, <2>2, <2>3, <2>4, <2>5
  <1> QED
    BY <1>1, ReactorInit, ReactorStepInv, PTL DEF Spec, WrittenInOrder
=============================================================================
