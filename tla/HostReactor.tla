----------------------------- MODULE HostReactor ----------------------------
(***************************************************************************)
(* heyp/cluster-agent/server.cc: the HostReactor objects, one for each     *)
(* RegisterHost stream, and the listeners they register with the           *)
(* controller (full-controller.cc).  Threads: gRPC runs OnReadDone and     *)
(* OnWriteDone of a reactor, possibly at the same time; the control loop   *)
(* calls UpdateAlloc through the listeners, holding broadcasting_mu_.      *)
(*                                                                         *)
(* A critical section that touches only what its mutex guards is one step; *)
(* finished_ and lis_ are also used without mu_, so every access to them   *)
(* that another thread could get between is a step of its own.             *)
(* Allocations are numbered by the broadcast that computed them.           *)
(***************************************************************************)
EXTENDS Integers

CONSTANTS
    Reactors,        \* connections from hosts
    MaxInfos,        \* bound: infos a host sends on a connection
    MaxBroadcasts    \* bound: calls of ComputeAndBroadcast

ASSUME MaxInfosAssumption == MaxInfos \in Nat
ASSUME MaxBroadcastsAssumption == MaxBroadcasts \in Nat

VARIABLES
    phase, broken,              \* of a connection: new, open, deleted; lost by the peer
    mu,                         \* holder of HostReactor::mu_ across steps
    finished, finishCalls,      \* finished_; number of calls of Finish
    lis, listeners, nextLis,    \* lis_; the controller's new_bundle_funcs_, next_lis_id_
    doomed,                     \* listener that `lis_ = nullptr` is destroying
    buf, staged,                \* b1_ and b2_; which of them staged_alloc_ points to
    wip_write, has_staged,
    readOp, writeOp,            \* operations started and not completed
    inFlight,                   \* the allocation StartWrite was called with
    written,                    \* last allocation that reached the host
    rpc, wpc,                   \* OnReadDone and OnWriteDone of each reactor
    infos,                      \* infos the host has sent
    cpc, todo, version          \* control loop: state, listeners to call, broadcast number

rvars == <<rpc, readOp, infos>>
wvars == <<buf, staged, wip_write, has_staged, writeOp, inFlight, written>>
lvars == <<lis, listeners, nextLis, doomed>>
fvars == <<finished, finishCalls>>
cvars == <<cpc, todo, version>>
vars == <<phase, broken, mu, fvars, lvars, wvars, rvars, wpc, cvars>>

Init ==
    /\ phase = [r \in Reactors |-> "new"]
    /\ broken = [r \in Reactors |-> FALSE]
    /\ mu = [r \in Reactors |-> "free"]
    /\ finished = [r \in Reactors |-> FALSE]
    /\ finishCalls = [r \in Reactors |-> 0]
    /\ lis = [r \in Reactors |-> 0]
    /\ listeners = {} /\ nextLis = 1
    /\ doomed = [r \in Reactors |-> 0]
    /\ buf = [r \in Reactors |-> <<0, 0>>]
    /\ staged = [r \in Reactors |-> 1]
    /\ wip_write = [r \in Reactors |-> FALSE]
    /\ has_staged = [r \in Reactors |-> FALSE]
    /\ readOp = [r \in Reactors |-> "none"]
    /\ writeOp = [r \in Reactors |-> "none"]
    /\ inFlight = [r \in Reactors |-> 0]
    /\ written = [r \in Reactors |-> 0]
    /\ rpc = [r \in Reactors |-> "idle"]
    /\ wpc = [r \in Reactors |-> "idle"]
    /\ infos = [r \in Reactors |-> 0]
    /\ cpc = "idle" /\ todo = {} /\ version = 0
-----------------------------------------------------------------------------
(* The connection: external *)

\* RegisterHost: the constructor starts the first read.
Connect(r) ==
    /\ phase[r] = "new"
    /\ phase' = [phase EXCEPT ![r] = "open"]
    /\ readOp' = [readOp EXCEPT ![r] = "pending"]
    /\ UNCHANGED <<broken, mu, fvars, lvars, wvars, rpc, infos, wpc, cvars>>

Break(r) ==
    /\ phase[r] = "open" /\ ~broken[r]
    /\ broken' = [broken EXCEPT ![r] = TRUE]
    /\ UNCHANGED <<phase, mu, fvars, lvars, wvars, rvars, wpc, cvars>>

\* A pending read completes with an info ...
ReadOk(r) ==
    /\ readOp[r] = "pending"
    /\ infos[r] < MaxInfos /\ finishCalls[r] = 0
    /\ readOp' = [readOp EXCEPT ![r] = "none"]
    /\ infos' = [infos EXCEPT ![r] = @ + 1]
    /\ rpc' = [rpc EXCEPT ![r] = "ok"]
    /\ UNCHANGED <<phase, broken, mu, fvars, lvars, wvars, wpc, cvars>>

\* ... or without one, once the connection is lost or the RPC is finished.
ReadFails(r) ==
    /\ readOp[r] = "pending"
    /\ broken[r] \/ finishCalls[r] > 0
    /\ readOp' = [readOp EXCEPT ![r] = "none"]
    /\ rpc' = [rpc EXCEPT ![r] = "failed"]
    /\ UNCHANGED <<phase, broken, mu, fvars, lvars, wvars, infos, wpc, cvars>>

WriteCompletes(r) ==
    /\ writeOp[r] = "pending"
    /\ writeOp' = [writeOp EXCEPT ![r] = "none"]
    /\ \/ /\ wpc' = [wpc EXCEPT ![r] = "ok"]
          /\ written' = [written EXCEPT ![r] = buf[r][3 - staged[r]]]
       \/ /\ broken[r] \/ finishCalls[r] > 0
          /\ wpc' = [wpc EXCEPT ![r] = "failed"]
          /\ UNCHANGED written
    /\ UNCHANGED <<phase, broken, mu, fvars, lvars, buf, staged, wip_write, has_staged,
                   inFlight, rvars, cvars>>
-----------------------------------------------------------------------------
(* Writing *)

\* SendAlloc, after the staged buffer has been set to b: swap, start a write.
SendAlloc(r, b) ==
    /\ buf' = [buf EXCEPT ![r] = b]
    /\ staged' = [staged EXCEPT ![r] = 3 - @]
    /\ wip_write' = [wip_write EXCEPT ![r] = TRUE]
    /\ writeOp' = [writeOp EXCEPT ![r] = "pending"]
    /\ inFlight' = [inFlight EXCEPT ![r] = b[staged[r]]]

\* Mutant: the new allocation goes into the buffer being written.
UpdateAlloc_WipBuffer(r, v) ==
    LET b == [buf[r] EXCEPT ![3 - staged[r]] = v] IN
    /\ mu[r] = "free"
    /\ IF ~wip_write[r] /\ ~finished[r]
       THEN SendAlloc(r, b) /\ UNCHANGED has_staged
       ELSE /\ buf' = [buf EXCEPT ![r] = b]
            /\ has_staged' = [has_staged EXCEPT ![r] = TRUE]
            /\ UNCHANGED <<staged, wip_write, writeOp, inFlight>>

\* Mutant: has_staged not set.
UpdateAlloc_NoFlag(r, v) ==
    LET b == [buf[r] EXCEPT ![staged[r]] = v] IN
    /\ mu[r] = "free"
    /\ IF ~wip_write[r] /\ ~finished[r]
       THEN SendAlloc(r, b) /\ UNCHANGED has_staged
       ELSE /\ buf' = [buf EXCEPT ![r] = b]
            /\ UNCHANGED <<has_staged, staged, wip_write, writeOp, inFlight>>

\* UpdateAlloc, called by the control loop.
UpdateAlloc(r, v) ==
    LET b == [buf[r] EXCEPT ![staged[r]] = v] IN
    /\ mu[r] = "free"
    /\ IF ~wip_write[r] /\ ~finished[r]
       THEN SendAlloc(r, b) /\ UNCHANGED has_staged
       ELSE /\ buf' = [buf EXCEPT ![r] = b]
            /\ has_staged' = [has_staged EXCEPT ![r] = TRUE]
            /\ UNCHANGED <<staged, wip_write, writeOp, inFlight>>

\* Mutant: has_staged not cleared when the staged allocation is sent.
OnWriteDone_Resend(r) ==
    /\ wpc[r] = "ok" /\ mu[r] = "free"
    /\ IF has_staged[r] /\ ~finished[r]
       THEN SendAlloc(r, buf[r])
       ELSE /\ wip_write' = [wip_write EXCEPT ![r] = FALSE]
            /\ UNCHANGED <<buf, staged, writeOp, inFlight>>
    /\ wpc' = [wpc EXCEPT ![r] = "idle"]
    /\ UNCHANGED <<phase, broken, mu, fvars, lvars, has_staged, written, rvars, cvars>>

\* OnWriteDone(true)
OnWriteDone(r) ==
    /\ wpc[r] = "ok" /\ mu[r] = "free"
    /\ IF has_staged[r] /\ ~finished[r]
       THEN /\ has_staged' = [has_staged EXCEPT ![r] = FALSE]
            /\ SendAlloc(r, buf[r])
       ELSE /\ wip_write' = [wip_write EXCEPT ![r] = FALSE]
            /\ UNCHANGED <<has_staged, buf, staged, writeOp, inFlight>>
    /\ wpc' = [wpc EXCEPT ![r] = "idle"]
    /\ UNCHANGED <<phase, broken, mu, fvars, lvars, written, rvars, cvars>>

\* OnWriteDone(false), which takes no lock: read finished_, Finish, set
\* finished_, destroy the listener.
OnWriteFailedCheck(r) ==
    /\ wpc[r] = "failed"
    /\ wpc' = [wpc EXCEPT ![r] = IF finished[r] THEN "set" ELSE "finish"]
    /\ UNCHANGED <<phase, broken, mu, fvars, lvars, wvars, rvars, cvars>>

OnWriteFailedFinish(r) ==
    /\ wpc[r] = "finish"
    /\ finishCalls' = [finishCalls EXCEPT ![r] = @ + 1]
    /\ wpc' = [wpc EXCEPT ![r] = "set"]
    /\ UNCHANGED <<phase, broken, mu, finished, lvars, wvars, rvars, cvars>>

OnWriteFailedSet(r) ==
    /\ wpc[r] = "set"
    /\ finished' = [finished EXCEPT ![r] = TRUE]
    /\ wpc' = [wpc EXCEPT ![r] = "clear"]
    /\ UNCHANGED <<phase, broken, mu, finishCalls, lvars, wvars, rvars, cvars>>

OnWriteFailedClear(r) ==
    /\ wpc[r] = "clear"
    /\ doomed' = [doomed EXCEPT ![r] = lis[r]]
    /\ lis' = [lis EXCEPT ![r] = 0]
    /\ wpc' = [wpc EXCEPT ![r] = "unregister"]
    /\ UNCHANGED <<phase, broken, mu, fvars, listeners, nextLis, wvars, rvars, cvars>>

\* ~Listener needs broadcasting_mu_.
OnWriteFailedUnregister(r) ==
    /\ wpc[r] = "unregister"
    /\ doomed[r] # 0 => cpc = "idle"
    /\ listeners' = listeners \ {<<r, doomed[r]>>}
    /\ doomed' = [doomed EXCEPT ![r] = 0]
    /\ wpc' = [wpc EXCEPT ![r] = "idle"]
    /\ UNCHANGED <<phase, broken, mu, fvars, lis, nextLis, wvars, rvars, cvars>>
-----------------------------------------------------------------------------
(* Reading *)

\* OnReadDone takes mu_ and looks at finished_ and lis_.
OnReadDoneCheck(r) ==
    /\ rpc[r] \in {"ok", "failed"} /\ mu[r] = "free"
    /\ IF finished[r] THEN rpc' = [rpc EXCEPT ![r] = "idle"] /\ UNCHANGED mu
       ELSE IF rpc[r] = "failed"
       THEN rpc' = [rpc EXCEPT ![r] = "finish"] /\ mu' = [mu EXCEPT ![r] = "read"]
       ELSE IF lis[r] = 0
       THEN rpc' = [rpc EXCEPT ![r] = "register"] /\ UNCHANGED mu
       ELSE rpc' = [rpc EXCEPT ![r] = "update"] /\ mu' = [mu EXCEPT ![r] = "read"]
    /\ UNCHANGED <<phase, broken, fvars, lvars, wvars, readOp, infos, wpc, cvars>>

OnReadDoneFinish(r) ==
    /\ rpc[r] = "finish"
    /\ finishCalls' = [finishCalls EXCEPT ![r] = @ + 1]
    /\ finished' = [finished EXCEPT ![r] = TRUE]
    /\ mu' = [mu EXCEPT ![r] = "free"]
    /\ rpc' = [rpc EXCEPT ![r] = "idle"]
    /\ UNCHANGED <<phase, broken, lvars, wvars, readOp, infos, wpc, cvars>>

\* RegisterListener, without mu_ but under broadcasting_mu_ ...
OnReadDoneRegister(r) ==
    /\ rpc[r] = "register" /\ cpc = "idle"
    /\ listeners' = listeners \cup {<<r, nextLis>>}
    /\ nextLis' = nextLis + 1
    /\ rpc' = [rpc EXCEPT ![r] = "assign"]
    /\ UNCHANGED <<phase, broken, mu, fvars, lis, doomed, wvars, readOp, infos, wpc, cvars>>

\* ... then the assignment to lis_, still without mu_.
OnReadDoneAssign(r) ==
    /\ rpc[r] = "assign"
    /\ \E l \in listeners :
         /\ l[1] = r /\ \A k \in listeners : k[1] = r => k[2] <= l[2]
         /\ lis' = [lis EXCEPT ![r] = l[2]]
    /\ rpc' = [rpc EXCEPT ![r] = "relock"]
    /\ UNCHANGED <<phase, broken, mu, fvars, listeners, nextLis, doomed, wvars, readOp, infos, wpc, cvars>>

OnReadDoneRelock(r) ==
    /\ rpc[r] = "relock" /\ mu[r] = "free"
    /\ mu' = [mu EXCEPT ![r] = "read"]
    /\ rpc' = [rpc EXCEPT ![r] = "update"]
    /\ UNCHANGED <<phase, broken, fvars, lvars, wvars, readOp, infos, wpc, cvars>>

\* UpdateInfo, with mu_ held, and the next read.
OnReadDoneUpdate(r) ==
    /\ rpc[r] = "update"
    /\ readOp' = [readOp EXCEPT ![r] = "pending"]
    /\ mu' = [mu EXCEPT ![r] = "free"]
    /\ rpc' = [rpc EXCEPT ![r] = "idle"]
    /\ UNCHANGED <<phase, broken, fvars, lvars, wvars, infos, wpc, cvars>>

\* OnDone, once gRPC has completed everything: delete this, whose first effect
\* is ~Listener under broadcasting_mu_.
OnDone(r) ==
    /\ phase[r] = "open" /\ finishCalls[r] > 0
    /\ readOp[r] = "none" /\ writeOp[r] = "none"
    /\ rpc[r] = "idle" /\ wpc[r] = "idle"
    /\ lis[r] # 0 => cpc = "idle"
    /\ listeners' = listeners \ {<<r, lis[r]>>}
    /\ lis' = [lis EXCEPT ![r] = 0]
    /\ phase' = [phase EXCEPT ![r] = "deleted"]
    /\ UNCHANGED <<broken, mu, fvars, nextLis, doomed, wvars, rvars, wpc, cvars>>
-----------------------------------------------------------------------------
(* RunLoop: ComputeAndBroadcast *)

\* Compute, then lock broadcasting_mu_.
BroadcastStart ==
    /\ cpc = "idle" /\ version < MaxBroadcasts
    /\ cpc' = "broadcast"
    /\ version' = version + 1
    /\ todo' = listeners
    /\ UNCHANGED <<phase, broken, mu, fvars, lvars, wvars, rvars, wpc>>

BroadcastCall(l) ==
    /\ cpc = "broadcast" /\ l \in todo
    /\ todo' = todo \ {l}
    /\ UpdateAlloc(l[1], version)
    /\ UNCHANGED <<phase, broken, mu, fvars, lvars, written, rvars, wpc, cpc, version>>

BroadcastEnd ==
    /\ cpc = "broadcast" /\ todo = {}
    /\ cpc' = "idle"
    /\ UNCHANGED <<phase, broken, mu, fvars, lvars, wvars, rvars, wpc, todo, version>>
-----------------------------------------------------------------------------
OnWriteStep(r) ==
    \/ OnWriteDone(r) \/ OnWriteFailedCheck(r) \/ OnWriteFailedFinish(r)
    \/ OnWriteFailedSet(r) \/ OnWriteFailedClear(r) \/ OnWriteFailedUnregister(r)

OnReadStep(r) ==
    \/ OnReadDoneCheck(r) \/ OnReadDoneFinish(r) \/ OnReadDoneRegister(r)
    \/ OnReadDoneAssign(r) \/ OnReadDoneRelock(r) \/ OnReadDoneUpdate(r)

BroadcastStep == (\E l \in todo : BroadcastCall(l)) \/ BroadcastEnd

Next ==
    \/ \E r \in Reactors :
         \/ Connect(r) \/ Break(r) \/ ReadOk(r) \/ ReadFails(r) \/ WriteCompletes(r)
         \/ OnWriteStep(r) \/ OnReadStep(r) \/ OnDone(r)
    \/ BroadcastStart \/ BroadcastStep

Spec == Init /\ [][Next]_vars

\* gRPC completes writes, fails the read of a lost connection, runs the
\* reactions and reports the end of an RPC;
\* the control loop finishes the broadcast it is in.
Fairness ==
    /\ \A r \in Reactors :
         /\ WF_vars(ReadFails(r)) /\ WF_vars(WriteCompletes(r))
         /\ WF_vars(OnWriteStep(r)) /\ WF_vars(OnReadStep(r)) /\ WF_vars(OnDone(r))
    /\ WF_vars(BroadcastStep)

FairSpec == Spec /\ Fairness
-----------------------------------------------------------------------------
TypeOK ==
    /\ phase \in [Reactors -> {"new", "open", "deleted"}]
    /\ broken \in [Reactors -> BOOLEAN]
    /\ mu \in [Reactors -> {"free", "read"}]
    /\ finished \in [Reactors -> BOOLEAN]
    /\ finishCalls \in [Reactors -> 0 .. 2]
    /\ lis \in [Reactors -> Nat] /\ doomed \in [Reactors -> Nat] /\ nextLis \in Nat
    /\ listeners \subseteq Reactors \X Nat
    /\ buf \in [Reactors -> [{1, 2} -> 0 .. MaxBroadcasts]]
    /\ staged \in [Reactors -> {1, 2}]
    /\ wip_write \in [Reactors -> BOOLEAN] /\ has_staged \in [Reactors -> BOOLEAN]
    /\ readOp \in [Reactors -> {"none", "pending"}]
    /\ writeOp \in [Reactors -> {"none", "pending"}]
    /\ inFlight \in [Reactors -> 0 .. MaxBroadcasts]
    /\ written \in [Reactors -> 0 .. MaxBroadcasts]
    /\ rpc \in [Reactors -> {"idle", "ok", "failed", "finish", "register", "assign",
                             "relock", "update"}]
    /\ wpc \in [Reactors -> {"idle", "ok", "failed", "finish", "set", "clear", "unregister"}]
    /\ infos \in [Reactors -> 0 .. MaxInfos]
    /\ cpc \in {"idle", "broadcast"} /\ todo \subseteq listeners /\ version \in 0 .. MaxBroadcasts

\* The buffer gRPC is writing from keeps its contents until OnWriteDone:
\* UpdateAlloc only ever overwrites the other one.
InFlightStable ==
    \A r \in Reactors :
        writeOp[r] = "pending" => buf[r][3 - staged[r]] = inFlight[r]

\* At most one write is outstanding: while wip_write_ is false there is none,
\* and no OnWriteDone still to come.
OneWrite ==
    \A r \in Reactors : ~wip_write[r] => (writeOp[r] = "none" /\ wpc[r] = "idle")

\* An allocation that waits in the staged buffer has a write ahead of it that
\* will pick it up, unless the stream is finished.
NothingStranded ==
    \A r \in Reactors : has_staged[r] => (wip_write[r] \/ finished[r])

\* The control loop never calls into a deleted reactor: a reactor is gone from
\* the controller before its memory is.
NoUseAfterFree == \A l \in listeners \cup todo : phase[l[1]] # "deleted"

\* The state two gRPC callbacks and the control loop share stays consistent:
\* one write at a time, out of a buffer nobody changes, with nothing left
\* behind and no reactor called after its end.
ReactorInv == TypeOK /\ InFlightStable /\ OneWrite /\ NothingStranded /\ NoUseAfterFree

\* A host sees allocations in the order they were computed, and no write is
\* started after Finish ("since wip_write_ is still true, we will block all
\* writes" when it was a write that failed).
WrittenInOrder ==
    [][\A r \in Reactors :
          /\ written'[r] >= written[r]
          /\ writeOp[r] = "none" /\ writeOp'[r] = "pending" => finishCalls[r] = 0]_vars

\* The newest allocation given to a connection is written to it, unless the
\* connection ends: coalescing in the staged buffer loses only older ones.
NewestDelivered ==
    \A r \in Reactors, v \in 1 .. MaxBroadcasts :
        (\E b \in {1, 2} : buf[r][b] = v) ~>
            (written[r] >= v \/ finished[r])

\* A lost connection is cleaned up: its reactor is deleted.
CleanedUp ==
    \A r \in Reactors : (broken[r] /\ phase[r] = "open") ~> phase[r] = "deleted"

\* server.cc: "finished_;  // only read/written in event loop": the test of
\* finished_ before Finish needs no lock, so an RPC is finished only once.
SingleFinish == \A r \in Reactors : finishCalls[r] <= 1
=============================================================================
