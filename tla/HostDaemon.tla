----------------------------- MODULE HostDaemon -----------------------------
(***************************************************************************)
(* The connection of a host agent to the cluster agent.                    *)
(*                                                                         *)
(* heyp/host-agent/cluster-agent-channel.{h,cc}: the host agent's end of   *)
(* the RegisterHost stream, shared by the thread that writes infos         *)
(* ("send") and the one that reads allocations ("enforce").  Every         *)
(* operation locks mu_, decides what to do and picks a stream, unlocks,    *)
(* runs the blocking gRPC call, locks again and updates the flags: three   *)
(* steps (Begin, the call, End).  Streams are numbered in the order they   *)
(* are created; 0 is nullptr.                                              *)
(*                                                                         *)
(* heyp/host-agent/daemon.cc: the SendInfos and EnforceAllocs loops over   *)
(* one such channel, from Run to the joins of ~HostDaemon.                 *)
(***************************************************************************)
EXTENDS Integers

CONSTANTS
    MaxBreaks,   \* bound: streams that end without the host asking for it
    MaxAllocs    \* bound: allocations the cluster agent sends on one stream

ASSUME MaxBreaksAssumption == MaxBreaks \in Nat
ASSUME MaxAllocsAssumption == MaxAllocs \in Nat

VARIABLES
    stream, numStreams,                      \* stream_, size of all_streams_
    read_failed, write_failed, writes_done,  \* the flags guarded by mu_
    call,                                    \* the operation each thread is in
    ended, cancelled, halfClosed,            \* streams: finished by the peer, cancelled, write side closed
    informed,                                \* streams on which an info has arrived
    allocs,                                  \* allocations sent on each stream and not read yet
    numSent, breaks                          \* counters for the bounds

flags == <<read_failed, write_failed, writes_done>>
peer == <<ended, informed, allocs, numSent, breaks>>
chanVars == <<stream, numStreams, flags, call, ended, cancelled, halfClosed,
              informed, allocs, numSent, breaks>>

Threads == {"send", "enforce"}
MaxStreams == MaxBreaks + 3
StreamIds == 1 .. MaxStreams
Idle == [op |-> "none", step |-> "idle", do |-> FALSE, s |-> 0,
         failed |-> FALSE, got |-> FALSE, ok |-> FALSE]
Calls == [op: {"none", "Write", "WritesDone", "Read"},
          step: {"idle", "call", "end", "return"},
          do: BOOLEAN, s: 0 .. MaxStreams, failed: BOOLEAN, got: BOOLEAN, ok: BOOLEAN]

Dead(s) == s \in ended \cup cancelled

ChannelInit ==
    /\ stream = 0 /\ numStreams = 0
    /\ read_failed = FALSE /\ write_failed = FALSE /\ writes_done = FALSE
    /\ call = [t \in Threads |-> Idle]
    /\ ended = {} /\ cancelled = {} /\ halfClosed = {} /\ informed = {}
    /\ allocs = [s \in StreamIds |-> 0]
    /\ numSent = [s \in StreamIds |-> 0]
    /\ breaks = 0

\* CreateStreamIfNeeded, under mu_.
CreateStreamIfNeeded ==
    IF stream # 0 THEN UNCHANGED <<stream, numStreams>>
    ELSE stream' = numStreams + 1 /\ numStreams' = numStreams + 1

\* The first critical section of Write, WritesDone and Read.
Begin(t, op) ==
    /\ call[t].step = "idle"
    /\ CreateStreamIfNeeded
    /\ call' = [call EXCEPT ![t] =
         [Idle EXCEPT !.op = op, !.step = "call", !.s = stream',
                      !.do = IF op = "Read" THEN ~read_failed
                             ELSE ~write_failed /\ ~writes_done]]
    /\ UNCHANGED <<flags, ended, cancelled, halfClosed, informed, allocs, numSent, breaks>>

\* The gRPC call outside the lock.  Write and WritesDone fail on a stream that
\* is over; Read waits for an allocation or for the end of the stream.
CallDone(t, failed, got) ==
    call' = [call EXCEPT ![t].step = "end", ![t].failed = failed, ![t].got = got]

SkipCall(t) ==
    /\ call[t].step = "call" /\ ~call[t].do
    /\ CallDone(t, FALSE, FALSE)
    /\ UNCHANGED <<stream, numStreams, flags, cancelled, halfClosed, peer>>

WriteCall(t) ==
    /\ call[t].step = "call" /\ call[t].do /\ call[t].op = "Write"
    /\ CallDone(t, Dead(call[t].s), FALSE)
    /\ informed' = IF Dead(call[t].s) THEN informed ELSE informed \cup {call[t].s}
    /\ UNCHANGED <<stream, numStreams, flags, ended, cancelled, halfClosed, allocs, numSent, breaks>>

WritesDoneCall(t) ==
    /\ call[t].step = "call" /\ call[t].do /\ call[t].op = "WritesDone"
    /\ CallDone(t, Dead(call[t].s), FALSE)
    /\ halfClosed' = halfClosed \cup {call[t].s}
    /\ UNCHANGED <<stream, numStreams, flags, cancelled, peer>>

ReadCall(t) ==
    /\ call[t].step = "call" /\ call[t].do /\ call[t].op = "Read"
    /\ \/ /\ allocs[call[t].s] > 0
          /\ allocs' = [allocs EXCEPT ![call[t].s] = @ - 1]
          /\ CallDone(t, FALSE, TRUE)
       \/ /\ Dead(call[t].s)
          /\ allocs[call[t].s] = 0 \/ call[t].s \in cancelled
          /\ CallDone(t, TRUE, FALSE)
          /\ UNCHANGED allocs
    /\ UNCHANGED <<stream, numStreams, flags, ended, cancelled, halfClosed, informed, numSent, breaks>>

\* Mutant: write_failed not reset with the stream.
CheckFinishAndResetStream_KeepFlags(rf, wf, wd) ==
    IF stream # 0 /\ rf /\ (wf \/ wd)
    THEN /\ stream' = 0
         /\ read_failed' = FALSE /\ write_failed' = wf /\ writes_done' = FALSE
    ELSE /\ read_failed' = rf /\ write_failed' = wf /\ writes_done' = wd
         /\ UNCHANGED stream

\* Mutant: the finished stream is never reset.
CheckFinishAndResetStream_Never(rf, wf, wd) ==
    /\ read_failed' = rf /\ write_failed' = wf /\ writes_done' = wd
    /\ UNCHANGED stream

\* CheckFinishAndResetStream, given the flags as the second critical section
\* has set them.
CheckFinishAndResetStream(rf, wf, wd) ==
    IF stream # 0 /\ rf /\ (wf \/ wd)
    THEN /\ stream' = 0
         /\ read_failed' = FALSE /\ write_failed' = FALSE /\ writes_done' = FALSE
    ELSE /\ read_failed' = rf /\ write_failed' = wf /\ writes_done' = wd
         /\ UNCHANGED stream

\* The second critical section.  CheckFinishAndResetStream is only reached
\* when a flag of the caller's direction is set; otherwise it would find
\* nothing to reset.
End(t) ==
    /\ call[t].step = "end"
    /\ LET rf == read_failed \/ (call[t].op = "Read" /\ call[t].failed)
           wf == write_failed \/ (call[t].op # "Read" /\ call[t].failed)
           wd == writes_done \/ call[t].op = "WritesDone"
           bad == IF call[t].op = "Read" THEN rf ELSE wf \/ wd
       IN  /\ IF bad THEN CheckFinishAndResetStream(rf, wf, wd)
              ELSE UNCHANGED <<stream, flags>>
           /\ call' = [call EXCEPT ![t].step = "return", ![t].ok = ~bad]
    /\ UNCHANGED <<numStreams, ended, cancelled, halfClosed, informed, allocs, numSent, breaks>>

\* TryCancel, under mu_: cancels every stream that exists at that moment.
TryCancel ==
    /\ cancelled' = cancelled \cup (1 .. numStreams)
    /\ UNCHANGED <<stream, numStreams, flags, halfClosed, peer>>

(* The cluster agent and the network: external, from how the channel and   *)
(* heyp/cluster-agent/server.cc use a stream.                              *)

\* server.cc registers the host's listener on the first info, and sends
\* allocations only after that.
PeerSend(s) ==
    /\ s <= numStreams /\ s \in informed /\ ~Dead(s)
    /\ numSent[s] < MaxAllocs
    /\ numSent' = [numSent EXCEPT ![s] = @ + 1]
    /\ allocs' = [allocs EXCEPT ![s] = @ + 1]
    /\ UNCHANGED <<stream, numStreams, flags, call, ended, cancelled, halfClosed, informed, breaks>>

\* server.cc finishes the RPC when the host has closed its write side.
PeerFinish(s) ==
    /\ s \in halfClosed /\ ~Dead(s)
    /\ ended' = ended \cup {s}
    /\ UNCHANGED <<stream, numStreams, flags, call, cancelled, halfClosed, informed, allocs, numSent, breaks>>

\* The connection is lost or the cluster agent restarts.
PeerBreak(s) ==
    /\ s <= numStreams /\ ~Dead(s)
    /\ breaks < MaxBreaks
    /\ breaks' = breaks + 1
    /\ ended' = ended \cup {s}
    /\ UNCHANGED <<stream, numStreams, flags, call, cancelled, halfClosed, informed, allocs, numSent>>

PeerStep == \E s \in StreamIds : PeerSend(s) \/ PeerFinish(s) \/ PeerBreak(s)

CallStep(t) ==
    \/ SkipCall(t) \/ WriteCall(t) \/ WritesDoneCall(t) \/ ReadCall(t) \/ End(t)
-----------------------------------------------------------------------------
ChannelTypeOK ==
    /\ numStreams \in 0 .. MaxStreams /\ stream \in 0 .. numStreams
    /\ read_failed \in BOOLEAN /\ write_failed \in BOOLEAN /\ writes_done \in BOOLEAN
    /\ call \in [Threads -> Calls]
    /\ ended \subseteq 1 .. numStreams /\ cancelled \subseteq 1 .. numStreams
    /\ halfClosed \subseteq 1 .. numStreams /\ informed \subseteq 1 .. numStreams
    /\ allocs \in [StreamIds -> 0 .. MaxAllocs]
    /\ numSent \in [StreamIds -> 0 .. MaxAllocs]
    /\ breaks \in 0 .. MaxBreaks

\* A thread that is in a gRPC call is always on the current stream: the other
\* thread never finishes and drops a stream under a pending call, although
\* mu_ is not held during the call.
CallOnCurrentStream ==
    \A t \in Threads :
        (call[t].step \in {"call", "end"} /\ call[t].do) => call[t].s = stream

\* A failure flag speaks of the current stream, and only of a stream that is
\* over: so Finish, called under mu_, finds a status and does not block.
FlagsOfCurrentStream ==
    (read_failed \/ write_failed) => (stream # 0 /\ Dead(stream))
-----------------------------------------------------------------------------
(* The daemon.                                                             *)

VARIABLES
    should_exit,   \* the flag the SIGINT handler sets
    send,          \* SendInfos: where the thread is
    enforce,       \* EnforceAllocs: where the thread is
    enforced       \* the bundle given to the enforcer last: none, received or blank

vars == <<chanVars, should_exit, send, enforce, enforced>>
loops == <<should_exit, send, enforce, enforced>>

Init ==
    /\ ChannelInit
    /\ should_exit \in BOOLEAN
    /\ send = "write"
    /\ enforce = "check"
    /\ enforced = "none"

\* SendInfos: write a bundle, wait, again; then WritesDone and TryCancel.
SendWrite ==
    /\ send = "write"
    /\ Begin("send", "Write")
    /\ send' = "writing"
    /\ UNCHANGED <<should_exit, enforce, enforced>>

SendWritten ==
    /\ send = "writing" /\ call["send"].step = "return"
    /\ call' = [call EXCEPT !["send"] = Idle]
    /\ send' = "wait"
    /\ UNCHANGED <<stream, numStreams, flags, cancelled, halfClosed, peer,
                   should_exit, enforce, enforced>>

\* FlaggedOrWaitFor(inform_period): time passes, or the flag is seen.
SendWait ==
    /\ send = "wait"
    /\ send' = IF should_exit THEN "finish" ELSE "write"
    /\ UNCHANGED <<chanVars, should_exit, enforce, enforced>>

SendFinish ==
    /\ send = "finish"
    /\ Begin("send", "WritesDone")
    /\ send' = "finishing"
    /\ UNCHANGED <<should_exit, enforce, enforced>>

SendFinished ==
    /\ send = "finishing" /\ call["send"].step = "return"
    /\ call' = [call EXCEPT !["send"] = Idle]
    /\ send' = "cancel"
    /\ UNCHANGED <<stream, numStreams, flags, cancelled, halfClosed, peer,
                   should_exit, enforce, enforced>>

SendCancel ==
    /\ send = "cancel"
    /\ TryCancel
    /\ send' = "exit"
    /\ UNCHANGED <<call, should_exit, enforce, enforced>>

\* EnforceAllocs: check the flag, read, enforce what a successful Read left in
\* the bundle.
EnforceCheck ==
    /\ enforce = "check"
    /\ enforce' = IF should_exit THEN "exit" ELSE "read"
    /\ UNCHANGED <<chanVars, should_exit, send, enforced>>

EnforceRead ==
    /\ enforce = "read"
    /\ Begin("enforce", "Read")
    /\ enforce' = "reading"
    /\ UNCHANGED <<should_exit, send, enforced>>

EnforceApply ==
    /\ enforce = "reading" /\ call["enforce"].step = "return"
    /\ call' = [call EXCEPT !["enforce"] = Idle]
    /\ enforced' = IF ~call["enforce"].ok THEN enforced
                   ELSE IF call["enforce"].got THEN "received" ELSE "blank"
    /\ enforce' = "check"
    /\ UNCHANGED <<stream, numStreams, flags, cancelled, halfClosed, peer,
                   should_exit, send>>

\* InterruptHandler
Interrupt ==
    /\ ~should_exit
    /\ should_exit' = TRUE
    /\ UNCHANGED <<chanVars, send, enforce, enforced>>

SendStep ==
    \/ SendWrite \/ SendWritten \/ SendWait \/ SendFinish \/ SendFinished \/ SendCancel
    \/ CallStep("send") /\ UNCHANGED loops

EnforceStep ==
    \/ EnforceCheck \/ EnforceRead \/ EnforceApply
    \/ CallStep("enforce") /\ UNCHANGED loops

Next ==
    \/ SendStep \/ EnforceStep
    \/ Interrupt
    \/ PeerStep /\ UNCHANGED loops

Spec == Init /\ [][Next]_vars

\* Both threads are scheduled; time passes in FlaggedOrWaitFor; a live cluster
\* agent finishes a stream the host has half-closed.  Nothing makes it send
\* allocations, and nothing makes connections break.
Fairness ==
    /\ WF_vars(SendStep) /\ WF_vars(EnforceStep)
    /\ \A s \in StreamIds : WF_vars(PeerFinish(s) /\ UNCHANGED loops)

FairSpec == Spec /\ Fairness
-----------------------------------------------------------------------------
TypeOK ==
    /\ ChannelTypeOK
    /\ should_exit \in BOOLEAN
    /\ send \in {"write", "writing", "wait", "finish", "finishing", "cancel", "exit"}
    /\ enforce \in {"check", "read", "reading", "exit"}
    /\ enforced \in {"none", "received", "blank"}

\* The two threads of the daemon use one stream at a time, and give one up
\* only when it is over.
DaemonInv == TypeOK /\ CallOnCurrentStream /\ FlagsOfCurrentStream

\* A stream that is over is replaced: the next periodic Write notices what
\* Read noticed, the stream is finished and the next operation opens a new one.
Reconnects ==
    \A s \in StreamIds : (stream = s /\ Dead(s)) ~> (stream # s \/ should_exit)

\* daemon.cc "Step 1: wait for allocation from cluster agent. ... Step 2:
\* enforce the new allocation.": what is enforced has been received.
EnforcedWasReceived == enforced # "blank"
=============================================================================
