----------------------------- MODULE OSTester -----------------------------
(***************************************************************************)
(* The integration test of the host agent (heyp/integration): the workers  *)
(* of step-worker.cc, the collector of flow-state-collector.cc and         *)
(* HostAgentOSTester::Run, which drives them.                              *)
(*                                                                         *)
(* Every worker listens, has a thread that accepts, a receiving thread per *)
(* accepted connection and a sending thread per flow of its own.  mu_ is   *)
(* held across a wait only by Finish, which joins all these threads under  *)
(* it; other critical sections are single steps.                           *)
(***************************************************************************)
EXTENDS Integers, Sequences, FiniteSets

CONSTANTS NumHosts,  \* config_.num_hosts
          NumSteps,  \* how many steps fit into run_dur
          MaxSends   \* how many buffers a flow sends at most

HostWorkers == 1..NumHosts
Flows == {f \in HostWorkers \X HostWorkers : f[1] # f[2]}
Into(w) == {f \in Flows : f[2] = w}
OutOf(w) == {f \in Flows : f[1] = w}

VARIABLES
  main,     \* where Run is: <<phase, worker>>
  todo,     \* the flows InitFlows of the current worker still has to start
  step,     \* steps collected
  serve,    \* [worker -> accept, exit, or the flow whose connection it holds]
  send,     \* [flow -> the state of its SendFlow thread]
  recv,     \* [flow -> the state of its RecvFlow thread]
  go,       \* [worker -> go_ was notified]
  down,     \* [worker -> shutting_down_]
  locked,   \* the workers whose mu_ Finish holds
  wire,     \* [flow -> buffers sent and not received]
  counter,  \* [flow -> [sent, rcvd]], the counters of the two ends
  measured, \* [flow -> [sent, rcvd]]: cum_bytes, and what step_bps adds up to
  raced,    \* the workers for which Finish came too early for some thread
  reports   \* the collector's thread: none, report, wait, exit

vars == <<main, todo, step, serve, send, recv, go, down, locked, wire,
          counter, measured, raced, reports>>

NoBytes == [cum |-> 0, steps |-> 0]

Init ==
  /\ main = <<"init", 1>> /\ todo = OutOf(1) /\ step = 0
  /\ serve = [w \in HostWorkers |-> <<"accept">>]
  /\ send = [f \in Flows |-> "none"]
  /\ recv = [f \in Flows |-> "none"]
  /\ go = [w \in HostWorkers |-> FALSE] /\ down = [w \in HostWorkers |-> FALSE]
  /\ locked = {} /\ wire = [f \in Flows |-> 0]
  /\ counter = [f \in Flows |-> [sent |-> 0, rcvd |-> 0]]
  /\ measured = [f \in Flows |-> [sent |-> NoBytes, rcvd |-> NoBytes]]
  /\ raced = {} /\ reports = "none"

---------------------------------------------------------------------------
(* Run: Create and InitFlows *)

\* connect() succeeds while the peer listens: the connection waits in its
\* backlog.  The sending thread starts at once.
InitFlow(f) ==
  /\ main[1] = "init" /\ f \in todo
  /\ send' = [send EXCEPT ![f] = "name"]
  /\ recv' = [recv EXCEPT ![f] = "backlog"]
  /\ todo' = todo \ {f}
  /\ UNCHANGED <<main, step, serve, go, down, locked, wire, counter, measured,
                 raced, reports>>

InitDone ==
  /\ main[1] = "init" /\ todo = {}
  /\ IF main[2] < NumHosts
     THEN main' = <<"init", main[2] + 1>> /\ todo' = OutOf(main[2] + 1)
     ELSE main' = <<"go", 1>> /\ UNCHANGED todo
  /\ UNCHANGED <<step, serve, send, recv, go, down, locked, wire, counter,
                 measured, raced, reports>>

\* Go on every worker, then the collector and its thread.
Go ==
  /\ main[1] = "go"
  /\ go' = [w \in HostWorkers |-> TRUE]
  /\ reports' = "report"
  /\ main' = <<"step", 1>>
  /\ UNCHANGED <<todo, step, serve, send, recv, down, locked, wire, counter,
                 measured, raced>>

---------------------------------------------------------------------------
(* The threads of a worker *)

\* Serve: a connection is taken from the backlog ...
Accept(f) ==
  /\ serve[f[2]] = <<"accept">> /\ recv[f] = "backlog" /\ ~down[f[2]]
  /\ serve' = [serve EXCEPT ![f[2]] = f]
  /\ recv' = [recv EXCEPT ![f] = "accepted"]
  /\ UNCHANGED <<main, todo, step, send, go, down, locked, wire, counter,
                 measured, raced, reports>>

\* ... and given a thread, under mu_.
Push(f) ==
  /\ serve[f[2]] = f /\ f[2] \notin locked
  /\ serve' = [serve EXCEPT ![f[2]] = <<"accept">>]
  /\ recv' = [recv EXCEPT ![f] = "name"]
  /\ UNCHANGED <<main, todo, step, send, go, down, locked, wire, counter,
                 measured, raced, reports>>

ServeExits(w) ==
  /\ serve[w] = <<"accept">> /\ down[w]
  /\ serve' = [serve EXCEPT ![w] = <<"exit">>]
  /\ UNCHANGED <<main, todo, step, send, recv, go, down, locked, wire,
                 counter, measured, raced, reports>>

\* SendFlow: the name, then nothing until Go.
SendName(f) ==
  /\ send[f] = "name"
  /\ send' = [send EXCEPT ![f] = "wait"]
  /\ UNCHANGED <<main, todo, step, serve, recv, go, down, locked, wire,
                 counter, measured, raced, reports>>

SendWakes(f) ==
  /\ send[f] = "wait" /\ go[f[1]]
  /\ send' = [send EXCEPT ![f] = "loop"]
  /\ UNCHANGED <<main, todo, step, serve, recv, go, down, locked, wire,
                 counter, measured, raced, reports>>

\* send(), whose bytes the peer may read before this thread counts them.
Send(f) ==
  /\ send[f] = "loop" /\ ~down[f[1]] /\ ~down[f[2]]
  /\ counter[f].sent < MaxSends
  /\ wire' = [wire EXCEPT ![f] = @ + 1]
  /\ send' = [send EXCEPT ![f] = "count"]
  /\ UNCHANGED <<main, todo, step, serve, recv, go, down, locked, counter,
                 measured, raced, reports>>

SendCounts(f) ==
  /\ send[f] = "count"
  /\ counter' = [counter EXCEPT ![f].sent = @ + 1]
  /\ send' = [send EXCEPT ![f] = "loop"]
  /\ UNCHANGED <<main, todo, step, serve, recv, go, down, locked, wire,
                 measured, raced, reports>>

SendExits(f) ==
  /\ send[f] = "loop" /\ down[f[1]]
  /\ send' = [send EXCEPT ![f] = "exit"]
  /\ UNCHANGED <<main, todo, step, serve, recv, go, down, locked, wire,
                 counter, measured, raced, reports>>

\* RecvFlow: ReadFull of the name.  Once Finish has closed the descriptor a
\* read that starts afterwards fails, and ReadFull tries again for ever.
RecvName(f) ==
  /\ recv[f] = "name"
  /\ \/ /\ ~down[f[2]] /\ send[f] # "name"
        /\ recv' = [recv EXCEPT ![f] = "counter"]
     \/ /\ down[f[2]]
        /\ recv' = [recv EXCEPT ![f] = "spin"]
     \/ /\ down[f[1]] \/ down[f[2]]  \* read() returns 0
        /\ recv' = [recv EXCEPT ![f] = "exit"]
  /\ UNCHANGED <<main, todo, step, serve, send, go, down, locked, wire,
                 counter, measured, raced, reports>>

\* GetCounter, under mu_.
RecvCounter(f) ==
  /\ recv[f] = "counter" /\ f[2] \notin locked
  /\ recv' = [recv EXCEPT ![f] = "loop"]
  /\ UNCHANGED <<main, todo, step, serve, send, go, down, locked, wire,
                 counter, measured, raced, reports>>

Recv(f) ==
  /\ recv[f] = "loop" /\ ~down[f[2]] /\ wire[f] > 0
  /\ wire' = [wire EXCEPT ![f] = @ - 1]
  /\ counter' = [counter EXCEPT ![f].rcvd = @ + 1]
  /\ UNCHANGED <<main, todo, step, serve, send, recv, go, down, locked,
                 measured, raced, reports>>

\* shutting_down_ is looked at before every read; the read that Finish's
\* shutdown wakes returns.
RecvExits(f) ==
  /\ recv[f] = "loop" /\ down[f[2]]
  /\ recv' = [recv EXCEPT ![f] = "exit"]
  /\ UNCHANGED <<main, todo, step, serve, send, go, down, locked, wire,
                 counter, measured, raced, reports>>

---------------------------------------------------------------------------
(* CollectStep and Finish *)

\* What CollectStep makes of a flow's measurements: for a counter that
\* exists, another step with the growth since the last one.
Measured(m, c, exists) ==
  IF exists THEN [cum |-> c, steps |-> m.steps + (c - m.cum)] ELSE m

CollectStep ==
  /\ main[1] = "step" /\ step < NumSteps
  /\ measured' =
       [f \in Flows |->
          [sent |-> Measured(measured[f].sent, counter[f].sent,
                             send[f] # "none"),
           rcvd |-> Measured(measured[f].rcvd, counter[f].rcvd,
                             recv[f] \in {"loop", "exit"})]]
  /\ step' = step + 1
  /\ main' = IF step' = NumSteps THEN <<"finish", 1>> ELSE main
  /\ UNCHANGED <<todo, serve, send, recv, go, down, locked, wire, counter,
                 raced, reports>>

\* Finish: shutting_down_, the listening socket closed, then mu_ taken, which
\* is not given back before all threads are joined.
FinishLocks ==
  /\ main[1] = "finish" /\ main[2] \notin locked
  /\ LET w == main[2]
     IN  /\ down' = [down EXCEPT ![w] = TRUE]
         /\ locked' = locked \cup {w}
         /\ raced' = IF \/ serve[w] # <<"accept">>
                        \/ \E f \in Into(w) :
                             recv[f] \in {"accepted", "name", "counter"}
                     THEN raced \cup {w} ELSE raced
  /\ UNCHANGED <<main, todo, step, serve, send, recv, go, wire, counter,
                 measured, reports>>

FinishJoins ==
  /\ main[1] = "finish" /\ main[2] \in locked
  /\ LET w == main[2]
     IN  /\ serve[w] = <<"exit">>
         /\ \A f \in OutOf(w) : send[f] = "exit"
         /\ \A f \in Into(w) : recv[f] \in {"none", "backlog", "exit"}
         /\ locked' = locked \ {w}
         /\ main' = IF w < NumHosts THEN <<"finish", w + 1>>
                                    ELSE <<"collector", 1>>
  /\ UNCHANGED <<todo, step, serve, send, recv, go, down, wire, counter,
                 measured, raced, reports>>

---------------------------------------------------------------------------
(* FlowStateCollector *)

\* ReportState, then a wait of one period.
CollectPeriodicReport ==
  /\ reports = "report"
  /\ reports' = "wait"
  /\ UNCHANGED <<main, todo, step, serve, send, recv, go, down, locked, wire,
                 counter, measured, raced>>

\* The wait ends with another round, or with the thread once notified.
PeriodPasses ==
  /\ reports = "wait"
  /\ reports' = IF main[1] = "join" THEN "exit" ELSE "report"
  /\ UNCHANGED <<main, todo, step, serve, send, recv, go, down, locked, wire,
                 counter, measured, raced>>

CollectorFinish ==
  /\ main[1] = "collector"
  /\ main' = <<"join", 1>>
  /\ UNCHANGED <<todo, step, serve, send, recv, go, down, locked, wire,
                 counter, measured, raced, reports>>

Done ==
  /\ main[1] = "join" /\ reports = "exit"
  /\ main' = <<"done", 1>>
  /\ UNCHANGED <<todo, step, serve, send, recv, go, down, locked, wire,
                 counter, measured, raced, reports>>

---------------------------------------------------------------------------
Run == \/ \E f \in Flows : InitFlow(f)
       \/ InitDone \/ Go \/ CollectStep \/ FinishLocks \/ FinishJoins
       \/ CollectorFinish \/ Done

Sender(f) == SendName(f) \/ SendWakes(f) \/ SendCounts(f) \/ SendExits(f)
Receiver(f) == RecvName(f) \/ RecvCounter(f) \/ RecvExits(f)
Acceptor(w) == ServeExits(w) \/ \E f \in Into(w) : Accept(f) \/ Push(f)

Next ==
  \/ Run
  \/ \E f \in Flows : Sender(f) \/ Receiver(f) \/ Send(f) \/ Recv(f)
  \/ \E w \in HostWorkers : Acceptor(w)
  \/ CollectPeriodicReport \/ PeriodPasses

Spec == Init /\ [][Next]_vars

\* All threads run; sending and receiving may stop at any time.
FairSpec ==
  /\ Spec /\ WF_vars(Run)
  /\ \A f \in Flows : WF_vars(Sender(f)) /\ WF_vars(Receiver(f))
  /\ \A w \in HostWorkers : WF_vars(Acceptor(w))
  /\ WF_vars(CollectPeriodicReport \/ PeriodPasses)

---------------------------------------------------------------------------
\* Bytes are neither lost nor invented between the two counters of a flow,
\* and the measurements of the steps add up to what a counter showed when it
\* was last read.
Conserved ==
  \A f \in Flows :
    /\ counter[f].rcvd + wire[f]
         = counter[f].sent + (IF send[f] = "count" THEN 1 ELSE 0)
    /\ measured[f].sent.steps = measured[f].sent.cum
    /\ measured[f].sent.cum <= counter[f].sent
    /\ measured[f].rcvd.steps = measured[f].rcvd.cum
    /\ measured[f].rcvd.cum <= counter[f].rcvd

\* The test ends, unless some Finish took mu_ while a connection of its
\* worker was still being set up: then it joins a thread that waits for mu_,
\* or one that retries a read of a closed descriptor for ever.
TestEnds == <>(main[1] = "done" \/ raced # {})
===========================================================================
