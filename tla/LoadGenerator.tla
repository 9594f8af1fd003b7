-------------------------- MODULE LoadGenerator --------------------------
(***************************************************************************)
(* The testlopri client's load generators (heyp/app/testlopri/client.cc):  *)
(* OpenLoadGenerator and SemiOpenLoadGenerator with the WorkloadController *)
(* and the connection pool they drive.  One thread runs libuv's loop, so   *)
(* a callback runs alone; its own loop ("issue additional due requests")   *)
(* takes several steps, and the clock may advance between them.            *)
(*                                                                         *)
(* The loop sleeps in poll() until a timer, a write or a read wakes it;    *)
(* after each of those the check callback runs once.  Times are multiples  *)
(* of the 5 us that DeadlineExpired allows for the timer's precision.      *)
(***************************************************************************)
EXTENDS Integers, Sequences, SequencesExt, Functions

CONSTANTS Kinds,      \* which generators to run, among {"open", "semi"}
          RunDurs,    \* the run durations of the workload's stages
          Delays,     \* the interarrival times the distributions yield
          NumConns,   \* num_conns
          WritesPerConn, \* NumWritesIn(rpc size, kMaxQueueLenPerConnBytes)
          MaxTime,    \* the clock stops here, with every deadline expired
          MaxRetries  \* how often a connection attempt fails at most

VARIABLES
  kind,      \* the generator
  now,       \* uv_hrtime(), counted from hr_start_time_
  conns,     \* [connection -> requests out, or -1 before it is established]
  retries,
  run,       \* the callback being run, or "idle", or "stopped" after uv_stop
  hr_now,    \* the time that callback has read
  started,   \* issued_first_req_
  timer,     \* timer_is_running_, or the timer that starts the run
  iterate,   \* a wakeup whose check callback has not run yet
  next,      \* hr_next_, hr_scheduled_time_
  stage,     \* cur_stage_index_
  writes,    \* [connection -> requests libuv is still writing]
  lost,      \* writes that failed
  wip,       \* num_wip_write_
  closed     \* how often the stats recorder was closed

vars == <<kind, now, conns, retries, run, hr_now, started, timer, iterate,
          next, stage, writes, lost, wip, closed>>

Conns == 1..NumConns

max_queued_writes == WritesPerConn * NumConns

\* StagesFromConfig: a stage ends at the sum of the durations up to it.
StagesFromConfig(durs) ==
  [i \in DOMAIN durs |-> FoldSeq(LAMBDA d, sum : d + sum, 0,
                                 SubSeq(durs, 1, i))]

hr_cum_run_dur == StagesFromConfig(RunDurs)
hr_end_time == hr_cum_run_dur[Len(RunDurs)]

Init ==
  /\ kind \in Kinds
  /\ now = 0 /\ conns = [c \in Conns |-> -1] /\ retries = 0
  /\ run = "idle" /\ hr_now = 0 /\ started = FALSE /\ timer = FALSE
  /\ iterate = FALSE /\ next = 0 /\ stage = 1
  /\ writes = [c \in Conns |-> 0] /\ lost = 0 /\ wip = 0 /\ closed = 0

Clock ==
  /\ now < MaxTime
  /\ now' = now + 1
  /\ UNCHANGED <<kind, conns, retries, run, hr_now, started, timer, iterate,
                 next, stage, writes, lost, wip, closed>>

---------------------------------------------------------------------------
(* Connecting *)

MarkConnInitialized(c) == [conns EXCEPT ![c] = 0]
AllConnsInitialized(cs) == \A c \in Conns : cs[c] # -1

\* The last connection to come up starts the timer that starts the run.
OnConnect(c) ==
  /\ run = "idle" /\ conns[c] = -1
  /\ conns' = MarkConnInitialized(c)
  /\ timer' = AllConnsInitialized(conns')
  /\ UNCHANGED <<kind, now, retries, run, hr_now, started, iterate, next,
                 stage, writes, lost, wip, closed>>

\* A failed attempt is repeated.
OnConnectFails(c) ==
  /\ run = "idle" /\ conns[c] = -1 /\ retries < MaxRetries
  /\ retries' = retries + 1
  /\ UNCHANGED <<kind, now, conns, run, hr_now, started, timer, iterate, next,
                 stage, writes, lost, wip, closed>>

---------------------------------------------------------------------------
(* Callbacks start *)

Begin(callback) == run = "idle" /\ run' = callback /\ hr_now' = now

\* The timer has millisecond steps: it may be early as well as late.
OnTimerTick ==
  /\ timer
  /\ Begin("OnTimerTick")
  /\ timer' = FALSE
  /\ iterate' = TRUE
  /\ UNCHANGED <<kind, now, conns, retries, started, next, stage, writes,
                 lost, wip, closed>>

\* The check handle exists once the run has started.
OnCheckNextReq ==
  /\ iterate /\ started
  /\ Begin("OnCheckNextReq")
  /\ iterate' = FALSE
  /\ UNCHANGED <<kind, now, conns, retries, started, timer, next, stage,
                 writes, lost, wip, closed>>

\* Only the semi-open generator asks to be told of a write.
OnWriteDone(c) ==
  /\ writes[c] > 0
  /\ writes' = [writes EXCEPT ![c] = @ - 1]
  /\ iterate' = TRUE
  /\ \/ /\ kind = "semi"
        /\ Begin("OnWriteDone")
        /\ wip' = wip - 1
     \/ /\ kind = "open" /\ run = "idle"
        /\ UNCHANGED <<run, hr_now, wip>>
  /\ UNCHANGED <<kind, now, conns, retries, started, timer, next, stage, lost,
                 closed>>

\* ClientConn::OnWriteDone with an error takes the request off the
\* connection and tells the generator nothing.
OnWriteError(c) ==
  /\ run = "idle" /\ writes[c] > 0
  /\ writes' = [writes EXCEPT ![c] = @ - 1]
  /\ lost' = lost + 1
  /\ conns' = [conns EXCEPT ![c] = @ - 1]
  /\ iterate' = TRUE
  /\ UNCHANGED <<kind, now, retries, run, hr_now, started, timer, next, stage,
                 wip, closed>>

OnReadAck(c) ==
  /\ run = "idle" /\ conns[c] > writes[c]
  /\ conns' = [conns EXCEPT ![c] = @ - 1]
  /\ iterate' = TRUE
  /\ UNCHANGED <<kind, now, retries, run, hr_now, started, timer, next, stage,
                 writes, lost, wip, closed>>

---------------------------------------------------------------------------
(* The controller *)

DeadlineExpired(t, deadline) == deadline <= t + 1 \/ t = MaxTime

\* The scheduled time of the request that is next; the first is due at once.
Due == IF started THEN next ELSE hr_now

\* WithConn: the first connection with the fewest requests out.
WithConn ==
  CHOOSE c \in Conns :
    /\ \A d \in Conns : conns[c] <= conns[d]
    /\ \A d \in 1..(c - 1) : conns[c] < conns[d]

\* TryIssueRequest of the controller, at the scheduled time: a stage that is
\* over is left, but its last request is the one that found out.
Teardown(t) == stage > Len(RunDurs) \/ t > hr_end_time

NextStage(t) ==
  IF stage <= Len(RunDurs) /\ t > hr_cum_run_dur[stage]
  THEN stage + 1 ELSE stage

Issue ==
  /\ stage' = NextStage(Due)
  /\ conns' = [conns EXCEPT ![WithConn] = @ + 1]
  /\ writes' = [writes EXCEPT ![WithConn] = @ + 1]

\* The recorder is closed and the loop stopped.
TearDown ==
  /\ run \in {"OnTimerTick", "OnWriteDone", "OnCheckNextReq", "Recheck"}
  /\ DeadlineExpired(hr_now, Due) /\ Teardown(Due)
  /\ kind = "semi" => wip # max_queued_writes
  /\ closed' = closed + 1
  /\ run' = "stopped" /\ timer' = FALSE
  /\ stage' = NextStage(Due)
  /\ started' = TRUE
  /\ UNCHANGED <<kind, now, conns, retries, hr_now, iterate, next, writes,
                 lost, wip>>

---------------------------------------------------------------------------
(* OpenLoadGenerator *)

OpenRequest ==
  /\ kind = "open" /\ run \in {"OnTimerTick", "OnCheckNextReq"}
  /\ DeadlineExpired(hr_now, Due) /\ ~Teardown(Due)
  /\ started' = TRUE
  /\ Issue
  /\ \E d \in Delays :
       next' = Due + d
  /\ UNCHANGED <<kind, now, retries, run, hr_now, timer, iterate, lost, wip,
                 closed>>

\* Nothing more is due: only the timer's own callback restarts it.
OpenDone ==
  /\ kind = "open" /\ run \in {"OnTimerTick", "OnCheckNextReq"}
  /\ ~DeadlineExpired(hr_now, Due)
  /\ timer' = (timer \/ run = "OnTimerTick")
  /\ run' = "idle"
  /\ UNCHANGED <<kind, now, conns, retries, hr_now, started, iterate, next,
                 stage, writes, lost, wip, closed>>

---------------------------------------------------------------------------
(* SemiOpenLoadGenerator::MaybeIssueScheduleRequest *)

SemiCallbacks == {"OnTimerTick", "OnWriteDone", "OnCheckNextReq", "Recheck"}

WaitingOnWrite ==
  IF run = "OnWriteDone" THEN wip >= max_queued_writes - 1
                         ELSE wip = max_queued_writes

\* Mutant: the timer is left off.
NotDue_NoTimer ==
  /\ kind = "semi" /\ run \in SemiCallbacks
  /\ ~DeadlineExpired(hr_now, Due)
  /\ run' = "idle"
  /\ UNCHANGED <<kind, now, conns, retries, hr_now, started, timer, iterate,
                 next, stage, writes, lost, wip, closed>>

\* The next request is not due: the timer waits for it, unless a write must
\* finish first.
NotDue ==
  /\ kind = "semi" /\ run \in SemiCallbacks
  /\ ~DeadlineExpired(hr_now, Due)
  /\ timer' = (timer \/ wip < max_queued_writes)
  /\ run' = "idle"
  /\ UNCHANGED <<kind, now, conns, retries, hr_now, started, iterate, next,
                 stage, writes, lost, wip, closed>>

TooBusy ==
  /\ kind = "semi" /\ run \in SemiCallbacks
  /\ DeadlineExpired(hr_now, Due) /\ wip = max_queued_writes
  /\ run' = "idle"
  /\ UNCHANGED <<kind, now, conns, retries, hr_now, started, timer, iterate,
                 next, stage, writes, lost, wip, closed>>

\* After a write the next request is counted from now, not from the schedule.
SemiRequest ==
  /\ kind = "semi" /\ run \in SemiCallbacks
  /\ DeadlineExpired(hr_now, Due) /\ wip # max_queued_writes
  /\ ~Teardown(Due)
  /\ started' = TRUE
  /\ Issue
  /\ wip' = wip + 1
  /\ timer' = FALSE
  /\ \E d \in Delays :
       next' = (IF run = "OnWriteDone" THEN hr_now ELSE Due) + d
  /\ run' = IF wip' < max_queued_writes THEN "Recheck" ELSE "idle"
  /\ UNCHANGED <<kind, now, retries, hr_now, iterate, lost, closed>>

---------------------------------------------------------------------------
Callback == OpenRequest \/ OpenDone \/ NotDue \/ TooBusy \/ SemiRequest
            \/ TearDown

Loop ==
  \/ \E c \in Conns : \/ OnConnect(c) \/ OnConnectFails(c) \/ OnReadAck(c)
                      \/ OnWriteDone(c) \/ OnWriteError(c)
  \/ OnTimerTick \/ OnCheckNextReq

Next == Clock \/ Loop \/ Callback

Spec == Init /\ [][Next]_vars

\* The loop runs, connections come up in the end, a write has an outcome in
\* the end; nothing is assumed of the server's answers.
FairSpec ==
  /\ Spec /\ WF_vars(Clock) /\ WF_vars(Callback)
  /\ WF_vars(OnTimerTick)
  /\ \A c \in Conns : /\ WF_vars(OnConnect(c))
                      /\ WF_vars(OnWriteDone(c) \/ OnWriteError(c))

---------------------------------------------------------------------------
\* The assertion at the head of MaybeIssueScheduleRequest (client.cc:863),
\* which stops the program: whoever calls, the generator was waiting for its
\* timer or for a write.
AssertWaiting ==
  kind = "semi" /\ started /\ run \in SemiCallbacks \ {"Recheck"} =>
    timer \/ run = "OnTimerTick" \/ WaitingOnWrite

\* Between callbacks something will wake the generator: its timer runs, or as
\* many writes are out as it allows.  num_wip_write_ counts the writes out and
\* the failed ones, which it never hears of.
NeverAsleep ==
  started /\ run = "idle" =>
    \/ timer
    \/ kind = "semi" /\ wip = max_queued_writes
       /\ wip = lost + FoldFunction(+, 0, writes)

\* The generator is always waiting for something that will come.
GeneratorInv == AssertWaiting /\ NeverAsleep

\* The run ends and the recorder is closed, once, unless every write that the
\* semi-open generator allows itself has failed.
RunEnds == <>[](closed = 1 \/ (kind = "semi" /\ lost >= max_queued_writes))
===========================================================================
