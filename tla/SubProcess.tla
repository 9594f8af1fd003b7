---------------------------- MODULE SubProcess ----------------------------
(***************************************************************************)
(* heyp/io/subprocess.cc, the class through which the host agent runs tc,  *)
(* iptables and ip, as its callers use it: one owner thread calls Start,   *)
(* mostly KillAfter, Communicate and then the destructor.  KillAfter adds  *)
(* a thread that sends SIGTERM when its timeout passes and wakes           *)
(* Communicate through a pipe of its own.  proc_mu_ is modelled where it   *)
(* is held across a wait, which only the destructor does; every other      *)
(* critical section is one atomic step.                                    *)
(*                                                                         *)
(* The child may write, exit, ignore SIGTERM, and leave behind a process   *)
(* that keeps its end of the pipes open.                                   *)
(***************************************************************************)
EXTENDS Integers, FiniteSets

CONSTANTS MaxOutput,  \* how many pieces of output a child writes at most
          Piped       \* the channels with ACTION_PIPE, among {"in", "out"}

VARIABLES
  owner,    \* where the owner thread is
  timer,    \* where KillAfter's thread is
  child,    \* the process as the kernel sees it: none, run, zombie, reaped
  stubborn, \* the child ignores SIGTERM
  heir,     \* a descendant of the child still holds the child's pipe ends
  stdout,   \* [put |-> pieces written, got |-> pieces Communicate has read]
  running,  \* running_ (with pid_)
  notify,   \* notify_done_: none, set, or cleared once notified
  fds,      \* the descriptors this object owns
  polled,   \* the channels Communicate still polls
  timedout, \* Communicate broke out because the timeout pipe was readable
  raced,    \* the destructor took proc_mu_ when the timer was about to
  status    \* what Communicate returns: none, ok, or failed

vars == <<owner, timer, child, stubborn, heir, stdout, running, notify, fds,
          polled, timedout, raced, status>>

io == <<stdout, heir, stubborn>>

ParentEnds == {<<"parent", c>> : c \in Piped}
ChildEnds == {<<"child", c>> : c \in Piped}
TimeoutPipe == {<<"timeout", "read">>, <<"timeout", "write">>}

TypeOK ==
  /\ owner \in {"new", "started", "armed", "poll", "wait", "clear", "dtor", "join",
                "end"}
  /\ timer \in {"none", "sleep", "lock", "kill", "signal", "exit"}
  /\ child \in {"none", "run", "zombie", "reaped"}
  /\ stdout.got \in 0..stdout.put /\ stdout.put \in 0..MaxOutput
  /\ notify \in {"none", "set", "notified"}
  /\ fds \subseteq ParentEnds \cup ChildEnds \cup TimeoutPipe
  /\ polled \subseteq Piped
  /\ status \in {"none", "ok", "failed"}

Init ==
  /\ owner = "new" /\ timer = "none" /\ child = "none"
  /\ stubborn \in BOOLEAN /\ heir = FALSE
  /\ stdout = [put |-> 0, got |-> 0]
  /\ running = FALSE /\ notify = "none" /\ fds = {} /\ polled = {}
  /\ timedout = FALSE /\ raced = FALSE
  /\ status = "none"

---------------------------------------------------------------------------
(* The child *)

ChildWrites ==
  /\ child = "run" /\ stdout.put < MaxOutput
  /\ stdout' = [stdout EXCEPT !.put = @ + 1]
  /\ UNCHANGED <<owner, timer, child, stubborn, heir, running, notify, fds,
                 polled, timedout, raced, status>>

\* A descendant may outlive the child with the pipes still open.
ChildExits ==
  /\ child = "run"
  /\ child' = "zombie"
  /\ heir' \in BOOLEAN
  /\ UNCHANGED <<owner, timer, stubborn, stdout, running, notify, fds, polled,
                 timedout, raced, status>>

\* What delivering SIGTERM does: a child that does not ignore it dies.
Sigterm(c) == IF c = "run" /\ ~stubborn THEN "zombie" ELSE c

---------------------------------------------------------------------------
(* Start *)

\* pipe() or posix_spawnp() fails after some pipes were made: ClosePipes, and
\* the caller gives up, so the object is destroyed next.
StartFails ==
  /\ owner = "new"
  /\ owner' = "dtor" /\ status' = "failed"
  /\ UNCHANGED <<timer, child, io, running, notify, fds, polled, timedout, raced>>

\* The child has its ends, this process keeps the parent's and closes the
\* child's.
Start ==
  /\ owner = "new"
  /\ child' = "run" /\ running' = TRUE
  /\ fds' = ParentEnds
  /\ owner' = "started"
  /\ UNCHANGED <<timer, io, notify, polled, timedout, raced,
                 status>>

---------------------------------------------------------------------------
(* KillAfter *)

KillAfter ==
  /\ owner = "started"
  /\ timer' = "sleep" /\ notify' = "set"
  /\ owner' = "armed"
  /\ UNCHANGED <<child, io, running, fds, polled, timedout, raced,
                 status>>

\* WaitForNotificationWithTimeout: the notification ends the thread ...
TimerNotified ==
  /\ timer = "sleep" /\ notify = "notified"
  /\ timer' = "exit"
  /\ UNCHANGED <<owner, child, io, running, notify, fds, polled, timedout, raced, status>>

\* ... the timeout sends it after proc_mu_.
TimerFires ==
  /\ timer = "sleep" /\ notify = "set"
  /\ timer' = "lock"
  /\ UNCHANGED <<owner, child, io, running, notify, fds, polled, timedout, raced, status>>

\* Reads running_ and pid_ under proc_mu_, which the destructor may hold.
TimerReads ==
  /\ timer = "lock" /\ owner # "join"
  /\ timer' = IF running THEN "kill" ELSE "sleep"
  /\ UNCHANGED <<owner, child, io, running, notify, fds, polled, timedout,
                 raced, status>>

\* kill() is called without the lock: the pid may have been reaped by then,
\* and kill() fails unless the number is in use again.
TimerKills ==
  /\ timer = "kill"
  /\ child' = Sigterm(child)
  /\ \/ timer' = "signal"
     \/ child = "reaped" /\ timer' = "sleep"
  /\ UNCHANGED <<owner, io, running, notify, fds, polled, timedout,
                 raced, status>>

\* Writes to the timeout pipe, if Communicate has made it, and closes it.
TimerSignals ==
  /\ timer = "signal" /\ owner # "join"
  /\ fds' = fds \ {<<"timeout", "write">>}
  /\ timer' = "sleep"
  /\ UNCHANGED <<owner, child, io, running, notify, polled, timedout,
                 raced, status>>

---------------------------------------------------------------------------
(* Communicate *)

\* Makes the timeout pipe if there is a timer and polls what is piped.  Some
\* callers set no timeout.
Communicate ==
  /\ owner \in {"started", "armed"}
  /\ fds' = IF notify = "set" THEN fds \cup TimeoutPipe ELSE fds
  /\ polled' = Piped
  /\ owner' = "poll"
  /\ UNCHANGED <<timer, child, io, running, notify, timedout, raced, status>>

TimeoutReadable ==
  /\ <<"timeout", "read">> \in fds
  /\ <<"timeout", "write">> \notin fds

\* Nobody but this process can still write to the pipe: it reads as closed.
Hangup == child \in {"zombie", "reaped"} /\ ~heir /\ ChildEnds \cap fds = {}

\* The timeout pipe is looked at before the others; input is abandoned.
PollTimeout ==
  /\ owner = "poll" /\ polled # {} /\ TimeoutReadable
  /\ timedout' = TRUE
  /\ fds' = fds \ {<<"parent", "in">>}
  /\ owner' = "wait"
  /\ UNCHANGED <<timer, child, io, running, notify, polled, raced,
                 status>>

\* Mutant: a hangup ends the channel even with output left in it.
PollRead_Hangup ==
  /\ owner = "poll" /\ "out" \in polled /\ ~TimeoutReadable
  /\ \/ /\ stdout.got < stdout.put /\ ~Hangup
        /\ stdout' = [stdout EXCEPT !.got = @ + 1]
        /\ UNCHANGED polled
     \/ /\ Hangup
        /\ polled' = polled \ {"out"}
        /\ UNCHANGED stdout
  /\ UNCHANGED <<owner, timer, child, stubborn, heir, running, notify, fds,
                 timedout, raced, status>>

\* Output is read as it comes, and the channel given up only at its end.
PollRead ==
  /\ owner = "poll" /\ "out" \in polled /\ ~TimeoutReadable
  /\ \/ /\ stdout.got < stdout.put
        /\ stdout' = [stdout EXCEPT !.got = @ + 1]
        /\ UNCHANGED polled
     \/ /\ stdout.got = stdout.put /\ Hangup
        /\ polled' = polled \ {"out"}
        /\ UNCHANGED stdout
  /\ UNCHANGED <<owner, timer, child, stubborn, heir, running, notify, fds,
                 timedout, raced, status>>

\* All of the input is written and the pipe closed, or the child has gone and
\* the channel is dropped.
PollWrite ==
  /\ owner = "poll" /\ "in" \in polled /\ ~TimeoutReadable
  /\ polled' = polled \ {"in"}
  /\ \/ /\ child = "run" \/ heir
        /\ fds' = fds \ {<<"parent", "in">>}
     \/ /\ Hangup
        /\ UNCHANGED fds
  /\ UNCHANGED <<owner, timer, child, io, running, notify, timedout,
                 raced, status>>

PollDone ==
  /\ owner = "poll" /\ polled = {}
  /\ owner' = "wait"
  /\ UNCHANGED <<timer, child, io, running, notify, fds, polled, timedout, raced, status>>

---------------------------------------------------------------------------
(* WaitInternal *)

\* waitpid, which blocks until the child exits; running_ is still set.
WaitPid ==
  /\ owner = "wait" /\ child = "zombie"
  /\ child' = "reaped"
  /\ owner' = "clear"
  /\ UNCHANGED <<timer, io, running, notify, fds, polled, timedout,
                 raced, status>>

\* running_ is cleared under proc_mu_ and the timer told.
WaitClear ==
  /\ owner = "clear"
  /\ running' = FALSE
  /\ notify' = IF notify = "set" THEN "notified" ELSE notify
  /\ status' \in {"ok", "failed"}
  /\ owner' = "dtor"
  /\ UNCHANGED <<timer, child, io, fds, polled, timedout, raced>>

---------------------------------------------------------------------------
(* The destructor holds both locks from here to its end *)

DestructorLocks ==
  /\ owner = "dtor"
  /\ running' = FALSE
  /\ notify' = IF notify = "set" THEN "notified" ELSE notify
  /\ raced' = (timer \in {"lock", "kill", "signal"})
  /\ owner' = "join"
  /\ UNCHANGED <<timer, child, io, fds, polled, timedout, status>>

\* timeout_thread_.join(), then ClosePipes.
DestructorJoins ==
  /\ owner = "join" /\ timer \in {"none", "exit"}
  /\ fds' = {}
  /\ owner' = "end"
  /\ UNCHANGED <<timer, child, io, running, notify, polled, timedout,
                 raced, status>>

---------------------------------------------------------------------------
Owner ==
  \/ StartFails \/ Start \/ KillAfter \/ Communicate
  \/ PollTimeout \/ PollRead \/ PollWrite \/ PollDone
  \/ WaitPid \/ WaitClear \/ DestructorLocks \/ DestructorJoins

Timer ==
  TimerNotified \/ TimerFires \/ TimerReads \/ TimerKills \/ TimerSignals

Child == ChildWrites \/ ChildExits

Next == Owner \/ Timer \/ Child

Spec == Init /\ [][Next]_vars

\* Both threads are scheduled; a child owes nothing.
FairSpec == Spec /\ WF_vars(Owner) /\ WF_vars(Timer)

---------------------------------------------------------------------------
\* Communicate returns all that the child wrote, unless the timeout cut it
\* short.
OutputComplete ==
  /\ owner \in {"wait", "clear", "dtor"} /\ child \in {"zombie", "reaped"}
  /\ ~timedout /\ "out" \in Piped
  => stdout.got = stdout.put

\* When the destructor ends nothing of the call is left: no open descriptor,
\* no unreaped process, and no timer thread that could touch the object.
NothingLeft ==
  owner = "end" =>
    fds = {} /\ child \in {"none", "reaped"} /\ timer \in {"none", "exit"}

\* A call of a command loses no output and leaves nothing behind.
ProcessInv == OutputComplete /\ NothingLeft

\* With a timeout, Communicate returns for every child that SIGTERM ends,
\* even when a descendant keeps the pipes open for ever and even when the
\* first timeout passes before Communicate has made its pipe.
CommunicateEnds ==
  (owner = "poll" /\ notify = "set" /\ ~stubborn) ~> (owner = "dtor")

\* The destructor returns, provided the timer was not between its timeout
\* and its reads when the destructor took proc_mu_ (subprocess.cc:118): then
\* the join waits for a thread that waits for proc_mu_.
ProcessGone == (owner = "join" /\ ~raced) ~> (owner = "end")
===========================================================================
