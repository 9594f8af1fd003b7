----------------------------- MODULE ShardedMain -----------------------------
(***************************************************************************)
(* heyp/app/testlopri/client.cc and server.cc: main, which forks num_shards*)
(* processes that run ShardMain and waits for them in order.  A fork may   *)
(* fail, and its -1 is kept as the shard's pid: waitpid(-1) then waits for *)
(* any shard.  Shards end at any time, with the code ShardMain returns or  *)
(* by a signal.                                                            *)
(*                                                                         *)
(* A wait status is 256 * code for an exit, the signal otherwise; main     *)
(* returns the largest, of which the process keeps the low 8 bits.         *)
(***************************************************************************)
EXTENDS Integers, Sequences, FiniteSets, FiniteSetsExt

CONSTANTS
    MaxShards,     \* bound: num_shards
    Codes,         \* what ShardMain may return
    Signals        \* what may kill a shard (an assertion's abort included)

Shards == 0 .. MaxShards - 1
Statuses == {256 * c : c \in Codes} \cup Signals
Running == -1      \* status of a shard that runs
NoChild == -2      \* not forked, or the fork failed

VARIABLES
    num_shards,
    pids,          \* pids of main: a shard's number, or -1
    status,        \* of each shard
    reaped,        \* shards whose status waitpid has returned
    i,             \* the loops' index
    pc, ret

vars == <<num_shards, pids, status, reaped, i, pc, ret>>

Init ==
    /\ num_shards \in 0 .. MaxShards
    /\ pids = <<>>
    /\ status = [s \in Shards |-> NoChild]
    /\ reaped = {}
    /\ i = 0
    /\ pc = "start"
    /\ ret = 0

\* Arguments that do not parse, no shards, or one: ShardMain in the process.
Main ==
    /\ pc = "start"
    /\ \/ pc' = "exited" /\ ret' \in {2, 3, 4, 9}
       \/ num_shards = 0 /\ pc' = "exited" /\ UNCHANGED ret
       \/ num_shards = 1 /\ pc' = "exited" /\ ret' \in Codes
       \/ num_shards > 1 /\ pc' = "fork" /\ UNCHANGED ret
    /\ UNCHANGED <<num_shards, pids, status, reaped, i>>

Fork ==
    /\ pc = "fork"
    /\ \/ pids' = Append(pids, i) /\ status' = [status EXCEPT ![i] = Running]
       \/ pids' = Append(pids, -1) /\ UNCHANGED status
    /\ i' = (i + 1) % num_shards
    /\ pc' = IF i + 1 = num_shards THEN "wait" ELSE "fork"
    /\ UNCHANGED <<num_shards, reaped, ret>>

\* ShardMain: set-up errors, the run and its end.
ShardMain(s) ==
    /\ status[s] = Running
    /\ \E st \in Statuses : status' = [status EXCEPT ![s] = st]
    /\ UNCHANGED <<num_shards, pids, reaped, i, pc, ret>>

Forked == {s \in Shards : status[s] # NoChild}
\* The children waitpid(pids[i]) may return, and those it may wait for.
Waited == (IF pids[i + 1] = -1 THEN Forked ELSE {pids[i + 1]}) \ reaped

MaxOf(a, b) == IF a > b THEN a ELSE b

\* Mutant: a signal to main ends its wait for a shard.
WaitPid_Interrupted ==
    /\ pc = "wait"
    /\ \/ UNCHANGED <<reaped, ret>>
       \/ \E s \in Waited :
            /\ status[s] # Running
            /\ reaped' = reaped \cup {s}
            /\ ret' = MaxOf(ret, status[s])
    /\ i' = i + 1
    /\ pc' = IF i + 1 = num_shards THEN "exited" ELSE "wait"
    /\ UNCHANGED <<num_shards, pids, status>>

\* The second loop of main: waitpid(pids[i]), which fails without a child.
WaitPid ==
    /\ pc = "wait"
    /\ \/ /\ Waited = {}                                           \* ECHILD
          /\ UNCHANGED <<reaped, ret>>
       \/ \E s \in Waited :
            /\ status[s] # Running
            /\ reaped' = reaped \cup {s}
            /\ ret' = MaxOf(ret, status[s])
    /\ i' = i + 1
    /\ pc' = IF i + 1 = num_shards THEN "exited" ELSE "wait"
    /\ UNCHANGED <<num_shards, pids, status>>

Next == Main \/ Fork \/ WaitPid \/ \E s \in Shards : ShardMain(s)

Spec == Init /\ [][Next]_vars
-----------------------------------------------------------------------------
(* main does not end before its shards, whichever forks failed and in      *)
(* whatever order shards end: a waitpid(-1) takes the place of the wait    *)
(* that then finds its shard gone (client.cc:1255-1270, server.cc:164).    *)
NoOrphans == pc = "exited" => \A s \in Shards : status[s] # Running

(* What main returns is the worst status of all shards: none is lost when  *)
(* a waitpid(-1) reaps a shard out of turn (client.cc:1266-1268).          *)
WorstStatus ==
    (pc = "exited" /\ Forked # {}) => ret = Max({status[s] : s \in Forked} \cup {0})

(* The parent waits for every shard and hides no failure.                  *)
ShardsInv == NoOrphans /\ WorstStatus
=============================================================================
