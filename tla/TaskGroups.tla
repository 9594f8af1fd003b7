----------------------------- MODULE TaskGroups -----------------------------
(***************************************************************************)
(* What heyp/threads/executor.h promises its callers: a group collects     *)
(* tasks, every task runs once, and WaitAll returns when all tasks of its  *)
(* group have, with the status of the first that failed.  How the tasks    *)
(* are queued, and which thread runs them, is Executor.tla.                *)
(***************************************************************************)
CONSTANTS Groups,      \* task groups, each made and awaited by its owner
          Slots        \* a task is <<group, slot>>

VARIABLES submitted,   \* tasks handed to AddTask
          finished,    \* tasks that ran
          failure,     \* group -> the first status that was not OK
          result       \* group -> what WaitAll returned

avars == <<submitted, finished, failure, result>>

OK == "ok"
Pending == "pending"
Statuses == {OK, "failed", "aborted"}

Of(g, ts) == {t \in ts : t[1] = g}

Init == /\ submitted = {} /\ finished = {}
        /\ failure = [g \in Groups |-> OK]
        /\ result = [g \in Groups |-> Pending]

Submit(t) ==
    /\ t \notin submitted /\ result[t[1]] = Pending
    /\ submitted' = submitted \cup {t}
    /\ UNCHANGED <<finished, failure, result>>

Finish(t, st) ==
    /\ t \in submitted \ finished
    /\ finished' = finished \cup {t}
    /\ failure' = [failure EXCEPT ![t[1]] = IF @ = OK THEN st ELSE @]
    /\ UNCHANGED <<submitted, result>>

Return(g) ==
    /\ result[g] = Pending
    /\ Of(g, submitted) \subseteq finished
    /\ result' = [result EXCEPT ![g] = failure[g]]
    /\ UNCHANGED <<submitted, finished, failure>>

Next == \/ \E t \in Groups \X Slots : Submit(t) \/ \E st \in Statuses : Finish(t, st)
        \/ \E g \in Groups : Return(g)

Spec == Init /\ [][Next]_avars
=============================================================================
