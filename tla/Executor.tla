------------------------------ MODULE Executor ------------------------------
(***************************************************************************)
(* heyp/threads/executor.cc: a pool of worker threads that share one stack *)
(* of tasks, the task groups that fill it, and the two ways to wait: for   *)
(* the tasks of a group (TaskGroup::WaitAll) and for all groups            *)
(* (~Executor, through the WaitGroup children_).  The thread that makes a  *)
(* group adds its tasks and waits for them; ClusterAllocator and           *)
(* StatsRecorder use groups this way.                                      *)
(*                                                                         *)
(* ran and finished are history: how often each task's function ran, and   *)
(* the tasks that finished.                                                *)
(***************************************************************************)
EXTENDS Integers, Sequences, FiniteSets, FiniteSetTheorems, TLAPS

CONSTANTS Workers,     \* threads of workers_
          Groups,
          MaxTasks     \* bound: tasks of a group

VARIABLES
    tasks, is_dead,          \* st_
    children,                \* count of the WaitGroup children_
    wpc, wtask, wdead, wst,  \* a worker's place, next_fn, is_dead and fn()'s status
    gpc,                     \* place of the thread that uses the group
    added,                   \* tasks the group's user began to add
    count, status,           \* TaskGroup
    got,                     \* what WaitAll returned
    dpc,                     \* place of the thread that destroys the executor
    ran, finished

vars == <<tasks, is_dead, children, wpc, wtask, wdead, wst, gpc, added, count,
          status, got, dpc, ran, finished>>

Slots == 1 .. MaxTasks
Tasks == Groups \X Slots
OK == "ok"
Pending == "pending"
Statuses == {OK, "failed", "aborted"}
NoTask == <<>>

Init ==
    /\ tasks = <<>> /\ is_dead = FALSE /\ children = 0
    /\ wpc = [w \in Workers |-> "wait"]
    /\ wtask = [w \in Workers |-> NoTask]
    /\ wdead = [w \in Workers |-> FALSE]
    /\ wst = [w \in Workers |-> OK]
    /\ gpc = [g \in Groups |-> "none"]
    /\ added = [g \in Groups |-> 0]
    /\ count = [g \in Groups |-> 0]
    /\ status = [g \in Groups |-> OK]
    /\ got = [g \in Groups |-> Pending]
    /\ dpc = "alive"
    /\ ran = [t \in Tasks |-> 0] /\ finished = {}
-----------------------------------------------------------------------------
(* The user of a group. *)

\* No call on the executor itself may overlap its destructor; calls on a
\* group may.
NewTaskGroup(g) ==
    /\ gpc[g] = "none" /\ dpc = "alive"
    /\ children' = children + 1
    /\ gpc' = [gpc EXCEPT ![g] = "open"]
    /\ UNCHANGED <<tasks, is_dead, wpc, wtask, wdead, wst, added, count, status, got,
                   dpc, ran, finished>>

\* Mutant: the task is pushed without being counted.
AddTaskCount_Missing(g) ==
    /\ gpc[g] = "open" /\ added[g] < MaxTasks
    /\ added' = [added EXCEPT ![g] = @ + 1]
    /\ gpc' = [gpc EXCEPT ![g] = "adding"]
    /\ UNCHANGED <<tasks, is_dead, children, wpc, wtask, wdead, wst, count, status, got,
                   dpc, ran, finished>>

\* AddTask, first block: count_++ under the group's lock.
AddTaskCount(g) ==
    /\ gpc[g] = "open" /\ added[g] < MaxTasks
    /\ added' = [added EXCEPT ![g] = @ + 1]
    /\ count' = [count EXCEPT ![g] = @ + 1]
    /\ gpc' = [gpc EXCEPT ![g] = "adding"]
    /\ UNCHANGED <<tasks, is_dead, children, wpc, wtask, wdead, wst, status, got, dpc,
                   ran, finished>>

\* AddTask, second block: push_back under the executor's lock.
AddTaskPush(g) ==
    /\ gpc[g] = "adding"
    /\ tasks' = Append(tasks, <<g, added[g]>>)
    /\ gpc' = [gpc EXCEPT ![g] = "open"]
    /\ UNCHANGED <<is_dead, children, wpc, wtask, wdead, wst, added, count, status, got,
                   dpc, ran, finished>>

\* WaitAll returns the status it read under the group's lock ...
WaitAll(g) ==
    /\ gpc[g] = "open" /\ count[g] = 0
    /\ got' = [got EXCEPT ![g] = status[g]]
    /\ gpc' = [gpc EXCEPT ![g] = "waited"]
    /\ UNCHANGED <<tasks, is_dead, children, wpc, wtask, wdead, wst, added, count, status,
                   dpc, ran, finished>>

\* ... after it told the executor, children_.Done(); exec_ = nullptr.
Detach(g) ==
    /\ gpc[g] = "waited"
    /\ children' = children - 1
    /\ gpc' = [gpc EXCEPT ![g] = "detached"]
    /\ UNCHANGED <<tasks, is_dead, wpc, wtask, wdead, wst, added, count, status, got, dpc,
                   ran, finished>>
-----------------------------------------------------------------------------
(* A worker thread. *)

\* LockWhen(a task or is_dead), read, Unlock: the newest task first.
Take(w) ==
    /\ wpc[w] = "wait"
    /\ tasks # <<>> \/ is_dead
    /\ wdead' = [wdead EXCEPT ![w] = is_dead]
    /\ IF tasks # <<>>
       THEN /\ wtask' = [wtask EXCEPT ![w] = tasks[Len(tasks)]]
            /\ tasks' = SubSeq(tasks, 1, Len(tasks) - 1)
            /\ wpc' = [wpc EXCEPT ![w] = "run"]
       ELSE wpc' = [wpc EXCEPT ![w] = "exited"] /\ UNCHANGED <<wtask, tasks>>
    /\ UNCHANGED <<is_dead, children, wst, gpc, added, count, status, got, dpc, ran,
                   finished>>

\* next_fn() runs the task's function, which may fail.
Run(w, st) ==
    /\ wpc[w] = "run"
    /\ ran' = [ran EXCEPT ![wtask[w]] = @ + 1]
    /\ wst' = [wst EXCEPT ![w] = st]
    /\ wpc' = [wpc EXCEPT ![w] = "report"]
    /\ UNCHANGED <<tasks, is_dead, children, wtask, wdead, gpc, added, count, status, got,
                   dpc, finished>>

\* Mutant: the last failure is kept.
Updated_Last(old, st) == IF st = OK THEN old ELSE st

\* status_.Update(st) keeps the first failure.
Updated(old, st) == IF old = OK THEN st ELSE old

\* The rest of the closure, under the group's lock.
Report(w) ==
    LET g == wtask[w][1] IN
    /\ wpc[w] = "report"
    /\ status' = [status EXCEPT ![g] = Updated(@, wst[w])]
    /\ count' = [count EXCEPT ![g] = @ - 1]
    /\ finished' = finished \cup {wtask[w]}
    /\ wtask' = [wtask EXCEPT ![w] = NoTask]
    /\ wpc' = [wpc EXCEPT ![w] = IF wdead[w] THEN "exited" ELSE "wait"]
    /\ UNCHANGED <<tasks, is_dead, children, wdead, wst, gpc, added, got, dpc, ran>>
-----------------------------------------------------------------------------
(* ~Executor. *)

Destroy == /\ dpc = "alive"
           /\ dpc' = "waiting"
           /\ UNCHANGED <<tasks, is_dead, children, wpc, wtask, wdead, wst, gpc, added,
                          count, status, got, ran, finished>>

\* children_.Wait(), then is_dead under the lock.
ChildrenWait ==
    /\ dpc = "waiting" /\ children = 0
    /\ is_dead' = TRUE
    /\ dpc' = "joining"
    /\ UNCHANGED <<tasks, children, wpc, wtask, wdead, wst, gpc, added, count, status, got,
                   ran, finished>>

Join == /\ dpc = "joining"
        /\ \A w \in Workers : wpc[w] = "exited"
        /\ dpc' = "gone"
        /\ UNCHANGED <<tasks, is_dead, children, wpc, wtask, wdead, wst, gpc, added, count,
                       status, got, ran, finished>>
-----------------------------------------------------------------------------
User(g) == NewTaskGroup(g) \/ AddTaskCount(g) \/ AddTaskPush(g) \/ WaitAll(g) \/ Detach(g)

Worker(w) == Take(w) \/ Report(w) \/ \E st \in Statuses : Run(w, st)

Destructor == Destroy \/ ChildrenWait \/ Join

Next == (\E g \in Groups : User(g)) \/ (\E w \in Workers : Worker(w)) \/ Destructor

Spec == Init /\ [][Next]_vars

\* A worker and the destructor are threads of their own; a thread that made
\* a group finishes what it began and calls WaitAll (~TaskGroup aborts the
\* process otherwise).
Fairness ==
    /\ \A w \in Workers : WF_vars(Worker(w))
    /\ \A g \in Groups : WF_vars(AddTaskPush(g)) /\ WF_vars(WaitAll(g)) /\ WF_vars(Detach(g))
    /\ WF_vars(ChildrenWait) /\ WF_vars(Join)

FairSpec == Spec /\ Fairness
-----------------------------------------------------------------------------
\* The tasks of a group that were added and have not finished.
Submitted == {t \in Tasks : t[2] <= added[t[1]]}
Outstanding(g) == {t \in Submitted \ finished : t[1] = g}

\* Where an unfinished task is: about to be pushed, in the stack, or with a
\* worker.
Held(t) == \/ gpc[t[1]] = "adding" /\ t[2] = added[t[1]]
           \/ \E i \in DOMAIN tasks : tasks[i] = t
           \/ \E w \in Workers : wtask[w] = t

\* Types of the pool's and the groups' state.
TypeOK ==
    /\ tasks \in Seq(Tasks) /\ is_dead \in BOOLEAN /\ children \in Int
    /\ wpc \in [Workers -> {"wait", "run", "report", "exited"}]
    /\ wtask \in [Workers -> Tasks \cup {NoTask}]
    /\ wdead \in [Workers -> BOOLEAN] /\ wst \in [Workers -> Statuses]
    /\ gpc \in [Groups -> {"none", "open", "adding", "waited", "detached"}]
    /\ added \in [Groups -> 0 .. MaxTasks] /\ count \in [Groups -> Int]
    /\ status \in [Groups -> Statuses] /\ got \in [Groups -> Statuses \cup {Pending}]
    /\ dpc \in {"alive", "waiting", "joining", "gone"}
    /\ ran \in [Tasks -> Nat] /\ finished \subseteq Tasks

\* count_ is the number of tasks WaitAll still has to wait for, although the
\* count, the push, the run and the decrement happen under different locks.
CountIsOutstanding == \A g \in Groups : count[g] = Cardinality(Outstanding(g))

\* Every task runs once: one that has not finished is in exactly one place
\* and one that has finished ran once.
RunsOnce ==
    \A t \in Tasks :
        /\ ran[t] <= 1
        /\ t \in finished => ran[t] = 1 /\ ~Held(t)
        /\ t \in Submitted \ finished => Held(t)

\* WaitAll is a barrier: once it returned, every task of the group has run
\* (ClusterAllocator::GetAllocs reads what the tasks wrote).
WaitAllIsBarrier ==
    \A g \in Groups : got[g] # Pending =>
        /\ Outstanding(g) = {}
        /\ \A t \in Submitted : t[1] = g => ran[t] = 1

\* The workers are told to exit when no task is left, not even one about to
\* be pushed: a worker that saw is_dead runs at most one more task, and
\* AddTask asserts that the executor is alive.
DeadIsIdle ==
    is_dead => /\ tasks = <<>>
               /\ \A w \in Workers : wpc[w] \in {"wait", "exited"}
               /\ \A g \in Groups : gpc[g] # "adding"

\* No task is lost, run twice or forgotten by a count, whatever the order in
\* which groups, workers and the destructor take their locks.
PoolInv == TypeOK /\ CountIsOutstanding /\ RunsOnce /\ WaitAllIsBarrier /\ DeadIsIdle

Pool == INSTANCE TaskGroups WITH submitted <- Submitted, failure <- status, result <- got

\* The executor implements TaskGroups: whatever the interleaving, its callers
\* see tasks that finish once each and a WaitAll that returns the first
\* failure.
PoolSpec == Pool!Spec

\* ~Executor returns: the groups are waited for, then every worker leaves its
\* loop.
DestructorReturns == dpc = "waiting" ~> dpc = "gone"

\* A task that AddTask took is run, although the stack serves the newest
\* first.
TasksRun == \A t \in Tasks : t \in Submitted ~> t \in finished
-----------------------------------------------------------------------------
(* The proof that the executor implements TaskGroups, for any number of    *)
(* workers, groups and tasks.                                              *)

\* The tasks about to be pushed, which their groups already count.
InAddTask == {<<g, added[g]>> : g \in {h \in Groups : gpc[h] = "adding"}}

\* An unfinished task is at one place only, ...
OnePlace ==
    /\ \A i \in DOMAIN tasks :
         /\ tasks[i] \in Submitted \ finished /\ tasks[i] \notin InAddTask
         /\ \A w \in Workers : wtask[w] # tasks[i]
         /\ \A j \in DOMAIN tasks : tasks[i] = tasks[j] => i = j
    /\ \A w \in Workers :
         IF wpc[w] \in {"run", "report"}
         THEN /\ wtask[w] \in Submitted \ finished /\ wtask[w] \notin InAddTask
              /\ \A v \in Workers : wtask[v] = wtask[w] => v = w
         ELSE wtask[w] = NoTask
    /\ InAddTask \subseteq Submitted \ finished

\* ... its group counts it, and a group has its result only at the end.
GroupInv ==
    /\ finished \subseteq Submitted
    /\ \A g \in Groups :
         /\ IsFiniteSet(Outstanding(g)) /\ count[g] = Cardinality(Outstanding(g))
         /\ gpc[g] \in {"none", "open", "adding"} => got[g] = Pending

EInv == TypeOK /\ OnePlace /\ GroupInv

\* What TaskGroups sees of a step, and the groups' counts.
LEMMA SubmittedGrows ==
    ASSUME MaxTasks \in Nat, TypeOK, NEW g \in Groups, AddTaskCount(g)
    PROVE  /\ <<g, added[g] + 1>> \in Tasks /\ <<g, added[g] + 1>> \notin Submitted
           /\ Submitted' = Submitted \cup {<<g, added[g] + 1>>}
  <1>0. /\ added \in [Groups -> 0 .. MaxTasks] /\ added[g] < MaxTasks
        /\ added' = [added EXCEPT ![g] = @ + 1]
    BY DEF TypeOK, AddTaskCount
  <1>1. added[g] \in 0 .. MaxTasks /\ added[g] + 1 \in 1 .. MaxTasks
    BY <1>0
  <1>2. <<g, added[g] + 1>> \in Tasks /\ <<g, added[g] + 1>> \notin Submitted
    BY <1>1 DEF Tasks, Slots, Submitted
  <1>3. ASSUME NEW t \in Tasks
        PROVE  t \in Submitted' <=> t \in Submitted \cup {<<g, added[g] + 1>>}
    <2>1. /\ t[1] \in Groups /\ t[2] \in 1 .. MaxTasks /\ t = <<t[1], t[2]>>
      BY DEF Tasks, Slots
    <2>2. t \in Submitted' <=> t[2] <= added'[t[1]]
      BY DEF Submitted
    <2>3. t \in Submitted <=> t[2] <= added[t[1]]
      BY DEF Submitted
    <2>4. CASE t[1] = g
      BY <1>0, <1>1, <2>1, <2>2, <2>3, <2>4
    <2>5. CASE t[1] # g
      BY <1>0, <2>1, <2>2, <2>3, <2>5
    <2> QED
      BY <2>4, <2>5
  <1>4. Submitted \subseteq Tasks /\ Submitted' \subseteq Tasks
    BY DEF Submitted, Tasks
  <1> QED
    BY <1>2, <1>3, <1>4

\* No other step submits a task.
LEMMA SubmittedStays == ASSUME UNCHANGED added PROVE Submitted' = Submitted
  BY DEF Submitted, Tasks

\* The pool starts with its types ...
LEMMA PoolTypeInit == ASSUME MaxTasks \in Nat, Init PROVE TypeOK
  <1>1. 0 \in 0 .. MaxTasks /\ OK \in Statuses
    BY DEF Statuses
  <1>2. tasks \in Seq(Tasks) /\ children \in Int /\ count \in [Groups -> Int]
        /\ ran \in [Tasks -> Nat] /\ added \in [Groups -> 0 .. MaxTasks]
    BY <1>1 DEF Init
  <1>3. /\ is_dead \in BOOLEAN /\ wdead \in [Workers -> BOOLEAN]
        /\ wpc \in [Workers -> {"wait", "run", "report", "exited"}]
        /\ gpc \in [Groups -> {"none", "open", "adding", "waited", "detached"}]
        /\ dpc \in {"alive", "waiting", "joining", "gone"} /\ finished \subseteq Tasks
    BY DEF Init
  <1>4. /\ wtask \in [Workers -> Tasks \cup {NoTask}] /\ wst \in [Workers -> Statuses]
        /\ status \in [Groups -> Statuses] /\ got \in [Groups -> Statuses \cup {Pending}]
    BY <1>1, Zenon DEF Init
  <1> QED
    BY <1>2, <1>3, <1>4, Zenon DEF TypeOK

\* ... and every step keeps them.
LEMMA PoolTypeStep == ASSUME MaxTasks \in Nat, EInv, [Next]_vars PROVE TypeOK'
  <1>0. TypeOK /\ OnePlace
    BY DEF EInv
  <1>1. ASSUME NEW g \in Groups, NewTaskGroup(g) PROVE TypeOK'
    BY <1>0, <1>1 DEF TypeOK, NewTaskGroup
  <1>2. ASSUME NEW g \in Groups, AddTaskCount(g) PROVE TypeOK'
    BY <1>0, <1>2 DEF TypeOK, AddTaskCount
  <1>3. ASSUME NEW g \in Groups, AddTaskPush(g) PROVE TypeOK'
    <2>1. <<g, added[g]>> \in Tasks
      BY <1>0, <1>3 DEF OnePlace, AddTaskPush, Submitted, InAddTask
    <2>2. tasks' \in Seq(Tasks)
      BY <1>0, <1>3, <2>1 DEF TypeOK, AddTaskPush
    <2> QED
      BY <1>0, <1>3, <2>2 DEF TypeOK, AddTaskPush
  <1>4. ASSUME NEW g \in Groups, WaitAll(g) PROVE TypeOK'
    BY <1>0, <1>4 DEF TypeOK, WaitAll
  <1>5. ASSUME NEW g \in Groups, Detach(g) PROVE TypeOK'
    BY <1>0, <1>5 DEF TypeOK, Detach
  <1>6. ASSUME NEW w \in Workers, Take(w) PROVE TypeOK'
    <2>0. tasks \in Seq(Tasks)
      BY <1>0 DEF TypeOK
    <2>1. CASE tasks # <<>>
      <3>1. tasks[Len(tasks)] \in Tasks /\ SubSeq(tasks, 1, Len(tasks) - 1) \in Seq(Tasks)
        BY <2>0, <2>1
      <3>2. wtask' \in [Workers -> Tasks \cup {NoTask}] /\ tasks' \in Seq(Tasks)
        BY <1>0, <1>6, <2>1, <3>1, Zenon DEF TypeOK, Take
      <3> QED
        BY <1>0, <1>6, <2>1, <3>2, Zenon DEF TypeOK, Take
    <2>2. CASE tasks = <<>>
      BY <1>0, <1>6, <2>2 DEF TypeOK, Take
    <2> QED
      BY <2>1, <2>2
  <1>7. ASSUME NEW w \in Workers, NEW st \in Statuses, Run(w, st) PROVE TypeOK'
    <2>0. wtask[w] \in Tasks
      BY <1>0, <1>7 DEF OnePlace, Run, Submitted
    <2>1. ran \in [Tasks -> Nat] /\ wst \in [Workers -> Statuses]
      BY <1>0 DEF TypeOK
    <2>2. ran' \in [Tasks -> Nat] /\ wst' \in [Workers -> Statuses]
      BY <1>7, <2>0, <2>1 DEF Run
    <2> QED
      BY <1>0, <1>7, <2>2, Zenon DEF TypeOK, Run
  <1>8. ASSUME NEW w \in Workers, Report(w) PROVE TypeOK'
    <2>1. wtask[w] \in Tasks /\ wtask[w][1] \in Groups
      BY <1>0, <1>8 DEF OnePlace, Report, Submitted, Tasks
    <2>2. wst[w] \in Statuses /\ status \in [Groups -> Statuses] /\ count \in [Groups -> Int]
          /\ finished \subseteq Tasks /\ wtask \in [Workers -> Tasks \cup {NoTask}]
      BY <1>0 DEF TypeOK
    <2>3. status' \in [Groups -> Statuses] /\ count' \in [Groups -> Int]
          /\ finished' \subseteq Tasks /\ wtask' \in [Workers -> Tasks \cup {NoTask}]
      BY <1>8, <2>1, <2>2 DEF Report, Updated
    <2> QED
      BY <1>0, <1>8, <2>3 DEF TypeOK, Report
  <1>9. CASE Destructor
    BY <1>0, <1>9 DEF TypeOK, Destructor, Destroy, ChildrenWait, Join
  <1>10. CASE UNCHANGED vars
    BY <1>0, <1>10, Zenon DEF TypeOK, vars
  <1> QED
    BY <1>1, <1>2, <1>3, <1>4, <1>5, <1>6, <1>7, <1>8, <1>9, <1>10 DEF Next, User, Worker

\* A task moves from AddTask to the stack, from there to one worker, and then
\* is finished.
LEMMA OnePlaceStep == ASSUME MaxTasks \in Nat, EInv, [Next]_vars PROVE OnePlace'
  <1>0. /\ TypeOK /\ OnePlace /\ finished \subseteq Submitted
        /\ tasks \in Seq(Tasks) /\ Submitted \subseteq Tasks
        /\ gpc \in [Groups -> {"none", "open", "adding", "waited", "detached"}]
        /\ wpc \in [Workers -> {"wait", "run", "report", "exited"}]
        /\ added \in [Groups -> 0 .. MaxTasks]
        /\ wtask \in [Workers -> Tasks \cup {NoTask}]
    BY DEF EInv, GroupInv, TypeOK, Submitted
  <1>a. NoTask \notin Tasks
    BY DEF NoTask, Tasks
  <1>b. ASSUME UNCHANGED added, \A g \in Groups : gpc'[g] = "adding" <=> gpc[g] = "adding"
        PROVE  Submitted' = Submitted /\ InAddTask' = InAddTask
    BY <1>b, SubmittedStays DEF InAddTask
  <1>c. ASSUME UNCHANGED <<tasks, finished, wtask, wpc, Submitted, InAddTask>> PROVE OnePlace'
    BY <1>0, <1>c DEF OnePlace
  <1>1. ASSUME NEW g \in Groups, NewTaskGroup(g) \/ WaitAll(g) \/ Detach(g) PROVE OnePlace'
    <2>1. /\ UNCHANGED <<tasks, finished, wtask, wpc, added>>
          /\ \A h \in Groups : gpc'[h] = "adding" <=> gpc[h] = "adding"
      BY <1>0, <1>1 DEF NewTaskGroup, WaitAll, Detach
    <2> QED
      BY <1>b, <1>c, <2>1
  <1>2. ASSUME NEW g \in Groups, AddTaskCount(g) PROVE OnePlace'
    <2> DEFINE n == <<g, added[g] + 1>>
    <2>1. n \in Tasks /\ n \notin Submitted /\ Submitted' = Submitted \cup {n}
      BY <1>0, <1>2, SubmittedGrows
    <2>2. /\ gpc[g] = "open" /\ gpc' = [gpc EXCEPT ![g] = "adding"]
          /\ added' = [added EXCEPT ![g] = @ + 1]
          /\ UNCHANGED <<tasks, finished, wtask, wpc>>
      BY <1>2 DEF AddTaskCount
    <2>3. InAddTask' \subseteq InAddTask \cup {n}
      BY <1>0, <2>2 DEF InAddTask
    <2> HIDE DEF n
    <2> QED
      BY <1>0, <2>1, <2>2, <2>3 DEF OnePlace
  <1>3. ASSUME NEW g \in Groups, AddTaskPush(g) PROVE OnePlace'
    <2> DEFINE n == <<g, added[g]>>
    <2>1. /\ gpc[g] = "adding" /\ gpc' = [gpc EXCEPT ![g] = "open"]
          /\ tasks' = Append(tasks, n) /\ UNCHANGED <<finished, wtask, wpc, added>>
      BY <1>3 DEF AddTaskPush
    <2>2. n \in InAddTask /\ Submitted' = Submitted /\ n \in Submitted \ finished
      BY <1>0, <2>1, SubmittedStays DEF OnePlace, InAddTask
    <2>3. InAddTask' \subseteq InAddTask \ {n}
      BY <1>0, <2>1 DEF InAddTask
    <2> HIDE DEF n
    <2>4. /\ DOMAIN tasks' = 1 .. Len(tasks) + 1 /\ DOMAIN tasks = 1 .. Len(tasks)
          /\ Len(tasks) \in Nat /\ tasks'[Len(tasks) + 1] = n
          /\ \A i \in DOMAIN tasks : tasks'[i] = tasks[i]
      BY <1>0, <2>1, <2>2
    <2>5. \A i \in DOMAIN tasks' : i \in DOMAIN tasks \/ i = Len(tasks) + 1
      BY <2>4
    <2>6. /\ \A i \in DOMAIN tasks : tasks[i] # n
          /\ \A w \in Workers : wtask[w] # n
      BY <1>0, <1>a, <2>2 DEF OnePlace
    <2>7. \A i \in DOMAIN tasks' :
            /\ tasks'[i] \in Submitted' \ finished' /\ tasks'[i] \notin InAddTask'
            /\ \A w \in Workers : wtask'[w] # tasks'[i]
      BY <1>0, <2>1, <2>2, <2>3, <2>4, <2>5, <2>6 DEF OnePlace
    <2>8. \A i, j \in DOMAIN tasks' : tasks'[i] = tasks'[j] => i = j
      BY <1>0, <2>4, <2>5, <2>6 DEF OnePlace
    <2>9. \A w \in Workers :
            IF wpc'[w] \in {"run", "report"}
            THEN /\ wtask'[w] \in Submitted' \ finished' /\ wtask'[w] \notin InAddTask'
                 /\ \A v \in Workers : wtask'[v] = wtask'[w] => v = w
            ELSE wtask'[w] = NoTask
      BY <1>0, <2>1, <2>2, <2>3 DEF OnePlace
    <2>10. InAddTask' \subseteq Submitted' \ finished'
      BY <1>0, <2>1, <2>2, <2>3 DEF OnePlace
    <2> QED
      BY <2>7, <2>8, <2>9, <2>10 DEF OnePlace
  <1>4. ASSUME NEW w \in Workers, Take(w) PROVE OnePlace'
    <2>0. /\ wpc[w] = "wait" /\ wtask[w] = NoTask /\ UNCHANGED <<finished, gpc, added>>
          /\ Submitted' = Submitted /\ InAddTask' = InAddTask
      BY <1>0, <1>b, <1>4 DEF Take, OnePlace
    <2>1. CASE tasks # <<>>
      <3> DEFINE n == tasks[Len(tasks)]
      <3>1. /\ wpc' = [wpc EXCEPT ![w] = "run"] /\ wtask' = [wtask EXCEPT ![w] = n]
            /\ tasks' = SubSeq(tasks, 1, Len(tasks) - 1)
        BY <1>4, <2>1 DEF Take
      <3>2. /\ Len(tasks) \in Nat /\ Len(tasks) \in DOMAIN tasks
            /\ \A i \in DOMAIN tasks' : i \in DOMAIN tasks /\ i # Len(tasks) /\ tasks'[i] = tasks[i]
        BY <1>0, <2>1, <3>1
      <3>3. /\ n \in Submitted \ finished /\ n \notin InAddTask
            /\ \A v \in Workers : wtask[v] # n
            /\ \A i \in DOMAIN tasks' : tasks'[i] # n
        BY <1>0, <3>2 DEF OnePlace
      <3>4. wtask'[w] = n /\ wpc'[w] = "run"
            /\ \A v \in Workers \ {w} : wtask'[v] = wtask[v] /\ wpc'[v] = wpc[v]
        BY <1>0, <3>1
      <3> HIDE DEF n
      <3>5. \A i \in DOMAIN tasks' :
              /\ tasks'[i] \in Submitted' \ finished' /\ tasks'[i] \notin InAddTask'
              /\ \A v \in Workers : wtask'[v] # tasks'[i]
              /\ \A j \in DOMAIN tasks' : tasks'[i] = tasks'[j] => i = j
        BY <1>0, <2>0, <3>2, <3>3, <3>4 DEF OnePlace
      <3>6. \A v \in Workers :
              IF wpc'[v] \in {"run", "report"}
              THEN /\ wtask'[v] \in Submitted' \ finished' /\ wtask'[v] \notin InAddTask'
                   /\ \A x \in Workers : wtask'[x] = wtask'[v] => x = v
              ELSE wtask'[v] = NoTask
        BY <1>0, <2>0, <3>3, <3>4 DEF OnePlace
      <3> QED
        BY <1>0, <2>0, <3>5, <3>6 DEF OnePlace
    <2>2. CASE tasks = <<>>
      <3>1. wpc' = [wpc EXCEPT ![w] = "exited"] /\ UNCHANGED <<wtask, tasks>>
        BY <1>4, <2>2 DEF Take
      <3> QED
        BY <1>0, <2>0, <3>1 DEF OnePlace
    <2> QED
      BY <2>1, <2>2
  <1>5. ASSUME NEW w \in Workers, NEW st \in Statuses, Run(w, st) PROVE OnePlace'
    <2>1. /\ wpc[w] = "run" /\ wpc' = [wpc EXCEPT ![w] = "report"]
          /\ UNCHANGED <<wtask, tasks, finished, gpc, added>>
          /\ Submitted' = Submitted /\ InAddTask' = InAddTask
      BY <1>b, <1>5 DEF Run
    <2> QED
      BY <1>0, <2>1 DEF OnePlace
  <1>6. ASSUME NEW w \in Workers, Report(w) PROVE OnePlace'
    <2> DEFINE n == wtask[w]
    <2>1. /\ wpc[w] = "report" /\ finished' = finished \cup {n}
          /\ wpc' = [wpc EXCEPT ![w] = IF wdead[w] THEN "exited" ELSE "wait"]
          /\ wtask' = [wtask EXCEPT ![w] = NoTask] /\ UNCHANGED <<tasks, gpc, added>>
          /\ Submitted' = Submitted /\ InAddTask' = InAddTask
      BY <1>b, <1>6 DEF Report
    <2>2. /\ n \in Submitted \ finished /\ n \notin InAddTask
          /\ \A v \in Workers \ {w} : wtask[v] # n
          /\ \A i \in DOMAIN tasks : tasks[i] # n
      BY <1>0, <2>1 DEF OnePlace
    <2>3. wtask'[w] = NoTask /\ wpc'[w] \in {"exited", "wait"}
          /\ \A v \in Workers \ {w} : wtask'[v] = wtask[v] /\ wpc'[v] = wpc[v]
      BY <1>0, <2>1
    <2> HIDE DEF n
    <2>4. \A i \in DOMAIN tasks' :
            /\ tasks'[i] \in Submitted' \ finished' /\ tasks'[i] \notin InAddTask'
            /\ \A v \in Workers : wtask'[v] # tasks'[i]
            /\ \A j \in DOMAIN tasks' : tasks'[i] = tasks'[j] => i = j
      BY <1>0, <1>a, <2>1, <2>2, <2>3 DEF OnePlace
    <2>5. \A v \in Workers :
            IF wpc'[v] \in {"run", "report"}
            THEN /\ wtask'[v] \in Submitted' \ finished' /\ wtask'[v] \notin InAddTask'
                 /\ \A x \in Workers : wtask'[x] = wtask'[v] => x = v
            ELSE wtask'[v] = NoTask
      BY <1>0, <1>a, <2>1, <2>2, <2>3 DEF OnePlace
    <2> QED
      BY <1>0, <2>1, <2>2, <2>4, <2>5 DEF OnePlace
  <1>7. CASE Destructor \/ UNCHANGED vars
    <2>1. UNCHANGED <<tasks, finished, wtask, wpc, added, gpc>>
      BY <1>7 DEF Destructor, Destroy, ChildrenWait, Join, vars
    <2> QED
      BY <1>b, <1>c, <2>1
  <1> QED
    BY <1>1, <1>2, <1>3, <1>4, <1>5, <1>6, <1>7 DEF Next, User, Worker

\* count_ is the number of outstanding tasks after every step.
LEMMA GroupInvStep == ASSUME MaxTasks \in Nat, EInv, [Next]_vars PROVE GroupInv'
  <1>0. /\ TypeOK /\ OnePlace /\ GroupInv /\ Submitted \subseteq Tasks
        /\ count \in [Groups -> Int] /\ got \in [Groups -> Statuses \cup {Pending}]
        /\ gpc \in [Groups -> {"none", "open", "adding", "waited", "detached"}]
    BY DEF EInv, TypeOK, Submitted
  <1>a. ASSUME UNCHANGED <<finished, added>> PROVE \A h \in Groups : Outstanding(h)' = Outstanding(h)
    BY <1>a, SubmittedStays DEF Outstanding
  <1>b. ASSUME UNCHANGED <<finished, added, count>>,
               \A h \in Groups : gpc'[h] \in {"none", "open", "adding"} => got'[h] = Pending
        PROVE  GroupInv'
    BY <1>0, <1>a, <1>b, SubmittedStays DEF GroupInv
  <1>1. ASSUME NEW g \in Groups, NewTaskGroup(g) \/ AddTaskPush(g) \/ WaitAll(g) \/ Detach(g)
        PROVE  GroupInv'
    <2>1. UNCHANGED <<finished, added, count>>
      BY <1>1 DEF NewTaskGroup, AddTaskPush, WaitAll, Detach
    <2>2. \A h \in Groups : gpc'[h] \in {"none", "open", "adding"} => got'[h] = Pending
      BY <1>0, <1>1 DEF NewTaskGroup, AddTaskPush, WaitAll, Detach, GroupInv
    <2> QED
      BY <1>b, <2>1, <2>2
  <1>2. ASSUME NEW g \in Groups, AddTaskCount(g) PROVE GroupInv'
    <2> DEFINE n == <<g, added[g] + 1>>
    <2>1. n \in Tasks /\ n \notin Submitted /\ Submitted' = Submitted \cup {n} /\ n[1] = g
      BY <1>0, <1>2, SubmittedGrows
    <2>2. /\ gpc[g] = "open" /\ gpc' = [gpc EXCEPT ![g] = "adding"]
          /\ count' = [count EXCEPT ![g] = @ + 1] /\ UNCHANGED <<finished, got>>
      BY <1>2 DEF AddTaskCount
    <2> HIDE DEF n
    <2>3. /\ Outstanding(g)' = Outstanding(g) \cup {n} /\ n \notin Outstanding(g)
          /\ \A h \in Groups \ {g} : Outstanding(h)' = Outstanding(h)
      BY <1>0, <2>1, <2>2 DEF Outstanding, GroupInv
    <2>4. /\ IsFiniteSet(Outstanding(g)')
          /\ Cardinality(Outstanding(g)') = Cardinality(Outstanding(g)) + 1
      BY <1>0, <2>3, FS_AddElement DEF GroupInv
    <2>5. ASSUME NEW h \in Groups
          PROVE  /\ IsFiniteSet(Outstanding(h)') /\ count'[h] = Cardinality(Outstanding(h)')
                 /\ gpc'[h] \in {"none", "open", "adding"} => got'[h] = Pending
      BY <1>0, <2>2, <2>3, <2>4 DEF GroupInv
    <2>6. finished' \subseteq Submitted'
      BY <1>0, <2>1, <2>2 DEF GroupInv
    <2> QED
      BY <2>5, <2>6 DEF GroupInv
  <1>3. ASSUME NEW w \in Workers, Report(w) PROVE GroupInv'
    <2>0. PICK n \in Submitted \ finished : n = wtask[w]
      BY <1>0, <1>3 DEF Report, OnePlace
    <2>1. PICK g \in Groups : g = n[1]
      BY <1>0, <2>0 DEF Tasks
    <2>2. /\ count' = [count EXCEPT ![g] = @ - 1] /\ finished' = finished \cup {n}
          /\ Submitted' = Submitted /\ UNCHANGED <<gpc, got>>
      BY <1>3, <2>0, <2>1, SubmittedStays DEF Report
    <2>3. /\ Outstanding(g)' = Outstanding(g) \ {n} /\ n \in Outstanding(g)
          /\ \A h \in Groups \ {g} : Outstanding(h)' = Outstanding(h)
      BY <2>0, <2>1, <2>2 DEF Outstanding
    <2>4. /\ IsFiniteSet(Outstanding(g)')
          /\ Cardinality(Outstanding(g)') = Cardinality(Outstanding(g)) - 1
      BY <1>0, <2>1, <2>3, FS_RemoveElement DEF GroupInv
    <2>5. ASSUME NEW h \in Groups
          PROVE  /\ IsFiniteSet(Outstanding(h)') /\ count'[h] = Cardinality(Outstanding(h)')
                 /\ gpc'[h] \in {"none", "open", "adding"} => got'[h] = Pending
      BY <1>0, <2>2, <2>3, <2>4 DEF GroupInv
    <2>6. finished' \subseteq Submitted'
      BY <1>0, <2>2 DEF GroupInv
    <2> QED
      BY <2>5, <2>6 DEF GroupInv
  <1>4. ASSUME NEW w \in Workers, Take(w) \/ \E st \in Statuses : Run(w, st) PROVE GroupInv'
    <2>1. UNCHANGED <<finished, added, count, gpc, got>>
      BY <1>4 DEF Take, Run
    <2> QED
      BY <1>0, <1>b, <2>1 DEF GroupInv
  <1>5. CASE Destructor \/ UNCHANGED vars
    <2>1. UNCHANGED <<finished, added, count, gpc, got>>
      BY <1>5 DEF Destructor, Destroy, ChildrenWait, Join, vars
    <2> QED
      BY <1>0, <1>b, <2>1 DEF GroupInv
  <1> QED
    BY <1>1, <1>2, <1>3, <1>4, <1>5 DEF Next, User, Worker

\* An executor without tasks.
LEMMA PoolInit == ASSUME MaxTasks \in Nat, Init PROVE EInv /\ Pool!Init
  <1>1. TypeOK
    BY PoolTypeInit
  <1>2. Submitted = {}
    BY DEF Init, Submitted, Tasks, Slots
  <1>3. InAddTask = {}
    BY DEF Init, InAddTask
  <1>4. OnePlace
    BY <1>3 DEF Init, OnePlace
  <1>5. \A g \in Groups : Outstanding(g) = {}
    BY <1>2 DEF Outstanding
  <1>6. GroupInv
    BY <1>2, <1>5, FS_EmptySet DEF Init, GroupInv
  <1>7. Pool!Init
    BY <1>2 DEF Init, Pool!Init, Pool!OK, Pool!Pending, OK, Pending
  <1> QED
    BY <1>1, <1>4, <1>6, <1>7 DEF EInv

\* Every step is a step of TaskGroups or changes nothing it sees.
LEMMA PoolStep == ASSUME MaxTasks \in Nat, EInv, [Next]_vars PROVE [Pool!Next]_(Pool!avars)
  <1> USE DEF Pool!avars
  <1>0. /\ TypeOK /\ OnePlace /\ GroupInv /\ Submitted \subseteq Tasks
        /\ status \in [Groups -> Statuses]
    BY DEF EInv, TypeOK, Submitted
  <1>1. ASSUME NEW g \in Groups, AddTaskCount(g) PROVE Pool!Next
    <2> DEFINE n == <<g, added[g] + 1>>
    <2>1. /\ n \in Tasks /\ n \notin Submitted /\ Submitted' = Submitted \cup {n} /\ n[1] = g
          /\ got[g] = Pending /\ UNCHANGED <<finished, status, got>>
      BY <1>0, <1>1, SubmittedGrows DEF AddTaskCount, GroupInv
    <2> HIDE DEF n
    <2>2. Pool!Submit(n)
      BY <2>1 DEF Pool!Submit, Pool!Pending, Pending
    <2> QED
      BY <2>1, <2>2 DEF Pool!Next, Tasks
  <1>2. ASSUME NEW g \in Groups, WaitAll(g) PROVE Pool!Next
    <2>1. /\ count[g] = 0 /\ got[g] = Pending /\ got' = [got EXCEPT ![g] = status[g]]
          /\ Submitted' = Submitted /\ UNCHANGED <<finished, status>>
      BY <1>0, <1>2, SubmittedStays DEF WaitAll, GroupInv
    <2>2. Outstanding(g) = {}
      BY <1>0, <2>1, FS_EmptySet DEF GroupInv
    <2>3. Pool!Of(g, Submitted) \subseteq finished
      BY <2>2 DEF Outstanding, Pool!Of
    <2>4. Pool!Return(g)
      BY <2>1, <2>3 DEF Pool!Return, Pool!Pending, Pending
    <2> QED
      BY <2>4 DEF Pool!Next
  <1>3. ASSUME NEW w \in Workers, Report(w) PROVE Pool!Next
    <2>0. PICK n \in Submitted \ finished : n = wtask[w]
      BY <1>0, <1>3 DEF Report, OnePlace
    <2>1. /\ n \in Tasks /\ Submitted' = Submitted /\ finished' = finished \cup {n}
          /\ status' = [status EXCEPT ![n[1]] = Updated(@, wst[w])] /\ UNCHANGED got
      BY <1>0, <1>3, <2>0, SubmittedStays DEF Report
    <2>2. wst[w] \in Statuses
      BY <1>0 DEF TypeOK
    <2>3. Pool!Finish(n, wst[w])
      BY <2>0, <2>1 DEF Pool!Finish, Updated, Pool!OK, OK
    <2> QED
      BY <2>1, <2>2, <2>3 DEF Pool!Next, Tasks, Pool!Statuses, Statuses, Pool!OK, OK
  <1>4. ASSUME UNCHANGED <<added, finished, status, got>> PROVE UNCHANGED Pool!avars
    BY <1>4, SubmittedStays
  <1>5. ASSUME NEW g \in Groups, NewTaskGroup(g) \/ AddTaskPush(g) \/ Detach(g)
        PROVE  UNCHANGED Pool!avars
    BY <1>4, <1>5 DEF NewTaskGroup, AddTaskPush, Detach
  <1>6. ASSUME NEW w \in Workers, Take(w) \/ \E st \in Statuses : Run(w, st)
        PROVE  UNCHANGED Pool!avars
    BY <1>4, <1>6 DEF Take, Run
  <1>7. CASE Destructor \/ UNCHANGED vars
    BY <1>4, <1>7 DEF Destructor, Destroy, ChildrenWait, Join, vars
  <1> QED
    BY <1>1, <1>2, <1>3, <1>5, <1>6, <1>7 DEF Next, User, Worker

\* The executor implements TaskGroups: every task finishes at most once, and
\* WaitAll returns, with the first failure, only when all tasks of its group
\* have run, for any number of workers, groups and tasks.
THEOREM ExecutorImplementsTaskGroups == ASSUME MaxTasks \in Nat PROVE Spec => PoolSpec
  <1>1. Init => EInv /\ Pool!Init
    BY PoolInit
  <1>2. EInv /\ [Next]_vars => EInv' /\ [Pool!Next]_(Pool!avars)
    BY PoolTypeStep, OnePlaceStep, GroupInvStep, PoolStep DEF EInv
  <1> QED
    BY <1>1, <1>2, PTL DEF Spec, PoolSpec, Pool!Spec
-----------------------------------------------------------------------------
(* The proof of PoolInv. *)

\* The groups that children_ counts.
Active == {g \in Groups : gpc[g] \in {"open", "adding", "waited"}}

\* A group has no task before it is made and none left once WaitAll has
\* returned, ...
DoneInv ==
    \A g \in Groups : /\ gpc[g] = "none" => added[g] = 0
                      /\ gpc[g] \in {"waited", "detached"} => Outstanding(g) = {}

\* ... a task that has run is finished or about to be reported, one that has
\* not is held, ...
RanInv ==
    \A t \in Tasks :
        /\ t \in finished => ran[t] = 1
        /\ \A w \in Workers : wtask[w] = t =>
             ran[t] = IF wpc[w] = "report" THEN 1 ELSE 0
        /\ t \notin finished /\ (\A w \in Workers : wtask[w] # t) => ran[t] = 0
        /\ t \in Submitted \ finished => Held(t)

\* ... and the destructor sets is_dead when no group is left.
LiveInv ==
    /\ IsFiniteSet(Active) /\ children = Cardinality(Active)
    /\ is_dead => Active = {} /\ dpc # "alive"

PInv == EInv /\ DoneInv /\ RanInv /\ LiveInv

\* The steps that no task and no worker is part of.
Outside == \/ \E g \in Groups : NewTaskGroup(g) \/ WaitAll(g) \/ Detach(g)
           \/ Destructor \/ UNCHANGED vars

LEMMA DoneStep == ASSUME MaxTasks \in Nat, PInv, [Next]_vars PROVE DoneInv'
  <1>0. /\ TypeOK /\ OnePlace /\ GroupInv /\ DoneInv
        /\ gpc \in [Groups -> {"none", "open", "adding", "waited", "detached"}]
        /\ added \in [Groups -> 0 .. MaxTasks]
    BY DEF PInv, EInv, TypeOK
  <1>a. ASSUME UNCHANGED added, finished \subseteq finished'
        PROVE  \A g \in Groups : Outstanding(g)' \subseteq Outstanding(g)
    BY <1>a, SubmittedStays DEF Outstanding
  <1>1. ASSUME NEW g \in Groups, AddTaskCount(g) PROVE DoneInv'
    <2> DEFINE n == <<g, added[g] + 1>>
    <2>1. n[1] = g /\ Submitted' = Submitted \cup {n}
      BY <1>0, <1>1, SubmittedGrows
    <2>2. /\ gpc' = [gpc EXCEPT ![g] = "adding"] /\ added' = [added EXCEPT ![g] = @ + 1]
          /\ UNCHANGED finished
      BY <1>1 DEF AddTaskCount
    <2> HIDE DEF n
    <2>3. \A h \in Groups \ {g} : Outstanding(h)' = Outstanding(h)
      BY <2>1, <2>2 DEF Outstanding
    <2> QED
      BY <1>0, <2>2, <2>3 DEF DoneInv
  <1>2. ASSUME NEW g \in Groups, WaitAll(g) PROVE DoneInv'
    <2>1. /\ count[g] = 0 /\ gpc' = [gpc EXCEPT ![g] = "waited"]
          /\ UNCHANGED <<added, finished>>
      BY <1>2 DEF WaitAll
    <2>2. Outstanding(g) = {}
      BY <1>0, <2>1, FS_EmptySet DEF GroupInv
    <2> QED
      BY <1>0, <1>a, <2>1, <2>2 DEF DoneInv
  <1>3. ASSUME NEW g \in Groups, NewTaskGroup(g) \/ AddTaskPush(g) \/ Detach(g)
        PROVE  DoneInv'
    <2>1. /\ UNCHANGED <<added, finished>>
          /\ \A h \in Groups : \/ gpc'[h] = gpc[h] \/ gpc'[h] = "open"
                               \/ gpc[h] = "waited" /\ gpc'[h] = "detached"
      BY <1>0, <1>3 DEF NewTaskGroup, AddTaskPush, Detach
    <2> QED
      BY <1>0, <1>a, <2>1 DEF DoneInv
  <1>4. CASE (\E w \in Workers : Worker(w)) \/ Destructor \/ UNCHANGED vars
    <2>1. UNCHANGED <<added, gpc>> /\ finished \subseteq finished'
      BY <1>4 DEF Worker, Take, Run, Report, Destructor, Destroy, ChildrenWait, Join, vars
    <2> QED
      BY <1>0, <1>a, <2>1 DEF DoneInv
  <1> QED
    BY <1>1, <1>2, <1>3, <1>4 DEF Next, User

LEMMA LiveStep == ASSUME MaxTasks \in Nat, PInv, [Next]_vars PROVE LiveInv'
  <1>0. /\ LiveInv /\ children \in Int /\ is_dead \in BOOLEAN
        /\ gpc \in [Groups -> {"none", "open", "adding", "waited", "detached"}]
    BY DEF PInv, EInv, TypeOK
  <1>1. ASSUME NEW g \in Groups, NewTaskGroup(g) PROVE LiveInv'
    <2>1. /\ gpc[g] = "none" /\ dpc = "alive" /\ children' = children + 1
          /\ gpc' = [gpc EXCEPT ![g] = "open"] /\ UNCHANGED <<is_dead, dpc>>
      BY <1>1 DEF NewTaskGroup
    <2>2. Active' = Active \cup {g} /\ g \notin Active
      BY <1>0, <2>1 DEF Active
    <2>3. IsFiniteSet(Active') /\ Cardinality(Active') = Cardinality(Active) + 1
      BY <1>0, <2>2, FS_AddElement DEF LiveInv
    <2> QED
      BY <1>0, <2>1, <2>3 DEF LiveInv
  <1>2. ASSUME NEW g \in Groups, Detach(g) PROVE LiveInv'
    <2>1. /\ gpc[g] = "waited" /\ children' = children - 1
          /\ gpc' = [gpc EXCEPT ![g] = "detached"] /\ UNCHANGED <<is_dead, dpc>>
      BY <1>2 DEF Detach
    <2>2. Active' = Active \ {g} /\ g \in Active
      BY <1>0, <2>1 DEF Active
    <2>3. IsFiniteSet(Active') /\ Cardinality(Active') = Cardinality(Active) - 1
      BY <1>0, <2>2, FS_RemoveElement DEF LiveInv
    <2> QED
      BY <1>0, <2>1, <2>2, <2>3 DEF LiveInv
  <1>3. ASSUME NEW g \in Groups, AddTaskCount(g) \/ AddTaskPush(g) \/ WaitAll(g)
        PROVE  LiveInv'
    <2>1. UNCHANGED <<children, is_dead, dpc>> /\ Active' = Active
      BY <1>0, <1>3 DEF AddTaskCount, AddTaskPush, WaitAll, Active
    <2> QED
      BY <1>0, <2>1 DEF LiveInv
  <1>4. CASE ChildrenWait
    <2>1. children = 0 /\ dpc' = "joining" /\ UNCHANGED <<children, gpc>>
      BY <1>4 DEF ChildrenWait
    <2>2. Active = {} /\ Active' = Active
      BY <1>0, <2>1, FS_EmptySet DEF LiveInv, Active
    <2> QED
      BY <1>0, <2>1, <2>2 DEF LiveInv
  <1>5. CASE (\E w \in Workers : Worker(w)) \/ Destroy \/ Join \/ UNCHANGED vars
    <2>1. UNCHANGED <<children, is_dead, gpc>> /\ (dpc' = dpc \/ dpc' # "alive")
      BY <1>5 DEF Worker, Take, Run, Report, Destroy, Join, vars
    <2>2. Active' = Active
      BY <2>1 DEF Active
    <2> QED
      BY <1>0, <2>1, <2>2 DEF LiveInv
  <1> QED
    BY <1>1, <1>2, <1>3, <1>4, <1>5 DEF Next, User, Destructor

LEMMA RanStep == ASSUME MaxTasks \in Nat, PInv, [Next]_vars PROVE RanInv'
  <1>0. /\ TypeOK /\ OnePlace /\ RanInv /\ Submitted \subseteq Tasks
        /\ tasks \in Seq(Tasks) /\ ran \in [Tasks -> Nat]
        /\ gpc \in [Groups -> {"none", "open", "adding", "waited", "detached"}]
        /\ wpc \in [Workers -> {"wait", "run", "report", "exited"}]
        /\ added \in [Groups -> 0 .. MaxTasks]
        /\ wtask \in [Workers -> Tasks \cup {NoTask}]
    BY DEF PInv, EInv, TypeOK, Submitted
  <1>a. /\ NoTask \notin Tasks
        /\ \A t \in Tasks : t[1] \in Groups /\ t = <<t[1], t[2]>>
    BY DEF NoTask, Tasks
  <1>b. ASSUME UNCHANGED <<ran, finished, wtask, wpc>>,
               \A t \in Submitted' \ finished : Held(t)'
        PROVE  RanInv'
    BY <1>0, <1>b DEF RanInv
  <1>1. CASE Outside
    <2>1. /\ UNCHANGED <<ran, finished, wtask, wpc, tasks, added>>
          /\ \A g \in Groups : gpc'[g] = "adding" <=> gpc[g] = "adding"
      BY <1>0, <1>1 DEF Outside, NewTaskGroup, WaitAll, Detach, Destructor, Destroy,
                        ChildrenWait, Join, vars
    <2>2. \A t \in Tasks : Held(t)' <=> Held(t)
      BY <1>a, <2>1 DEF Held
    <2> QED
      BY <1>0, <1>b, <2>1, <2>2, SubmittedStays DEF RanInv
  <1>2. ASSUME NEW g \in Groups, AddTaskCount(g) PROVE RanInv'
    <2>1. PICK n \in Tasks :
            n = <<g, added[g] + 1>> /\ n \notin Submitted /\ Submitted' = Submitted \cup {n}
      BY <1>0, <1>2, SubmittedGrows
    <2>2. /\ gpc[g] = "open" /\ gpc' = [gpc EXCEPT ![g] = "adding"]
          /\ added' = [added EXCEPT ![g] = @ + 1]
          /\ UNCHANGED <<ran, finished, wtask, wpc, tasks>>
      BY <1>2 DEF AddTaskCount
    <2>3. Held(n)'
      <3>1. n[1] = g /\ n[2] = added'[g] /\ gpc'[g] = "adding"
        BY <1>0, <2>1, <2>2
      <3> QED
        BY <3>1 DEF Held
    <2>4. \A t \in Tasks : Held(t) => Held(t)'
      BY <1>0, <1>a, <2>2 DEF Held
    <2> QED
      BY <1>0, <1>b, <2>1, <2>2, <2>3, <2>4 DEF RanInv
  <1>3. ASSUME NEW g \in Groups, AddTaskPush(g) PROVE RanInv'
    <2>1. /\ gpc[g] = "adding" /\ gpc' = [gpc EXCEPT ![g] = "open"]
          /\ tasks' = Append(tasks, <<g, added[g]>>)
          /\ UNCHANGED <<ran, finished, wtask, wpc, added>>
      BY <1>3 DEF AddTaskPush
    <2>2. /\ DOMAIN tasks = 1 .. Len(tasks) /\ Len(tasks) \in Nat
          /\ DOMAIN tasks' = 1 .. Len(tasks) + 1 /\ tasks'[Len(tasks) + 1] = <<g, added[g]>>
          /\ \A i \in DOMAIN tasks : tasks'[i] = tasks[i] /\ i \in DOMAIN tasks'
      BY <1>0, <2>1
    <2>3. Len(tasks) + 1 \in DOMAIN tasks'
      BY <2>2
    <2>4. \A t \in Tasks : Held(t) => Held(t)'
      <3> SUFFICES ASSUME NEW t \in Tasks, Held(t) PROVE Held(t)'
        OBVIOUS
      <3>1. CASE gpc[t[1]] = "adding" /\ t[2] = added[t[1]]
        <4>1. CASE t[1] = g
          <5>1. t = <<g, added[g]>>
            BY <1>a, <3>1, <4>1
          <5> QED
            BY <2>2, <2>3, <5>1 DEF Held
        <4>2. CASE t[1] # g
          BY <1>0, <1>a, <2>1, <3>1, <4>2 DEF Held
        <4> QED
          BY <4>1, <4>2
      <3>2. CASE \E i \in DOMAIN tasks : tasks[i] = t
        BY <2>2, <3>2 DEF Held
      <3>3. CASE \E w \in Workers : wtask[w] = t
        BY <2>1, <3>3 DEF Held
      <3> QED
        BY <3>1, <3>2, <3>3 DEF Held
    <2> QED
      BY <1>0, <1>b, <2>1, <2>4, SubmittedStays DEF RanInv
  <1>4. ASSUME NEW w \in Workers, Take(w) PROVE RanInv'
    <2>0. /\ wpc[w] = "wait" /\ wtask[w] = NoTask /\ UNCHANGED <<ran, finished, gpc, added>>
          /\ Submitted' = Submitted
      BY <1>0, <1>4, SubmittedStays DEF Take, OnePlace
    <2>1. CASE tasks # <<>>
      <3> DEFINE n == tasks[Len(tasks)]
      <3>1. /\ wpc' = [wpc EXCEPT ![w] = "run"] /\ wtask' = [wtask EXCEPT ![w] = n]
            /\ tasks' = SubSeq(tasks, 1, Len(tasks) - 1)
        BY <1>4, <2>1 DEF Take
      <3>2. /\ Len(tasks) \in Nat /\ Len(tasks) \in DOMAIN tasks
            /\ \A i \in DOMAIN tasks : i # Len(tasks) =>
                 i \in DOMAIN tasks' /\ tasks'[i] = tasks[i]
        BY <1>0, <2>1, <3>1
      <3>3. n \in Tasks \ finished /\ \A v \in Workers : wtask[v] # n
        BY <1>0, <3>2 DEF OnePlace
      <3>4. /\ wtask'[w] = n /\ wpc'[w] = "run"
            /\ \A v \in Workers \ {w} : wtask'[v] = wtask[v] /\ wpc'[v] = wpc[v]
        BY <1>0, <3>1
      <3>5. ran[n] = 0
        BY <1>0, <3>3 DEF RanInv
      <3>6. \A t \in Tasks : Held(t) => Held(t)'
        <4> SUFFICES ASSUME NEW t \in Tasks, Held(t) PROVE Held(t)'
          OBVIOUS
        <4>1. CASE gpc[t[1]] = "adding" /\ t[2] = added[t[1]]
          BY <2>0, <4>1 DEF Held
        <4>2. CASE \E i \in DOMAIN tasks : tasks[i] = t
          BY <3>2, <3>4, <4>2 DEF Held
        <4>3. CASE \E v \in Workers : wtask[v] = t
          BY <1>a, <2>0, <3>4, <4>3 DEF Held
        <4> QED
          BY <4>1, <4>2, <4>3 DEF Held
      <3>7. \A t \in Tasks : t \in Submitted' \ finished' => Held(t)'
        BY <1>0, <2>0, <3>6 DEF RanInv
      <3>8. PICK m \in Tasks : m = n
        BY <3>3
      <3> HIDE DEF n
      <3>9. \A t \in Tasks :
              /\ t \in finished' => ran'[t] = 1
              /\ \A v \in Workers : wtask'[v] = t =>
                   ran'[t] = IF wpc'[v] = "report" THEN 1 ELSE 0
              /\ t \notin finished' /\ (\A v \in Workers : wtask'[v] # t) => ran'[t] = 0
        <4>1. /\ ran[m] = 0 /\ m \notin finished /\ wtask'[w] = m /\ wpc'[w] = "run"
              /\ \A v \in Workers \ {w} : wtask'[v] # m
          BY <3>3, <3>4, <3>5, <3>8
        <4>2. ASSUME NEW t \in Tasks, t # m
              PROVE  /\ t \in finished => ran[t] = 1
                     /\ \A v \in Workers : wtask'[v] = t =>
                          ran[t] = IF wpc'[v] = "report" THEN 1 ELSE 0
                     /\ t \notin finished /\ (\A v \in Workers : wtask'[v] # t) => ran[t] = 0
          <5>1. \A v \in Workers : wtask'[v] = t => v # w /\ wtask[v] = t /\ wpc'[v] = wpc[v]
            BY <3>4, <4>1, <4>2
          <5>2. (\A v \in Workers : wtask'[v] # t) => (\A v \in Workers : wtask[v] # t)
            BY <1>a, <2>0, <3>4, <4>2
          <5> QED
            BY <1>0, <5>1, <5>2 DEF RanInv
        <4> QED
          BY <2>0, <4>1, <4>2
      <3> QED
        BY <3>7, <3>9 DEF RanInv
    <2>2. CASE tasks = <<>>
      <3>1. wpc' = [wpc EXCEPT ![w] = "exited"] /\ UNCHANGED <<wtask, tasks>>
        BY <1>4, <2>2 DEF Take
      <3>2. \A t \in Tasks : Held(t) => Held(t)'
        BY <2>0, <3>1 DEF Held
      <3> QED
        BY <1>0, <1>a, <2>0, <3>1, <3>2 DEF RanInv
    <2> QED
      BY <2>1, <2>2
  <1>5. ASSUME NEW w \in Workers, NEW st \in Statuses, Run(w, st) PROVE RanInv'
    <2>1. /\ wpc[w] = "run" /\ wpc' = [wpc EXCEPT ![w] = "report"]
          /\ ran' = [ran EXCEPT ![wtask[w]] = @ + 1]
          /\ UNCHANGED <<wtask, tasks, finished, gpc, added>> /\ Submitted' = Submitted
      BY <1>5, SubmittedStays DEF Run
    <2>2. PICK n \in Tasks \ finished : n = wtask[w]
      BY <1>0, <2>1 DEF OnePlace
    <2>3. \A v \in Workers \ {w} : wtask[v] # n
      BY <1>0, <2>1, <2>2 DEF OnePlace
    <2>4. ran[n] = 0 /\ ran'[n] = 1 /\ \A t \in Tasks \ {n} : ran'[t] = ran[t]
      BY <1>0, <2>1, <2>2 DEF RanInv
    <2>5. wpc'[w] = "report" /\ \A v \in Workers \ {w} : wpc'[v] = wpc[v]
      BY <1>0, <2>1
    <2>6. \A t \in Tasks : Held(t) => Held(t)'
      BY <2>1 DEF Held
    <2> QED
      BY <1>0, <2>1, <2>2, <2>3, <2>4, <2>5, <2>6 DEF RanInv
  <1>6. ASSUME NEW w \in Workers, Report(w) PROVE RanInv'
    <2>1. /\ wpc[w] = "report" /\ finished' = finished \cup {wtask[w]}
          /\ wtask' = [wtask EXCEPT ![w] = NoTask]
          /\ wpc' = [wpc EXCEPT ![w] = IF wdead[w] THEN "exited" ELSE "wait"]
          /\ UNCHANGED <<tasks, gpc, added, ran>> /\ Submitted' = Submitted
      BY <1>6, SubmittedStays DEF Report
    <2>2. PICK n \in Tasks \ finished : n = wtask[w]
      BY <1>0, <2>1 DEF OnePlace
    <2>3. ran[n] = 1
      BY <1>0, <2>1, <2>2 DEF RanInv
    <2>4. /\ wtask'[w] = NoTask
          /\ \A v \in Workers \ {w} : wtask'[v] = wtask[v] /\ wpc'[v] = wpc[v]
      BY <1>0, <2>1
    <2>5. \A t \in Tasks \ {n} : Held(t) => Held(t)'
      BY <2>1, <2>2, <2>4 DEF Held
    <2> QED
      BY <1>0, <1>a, <2>1, <2>2, <2>3, <2>4, <2>5 DEF RanInv
  <1> QED
    BY <1>1, <1>2, <1>3, <1>4, <1>5, <1>6 DEF Next, User, Worker, Outside

\* PoolInv follows.
LEMMA PInvImplies == ASSUME MaxTasks \in Nat, PInv PROVE PoolInv
  <1>0. /\ TypeOK /\ OnePlace /\ GroupInv /\ DoneInv /\ RanInv /\ LiveInv
        /\ Submitted \subseteq Tasks
        /\ wtask \in [Workers -> Tasks \cup {NoTask}] /\ tasks \in Seq(Tasks)
        /\ gpc \in [Groups -> {"none", "open", "adding", "waited", "detached"}]
        /\ wpc \in [Workers -> {"wait", "run", "report", "exited"}]
    BY DEF PInv, EInv, TypeOK, Submitted
  <1>a. \A t \in Tasks : t[1] \in Groups /\ t[2] >= 1 /\ t = <<t[1], t[2]>>
    BY DEF Tasks, Slots
  <1>1. CountIsOutstanding
    BY <1>0 DEF GroupInv, CountIsOutstanding
  <1>2. RunsOnce
    <2>1. \A t \in Tasks : t \in finished => ~Held(t)
      <3> SUFFICES ASSUME NEW t \in Tasks, Held(t) PROVE t \notin finished
        OBVIOUS
      <3>1. CASE gpc[t[1]] = "adding" /\ t[2] = added[t[1]]
        BY <1>0, <1>a, <3>1 DEF OnePlace, InAddTask
      <3>2. CASE \E i \in DOMAIN tasks : tasks[i] = t
        BY <1>0, <3>2 DEF OnePlace
      <3>3. CASE \E w \in Workers : wtask[w] = t
        BY <1>0, <3>3 DEF OnePlace, NoTask, Tasks
      <3> QED
        BY <3>1, <3>2, <3>3 DEF Held
    <2>2. \A t \in Tasks : ran[t] \in {0, 1}
      BY <1>0 DEF RanInv
    <2>3. \A t \in Tasks : ran[t] <= 1
      BY <2>2
    <2> QED
      BY <1>0, <2>1, <2>3 DEF RunsOnce, RanInv
  <1>3. WaitAllIsBarrier
    <2> SUFFICES ASSUME NEW g \in Groups, got[g] # Pending
                 PROVE  /\ Outstanding(g) = {}
                        /\ \A t \in Submitted : t[1] = g => ran[t] = 1
      BY DEF WaitAllIsBarrier
    <2>1. gpc[g] \in {"waited", "detached"}
      BY <1>0 DEF GroupInv
    <2>2. Outstanding(g) = {}
      BY <1>0, <2>1 DEF DoneInv
    <2>3. \A t \in Submitted : t[1] = g => t \in finished
      BY <2>2 DEF Outstanding
    <2> QED
      BY <1>0, <2>2, <2>3 DEF RanInv
  <1>4. DeadIsIdle
    <2> SUFFICES ASSUME is_dead
                 PROVE  /\ tasks = <<>>
                        /\ \A w \in Workers : wpc[w] \in {"wait", "exited"}
                        /\ \A g \in Groups : gpc[g] # "adding"
      BY DEF DeadIsIdle
    <2>1. \A g \in Groups : gpc[g] \in {"none", "detached"}
      BY <1>0 DEF LiveInv, Active
    <2>2. \A t \in Submitted : t \in finished
      <3> SUFFICES ASSUME NEW t \in Submitted PROVE t \in finished
        OBVIOUS
      <3>1. t \in Tasks /\ t[1] \in Groups /\ t[2] >= 1 /\ t[2] <= added[t[1]]
        BY <1>0, <1>a DEF Submitted
      <3>2. gpc[t[1]] = "detached"
        <4>1. gpc[t[1]] = "none" => added[t[1]] = 0
          BY <1>0, <3>1 DEF DoneInv
        <4>2. t[2] \in Int
          BY <3>1 DEF Tasks, Slots
        <4> QED
          BY <2>1, <3>1, <4>1, <4>2
      <3> QED
        BY <1>0, <3>1, <3>2 DEF DoneInv, Outstanding
    <2>3. tasks = <<>>
      <3>1. DOMAIN tasks = {}
        BY <1>0, <2>2 DEF OnePlace
      <3> QED
        BY <1>0, <3>1
    <2>4. \A w \in Workers : wpc[w] \in {"wait", "exited"}
      BY <1>0, <2>2 DEF OnePlace
    <2> QED
      BY <2>1, <2>3, <2>4
  <1> QED
    BY <1>0, <1>1, <1>2, <1>3, <1>4 DEF PoolInv

\* No task is lost, run twice or forgotten by the count that WaitAll waits
\* for, and none is left when ~Executor sends the workers home, for any number
\* of workers, groups and tasks.
THEOREM NoTaskIsLost == ASSUME MaxTasks \in Nat PROVE Spec => []PoolInv
  <1>1. Init => PInv
    <2> SUFFICES ASSUME Init PROVE PInv
      OBVIOUS
    <2>1. EInv
      BY PoolInit
    <2>2. Active = {} /\ Submitted = {}
      BY DEF Init, Active, Submitted, Tasks, Slots
    <2>3. LiveInv
      BY <2>2, FS_EmptySet DEF Init, LiveInv
    <2>4. DoneInv
      BY <2>2 DEF Init, DoneInv
    <2>5. RanInv
      BY <2>2 DEF Init, RanInv, NoTask, Tasks
    <2> QED
      BY <2>1, <2>3, <2>4, <2>5 DEF PInv
  <1>2. PInv /\ [Next]_vars => PInv'
    BY PoolTypeStep, OnePlaceStep, GroupInvStep, DoneStep, RanStep, LiveStep DEF PInv, EInv
  <1>3. PInv => PoolInv
    BY PInvImplies
  <1> QED
    BY <1>1, <1>2, <1>3, PTL DEF Spec
=============================================================================
