------------------------------ MODULE ThreadPool ------------------------------
(***************************************************************************)
(* The thread pool (deps/threadpool_pthread_impl.cc, the std::thread       *)
(* version is the same) and the executor made of one                       *)
(* (thread_pool_executor.cc).  The cores it is pinned to are left out.     *)
(***************************************************************************)
EXTENDS Naturals, Integers, Sequences, FiniteSets

CONSTANTS PoolWorkers,   \* threads a pool can have, numbered from 1
          PoolTasks,     \* tasks the application schedules, each once
          ThreadCounts,  \* values of num_threads, NoCount if it is not set
          NoCount

\* Tasks are no places of a worker, and there are as many workers as counted.
ASSUME PoolAssumption ==
    /\ PoolTasks \cap {"look", "wait", "exit"} = {}
    /\ \A n \in ThreadCounts \ {NoCount} : n \in Int /\ 1 .. n \subseteq PoolWorkers

VARIABLES threads_,    \* the number of workers; 0 before and without a pool
          tasks_,
          stopped_,
          workerAt,    \* "look": holds or wants mutex_; "wait", a task, "exit"
          ran,         \* tasks that have returned
          destroying   \* ~ThreadPool(): "no", "joining" or "done"

poolVars == <<threads_, tasks_, stopped_, workerAt, ran, destroying>>

PoolInit ==
    /\ threads_ = 0 /\ tasks_ = <<>> /\ stopped_ = FALSE
    /\ workerAt = [w \in PoolWorkers |-> "look"]
    /\ ran = {} /\ destroying = "no"

\* ThreadPoolExecutor::Create() and Start(); a count below 1 is refused.
CreatePool(count) ==
    /\ threads_ = 0 /\ destroying = "no"
    /\ threads_' = IF count = NoCount \/ count <= 0 THEN threads_ ELSE count
    /\ UNCHANGED <<tasks_, stopped_, workerAt, ran, destroying>>

Live == 1 .. threads_
Sleeping == {w \in Live : workerAt[w] = "wait"}

\* condition_.Signal(): one of the sleeping workers looks again.
Signal ==
    IF Sleeping = {} THEN UNCHANGED workerAt
    ELSE \E w \in Sleeping : workerAt' = [workerAt EXCEPT ![w] = "look"]

Scheduled == {tasks_[i] : i \in 1 .. Len(tasks_)} \cup {workerAt[w] : w \in Live} \cup ran

PoolSchedule(t) ==
    /\ threads_ > 0 /\ destroying = "no" /\ t \notin Scheduled
    /\ tasks_' = Append(tasks_, t)
    /\ Signal
    /\ UNCHANGED <<threads_, stopped_, ran, destroying>>

\* Seeded fault: a worker that sees stopped_ leaves at once.
LeavesOnStop(w) ==
    workerAt' = [workerAt EXCEPT ![w] = IF stopped_ THEN "exit" ELSE IF tasks_ # <<>> THEN Head(tasks_) ELSE "wait"]

\* What a worker does with mutex_ held: tasks come before stopped_.
LooksAgain(w) ==
    workerAt' = [workerAt EXCEPT ![w] =
       IF tasks_ # <<>> THEN Head(tasks_) ELSE IF stopped_ THEN "exit" ELSE "wait"]

RunWorker(w) ==
    /\ w \in Live /\ workerAt[w] = "look"
    /\ LooksAgain(w)
    /\ tasks_' = IF workerAt'[w] \in PoolTasks THEN Tail(tasks_) ELSE tasks_
    /\ UNCHANGED <<threads_, stopped_, ran, destroying>>

TaskReturns(w) ==
    /\ w \in Live /\ workerAt[w] \in PoolTasks
    /\ ran' = ran \cup {workerAt[w]}
    /\ workerAt' = [workerAt EXCEPT ![w] = "look"]
    /\ UNCHANGED <<threads_, tasks_, stopped_, destroying>>

\* ~ThreadPool(), before the first Join() and after the last one
StopPool ==
    /\ threads_ > 0 /\ destroying = "no"
    /\ stopped_' = TRUE /\ destroying' = "joining"
    /\ workerAt' = [w \in PoolWorkers |-> IF w \in Sleeping THEN "look" ELSE workerAt[w]]
    /\ UNCHANGED <<threads_, tasks_, ran>>

JoinWorkers ==
    /\ destroying = "joining" /\ \A w \in Live : workerAt[w] = "exit"
    /\ destroying' = "done"
    /\ UNCHANGED <<threads_, tasks_, stopped_, workerAt, ran>>

PoolWorkerStep(w) == RunWorker(w) \/ TaskReturns(w)

PoolNext ==
    \/ \E count \in ThreadCounts : CreatePool(count)
    \/ \E t \in PoolTasks : PoolSchedule(t)
    \/ \E w \in PoolWorkers : PoolWorkerStep(w)
    \/ StopPool \/ JoinWorkers

\* Tasks return, and a thread that can run is scheduled by the system.
PoolFairness ==
    (\A w \in PoolWorkers : WF_poolVars(PoolWorkerStep(w))) /\ WF_poolVars(JoinWorkers)

PoolSpec == PoolInit /\ [][PoolNext]_poolVars /\ PoolFairness

-----------------------------------------------------------------------------

\* The destructor returns only after every task handed to Schedule() has run,
\* and while tasks wait some worker is awake to take them: neither Signal()
\* nor stopped_ can leave a task behind (RunWorker, ~ThreadPool).
NoTaskLeftBehind ==
    /\ destroying = "done" => tasks_ = <<>> /\ \A w \in Live : workerAt[w] = "exit"
    /\ tasks_ # <<>> => \E w \in Live : workerAt[w] \notin {"wait", "exit"}

\* Every task that was scheduled runs, before or after the pool is stopped,
\* and the destructor returns (Schedule, RunWorker, ~ThreadPool).
PoolDrains ==
    /\ \A t \in PoolTasks : (t \in Scheduled) ~> (t \in ran)
    /\ (destroying = "joining") ~> (destroying = "done")
=============================================================================
