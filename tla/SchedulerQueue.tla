--------------------------- MODULE SchedulerQueue ---------------------------
(***************************************************************************)
(* The scheduler queues of a calculator graph and the tasks their          *)
(* executors run (framework/scheduler_queue.cc), with the counter of       *)
(* non-idle queues that Scheduler::QueueIdleStateChanged keeps.            *)
(*                                                                         *)
(* Every critical section under SchedulerQueue::mutex_ is one action; what *)
(* a method does after unlocking (the idle callback, then one AddTask per  *)
(* task) is further actions of the same thread, so that other threads can  *)
(* come in between.                                                        *)
(***************************************************************************)
EXTENDS Integers, FiniteSets

CONSTANTS
  Queues,    \* scheduler_queues_: the default queue and the named ones
  Threads,   \* every thread that calls into a queue
  Workers,   \* the threads of the executors
  Items,     \* SchedulerQueue::Item: a node with a calculator context
  Info,      \* what an Item caches of its node, see ItemInfo
  NoItem     \* the thread runs no task

(***************************************************************************)
(* The members of SchedulerQueue::Item, and the queue its node was         *)
(* assigned to by Scheduler::AssignNodeToSchedulerQueue.                   *)
(***************************************************************************)
ItemInfo ==
  [open : BOOLEAN, source : BOOLEAN, layer : Int, order : Int, id : Int,
   queue : Queues]

ASSUME QueueAssumption ==
  /\ Workers \subseteq Threads
  /\ Info \in [Items -> ItemInfo]
  /\ NoItem \notin Items
  /\ Queues # {}

VARIABLES
  queue,                 \* queue_, the set of items waiting in each queue
  num_pending_tasks,     \* num_pending_tasks_
  num_tasks_to_add,      \* num_tasks_to_add_
  running_count,         \* running_count_
  executor,              \* AddTask calls the executor has not started yet
  non_idle_queue_count,  \* Scheduler::non_idle_queue_count_
  run,                   \* the item whose task the thread runs, or NoItem
  call,                  \* what is left of the thread's call into a queue
  owed                   \* queues on which the thread, having called
                         \* SetRunning(true), must still submit tasks

queueVars == <<queue, num_pending_tasks, num_tasks_to_add, running_count,
               executor, non_idle_queue_count, run, call, owed>>

(***************************************************************************)
(* A thread outside the queues, about to call idle_callback_(false), about *)
(* to call AddTask, or about to call idle_callback_(true).                 *)
(***************************************************************************)
CallStates == {"none", "active_cb", "submit", "idle_cb"}

Calls == [at : CallStates, q : Queues, tasks : Nat]

NoCall == [at |-> "none", q |-> CHOOSE q \in Queues : TRUE, tasks |-> 0]

QueueTypeOK ==
  /\ queue \in [Queues -> SUBSET Items]
  /\ num_pending_tasks \in [Queues -> Int]
  /\ num_tasks_to_add \in [Queues -> Nat]
  /\ running_count \in [Queues -> Int]
  /\ executor \in [Queues -> Nat]
  /\ non_idle_queue_count \in Int
  /\ run \in [Threads -> Items \cup {NoItem}]
  /\ call \in [Threads -> Calls]
  /\ owed \in [Threads -> SUBSET Queues]

QueueInit ==
  /\ queue = [q \in Queues |-> {}]
  /\ num_pending_tasks = [q \in Queues |-> 0]
  /\ num_tasks_to_add = [q \in Queues |-> 0]
  /\ running_count = [q \in Queues |-> 0]
  /\ executor = [q \in Queues |-> 0]
  /\ non_idle_queue_count = 0
  /\ run = [t \in Threads |-> NoItem]
  /\ call = [t \in Threads |-> NoCall]
  /\ owed = [t \in Threads |-> {}]

-----------------------------------------------------------------------------
(* Item::operator<: i runs after j.                                        *)
RunsAfter(i, j) ==
  LET a == Info[i]
      b == Info[j]
  IN  \/ b.open /\ ~a.open
      \/ a.open /\ b.open /\ a.id > b.id
      \/ /\ ~a.open /\ ~b.open
         /\ \/ a.source /\ ~b.source
            \/ ~a.source /\ ~b.source /\ a.id < b.id
            \/ /\ a.source /\ b.source
               /\ \/ a.layer > b.layer
                  \/ a.layer = b.layer /\ a.order > b.order
                  \/ a.layer = b.layer /\ a.order = b.order /\ a.id > b.id

(* The items queue_.top() may return: none runs before them.               *)
Top(q) == {i \in queue[q] : \A j \in queue[q] : ~RunsAfter(i, j)}

IsIdle(q) == queue[q] = {} /\ num_pending_tasks[q] = 0

(* What is left of a call that grabbed n tasks of q: they are submitted    *)
(* one AddTask at a time.                                                  *)
Submitting(q, n) ==
  IF n > 0 THEN [at |-> "submit", q |-> q, tasks |-> n] ELSE NoCall

(* How many tasks are grabbed when toAdd wait in q: all if q is running.   *)
Grabbed(q, toAdd) == IF running_count[q] > 0 THEN toAdd ELSE 0

(* Seeded fault: the grabbed tasks still count as waiting.                 *)
GetTasksTwice(q, toAdd) ==
  /\ num_tasks_to_add' = [num_tasks_to_add EXCEPT ![q] = toAdd]
  /\ num_pending_tasks' =
       [num_pending_tasks EXCEPT ![q] = @ + Grabbed(q, toAdd)]

(* GetTasksToSubmitToExecutor on q when toAdd tasks wait, if q is running. *)
GetTasksToSubmit(q, toAdd) ==
  /\ num_tasks_to_add' =
       [num_tasks_to_add EXCEPT ![q] = toAdd - Grabbed(q, toAdd)]
  /\ num_pending_tasks' =
       [num_pending_tasks EXCEPT ![q] = @ + Grabbed(q, toAdd)]

WasIdle(q) == IsIdle(q)

(* IsIdle at the end of RunNextTask, the task being finished.              *)
BecameIdle(q) == queue[q] = {} /\ num_pending_tasks[q] - 1 = 0

(* Seeded fault: waiting tasks are not submitted.                          *)
SubmitsNothing(running) == {}

(* The queues on which the caller of SetQueuesRunning must submit tasks.   *)
OwedAfter(running) == IF running THEN Queues ELSE {}

(* AddItemToQueue up to the unlock.  The calculator context of an item is  *)
(* queued once (the caller holds it), though the thread that ran it last   *)
(* may not have finished its task yet.                                     *)
AddItemToQueue(t, i) ==
  LET q == Info[i].queue
      n == Grabbed(q, num_tasks_to_add[q] + 1)
  IN  /\ call[t].at = "none"
      /\ owed[t] = {}
      /\ i \notin queue[q]
      /\ queue' = [queue EXCEPT ![q] = @ \cup {i}]
      /\ GetTasksToSubmit(q, num_tasks_to_add[q] + 1)
      /\ call' = [call EXCEPT ![t] =
                    IF WasIdle(q)
                    THEN [at |-> "active_cb", q |-> q, tasks |-> n]
                    ELSE Submitting(q, n)]
      /\ UNCHANGED <<running_count, executor, non_idle_queue_count, run, owed>>

(* idle_callback_(false): Scheduler::QueueIdleStateChanged counts it.      *)
BecomeActive(t) ==
  /\ call[t].at = "active_cb"
  /\ non_idle_queue_count' = non_idle_queue_count + 1
  /\ call' = [call EXCEPT ![t] = Submitting(@.q, @.tasks)]
  /\ UNCHANGED <<queue, num_pending_tasks, num_tasks_to_add, running_count,
                 executor, run, owed>>

(* executor_->AddTask(this), the loop that ends both AddItemToQueue and    *)
(* SubmitWaitingTasksToExecutor.                                           *)
AddTask(t) ==
  /\ call[t].at = "submit"
  /\ executor' = [executor EXCEPT ![call[t].q] = @ + 1]
  /\ call' = [call EXCEPT ![t] = Submitting(@.q, @.tasks - 1)]
  /\ UNCHANGED <<queue, num_pending_tasks, num_tasks_to_add, running_count,
                 non_idle_queue_count, run, owed>>

(* Scheduler::SetQueuesRunning.  A caller that sets the queues running     *)
(* then owes each of them a SubmitWaitingTasksToExecutor.                  *)
SetQueuesRunning(t, running) ==
  /\ call[t].at = "none"
  /\ owed[t] = {}
  /\ running_count' =
       [q \in Queues |-> running_count[q] + IF running THEN 1 ELSE -1]
  /\ owed' = [owed EXCEPT ![t] = OwedAfter(running)]
  /\ UNCHANGED <<queue, num_pending_tasks, num_tasks_to_add, executor,
                 non_idle_queue_count, run, call>>

(* Scheduler::SubmitWaitingTasksOnQueues called for queues that were       *)
(* running already (Cancel does).                                          *)
SubmitWaitingTasksOnQueues(t) ==
  /\ call[t].at = "none"
  /\ owed' = [owed EXCEPT ![t] = Queues]
  /\ UNCHANGED <<queue, num_pending_tasks, num_tasks_to_add, running_count,
                 executor, non_idle_queue_count, run, call>>

(* SubmitWaitingTasksToExecutor on q up to the unlock.                     *)
SubmitWaitingTasks(t, q) ==
  /\ call[t].at = "none"
  /\ q \in owed[t]
  /\ owed' = [owed EXCEPT ![t] = @ \ {q}]
  /\ GetTasksToSubmit(q, num_tasks_to_add[q])
  /\ call' = [call EXCEPT ![t] = Submitting(q, Grabbed(q, num_tasks_to_add[q]))]
  /\ UNCHANGED <<queue, running_count, executor, non_idle_queue_count, run>>

(* RunNextTask: a worker takes a task of q and pops the top item.          *)
RunNextTask(t, q) ==
  /\ t \in Workers
  /\ run[t] = NoItem
  /\ call[t].at = "none"
  /\ executor[q] > 0
  /\ executor' = [executor EXCEPT ![q] = @ - 1]
  /\ \E i \in Top(q) :
       /\ queue' = [queue EXCEPT ![q] = @ \ {i}]
       /\ run' = [run EXCEPT ![t] = i]
  /\ UNCHANGED <<num_pending_tasks, num_tasks_to_add, running_count,
                 non_idle_queue_count, call, owed>>

(* The end of RunNextTask, after the node has run: the task is no longer   *)
(* pending, and the callback is due if the queue became idle.              *)
EndTask(t) ==
  LET q == Info[run[t]].queue
  IN  /\ run[t] # NoItem
      /\ call[t].at = "none"
      /\ num_pending_tasks' = [num_pending_tasks EXCEPT ![q] = @ - 1]
      /\ run' = [run EXCEPT ![t] = NoItem]
      /\ call' = [call EXCEPT ![t] =
                    IF BecameIdle(q)
                    THEN [at |-> "idle_cb", q |-> q, tasks |-> 0]
                    ELSE NoCall]
      /\ UNCHANGED <<queue, num_tasks_to_add, running_count, executor,
                     non_idle_queue_count, owed>>

(* idle_callback_(true).                                                   *)
BecomeIdle(t) ==
  /\ call[t].at = "idle_cb"
  /\ non_idle_queue_count' = non_idle_queue_count - 1
  /\ call' = [call EXCEPT ![t] = NoCall]
  /\ UNCHANGED <<queue, num_pending_tasks, num_tasks_to_add, running_count,
                 executor, run, owed>>

DropWaiting(q) == num_tasks_to_add' = [num_tasks_to_add EXCEPT ![q] = 0]

(* CleanupAfterRun on q: what was never submitted is dropped.  Its caller  *)
(* waits for the run to end first, so no task is pending.                  *)
CleanupAfterRun(t, q) ==
  /\ call[t].at = "none"
  /\ run[t] = NoItem
  /\ num_pending_tasks[q] = 0
  /\ queue' = [queue EXCEPT ![q] = {}]
  /\ DropWaiting(q)
  /\ call' = [call EXCEPT ![t] =
                IF IsIdle(q) THEN NoCall
                ELSE [at |-> "idle_cb", q |-> q, tasks |-> 0]]
  /\ UNCHANGED <<num_pending_tasks, running_count, executor,
                 non_idle_queue_count, run, owed>>

-----------------------------------------------------------------------------
(***************************************************************************)
(* The queues on their own: any thread adds items at any time, the         *)
(* application starts and stops the queues.  Only running_count_ <= 1 (the *)
(* DCHECK of SetRunning) and a lower bound are asked of the callers, which *)
(* the module Scheduler discharges.                                        *)
(***************************************************************************)
MinRunningCount == -1

MayAdd(t) == t \in Workers => run[t] # NoItem

QueueNext ==
  \E t \in Threads :
    \/ \E i \in Items : MayAdd(t) /\ AddItemToQueue(t, i)
    \/ BecomeActive(t)
    \/ AddTask(t)
    \/ /\ t \notin Workers
       /\ \A q \in Queues : running_count[q] < 1
       /\ SetQueuesRunning(t, TRUE)
    \/ /\ t \notin Workers
       /\ \A q \in Queues : running_count[q] > MinRunningCount
       /\ SetQueuesRunning(t, FALSE)
    \/ t \notin Workers /\ SubmitWaitingTasksOnQueues(t)
    \/ \E q \in Queues : SubmitWaitingTasks(t, q)
    \/ \E q \in Queues : RunNextTask(t, q)
    \/ EndTask(t)
    \/ BecomeIdle(t)
    \/ \E q \in Queues : t \notin Workers /\ CleanupAfterRun(t, q)

QueueSpec == QueueInit /\ [][QueueNext]_queueVars

-----------------------------------------------------------------------------
(***************************************************************************)
(* Properties.  Sums over threads are written as cardinalities: a task in  *)
(* the hands of a thread is a pair of the thread and the task's number.    *)
(***************************************************************************)
TasksInHand(c, q) ==
  UNION {{t} \X (1 .. c[t].tasks) : t \in {u \in Threads : c[u].q = q}}

InHand(q) == TasksInHand(call, q)

Running(q) == {t \in Threads : run[t] # NoItem /\ Info[run[t]].queue = q}

NonIdleQueues == {q \in Queues : ~IsIdle(q)}

AboutTo(state) == {t \in Threads : call[t].at = state}

(* Every task that the executor holds, that a thread is about to hand to   *)
(* it, or that waits for the queue to run stands for one queued item: the  *)
(* CHECK(!queue_.empty()) of RunNextTask can only hold because of this.    *)
TaskAccounting ==
  \A q \in Queues :
    Cardinality(queue[q]) =
      num_tasks_to_add[q] + Cardinality(InHand(q)) + executor[q]

(* num_pending_tasks_ counts the tasks between the grab under the mutex    *)
(* and the end of RunNextTask, wherever they are.                          *)
PendingAccounting ==
  \A q \in Queues :
    num_pending_tasks[q] =
      Cardinality(InHand(q)) + executor[q] + Cardinality(Running(q))

(* non_idle_queue_count_ differs from the number of queues that are not    *)
(* idle exactly by the callbacks that have not been delivered yet.         *)
IdleAccounting ==
  non_idle_queue_count =
    Cardinality(NonIdleQueues) - Cardinality(AboutTo("active_cb"))
      + Cardinality(AboutTo("idle_cb"))

(* No task is stranded: while a queue runs, tasks that wait to be added    *)
(* will be submitted by a thread that has just set the queue running.      *)
NoStrandedTask ==
  \A q \in Queues :
    running_count[q] > 0 /\ num_tasks_to_add[q] > 0
      => \E t \in Threads : q \in owed[t]

(* The CHECK of RunNextTask: a task never finds its queue empty.           *)
RunNextTaskFindsItem ==
  \A q \in Queues : executor[q] > 0 => queue[q] # {}

(* The CHECK_EQ of CleanupAfterRun: with no task pending, the items left   *)
(* are exactly those never submitted.                                      *)
CleanupFindsUnsubmittedItems ==
  \A q \in Queues :
    num_pending_tasks[q] = 0
      => num_tasks_to_add[q] = Cardinality(queue[q])

(* With no "become active" callback on its way, a count of zero means that *)
(* every queue is idle, and the count is never negative.                   *)
CountExactWhenSettled ==
  AboutTo("active_cb") = {}
    => /\ non_idle_queue_count >= 0
       /\ non_idle_queue_count = 0 => \A q \in Queues : IsIdle(q)

(* The bookkeeping of the queues: the counters agree with the items, the   *)
(* tasks and the callbacks that are under way, and the CHECKs that rely on *)
(* them hold (AddItemToQueue, SubmitWaitingTasksToExecutor, RunNextTask,   *)
(* CleanupAfterRun).                                                       *)
QueueSound ==
  /\ QueueTypeOK /\ TaskAccounting /\ PendingAccounting /\ IdleAccounting
  /\ RunNextTaskFindsItem /\ CleanupFindsUnsubmittedItems /\ CountExactWhenSettled
=============================================================================
