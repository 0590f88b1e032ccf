------------------------ MODULE SchedulerQueueProofs ------------------------
(***************************************************************************)
(* The accounting of the scheduler queues, proved for any number of        *)
(* queues, threads and items.                                              *)
(***************************************************************************)
EXTENDS SchedulerQueue, FiniteSetTheorems, TLAPS

(* What the accounting needs to know of the calls in progress and of where *)
(* items are.                                                              *)
CallShape ==
  /\ \A t \in Threads : call[t].at \in {"none", "idle_cb"} => call[t].tasks = 0
  /\ \A t \in Threads : call[t].at = "submit" => call[t].tasks > 0
  /\ \A q \in Queues : \A i \in queue[q] : Info[i].queue = q

AllFinite ==
  /\ \A q \in Queues : IsFiniteSet(queue[q])
  /\ \A q \in Queues : IsFiniteSet(InHand(q))
  /\ \A q \in Queues : IsFiniteSet(Running(q))
  /\ IsFiniteSet(NonIdleQueues)
  /\ IsFiniteSet(AboutTo("active_cb"))
  /\ IsFiniteSet(AboutTo("idle_cb"))

QueueIInv ==
  /\ QueueTypeOK
  /\ CallShape
  /\ AllFinite
  /\ TaskAccounting
  /\ PendingAccounting
  /\ IdleAccounting

-----------------------------------------------------------------------------
(* NoCall is a call.                                                       *)
LEMMA NoCallType ==
  NoCall \in Calls /\ NoCall.at = "none" /\ NoCall.tasks = 0
BY QueueAssumption DEF NoCall, Calls, CallStates

(* Submitting(q, n) is a call that has n tasks of q in hand.               *)
LEMMA SubmittingType ==
  ASSUME NEW q \in Queues, NEW n \in Nat
  PROVE  /\ Submitting(q, n) \in Calls
         /\ Submitting(q, n).tasks = n
         /\ n > 0 => Submitting(q, n).q = q /\ Submitting(q, n).at = "submit"
         /\ n = 0 => Submitting(q, n).at = "none"
BY NoCallType DEF Submitting, Calls, CallStates

(* A thread without tasks in hand that takes n tasks of q adds n to the    *)
(* tasks of q that are in hand, and nothing to those of another queue.     *)
LEMMA TakeTasks ==
  ASSUME NEW c \in [Threads -> Calls], NEW t \in Threads, NEW d \in Calls,
         NEW c2 \in [Threads -> Calls], c2[t] = d,
         \A u \in Threads \ {t} : c2[u] = c[u],
         c[t].tasks = 0, NEW q \in Queues, d.tasks > 0 => d.q = q,
         NEW r \in Queues, IsFiniteSet(TasksInHand(c, r))
  PROVE  /\ IsFiniteSet(TasksInHand(c2, r))
         /\ Cardinality(TasksInHand(c2, r)) =
              Cardinality(TasksInHand(c, r)) + (IF r = q THEN d.tasks ELSE 0)
<1> DEFINE N == {t} \X (1 .. d.tasks)
<1>0. d.tasks \in Nat 
  BY DEF Calls
<1>1. CASE r # q
  <2>1. TasksInHand(c2, r) = TasksInHand(c, r)
    <3>1. ASSUME NEW x PROVE x \in TasksInHand(c2, r) <=> x \in TasksInHand(c, r)
      BY <1>0, <1>1 DEF TasksInHand, Calls
    <3> QED BY <3>1
  <2> QED BY <2>1, <1>1, FS_CardinalityType
<1>2. CASE r = q
  <2>1. TasksInHand(c2, r) = TasksInHand(c, r) \cup N
    <3>1. ASSUME NEW x
          PROVE  x \in TasksInHand(c2, r) <=> x \in TasksInHand(c, r) \/ x \in N
      <4>1. ASSUME x \in TasksInHand(c2, r)
            PROVE  x \in TasksInHand(c, r) \/ x \in N
        BY <4>1, <1>0, <1>2 DEF TasksInHand, Calls
      <4>2. ASSUME x \in TasksInHand(c, r) PROVE x \in TasksInHand(c2, r)
        BY <4>2, <1>0, <1>2 DEF TasksInHand, Calls
      <4>3. ASSUME x \in N PROVE x \in TasksInHand(c2, r)
        <5>1. 1 .. d.tasks # {} => d.tasks > 0
          BY <1>0
        <5>2. d.q = r
          BY <4>3, <5>1, <1>2
        <5> QED BY <4>3, <5>2, <1>0 DEF TasksInHand, Calls
      <4> QED BY <4>1, <4>2, <4>3
    <3> QED BY <3>1
  <2>2. TasksInHand(c, r) \cap N = {}
    BY <1>0 DEF TasksInHand, Calls
  <2>3. IsFiniteSet(N) /\ Cardinality(N) = d.tasks
    <3> DEFINE n == d.tasks
    <3>0. n \in Nat
      BY <1>0
    <3> HIDE DEF n
    <3> DEFINE S == {t}
               T == 1 .. n
    <3>1. IsFiniteSet(T) /\ Cardinality(T) = n
      BY <3>0, FS_Interval
    <3>2. IsFiniteSet(S) /\ Cardinality(S) = 1
      BY FS_Singleton
    <3> HIDE DEF S, T
    <3>3. IsFiniteSet(S \X T) /\ Cardinality(S \X T) = 1 * n
      BY <3>1, <3>2, FS_Product
    <3> QED BY <3>0, <3>3 DEF n, S, T
  <2>4. Cardinality(TasksInHand(c, r)) \in Nat
    BY FS_CardinalityType
  <2> DEFINE H == TasksInHand(c, r)
  <2>a. IsFiniteSet(H) /\ H \cap N = {} /\ TasksInHand(c2, r) = H \cup N
    BY <2>1, <2>2
  <2> HIDE DEF N, H
  <2>5. IsFiniteSet(TasksInHand(c2, r))
    BY <2>a, <2>3, FS_Union
  <2>6. Cardinality(TasksInHand(c2, r)) =
          Cardinality(H) + Cardinality(N) - Cardinality({})
    BY <2>a, <2>3, FS_Union
  <2> QED BY <2>3, <2>4, <2>5, <2>6, <1>0, <1>2, FS_EmptySet DEF H
<1> QED BY <1>1, <1>2

(* A thread that hands one of its tasks of q to the executor has one less  *)
(* in hand.                                                                *)
LEMMA DropTask ==
  ASSUME NEW c \in [Threads -> Calls], NEW t \in Threads, NEW d \in Calls,
         NEW c2 \in [Threads -> Calls], c2[t] = d,
         \A u \in Threads \ {t} : c2[u] = c[u],
         c[t].tasks > 0, d.tasks = c[t].tasks - 1,
         d.tasks > 0 => d.q = c[t].q,
         NEW r \in Queues, IsFiniteSet(TasksInHand(c, r))
  PROVE  /\ IsFiniteSet(TasksInHand(c2, r))
         /\ Cardinality(TasksInHand(c2, r)) =
              Cardinality(TasksInHand(c, r)) - (IF r = c[t].q THEN 1 ELSE 0)
<1> DEFINE y == <<t, c[t].tasks>>
<1>0. c[t].tasks \in Nat /\ d.tasks \in Nat 
  BY DEF Calls
<1>1. CASE r # c[t].q
  <2>1. TasksInHand(c2, r) = TasksInHand(c, r)
    <3>1. ASSUME NEW x PROVE x \in TasksInHand(c2, r) <=> x \in TasksInHand(c, r)
      <4>1. d.tasks = 0 => 1 .. d.tasks = {}
        OBVIOUS
      <4> QED BY <1>0, <1>1, <4>1 DEF TasksInHand, Calls
    <3> QED BY <3>1
  <2> QED BY <2>1, <1>1, FS_CardinalityType
<1>2. CASE r = c[t].q
  <2>1. TasksInHand(c2, r) = TasksInHand(c, r) \ {y}
    <3>1. ASSUME NEW x
          PROVE  x \in TasksInHand(c2, r) <=> x \in TasksInHand(c, r) /\ x # y
      <4>1. ASSUME x \in TasksInHand(c2, r)
            PROVE  x \in TasksInHand(c, r) /\ x # y
        BY <4>1, <1>0, <1>2 DEF TasksInHand, Calls
      <4>2. ASSUME x \in TasksInHand(c, r), x # y
            PROVE  x \in TasksInHand(c2, r)
        BY <4>2, <1>0, <1>2 DEF TasksInHand, Calls
      <4> QED BY <4>1, <4>2
    <3> QED BY <3>1
  <2>2. y \in TasksInHand(c, r)
    BY <1>0, <1>2 DEF TasksInHand, Calls
  <2> DEFINE H == TasksInHand(c, r)
  <2>3. IsFiniteSet(H) /\ y \in H /\ TasksInHand(c2, r) = H \ {y}
    BY <2>1, <2>2
  <2> HIDE DEF H, y
  <2>4. /\ IsFiniteSet(TasksInHand(c2, r))
        /\ Cardinality(TasksInHand(c2, r)) = Cardinality(H) - 1
    BY <2>3, FS_RemoveElement
  <2> QED BY <2>4, <1>2 DEF H
<1> QED BY <1>1, <1>2

(* Two sets that agree on everything but x differ in size by x alone.      *)
LEMMA DifferAtOne ==
  ASSUME NEW S, IsFiniteSet(S), NEW T, NEW x,
         \A y : y # x => (y \in S <=> y \in T)
  PROVE  /\ IsFiniteSet(T)
         /\ Cardinality(S) \in Nat
         /\ Cardinality(T) \in Nat
         /\ Cardinality(T) = Cardinality(S) + (IF x \in T THEN 1 ELSE 0)
                                            - (IF x \in S THEN 1 ELSE 0)
<1>0. Cardinality(S) \in Nat
  BY FS_CardinalityType
<1>1. CASE x \in T
  <2>1. T = S \cup {x}
    BY <1>1
  <2>2. /\ IsFiniteSet(T)
        /\ Cardinality(T) = IF x \in S THEN Cardinality(S) ELSE Cardinality(S)+1
    BY <2>1, FS_AddElement
  <2> QED BY <2>2, <1>0, <1>1, FS_CardinalityType
<1>2. CASE x \notin T
  <2>1. T = S \ {x}
    BY <1>2
  <2>2. /\ IsFiniteSet(T)
        /\ Cardinality(T) = IF x \in S THEN Cardinality(S)-1 ELSE Cardinality(S)
    BY <2>1, FS_RemoveElement
  <2> QED BY <2>2, <1>0, <1>2, FS_CardinalityType
<1> QED BY <1>1, <1>2

(* How a step of one thread's call changes the callbacks on their way.     *)
LEMMA CallbackStep ==
  ASSUME QueueTypeOK, NEW t \in Threads, NEW d \in Calls,
         call'[t] = d, \A u \in Threads \ {t} : call'[u] = call[u],
         NEW s, IsFiniteSet(AboutTo(s))
  PROVE  /\ IsFiniteSet(AboutTo(s)')
         /\ Cardinality(AboutTo(s)) \in Nat
         /\ Cardinality(AboutTo(s)') =
              Cardinality(AboutTo(s)) + (IF d.at = s THEN 1 ELSE 0)
                                      - (IF call[t].at = s THEN 1 ELSE 0)
<1> DEFINE S == AboutTo(s)
           T == AboutTo(s)'
<1>1. t \in T <=> d.at = s
  BY DEF AboutTo, QueueTypeOK
<1>2. t \in S <=> call[t].at = s
  BY DEF AboutTo
<1>3. \A y : y # t => (y \in S <=> y \in T)
  BY DEF AboutTo, QueueTypeOK
<1> HIDE DEF S, T
<1>4. /\ IsFiniteSet(T)
      /\ Cardinality(S) \in Nat
      /\ Cardinality(T) = Cardinality(S) + (IF t \in T THEN 1 ELSE 0)
                                         - (IF t \in S THEN 1 ELSE 0)
  <2>1. IsFiniteSet(S)
    BY DEF S
  <2> QED BY <2>1, <1>3, DifferAtOne
<1> QED BY <1>1, <1>2, <1>4 DEF S, T

(* How a step on one queue changes the set of non-idle queues.             *)
LEMMA IdleStep ==
  ASSUME NEW q \in Queues, IsFiniteSet(NonIdleQueues),
         \A r \in Queues \ {q} : /\ queue'[r] = queue[r]
                                 /\ num_pending_tasks'[r] = num_pending_tasks[r]
  PROVE  /\ IsFiniteSet(NonIdleQueues')
         /\ Cardinality(NonIdleQueues) \in Nat
         /\ Cardinality(NonIdleQueues') =
              Cardinality(NonIdleQueues) + (IF IsIdle(q)' THEN 0 ELSE 1)
                                         - (IF IsIdle(q) THEN 0 ELSE 1)
<1> DEFINE S == NonIdleQueues
           T == NonIdleQueues'
<1>1. q \in T <=> ~IsIdle(q)'
  BY DEF NonIdleQueues
<1>2. q \in S <=> ~IsIdle(q)
  BY DEF NonIdleQueues
<1>3. \A y : y # q => (y \in S <=> y \in T)
  BY DEF NonIdleQueues, IsIdle
<1> HIDE DEF S, T
<1>4. /\ IsFiniteSet(T)
      /\ Cardinality(S) \in Nat
      /\ Cardinality(T) = Cardinality(S) + (IF q \in T THEN 1 ELSE 0)
                                         - (IF q \in S THEN 1 ELSE 0)
  <2>1. IsFiniteSet(S)
    BY DEF S
  <2> QED BY <2>1, <1>3, DifferAtOne
<1> QED BY <1>1, <1>2, <1>4 DEF S, T

(* How a thread that starts or ends a task changes who runs tasks of q.    *)
LEMMA RunStep ==
  ASSUME QueueTypeOK, NEW t \in Threads, NEW i \in Items \cup {NoItem},
         run'[t] = i, \A u \in Threads \ {t} : run'[u] = run[u],
         NEW q \in Queues, IsFiniteSet(Running(q))
  PROVE  /\ IsFiniteSet(Running(q)')
         /\ Cardinality(Running(q)) \in Nat
         /\ Cardinality(Running(q)') =
              Cardinality(Running(q))
                + (IF i # NoItem /\ Info[i].queue = q THEN 1 ELSE 0)
                - (IF run[t] # NoItem /\ Info[run[t]].queue = q THEN 1 ELSE 0)
<1> DEFINE S == Running(q)
           T == Running(q)'
<1>1. t \in T <=> i # NoItem /\ Info[i].queue = q
  BY DEF Running, QueueTypeOK
<1>2. t \in S <=> run[t] # NoItem /\ Info[run[t]].queue = q
  BY DEF Running
<1>3. \A y : y # t => (y \in S <=> y \in T)
  BY DEF Running, QueueTypeOK
<1> HIDE DEF S, T
<1>4. /\ IsFiniteSet(T)
      /\ Cardinality(S) \in Nat
      /\ Cardinality(T) = Cardinality(S) + (IF t \in T THEN 1 ELSE 0)
                                         - (IF t \in S THEN 1 ELSE 0)
  <2>1. IsFiniteSet(S)
    BY DEF S
  <2> QED BY <2>1, <1>3, DifferAtOne
<1> QED BY <1>1, <1>2, <1>4 DEF S, T

(* The cardinalities of the invariant are natural numbers.                 *)
LEMMA CardinalitiesAreNat ==
  ASSUME AllFinite
  PROVE  /\ \A q \in Queues : /\ Cardinality(queue[q]) \in Nat
                              /\ Cardinality(InHand(q)) \in Nat
                              /\ Cardinality(Running(q)) \in Nat
         /\ Cardinality(NonIdleQueues) \in Nat
         /\ Cardinality(AboutTo("active_cb")) \in Nat
         /\ Cardinality(AboutTo("idle_cb")) \in Nat
BY FS_CardinalityType DEF AllFinite

-----------------------------------------------------------------------------
(* Each step preserves the invariant, first the step that adds an item.    *)
LEMMA AddItemPreserves ==
  ASSUME QueueIInv, NEW t \in Threads, NEW i \in Items, AddItemToQueue(t, i)
  PROVE  QueueIInv'
<1> USE DEF QueueIInv
<1> DEFINE q     == Info[i].queue
           toAdd == num_tasks_to_add[q] + 1
           n     == Grabbed(q, toAdd)
           d     == IF IsIdle(q)
                    THEN [at |-> "active_cb", q |-> q, tasks |-> n]
                    ELSE Submitting(q, n)
<1>1. /\ q \in Queues
      /\ toAdd \in Nat
      /\ n \in Nat
      /\ toAdd - n \in Nat
  BY QueueAssumption DEF ItemInfo, QueueTypeOK, Grabbed
<1>2. /\ d \in Calls
      /\ d.tasks = n
      /\ d.tasks > 0 => d.q = q
      /\ d.at \in {"none", "active_cb", "submit"}
      /\ d.at = "none" => n = 0
      /\ d.at = "submit" => n > 0
      /\ d.at = "active_cb" <=> IsIdle(q)
  BY <1>1, SubmittingType DEF Calls, CallStates
<1>3. /\ call' = [call EXCEPT ![t] = d]
      /\ queue' = [queue EXCEPT ![q] = @ \cup {i}]
      /\ i \notin queue[q]
      /\ num_tasks_to_add' = [num_tasks_to_add EXCEPT ![q] = toAdd - n]
      /\ num_pending_tasks' = [num_pending_tasks EXCEPT ![q] = @ + n]
      /\ UNCHANGED <<running_count, executor, non_idle_queue_count, run, owed>>
      /\ call[t].at = "none"
  BY <1>1 DEF AddItemToQueue, GetTasksToSubmit, Grabbed, WasIdle
<1>4. call[t].tasks = 0
  BY <1>3 DEF CallShape
<1> HIDE DEF d, n, toAdd, q
<1>5. QueueTypeOK'
  BY <1>1, <1>2, <1>3 DEF QueueTypeOK
<1>16. /\ call' \in [Threads -> Calls]
       /\ call'[t] = d
       /\ \A u \in Threads \ {t} : call'[u] = call[u]
  BY <1>2, <1>3 DEF QueueTypeOK
<1>6. CallShape'
  BY <1>1, <1>2, <1>3 DEF CallShape, QueueTypeOK, q
<1>7. \A r \in Queues :
        /\ IsFiniteSet(InHand(r)')
        /\ Cardinality(InHand(r)') =
             Cardinality(InHand(r)) + (IF r = q THEN n ELSE 0)
  <2> TAKE r \in Queues
  <2>1. IsFiniteSet(TasksInHand(call, r)) /\ call \in [Threads -> Calls]
    BY DEF InHand, QueueTypeOK, AllFinite
  <2>2. /\ IsFiniteSet(TasksInHand(call', r))
        /\ Cardinality(TasksInHand(call', r)) =
             Cardinality(TasksInHand(call, r)) + (IF r = q THEN d.tasks ELSE 0)
    BY <1>1, <1>2, <1>4, <1>16, <2>1, TakeTasks
  <2> QED BY <1>2, <2>2 DEF InHand
<1>8. \A r \in Queues :
        /\ IsFiniteSet(queue'[r])
        /\ Cardinality(queue'[r]) =
             Cardinality(queue[r]) + (IF r = q THEN 1 ELSE 0)
  <2> TAKE r \in Queues
  <2>1. CASE r = q
    <3>1. IsFiniteSet(queue[q]) /\ queue'[q] = queue[q] \cup {i}
      BY <1>1, <1>3 DEF AllFinite, QueueTypeOK
    <3> QED BY <2>1, <3>1, <1>3, FS_AddElement
  <2>2. CASE r # q
    <3>1. queue'[r] = queue[r] /\ Cardinality(queue[r]) \in Nat
      BY <2>2, <1>3, CardinalitiesAreNat DEF QueueTypeOK
    <3> QED BY <2>2, <3>1 DEF AllFinite
  <2> QED BY <2>1, <2>2
<1>9. \A r \in Queues : Running(r)' = Running(r)
  BY <1>3 DEF Running
<1>10. \A s \in {"active_cb", "idle_cb"} :
         /\ IsFiniteSet(AboutTo(s)')
         /\ Cardinality(AboutTo(s)') =
              Cardinality(AboutTo(s)) + (IF d.at = s THEN 1 ELSE 0)
  <2> TAKE s \in {"active_cb", "idle_cb"}
  <2>1. IsFiniteSet(AboutTo(s)) /\ call[t].at # s
    BY <1>3 DEF AllFinite
  <2>2. /\ IsFiniteSet(AboutTo(s)')
        /\ Cardinality(AboutTo(s)) \in Nat
        /\ Cardinality(AboutTo(s)') =
              Cardinality(AboutTo(s)) + (IF d.at = s THEN 1 ELSE 0)
                                      - (IF call[t].at = s THEN 1 ELSE 0)
    BY <1>2, <1>16, <2>1, CallbackStep
  <2> QED BY <2>1, <2>2
<1>11. /\ IsFiniteSet(NonIdleQueues')
       /\ Cardinality(NonIdleQueues') =
            Cardinality(NonIdleQueues) + (IF IsIdle(q) THEN 1 ELSE 0)
  <2>1. ~IsIdle(q)'
    BY <1>1, <1>3 DEF IsIdle, QueueTypeOK
  <2>2. \A r \in Queues \ {q} : /\ queue'[r] = queue[r]
                               /\ num_pending_tasks'[r] = num_pending_tasks[r]
    BY <1>3 DEF QueueTypeOK
  <2> QED BY <1>1, <2>1, <2>2, IdleStep DEF AllFinite
<1>12. AllFinite'
  BY <1>7, <1>8, <1>9, <1>10, <1>11 DEF AllFinite
<1>13. TaskAccounting'
  <2>1. SUFFICES ASSUME NEW r \in Queues
                 PROVE  Cardinality(queue'[r]) = num_tasks_to_add'[r]
                          + Cardinality(InHand(r)') + executor'[r]
    BY DEF TaskAccounting
  <2>2. /\ Cardinality(queue[r]) =
             num_tasks_to_add[r] + Cardinality(InHand(r)) + executor[r]
        /\ Cardinality(queue[r]) \in Nat
        /\ Cardinality(InHand(r)) \in Nat
        /\ executor[r] \in Nat /\ num_tasks_to_add[r] \in Nat
    BY CardinalitiesAreNat DEF TaskAccounting, QueueTypeOK
  <2>3. num_tasks_to_add'[r] =
          IF r = q THEN num_tasks_to_add[r] + 1 - n ELSE num_tasks_to_add[r]
    BY <1>1, <1>3 DEF QueueTypeOK, toAdd
  <2>4. /\ Cardinality(queue'[r]) =
             Cardinality(queue[r]) + (IF r = q THEN 1 ELSE 0)
        /\ Cardinality(InHand(r)') =
             Cardinality(InHand(r)) + (IF r = q THEN n ELSE 0)
        /\ executor'[r] = executor[r]
    BY <1>3, <1>7, <1>8
  <2> QED BY <1>1, <2>2, <2>3, <2>4
<1>14. PendingAccounting'
  BY <1>1, <1>3, <1>7, <1>9, CardinalitiesAreNat
  DEF PendingAccounting, QueueTypeOK
<1>15. IdleAccounting'
  BY <1>2, <1>3, <1>10, <1>11, CardinalitiesAreNat
  DEF IdleAccounting, QueueTypeOK
<1> QED BY <1>5, <1>6, <1>12, <1>13, <1>14, <1>15

(* The callback of a queue that became active.                             *)
LEMMA BecomeActivePreserves ==
  ASSUME QueueIInv, NEW t \in Threads, BecomeActive(t)
  PROVE  QueueIInv'
<1> USE DEF QueueIInv
<1> DEFINE d == Submitting(call[t].q, call[t].tasks)
<1>1. /\ call' = [call EXCEPT ![t] = d]
      /\ call[t].at = "active_cb"
      /\ non_idle_queue_count' = non_idle_queue_count + 1
      /\ UNCHANGED <<queue, num_pending_tasks, num_tasks_to_add, running_count,
                     executor, run, owed>>
  BY DEF BecomeActive
<1>2. call[t].q \in Queues /\ call[t].tasks \in Nat
  BY DEF QueueTypeOK, Calls
<1>3. /\ d \in Calls
      /\ d.tasks = call[t].tasks
      /\ d.tasks > 0 => d.q = call[t].q
      /\ d.at \in {"none", "submit"}
      /\ d.at = "none" => d.tasks = 0
      /\ d.at = "submit" => d.tasks > 0
  BY <1>2, SubmittingType
<1> HIDE DEF d
<1>4. /\ call' \in [Threads -> Calls]
      /\ call'[t] = d
      /\ \A u \in Threads \ {t} : call'[u] = call[u]
  BY <1>1, <1>3 DEF QueueTypeOK
<1>5. QueueTypeOK'
  BY <1>1, <1>4 DEF QueueTypeOK
<1>6. CallShape'
  BY <1>1, <1>3, <1>4 DEF CallShape
<1>7. \A r \in Queues : InHand(r)' = InHand(r)
  <2> SUFFICES ASSUME NEW r \in Queues, NEW x
               PROVE  x \in TasksInHand(call', r) <=> x \in TasksInHand(call, r)
    BY DEF InHand
  <2>1. call[t].tasks = 0 => 1 .. call[t].tasks = {} /\ 1 .. d.tasks = {}
    BY <1>3
  <2> QED BY <1>2, <1>3, <1>4, <2>1 DEF TasksInHand
<1>8. \A r \in Queues : Running(r)' = Running(r)
  BY <1>1 DEF Running
<1>9. NonIdleQueues' = NonIdleQueues
  BY <1>1 DEF NonIdleQueues, IsIdle
<1>10. /\ IsFiniteSet(AboutTo("active_cb")')
       /\ Cardinality(AboutTo("active_cb")') =
            Cardinality(AboutTo("active_cb")) - 1
  BY <1>1, <1>3, <1>4, CallbackStep DEF AllFinite
<1>11. AboutTo("idle_cb")' = AboutTo("idle_cb")
  BY <1>1, <1>3, <1>4 DEF AboutTo
<1>12. AllFinite'
  BY <1>1, <1>7, <1>8, <1>9, <1>10, <1>11 DEF AllFinite
<1>13. TaskAccounting' /\ PendingAccounting'
  BY <1>1, <1>7, <1>8 DEF TaskAccounting, PendingAccounting
<1>14. IdleAccounting'
  BY <1>1, <1>9, <1>10, <1>11, CardinalitiesAreNat
  DEF IdleAccounting, QueueTypeOK
<1> QED BY <1>5, <1>6, <1>12, <1>13, <1>14

(* Handing a task to the executor.                                         *)
LEMMA AddTaskPreserves ==
  ASSUME QueueIInv, NEW t \in Threads, AddTask(t)
  PROVE  QueueIInv'
<1> USE DEF QueueIInv
<1> DEFINE q == call[t].q
           d == Submitting(q, call[t].tasks - 1)
<1>1. /\ call' = [call EXCEPT ![t] = d]
      /\ call[t].at = "submit"
      /\ executor' = [executor EXCEPT ![q] = @ + 1]
      /\ UNCHANGED <<queue, num_pending_tasks, num_tasks_to_add, running_count,
                     non_idle_queue_count, run, owed>>
  BY DEF AddTask
<1>2. q \in Queues /\ call[t].tasks \in Nat /\ call[t].tasks > 0
  BY <1>1 DEF QueueTypeOK, Calls, CallShape
<1>3. /\ d \in Calls
      /\ d.tasks = call[t].tasks - 1
      /\ d.tasks > 0 => d.q = q
      /\ d.at \in {"none", "submit"}
      /\ d.at = "none" => d.tasks = 0
      /\ d.at = "submit" => d.tasks > 0
  <2>1. call[t].tasks - 1 \in Nat
    BY <1>2
  <2> QED BY <1>2, <2>1, SubmittingType
<1> HIDE DEF d
<1>4. /\ call' \in [Threads -> Calls]
      /\ call'[t] = d
      /\ \A u \in Threads \ {t} : call'[u] = call[u]
  BY <1>1, <1>3 DEF QueueTypeOK
<1>5. QueueTypeOK'
  BY <1>1, <1>2, <1>4 DEF QueueTypeOK
<1>6. CallShape'
  BY <1>1, <1>3, <1>4 DEF CallShape
<1>7. \A r \in Queues :
        /\ IsFiniteSet(InHand(r)')
        /\ Cardinality(InHand(r)') =
             Cardinality(InHand(r)) - (IF r = q THEN 1 ELSE 0)
  <2> TAKE r \in Queues
  <2>1. IsFiniteSet(TasksInHand(call, r)) /\ call \in [Threads -> Calls]
    BY DEF InHand, QueueTypeOK, AllFinite
  <2>2. /\ IsFiniteSet(TasksInHand(call', r))
        /\ Cardinality(TasksInHand(call', r)) =
             Cardinality(TasksInHand(call, r)) - (IF r = call[t].q THEN 1 ELSE 0)
    BY <1>2, <1>3, <1>4, <2>1, DropTask
  <2> QED BY <2>2 DEF InHand
<1>8. \A r \in Queues : Running(r)' = Running(r)
  BY <1>1 DEF Running
<1>9. NonIdleQueues' = NonIdleQueues
  BY <1>1 DEF NonIdleQueues, IsIdle
<1>10. \A s \in {"active_cb", "idle_cb"} : AboutTo(s)' = AboutTo(s)
  BY <1>1, <1>3, <1>4 DEF AboutTo
<1>11. AllFinite'
  BY <1>1, <1>7, <1>8, <1>9, <1>10 DEF AllFinite
<1>12. ASSUME NEW r \in Queues
       PROVE  executor'[r] = executor[r] + (IF r = q THEN 1 ELSE 0)
  BY <1>1, <1>2 DEF QueueTypeOK
<1>13. TaskAccounting' /\ PendingAccounting'
  BY <1>1, <1>7, <1>8, <1>12, CardinalitiesAreNat
  DEF TaskAccounting, PendingAccounting, QueueTypeOK
<1>14. IdleAccounting'
  BY <1>1, <1>9, <1>10 DEF IdleAccounting
<1> QED BY <1>5, <1>6, <1>11, <1>13, <1>14

(* Starting or stopping the queues, and what follows from it.              *)
LEMMA SetQueuesRunningPreserves ==
  ASSUME QueueIInv, NEW t \in Threads, NEW b \in BOOLEAN,
         SetQueuesRunning(t, b) \/ SubmitWaitingTasksOnQueues(t)
  PROVE  QueueIInv'
<1> USE DEF QueueIInv
<1>1. /\ running_count' \in [Queues -> Int]
      /\ owed' \in [Threads -> SUBSET Queues]
      /\ UNCHANGED <<queue, num_pending_tasks, num_tasks_to_add, executor,
                     non_idle_queue_count, run, call>>
  BY DEF SetQueuesRunning, SubmitWaitingTasksOnQueues, QueueTypeOK, OwedAfter
<1>2. QueueTypeOK' /\ CallShape'
  BY <1>1 DEF QueueTypeOK, CallShape
<1>3. /\ \A q \in Queues : InHand(q)' = InHand(q) /\ Running(q)' = Running(q)
      /\ NonIdleQueues' = NonIdleQueues
      /\ \A s \in {"active_cb", "idle_cb"} : AboutTo(s)' = AboutTo(s)
  BY <1>1 DEF InHand, Running, NonIdleQueues, IsIdle, AboutTo
<1> QED BY <1>1, <1>2, <1>3
        DEF AllFinite, TaskAccounting, PendingAccounting, IdleAccounting

(* Submitting the tasks that waited for the queue to run.                  *)
LEMMA SubmitWaitingTasksPreserves ==
  ASSUME QueueIInv, NEW t \in Threads, NEW q \in Queues,
         SubmitWaitingTasks(t, q)
  PROVE  QueueIInv'
<1> USE DEF QueueIInv
<1> DEFINE n == Grabbed(q, num_tasks_to_add[q])
           d == Submitting(q, n)
<1>1. n \in Nat /\ num_tasks_to_add[q] - n \in Nat /\ n <= num_tasks_to_add[q]
  BY DEF QueueTypeOK, Grabbed
<1>2. /\ call' = [call EXCEPT ![t] = d]
      /\ call[t].at = "none"
      /\ num_tasks_to_add' =
           [num_tasks_to_add EXCEPT ![q] = num_tasks_to_add[q] - n]
      /\ num_pending_tasks' = [num_pending_tasks EXCEPT ![q] = @ + n]
      /\ owed' = [owed EXCEPT ![t] = @ \ {q}]
      /\ UNCHANGED <<queue, running_count, executor, non_idle_queue_count, run>>
  BY DEF SubmitWaitingTasks, GetTasksToSubmit, Grabbed
<1>3. /\ d \in Calls
      /\ d.tasks = n
      /\ d.tasks > 0 => d.q = q
      /\ d.at \in {"none", "submit"}
      /\ d.at = "none" => n = 0
      /\ d.at = "submit" => n > 0
  BY <1>1, SubmittingType
<1>4. call[t].tasks = 0
  BY <1>2 DEF CallShape
<1> HIDE DEF d, n
<1>5. /\ call' \in [Threads -> Calls]
      /\ call'[t] = d
      /\ \A u \in Threads \ {t} : call'[u] = call[u]
  BY <1>2, <1>3 DEF QueueTypeOK
<1>6. QueueTypeOK' /\ CallShape'
  BY <1>1, <1>2, <1>3, <1>5 DEF QueueTypeOK, CallShape
<1>7. \A r \in Queues :
        /\ IsFiniteSet(InHand(r)')
        /\ Cardinality(InHand(r)') =
             Cardinality(InHand(r)) + (IF r = q THEN n ELSE 0)
  <2> TAKE r \in Queues
  <2>1. IsFiniteSet(TasksInHand(call, r)) /\ call \in [Threads -> Calls]
    BY DEF InHand, QueueTypeOK, AllFinite
  <2>2. /\ IsFiniteSet(TasksInHand(call', r))
        /\ Cardinality(TasksInHand(call', r)) =
             Cardinality(TasksInHand(call, r)) + (IF r = q THEN d.tasks ELSE 0)
    BY <1>3, <1>4, <1>5, <2>1, TakeTasks
  <2> QED BY <1>3, <2>2 DEF InHand
<1>8. \A r \in Queues : Running(r)' = Running(r)
  BY <1>2 DEF Running
<1>9. NonIdleQueues' = NonIdleQueues
  <2>1. n > 0 => queue[q] # {}
    <3>1. num_tasks_to_add[q] > 0 => Cardinality(queue[q]) # 0
      BY CardinalitiesAreNat DEF TaskAccounting, QueueTypeOK
    <3>2. Cardinality(queue[q]) # 0 => queue[q] # {}
      BY FS_EmptySet
    <3>3. num_tasks_to_add[q] \in Nat
      BY DEF QueueTypeOK
    <3> QED BY <3>1, <3>2, <3>3, <1>1
  <2>2. \A r \in Queues : IsIdle(r)' <=> IsIdle(r)
    BY <1>1, <1>2, <2>1 DEF IsIdle, QueueTypeOK
  <2> QED BY <2>2 DEF NonIdleQueues
<1>10. \A s \in {"active_cb", "idle_cb"} : AboutTo(s)' = AboutTo(s)
  BY <1>2, <1>3, <1>5 DEF AboutTo
<1>11. AllFinite'
  BY <1>2, <1>7, <1>8, <1>9, <1>10 DEF AllFinite
<1>12. ASSUME NEW r \in Queues
       PROVE  /\ num_tasks_to_add'[r] =
                   num_tasks_to_add[r] - (IF r = q THEN n ELSE 0)
              /\ num_pending_tasks'[r] =
                   num_pending_tasks[r] + (IF r = q THEN n ELSE 0)
  BY <1>1, <1>2 DEF QueueTypeOK
<1>13. TaskAccounting' /\ PendingAccounting'
  BY <1>1, <1>2, <1>7, <1>8, <1>12, CardinalitiesAreNat
  DEF TaskAccounting, PendingAccounting, QueueTypeOK
<1>14. IdleAccounting'
  BY <1>2, <1>9, <1>10 DEF IdleAccounting
<1> QED BY <1>6, <1>11, <1>13, <1>14

(* A worker takes a task and pops the top item: the task moves from the    *)
(* executor to the worker.                                                 *)
LEMMA RunNextTaskPreserves ==
  ASSUME QueueIInv, NEW t \in Threads, NEW q \in Queues, RunNextTask(t, q)
  PROVE  QueueIInv'
<1> USE DEF QueueIInv
<1>1. PICK i \in queue[q] : /\ queue' = [queue EXCEPT ![q] = @ \ {i}]
                            /\ run' = [run EXCEPT ![t] = i]
  BY DEF RunNextTask, Top
<1>2. /\ run[t] = NoItem
      /\ executor[q] > 0
      /\ executor' = [executor EXCEPT ![q] = @ - 1]
      /\ UNCHANGED <<num_pending_tasks, num_tasks_to_add, running_count,
                     non_idle_queue_count, call, owed>>
  BY DEF RunNextTask
<1>3. i \in Items /\ i # NoItem /\ Info[i].queue = q
  BY QueueAssumption DEF QueueTypeOK, CallShape
<1>4. QueueTypeOK' /\ CallShape'
  BY <1>1, <1>2, <1>3 DEF QueueTypeOK, CallShape
<1>5. \A r \in Queues :
        /\ IsFiniteSet(queue'[r])
        /\ Cardinality(queue'[r]) =
             Cardinality(queue[r]) - (IF r = q THEN 1 ELSE 0)
  <2> TAKE r \in Queues
  <2>1. CASE r = q
    <3>1. IsFiniteSet(queue[q]) /\ queue'[q] = queue[q] \ {i}
      BY <1>1 DEF AllFinite, QueueTypeOK
    <3> QED BY <2>1, <3>1, FS_RemoveElement
  <2>2. CASE r # q
    BY <2>2, <1>1, CardinalitiesAreNat DEF QueueTypeOK, AllFinite
  <2> QED BY <2>1, <2>2
<1>6. \A r \in Queues :
        /\ IsFiniteSet(Running(r)')
        /\ Cardinality(Running(r)') =
             Cardinality(Running(r)) + (IF r = q THEN 1 ELSE 0)
  <2> TAKE r \in Queues
  <2>1. run'[t] = i /\ \A u \in Threads \ {t} : run'[u] = run[u]
    BY <1>1 DEF QueueTypeOK
  <2>2. IsFiniteSet(Running(r))
    BY DEF AllFinite
  <2> QED BY <1>2, <1>3, <2>1, <2>2, RunStep
<1>7. \A r \in Queues : InHand(r)' = InHand(r)
  BY <1>2 DEF InHand
<1>8. num_pending_tasks[q] > 0
  BY <1>2, CardinalitiesAreNat DEF PendingAccounting, QueueTypeOK
<1>9. NonIdleQueues' = NonIdleQueues
  BY <1>1, <1>2, <1>8 DEF NonIdleQueues, IsIdle, QueueTypeOK
<1>10. \A s \in {"active_cb", "idle_cb"} : AboutTo(s)' = AboutTo(s)
  BY <1>2 DEF AboutTo
<1>11. AllFinite'
  BY <1>5, <1>6, <1>7, <1>9, <1>10 DEF AllFinite
<1>12. ASSUME NEW r \in Queues
       PROVE  executor'[r] = executor[r] - (IF r = q THEN 1 ELSE 0)
  BY <1>2 DEF QueueTypeOK
<1>13. TaskAccounting' /\ PendingAccounting'
  <2>1. ASSUME NEW r \in Queues
        PROVE  /\ Cardinality(queue'[r]) = num_tasks_to_add'[r]
                    + Cardinality(InHand(r)') + executor'[r]
               /\ num_pending_tasks'[r] = Cardinality(InHand(r)')
                    + executor'[r] + Cardinality(Running(r)')
    <3>1. /\ Cardinality(queue[r]) \in Nat
          /\ Cardinality(InHand(r)) \in Nat
          /\ Cardinality(Running(r)) \in Nat
          /\ executor[r] \in Nat
          /\ num_tasks_to_add[r] \in Nat
          /\ num_pending_tasks[r] \in Int
      BY CardinalitiesAreNat DEF QueueTypeOK
    <3>2. /\ Cardinality(queue[r]) =
               num_tasks_to_add[r] + Cardinality(InHand(r)) + executor[r]
          /\ num_pending_tasks[r] = Cardinality(InHand(r)) + executor[r]
               + Cardinality(Running(r))
      BY DEF TaskAccounting, PendingAccounting
    <3>3. /\ num_tasks_to_add'[r] = num_tasks_to_add[r]
          /\ num_pending_tasks'[r] = num_pending_tasks[r]
      BY <1>2
    <3>4. Cardinality(InHand(r)') = Cardinality(InHand(r))
      BY <1>7
    <3> QED BY <1>5, <1>6, <1>12, <3>1, <3>2, <3>3, <3>4
  <2> QED BY <2>1 DEF TaskAccounting, PendingAccounting
<1>14. IdleAccounting'
  BY <1>2, <1>9, <1>10 DEF IdleAccounting
<1> QED BY <1>4, <1>11, <1>13, <1>14

(* The task of a worker ends.                                              *)
LEMMA EndTaskPreserves ==
  ASSUME QueueIInv, NEW t \in Threads, EndTask(t)
  PROVE  QueueIInv'
<1> USE DEF QueueIInv
<1>0. PICK q \in Queues : run[t] \in Items /\ q = Info[run[t]].queue
  BY QueueAssumption DEF EndTask, QueueTypeOK, ItemInfo, BecameIdle
<1> DEFINE p == num_pending_tasks[q] - 1
           d == IF queue[q] = {} /\ p = 0
                THEN [at |-> "idle_cb", q |-> q, tasks |-> 0]
                ELSE NoCall
<1>1. /\ run[t] # NoItem
      /\ call[t].at = "none"
      /\ num_pending_tasks' = [num_pending_tasks EXCEPT ![q] = @ - 1]
      /\ run' = [run EXCEPT ![t] = NoItem]
      /\ call' = [call EXCEPT ![t] = d]
      /\ UNCHANGED <<queue, num_tasks_to_add, running_count, executor,
                     non_idle_queue_count, owed>>
  BY <1>0 DEF EndTask, BecameIdle
<1>2. p \in Int
  BY DEF QueueTypeOK
<1>3. /\ d \in Calls
      /\ d.tasks = 0
      /\ d.at \in {"none", "idle_cb"}
      /\ d.at = "idle_cb" <=> queue[q] = {} /\ p = 0
  BY <1>2, NoCallType DEF Calls, CallStates
<1>4. call[t].tasks = 0
  BY <1>1 DEF CallShape
<1> HIDE DEF d
<1>5. /\ call' \in [Threads -> Calls]
      /\ call'[t] = d
      /\ \A u \in Threads \ {t} : call'[u] = call[u]
      /\ run'[t] = NoItem
      /\ \A u \in Threads \ {t} : run'[u] = run[u]
      /\ num_pending_tasks'[q] = p
      /\ \A r \in Queues \ {q} : num_pending_tasks'[r] = num_pending_tasks[r]
  BY <1>1, <1>2, <1>3 DEF QueueTypeOK
<1>6. QueueTypeOK' /\ CallShape'
  BY <1>1, <1>2, <1>3, <1>5 DEF QueueTypeOK, CallShape
<1>7. \A r \in Queues :
        /\ IsFiniteSet(InHand(r)')
        /\ Cardinality(InHand(r)') = Cardinality(InHand(r))
  <2> TAKE r \in Queues
  <2>1. IsFiniteSet(TasksInHand(call, r)) /\ call \in [Threads -> Calls]
    BY DEF InHand, QueueTypeOK, AllFinite
  <2>2. /\ IsFiniteSet(TasksInHand(call', r))
        /\ Cardinality(TasksInHand(call', r)) =
             Cardinality(TasksInHand(call, r)) + (IF r = q THEN d.tasks ELSE 0)
    BY <1>2, <1>3, <1>4, <1>5, <2>1, TakeTasks
  <2> QED BY <1>3, <2>2, CardinalitiesAreNat DEF InHand
<1>8. \A r \in Queues :
        /\ IsFiniteSet(Running(r)')
        /\ Cardinality(Running(r)') =
             Cardinality(Running(r)) - (IF r = q THEN 1 ELSE 0)
  <2> TAKE r \in Queues
  <2>1. IsFiniteSet(Running(r))
    BY DEF AllFinite
  <2>2. /\ IsFiniteSet(Running(r)')
        /\ Cardinality(Running(r)) \in Nat
        /\ Cardinality(Running(r)') =
              Cardinality(Running(r))
                + (IF NoItem # NoItem /\ Info[NoItem].queue = r THEN 1 ELSE 0)
                - (IF run[t] # NoItem /\ Info[run[t]].queue = r THEN 1 ELSE 0)
    BY <1>5, <2>1, RunStep
  <2> QED BY <1>0, <1>1, <2>2
<1>9. num_pending_tasks[q] > 0
  <2>1. t \in Running(q)
    BY <1>0, <1>1 DEF Running
  <2>2. Cardinality(Running(q)) # 0
    BY <2>1, FS_EmptySet DEF AllFinite
  <2>3. /\ Cardinality(InHand(q)) \in Nat
        /\ Cardinality(Running(q)) \in Nat
        /\ executor[q] \in Nat
        /\ num_pending_tasks[q] =
             Cardinality(InHand(q)) + executor[q] + Cardinality(Running(q))
    BY CardinalitiesAreNat DEF PendingAccounting, QueueTypeOK
  <2> QED BY <2>2, <2>3
<1>10. /\ IsFiniteSet(NonIdleQueues')
       /\ Cardinality(NonIdleQueues') =
            Cardinality(NonIdleQueues) - (IF d.at = "idle_cb" THEN 1 ELSE 0)
  <2>1. ~IsIdle(q) /\ (IsIdle(q)' <=> d.at = "idle_cb")
    BY <1>1, <1>3, <1>5, <1>9 DEF IsIdle
  <2>2. \A r \in Queues \ {q} : /\ queue'[r] = queue[r]
                               /\ num_pending_tasks'[r] = num_pending_tasks[r]
    BY <1>1, <1>5
  <2> QED BY <1>2, <2>1, <2>2, IdleStep DEF AllFinite
<1>11. /\ IsFiniteSet(AboutTo("idle_cb")')
       /\ Cardinality(AboutTo("idle_cb")') =
            Cardinality(AboutTo("idle_cb")) + (IF d.at = "idle_cb" THEN 1 ELSE 0)
  BY <1>1, <1>3, <1>5, CallbackStep DEF AllFinite
<1>12. AboutTo("active_cb")' = AboutTo("active_cb")
  BY <1>1, <1>3, <1>5 DEF AboutTo
<1>13. AllFinite'
  BY <1>1, <1>7, <1>8, <1>10, <1>11, <1>12 DEF AllFinite
<1>14. TaskAccounting'
  BY <1>1, <1>7 DEF TaskAccounting
<1>15. PendingAccounting'
  BY <1>1, <1>5, <1>7, <1>8, CardinalitiesAreNat
  DEF PendingAccounting, QueueTypeOK
<1>16. IdleAccounting'
  BY <1>1, <1>10, <1>11, <1>12, CardinalitiesAreNat
  DEF IdleAccounting, QueueTypeOK
<1> QED BY <1>6, <1>13, <1>14, <1>15, <1>16

(* The callback of a queue that became idle.                               *)
LEMMA BecomeIdlePreserves ==
  ASSUME QueueIInv, NEW t \in Threads, BecomeIdle(t)
  PROVE  QueueIInv'
<1> USE DEF QueueIInv
<1>1. /\ call' = [call EXCEPT ![t] = NoCall]
      /\ call[t].at = "idle_cb"
      /\ non_idle_queue_count' = non_idle_queue_count - 1
      /\ UNCHANGED <<queue, num_pending_tasks, num_tasks_to_add, running_count,
                     executor, run, owed>>
  BY DEF BecomeIdle
<1>2. call[t].tasks = 0
  BY <1>1 DEF CallShape
<1>3. /\ call' \in [Threads -> Calls]
      /\ call'[t] = NoCall
      /\ \A u \in Threads \ {t} : call'[u] = call[u]
  BY <1>1, NoCallType DEF QueueTypeOK
<1>4. QueueTypeOK' /\ CallShape'
  BY <1>1, <1>3, NoCallType DEF QueueTypeOK, CallShape
<1>5. \A r \in Queues : InHand(r)' = InHand(r)
  <2> SUFFICES ASSUME NEW r \in Queues, NEW x
               PROVE  x \in TasksInHand(call', r) <=> x \in TasksInHand(call, r)
    BY DEF InHand
  <2>1. 1 .. call[t].tasks = {} /\ 1 .. NoCall.tasks = {}
    BY <1>2, NoCallType
  <2> QED BY <1>3, <2>1 DEF TasksInHand
<1>6. \A r \in Queues : Running(r)' = Running(r)
  BY <1>1 DEF Running
<1>7. NonIdleQueues' = NonIdleQueues
  BY <1>1 DEF NonIdleQueues, IsIdle
<1>8. /\ IsFiniteSet(AboutTo("idle_cb")')
      /\ Cardinality(AboutTo("idle_cb")') = Cardinality(AboutTo("idle_cb")) - 1
  BY <1>1, <1>3, NoCallType, CallbackStep DEF AllFinite
<1>9. AboutTo("active_cb")' = AboutTo("active_cb")
  BY <1>1, <1>3, NoCallType DEF AboutTo
<1>10. AllFinite'
  BY <1>1, <1>5, <1>6, <1>7, <1>8, <1>9 DEF AllFinite
<1>11. TaskAccounting' /\ PendingAccounting'
  BY <1>1, <1>5, <1>6 DEF TaskAccounting, PendingAccounting
<1>12. IdleAccounting'
  BY <1>1, <1>7, <1>8, <1>9, CardinalitiesAreNat
  DEF IdleAccounting, QueueTypeOK
<1> QED BY <1>4, <1>10, <1>11, <1>12

(* Dropping, after the run, the items that were never submitted.           *)
LEMMA CleanupPreserves ==
  ASSUME QueueIInv, NEW t \in Threads, NEW q \in Queues, CleanupAfterRun(t, q)
  PROVE  QueueIInv'
<1> USE DEF QueueIInv
<1> DEFINE d == IF IsIdle(q) THEN NoCall
                ELSE [at |-> "idle_cb", q |-> q, tasks |-> 0]
<1>1. /\ call' = [call EXCEPT ![t] = d]
      /\ call[t].at = "none"
      /\ num_pending_tasks[q] = 0
      /\ queue' = [queue EXCEPT ![q] = {}]
      /\ num_tasks_to_add' = [num_tasks_to_add EXCEPT ![q] = 0]
      /\ UNCHANGED <<num_pending_tasks, running_count, executor,
                     non_idle_queue_count, run, owed>>
  BY DEF CleanupAfterRun, DropWaiting
<1>2. /\ d \in Calls
      /\ d.tasks = 0
      /\ d.at \in {"none", "idle_cb"}
      /\ d.at = "idle_cb" <=> ~IsIdle(q)
  BY NoCallType DEF Calls, CallStates
<1>3. call[t].tasks = 0
  BY <1>1 DEF CallShape
<1> HIDE DEF d
<1>4. /\ call' \in [Threads -> Calls]
      /\ call'[t] = d
      /\ \A u \in Threads \ {t} : call'[u] = call[u]
  BY <1>1, <1>2 DEF QueueTypeOK
<1>5. QueueTypeOK' /\ CallShape'
  BY <1>1, <1>2, <1>4 DEF QueueTypeOK, CallShape
<1>6. \A r \in Queues : InHand(r)' = InHand(r)
  <2> SUFFICES ASSUME NEW r \in Queues, NEW x
               PROVE  x \in TasksInHand(call', r) <=> x \in TasksInHand(call, r)
    BY DEF InHand
  <2>1. 1 .. call[t].tasks = {} /\ 1 .. d.tasks = {}
    BY <1>2, <1>3
  <2> QED BY <1>4, <2>1 DEF TasksInHand
<1>7. \A r \in Queues : Running(r)' = Running(r)
  BY <1>1 DEF Running
<1>8. /\ IsFiniteSet(NonIdleQueues')
      /\ Cardinality(NonIdleQueues') =
           Cardinality(NonIdleQueues) - (IF d.at = "idle_cb" THEN 1 ELSE 0)
  <2>1. IsIdle(q)'
    BY <1>1 DEF IsIdle, QueueTypeOK
  <2>2. \A r \in Queues \ {q} : /\ queue'[r] = queue[r]
                               /\ num_pending_tasks'[r] = num_pending_tasks[r]
    BY <1>1 DEF QueueTypeOK
  <2> QED BY <1>2, <2>1, <2>2, IdleStep DEF AllFinite
<1>9. /\ IsFiniteSet(AboutTo("idle_cb")')
      /\ Cardinality(AboutTo("idle_cb")') =
           Cardinality(AboutTo("idle_cb")) + (IF d.at = "idle_cb" THEN 1 ELSE 0)
  BY <1>1, <1>2, <1>4, CallbackStep DEF AllFinite
<1>10. AboutTo("active_cb")' = AboutTo("active_cb")
  BY <1>1, <1>2, <1>4 DEF AboutTo
<1>11. \A r \in Queues : IsFiniteSet(queue'[r])
  BY <1>1, FS_EmptySet DEF AllFinite, QueueTypeOK
<1>12. AllFinite'
  BY <1>6, <1>7, <1>8, <1>9, <1>10, <1>11 DEF AllFinite
<1>13. PendingAccounting'
  BY <1>1, <1>6, <1>7 DEF PendingAccounting
<1>14. TaskAccounting'
  <2>1. Cardinality(InHand(q)) = 0 /\ executor[q] = 0
    <3>1. /\ Cardinality(InHand(q)) \in Nat
          /\ Cardinality(Running(q)) \in Nat
          /\ executor[q] \in Nat
      BY CardinalitiesAreNat DEF QueueTypeOK
    <3>2. Cardinality(InHand(q)) + executor[q] + Cardinality(Running(q)) = 0
      BY <1>1 DEF PendingAccounting
    <3> QED BY <3>1, <3>2
  <2>2. Cardinality(queue'[q]) = 0 /\ num_tasks_to_add'[q] = 0
    BY <1>1, FS_EmptySet DEF QueueTypeOK
  <2>3. \A r \in Queues \ {q} : /\ queue'[r] = queue[r]
                               /\ num_tasks_to_add'[r] = num_tasks_to_add[r]
    BY <1>1 DEF QueueTypeOK
  <2> QED BY <1>1, <1>6, <2>1, <2>2, <2>3 DEF TaskAccounting
<1>15. IdleAccounting'
  BY <1>1, <1>8, <1>9, <1>10, CardinalitiesAreNat
  DEF IdleAccounting, QueueTypeOK
<1> QED BY <1>5, <1>12, <1>13, <1>14, <1>15

-----------------------------------------------------------------------------
(* The accounting holds when the queues are created.                       *)
LEMMA InitEstablishes ==
  ASSUME QueueInit
  PROVE  QueueIInv
<1>1. QueueTypeOK /\ CallShape
  BY NoCallType DEF QueueInit, QueueTypeOK, CallShape
<1>2. /\ \A q \in Queues : /\ queue[q] = {}
                           /\ InHand(q) = {}
                           /\ Running(q) = {}
      /\ NonIdleQueues = {}
      /\ AboutTo("active_cb") = {}
      /\ AboutTo("idle_cb") = {}
  <2>1. 1 .. NoCall.tasks = {}
    BY NoCallType
  <2> QED BY <2>1, NoCallType
          DEF QueueInit, InHand, TasksInHand, Running, NonIdleQueues, IsIdle,
              AboutTo
<1>3. AllFinite
  BY <1>2, FS_EmptySet DEF AllFinite
<1>4. Cardinality({}) = 0
  BY FS_EmptySet
<1>5. TaskAccounting
  BY <1>2, <1>4 DEF QueueInit, TaskAccounting
<1>6. PendingAccounting
  BY <1>2, <1>4 DEF QueueInit, PendingAccounting
<1>7. IdleAccounting
  BY <1>2, <1>4 DEF QueueInit, IdleAccounting
<1> QED BY <1>1, <1>3, <1>5, <1>6, <1>7 DEF QueueIInv

(* The accounting invariant is inductive.                                  *)
LEMMA NextPreserves ==
  ASSUME QueueIInv, [QueueNext]_queueVars
  PROVE  QueueIInv'
<1>1. CASE UNCHANGED queueVars
  <2>1. UNCHANGED <<queue, num_pending_tasks, num_tasks_to_add, running_count,
                    executor, non_idle_queue_count, run, call, owed>>
    BY <1>1 DEF queueVars
  <2> QED BY <2>1
          DEF QueueIInv, QueueTypeOK, CallShape, AllFinite, TaskAccounting,
              PendingAccounting, IdleAccounting, InHand, Running,
              NonIdleQueues, IsIdle, AboutTo
<1>2. CASE QueueNext
  <2>1. PICK t \in Threads :
          \/ \E i \in Items : AddItemToQueue(t, i)
          \/ BecomeActive(t)
          \/ AddTask(t)
          \/ SetQueuesRunning(t, TRUE) \/ SubmitWaitingTasksOnQueues(t)
          \/ SetQueuesRunning(t, FALSE)
          \/ \E q \in Queues : SubmitWaitingTasks(t, q)
          \/ \E q \in Queues : RunNextTask(t, q)
          \/ EndTask(t)
          \/ BecomeIdle(t)
          \/ \E q \in Queues : CleanupAfterRun(t, q)
    BY <1>2 DEF QueueNext
  <2>2. CASE \E i \in Items : AddItemToQueue(t, i)
    BY <2>2, AddItemPreserves
  <2>3. CASE BecomeActive(t)
    BY <2>3, BecomeActivePreserves
  <2>4. CASE AddTask(t)
    BY <2>4, AddTaskPreserves
  <2>5. CASE SetQueuesRunning(t, TRUE) \/ SubmitWaitingTasksOnQueues(t)
    BY <2>5, SetQueuesRunningPreserves
  <2>6. CASE SetQueuesRunning(t, FALSE)
    BY <2>6, SetQueuesRunningPreserves
  <2>7. CASE \E q \in Queues : SubmitWaitingTasks(t, q)
    BY <2>7, SubmitWaitingTasksPreserves
  <2>8. CASE \E q \in Queues : RunNextTask(t, q)
    BY <2>8, RunNextTaskPreserves
  <2>9. CASE EndTask(t)
    BY <2>9, EndTaskPreserves
  <2>10. CASE BecomeIdle(t)
    BY <2>10, BecomeIdlePreserves
  <2>11. CASE \E q \in Queues : CleanupAfterRun(t, q)
    BY <2>11, CleanupPreserves
  <2> QED BY <2>1, <2>2, <2>3, <2>4, <2>5, <2>6, <2>7, <2>8, <2>9, <2>10, <2>11
<1> QED BY <1>1, <1>2

(* The scheduler queues keep their state in its type, and each of          *)
(* num_pending_tasks_, num_tasks_to_add_ and non_idle_queue_count_ always  *)
(* equals what it is meant to count.                                       *)
THEOREM QueueAccountingCorrect ==
  QueueSpec => [](QueueTypeOK /\ TaskAccounting /\ PendingAccounting
                    /\ IdleAccounting)
<1>1. QueueInit => QueueIInv
  BY InitEstablishes
<1>2. QueueIInv /\ [QueueNext]_queueVars => QueueIInv'
  BY NextPreserves
<1>3. QueueIInv => QueueTypeOK /\ TaskAccounting /\ PendingAccounting
                     /\ IdleAccounting
  BY DEF QueueIInv
<1> QED BY <1>1, <1>2, <1>3, PTL DEF QueueSpec

(* RunNextTask never finds its queue empty.                                *)
THEOREM RunNextTaskNeverOnEmptyQueue == QueueSpec => []RunNextTaskFindsItem
<1>1. QueueInit => QueueIInv
  BY InitEstablishes
<1>2. QueueIInv /\ [QueueNext]_queueVars => QueueIInv'
  BY NextPreserves
<1>3. QueueIInv => RunNextTaskFindsItem
  <2> SUFFICES ASSUME QueueIInv, NEW q \in Queues, executor[q] > 0
               PROVE  queue[q] # {}
    BY DEF RunNextTaskFindsItem
  <2>1. /\ Cardinality(InHand(q)) \in Nat
        /\ executor[q] \in Nat
        /\ num_tasks_to_add[q] \in Nat
        /\ Cardinality(queue[q]) =
             num_tasks_to_add[q] + Cardinality(InHand(q)) + executor[q]
    BY CardinalitiesAreNat DEF QueueIInv, TaskAccounting, QueueTypeOK
  <2>2. Cardinality(queue[q]) # 0
    BY <2>1
  <2> QED BY <2>2, FS_EmptySet
<1> QED BY <1>1, <1>2, <1>3, PTL DEF QueueSpec

(* CleanupAfterRun, once no task is pending, finds exactly the items that  *)
(* were never submitted.                                                   *)
THEOREM CleanupCheckHolds == QueueSpec => []CleanupFindsUnsubmittedItems
<1>1. QueueInit => QueueIInv
  BY InitEstablishes
<1>2. QueueIInv /\ [QueueNext]_queueVars => QueueIInv'
  BY NextPreserves
<1>3. QueueIInv => CleanupFindsUnsubmittedItems
  <2> SUFFICES ASSUME QueueIInv, NEW q \in Queues, num_pending_tasks[q] = 0
               PROVE  num_tasks_to_add[q] = Cardinality(queue[q])
    BY DEF CleanupFindsUnsubmittedItems
  <2>1. /\ Cardinality(InHand(q)) \in Nat
        /\ Cardinality(Running(q)) \in Nat
        /\ executor[q] \in Nat
        /\ num_tasks_to_add[q] \in Nat
    BY CardinalitiesAreNat DEF QueueIInv, QueueTypeOK
  <2>2. /\ Cardinality(queue[q]) =
             num_tasks_to_add[q] + Cardinality(InHand(q)) + executor[q]
        /\ 0 = Cardinality(InHand(q)) + executor[q] + Cardinality(Running(q))
    BY DEF QueueIInv, TaskAccounting, PendingAccounting
  <2>3. Cardinality(InHand(q)) = 0 /\ executor[q] = 0
    BY <2>1, <2>2
  <2> QED BY <2>1, <2>2, <2>3
<1> QED BY <1>1, <1>2, <1>3, PTL DEF QueueSpec

(* With no "become active" callback on its way, non_idle_queue_count_ is   *)
(* not negative and is zero only when every queue is idle.                 *)
THEOREM SettledCountIsExact == QueueSpec => []CountExactWhenSettled
<1>1. QueueInit => QueueIInv
  BY InitEstablishes
<1>2. QueueIInv /\ [QueueNext]_queueVars => QueueIInv'
  BY NextPreserves
<1>3. QueueIInv => CountExactWhenSettled
  <2> SUFFICES ASSUME QueueIInv, AboutTo("active_cb") = {}
               PROVE  /\ non_idle_queue_count >= 0
                      /\ non_idle_queue_count = 0
                           => \A q \in Queues : IsIdle(q)
    BY DEF CountExactWhenSettled
  <2>1. /\ Cardinality(NonIdleQueues) \in Nat
        /\ Cardinality(AboutTo("idle_cb")) \in Nat
        /\ Cardinality(AboutTo("active_cb")) = 0
    BY CardinalitiesAreNat, FS_EmptySet DEF QueueIInv
  <2>2. non_idle_queue_count =
          Cardinality(NonIdleQueues) + Cardinality(AboutTo("idle_cb"))
    BY <2>1 DEF QueueIInv, IdleAccounting
  <2>3. Cardinality(NonIdleQueues) = 0 => NonIdleQueues = {}
    BY FS_EmptySet DEF QueueIInv, AllFinite
  <2>4. NonIdleQueues = {} => \A q \in Queues : IsIdle(q)
    BY DEF NonIdleQueues
  <2> QED BY <2>1, <2>2, <2>3, <2>4
<1> QED BY <1>1, <1>2, <1>3, PTL DEF QueueSpec

(* No task is stranded in a running queue: whoever set the queue running   *)
(* still has to submit the tasks that waited.                              *)
THEOREM NoTaskIsStranded == QueueSpec => []NoStrandedTask
<1>1. QueueInit => QueueTypeOK /\ NoStrandedTask
  BY InitEstablishes DEF QueueIInv, QueueInit, NoStrandedTask
<1>2. QueueTypeOK /\ NoStrandedTask /\ [QueueNext]_queueVars
        => NoStrandedTask'
  <2> SUFFICES ASSUME QueueTypeOK, NoStrandedTask, [QueueNext]_queueVars,
                      NEW q \in Queues,
                      running_count'[q] > 0, num_tasks_to_add'[q] > 0
               PROVE  \E t \in Threads : q \in owed'[t]
    BY DEF NoStrandedTask
  <2>1. CASE UNCHANGED <<running_count, num_tasks_to_add, owed>>
    BY <2>1 DEF NoStrandedTask
  <2>2. ASSUME NEW t \in Threads, NEW i \in Items, AddItemToQueue(t, i)
        PROVE  \E u \in Threads : q \in owed'[u]
    <3>1. Info[i].queue \in Queues
      BY QueueAssumption DEF ItemInfo
    <3>2. q # Info[i].queue
      BY <2>2, <3>1 DEF AddItemToQueue, GetTasksToSubmit, QueueTypeOK, WasIdle, Grabbed
    <3>3. num_tasks_to_add'[q] = num_tasks_to_add[q]
      BY <2>2, <3>2 DEF AddItemToQueue, GetTasksToSubmit, QueueTypeOK, WasIdle, Grabbed
    <3> QED BY <2>2, <3>3 DEF AddItemToQueue, NoStrandedTask, WasIdle
  <2>3. ASSUME NEW t \in Threads, NEW b \in BOOLEAN, SetQueuesRunning(t, b)
        PROVE  \E u \in Threads : q \in owed'[u]
    <3>1. CASE b
      BY <2>3, <3>1 DEF SetQueuesRunning, QueueTypeOK, OwedAfter
    <3>2. CASE ~b
      <4>1. running_count[q] > 0 /\ num_tasks_to_add[q] > 0
        BY <2>3, <3>2 DEF SetQueuesRunning, QueueTypeOK, OwedAfter
      <4>2. owed[t] = {} /\ \A u \in Threads \ {t} : owed'[u] = owed[u]
        BY <2>3 DEF SetQueuesRunning, QueueTypeOK, OwedAfter
      <4> QED BY <4>1, <4>2 DEF NoStrandedTask
    <3> QED BY <3>1, <3>2
  <2>4. ASSUME NEW t \in Threads, SubmitWaitingTasksOnQueues(t)
        PROVE  \E u \in Threads : q \in owed'[u]
    BY <2>4 DEF SubmitWaitingTasksOnQueues, QueueTypeOK
  <2>5. ASSUME NEW t \in Threads, NEW r \in Queues, SubmitWaitingTasks(t, r)
        PROVE  \E u \in Threads : q \in owed'[u]
    <3>1. q # r
      BY <2>5 DEF SubmitWaitingTasks, GetTasksToSubmit, QueueTypeOK, Grabbed
    <3>2. /\ num_tasks_to_add'[q] = num_tasks_to_add[q]
          /\ running_count'[q] = running_count[q]
          /\ \A u \in Threads : q \in owed[u] => q \in owed'[u]
      BY <2>5, <3>1 DEF SubmitWaitingTasks, GetTasksToSubmit, QueueTypeOK, Grabbed
    <3> QED BY <3>2 DEF NoStrandedTask
  <2>6. ASSUME NEW t \in Threads, NEW r \in Queues, CleanupAfterRun(t, r)
        PROVE  \E u \in Threads : q \in owed'[u]
    <3>1. q # r
      BY <2>6 DEF CleanupAfterRun, QueueTypeOK, DropWaiting
    <3>2. num_tasks_to_add'[q] = num_tasks_to_add[q]
      BY <2>6, <3>1 DEF CleanupAfterRun, QueueTypeOK, DropWaiting
    <3> QED BY <2>6, <3>2 DEF CleanupAfterRun, NoStrandedTask, DropWaiting
  <2>7. CASE \E t \in Threads :
               \/ BecomeActive(t) \/ AddTask(t) \/ EndTask(t) \/ BecomeIdle(t)
               \/ \E r \in Queues : RunNextTask(t, r)
    BY <2>1, <2>7 DEF BecomeActive, AddTask, EndTask, BecomeIdle, RunNextTask, BecameIdle
  <2>8. CASE UNCHANGED queueVars
    BY <2>1, <2>8 DEF queueVars
  <2> QED BY <2>2, <2>3, <2>4, <2>5, <2>6, <2>7, <2>8 DEF QueueNext
<1>3. QueueSpec => []QueueTypeOK
  <2>1. QueueInit => QueueIInv
    BY InitEstablishes
  <2>2. QueueIInv /\ [QueueNext]_queueVars => QueueIInv'
    BY NextPreserves
  <2>3. QueueIInv => QueueTypeOK
    BY DEF QueueIInv
  <2> QED BY <2>1, <2>2, <2>3, PTL DEF QueueSpec
<1> QED BY <1>1, <1>2, <1>3, PTL DEF QueueSpec

(* The bookkeeping of the queues as a whole is right in every reachable    *)
(* state: the counters agree with the items and the work under way, and    *)
(* the CHECKs of RunNextTask and CleanupAfterRun hold (scheduler_queue.cc).*)
THEOREM QueueIsSound == QueueSpec => []QueueSound
<1>1. QueueIInv => QueueTypeOK /\ TaskAccounting /\ PendingAccounting /\ IdleAccounting
  BY DEF QueueIInv
<1>2. QueueInit => QueueIInv
  BY InitEstablishes
<1>3. QueueIInv /\ [QueueNext]_queueVars => QueueIInv'
  BY NextPreserves
<1>4. /\ QueueTypeOK /\ TaskAccounting /\ PendingAccounting /\ IdleAccounting
      /\ RunNextTaskFindsItem /\ CleanupFindsUnsubmittedItems /\ CountExactWhenSettled
      => QueueSound
  BY DEF QueueSound
<1> QED
  BY <1>1, <1>2, <1>3, <1>4, RunNextTaskNeverOnEmptyQueue, CleanupCheckHolds,
     SettledCountIsExact, PTL DEF QueueSpec
=============================================================================
