--------------------------- MODULE SchedulerProofs ---------------------------
(***************************************************************************)
(* Proofs about the scheduler: its state and the running count of its      *)
(* queues, how it implements them, and what it promises of its sources.    *)
(***************************************************************************)
EXTENDS Scheduler, SchedulerQueueProofs, NumberLemmas

(* HandleIdle does nothing in a run that has not started or is over.       *)
IdlerActsInRun ==
  state \in {"NOT_STARTED", "TERMINATED"} => idler \in {"off", "loop"}

(* Main prepares a run before it starts and cleans up once it is over.     *)
MainKnowsState ==
  /\ pc[Main] = "prepare" => state = "NOT_STARTED"
  /\ pc[Main] \in {"cleanup", "done"} => state = "TERMINATED"

ControlInv ==
  /\ running_count \in [Queues -> Int]
  /\ state \in States
  /\ pc = [t \in Threads |-> pc[t]]
  /\ IdlerActsInRun
  /\ MainKnowsState
  /\ RunningCountMatchesState

(* A call of HandleIdle either is ignored or enters the loop.              *)
MayEnterHandleIdle == idler' \in {idler, IF idler = "off" THEN "loop" ELSE idler}

(* Steps that start no run, end none and start or stop no queue.           *)
Quiet ==
  /\ running_count' = running_count
  /\ state' = state
  /\ MayEnterHandleIdle
  /\ pc' = [t \in Threads |-> pc'[t]]
  /\ pc'[Main] = pc[Main]

(* HandleIdle is entered by at most one thread at a time.                  *)
LEMMA HandleIdleStep ==
  ASSUME NEW t, HandleIdle(t)
  PROVE  MayEnterHandleIdle
BY DEF HandleIdle, idleVars, MayEnterHandleIdle

(* Adding items, callbacks and throttling leave the running count alone.   *)
LEMMA QueueStepQuiet ==
  ASSUME pc = [u \in Threads |-> pc[u]], NEW t \in Threads, QueueStep(t)
  PROVE  Quiet
<1>1. CASE AddNodeForOpen(t)
  BY <1>1 DEF AddNodeForOpen, Quiet, MayEnterHandleIdle,
         queueVars, stateVars, idleVars
<1>2. CASE NodeOpened(t)
  BY <1>2 DEF NodeOpened, Quiet, MayEnterHandleIdle,
         queueVars, stateVars, idleVars
<1>3. CASE ScheduleNodeIfNotThrottled(t)
  BY <1>3 DEF ScheduleNodeIfNotThrottled, Quiet, MayEnterHandleIdle,
         queueVars, stateVars, idleVars
<1>4. CASE CheckIfBecameReady(t)
  BY <1>4 DEF CheckIfBecameReady, Quiet, MayEnterHandleIdle,
         queueVars, stateVars, idleVars
<1>5. CASE AddSource(t)
  BY <1>5 DEF AddSource, Quiet, MayEnterHandleIdle,
         queueVars, stateVars, idleVars
<1>6. CASE AddPrepared(t)
  BY <1>6 DEF AddPrepared, Quiet, MayEnterHandleIdle,
         queueVars, stateVars, idleVars
<1>7. CASE Push(t)
  BY <1>7 DEF Push, AddItemToQueue, Quiet, MayEnterHandleIdle, stateVars, idleVars
<1>8. CASE UpdateThrottledNodes(t)
  BY <1>8 DEF UpdateThrottledNodes, Quiet, MayEnterHandleIdle,
         queueVars, stateVars, idleVars
<1>9. CASE SetMaxQueueSize(t)
  BY <1>9 DEF SetMaxQueueSize, Quiet, MayEnterHandleIdle,
         queueVars, stateVars, idleVars
<1>10. CASE QueueBecameActive(t)
  <2>1. MayEnterHandleIdle
    BY <1>10, HandleIdleStep
    DEF QueueBecameActive, idleVars, MayEnterHandleIdle
  <2> QED
    BY <1>10, <2>1
    DEF QueueBecameActive, BecomeActive, Quiet, stateVars, threadVars
<1>11. CASE QueueBecameIdle(t)
  <2>1. MayEnterHandleIdle
    BY <1>11, HandleIdleStep
    DEF QueueBecameIdle, idleVars, MayEnterHandleIdle
  <2> QED
    BY <1>11, <2>1
    DEF QueueBecameIdle, BecomeIdle, Quiet, stateVars, threadVars
<1>12. CASE SubmitTask(t)
  BY <1>12 DEF SubmitTask, AddTask, Quiet, MayEnterHandleIdle, stateVars,
          idleVars, threadVars
<1>13. CASE SubmitWaiting(t)
  BY <1>13
  DEF SubmitWaiting, SubmitWaitingTasks, Quiet, MayEnterHandleIdle, stateVars,
      idleVars, threadVars
<1> QED
  BY <1>1, <1>2, <1>3, <1>4, <1>5, <1>6, <1>7, <1>8, <1>9, <1>10, <1>11,
     <1>12, <1>13
  DEF QueueStep

(* So does everything a worker does between taking and finishing a task.   *)
LEMMA WorkerStepQuiet ==
  ASSUME pc = [u \in Threads |-> pc[u]], NEW t \in Workers,
         WorkerStep(t) \/ NodeError(t)
  PROVE  Quiet
<1> t # Main /\ t \in Threads
  BY SchedulerAssumption
<1>1. CASE TakeTask(t)
  BY <1>1 DEF TakeTask, RunNextTask, Quiet, MayEnterHandleIdle,
         queueVars, stateVars, idleVars
<1>2. CASE OpenNode(t)
  BY <1>2 DEF OpenNode, Quiet, MayEnterHandleIdle,
         queueVars, stateVars, idleVars
<1>3. CASE ProcessSource(t)
  BY <1>3 DEF ProcessSource, Quiet, MayEnterHandleIdle,
         queueVars, stateVars, idleVars
<1>4. CASE CloseSource(t)
  BY <1>4 DEF CloseSource, Quiet, MayEnterHandleIdle,
         queueVars, stateVars, idleVars
<1>5. CASE SourceClosed(t)
  BY <1>5 DEF SourceClosed, Quiet, MayEnterHandleIdle,
         queueVars, stateVars, idleVars
<1>6. CASE ProcessSink(t)
  BY <1>6 DEF ProcessSink, Quiet, MayEnterHandleIdle,
         queueVars, stateVars, idleVars
<1>7. CASE EndScheduling(t)
  BY <1>7 DEF EndScheduling, Quiet, MayEnterHandleIdle,
         queueVars, stateVars, idleVars
<1>8. CASE FinishTask(t)
  BY <1>8 DEF FinishTask, EndTask, Quiet, MayEnterHandleIdle,
         queueVars, stateVars, idleVars
<1>9. CASE NodeError(t)
  BY <1>9 DEF NodeError, Quiet, MayEnterHandleIdle,
         queueVars, stateVars, idleVars
<1> QED
  BY <1>1, <1>2, <1>3, <1>4, <1>5, <1>6, <1>7, <1>8, <1>9
  DEF WorkerStep

(* Such steps preserve the invariant.                                      *)
LEMMA QuietPreserves ==
  ASSUME ControlInv, Quiet
  PROVE  ControlInv'
BY DEF ControlInv, IdlerActsInRun, MainKnowsState, RunningCountMatchesState,
       Quiet, MayEnterHandleIdle

(* Every queue is started, or stopped, once.                               *)
QueuesChangeBy(n) ==
  /\ running_count' \in [Queues -> Int]
  /\ \A q \in Queues : running_count'[q] = running_count[q] + n

(* SetQueuesRunning(true) ...                                              *)
LEMMA QueuesStarted ==
  ASSUME running_count \in [Queues -> Int], NEW t, SetQueuesRunning(t, TRUE)
  PROVE  QueuesChangeBy(1)
BY DEF SetQueuesRunning, QueuesChangeBy

(* ... and SetQueuesRunning(false), queue by queue.                        *)
LEMMA QueuesStopped ==
  ASSUME running_count \in [Queues -> Int], NEW t, SetQueuesRunning(t, FALSE)
  PROVE  QueuesChangeBy(-1)
BY DEF SetQueuesRunning, QueuesChangeBy

(* HandleIdle stops the queues once, to quit or to add a layer, and starts *)
(* them again only in the second case.                                     *)
LEMMA IdlerStepPreserves ==
  ASSUME ControlInv, IdlerStep
  PROVE  ControlInv'
<1> USE DEF ControlInv, IdlerActsInRun, MainKnowsState,
            RunningCountMatchesState
<1>1. CASE IdleLoopEnds
  BY <1>1
  DEF IdleLoopEnds, LeaveHandleIdle,
      queueVars, stateVars, idleVars, threadVars, States
<1>2. CASE Quit
  <2>1. QueuesChangeBy(-1)
    BY <1>2, QueuesStopped DEF Quit
  <2> QED
    BY <1>2, <2>1
    DEF Quit, MayAct, LeaveHandleIdle, queueVars, stateVars, idleVars,
        threadVars, States, QueuesChangeBy
<1>3. CASE LayerBlocked
  BY <1>3
  DEF LayerBlocked,
      queueVars, stateVars, idleVars, threadVars, States
<1>4. CASE TakeNextLayer
  BY <1>4
  DEF TakeNextLayer, NeedsNextLayer, MayAct,
      queueVars, stateVars, idleVars, threadVars, States
<1>5. CASE StopQueuesForLayer
  <2>1. QueuesChangeBy(-1)
    BY <1>5, QueuesStopped DEF StopQueuesForLayer, StopQueues
  <2> QED
    BY <1>5, <2>1
    DEF StopQueuesForLayer, queueVars, stateVars, idleVars, threadVars,
        States, QueuesChangeBy
<1>6. CASE ActivateNode
  BY <1>6
  DEF ActivateNode,
      queueVars, stateVars, idleVars, threadVars, States
<1>7. CASE RestartQueuesForLayer
  <2>1. QueuesChangeBy(1)
    BY <1>7, QueuesStarted DEF RestartQueuesForLayer
  <2> QED
    BY <1>7, <2>1
    DEF RestartQueuesForLayer, queueVars, stateVars, idleVars, threadVars,
        States, QueuesChangeBy
<1>8. CASE LayerScheduled
  BY <1>8
  DEF LayerScheduled,
      queueVars, stateVars, idleVars, threadVars, States
<1>9. CASE IdleUnthrottles
  BY <1>9
  DEF IdleUnthrottles, MayAct, LeaveHandleIdle,
      queueVars, stateVars, idleVars, threadVars, States
<1>10. CASE CollectFullStreams
  BY <1>10
  DEF CollectFullStreams, LeaveHandleIdle,
      queueVars, stateVars, idleVars, threadVars, States
<1>11. CASE GrowFullStream
  BY <1>11
  DEF GrowFullStream,
      queueVars, stateVars, idleVars, threadVars, States
<1>12. CASE StreamsGrown
  BY <1>12
  DEF StreamsGrown,
      queueVars, stateVars, idleVars, threadVars, States
<1> QED
  BY <1>1, <1>2, <1>3, <1>4, <1>5, <1>6, <1>7, <1>8, <1>9, <1>10, <1>11, <1>12
  DEF IdlerStep

(* The run is started once and reset only when it is over.                 *)
LEMMA MainStepPreserves ==
  ASSUME ControlInv, MainStep
  PROVE  ControlInv'
<1> USE DEF ControlInv, IdlerActsInRun, MainKnowsState,
            RunningCountMatchesState
<1> Main \in Threads
  BY SchedulerAssumption
<1>1. CASE Start
  <2>1. QueuesChangeBy(1)
    BY <1>1, QueuesStarted DEF Start
  <2>2. MayEnterHandleIdle
    BY <1>1, HandleIdleStep DEF Start
  <2>3. state = "NOT_STARTED" /\ state' = "RUNNING"
    BY <1>1 DEF Start
  <2>4. idler # "activate" /\ idler' # "activate"
    BY <2>2, <2>3 DEF MayEnterHandleIdle
  <2>5. RunningCountMatchesState'
    BY <2>1, <2>3, <2>4 DEF QueuesChangeBy
  <2>6. pc' = [u \in Threads |-> pc'[u]] /\ pc'[Main] \in {"wait", "feed"}
    BY <1>1 DEF Start
  <2> QED
    BY <2>1, <2>3, <2>5, <2>6 DEF QueuesChangeBy, States
<1>2. CASE AddPacketToInputStream
  BY <1>2
  DEF AddPacketToInputStream,
      queueVars, stateVars, idleVars, threadVars, States,
      MayEnterHandleIdle
<1>3. CASE AddPacket
  BY <1>3
  DEF AddPacket,
      queueVars, stateVars, idleVars, threadVars, States,
      MayEnterHandleIdle
<1>4. CASE WaitUntilGraphInputStreamUnthrottled
  BY <1>4
  DEF WaitUntilGraphInputStreamUnthrottled,
      queueVars, stateVars, idleVars, threadVars, States,
      MayEnterHandleIdle
<1>5. CASE AddedPacketToGraphInputStream
  BY <1>5, HandleIdleStep
  DEF AddedPacketToGraphInputStream,
      queueVars, stateVars, idleVars, threadVars, States,
      MayEnterHandleIdle
<1>6. CASE WaitUntilIdle
  BY <1>6
  DEF WaitUntilIdle,
      queueVars, stateVars, idleVars, threadVars, States,
      MayEnterHandleIdle
<1>7. CASE ObservedIdle
  BY <1>7
  DEF ObservedIdle,
      queueVars, stateVars, idleVars, threadVars, States,
      MayEnterHandleIdle
<1>8. CASE CloseInputStreams
  BY <1>8
  DEF CloseInputStreams,
      queueVars, stateVars, idleVars, threadVars, States,
      MayEnterHandleIdle
<1>9. CASE ClosedAllGraphInputStreams
  BY <1>9, HandleIdleStep
  DEF ClosedAllGraphInputStreams,
      queueVars, stateVars, idleVars, threadVars, States,
      MayEnterHandleIdle
<1>10. CASE WaitUntilDone
  BY <1>10
  DEF WaitUntilDone,
      queueVars, stateVars, idleVars, threadVars, States,
      MayEnterHandleIdle
<1>11. CASE CleanupQueue
  BY <1>11
  DEF CleanupQueue, CleanupAfterRun,
      queueVars, stateVars, idleVars, threadVars, States,
      MayEnterHandleIdle
<1>12. CASE FinishRun
  BY <1>12
  DEF FinishRun,
      queueVars, stateVars, idleVars, threadVars, States,
      MayEnterHandleIdle
<1>13. CASE Reset
  BY <1>13
  DEF Reset, MutexFree,
      queueVars, stateVars, idleVars, threadVars, States,
      MayEnterHandleIdle
<1> QED
  BY <1>1, <1>2, <1>3, <1>4, <1>5, <1>6, <1>7, <1>8, <1>9, <1>10, <1>11, <1>12, <1>13
  DEF MainStep

(* Pause and Resume alternate; Cancel starts the queues of a paused graph. *)
LEMMA ControlStepPreserves ==
  ASSUME ControlInv, NEW t \in Control,
         ControlStep(t) \/ Resume(t) \/ CloseAllSourceNodes(t)
  PROVE  ControlInv'
<1> USE DEF ControlInv, IdlerActsInRun, MainKnowsState,
            RunningCountMatchesState
<1> t # Main /\ t \in Threads
  BY SchedulerAssumption
<1>1. CASE Pause(t)
  <2>1. QueuesChangeBy(-1)
    BY <1>1, QueuesStopped DEF Pause
  <2> QED
    BY <1>1, <2>1
    DEF Pause, queueVars, stateVars, idleVars, threadVars, States,
        QueuesChangeBy
<1>2. CASE Cancel(t)
  <2>1. state = "PAUSED" => QueuesChangeBy(1)
    BY <1>2, QueuesStarted DEF Cancel, ExhaustQueues
  <2>2. state # "PAUSED" => running_count' = running_count
    BY <1>2 DEF Cancel, ExhaustQueues, SubmitWaitingTasksOnQueues
  <2>3. MayEnterHandleIdle
    BY <1>2, HandleIdleStep DEF Cancel
  <2> QED
    BY <1>2, <2>1, <2>2, <2>3
    DEF Cancel, QueuesChangeBy, MayEnterHandleIdle, States
<1>3. CASE CloseAllPacketSources(t)
  BY <1>3, HandleIdleStep
  DEF CloseAllPacketSources,
      queueVars, stateVars, idleVars, threadVars, States,
      MayEnterHandleIdle
<1>4. CASE Resume(t)
  <2>1. QueuesChangeBy(1)
    BY <1>4, QueuesStarted DEF Resume
  <2>2. MayEnterHandleIdle
    BY <1>4, HandleIdleStep DEF Resume
  <2> QED
    BY <1>4, <2>1, <2>2
    DEF Resume, Resumable, queueVars, stateVars, idleVars, threadVars,
        States, MayEnterHandleIdle, QueuesChangeBy
<1>5. CASE CloseAllSourceNodes(t)
  BY <1>5
  DEF CloseAllSourceNodes,
      queueVars, stateVars, idleVars, threadVars, States,
      MayEnterHandleIdle
<1> QED
  BY <1>1, <1>2, <1>3, <1>4, <1>5
  DEF ControlStep

(* The invariant is inductive.                                             *)
LEMMA ControlInvInductive ==
  /\ Init => ControlInv
  /\ ControlInv /\ [Next]_vars => ControlInv'
<1>1. Init => ControlInv
  BY SchedulerAssumption
  DEF Init, QueueInit, ControlInv, IdlerActsInRun, MainKnowsState,
      RunningCountMatchesState, States
<1>2. ASSUME ControlInv, [Next]_vars PROVE ControlInv'
  <2>1. ASSUME NEW t \in Threads, QueueStep(t) PROVE ControlInv'
    BY <1>2, <2>1, QueueStepQuiet, QuietPreserves DEF ControlInv
  <2>2. ASSUME NEW t \in Workers, WorkerStep(t) \/ NodeError(t)
        PROVE  ControlInv'
    BY <1>2, <2>2, WorkerStepQuiet, QuietPreserves DEF ControlInv
  <2>3. CASE IdlerStep
    BY <1>2, <2>3, IdlerStepPreserves
  <2>4. CASE MainStep
    BY <1>2, <2>4, MainStepPreserves
  <2>5. ASSUME NEW t \in Control,
               ControlStep(t) \/ Resume(t) \/ CloseAllSourceNodes(t)
        PROVE  ControlInv'
    BY <1>2, <2>5, ControlStepPreserves
  <2>6. CASE UNCHANGED vars
    BY <1>2, <2>6
    DEF vars, queueVars, stateVars, idleVars, threadVars, ControlInv,
        IdlerActsInRun, MainKnowsState, RunningCountMatchesState
  <2> QED
    BY <1>2, <2>1, <2>2, <2>3, <2>4, <2>5, <2>6 DEF Next
<1> QED
  BY <1>1, <1>2

(* The queues run exactly if the scheduler is running or cancelling and no *)
(* layer is being added: SetRunning's DCHECK_LE(running_count_, 1) holds   *)
(* for any number of threads, queues, sources and layers.                  *)
THEOREM RunningCountFollowsState == Spec => []RunningCountMatchesState
<1>1. ControlInv => RunningCountMatchesState
  BY DEF ControlInv
<1> QED
  BY <1>1, ControlInvInductive, PTL DEF Spec

(* Every step follows an arrow of the figure or leaves the state alone.    *)
LEMMA StepFollowsFigure ==
  ASSUME ControlInv, [Next]_vars
  PROVE  [StateStep]_state
<1>1. ASSUME NEW t \in Threads, QueueStep(t) PROVE state' = state
  BY <1>1, QueueStepQuiet DEF ControlInv, Quiet
<1>2. ASSUME NEW t \in Workers, WorkerStep(t) \/ NodeError(t)
      PROVE  state' = state
  BY <1>2, WorkerStepQuiet DEF ControlInv, Quiet
<1>3. CASE IdlerStep
  <2>1. CASE Quit
    BY <2>1 DEF Quit, MayAct, StateStep, Transitions
  <2>2. CASE ~Quit
    BY <1>3, <2>2
    DEF IdlerStep, IdleLoopEnds, LayerBlocked, TakeNextLayer,
        StopQueuesForLayer, ActivateNode, RestartQueuesForLayer,
        LayerScheduled, IdleUnthrottles, CollectFullStreams, GrowFullStream,
        StreamsGrown, stateVars
  <2> QED
    BY <2>1, <2>2
<1>4. CASE MainStep
  <2>1. CASE Start
    BY <2>1 DEF Start, ControlInv, MainKnowsState, StateStep, Transitions
  <2>2. CASE Reset
    BY <2>2 DEF Reset, ControlInv, MainKnowsState, StateStep, Transitions
  <2>3. CASE ~Start /\ ~Reset
    BY <1>4, <2>3
    DEF MainStep, AddPacketToInputStream, AddPacket,
        WaitUntilGraphInputStreamUnthrottled, AddedPacketToGraphInputStream,
        WaitUntilIdle, ObservedIdle, CloseInputStreams,
        ClosedAllGraphInputStreams, WaitUntilDone, CleanupQueue, FinishRun,
        stateVars
  <2> QED
    BY <2>1, <2>2, <2>3
<1>5. ASSUME NEW t \in Control,
             ControlStep(t) \/ Resume(t) \/ CloseAllSourceNodes(t)
      PROVE  StateStep \/ state' = state
  BY <1>5
  DEF ControlStep, Pause, Cancel, CloseAllPacketSources, Resume, Resumable,
      CloseAllSourceNodes, StateStep, Transitions, stateVars
<1>6. CASE UNCHANGED vars
  BY <1>6 DEF vars, stateVars
<1> QED
  BY <1>1, <1>2, <1>3, <1>4, <1>5, <1>6 DEF Next

(* The state of the scheduler only ever changes along the arrows of the    *)
(* figure in scheduler.h, whichever threads pause, resume or cancel it.    *)
THEOREM StateFollowsFigure == Spec => StateTransitions
<1>1. ControlInv /\ [Next]_vars => [StateStep]_state
  BY StepFollowsFigure
<1> QED
  BY <1>1, ControlInvInductive, PTL DEF Spec, StateTransitions

-----------------------------------------------------------------------------
(***************************************************************************)
(* The scheduler uses its queues as the module SchedulerQueue allows.      *)
(***************************************************************************)

(* Only a thread with something to run has something to schedule.          *)
WorkersScheduleInTask ==
  \A t \in Workers : run[t] = NoItem => pc[t] = "idle" /\ frames[t] = <<>>
IdlerSchedulesInHandleIdle ==
  frames[Idler] # <<>> => idler \in {"activate", "grow"}
MainSchedulesInRun == pc[Main] = "done" => frames[Main] = <<>>
ControlNeverSchedules == \A t \in Control : frames[t] = <<>>

FramesInv ==
  /\ frames = [t \in Threads |-> frames[t]]
  /\ run = [t \in Threads |-> run[t]]
  /\ WorkersScheduleInTask
  /\ IdlerSchedulesInHandleIdle
  /\ MainSchedulesInRun
  /\ ControlNeverSchedules

(* A thread with nothing to schedule gets nothing: what the threads other  *)
(* than those that run a task, and their places, keep.                     *)
SameFrames ==
  /\ frames' = [t \in Threads |-> frames'[t]]
  /\ \A t \in Threads : frames[t] = <<>> => frames'[t] = <<>>
  /\ run' = run /\ idler' \in {idler, IF idler = "off" THEN "loop" ELSE idler}
  /\ \A t \in Workers \cup {Main} : pc'[t] = pc[t]

LEMMA SameFramesKeep ==
  ASSUME FramesInv, SameFrames
  PROVE  FramesInv'
BY SchedulerAssumption
DEF FramesInv, SameFrames, WorkersScheduleInTask, IdlerSchedulesInHandleIdle,
    MainSchedulesInRun, ControlNeverSchedules

(* The thread that schedules has a frame; Pop and Replace touch only it.   *)
LEMMA OnlyScheduledFrames ==
  ASSUME frames = [u \in Threads |-> frames[u]], NEW t \in Threads,
         frames[t] # <<>>, NEW s, frames' = [frames EXCEPT ![t] = s]
  PROVE  /\ frames' = [u \in Threads |-> frames'[u]]
         /\ \A u \in Threads : frames[u] = <<>> => frames'[u] = <<>>
OBVIOUS

(* Steps inside a queue or while scheduling nodes.                         *)
LEMMA QueueStepFrames ==
  ASSUME FramesInv, NEW t \in Threads, QueueStep(t)
  PROVE  SameFrames
<1> USE DEF Pop, Replace, Scheduling, SameFrames
<1> frames = [u \in Threads |-> frames[u]]
  BY DEF FramesInv
<1>1. CASE AddNodeForOpen(t)
  BY <1>1, OnlyScheduledFrames DEF AddNodeForOpen, queueVars, idleVars
<1>2. CASE NodeOpened(t)
  BY <1>2, OnlyScheduledFrames DEF NodeOpened, queueVars, idleVars
<1>3. CASE ScheduleNodeIfNotThrottled(t)
  BY <1>3, OnlyScheduledFrames DEF ScheduleNodeIfNotThrottled, queueVars, idleVars
<1>4. CASE CheckIfBecameReady(t)
  BY <1>4, OnlyScheduledFrames DEF CheckIfBecameReady, queueVars, idleVars
<1>5. CASE AddSource(t)
  BY <1>5, OnlyScheduledFrames DEF AddSource, queueVars, idleVars
<1>6. CASE AddPrepared(t)
  BY <1>6, OnlyScheduledFrames DEF AddPrepared, queueVars, idleVars
<1>7. CASE Push(t)
  BY <1>7, OnlyScheduledFrames DEF Push, AddItemToQueue, idleVars
<1>8. CASE UpdateThrottledNodes(t)
  BY <1>8, OnlyScheduledFrames DEF UpdateThrottledNodes, queueVars, idleVars
<1>9. CASE SetMaxQueueSize(t)
  BY <1>9, OnlyScheduledFrames DEF SetMaxQueueSize, queueVars, idleVars
<1>10. CASE QueueBecameActive(t)
  <2>1. MayEnterHandleIdle
    BY <1>10, HandleIdleStep DEF QueueBecameActive, idleVars, MayEnterHandleIdle
  <2> QED
    BY <1>10, <2>1 DEF QueueBecameActive, BecomeActive, MayEnterHandleIdle, threadVars
<1>11. CASE QueueBecameIdle(t)
  <2>1. MayEnterHandleIdle
    BY <1>11, HandleIdleStep DEF QueueBecameIdle, idleVars, MayEnterHandleIdle
  <2> QED
    BY <1>11, <2>1 DEF QueueBecameIdle, BecomeIdle, MayEnterHandleIdle, threadVars
<1>12. CASE SubmitTask(t)
  BY <1>12 DEF SubmitTask, AddTask, idleVars, threadVars
<1>13. CASE SubmitWaiting(t)
  BY <1>13 DEF SubmitWaiting, SubmitWaitingTasks, idleVars, threadVars
<1> QED
  BY <1>1, <1>2, <1>3, <1>4, <1>5, <1>6, <1>7, <1>8, <1>9, <1>10, <1>11, <1>12, <1>13
  DEF QueueStep

(* A worker gets frames and places only while it runs a task.              *)
LEMMA WorkerStepFrames ==
  ASSUME ControlInv, FramesInv, QueueTypeOK, NEW t \in Workers,
         WorkerStep(t) \/ NodeError(t)
  PROVE  FramesInv'
<1> USE DEF FramesInv, WorkersScheduleInTask, IdlerSchedulesInHandleIdle,
            MainSchedulesInRun, ControlNeverSchedules
<1> t # Main /\ t # Idler /\ t \notin Control /\ t \in Threads
  BY SchedulerAssumption
<1> pc = [u \in Threads |-> pc[u]] /\ Workers \subseteq Threads
    /\ Main \in Threads /\ Idler \in Threads /\ Control \subseteq Threads
  BY SchedulerAssumption DEF ControlInv
<1>1. CASE TakeTask(t)
  <2>1. PICK q \in Queues : RunNextTask(t, q)
    BY <1>1 DEF TakeTask
  <2>2. PICK i \in Top(q) : run' = [run EXCEPT ![t] = i]
    BY <2>1 DEF RunNextTask
  <2>3. i # NoItem
    BY QueueAssumption DEF Top, QueueTypeOK
  <2>4. run' = [u \in Threads |-> run'[u]] /\ run'[t] = i
        /\ \A u \in Threads \ {t} : run'[u] = run[u]
    BY <2>2
  <2>5. frames' = frames /\ idler' = idler /\ \A u \in Threads \ {t} : pc'[u] = pc[u]
    BY <1>1 DEF TakeTask, idleVars
  <2> QED
    BY <2>3, <2>4, <2>5
<1>2. CASE OpenNode(t)
  BY <1>2 DEF OpenNode, Executing, queueVars, idleVars
<1>3. CASE ProcessSource(t)
  BY <1>3 DEF ProcessSource, Executing, Emit, queueVars, idleVars
<1>4. CASE CloseSource(t)
  BY <1>4 DEF CloseSource, Executing, queueVars, idleVars
<1>5. CASE SourceClosed(t)
  BY <1>5 DEF SourceClosed, queueVars, idleVars
<1>6. CASE ProcessSink(t)
  BY <1>6 DEF ProcessSink, Executing, queueVars, idleVars
<1>7. CASE EndScheduling(t)
  BY <1>7 DEF EndScheduling, queueVars, idleVars
<1>8. CASE FinishTask(t)
  BY <1>8 DEF FinishTask, AtRest, EndTask, idleVars
<1>9. CASE NodeError(t)
  BY <1>9 DEF NodeError, queueVars, idleVars
<1> QED
  BY <1>1, <1>2, <1>3, <1>4, <1>5, <1>6, <1>7, <1>8, <1>9 DEF WorkerStep

(* HandleIdle leaves a part of its loop only with everything scheduled.    *)
LEMMA IdlerStepFrames ==
  ASSUME FramesInv, IdlerStep
  PROVE  FramesInv'
<1> USE DEF FramesInv, WorkersScheduleInTask, IdlerSchedulesInHandleIdle,
            MainSchedulesInRun, ControlNeverSchedules
<1> Idler \in Threads /\ Idler # Main /\ Idler \notin Control /\ Idler \notin Workers
  BY SchedulerAssumption
<1> Workers \subseteq Threads /\ Control \subseteq Threads /\ Main \in Threads
  BY SchedulerAssumption
<1>1. CASE IdleLoopEnds
  BY <1>1 DEF IdleLoopEnds, LeaveHandleIdle, queueVars, threadVars
<1>2. CASE Quit
  BY <1>2 DEF Quit, SetQueuesRunning, LeaveHandleIdle, threadVars
<1>3. CASE LayerBlocked
  BY <1>3 DEF LayerBlocked, queueVars, idleVars, threadVars
<1>4. CASE TakeNextLayer
  BY <1>4 DEF TakeNextLayer, NeedsNextLayer, queueVars, threadVars
<1>5. CASE StopQueuesForLayer
  BY <1>5 DEF StopQueuesForLayer, StopQueues, SetQueuesRunning, threadVars
<1>6. CASE ActivateNode
  <2>1. \E f : frames' = [frames EXCEPT ![Idler] = f]
    BY <1>6 DEF ActivateNode
  <2>2. idler = "activate" /\ idler' = idler /\ run' = run /\ pc' = pc
    BY <1>6 DEF ActivateNode, queueVars
  <2> QED
    BY <2>1, <2>2
<1>7. CASE RestartQueuesForLayer
  BY <1>7 DEF RestartQueuesForLayer, SetQueuesRunning, AtRest, threadVars
<1>8. CASE LayerScheduled
  BY <1>8 DEF LayerScheduled, AtRest, queueVars, threadVars
<1>9. CASE IdleUnthrottles
  BY <1>9 DEF IdleUnthrottles, LeaveHandleIdle, queueVars, threadVars
<1>10. CASE CollectFullStreams
  BY <1>10 DEF CollectFullStreams, LeaveHandleIdle, queueVars, threadVars
<1>11. CASE GrowFullStream
  BY <1>11 DEF GrowFullStream, queueVars
<1>12. CASE StreamsGrown
  BY <1>12 DEF StreamsGrown, AtRest, queueVars, threadVars
<1> QED
  BY <1>1, <1>2, <1>3, <1>4, <1>5, <1>6, <1>7, <1>8, <1>9, <1>10, <1>11, <1>12
  DEF IdlerStep

(* Main and the control threads call HandleIdle only when it is free.      *)
LEMMA MainStepFrames ==
  ASSUME ControlInv, FramesInv, MainStep
  PROVE  FramesInv'
<1> USE DEF FramesInv, WorkersScheduleInTask, IdlerSchedulesInHandleIdle,
            MainSchedulesInRun, ControlNeverSchedules
<1> Main \in Threads /\ Main # Idler /\ Main \notin Control /\ Main \notin Workers
  BY SchedulerAssumption
<1> /\ pc = [u \in Threads |-> pc[u]] /\ Workers \subseteq Threads
    /\ Control \subseteq Threads /\ Idler \in Threads
  BY SchedulerAssumption DEF ControlInv
<1>1. CASE Start
  <2>1. MayEnterHandleIdle
    BY <1>1, HandleIdleStep DEF Start
  <2> QED
    BY <1>1, <2>1 DEF Start, SetQueuesRunning, MayEnterHandleIdle
<1>2. CASE AddPacketToInputStream
  BY <1>2 DEF AddPacketToInputStream, queueVars, idleVars
<1>3. CASE AddPacket
  <2>1. /\ pc'[Main] # "done" /\ \A u \in Workers : pc'[u] = pc[u]
        /\ frames' = [u \in Threads |-> frames'[u]]
        /\ \A u \in Threads \ {Main} : frames'[u] = frames[u]
    BY <1>3 DEF AddPacket, Emit
  <2>2. run' = run /\ idler' = idler
    BY <1>3 DEF AddPacket, queueVars, idleVars
  <2> QED
    BY <2>1, <2>2
<1>4. CASE WaitUntilGraphInputStreamUnthrottled
  BY <1>4 DEF WaitUntilGraphInputStreamUnthrottled, queueVars, idleVars
<1>5. CASE AddedPacketToGraphInputStream
  <2>1. MayEnterHandleIdle
    BY <1>5, HandleIdleStep
    DEF AddedPacketToGraphInputStream, MayEnterHandleIdle, idleVars
  <2> QED
    BY <1>5, <2>1 DEF AddedPacketToGraphInputStream, MayEnterHandleIdle, queueVars
<1>6. CASE WaitUntilIdle
  BY <1>6 DEF WaitUntilIdle, queueVars, idleVars
<1>7. CASE ObservedIdle
  BY <1>7 DEF ObservedIdle, queueVars, idleVars
<1>8. CASE CloseInputStreams
  <2>1. /\ pc'[Main] # "done" /\ \A u \in Workers : pc'[u] = pc[u]
        /\ frames' = [u \in Threads |-> frames'[u]]
        /\ \A u \in Threads \ {Main} : frames'[u] = frames[u]
    BY <1>8 DEF CloseInputStreams
  <2>2. run' = run /\ idler' = idler
    BY <1>8 DEF CloseInputStreams, queueVars, idleVars
  <2> QED
    BY <2>1, <2>2
<1>9. CASE ClosedAllGraphInputStreams
  <2>1. MayEnterHandleIdle
    BY <1>9, HandleIdleStep DEF ClosedAllGraphInputStreams
  <2> QED
    BY <1>9, <2>1 DEF ClosedAllGraphInputStreams, MayEnterHandleIdle, queueVars
<1>10. CASE WaitUntilDone
  BY <1>10 DEF WaitUntilDone, queueVars, idleVars
<1>11. CASE CleanupQueue
  BY <1>11 DEF CleanupQueue, CleanupAfterRun, idleVars, threadVars
<1>12. CASE FinishRun
  BY <1>12 DEF FinishRun, AtRest, queueVars, idleVars
<1>13. CASE Reset
  BY <1>13 DEF Reset, idleVars
<1> QED
  BY <1>1, <1>2, <1>3, <1>4, <1>5, <1>6, <1>7, <1>8, <1>9, <1>10, <1>11, <1>12, <1>13
  DEF MainStep

LEMMA ControlStepFrames ==
  ASSUME ControlInv, FramesInv, NEW t \in Control,
         ControlStep(t) \/ Resume(t) \/ CloseAllSourceNodes(t)
  PROVE  FramesInv'
<1> USE DEF SameFrames
<1> t # Main /\ t \in Threads /\ t \notin Workers
  BY SchedulerAssumption
<1> pc = [u \in Threads |-> pc[u]] /\ Workers \subseteq Threads /\ Main \in Threads
    /\ frames = [u \in Threads |-> frames[u]]
  BY SchedulerAssumption DEF ControlInv, FramesInv
<1>1. CASE Pause(t)
  BY <1>1, SameFramesKeep DEF Pause, SetQueuesRunning, idleVars, threadVars
<1>2. CASE Cancel(t)
  <2>1. MayEnterHandleIdle
    BY <1>2, HandleIdleStep DEF Cancel
  <2> QED
    BY <1>2, <2>1, SameFramesKeep
    DEF Cancel, ExhaustQueues, SetQueuesRunning, SubmitWaitingTasksOnQueues,
        MayEnterHandleIdle
<1>3. CASE CloseAllPacketSources(t)
  <2>1. MayEnterHandleIdle
    BY <1>3, HandleIdleStep DEF CloseAllPacketSources
  <2> QED
    BY <1>3, <2>1, SameFramesKeep DEF CloseAllPacketSources, MayEnterHandleIdle, queueVars
<1>4. CASE Resume(t)
  <2>1. MayEnterHandleIdle
    BY <1>4, HandleIdleStep DEF Resume
  <2> QED
    BY <1>4, <2>1, SameFramesKeep
    DEF Resume, SetQueuesRunning, MayEnterHandleIdle, threadVars
<1>5. CASE CloseAllSourceNodes(t)
  BY <1>5, SameFramesKeep DEF CloseAllSourceNodes, queueVars, idleVars
<1> QED
  BY <1>1, <1>2, <1>3, <1>4, <1>5 DEF ControlStep

LEMMA FramesInvInductive ==
  /\ Init => FramesInv
  /\ ControlInv /\ FramesInv /\ QueueTypeOK /\ [Next]_vars => FramesInv'
<1>1. Init => FramesInv
  BY SchedulerAssumption
  DEF Init, QueueInit, FramesInv, WorkersScheduleInTask,
      IdlerSchedulesInHandleIdle, MainSchedulesInRun, ControlNeverSchedules
<1>2. ASSUME ControlInv, FramesInv, QueueTypeOK, [Next]_vars PROVE FramesInv'
  <2>1. ASSUME NEW t \in Threads, QueueStep(t) PROVE FramesInv'
    BY <1>2, <2>1, QueueStepFrames, SameFramesKeep
  <2>2. ASSUME NEW t \in Workers, WorkerStep(t) \/ NodeError(t) PROVE FramesInv'
    BY <1>2, <2>2, WorkerStepFrames
  <2>3. CASE IdlerStep
    BY <1>2, <2>3, IdlerStepFrames
  <2>4. CASE MainStep
    BY <1>2, <2>4, MainStepFrames
  <2>5. ASSUME NEW t \in Control, ControlStep(t) \/ Resume(t) \/ CloseAllSourceNodes(t)
        PROVE  FramesInv'
    BY <1>2, <2>5, ControlStepFrames
  <2>6. CASE UNCHANGED vars
    BY <1>2, <2>6
    DEF vars, queueVars, idleVars, threadVars, FramesInv, WorkersScheduleInTask,
        IdlerSchedulesInHandleIdle, MainSchedulesInRun, ControlNeverSchedules
  <2> QED
    BY <1>2, <2>1, <2>2, <2>3, <2>4, <2>5, <2>6 DEF Next
<1> QED
  BY <1>1, <1>2

-----------------------------------------------------------------------------
(***************************************************************************)
(* What threads have to schedule: frames on nodes and on input streams.    *)
(***************************************************************************)
NodeKinds == {"open", "opened", "ready", "add", "commit", "push_open", "push"}
NodeFrames == [kind : NodeKinds, node : Nodes]
StreamFrames == [kind : {"throttle", "resize"}, node : Producers]
AllFrames == NodeFrames \cup StreamFrames

FramesTyped == frames \in [Threads -> Seq(AllFrames)]

(* SetToSeq lists a finite set.                                            *)
LEMMA SetToSeqType ==
  ASSUME NEW S, IsFiniteSet(S)
  PROVE  /\ SetToSeq(S) \in Seq(S)
         /\ SetToSeq(S) \in [1 .. Cardinality(S) -> S]
<1>1. Cardinality(S) \in Nat /\ ExistsBijection(1 .. Cardinality(S), S)
  BY FS_CardinalityType
<1>2. \E f \in [1 .. Cardinality(S) -> S] : IsInjective(f)
  BY <1>1 DEF ExistsBijection, Bijection, Injection
<1>3. SetToSeq(S) \in [1 .. Cardinality(S) -> S]
  BY <1>2 DEF SetToSeq
<1> QED
  BY <1>1, <1>3

(* The image of a finite set under Frame is finite.                        *)
LEMMA FiniteFrames ==
  ASSUME NEW S, IsFiniteSet(S), NEW kind
  PROVE  IsFiniteSet({Frame(kind, n) : n \in S})
<1> DEFINE f == [n \in S |-> Frame(kind, n)]
           T == {Frame(kind, n) : n \in S}
<1>1. f \in Surjection(S, T)
  BY DEF Surjection
<1> HIDE DEF f, T
<1>2. IsFiniteSet(T)
  BY <1>1, FS_Surjection
<1> QED
  BY <1>2 DEF T

LEMMA FramesOfNodes ==
  ASSUME NEW S \in SUBSET Nodes
  PROVE  OpenFrames(S) \in Seq(AllFrames)
<1>1. IsFiniteSet(S)
  BY FS_Subset, SchedulerAssumption
<1>2. OpenFrames(S) \in Seq({Frame("open", n) : n \in S})
  BY <1>1, FiniteFrames, SetToSeqType DEF OpenFrames
<1>3. {Frame("open", n) : n \in S} \subseteq AllFrames
  BY DEF Frame, AllFrames, NodeFrames, NodeKinds
<1> QED
  BY <1>2, <1>3

LEMMA FiniteProducers == IsFiniteSet(Producers) /\ IsFiniteSet(Sources)
<1>1. IsFiniteSet(Sources)
  BY FS_Subset, SchedulerAssumption DEF Nodes
<1> QED
  BY <1>1, FS_Union, SchedulerAssumption DEF Producers

LEMMA FramesOfStreams ==
  ASSUME NEW S \in SUBSET Producers
  PROVE  SetToSeq({Frame("throttle", p) : p \in S}) \in Seq(AllFrames)
<1>1. IsFiniteSet(S)
  BY FS_Subset, FiniteProducers
<1>2. SetToSeq({Frame("throttle", p) : p \in S}) \in Seq({Frame("throttle", p) : p \in S})
  BY <1>1, FiniteFrames, SetToSeqType
<1>3. {Frame("throttle", p) : p \in S} \subseteq AllFrames
  BY DEF Frame, AllFrames, StreamFrames
<1> QED
  BY <1>2, <1>3

(* What follows a packet or the end of a stream.                           *)
LEMMA FramesAfterAdd ==
  ASSUME NEW p \in Producers
  PROVE  AfterAdd(p) \in Seq(AllFrames) /\ AfterClose(p) \in Seq(AllFrames)
<1>1. Dest[p] \in Nodes
  BY SchedulerAssumption DEF Nodes
<1>2. Frame("throttle", p) \in AllFrames /\ Frame("ready", Dest[p]) \in AllFrames
  BY <1>1 DEF Frame, AllFrames, NodeFrames, NodeKinds, StreamFrames
<1> QED
  BY <1>2 DEF AfterAdd, AfterClose

LEMMA FramesAfterClosing ==
  ASSUME NEW S \in SUBSET GraphInputs
  PROVE  AfterClosing(S) \in Seq(AllFrames)
<1> DEFINE E == {p \in S : pk[p] = 0}
           empty == SetToSeq(E)
<1>1. IsFiniteSet(E)
  BY FS_Subset, SchedulerAssumption
<1>2. empty \in Seq(E)
  BY <1>1, SetToSeqType
<1>3. \A k \in DOMAIN empty : empty[k] \in GraphInputs
  BY <1>2
<1>4. \A g \in GraphInputs : Frame("ready", Dest[g]) \in AllFrames
  BY SchedulerAssumption
  DEF Frame, AllFrames, NodeFrames, NodeKinds, Nodes, Producers
<1> HIDE DEF empty
<1>5. [k \in DOMAIN empty |-> Frame("ready", Dest[empty[k]])] \in Seq(AllFrames)
  BY <1>2, <1>3, <1>4
<1> QED
  BY <1>5 DEF AfterClosing, empty

(* The first frame of a thread tells a node or a stream.                   *)
LEMMA HeadOfFrames ==
  ASSUME FramesTyped, NEW t \in Threads, NEW kind, Scheduling(t, kind)
  PROVE  /\ frames[t] # <<>> /\ frames[t] \in Seq(AllFrames)
         /\ Tail(frames[t]) \in Seq(AllFrames)
         /\ kind \in NodeKinds => Head(frames[t]).node \in Nodes
         /\ kind \in {"throttle", "resize"} => Head(frames[t]).node \in Producers
<1>1. frames[t] # <<>> /\ frames[t] \in Seq(AllFrames) /\ Head(frames[t]).kind = kind
  BY DEF FramesTyped, Scheduling
<1>2. Head(frames[t]) \in AllFrames /\ Tail(frames[t]) \in Seq(AllFrames)
  BY <1>1
<1> QED
  BY <1>1, <1>2 DEF AllFrames, NodeFrames, StreamFrames, NodeKinds

LEMMA FramesKeepType ==
  ASSUME FramesTyped, NEW t \in Threads, NEW s \in Seq(AllFrames),
         frames' = [frames EXCEPT ![t] = s]
  PROVE  FramesTyped'
BY DEF FramesTyped

LEMMA FramesPopType ==
  ASSUME FramesTyped, NEW t \in Threads, NEW kind, Scheduling(t, kind), Pop(t)
  PROVE  FramesTyped'
BY HeadOfFrames, FramesKeepType DEF Pop

LEMMA FramesReplaceType ==
  ASSUME FramesTyped, NEW t \in Threads, NEW kind, Scheduling(t, kind),
         NEW s \in Seq(AllFrames), Replace(t, s)
  PROVE  FramesTyped'
<1>1. s \o Tail(frames[t]) \in Seq(AllFrames)
  BY HeadOfFrames
<1> QED
  BY <1>1, FramesKeepType DEF Replace

-----------------------------------------------------------------------------
(***************************************************************************)
(* Type correctness.                                                       *)
(***************************************************************************)
StateTypes ==
  /\ state \in States /\ graph_input_streams_closed \in BOOLEAN
  /\ sources_queue \subseteq Sources /\ unopened_sources \subseteq Sources
  /\ active_sources \in Seq(Sources)
  /\ has_error \in BOOLEAN /\ stopping \in BOOLEAN

(* The sources of a layer that is being added are all listed.              *)
LayerListed ==
  idler \in {"stop", "activate"} =>
    \A s \in work : \E k \in DOMAIN active_sources : active_sources[k] = s

IdleTypes ==
  /\ idler \in {"off", "loop", "stop", "activate", "submit", "unthrottle", "grow"}
  /\ idle_caller \in Threads \cup {NoThread}
  /\ work \subseteq Producers

NodeTypes ==
  /\ status \in [Nodes -> {"prepared", "opened", "active", "closed"}]
  /\ in_flight \subseteq Nodes /\ closing \subseteq Sinks
  /\ provided \subseteq Nodes /\ headed \subseteq Nodes

StreamTypes ==
  /\ pk \in [Producers -> Nat] /\ sent \in [Producers -> Nat]
  /\ done \subseteq Producers /\ full \subseteq Producers
  /\ max_queue_size \in [Producers -> Nat] /\ new_size \in Nat

Places == {"idle", "prepare", "feed", "check", "added", "failed", "waiting",
           "observed", "closed_all", "wait", "cleanup", "done", "run", "closing",
           "sched", "end", "stop_sources"}

AppTypes ==
  /\ pc \in [Threads -> Places]
  /\ feeding \in GraphInputs \cup {NoThread}
  /\ pc[Main] \in {"check", "waiting"} => feeding \in GraphInputs
  /\ woken \in BOOLEAN /\ controls \in 0 .. MaxControls

TypeInv ==
  /\ QueueTypeOK /\ StateTypes /\ IdleTypes /\ LayerListed /\ NodeTypes
  /\ StreamTypes /\ AppTypes /\ FramesTyped

LEMMA EmptySeqType == \A S : <<>> \in Seq(S)
OBVIOUS

LEMMA TypeInvImplies == TypeInv => TypeOK
<1> SUFFICES ASSUME TypeInv PROVE TypeOK
  OBVIOUS
<1>1. \A t \in Threads : \A k \in DOMAIN frames[t] :
        frames[t][k] \in [kind : FrameKinds, node : Nodes \cup GraphInputs]
  <2> SUFFICES ASSUME NEW t \in Threads, NEW k \in DOMAIN frames[t]
               PROVE  frames[t][k] \in [kind : FrameKinds, node : Nodes \cup GraphInputs]
    OBVIOUS
  <2>1. frames[t] \in Seq(AllFrames)
    BY DEF TypeInv, FramesTyped
  <2>2. frames[t][k] \in AllFrames
    BY <2>1
  <2> QED
    BY <2>2
    DEF AllFrames, NodeFrames, StreamFrames, NodeKinds, FrameKinds, Producers, Nodes
<1> QED
  BY <1>1
  DEF TypeInv, TypeOK, StateTypes, IdleTypes, NodeTypes, StreamTypes, AppTypes, Places

(* The steps of the queues keep their types.                               *)
LEMMA QueueTypeStep ==
  ASSUME QueueTypeOK, [QueueNext]_queueVars
  PROVE  QueueTypeOK'
<1> USE DEF QueueTypeOK
<1>1. CASE UNCHANGED queueVars
  BY <1>1 DEF queueVars
<1>2. ASSUME NEW t \in Threads, NEW i \in Items, AddItemToQueue(t, i) PROVE QueueTypeOK'
  <2>1. Info[i].queue \in Queues
    BY QueueAssumption DEF ItemInfo
  <2>2. Grabbed(Info[i].queue, num_tasks_to_add[Info[i].queue] + 1) \in
          {0, num_tasks_to_add[Info[i].queue] + 1}
    BY DEF Grabbed
  <2>3. call' \in [Threads -> Calls]
    <3>1. PICK m \in Nat : m = Grabbed(Info[i].queue, num_tasks_to_add[Info[i].queue] + 1)
      BY <2>1, <2>2
    <3>2. Submitting(Info[i].queue, m) \in Calls
      BY <2>1, SubmittingType
    <3>3. [at |-> "active_cb", q |-> Info[i].queue, tasks |-> m] \in Calls
      BY <2>1 DEF Calls, CallStates
    <3>4. call' = [call EXCEPT ![t] =
                     IF WasIdle(Info[i].queue)
                     THEN [at |-> "active_cb", q |-> Info[i].queue, tasks |-> m]
                     ELSE Submitting(Info[i].queue, m)]
      BY <1>2, <3>1 DEF AddItemToQueue
    <3> QED
      BY <3>2, <3>3, <3>4
  <2> QED
    BY <1>2, <2>1, <2>2, <2>3 DEF AddItemToQueue, GetTasksToSubmit
<1>3. ASSUME NEW t \in Threads, BecomeActive(t) PROVE QueueTypeOK'
  <2>1. call[t].q \in Queues /\ call[t].tasks \in Nat
    BY DEF Calls
  <2> QED
    BY <1>3, <2>1, SubmittingType DEF BecomeActive
<1>4. ASSUME NEW t \in Threads, AddTask(t) PROVE QueueTypeOK'
  <2>1. call[t].q \in Queues /\ call[t].tasks \in Nat
    BY DEF Calls
  <2>2. Submitting(call[t].q, call[t].tasks - 1) \in Calls
    BY <2>1, NoCallType DEF Submitting, Calls, CallStates
  <2> QED
    BY <1>4, <2>1, <2>2 DEF AddTask
<1>5. ASSUME NEW t \in Threads, NEW b \in BOOLEAN, SetQueuesRunning(t, b) PROVE QueueTypeOK'
  BY <1>5 DEF SetQueuesRunning, OwedAfter
<1>6. ASSUME NEW t \in Threads, SubmitWaitingTasksOnQueues(t) PROVE QueueTypeOK'
  BY <1>6 DEF SubmitWaitingTasksOnQueues
<1>7. ASSUME NEW t \in Threads, NEW q \in Queues, SubmitWaitingTasks(t, q) PROVE QueueTypeOK'
  <2>1. Grabbed(q, num_tasks_to_add[q]) \in {0, num_tasks_to_add[q]}
    BY DEF Grabbed
  <2>2. call' \in [Threads -> Calls]
    BY <1>7, <2>1, SubmittingType DEF SubmitWaitingTasks
  <2> QED
    BY <1>7, <2>1, <2>2 DEF SubmitWaitingTasks, GetTasksToSubmit
<1>8. ASSUME NEW t \in Threads, NEW q \in Queues, RunNextTask(t, q) PROVE QueueTypeOK'
  BY <1>8 DEF RunNextTask, Top
<1>9. ASSUME NEW t \in Threads, EndTask(t) PROVE QueueTypeOK'
  <2>1. Info[run[t]].queue \in Queues
    BY <1>9, QueueAssumption DEF EndTask, ItemInfo
  <2>2. call' \in [Threads -> Calls]
    BY <1>9, <2>1, NoCallType DEF EndTask, Calls, CallStates
  <2> QED
    BY <1>9, <2>1, <2>2 DEF EndTask
<1>10. ASSUME NEW t \in Threads, BecomeIdle(t) PROVE QueueTypeOK'
  BY <1>10, NoCallType DEF BecomeIdle
<1>11. ASSUME NEW t \in Threads, NEW q \in Queues, CleanupAfterRun(t, q) PROVE QueueTypeOK'
  BY <1>11, NoCallType DEF CleanupAfterRun, DropWaiting, Calls, CallStates
<1> QED
  BY <1>1, <1>2, <1>3, <1>4, <1>5, <1>6, <1>7, <1>8, <1>9, <1>10, <1>11 DEF QueueNext

(* HandleIdle is entered with the thread that calls it.                    *)
LEMMA HandleIdleTypes ==
  ASSUME IdleTypes, LayerListed, NEW t \in Threads, HandleIdle(t),
         active_sources' = active_sources
  PROVE  IdleTypes' /\ LayerListed'
BY DEF HandleIdle, IdleTypes, LayerListed, idleVars

(* What most steps leave alone.                                            *)
LEMMA UnchangedTypes ==
  /\ StateTypes /\ UNCHANGED <<stateVars, sharedVars>> => StateTypes'
  /\ IdleTypes /\ UNCHANGED idleVars => IdleTypes'
  /\ LayerListed /\ UNCHANGED <<idleVars, active_sources>> => LayerListed'
  /\ NodeTypes /\ UNCHANGED nodeVars => NodeTypes'
  /\ StreamTypes /\ UNCHANGED <<streamVars, new_size>> => StreamTypes'
  /\ AppTypes /\ UNCHANGED <<pc, appVars>> => AppTypes'
  /\ FramesTyped /\ UNCHANGED frames => FramesTyped'
BY DEF StateTypes, IdleTypes, LayerListed, NodeTypes, StreamTypes, AppTypes,
       FramesTyped, stateVars, sharedVars, idleVars, nodeVars, streamVars, appVars

(* A frame on a node, or on a stream, is one.                              *)
LEMMA NodeFrameType ==
  ASSUME NEW kind \in NodeKinds, NEW n \in Nodes
  PROVE  <<Frame(kind, n)>> \in Seq(AllFrames)
BY DEF Frame, AllFrames, NodeFrames

LEMMA StreamFrameType ==
  ASSUME NEW kind \in {"throttle", "resize"}, NEW p \in Producers
  PROVE  <<Frame(kind, p)>> \in Seq(AllFrames)
BY DEF Frame, AllFrames, StreamFrames

LEMMA QueueStepTypes ==
  ASSUME TypeInv, QueueTypeOK', NEW t \in Threads, QueueStep(t)
  PROVE  TypeInv'
<1> SUFFICES /\ StateTypes' /\ IdleTypes' /\ LayerListed' /\ NodeTypes'
             /\ StreamTypes' /\ AppTypes' /\ FramesTyped'
  BY DEF TypeInv
<1> /\ StateTypes /\ IdleTypes /\ LayerListed /\ NodeTypes /\ StreamTypes
    /\ AppTypes /\ FramesTyped
  BY DEF TypeInv
<1> DEFINE n == Head(frames[t]).node
<1>1. CASE AddNodeForOpen(t)
  <2>1. Scheduling(t, "open") /\ n \in Nodes
    BY <1>1, HeadOfFrames DEF AddNodeForOpen, NodeKinds
  <2>2. FramesTyped'
    BY <1>1, <2>1, FramesPopType, FramesReplaceType, NodeFrameType
    DEF AddNodeForOpen, NodeKinds
  <2> QED
    BY <1>1, <2>2, UnchangedTypes DEF AddNodeForOpen, stateVars
<1>2. CASE NodeOpened(t)
  <2>1. Scheduling(t, "opened") /\ n \in Nodes
    BY <1>2, HeadOfFrames DEF NodeOpened, NodeKinds
  <2>2. FramesTyped'
    BY <1>2, <2>1, FramesPopType, FramesReplaceType, NodeFrameType
    DEF NodeOpened, NodeKinds
  <2>3. StateTypes' /\ NodeTypes'
    BY <1>2, <2>1 DEF NodeOpened, StateTypes, NodeTypes, sharedVars
  <2> QED
    BY <1>2, <2>2, <2>3, UnchangedTypes DEF NodeOpened
<1>3. CASE ScheduleNodeIfNotThrottled(t)
  <2>1. Scheduling(t, "ready") /\ n \in Nodes
    BY <1>3, HeadOfFrames DEF ScheduleNodeIfNotThrottled, NodeKinds
  <2>2. FramesTyped'
    BY <1>3, <2>1, FramesPopType, FramesReplaceType, NodeFrameType
    DEF ScheduleNodeIfNotThrottled, NodeKinds
  <2> QED
    BY <1>3, <2>2, UnchangedTypes DEF ScheduleNodeIfNotThrottled, stateVars
<1>4. CASE CheckIfBecameReady(t)
  <2> DEFINE freed == {p \in Popped(n) : IsFull(p) /\ pk[p] - 1 < max_queue_size[p]}
             start == SetToSeq({Frame("throttle", p) : p \in freed}) \o <<Frame("commit", n)>>
  <2>1. Scheduling(t, "ready") /\ n \in Sinks /\ n \in Nodes
    BY <1>4 DEF CheckIfBecameReady, Nodes
  <2>2. freed \subseteq Producers
    BY DEF Popped, Inputs
  <2> HIDE DEF freed
  <2>3. start \in Seq(AllFrames)
    BY <2>1, <2>2, FramesOfStreams, NodeFrameType DEF NodeKinds
  <2>4. Pop(t) \/ Replace(t, start)
    BY <1>4 DEF CheckIfBecameReady, freed
  <2> HIDE DEF start
  <2>5. FramesTyped'
    BY <2>1, <2>3, <2>4, FramesPopType, FramesReplaceType
  <2>6. pk' \in [Producers -> Nat]
    <3>1. \A p \in Producers : p \in Popped(n) => pk[p] > 0
      BY DEF Popped
    <3> QED
      BY <1>4, <3>1 DEF CheckIfBecameReady, StreamTypes
  <2>7. NodeTypes'
    BY <1>4, <2>1 DEF CheckIfBecameReady, NodeTypes
  <2>8. StreamTypes'
    BY <1>4, <2>6 DEF CheckIfBecameReady, StreamTypes
  <2> QED
    BY <1>4, <2>5, <2>7, <2>8, UnchangedTypes DEF CheckIfBecameReady, stateVars
<1>5. CASE AddSource(t)
  <2>1. Scheduling(t, "add") /\ n \in Nodes
    BY <1>5, HeadOfFrames DEF AddSource, NodeKinds
  <2>2. FramesTyped'
    BY <1>5, <2>1, FramesPopType, FramesReplaceType, NodeFrameType
    DEF AddSource, NodeKinds
  <2>3. NodeTypes'
    BY <1>5, <2>1 DEF AddSource, NodeTypes
  <2> QED
    BY <1>5, <2>2, <2>3, UnchangedTypes DEF AddSource, stateVars
<1>6. CASE AddPrepared(t)
  <2>1. Scheduling(t, "commit") /\ n \in Nodes
    BY <1>6, HeadOfFrames DEF AddPrepared, NodeKinds
  <2>2. FramesTyped'
    BY <1>6, <2>1, FramesPopType, FramesReplaceType, NodeFrameType
    DEF AddPrepared, NodeKinds
  <2>3. NodeTypes'
    BY <1>6, <2>1 DEF AddPrepared, NodeTypes
  <2> QED
    BY <1>6, <2>2, <2>3, UnchangedTypes DEF AddPrepared, stateVars
<1>7. CASE Push(t)
  <2>1. FramesTyped'
    BY <1>7, FramesPopType DEF Push
  <2> QED
    BY <1>7, <2>1, UnchangedTypes DEF Push, stateVars
<1>8. CASE UpdateThrottledNodes(t)
  <2>1. Scheduling(t, "throttle") /\ n \in Producers
    BY <1>8, HeadOfFrames DEF UpdateThrottledNodes
  <2>2. n \in Sources => n \in Nodes
    BY DEF Nodes
  <2>3. FramesTyped'
    BY <1>8, <2>1, <2>2, FramesPopType, FramesReplaceType, NodeFrameType
    DEF UpdateThrottledNodes, NodeKinds
  <2>4. StreamTypes'
    BY <1>8, <2>1 DEF UpdateThrottledNodes, StreamTypes
  <2>5. AppTypes'
    BY <1>8 DEF UpdateThrottledNodes, UnthrottlesInput, IsFull, AppTypes
  <2> QED
    BY <1>8, <2>3, <2>4, <2>5, UnchangedTypes DEF UpdateThrottledNodes, stateVars
<1>9. CASE SetMaxQueueSize(t)
  <2>1. Scheduling(t, "resize") /\ n \in Producers
    BY <1>9, HeadOfFrames DEF SetMaxQueueSize
  <2>2. FramesTyped'
    BY <1>9, <2>1, FramesPopType, FramesReplaceType, StreamFrameType DEF SetMaxQueueSize
  <2>3. StreamTypes'
    BY <1>9, <2>1 DEF SetMaxQueueSize, StreamTypes
  <2> QED
    BY <1>9, <2>2, <2>3, UnchangedTypes DEF SetMaxQueueSize, stateVars
<1>10. CASE QueueBecameActive(t)
  <2>1. IdleTypes' /\ LayerListed'
    BY <1>10, HandleIdleTypes, UnchangedTypes DEF QueueBecameActive, stateVars
  <2> QED
    BY <1>10, <2>1, UnchangedTypes DEF QueueBecameActive, threadVars
<1>11. CASE QueueBecameIdle(t)
  <2>1. IdleTypes' /\ LayerListed'
    BY <1>11, HandleIdleTypes, UnchangedTypes DEF QueueBecameIdle, stateVars
  <2> QED
    BY <1>11, <2>1, UnchangedTypes DEF QueueBecameIdle, threadVars
<1>12. CASE SubmitTask(t)
  BY <1>12, UnchangedTypes DEF SubmitTask, threadVars, stateVars
<1>13. CASE SubmitWaiting(t)
  BY <1>13, UnchangedTypes DEF SubmitWaiting, threadVars, stateVars
<1> QED
  BY <1>1, <1>2, <1>3, <1>4, <1>5, <1>6, <1>7, <1>8, <1>9, <1>10, <1>11, <1>12, <1>13
  DEF QueueStep

(* A worker that has left the head of RunNextTask runs an item.            *)
LEMMA NodeOfWorker ==
  ASSUME TypeInv, FramesInv, NEW t \in Workers, pc[t] # "idle"
  PROVE  /\ t \in Threads /\ t # Main
         /\ run[t] \in Items /\ Node(t) \in Nodes
<1>1. t \in Threads /\ t # Main
  BY SchedulerAssumption, QueueAssumption
<1>2. run[t] # NoItem
  BY DEF FramesInv, WorkersScheduleInTask
<1>3. run[t] \in Items
  BY <1>1, <1>2 DEF TypeInv, QueueTypeOK
<1> QED
  BY <1>1, <1>3, SchedulerAssumption DEF Node

(* A worker's place, and nothing of the application's, changes.            *)
LEMMA WorkerPlace ==
  ASSUME AppTypes, NEW t \in Threads, t # Main, NEW place \in Places,
         pc' = [pc EXCEPT ![t] = place], UNCHANGED appVars
  PROVE  AppTypes'
BY DEF AppTypes, appVars

(* A packet in the stream of p.                                            *)
LEMMA EmitTypes ==
  ASSUME StreamTypes, FramesTyped, NEW t \in Threads, NEW p \in Producers,
         Emit(t, p), new_size' = new_size
  PROVE  StreamTypes' /\ FramesTyped'
<1>1. FramesTyped'
  BY FramesAfterAdd, FramesKeepType DEF Emit
<1>2. StreamTypes'
  BY DEF Emit, StreamTypes
<1> QED
  BY <1>1, <1>2

LEMMA NewlyOpenableNodes == NewlyOpenable \subseteq Nodes
BY DEF NewlyOpenable, Openable

LEMMA WorkerStepTypes ==
  ASSUME TypeInv, FramesInv, QueueTypeOK', NEW t \in Workers,
         WorkerStep(t) \/ NodeError(t)
  PROVE  TypeInv'
<1> SUFFICES /\ StateTypes' /\ IdleTypes' /\ LayerListed' /\ NodeTypes'
             /\ StreamTypes' /\ AppTypes' /\ FramesTyped'
  BY DEF TypeInv
<1> /\ StateTypes /\ IdleTypes /\ LayerListed /\ NodeTypes /\ StreamTypes
    /\ AppTypes /\ FramesTyped
  BY DEF TypeInv
<1> t \in Threads /\ t # Main
  BY SchedulerAssumption, QueueAssumption
<1> {"run", "end", "closing", "sched", "idle"} \subseteq Places
  BY DEF Places
<1>1. CASE TakeTask(t)
  BY <1>1, WorkerPlace, UnchangedTypes DEF TakeTask, stateVars
<1>2. CASE OpenNode(t)
  <2>1. Node(t) \in Nodes
    BY <1>2, NodeOfWorker DEF OpenNode, Executing
  <2>2. OpenFrames(NewlyOpenable) \o <<Frame("opened", Node(t))>> \in Seq(AllFrames)
    BY <2>1, NewlyOpenableNodes, FramesOfNodes, NodeFrameType DEF NodeKinds
  <2>3. FramesTyped'
    BY <1>2, <2>2, FramesKeepType DEF OpenNode
  <2>4. NodeTypes'
    BY <1>2, <2>1 DEF OpenNode, NodeTypes
  <2> QED
    BY <1>2, <2>3, <2>4, WorkerPlace, UnchangedTypes DEF OpenNode, stateVars
<1>3. CASE ProcessSource(t)
  <2>1. Node(t) \in Producers
    BY <1>3 DEF ProcessSource, Producers
  <2>2. StreamTypes' /\ FramesTyped'
    BY <1>3, <2>1, EmitTypes DEF ProcessSource
  <2> QED
    BY <1>3, <2>2, WorkerPlace, UnchangedTypes DEF ProcessSource, stateVars
<1>4. CASE CloseSource(t)
  <2>1. Node(t) \in Producers
    BY <1>4 DEF CloseSource, Producers
  <2>2. FramesTyped'
    BY <1>4, <2>1, FramesAfterAdd, FramesKeepType DEF CloseSource
  <2>3. StreamTypes'
    BY <1>4, <2>1 DEF CloseSource, StreamTypes
  <2> QED
    BY <1>4, <2>2, <2>3, WorkerPlace, UnchangedTypes DEF CloseSource, stateVars
<1>5. CASE SourceClosed(t)
  <2>1. NodeTypes' /\ StateTypes'
    BY <1>5 DEF SourceClosed, NodeTypes, StateTypes, CloseStatus, stateVars
  <2> QED
    BY <1>5, <2>1, WorkerPlace, UnchangedTypes DEF SourceClosed, stateVars
<1>6. CASE ProcessSink(t)
  <2>1. Node(t) \in Nodes
    BY <1>6, NodeOfWorker DEF ProcessSink, Executing
  <2>2. FramesTyped'
    BY <1>6, NewlyOpenableNodes, FramesOfNodes, FramesKeepType DEF ProcessSink
  <2>3. NodeTypes' /\ StateTypes'
    BY <1>6, <2>1 DEF ProcessSink, NodeTypes, StateTypes, CloseStatus, stateVars
  <2> QED
    BY <1>6, <2>2, <2>3, WorkerPlace, UnchangedTypes DEF ProcessSink, stateVars
<1>7. CASE EndScheduling(t)
  <2>1. Node(t) \in Nodes
    BY <1>7, NodeOfWorker DEF EndScheduling
  <2>2. FramesTyped'
    BY <1>7, <2>1, NodeFrameType, FramesKeepType, UnchangedTypes
    DEF EndScheduling, NodeKinds
  <2>3. NodeTypes'
    BY <1>7 DEF EndScheduling, NodeTypes
  <2> QED
    BY <1>7, <2>2, <2>3, WorkerPlace, UnchangedTypes DEF EndScheduling, stateVars
<1>8. CASE FinishTask(t)
  BY <1>8, WorkerPlace, UnchangedTypes DEF FinishTask, stateVars
<1>9. CASE NodeError(t)
  <2>1. StateTypes'
    BY <1>9 DEF NodeError, StateTypes, stateVars
  <2>2. AppTypes'
    BY <1>9 DEF NodeError, AppTypes, appVars
  <2> QED
    BY <1>9, <2>1, <2>2, UnchangedTypes DEF NodeError, stateVars
<1> QED
  BY <1>1, <1>2, <1>3, <1>4, <1>5, <1>6, <1>7, <1>8, <1>9 DEF WorkerStep

(* CleanupActiveSources drops a suffix of active_sources_.                 *)
LEMMA CleanupType ==
  ASSUME active_sources \in Seq(Sources)
  PROVE  CleanupActiveSources \in Seq(Sources)
<1> DEFINE open == {k \in DOMAIN active_sources : ~Closed(active_sources[k])}
<1>1. CASE open = {}
  BY <1>1 DEF CleanupActiveSources
<1>2. CASE open # {}
  <2>1. Len(active_sources) \in Nat /\ open \in SUBSET (1 .. Len(active_sources))
    OBVIOUS
  <2>2. \E k \in open : \A j \in open : j <= k
    <3> HIDE DEF open
    <3> QED
      BY <1>2, <2>1, GreatestNumber
  <2>3. PICK k \in open : k = CHOOSE i \in open : \A j \in open : j <= i
    BY <2>2
  <2>4. CleanupActiveSources = SubSeq(active_sources, 1, k)
    BY <1>2, <2>3 DEF CleanupActiveSources
  <2>5. k \in 1 .. Len(active_sources)
    BY <2>1, <2>3
  <2> QED
    BY <2>4, <2>5
<1> QED
  BY <1>1, <1>2

(* The sources of the next layer are listed, each once.                    *)
LEMMA NextLayerListed ==
  ASSUME StateTypes, NEW order \in SetToSeqs(NextLayer)
  PROVE  /\ order \in Seq(Sources)
         /\ \A s \in NextLayer : \E k \in DOMAIN order : order[k] = s
<1>1. NextLayer \subseteq Sources /\ IsFiniteSet(NextLayer)
  BY FiniteProducers, FS_Subset DEF NextLayer, StateTypes
<1>2. Cardinality(NextLayer) \in Nat
  BY <1>1, FS_CardinalityType
<1> DEFINE D == 1 .. Cardinality(NextLayer)
<1>3. order \in [D -> NextLayer] /\ \A i, j \in D : i # j => order[i] # order[j]
  BY DEF SetToSeqs
<1>4. IsFiniteSet(D) /\ Cardinality(D) = Cardinality(NextLayer)
  BY <1>2, FS_Interval
<1> HIDE DEF D
<1>5. order \in Injection(D, NextLayer)
  BY <1>3 DEF Injection, IsInjective
<1>6. order \in Surjection(D, NextLayer)
  BY <1>1, <1>4, <1>5, FS_Injection
<1>7. order \in Seq(Sources)
  BY <1>1, <1>2, <1>3 DEF D
<1> QED
  BY <1>3, <1>6, <1>7 DEF Surjection

(* The source ActivateNode takes next is one of the layer.                 *)
LEMMA FirstOfLayer ==
  ASSUME active_sources \in Seq(Sources), NEW s \in work, LayerListed,
         idler = "activate"
  PROVE  LET first == CHOOSE k \in DOMAIN active_sources :
                        /\ active_sources[k] \in work
                        /\ \A j \in 1 .. k - 1 : active_sources[j] \notin work
         IN  active_sources[first] \in work /\ active_sources[first] \in Sources
<1> DEFINE T == {k \in DOMAIN active_sources : active_sources[k] \in work}
<1>1. T \in SUBSET Nat /\ T # {}
  BY DEF LayerListed
<1>2. PICK k \in T : \A j \in T : k <= j
  <2> HIDE DEF T
  <2> QED
    BY <1>1, LeastNumber
<1>3. k \in DOMAIN active_sources /\ active_sources[k] \in work
  OBVIOUS
<1>4. \A j \in 1 .. k - 1 : active_sources[j] \notin work
  <2> SUFFICES ASSUME NEW j \in 1 .. k - 1, active_sources[j] \in work PROVE FALSE
    OBVIOUS
  <2>1. j \in T
    OBVIOUS
  <2> QED
    BY <1>2, <2>1
<1> DEFINE first == CHOOSE i \in DOMAIN active_sources :
                      /\ active_sources[i] \in work
                      /\ \A j \in 1 .. i - 1 : active_sources[j] \notin work
<1>5. first \in DOMAIN active_sources /\ active_sources[first] \in work
  BY <1>3, <1>4
<1> HIDE DEF first
<1>6. active_sources[first] \in Sources
  BY <1>5
<1> QED
  BY <1>5, <1>6 DEF first

LEMMA IdlerStepTypes ==
  ASSUME TypeInv, ControlInv, QueueTypeOK', IdlerStep
  PROVE  TypeInv'
<1> SUFFICES /\ StateTypes' /\ IdleTypes' /\ LayerListed' /\ NodeTypes'
             /\ StreamTypes' /\ AppTypes' /\ FramesTyped'
  BY DEF TypeInv
<1> /\ StateTypes /\ IdleTypes /\ LayerListed /\ NodeTypes /\ StreamTypes
    /\ AppTypes /\ FramesTyped
  BY DEF TypeInv
<1> Idler \in Threads
  BY SchedulerAssumption
<1> CleanupActiveSources \in Seq(Sources)
  BY CleanupType DEF StateTypes
<1>0. LeaveHandleIdle => IdleTypes' /\ LayerListed'
  BY DEF LeaveHandleIdle, IdleTypes, LayerListed
<1>1. CASE IdleLoopEnds
  BY <1>0, <1>1, UnchangedTypes DEF IdleLoopEnds, threadVars
<1>2. CASE Quit
  <2>1. StateTypes'
    BY <1>2 DEF Quit, StateTypes, States, sharedVars
  <2> QED
    BY <1>0, <1>2, <2>1, UnchangedTypes DEF Quit, threadVars
<1>3. CASE LayerBlocked
  <2>1. StateTypes'
    BY <1>3 DEF LayerBlocked, BlockedLayerError, StateTypes
  <2>2. LayerListed'
    BY <1>3 DEF LayerBlocked, NeedsNextLayer, LayerListed, idleVars
  <2> QED
    BY <1>3, <2>1, <2>2, UnchangedTypes DEF LayerBlocked, threadVars
<1>4. CASE TakeNextLayer
  <2>1. active_sources' \in SetToSeqs(NextLayer)
    BY <1>4 DEF TakeNextLayer
  <2>2. /\ active_sources' \in Seq(Sources)
        /\ \A s \in NextLayer : \E k \in DOMAIN active_sources' : active_sources'[k] = s
    BY <2>1, NextLayerListed
  <2>3. StateTypes'
    BY <1>4, <2>2 DEF TakeNextLayer, StateTypes, sharedVars
  <2>4. NextLayer \subseteq Producers
    BY DEF NextLayer, StateTypes, Producers
  <2>5. IdleTypes' /\ LayerListed'
    BY <1>4, <2>2, <2>4 DEF TakeNextLayer, IdleTypes, LayerListed
  <2> QED
    BY <1>4, <2>3, <2>5, UnchangedTypes DEF TakeNextLayer, threadVars
<1>5. CASE StopQueuesForLayer
  <2>1. IdleTypes' /\ LayerListed'
    BY <1>5 DEF StopQueuesForLayer, IdleTypes, LayerListed, stateVars
  <2> QED
    BY <1>5, <2>1, UnchangedTypes DEF StopQueuesForLayer, threadVars
<1>6. CASE ActivateNode
  <2> DEFINE first == CHOOSE k \in DOMAIN active_sources :
                        /\ active_sources[k] \in work
                        /\ \A j \in 1 .. k - 1 : active_sources[j] \notin work
             s == active_sources[first]
  <2>1. /\ idler = "activate" /\ work # {}
        /\ status' = [status EXCEPT ![s] = "active"]
        /\ frames' = [frames EXCEPT ![Idler] = <<Frame("ready", s)>>]
        /\ work' = work \ {s}
        /\ UNCHANGED <<stateVars, sharedVars, idler, idle_caller, in_flight, closing,
                       provided, headed, streamVars, pc, new_size, appVars>>
    BY <1>6 DEF ActivateNode
  <2>2. s \in Sources
    BY <2>1, FirstOfLayer DEF StateTypes
  <2> HIDE DEF s
  <2>3. s \in Nodes
    BY <2>2 DEF Nodes
  <2>4. FramesTyped'
    BY <2>1, <2>3, NodeFrameType, FramesKeepType DEF NodeKinds
  <2>5. NodeTypes'
    BY <2>1 DEF NodeTypes
  <2>6. IdleTypes' /\ LayerListed'
    BY <2>1 DEF IdleTypes, LayerListed, stateVars
  <2> QED
    BY <2>1, <2>4, <2>5, <2>6, UnchangedTypes
<1>7. CASE RestartQueuesForLayer
  <2>1. IdleTypes' /\ LayerListed'
    BY <1>7 DEF RestartQueuesForLayer, IdleTypes, LayerListed
  <2> QED
    BY <1>7, <2>1, UnchangedTypes DEF RestartQueuesForLayer, threadVars
<1>8. CASE LayerScheduled
  <2>1. IdleTypes' /\ LayerListed'
    BY <1>8 DEF LayerScheduled, IdleTypes, LayerListed
  <2> QED
    BY <1>8, <2>1, UnchangedTypes DEF LayerScheduled, threadVars
<1>9. CASE IdleUnthrottles
  <2>1. StateTypes'
    BY <1>9 DEF IdleUnthrottles, StateTypes, sharedVars
  <2>2. IdleTypes' /\ LayerListed'
    BY <1>0, <1>9 DEF IdleUnthrottles, IdleTypes, LayerListed
  <2> QED
    BY <1>9, <2>1, <2>2, UnchangedTypes DEF IdleUnthrottles, threadVars
<1>10. CASE CollectFullStreams
  <2>1. IdleTypes' /\ LayerListed'
    BY <1>0, <1>10
    DEF CollectFullStreams, FullStreams, StreamTypes, IdleTypes, LayerListed
  <2> QED
    BY <1>10, <2>1, UnchangedTypes DEF CollectFullStreams, threadVars
<1>11. CASE GrowFullStream
  <2>1. PICK p \in work :
          /\ work' = work \ {p}
          /\ IF ReportDeadlock
             THEN has_error' = TRUE /\ UNCHANGED <<new_size, frames>>
             ELSE /\ new_size' = NewSize(p)
                  /\ frames' = [frames EXCEPT ![Idler] = <<Frame("resize", p)>>]
                  /\ UNCHANGED has_error
    BY <1>11 DEF GrowFullStream
  <2>2. p \in Producers /\ NewSize(p) \in Nat
    BY DEF IdleTypes, NewSize, StreamTypes
  <2>3. FramesTyped'
    BY <2>1, <2>2, StreamFrameType, FramesKeepType, UnchangedTypes
  <2>4. StateTypes'
    BY <1>11, <2>1 DEF GrowFullStream, StateTypes, stateVars
  <2>5. StreamTypes'
    BY <1>11, <2>1, <2>2 DEF GrowFullStream, StreamTypes, streamVars
  <2>6. IdleTypes' /\ LayerListed'
    BY <1>11, <2>1 DEF GrowFullStream, IdleTypes, LayerListed
  <2> QED
    BY <1>11, <2>3, <2>4, <2>5, <2>6, UnchangedTypes DEF GrowFullStream
<1>12. CASE StreamsGrown
  <2>1. IdleTypes' /\ LayerListed'
    BY <1>12 DEF StreamsGrown, IdleTypes, LayerListed
  <2> QED
    BY <1>12, <2>1, UnchangedTypes DEF StreamsGrown, threadVars
<1> QED
  BY <1>1, <1>2, <1>3, <1>4, <1>5, <1>6, <1>7, <1>8, <1>9, <1>10, <1>11, <1>12
  DEF IdlerStep

LEMMA MainStepTypes ==
  ASSUME TypeInv, ControlInv, QueueTypeOK', MainStep
  PROVE  TypeInv'
<1> SUFFICES /\ StateTypes' /\ IdleTypes' /\ LayerListed' /\ NodeTypes'
             /\ StreamTypes' /\ AppTypes' /\ FramesTyped'
  BY DEF TypeInv
<1> /\ StateTypes /\ IdleTypes /\ LayerListed /\ NodeTypes /\ StreamTypes
    /\ AppTypes /\ FramesTyped
  BY DEF TypeInv
<1> Main \in Threads
  BY SchedulerAssumption
<1>1. CASE Start
  <2>1. StateTypes'
    BY <1>1 DEF Start, StateTypes, States, sharedVars
  <2>2. IdleTypes' /\ LayerListed'
    BY <1>1, HandleIdleTypes DEF Start
  <2>3. AppTypes'
    BY <1>1 DEF Start, AppTypes, Places, appVars
  <2> QED
    BY <1>1, <2>1, <2>2, <2>3, UnchangedTypes DEF Start
<1>2. CASE AddPacketToInputStream
  <2>1. AppTypes'
    BY <1>2 DEF AddPacketToInputStream, OpenInputs, AppTypes, Places
  <2> QED
    BY <1>2, <2>1, UnchangedTypes DEF AddPacketToInputStream, stateVars
<1>3. CASE AddPacket
  <2>1. AppTypes'
    BY <1>3 DEF AddPacket, AppTypes, Places
  <2>2. StreamTypes' /\ FramesTyped'
    <3>1. CASE Emit(Main, feeding)
      <4>1. feeding \in Producers
        BY <1>3 DEF AddPacket, AppTypes, Producers
      <4> QED
        BY <1>3, <3>1, <4>1, EmitTypes DEF AddPacket
    <3>2. CASE UNCHANGED <<streamVars, frames>>
      BY <1>3, <3>2, UnchangedTypes DEF AddPacket
    <3> QED
      BY <1>3, <3>1, <3>2 DEF AddPacket
  <2> QED
    BY <1>3, <2>1, <2>2, UnchangedTypes DEF AddPacket, stateVars
<1>4. CASE WaitUntilGraphInputStreamUnthrottled
  <2>1. AppTypes'
    BY <1>4 DEF WaitUntilGraphInputStreamUnthrottled, AppTypes, Places, appVars
  <2> QED
    BY <1>4, <2>1, UnchangedTypes DEF WaitUntilGraphInputStreamUnthrottled, stateVars
<1>5. CASE AddedPacketToGraphInputStream
  <2>1. AppTypes'
    BY <1>5 DEF AddedPacketToGraphInputStream, AppTypes, Places, appVars
  <2>2. IdleTypes' /\ LayerListed'
    BY <1>5, HandleIdleTypes, UnchangedTypes DEF AddedPacketToGraphInputStream, stateVars
  <2> QED
    BY <1>5, <2>1, <2>2, UnchangedTypes DEF AddedPacketToGraphInputStream
<1>6. CASE WaitUntilIdle
  <2>1. AppTypes'
    BY <1>6, SchedulerAssumption DEF WaitUntilIdle, AppTypes, Places
  <2> QED
    BY <1>6, <2>1, UnchangedTypes DEF WaitUntilIdle, stateVars
<1>7. CASE ObservedIdle
  <2>1. AppTypes'
    BY <1>7 DEF ObservedIdle, AppTypes, Places, appVars
  <2> QED
    BY <1>7, <2>1, UnchangedTypes DEF ObservedIdle, stateVars
<1>8. CASE CloseInputStreams
  <2>1. PICK S \in SUBSET GraphInputs :
          /\ done' = done \cup S
          /\ frames' = [frames EXCEPT ![Main] = AfterClosing(S)]
    BY <1>8 DEF CloseInputStreams, OpenInputs
  <2>2. FramesTyped'
    BY <2>1, FramesAfterClosing, FramesKeepType
  <2>3. StreamTypes'
    BY <1>8, <2>1 DEF CloseInputStreams, StreamTypes, Producers
  <2>4. AppTypes'
    BY <1>8 DEF CloseInputStreams, AppTypes, Places, appVars
  <2> QED
    BY <1>8, <2>2, <2>3, <2>4, UnchangedTypes DEF CloseInputStreams, stateVars
<1>9. CASE ClosedAllGraphInputStreams
  <2>1. StateTypes'
    BY <1>9 DEF ClosedAllGraphInputStreams, StateTypes, sharedVars
  <2>2. IdleTypes' /\ LayerListed'
    BY <1>9, HandleIdleTypes DEF ClosedAllGraphInputStreams
  <2>3. AppTypes'
    BY <1>9 DEF ClosedAllGraphInputStreams, AppTypes, Places, appVars
  <2> QED
    BY <1>9, <2>1, <2>2, <2>3, UnchangedTypes DEF ClosedAllGraphInputStreams
<1>10. CASE WaitUntilDone
  <2>1. AppTypes'
    BY <1>10 DEF WaitUntilDone, AppTypes, Places, appVars
  <2> QED
    BY <1>10, <2>1, UnchangedTypes DEF WaitUntilDone, stateVars
<1>11. CASE CleanupQueue
  BY <1>11, UnchangedTypes DEF CleanupQueue, threadVars, stateVars
<1>12. CASE FinishRun
  <2>1. StateTypes'
    <3>1. active_sources' \in Seq(Sources)
      BY <1>12, EmptySeqType DEF FinishRun
    <3>2. /\ UNCHANGED <<state, graph_input_streams_closed, stopping>>
          /\ sources_queue' = {} /\ unopened_sources' = {} /\ has_error' = FALSE
      BY <1>12 DEF FinishRun
    <3> QED
      BY <3>1, <3>2 DEF StateTypes
  <2>2. LayerListed'
    BY <1>12 DEF FinishRun, ControlInv, MainKnowsState, IdlerActsInRun, LayerListed, idleVars
  <2>3. AppTypes'
    BY <1>12 DEF FinishRun, AppTypes, Places, appVars
  <2> QED
    BY <1>12, <2>1, <2>2, <2>3, UnchangedTypes DEF FinishRun
<1>13. CASE Reset
  <2>1. StateTypes'
    BY <1>13 DEF Reset, StateTypes, States
  <2>2. NodeTypes'
    BY <1>13 DEF Reset, NodeTypes
  <2>3. StreamTypes'
    BY <1>13, SchedulerAssumption DEF Reset, StreamTypes
  <2>4. AppTypes'
    <3>1. pc' = [pc EXCEPT ![Main] = "prepare"]
      BY <1>13 DEF Reset
    <3>2. pc' \in [Threads -> Places] /\ pc'[Main] = "prepare"
      BY <3>1 DEF AppTypes, Places
    <3>3. 0 \in 0 .. MaxControls
      BY SchedulerAssumption
    <3> QED
      BY <1>13, <3>2, <3>3 DEF Reset, AppTypes
  <2>5. Openable({}, {}) \subseteq Nodes
    BY DEF Openable
  <2>6. FramesTyped'
    BY <1>13, <2>5, FramesOfNodes, FramesKeepType DEF Reset
  <2> QED
    BY <1>13, <2>1, <2>2, <2>3, <2>4, <2>6, UnchangedTypes DEF Reset
<1> QED
  BY <1>1, <1>2, <1>3, <1>4, <1>5, <1>6, <1>7, <1>8, <1>9, <1>10, <1>11, <1>12, <1>13
  DEF MainStep

LEMMA ControlStepTypes ==
  ASSUME TypeInv, QueueTypeOK', NEW t \in Control,
         ControlStep(t) \/ Resume(t) \/ CloseAllSourceNodes(t)
  PROVE  TypeInv'
<1> SUFFICES /\ StateTypes' /\ IdleTypes' /\ LayerListed' /\ NodeTypes'
             /\ StreamTypes' /\ AppTypes' /\ FramesTyped'
  BY DEF TypeInv
<1> /\ StateTypes /\ IdleTypes /\ LayerListed /\ NodeTypes /\ StreamTypes
    /\ AppTypes /\ FramesTyped
  BY DEF TypeInv
<1> t \in Threads /\ t # Main
  BY SchedulerAssumption
<1>1. CASE Pause(t)
  <2>1. StateTypes'
    BY <1>1 DEF Pause, StateTypes, States, sharedVars
  <2> QED
    BY <1>1, <2>1, UnchangedTypes DEF Pause, threadVars
<1>2. CASE Cancel(t)
  <2>1. StateTypes'
    BY <1>2 DEF Cancel, StateTypes, States
  <2>2. IdleTypes' /\ LayerListed'
    BY <1>2, HandleIdleTypes DEF Cancel
  <2>3. AppTypes'
    BY <1>2, SchedulerAssumption DEF Cancel, MayControl, AppTypes
  <2> QED
    BY <1>2, <2>1, <2>2, <2>3, UnchangedTypes DEF Cancel
<1>3. CASE CloseAllPacketSources(t)
  <2>1. StateTypes'
    BY <1>3 DEF CloseAllPacketSources, StateTypes, sharedVars
  <2>2. IdleTypes' /\ LayerListed'
    BY <1>3, HandleIdleTypes DEF CloseAllPacketSources
  <2>3. AppTypes'
    BY <1>3, SchedulerAssumption DEF CloseAllPacketSources, MayControl, AppTypes, Places
  <2> QED
    BY <1>3, <2>1, <2>2, <2>3, UnchangedTypes DEF CloseAllPacketSources
<1>4. CASE Resume(t)
  <2>1. StateTypes'
    BY <1>4 DEF Resume, StateTypes, States, sharedVars
  <2>2. IdleTypes' /\ LayerListed'
    BY <1>4, HandleIdleTypes DEF Resume
  <2> QED
    BY <1>4, <2>1, <2>2, UnchangedTypes DEF Resume, threadVars
<1>5. CASE CloseAllSourceNodes(t)
  <2>1. StateTypes'
    BY <1>5 DEF CloseAllSourceNodes, StateTypes, stateVars
  <2>2. AppTypes'
    BY <1>5 DEF CloseAllSourceNodes, AppTypes, Places, appVars
  <2> QED
    BY <1>5, <2>1, <2>2, UnchangedTypes DEF CloseAllSourceNodes, stateVars
<1> QED
  BY <1>1, <1>2, <1>3, <1>4, <1>5 DEF ControlStep

LEMMA TypeInvInit == Init => TypeInv
<1> SUFFICES ASSUME Init PROVE TypeInv
  OBVIOUS
<1>1. QueueTypeOK
  BY InitEstablishes DEF Init, QueueIInv
<1>2. Openable({}, {}) \subseteq Nodes
  BY DEF Openable
<1>3. FramesTyped
  BY <1>2, FramesOfNodes DEF Init, FramesTyped
<1>4. AppTypes
  <2>1. pc \in [Threads -> Places] /\ pc[Main] = "prepare"
    BY SchedulerAssumption DEF Init, Places
  <2>2. 0 \in 0 .. MaxControls
    BY SchedulerAssumption
  <2> QED
    BY <2>1, <2>2 DEF Init, AppTypes
<1>5. StateTypes
  <2>1. active_sources \in Seq(Sources)
    BY EmptySeqType DEF Init
  <2> QED
    BY <2>1 DEF Init, StateTypes, States
<1>6. IdleTypes /\ LayerListed
  BY DEF Init, IdleTypes, LayerListed
<1>7. NodeTypes
  BY DEF Init, NodeTypes
<1>8. StreamTypes
  BY SchedulerAssumption DEF Init, StreamTypes
<1> QED
  BY <1>1, <1>3, <1>4, <1>5, <1>6, <1>7, <1>8 DEF TypeInv

(***************************************************************************)
(* A step of the scheduler that does not reset it is a step of its queues, *)
(* or leaves them alone.                                                   *)
(***************************************************************************)

(* What a queue step asks of the running counts.                           *)
LEMMA RunningCountBounds ==
  ASSUME ControlInv
  PROVE  /\ state \in {"NOT_STARTED", "PAUSED"} \/ idler = "activate"
              => \A q \in Queues : running_count[q] < 1
         /\ state \in {"RUNNING", "CANCELLING"}
              => \A q \in Queues : running_count[q] > MinRunningCount
BY DEF ControlInv, RunningCountMatchesState, MinRunningCount

LEMMA QueueStepImplements ==
  ASSUME FramesInv, FramesTyped, NEW t \in Threads, QueueStep(t)
  PROVE  QueueNext \/ UNCHANGED queueVars
<1>1. CASE Push(t)
  <2>1. frames[t] # <<>>
    BY <1>1 DEF Push, Scheduling
  <2>2. t \in Workers => run[t] # NoItem
    BY <2>1 DEF FramesInv, WorkersScheduleInTask
  <2>3. Head(frames[t]).node \in Nodes
    BY <1>1, HeadOfFrames DEF Push, NodeKinds
  <2>4. {ProcessItem(Head(frames[t]).node), OpenItem(Head(frames[t]).node)} \subseteq Items
    BY <2>3, SchedulerAssumption DEF ProcessItem, OpenItem
  <2>5. \E i \in Items : AddItemToQueue(t, i)
    BY <1>1, <2>4 DEF Push
  <2> QED
    BY <2>2, <2>5 DEF QueueNext, MayAdd
<1>2. CASE QueueBecameActive(t)
  BY <1>2 DEF QueueBecameActive, QueueNext
<1>3. CASE QueueBecameIdle(t)
  BY <1>3 DEF QueueBecameIdle, QueueNext
<1>4. CASE SubmitTask(t)
  BY <1>4 DEF SubmitTask, QueueNext
<1>5. CASE SubmitWaiting(t)
  BY <1>5 DEF SubmitWaiting, QueueNext
<1> QED
  BY <1>1, <1>2, <1>3, <1>4, <1>5
  DEF QueueStep, AddNodeForOpen, NodeOpened, ScheduleNodeIfNotThrottled,
      CheckIfBecameReady, AddSource, AddPrepared, UpdateThrottledNodes, SetMaxQueueSize

LEMMA WorkerStepImplements ==
  ASSUME NEW t \in Workers, WorkerStep(t) \/ NodeError(t)
  PROVE  QueueNext \/ UNCHANGED queueVars
<1> t \in Threads
  BY QueueAssumption
<1>1. CASE TakeTask(t)
  BY <1>1 DEF TakeTask, QueueNext
<1>2. CASE FinishTask(t)
  BY <1>2 DEF FinishTask, QueueNext
<1> QED
  BY <1>1, <1>2
  DEF WorkerStep, OpenNode, ProcessSource, CloseSource, SourceClosed, ProcessSink,
      EndScheduling, NodeError

LEMMA IdlerStepImplements ==
  ASSUME ControlInv, IdlerStep
  PROVE  QueueNext \/ UNCHANGED queueVars
<1> Idler \in Threads /\ Idler \notin Workers
  BY SchedulerAssumption
<1>1. CASE Quit
  BY <1>1, RunningCountBounds DEF Quit, MayAct, QueueNext
<1>2. CASE StopQueuesForLayer
  <2>1. state \in {"RUNNING", "PAUSED", "CANCELLING"}
    BY <1>2 DEF StopQueuesForLayer, ControlInv, IdlerActsInRun, States
  <2>2. \A q \in Queues : running_count[q] > MinRunningCount
    BY <1>2, <2>1
    DEF StopQueuesForLayer, ControlInv, RunningCountMatchesState, MinRunningCount
  <2> QED
    BY <1>2, <2>2 DEF StopQueuesForLayer, StopQueues, QueueNext
<1>3. CASE RestartQueuesForLayer
  BY <1>3, RunningCountBounds DEF RestartQueuesForLayer, QueueNext
<1> QED
  BY <1>1, <1>2, <1>3
  DEF IdlerStep, IdleLoopEnds, LayerBlocked, TakeNextLayer, ActivateNode,
      LayerScheduled, IdleUnthrottles, CollectFullStreams, GrowFullStream, StreamsGrown

LEMMA MainStepImplements ==
  ASSUME ControlInv, MainStep, ~Reset
  PROVE  QueueNext \/ UNCHANGED queueVars
<1> Main \in Threads /\ Main \notin Workers
  BY SchedulerAssumption
<1>1. CASE Start
  BY <1>1, RunningCountBounds DEF Start, ControlInv, MainKnowsState, QueueNext
<1>2. CASE CleanupQueue
  BY <1>2 DEF CleanupQueue, QueueNext
<1> QED
  BY <1>1, <1>2
  DEF MainStep, AddPacketToInputStream, AddPacket, WaitUntilGraphInputStreamUnthrottled,
      AddedPacketToGraphInputStream, WaitUntilIdle, ObservedIdle, CloseInputStreams,
      ClosedAllGraphInputStreams, WaitUntilDone, FinishRun

LEMMA ControlStepImplements ==
  ASSUME ControlInv, NEW t \in Control,
         ControlStep(t) \/ Resume(t) \/ CloseAllSourceNodes(t)
  PROVE  QueueNext \/ UNCHANGED queueVars
<1> t \in Threads /\ t \notin Workers
  BY SchedulerAssumption
<1>1. CASE Pause(t)
  BY <1>1, RunningCountBounds DEF Pause, QueueNext
<1>2. CASE Cancel(t)
  BY <1>2, RunningCountBounds DEF Cancel, ExhaustQueues, QueueNext
<1>3. CASE Resume(t)
  BY <1>3, RunningCountBounds DEF Resume, Resumable, QueueNext
<1> QED
  BY <1>1, <1>2, <1>3 DEF ControlStep, CloseAllPacketSources, CloseAllSourceNodes

LEMMA StepImplements ==
  ASSUME ControlInv, FramesInv, FramesTyped, [Next]_vars, ~Reset
  PROVE  [QueueNext]_queueVars
<1>1. CASE UNCHANGED vars
  BY <1>1 DEF vars
<1> QED
  BY <1>1, QueueStepImplements, WorkerStepImplements, IdlerStepImplements,
     MainStepImplements, ControlStepImplements
  DEF Next

(***************************************************************************)
(* The inductive invariant of the scheduler: what its control follows, who *)
(* has something left to schedule, and the types.                          *)
(***************************************************************************)
SchedInv == ControlInv /\ FramesInv /\ TypeInv

LEMMA ResetQueueTypes ==
  ASSUME QueueTypeOK, Reset
  PROVE  QueueTypeOK'
<1>1. UNCHANGED <<queue, executor, non_idle_queue_count, run, call, owed>>
  BY DEF Reset
<1>2. /\ num_pending_tasks' = [q \in Queues |-> 0]
      /\ num_tasks_to_add' = [q \in Queues |-> 0]
      /\ running_count' = [q \in Queues |-> 0]
  BY DEF Reset
<1> QED
  BY <1>1, <1>2 DEF QueueTypeOK

LEMMA SchedInvInit == Init => SchedInv
BY ControlInvInductive, FramesInvInductive, TypeInvInit DEF SchedInv

LEMMA SchedInvInductive ==
  ASSUME SchedInv, [Next]_vars
  PROVE  SchedInv'
<1> ControlInv /\ FramesInv /\ TypeInv /\ QueueTypeOK /\ FramesTyped
  BY DEF SchedInv, TypeInv
<1>1. ControlInv'
  BY ControlInvInductive
<1>2. FramesInv'
  BY FramesInvInductive
<1>3. QueueTypeOK'
  <2>1. CASE Reset
    BY <2>1, ResetQueueTypes
  <2>2. CASE ~Reset
    BY <2>2, StepImplements, QueueTypeStep
  <2> QED
    BY <2>1, <2>2
<1>4. TypeInv'
  <2>1. CASE UNCHANGED vars
    <3>1. UNCHANGED <<stateVars, sharedVars, idleVars, nodeVars, streamVars,
                      new_size, pc, appVars, frames>>
      BY <2>1 DEF vars, threadVars
    <3>2. UNCHANGED <<stateVars, sharedVars>> /\ UNCHANGED <<idleVars, active_sources>>
          /\ UNCHANGED <<streamVars, new_size>> /\ UNCHANGED <<pc, appVars>>
      BY <3>1 DEF stateVars
    <3> QED
      BY <1>3, <3>1, <3>2, UnchangedTypes DEF TypeInv
  <2> QED
    BY <1>3, <2>1, QueueStepTypes, WorkerStepTypes, IdlerStepTypes, MainStepTypes,
       ControlStepTypes
    DEF Next
<1> QED
  BY <1>1, <1>2, <1>4 DEF SchedInv

(* Every variable of the scheduler keeps its type, in every run and        *)
(* whatever threads, queues, sources, sinks and layers there are.          *)
THEOREM SchedulerTypesHold == Spec => []TypeOK
<1>1. SchedInv => TypeOK
  BY TypeInvImplies DEF SchedInv
<1> QED
  BY <1>1, SchedInvInit, SchedInvInductive, PTL DEF Spec

(***************************************************************************)
(* The scheduler implements its queues, run after run.  Scheduler::Reset   *)
(* sets the counters of the queues to 0 without looking at them; it        *)
(* changes nothing if the queues are idle.                                 *)
(***************************************************************************)
DoneMeansIdle == pc[Main] = "done" => \A q \in Queues : IsIdle(q)

RunsInv == SchedInv /\ QueueIInv /\ DoneMeansIdle

LEMMA InitImplements == Init => QueueInit
BY DEF Init

LEMMA StepOfRunImplements ==
  ASSUME SchedInv, [Next /\ ~Reset]_vars
  PROVE  [QueueNext]_queueVars
<1>1. CASE UNCHANGED vars
  BY <1>1 DEF vars
<1>2. CASE Next /\ ~Reset
  BY <1>2, StepImplements DEF SchedInv, TypeInv
<1> QED
  BY <1>1, <1>2

(* An idle queue has no task anywhere.                                     *)
LEMMA IdleQueue ==
  ASSUME QueueIInv, NEW q \in Queues, IsIdle(q)
  PROVE  /\ num_tasks_to_add[q] = 0 /\ executor[q] = 0
         /\ Cardinality(InHand(q)) = 0 /\ Running(q) = {}
<1>1. /\ Cardinality(InHand(q)) \in Nat /\ Cardinality(Running(q)) \in Nat
      /\ executor[q] \in Nat /\ num_tasks_to_add[q] \in Nat
  BY CardinalitiesAreNat DEF QueueIInv, QueueTypeOK
<1>2. Cardinality(queue[q]) = 0 /\ num_pending_tasks[q] = 0
  BY FS_EmptySet DEF IsIdle
<1>3. 0 = num_tasks_to_add[q] + Cardinality(InHand(q)) + executor[q]
  BY <1>2 DEF QueueIInv, TaskAccounting
<1>4. 0 = Cardinality(InHand(q)) + executor[q] + Cardinality(Running(q))
  BY <1>2 DEF QueueIInv, PendingAccounting
<1>5. Cardinality(Running(q)) = 0
  BY <1>1, <1>4
<1>6. Running(q) = {}
  BY <1>5, FS_EmptySet DEF QueueIInv, AllFinite
<1> QED
  BY <1>1, <1>3, <1>6

(* Once a run is over no thread has anything to run or to schedule.        *)
LEMMA NobodyPushesWhenDone ==
  ASSUME RunsInv, pc[Main] = "done", NEW t \in Threads
  PROVE  frames[t] = <<>> /\ run[t] = NoItem
<1>1. state = "TERMINATED"
  BY DEF RunsInv, SchedInv, ControlInv, MainKnowsState
<1>0. run[t] = NoItem
  <2> SUFFICES ASSUME run[t] # NoItem PROVE FALSE
    OBVIOUS
  <2> DEFINE q == Info[run[t]].queue
  <2>1. run[t] \in Items
    BY DEF RunsInv, QueueIInv, QueueTypeOK
  <2>2. q \in Queues
    BY <2>1, QueueAssumption DEF ItemInfo
  <2>3. t \in Running(q)
    BY DEF Running
  <2>4. IsIdle(q)
    BY <2>2 DEF RunsInv, DoneMeansIdle
  <2> HIDE DEF q
  <2> QED
    BY <2>2, <2>3, <2>4, IdleQueue DEF RunsInv
<1>2. CASE t \in Workers
  BY <1>0, <1>2 DEF RunsInv, SchedInv, FramesInv, WorkersScheduleInTask
<1>3. CASE t = Idler
  BY <1>0, <1>1, <1>3, SchedulerAssumption
  DEF RunsInv, SchedInv, ControlInv, FramesInv, IdlerActsInRun, IdlerSchedulesInHandleIdle
<1>4. CASE t = Main
  BY <1>0, <1>4, SchedulerAssumption DEF RunsInv, SchedInv, FramesInv, MainSchedulesInRun
<1>5. CASE t \in Control
  BY <1>0, <1>5, SchedulerAssumption DEF RunsInv, SchedInv, FramesInv, ControlNeverSchedules
<1> QED
  BY <1>0, <1>2, <1>3, <1>4, <1>5, SchedulerAssumption

(* Items enter a queue only where a frame is pushed.                       *)
LEMMA OnlyPushAdds ==
  ASSUME QueueTypeOK, [Next]_vars, \A t \in Threads : ~Push(t), NEW q \in Queues
  PROVE  queue'[q] \subseteq queue[q]
<1>1. ASSUME NEW t \in Threads, QueueStep(t) PROVE queue' = queue
  BY <1>1
  DEF QueueStep, AddNodeForOpen, NodeOpened, ScheduleNodeIfNotThrottled,
      CheckIfBecameReady, AddSource, AddPrepared, UpdateThrottledNodes, SetMaxQueueSize,
      QueueBecameActive, QueueBecameIdle, SubmitTask, SubmitWaiting, BecomeActive,
      BecomeIdle, AddTask, SubmitWaitingTasks, queueVars
<1>2. ASSUME NEW t \in Workers, WorkerStep(t) \/ NodeError(t)
      PROVE  queue' = queue \/ \E r \in Queues : RunNextTask(t, r)
  BY <1>2
  DEF WorkerStep, TakeTask, FinishTask, EndTask, OpenNode, ProcessSource, CloseSource,
      SourceClosed, ProcessSink, EndScheduling, NodeError, queueVars
<1>3. CASE IdlerStep
  <2>1. queue' = queue
    BY <1>3
    DEF IdlerStep, IdleLoopEnds, LayerBlocked, TakeNextLayer, ActivateNode,
        LayerScheduled, IdleUnthrottles, CollectFullStreams, GrowFullStream, StreamsGrown,
        Quit, StopQueuesForLayer, StopQueues, RestartQueuesForLayer, SetQueuesRunning,
        queueVars
  <2> QED
    BY <2>1
<1>4. CASE MainStep
  <2>1. queue' = queue \/ \E r \in Queues : CleanupAfterRun(Main, r)
    BY <1>4
    DEF MainStep, AddPacketToInputStream, AddPacket, WaitUntilGraphInputStreamUnthrottled,
        AddedPacketToGraphInputStream, WaitUntilIdle, ObservedIdle, CloseInputStreams,
        ClosedAllGraphInputStreams, WaitUntilDone, FinishRun, Start, SetQueuesRunning,
        CleanupQueue, Reset, queueVars
  <2> QED
    BY <2>1 DEF CleanupAfterRun, QueueTypeOK
<1>5. ASSUME NEW t \in Control, ControlStep(t) \/ Resume(t) \/ CloseAllSourceNodes(t)
      PROVE  queue' = queue
  BY <1>5
  DEF ControlStep, Pause, Cancel, ExhaustQueues, Resume, CloseAllPacketSources,
      CloseAllSourceNodes, SetQueuesRunning, SubmitWaitingTasksOnQueues, queueVars
<1>6. CASE UNCHANGED vars
  BY <1>6 DEF vars, queueVars
<1>7. ASSUME NEW t \in Threads, NEW r \in Queues, RunNextTask(t, r)
      PROVE  queue'[q] \subseteq queue[q]
  BY <1>7 DEF RunNextTask, QueueTypeOK
<1> QED
  BY <1>1, <1>2, <1>3, <1>4, <1>5, <1>6, <1>7, QueueAssumption DEF Next

LEMMA OnlyFinishRunEnds ==
  ASSUME SchedInv, [Next]_vars, pc[Main] # "done", pc'[Main] = "done"
  PROVE  FinishRun
<1> ControlInv /\ Main \in Threads /\ Main \notin Workers /\ Main # Idler
  BY SchedulerAssumption DEF SchedInv
<1>1. ASSUME NEW t \in Threads, QueueStep(t) PROVE pc'[Main] = pc[Main]
  BY <1>1, QueueStepQuiet DEF ControlInv, Quiet
<1>2. ASSUME NEW t \in Workers, WorkerStep(t) \/ NodeError(t) PROVE pc'[Main] = pc[Main]
  BY <1>2, WorkerStepQuiet DEF ControlInv, Quiet
<1>3. CASE IdlerStep
  BY <1>3
  DEF IdlerStep, IdleLoopEnds, LayerBlocked, TakeNextLayer, ActivateNode, LayerScheduled,
      IdleUnthrottles, CollectFullStreams, GrowFullStream, StreamsGrown, Quit,
      StopQueuesForLayer, RestartQueuesForLayer, threadVars
<1>4. ASSUME NEW t \in Control, ControlStep(t) \/ Resume(t) \/ CloseAllSourceNodes(t)
      PROVE  pc'[Main] = pc[Main]
  BY <1>4, SchedulerAssumption
  DEF ControlStep, Pause, Cancel, Resume, CloseAllPacketSources, CloseAllSourceNodes,
      ControlInv, threadVars
<1>5. CASE UNCHANGED vars
  BY <1>5 DEF vars, threadVars
<1>6. CASE MainStep
  BY <1>6
  DEF MainStep, AddPacketToInputStream, AddPacket, WaitUntilGraphInputStreamUnthrottled,
      AddedPacketToGraphInputStream, WaitUntilIdle, ObservedIdle, CloseInputStreams,
      ClosedAllGraphInputStreams, WaitUntilDone, Start, CleanupQueue, Reset, ControlInv,
      threadVars
<1> QED
  BY <1>1, <1>2, <1>3, <1>4, <1>5, <1>6 DEF Next

(* A task is only taken from the executor.                                 *)
LEMMA OnlyTakenTasksRun ==
  ASSUME QueueTypeOK, [QueueNext]_queueVars, \A q \in Queues : executor[q] = 0,
         NEW t \in Threads
  PROVE  run'[t] \in {run[t], NoItem}
<1>1. ASSUME NEW u \in Threads, NEW q \in Queues, RunNextTask(u, q) PROVE FALSE
  BY <1>1 DEF RunNextTask
<1>2. ASSUME NEW u \in Threads, EndTask(u) PROVE run'[t] \in {run[t], NoItem}
  BY <1>2 DEF EndTask, QueueTypeOK
<1>3. ASSUME NEW u \in Threads,
             \/ \E i \in Items : AddItemToQueue(u, i)
             \/ BecomeActive(u) \/ AddTask(u)
             \/ SetQueuesRunning(u, TRUE) \/ SetQueuesRunning(u, FALSE)
             \/ SubmitWaitingTasksOnQueues(u) \/ BecomeIdle(u)
             \/ \E q \in Queues : SubmitWaitingTasks(u, q) \/ CleanupAfterRun(u, q)
      PROVE  run' = run
  BY <1>3
  DEF AddItemToQueue, BecomeActive, AddTask, SetQueuesRunning, SubmitWaitingTasksOnQueues,
      BecomeIdle, SubmitWaitingTasks, CleanupAfterRun
<1>4. CASE UNCHANGED queueVars
  BY <1>4 DEF queueVars
<1> QED
  BY <1>1, <1>2, <1>3, <1>4 DEF QueueNext

(* Reset finds all counters of the queues at 0.                            *)
LEMMA ResetStutters ==
  ASSUME RunsInv, Reset
  PROVE  UNCHANGED queueVars
<1> QueueTypeOK /\ ControlInv
  BY DEF RunsInv, SchedInv, QueueIInv
<1>1. idler # "activate" /\ state = "TERMINATED" /\ pc[Main] = "done"
  BY DEF Reset, ControlInv, MainKnowsState, IdlerActsInRun
<1>2. \A q \in Queues : num_pending_tasks[q] = 0
  BY <1>1 DEF RunsInv, DoneMeansIdle, IsIdle
<1>3. \A q \in Queues : num_tasks_to_add[q] = 0
  BY <1>1, IdleQueue DEF RunsInv, DoneMeansIdle
<1>4. \A q \in Queues : running_count[q] = 0
  BY <1>1 DEF ControlInv, RunningCountMatchesState
<1>5. num_pending_tasks' = num_pending_tasks
  BY <1>2 DEF Reset, QueueTypeOK
<1>6. num_tasks_to_add' = num_tasks_to_add
  BY <1>3 DEF Reset, QueueTypeOK
<1>7. running_count' = running_count
  BY <1>4 DEF Reset, QueueTypeOK
<1> QED
  BY <1>5, <1>6, <1>7 DEF Reset, queueVars

LEMMA StepOfRunsImplements ==
  ASSUME RunsInv, [Next]_vars
  PROVE  [QueueNext]_queueVars
<1>1. CASE Reset
  BY <1>1, ResetStutters
<1>2. CASE ~Reset
  BY <1>2, StepOfRunImplements DEF RunsInv
<1> QED
  BY <1>1, <1>2

LEMMA RunsInvInductive ==
  ASSUME RunsInv, [Next]_vars
  PROVE  RunsInv'
<1>1. SchedInv'
  BY SchedInvInductive DEF RunsInv
<1>2. QueueIInv'
  BY StepOfRunsImplements, NextPreserves DEF RunsInv
<1>3. DoneMeansIdle'
  <2> SUFFICES ASSUME pc'[Main] = "done", NEW q \in Queues PROVE IsIdle(q)'
    BY DEF DoneMeansIdle
  <2>1. CASE pc[Main] = "done"
    <3>1. \A t \in Threads : frames[t] = <<>> /\ run[t] = NoItem
      BY <2>1, NobodyPushesWhenDone
    <3>2. \A t \in Threads : ~Push(t)
      BY <3>1 DEF Push, Scheduling
    <3>3. \A r \in Queues : IsIdle(r)
      BY <2>1 DEF RunsInv, DoneMeansIdle
    <3>4. queue'[q] = {}
      BY <3>2, <3>3, OnlyPushAdds DEF RunsInv, QueueIInv, IsIdle
    <3>5. \A t \in Threads : run'[t] \in {run[t], NoItem}
      <4>1. \A r \in Queues : executor[r] = 0
        BY <3>3, IdleQueue DEF RunsInv
      <4> QED
        BY <4>1, StepOfRunsImplements, OnlyTakenTasksRun DEF RunsInv, QueueIInv
    <3>6. Running(q)' = {}
      <4>1. Running(q) = {}
        BY <3>3, IdleQueue DEF RunsInv
      <4> QED
        BY <3>5, <4>1 DEF Running
    <3>7. num_pending_tasks'[q] = 0
      <4>1. /\ Cardinality(InHand(q))' \in Nat /\ executor'[q] \in Nat
            /\ num_tasks_to_add'[q] \in Nat
        BY <1>2, FS_CardinalityType DEF QueueIInv, QueueTypeOK, AllFinite
      <4>2. Cardinality(queue'[q]) = 0 /\ Cardinality(Running(q))' = 0
        BY <3>4, <3>6, FS_EmptySet
      <4>3. 0 = num_tasks_to_add'[q] + Cardinality(InHand(q))' + executor'[q]
        BY <1>2, <4>2 DEF QueueIInv, TaskAccounting
      <4>4. num_pending_tasks'[q] = Cardinality(InHand(q))' + executor'[q] + 0
        BY <1>2, <4>2 DEF QueueIInv, PendingAccounting
      <4> QED
        BY <4>1, <4>3, <4>4
    <3> QED
      BY <3>4, <3>7 DEF IsIdle
  <2>2. CASE pc[Main] # "done"
    <3>1. FinishRun
      BY <2>2, OnlyFinishRunEnds DEF RunsInv
    <3> QED
      BY <3>1 DEF FinishRun, IsIdle, queueVars
  <2> QED
    BY <2>1, <2>2
<1> QED
  BY <1>1, <1>2, <1>3 DEF RunsInv

LEMMA RunsInvInit == Init => RunsInv
<1>1. Init => SchedInv
  BY SchedInvInit
<1>2. Init => QueueIInv
  BY InitImplements, InitEstablishes
<1>3. Init => DoneMeansIdle
  BY SchedulerAssumption DEF Init, DoneMeansIdle
<1> QED
  BY <1>1, <1>2, <1>3 DEF RunsInv

(* The scheduler calls its queues only as SchedulerQueue.tla allows, over  *)
(* any number of runs: threads add items only while they hold a task or    *)
(* none is asked of them, running_count_ never leaves its range, and       *)
(* Scheduler::Reset finds the queues as it leaves them once a run has been *)
(* cleaned up, even if Cancel has ended it with a task pending.            *)
THEOREM SchedulerImplementsQueues == Spec => QueueSpec
<1>1. Init => RunsInv
  BY RunsInvInit
<1>2. RunsInv /\ [Next]_vars => RunsInv'
  BY RunsInvInductive
<1>3. RunsInv /\ [Next]_vars => [QueueNext]_queueVars
  BY StepOfRunsImplements
<1> QED
  BY <1>1, <1>2, <1>3, InitImplements, PTL DEF Spec, QueueSpec

(* So the CHECKs of the queues hold in the running scheduler: no task      *)
(* finds its queue empty and no item is stranded in a running queue.       *)
THEOREM QueuesOfSchedulerSound == Spec => []QueueSound /\ []NoStrandedTask
<1> QED
  BY SchedulerImplementsQueues, QueueIsSound, NoTaskIsStranded, PTL

-----------------------------------------------------------------------------
(***************************************************************************)
(* Where a node is scheduled.  An invocation, or the opening, of a node is *)
(* in one place at a time: a frame of a thread that is about to queue it,  *)
(* a queue, or a thread that runs its task.                                *)
(***************************************************************************)
InSeq(F, f) == \E k \in DOMAIN f : f[k] \in F
Once(F, f) == \A j, k \in DOMAIN f : f[j] \in F /\ f[k] \in F => j = k

Holds(t, F) == InSeq(F, frames[t])

Spots == (Threads \X {"frame", "task"}) \cup (Queues \X {"queue"})

(* The frames in F or the item i are at spot x; a task counts while its    *)
(* thread is at one of the places in L.                                    *)
At(x, F, i, L) ==
  \/ x[2] = "frame" /\ Holds(x[1], F)
  \/ x[2] = "queue" /\ i \in queue[x[1]]
  \/ x[2] = "task" /\ run[x[1]] = i /\ pc[x[1]] \in L

AtOneSpot(F, i, L) ==
  /\ \A x, y \in Spots : At(x, F, i, L) /\ At(y, F, i, L) => x = y
  /\ \A t \in Threads : Once(F, frames[t])

LEMMA SpotsEqual ==
  ASSUME NEW x \in Spots, NEW y \in Spots, x[1] = y[1], x[2] = y[2]
  PROVE  x = y
BY DEF Spots

LEMMA TailElements ==
  ASSUME NEW S, NEW f \in Seq(S), f # <<>>
  PROVE  /\ Tail(f) \in Seq(S) /\ f[1] = Head(f) /\ 1 \in DOMAIN f
         /\ \A k \in DOMAIN Tail(f) : k + 1 \in DOMAIN f /\ Tail(f)[k] = f[k + 1]
         /\ \A k \in DOMAIN f : k = 1 \/ (k - 1 \in DOMAIN Tail(f) /\ f[k] = Tail(f)[k - 1])
OBVIOUS

LEMMA JoinElements ==
  ASSUME NEW S, NEW s \in Seq(S), NEW g \in Seq(S)
  PROVE  /\ s \o g \in Seq(S)
         /\ \A k \in DOMAIN s : k \in DOMAIN (s \o g) /\ (s \o g)[k] = s[k]
         /\ \A k \in DOMAIN g : Len(s) + k \in DOMAIN (s \o g) /\ (s \o g)[Len(s) + k] = g[k]
         /\ \A k \in DOMAIN (s \o g) :
              \/ k \in DOMAIN s /\ (s \o g)[k] = s[k]
              \/ k - Len(s) \in DOMAIN g /\ (s \o g)[k] = g[k - Len(s)]
OBVIOUS

(* What a sequence holds once its head is replaced by s.                   *)
LEMMA ReplacedHead ==
  ASSUME NEW f \in Seq(AllFrames), f # <<>>, NEW s \in Seq(AllFrames), NEW F
  PROVE  /\ InSeq(F, s \o Tail(f)) => InSeq(F, s) \/ InSeq(F, Tail(f))
         /\ InSeq(F, s) => InSeq(F, s \o Tail(f))
         /\ InSeq(F, Tail(f)) => InSeq(F, s \o Tail(f))
         /\ InSeq(F, Tail(f)) => InSeq(F, f)
         /\ InSeq(F, f) => Head(f) \in F \/ InSeq(F, Tail(f))
         /\ Head(f) \in F => InSeq(F, f)
         /\ Once(F, f) /\ Head(f) \in F => ~InSeq(F, Tail(f))
         /\ Once(F, f) => Once(F, Tail(f))
<1>1. /\ Tail(f) \in Seq(AllFrames) /\ f[1] = Head(f) /\ 1 \in DOMAIN f
      /\ \A k \in DOMAIN Tail(f) : k + 1 \in DOMAIN f /\ Tail(f)[k] = f[k + 1]
      /\ \A k \in DOMAIN f : k = 1 \/ (k - 1 \in DOMAIN Tail(f) /\ f[k] = Tail(f)[k - 1])
  BY TailElements
<1>2. /\ \A k \in DOMAIN s : k \in DOMAIN (s \o Tail(f)) /\ (s \o Tail(f))[k] = s[k]
      /\ \A k \in DOMAIN Tail(f) : /\ Len(s) + k \in DOMAIN (s \o Tail(f))
                                   /\ (s \o Tail(f))[Len(s) + k] = Tail(f)[k]
      /\ \A k \in DOMAIN (s \o Tail(f)) :
           \/ k \in DOMAIN s /\ (s \o Tail(f))[k] = s[k]
           \/ k - Len(s) \in DOMAIN Tail(f) /\ (s \o Tail(f))[k] = Tail(f)[k - Len(s)]
  BY <1>1, JoinElements
<1>3. \A k \in DOMAIN Tail(f) : k \in Int /\ k >= 1
  BY <1>1
<1> DEFINE g == Tail(f)
           h == s \o g
<1> HIDE DEF g, h
<1>4. InSeq(F, h) => InSeq(F, s) \/ InSeq(F, g)
  BY <1>2 DEF InSeq, g, h
<1>5. (InSeq(F, s) => InSeq(F, h)) /\ (InSeq(F, g) => InSeq(F, h))
  BY <1>2 DEF InSeq, g, h
<1>6. /\ InSeq(F, g) => InSeq(F, f)
      /\ InSeq(F, f) => Head(f) \in F \/ InSeq(F, g)
      /\ Head(f) \in F => InSeq(F, f)
  BY <1>1 DEF InSeq, g
<1>7. Once(F, f) /\ Head(f) \in F => ~InSeq(F, g)
  BY <1>1, <1>3 DEF InSeq, Once, g
<1>8. Once(F, f) => Once(F, g)
  BY <1>1, <1>3 DEF Once, g
<1> QED
  BY <1>4, <1>5, <1>6, <1>7, <1>8 DEF g, h

(* Frames that are listed once in s, or not at all, are listed once after  *)
(* s has replaced the head that was one of them.                           *)
LEMMA ReplacedOnce ==
  ASSUME NEW f \in Seq(AllFrames), f # <<>>, NEW s \in Seq(AllFrames), NEW F,
         Once(F, f), Once(F, s), ~InSeq(F, s) \/ ~InSeq(F, Tail(f))
  PROVE  Once(F, s \o Tail(f))
<1>1. Tail(f) \in Seq(AllFrames) /\ Once(F, Tail(f))
  BY ReplacedHead
<1> DEFINE g == Tail(f)
           h == s \o g
<1>2. \A k \in DOMAIN h :
        \/ k \in DOMAIN s /\ h[k] = s[k]
        \/ k - Len(s) \in DOMAIN g /\ h[k] = g[k - Len(s)]
  BY <1>1, JoinElements
<1>3. DOMAIN h \subseteq Int /\ Len(s) \in Int
  BY <1>1
<1> HIDE DEF g, h
<1> SUFFICES ASSUME NEW j \in DOMAIN h, NEW k \in DOMAIN h, h[j] \in F, h[k] \in F
             PROVE  j = k
  BY DEF Once, g, h
<1>4. j \in Int /\ k \in Int
  BY <1>3
<1>5. CASE ~InSeq(F, s)
  <2>1. /\ j - Len(s) \in DOMAIN g /\ g[j - Len(s)] \in F
        /\ k - Len(s) \in DOMAIN g /\ g[k - Len(s)] \in F
    BY <1>2, <1>5 DEF InSeq
  <2>2. j - Len(s) = k - Len(s)
    BY <1>1, <2>1 DEF Once, g
  <2> QED
    BY <1>3, <1>4, <2>2
<1>6. CASE ~InSeq(F, Tail(f))
  BY <1>2, <1>6 DEF InSeq, Once, g
<1> QED
  BY <1>5, <1>6

(* Pop is a replacement by nothing.                                        *)
LEMMA PopReplaces ==
  ASSUME FramesTyped, NEW t \in Threads, frames[t] # <<>>, Pop(t)
  PROVE  /\ frames' = [frames EXCEPT ![t] = <<>> \o Tail(frames[t])]
         /\ <<>> \in Seq(AllFrames)
<1>1. Tail(frames[t]) \in Seq(AllFrames)
  BY TailElements DEF FramesTyped
<1>2. <<>> \o Tail(frames[t]) = Tail(frames[t])
  BY <1>1
<1> QED
  BY <1>2, EmptySeqType DEF Pop

LEMMA EmptySeqHolds == \A F : ~InSeq(F, <<>>) /\ Once(F, <<>>)
BY DEF InSeq, Once

LEMMA OneFrameHolds ==
  ASSUME NEW x
  PROVE  \A F : (InSeq(F, <<x>>) <=> x \in F) /\ Once(F, <<x>>)
BY DEF InSeq, Once

(* SetToSeq lists every element once.                                      *)
LEMMA SetToSeqLists ==
  ASSUME NEW S, IsFiniteSet(S), NEW F
  PROVE  /\ InSeq(F, SetToSeq(S)) <=> \E x \in S : x \in F
         /\ (\A x, y \in S : x \in F /\ y \in F => x = y) => Once(F, SetToSeq(S))
<1> DEFINE D == 1 .. Cardinality(S)
           f == SetToSeq(S)
<1>1. Cardinality(S) \in Nat /\ ExistsBijection(D, S)
  BY FS_CardinalityType
<1>2. \E g \in [D -> S] : IsInjective(g)
  BY <1>1 DEF ExistsBijection, Bijection, Injection
<1>3. f \in [D -> S] /\ IsInjective(f)
  BY <1>2 DEF SetToSeq
<1>4. IsFiniteSet(D) /\ Cardinality(D) = Cardinality(S)
  BY <1>1, FS_Interval
<1> HIDE DEF D, f
<1>5. f \in Injection(D, S)
  BY <1>3 DEF Injection
<1>6. f \in Surjection(D, S)
  BY <1>4, <1>5, FS_Injection
<1>7. InSeq(F, f) <=> \E x \in S : x \in F
  BY <1>3, <1>6 DEF InSeq, Surjection
<1>8. (\A x, y \in S : x \in F /\ y \in F => x = y) => Once(F, f)
  BY <1>3 DEF Once, IsInjective
<1> QED
  BY <1>7, <1>8 DEF f

(* What a sequence holds, and lists once, of two parts.                    *)
LEMMA JoinHolds ==
  ASSUME NEW s \in Seq(AllFrames), NEW g \in Seq(AllFrames), NEW F
  PROVE  /\ InSeq(F, s \o g) <=> InSeq(F, s) \/ InSeq(F, g)
         /\ Once(F, s) /\ Once(F, g) /\ ~(InSeq(F, s) /\ InSeq(F, g)) => Once(F, s \o g)
<1> DEFINE h == s \o g
<1>1. /\ \A k \in DOMAIN s : k \in DOMAIN h /\ h[k] = s[k]
      /\ \A k \in DOMAIN g : Len(s) + k \in DOMAIN h /\ h[Len(s) + k] = g[k]
      /\ \A k \in DOMAIN h :
           \/ k \in DOMAIN s /\ h[k] = s[k]
           \/ k - Len(s) \in DOMAIN g /\ h[k] = g[k - Len(s)]
  BY JoinElements
<1>2. DOMAIN h \subseteq Int /\ Len(s) \in Int
  OBVIOUS
<1> HIDE DEF h
<1>3. InSeq(F, h) <=> InSeq(F, s) \/ InSeq(F, g)
  BY <1>1 DEF InSeq
<1>4. ASSUME Once(F, s), Once(F, g), ~(InSeq(F, s) /\ InSeq(F, g)) PROVE Once(F, h)
  <2> SUFFICES ASSUME NEW j \in DOMAIN h, NEW k \in DOMAIN h, h[j] \in F, h[k] \in F
               PROVE  j = k
    BY DEF Once
  <2>1. j \in Int /\ k \in Int
    BY <1>2
  <2>2. CASE ~InSeq(F, s)
    <3>1. /\ j - Len(s) \in DOMAIN g /\ g[j - Len(s)] \in F
          /\ k - Len(s) \in DOMAIN g /\ g[k - Len(s)] \in F
      BY <1>1, <2>2 DEF InSeq
    <3>2. j - Len(s) = k - Len(s)
      BY <1>4, <3>1 DEF Once
    <3> QED
      BY <1>2, <2>1, <3>2
  <2>3. CASE ~InSeq(F, g)
    BY <1>1, <1>4, <2>3 DEF InSeq, Once
  <2> QED
    BY <1>4, <2>2, <2>3
<1> QED
  BY <1>3, <1>4 DEF h

-----------------------------------------------------------------------------
(* Where the frames and the item of a node may move in a step.             *)
LEMMA OneSpotKept ==
  ASSUME NEW F, NEW i, NEW L, AtOneSpot(F, i, L),
         \A x \in Spots : At(x, F, i, L)' => At(x, F, i, L),
         \A t \in Threads : Once(F, frames[t])'
  PROVE  AtOneSpot(F, i, L)'
<1>1. \A x, y \in Spots : At(x, F, i, L)' /\ At(y, F, i, L)' => x = y
  BY DEF AtOneSpot
<1> QED
  BY <1>1 DEF AtOneSpot

LEMMA OneSpotNew ==
  ASSUME NEW F, NEW i, NEW L, NEW y \in Spots,
         \A x \in Spots : At(x, F, i, L)' => x[1] = y[1] /\ x[2] = y[2],
         \A t \in Threads : Once(F, frames[t])'
  PROVE  AtOneSpot(F, i, L)'
<1>1. \A x \in Spots : At(x, F, i, L)' => x = y
  BY SpotsEqual
<1> QED
  BY <1>1 DEF AtOneSpot

(* t calls the functions in s before it goes on.                           *)
Replaced(t, s) ==
  /\ t \in Threads /\ s \in Seq(AllFrames) /\ frames[t] # <<>>
  /\ frames' = [frames EXCEPT ![t] = s \o Tail(frames[t])]

Replaces(t, s) == Replaced(t, s) /\ UNCHANGED <<queue, run, pc>>

(* A thread that had nothing to schedule gets the frames in s.             *)
Gets(t, s) ==
  /\ t \in Threads /\ s \in Seq(AllFrames) /\ frames[t] = <<>>
  /\ frames' = [frames EXCEPT ![t] = s]

LEMMA HoldsAfterReplace ==
  ASSUME FramesTyped, NEW t, NEW s, Replaced(t, s), NEW F
  PROVE  /\ \A u \in Threads : u # t => frames'[u] = frames[u]
         /\ frames'[t] = s \o Tail(frames[t])
         /\ \A u \in Threads : Holds(u, F)' =>
              \/ Holds(u, F) /\ (u = t => InSeq(F, Tail(frames[t])))
              \/ u = t /\ InSeq(F, s)
         /\ Holds(t, F)' <=> InSeq(F, s) \/ InSeq(F, Tail(frames[t]))
         /\ Head(frames[t]) \in F => Holds(t, F)
         /\ Holds(t, F) => Head(frames[t]) \in F \/ InSeq(F, Tail(frames[t]))
<1>1. frames[t] \in Seq(AllFrames) /\ frames[t] # <<>> /\ s \in Seq(AllFrames)
  BY DEF Replaced, FramesTyped
<1>2. /\ \A u \in Threads : u # t => frames'[u] = frames[u]
      /\ frames'[t] = s \o Tail(frames[t])
  BY DEF Replaced, FramesTyped
<1>3. \A u \in Threads : u # t => (Holds(u, F)' <=> Holds(u, F))
  BY <1>2 DEF Holds
<1>4. Holds(t, F)' <=> InSeq(F, s \o Tail(frames[t]))
  BY <1>2 DEF Holds
<1>5. /\ InSeq(F, s \o Tail(frames[t])) => InSeq(F, s) \/ InSeq(F, Tail(frames[t]))
      /\ InSeq(F, s) => InSeq(F, s \o Tail(frames[t]))
      /\ InSeq(F, Tail(frames[t])) => InSeq(F, s \o Tail(frames[t]))
      /\ InSeq(F, Tail(frames[t])) => InSeq(F, frames[t])
      /\ InSeq(F, frames[t]) => Head(frames[t]) \in F \/ InSeq(F, Tail(frames[t]))
      /\ Head(frames[t]) \in F => InSeq(F, frames[t])
  BY <1>1, ReplacedHead
<1>6. Holds(t, F) <=> InSeq(F, frames[t])
  BY DEF Holds
<1> QED
  BY <1>2, <1>3, <1>4, <1>5, <1>6

LEMMA HoldsAfterGet ==
  ASSUME FramesTyped, NEW t, NEW s, Gets(t, s), NEW F
  PROVE  /\ \A u \in Threads : u # t => frames'[u] = frames[u]
         /\ frames'[t] = s
         /\ \A u \in Threads : u # t => (Holds(u, F)' <=> Holds(u, F))
         /\ Holds(t, F)' <=> InSeq(F, s)
         /\ ~Holds(t, F)
<1>1. /\ \A u \in Threads : u # t => frames'[u] = frames[u]
      /\ frames'[t] = s
  BY DEF Gets, FramesTyped
<1>2. ~InSeq(F, frames[t])
  BY EmptySeqHolds DEF Gets
<1> QED
  BY <1>1, <1>2 DEF Holds

(* Frames stay where they are, or go from the head into s.                 *)
LEMMA ReplaceKeepsSpots ==
  ASSUME FramesTyped, NEW t, NEW s, Replaces(t, s), NEW F, NEW i, NEW L,
         InSeq(F, s) => Head(frames[t]) \in F
  PROVE  \A x \in Spots : At(x, F, i, L)' => At(x, F, i, L)
<1>1. \A u \in Threads : Holds(u, F)' => Holds(u, F)
  BY HoldsAfterReplace DEF Replaces
<1> QED
  BY <1>1 DEF At, Spots, Replaces

LEMMA ReplaceKeepsOnce ==
  ASSUME FramesTyped, NEW t, NEW s, Replaced(t, s), NEW F,
         \A u \in Threads : Once(F, frames[u]), Once(F, s),
         InSeq(F, s) => Head(frames[t]) \in F \/ ~Holds(t, F)
  PROVE  \A u \in Threads : Once(F, frames[u])'
<1>1. frames[t] \in Seq(AllFrames) /\ frames[t] # <<>> /\ s \in Seq(AllFrames) /\ t \in Threads
  BY DEF Replaced, FramesTyped
<1>2. Once(F, frames[t])
  BY <1>1
<1>3. ~InSeq(F, s) \/ ~InSeq(F, Tail(frames[t]))
  BY <1>1, <1>2, ReplacedHead DEF Holds
<1>4. Once(F, s \o Tail(frames[t]))
  BY <1>1, <1>2, <1>3, ReplacedOnce
<1>5. /\ \A u \in Threads : u # t => frames'[u] = frames[u]
      /\ frames'[t] = s \o Tail(frames[t])
  BY HoldsAfterReplace
<1> QED
  BY <1>4, <1>5

(* A frame that is dropped was the only one.                               *)
LEMMA DroppedHead ==
  ASSUME FramesTyped, NEW t, NEW s, Replaces(t, s), NEW F, NEW i, NEW L,
         AtOneSpot(F, i, L), Head(frames[t]) \in F, ~InSeq(F, s)
  PROVE  \A x \in Spots : ~At(x, F, i, L)'
<1>1. frames[t] \in Seq(AllFrames) /\ frames[t] # <<>> /\ s \in Seq(AllFrames) /\ t \in Threads
  BY DEF Replaces, Replaced, FramesTyped
<1>2. Once(F, frames[t])
  BY <1>1 DEF AtOneSpot
<1>3. ~InSeq(F, Tail(frames[t]))
  BY <1>1, <1>2, ReplacedHead
<1>4. ~Holds(t, F)' /\ Holds(t, F) /\ \A u \in Threads : Holds(u, F)' => Holds(u, F)
  BY <1>3, HoldsAfterReplace DEF Replaces
<1> DEFINE y == <<t, "frame">>
<1>5. y \in Spots /\ y[1] = t /\ y[2] = "frame" /\ At(y, F, i, L)
  BY <1>1, <1>4 DEF Spots, At
<1>6. \A x \in Spots : At(x, F, i, L)' => At(x, F, i, L)
  BY <1>4 DEF At, Spots, Replaces
<1>7. \A x \in Spots : At(x, F, i, L)' => x = y
  BY <1>5, <1>6 DEF AtOneSpot
<1>8. ~At(y, F, i, L)'
  BY <1>4, <1>5 DEF At
<1> HIDE DEF y
<1> QED
  BY <1>7, <1>8

-----------------------------------------------------------------------------
(* The frames of some kinds for a node.                                    *)
FramesFor(K, n) == [kind : K, node : {n}]

LEMMA InFramesFor ==
  ASSUME NEW f \in AllFrames, NEW K, NEW n
  PROVE  f \in FramesFor(K, n) <=> f.kind \in K /\ f.node = n
BY DEF FramesFor, AllFrames, NodeFrames, StreamFrames

LEMMA FrameIn ==
  ASSUME NEW K, NEW n, NEW k, NEW m
  PROVE  Frame(k, m) \in FramesFor(K, n) <=> k \in K /\ m = n
BY DEF Frame, FramesFor

LEMMA NodeFrame == \A k \in NodeKinds, m \in Nodes : Frame(k, m) \in AllFrames
BY DEF Frame, AllFrames, NodeFrames

LEMMA StreamFrame == \A k \in {"throttle", "resize"}, p \in Producers : Frame(k, p) \in AllFrames
BY DEF Frame, AllFrames, StreamFrames

LEMMA OneFrame ==
  ASSUME NEW K, NEW n, NEW k, NEW m
  PROVE  /\ InSeq(FramesFor(K, n), <<Frame(k, m)>>) <=> k \in K /\ m = n
         /\ Once(FramesFor(K, n), <<Frame(k, m)>>)
BY OneFrameHolds, FrameIn

(* The openings of the nodes in S.                                         *)
LEMMA OpeningFrames ==
  ASSUME NEW S \in SUBSET Nodes, NEW K, NEW n
  PROVE  /\ OpenFrames(S) \in Seq(AllFrames)
         /\ InSeq(FramesFor(K, n), OpenFrames(S)) => "open" \in K /\ n \in S
         /\ Once(FramesFor(K, n), OpenFrames(S))
<1> DEFINE F == FramesFor(K, n)
           T == {Frame("open", m) : m \in S}
<1>0. IsFiniteSet(S)
  BY FS_Subset, SchedulerAssumption
<1>1. IsFiniteSet(T)
  BY <1>0, FiniteFrames
<1>2. \A x \in T : x \in F => "open" \in K /\ n \in S
  BY FrameIn
<1>3. \A x, y \in T : x \in F /\ y \in F => x = y
  BY FrameIn
<1>4. OpenFrames(S) = SetToSeq(T)
  BY DEF OpenFrames
<1> HIDE DEF F, T
<1>5. InSeq(F, SetToSeq(T)) => "open" \in K /\ n \in S
  BY <1>1, <1>2, SetToSeqLists
<1>6. Once(F, SetToSeq(T))
  BY <1>1, <1>3, SetToSeqLists
<1> QED
  BY <1>4, <1>5, <1>6, FramesOfNodes DEF F

LEMMA ThrottleFrames ==
  ASSUME NEW S \in SUBSET Producers, NEW K, NEW n, "throttle" \notin K
  PROVE  /\ ~InSeq(FramesFor(K, n), SetToSeq({Frame("throttle", p) : p \in S}))
         /\ Once(FramesFor(K, n), SetToSeq({Frame("throttle", p) : p \in S}))
         /\ SetToSeq({Frame("throttle", p) : p \in S}) \in Seq(AllFrames)
<1> DEFINE F == FramesFor(K, n)
           T == {Frame("throttle", p) : p \in S}
<1>1. IsFiniteSet(T)
  BY FS_Subset, FiniteProducers, FiniteFrames
<1>2. \A x \in T : x \notin F
  BY FrameIn
<1> HIDE DEF F, T
<1>3. ~InSeq(F, SetToSeq(T)) /\ Once(F, SetToSeq(T))
  BY <1>1, <1>2, SetToSeqLists
<1> QED
  BY <1>3, FramesOfStreams DEF F, T

(* What a packet or the end of a stream is followed by: throttling and the *)
(* readiness of a node with inputs.                                        *)
LEMMA AfterPacketFrames ==
  ASSUME NEW p \in Producers, NEW K, NEW n, "throttle" \notin K,
         "ready" \notin K \/ n \notin Sinks
  PROVE  /\ ~InSeq(FramesFor(K, n), AfterAdd(p)) /\ Once(FramesFor(K, n), AfterAdd(p))
         /\ ~InSeq(FramesFor(K, n), AfterClose(p)) /\ Once(FramesFor(K, n), AfterClose(p))
<1> DEFINE F == FramesFor(K, n)
<1>1. Dest[p] \in Sinks /\ Dest[p] \in Nodes
  BY SchedulerAssumption DEF Nodes
<1>2. Frame("throttle", p) \notin F /\ Frame("ready", Dest[p]) \notin F
  BY <1>1, FrameIn
<1>3. Frame("throttle", p) \in AllFrames /\ Frame("ready", Dest[p]) \in AllFrames
  BY <1>1, NodeFrame, StreamFrame DEF NodeKinds
<1> HIDE DEF F
<1> DEFINE a == IF ~IsFull(p) /\ pk[p] + 1 >= max_queue_size[p]
                THEN <<Frame("throttle", p)>> ELSE <<>>
           b == IF pk[p] = 0 THEN <<Frame("ready", Dest[p])>> ELSE <<>>
<1>4. a \in Seq(AllFrames) /\ b \in Seq(AllFrames)
  BY <1>3
<1>5. ~InSeq(F, a) /\ Once(F, a) /\ ~InSeq(F, b) /\ Once(F, b)
  BY <1>2, OneFrameHolds, EmptySeqHolds
<1>6. AfterAdd(p) = a \o b /\ AfterClose(p) = b
  BY DEF AfterAdd, AfterClose
<1> HIDE DEF a, b
<1>7. ~InSeq(F, a \o b) /\ Once(F, a \o b)
  BY <1>4, <1>5, JoinHolds
<1> QED
  BY <1>5, <1>6, <1>7 DEF F

LEMMA AfterClosingFrames ==
  ASSUME NEW S \in SUBSET GraphInputs, NEW K, NEW n, "ready" \notin K \/ n \notin Sinks
  PROVE  ~InSeq(FramesFor(K, n), AfterClosing(S)) /\ Once(FramesFor(K, n), AfterClosing(S))
<1> DEFINE E == {p \in S : pk[p] = 0}
           empty == SetToSeq(E)
           F == FramesFor(K, n)
<1>1. IsFiniteSet(E)
  BY FS_Subset, SchedulerAssumption
<1>2. empty \in Seq(E)
  BY <1>1, SetToSeqType
<1>3. \A k \in DOMAIN empty : empty[k] \in GraphInputs
  BY <1>2
<1>4. \A g \in GraphInputs : Frame("ready", Dest[g]) \notin F
  BY FrameIn, SchedulerAssumption DEF Producers
<1> HIDE DEF empty, F
<1>5. \A j \in DOMAIN [k \in DOMAIN empty |-> Frame("ready", Dest[empty[k]])] :
        [k \in DOMAIN empty |-> Frame("ready", Dest[empty[k]])][j] \notin F
  BY <1>3, <1>4
<1>6. AfterClosing(S) = [k \in DOMAIN empty |-> Frame("ready", Dest[empty[k]])]
  BY DEF AfterClosing, empty
<1> QED
  BY <1>5, <1>6 DEF InSeq, Once, F

-----------------------------------------------------------------------------
(***************************************************************************)
(* The invariant of a node: where it is scheduled, what its status is then *)
(* and whether its context is in flight.                                   *)
(***************************************************************************)
PF(n) == FramesFor({"commit", "push"}, n)
OF(n) == FramesFor({"open", "push_open", "opened"}, n)
RF(n) == FramesFor({"ready", "add"}, n)
AF(n) == FramesFor({"add"}, n)

InTask == {"run", "closing", "sched"}
BeforeClose == {"run", "closing"}
ToRun == {"run"}

(* The status of a node that can be scheduled.                             *)
Ready(n) == IF n \in Sources THEN "active" ELSE "opened"

(* A node whose invocation is scheduled, or runs, is in flight.            *)
ProcessInv(n) ==
  /\ AtOneSpot(PF(n), ProcessItem(n), InTask)
  /\ \A x \in Spots : At(x, PF(n), ProcessItem(n), InTask) =>
       n \in in_flight /\ status[n] \in {Ready(n), "closed"}
  /\ \A x \in Spots : At(x, PF(n), ProcessItem(n), BeforeClose) => status[n] = Ready(n)
  /\ Closed(n) => n \in in_flight

(* A node is opened once, when what it needs is there.                     *)
OpenInv(n) ==
  /\ AtOneSpot(OF(n), OpenItem(n), ToRun)
  /\ \A x \in Spots : At(x, OF(n), OpenItem(n), ToRun) => status[n] = "prepared"
  /\ (\E x \in Spots : At(x, OF(n), OpenItem(n), ToRun)) => n \in Openable(provided, headed)
  /\ status[n] # "prepared" => n \in Openable(provided, headed)

(* Only a source that has been activated may be added.                     *)
ReadyInv(n) ==
  /\ \A t \in Threads : Holds(t, RF(n)) => n \in Sinks \/ status[n] \in {"active", "closed"}
  /\ \A t \in Threads : Holds(t, AF(n)) => n \in Sources

NodeInv(n) == ProcessInv(n) /\ OpenInv(n) /\ ReadyInv(n)

(* Nothing comes to a new spot; what is listed once stays so.              *)
SpotsKept(F, i, L) ==
  /\ \A x \in Spots : At(x, F, i, L)' => At(x, F, i, L)
  /\ \A t \in Threads : Once(F, frames[t])'

TasksKept(i, L) ==
  \A u \in Threads : run'[u] = i /\ pc'[u] \in L => run[u] = i /\ pc[u] \in L

LEMMA ProcessKept ==
  ASSUME NEW n, ProcessInv(n),
         SpotsKept(PF(n), ProcessItem(n), InTask), SpotsKept(PF(n), ProcessItem(n), BeforeClose),
         status'[n] = status[n], n \in in_flight => n \in in_flight'
  PROVE  ProcessInv(n)'
<1>1. AtOneSpot(PF(n), ProcessItem(n), InTask)'
  BY OneSpotKept DEF ProcessInv, SpotsKept
<1> QED
  BY <1>1 DEF ProcessInv, SpotsKept, Closed

LEMMA OpenKept ==
  ASSUME NEW n, OpenInv(n), SpotsKept(OF(n), OpenItem(n), ToRun), status'[n] = status[n],
         n \in Openable(provided, headed) => n \in Openable(provided', headed')
  PROVE  OpenInv(n)'
<1>1. AtOneSpot(OF(n), OpenItem(n), ToRun)'
  BY OneSpotKept DEF OpenInv, SpotsKept
<1> QED
  BY <1>1 DEF OpenInv, SpotsKept

LEMMA ReadyKept ==
  ASSUME NEW n, ReadyInv(n),
         \A t \in Threads : Holds(t, RF(n))' =>
            \/ Holds(t, RF(n)) \/ n \in Sinks \/ status'[n] \in {"active", "closed"},
         \A t \in Threads : Holds(t, AF(n))' => Holds(t, AF(n)) \/ n \in Sources,
         status[n] \in {"active", "closed"} => status'[n] \in {"active", "closed"}
  PROVE  ReadyInv(n)'
BY DEF ReadyInv

-----------------------------------------------------------------------------
(* A thread that goes on with the frames in s.                             *)
LEMMA SpotsKeptByReplace ==
  ASSUME FramesTyped, NEW t, NEW s, Replaces(t, s), NEW F, NEW i, NEW L, NEW L0,
         AtOneSpot(F, i, L0), Once(F, s), InSeq(F, s) => Head(frames[t]) \in F
  PROVE  SpotsKept(F, i, L)
<1>1. \A u \in Threads : Once(F, frames[u])
  BY DEF AtOneSpot
<1> QED
  BY <1>1, ReplaceKeepsSpots, ReplaceKeepsOnce DEF SpotsKept, Replaces

LEMMA NodeKeptByReplace ==
  ASSUME FramesTyped, NEW t, NEW s, Replaces(t, s), NEW n, NodeInv(n), status'[n] = status[n]
  PROVE  /\ Once(PF(n), s) /\ (InSeq(PF(n), s) => Head(frames[t]) \in PF(n))
              /\ (n \in in_flight => n \in in_flight') => ProcessInv(n)'
         /\ Once(OF(n), s) /\ (InSeq(OF(n), s) => Head(frames[t]) \in OF(n))
              /\ UNCHANGED <<provided, headed>> => OpenInv(n)'
         /\ (InSeq(RF(n), s) =>
               Head(frames[t]) \in RF(n) \/ n \in Sinks \/ status[n] \in {"active", "closed"})
              /\ (InSeq(AF(n), s) => n \in Sources) => ReadyInv(n)'
<1> ProcessInv(n) /\ OpenInv(n) /\ ReadyInv(n)
  BY DEF NodeInv
<1>1. ASSUME Once(PF(n), s), InSeq(PF(n), s) => Head(frames[t]) \in PF(n),
             n \in in_flight => n \in in_flight'
      PROVE  ProcessInv(n)'
  <2>1. AtOneSpot(PF(n), ProcessItem(n), InTask)
    BY DEF ProcessInv
  <2>2. SpotsKept(PF(n), ProcessItem(n), InTask) /\ SpotsKept(PF(n), ProcessItem(n), BeforeClose)
    BY <1>1, <2>1, SpotsKeptByReplace
  <2> QED
    BY <1>1, <2>2, ProcessKept
<1>2. ASSUME Once(OF(n), s), InSeq(OF(n), s) => Head(frames[t]) \in OF(n),
             UNCHANGED <<provided, headed>>
      PROVE  OpenInv(n)'
  <2>1. AtOneSpot(OF(n), OpenItem(n), ToRun)
    BY DEF OpenInv
  <2>2. SpotsKept(OF(n), OpenItem(n), ToRun)
    BY <1>2, <2>1, SpotsKeptByReplace
  <2> QED
    BY <1>2, <2>2, OpenKept
<1>3. ASSUME InSeq(RF(n), s) =>
               Head(frames[t]) \in RF(n) \/ n \in Sinks \/ status[n] \in {"active", "closed"},
             InSeq(AF(n), s) => n \in Sources
      PROVE  ReadyInv(n)'
  <2>1. \A u \in Threads : Holds(u, RF(n))' => Holds(u, RF(n)) \/ (u = t /\ InSeq(RF(n), s))
    BY HoldsAfterReplace DEF Replaces
  <2>2. \A u \in Threads : Holds(u, AF(n))' => Holds(u, AF(n)) \/ InSeq(AF(n), s)
    BY HoldsAfterReplace DEF Replaces
  <2>3. Head(frames[t]) \in RF(n) => Holds(t, RF(n))
    BY HoldsAfterReplace DEF Replaces
  <2>4. t \in Threads
    BY DEF Replaces, Replaced
  <2>5. InSeq(RF(n), s) => n \in Sinks \/ status[n] \in {"active", "closed"}
    BY <1>3, <2>3, <2>4 DEF ReadyInv
  <2> QED
    BY <1>3, <2>1, <2>2, <2>5, ReadyKept
<1> QED
  BY <1>1, <1>2, <1>3

-----------------------------------------------------------------------------
(* A thread that had nothing to schedule and gets the frames in s, and a   *)
(* step that changes no frame.                                             *)
LEMMA SpotsKeptByGet ==
  ASSUME FramesTyped, NEW t, NEW s, Gets(t, s), NEW F, NEW i, NEW L, NEW L0,
         AtOneSpot(F, i, L0), queue' = queue, TasksKept(i, L), Once(F, s), ~InSeq(F, s)
  PROVE  SpotsKept(F, i, L)
<1>1. /\ \A u \in Threads : u # t => frames'[u] = frames[u]
      /\ frames'[t] = s
      /\ \A u \in Threads : u # t => (Holds(u, F)' <=> Holds(u, F))
      /\ ~Holds(t, F)'
  BY HoldsAfterGet
<1>2. \A u \in Threads : Once(F, frames[u])'
  BY <1>1 DEF AtOneSpot
<1>3. \A u \in Threads : Holds(u, F)' => Holds(u, F)
  BY <1>1
<1>4. \A x \in Spots : At(x, F, i, L)' => At(x, F, i, L)
  BY <1>3 DEF At, Spots, TasksKept
<1> QED
  BY <1>2, <1>4 DEF SpotsKept

LEMMA SpotsKeptQuietly ==
  ASSUME NEW F, NEW i, NEW L, NEW L0, AtOneSpot(F, i, L0), frames' = frames,
         \A q \in Queues : queue'[q] \subseteq queue[q], TasksKept(i, L)
  PROVE  SpotsKept(F, i, L)
BY DEF SpotsKept, AtOneSpot, At, Spots, TasksKept, Holds

(* The tasks of a node go on as they are.                                  *)
NodeTasksKept(n) ==
  /\ TasksKept(ProcessItem(n), InTask) /\ TasksKept(ProcessItem(n), BeforeClose)
  /\ TasksKept(OpenItem(n), ToRun)

LEMMA NodeKeptQuietly ==
  ASSUME NEW n, NodeInv(n), frames' = frames, NodeTasksKept(n),
         \A q \in Queues : queue'[q] \subseteq queue[q]
  PROVE  /\ status'[n] = status[n] /\ (n \in in_flight => n \in in_flight') => ProcessInv(n)'
         /\ status'[n] = status[n] /\ UNCHANGED <<provided, headed>> => OpenInv(n)'
         /\ (status[n] \in {"active", "closed"} => status'[n] \in {"active", "closed"})
              => ReadyInv(n)'
<1> ProcessInv(n) /\ OpenInv(n) /\ ReadyInv(n)
  BY DEF NodeInv
<1>1. /\ SpotsKept(PF(n), ProcessItem(n), InTask) /\ SpotsKept(PF(n), ProcessItem(n), BeforeClose)
      /\ SpotsKept(OF(n), OpenItem(n), ToRun)
  BY SpotsKeptQuietly DEF ProcessInv, OpenInv, NodeTasksKept
<1>2. ASSUME status'[n] = status[n], n \in in_flight => n \in in_flight' PROVE ProcessInv(n)'
  BY <1>1, <1>2, ProcessKept
<1>3. ASSUME status'[n] = status[n], UNCHANGED <<provided, headed>> PROVE OpenInv(n)'
  BY <1>1, <1>3, OpenKept
<1>4. ASSUME status[n] \in {"active", "closed"} => status'[n] \in {"active", "closed"}
      PROVE  ReadyInv(n)'
  BY <1>4, ReadyKept DEF Holds
<1> QED
  BY <1>2, <1>3, <1>4

LEMMA NodeKeptByGet ==
  ASSUME FramesTyped, NEW t, NEW s, Gets(t, s), NEW n, NodeInv(n), NodeTasksKept(n),
         queue' = queue, Once(PF(n), s), ~InSeq(PF(n), s)
  PROVE  /\ status'[n] = status[n] /\ (n \in in_flight => n \in in_flight') => ProcessInv(n)'
         /\ status'[n] = status[n] /\ Once(OF(n), s) /\ ~InSeq(OF(n), s)
              /\ (n \in Openable(provided, headed) => n \in Openable(provided', headed'))
              => OpenInv(n)'
         /\ (InSeq(RF(n), s) => n \in Sinks \/ status'[n] \in {"active", "closed"})
              /\ (InSeq(AF(n), s) => n \in Sources)
              /\ (status[n] \in {"active", "closed"} => status'[n] \in {"active", "closed"})
              => ReadyInv(n)'
<1> ProcessInv(n) /\ OpenInv(n) /\ ReadyInv(n)
  BY DEF NodeInv
<1>1. /\ SpotsKept(PF(n), ProcessItem(n), InTask) /\ SpotsKept(PF(n), ProcessItem(n), BeforeClose)
  BY SpotsKeptByGet DEF ProcessInv, NodeTasksKept
<1>2. ASSUME status'[n] = status[n], n \in in_flight => n \in in_flight' PROVE ProcessInv(n)'
  BY <1>1, <1>2, ProcessKept
<1>3. ASSUME status'[n] = status[n], Once(OF(n), s), ~InSeq(OF(n), s),
             n \in Openable(provided, headed) => n \in Openable(provided', headed')
      PROVE  OpenInv(n)'
  <2>1. SpotsKept(OF(n), OpenItem(n), ToRun)
    BY <1>3, SpotsKeptByGet DEF OpenInv, NodeTasksKept
  <2> QED
    BY <1>3, <2>1, OpenKept
<1>4. ASSUME InSeq(RF(n), s) => n \in Sinks \/ status'[n] \in {"active", "closed"},
             InSeq(AF(n), s) => n \in Sources,
             status[n] \in {"active", "closed"} => status'[n] \in {"active", "closed"}
      PROVE  ReadyInv(n)'
  <2>1. \A u \in Threads : Holds(u, RF(n))' => Holds(u, RF(n)) \/ InSeq(RF(n), s)
    BY HoldsAfterGet
  <2>2. \A u \in Threads : Holds(u, AF(n))' => Holds(u, AF(n)) \/ InSeq(AF(n), s)
    BY HoldsAfterGet
  <2> QED
    BY <1>4, <2>1, <2>2, ReadyKept
<1> QED
  BY <1>2, <1>3, <1>4

-----------------------------------------------------------------------------
(* Scheduling a node, frame by frame.                                      *)
LEMMA HeadIs ==
  ASSUME FramesTyped, NEW t \in Threads, NEW kind, Scheduling(t, kind), NEW K, NEW n
  PROVE  Head(frames[t]) \in FramesFor(K, n) <=> kind \in K /\ Head(frames[t]).node = n
<1>1. Head(frames[t]) \in AllFrames
  BY HeadOfFrames
<1> QED
  BY <1>1, InFramesFor DEF Scheduling

LEMMA ReplaceIs ==
  ASSUME FramesTyped, NEW t \in Threads, NEW kind, Scheduling(t, kind),
         NEW s \in Seq(AllFrames), Replace(t, s)
  PROVE  Replaced(t, s)
BY HeadOfFrames DEF Replaced, Replace

LEMMA PopIs ==
  ASSUME FramesTyped, NEW t \in Threads, NEW kind, Scheduling(t, kind), Pop(t)
  PROVE  Replaced(t, <<>>) /\ \A F : ~InSeq(F, <<>>) /\ Once(F, <<>>)
<1>1. frames[t] # <<>>
  BY HeadOfFrames
<1> QED
  BY <1>1, PopReplaces, EmptySeqHolds DEF Replaced

LEMMA NodeKeptByPop ==
  ASSUME FramesTyped, NEW t \in Threads, NEW kind, Scheduling(t, kind), Pop(t),
         UNCHANGED <<queue, run, pc>>, NEW n, NodeInv(n), status'[n] = status[n],
         UNCHANGED <<provided, headed>>, n \in in_flight => n \in in_flight'
  PROVE  NodeInv(n)'
<1>1. Replaces(t, <<>>) /\ \A F : ~InSeq(F, <<>>) /\ Once(F, <<>>)
  BY PopIs DEF Replaces
<1> QED
  BY <1>1, NodeKeptByReplace DEF NodeInv

LEMMA NodeKeptByNext ==
  ASSUME FramesTyped, NEW t \in Threads, NEW kind, Scheduling(t, kind), NEW n \in Nodes,
         NEW k \in NodeKinds \cup {"throttle"}, NEW m, Frame(k, m) \in AllFrames,
         Replace(t, <<Frame(k, m)>>),
         UNCHANGED <<queue, run, pc>>, NodeInv(n), status'[n] = status[n],
         UNCHANGED <<provided, headed>>, n \in in_flight => n \in in_flight',
         k \in {"commit", "push"} /\ m = n =>
           kind \in {"commit", "push"} /\ Head(frames[t]).node = n,
         k \in {"open", "push_open", "opened"} /\ m = n =>
           kind \in {"open", "push_open", "opened"} /\ Head(frames[t]).node = n,
         k \in {"ready", "add"} /\ m = n =>
           \/ kind \in {"ready", "add"} /\ Head(frames[t]).node = n
           \/ n \in Sinks \/ status[n] \in {"active", "closed"},
         k = "add" /\ m = n => n \in Sources
  PROVE  NodeInv(n)'
<1> DEFINE s == <<Frame(k, m)>>
<1>1. s \in Seq(AllFrames)
  OBVIOUS
<1>2. Replaces(t, s)
  BY <1>1, ReplaceIs DEF Replaces
<1>3. \A K : (InSeq(FramesFor(K, n), s) <=> k \in K /\ m = n) /\ Once(FramesFor(K, n), s)
  BY OneFrame
<1>4. \A K : Head(frames[t]) \in FramesFor(K, n) <=> kind \in K /\ Head(frames[t]).node = n
  BY HeadIs
<1> HIDE DEF s
<1>5. ProcessInv(n)'
  <2>1. Once(PF(n), s) /\ (InSeq(PF(n), s) => Head(frames[t]) \in PF(n))
    BY <1>3, <1>4 DEF PF
  <2> QED
    BY <1>2, <2>1, NodeKeptByReplace
<1>6. OpenInv(n)'
  <2>1. Once(OF(n), s) /\ (InSeq(OF(n), s) => Head(frames[t]) \in OF(n))
    BY <1>3, <1>4 DEF OF
  <2> QED
    BY <1>2, <2>1, NodeKeptByReplace
<1>7. ReadyInv(n)'
  <2>1. InSeq(RF(n), s) =>
          Head(frames[t]) \in RF(n) \/ n \in Sinks \/ status[n] \in {"active", "closed"}
    BY <1>3, <1>4 DEF RF
  <2>2. InSeq(AF(n), s) => n \in Sources
    BY <1>3 DEF AF
  <2> QED
    BY <1>2, <2>1, <2>2, NodeKeptByReplace
<1> QED
  BY <1>5, <1>6, <1>7 DEF NodeInv

(* An invocation is prepared: the node was not in flight, so nothing of it *)
(* was anywhere.                                                           *)
LEMMA ProcessBegins ==
  ASSUME FramesTyped, NEW t, NEW s, Replaces(t, s), NEW n, ProcessInv(n), n \notin in_flight,
         n \in in_flight', status[n] = Ready(n), status'[n] = status[n],
         InSeq(PF(n), s), Once(PF(n), s)
  PROVE  ProcessInv(n)'
<1>1. \A x \in Spots : ~At(x, PF(n), ProcessItem(n), InTask)
  BY DEF ProcessInv
<1>2. t \in Threads
  BY DEF Replaces, Replaced
<1>3. \A u \in Threads : ~Holds(u, PF(n))
  <2> SUFFICES ASSUME NEW u \in Threads, Holds(u, PF(n)) PROVE FALSE
    OBVIOUS
  <2>1. <<u, "frame">> \in Spots /\ At(<<u, "frame">>, PF(n), ProcessItem(n), InTask)
    BY DEF Spots, At
  <2> QED
    BY <1>1, <2>1
<1>4. \A u \in Threads : Holds(u, PF(n))' => u = t
  BY <1>3, HoldsAfterReplace DEF Replaces
<1>5. \A u \in Threads : Once(PF(n), frames[u])'
  BY <1>2, <1>3, ReplaceKeepsOnce DEF ProcessInv, AtOneSpot, Replaces
<1> DEFINE y == <<t, "frame">>
<1>6. y \in Spots /\ y[1] = t /\ y[2] = "frame"
  BY <1>2 DEF Spots
<1>7. \A x \in Spots : At(x, PF(n), ProcessItem(n), InTask)' => x[1] = t /\ x[2] = "frame"
  BY <1>1, <1>4 DEF At, Spots, Replaces
<1> HIDE DEF y
<1>8. AtOneSpot(PF(n), ProcessItem(n), InTask)'
  BY <1>5, <1>6, <1>7, OneSpotNew
<1> QED
  BY <1>8 DEF ProcessInv, Closed

(* The frame of the node is dropped, or its item leaves its queue: nothing *)
(* of it is left.                                                          *)
LEMMA ProcessGone ==
  ASSUME NEW n, \A x \in Spots : ~At(x, PF(n), ProcessItem(n), InTask)',
         \A u \in Threads : Once(PF(n), frames[u])', ~Closed(n)'
  PROVE  ProcessInv(n)'
<1>1. \A x \in Spots : At(x, PF(n), ProcessItem(n), BeforeClose)' =>
                       At(x, PF(n), ProcessItem(n), InTask)'
  BY DEF At, InTask, BeforeClose
<1> QED
  BY <1>1 DEF ProcessInv, AtOneSpot

(* A frame that is pushed becomes an item of a queue.                      *)
LEMMA PushMoves ==
  ASSUME FramesTyped, NEW t, Replaced(t, <<>>), NEW F, NEW i, NEW L, AtOneSpot(F, i, L),
         Head(frames[t]) \in F, NEW q \in Queues, UNCHANGED <<run, pc>>,
         queue' = [queue EXCEPT ![q] = @ \cup {i}], queue \in [Queues -> SUBSET Items]
  PROVE  AtOneSpot(F, i, L)'
<1>1. t \in Threads /\ Holds(t, F) /\ Once(F, frames[t]) /\ frames[t] \in Seq(AllFrames)
      /\ frames[t] # <<>>
  BY HoldsAfterReplace DEF Replaced, AtOneSpot, FramesTyped
<1>2. ~InSeq(F, Tail(frames[t]))
  BY <1>1, EmptySeqType, ReplacedHead
<1>3. ~InSeq(F, <<>>) /\ Once(F, <<>>)
  BY EmptySeqHolds
<1>4. \A u \in Threads : Holds(u, F)' => Holds(u, F) /\ u # t
  BY <1>2, <1>3, HoldsAfterReplace
<1> DEFINE x0 == <<t, "frame">>
           y == <<q, "queue">>
<1>5. x0 \in Spots /\ x0[1] = t /\ x0[2] = "frame" /\ At(x0, F, i, L)
  BY <1>1 DEF Spots, At
<1>6. \A x \in Spots : At(x, F, i, L) => x[1] = t /\ x[2] = "frame"
  BY <1>5 DEF AtOneSpot
<1>7. y \in Spots /\ y[1] = q /\ y[2] = "queue"
  BY DEF Spots
<1>8. \A x \in Spots : At(x, F, i, L)' => x[1] = q /\ x[2] = "queue"
  BY <1>4, <1>6 DEF At, Spots
<1>9. \A u \in Threads : Once(F, frames[u])'
  BY <1>3, ReplaceKeepsOnce DEF AtOneSpot
<1> HIDE DEF x0, y
<1> QED
  BY <1>7, <1>8, <1>9, OneSpotNew

LEMMA PushKeepsOthers ==
  ASSUME FramesTyped, NEW t, Replaced(t, <<>>), NEW F, NEW i, NEW L, NEW L0, AtOneSpot(F, i, L0),
         NEW j, j # i, NEW q \in Queues, UNCHANGED <<run, pc>>,
         queue' = [queue EXCEPT ![q] = @ \cup {j}], queue \in [Queues -> SUBSET Items]
  PROVE  SpotsKept(F, i, L)
<1>1. ~InSeq(F, <<>>) /\ Once(F, <<>>)
  BY EmptySeqHolds
<1>2. \A u \in Threads : Holds(u, F)' => Holds(u, F)
  BY <1>1, HoldsAfterReplace
<1>3. \A u \in Threads : Once(F, frames[u])'
  BY <1>1, ReplaceKeepsOnce DEF AtOneSpot
<1> QED
  BY <1>2, <1>3 DEF SpotsKept, At, Spots

-----------------------------------------------------------------------------
(* A step inside a queue, or while scheduling, keeps the invariant of each *)
(* node.                                                                   *)
LEMMA NodeOpenedNodes ==
  ASSUME FramesTyped, NodeTypes, NEW t \in Threads, NodeOpened(t), NEW n \in Nodes, NodeInv(n)
  PROVE  NodeInv(n)'
<1> DEFINE m == Head(frames[t]).node
           s == IF m \in Sources THEN <<>> ELSE <<Frame("ready", m)>>
<1>1. Scheduling(t, "opened") /\ m \in Nodes
  BY HeadOfFrames DEF NodeOpened, NodeKinds
<1>2. s \in Seq(AllFrames)
  BY <1>1, NodeFrame DEF NodeKinds
<1>3. /\ UNCHANGED <<queue, run, pc, in_flight, provided, headed>>
      /\ status' = [status EXCEPT ![m] = "opened"]
      /\ (m \in Sources /\ Pop(t)) \/ (m \notin Sources /\ Replace(t, <<Frame("ready", m)>>))
  BY DEF NodeOpened, queueVars
<1>4. Replaces(t, s)
  BY <1>1, <1>2, <1>3, PopIs, ReplaceIs DEF Replaces
<1>5. \A K : /\ InSeq(FramesFor(K, n), s) => "ready" \in K /\ m = n /\ m \notin Sources
             /\ Once(FramesFor(K, n), s)
  BY OneFrame, EmptySeqHolds
<1>6. \A K : Head(frames[t]) \in FramesFor(K, n) <=> "opened" \in K /\ m = n
  BY <1>1, HeadIs
<1>7. ~InSeq(PF(n), s) /\ Once(PF(n), s) /\ ~InSeq(OF(n), s) /\ Once(OF(n), s)
  BY <1>5 DEF PF, OF
<1>8. InSeq(RF(n), s) => n \in Sinks
  BY <1>5 DEF RF, Nodes
<1>9. ~InSeq(AF(n), s)
  BY <1>5 DEF AF
<1>10. Head(frames[t]) \in OF(n) <=> m = n
  BY <1>6 DEF OF
<1> HIDE DEF s
<1>11. CASE m # n
  <2>1. status'[n] = status[n]
    BY <1>1, <1>3, <1>11 DEF NodeTypes
  <2> QED
    BY <1>3, <1>4, <1>7, <1>8, <1>9, <2>1, NodeKeptByReplace DEF NodeInv
<1>12. CASE m = n
  <2> ProcessInv(n) /\ OpenInv(n) /\ ReadyInv(n)
    BY DEF NodeInv
  <2>1. status'[n] = "opened"
    BY <1>1, <1>3, <1>12 DEF NodeTypes
  <2>2. AtOneSpot(OF(n), OpenItem(n), ToRun) /\ AtOneSpot(PF(n), ProcessItem(n), InTask)
    BY DEF OpenInv, ProcessInv
  <2>3. \A x \in Spots : ~At(x, OF(n), OpenItem(n), ToRun)'
    BY <1>4, <1>7, <1>10, <1>12, <2>2, DroppedHead
  <2>4. t \in Threads /\ Holds(t, OF(n))
    BY <1>4, <1>10, <1>12, HoldsAfterReplace DEF Replaces
  <2>5. <<t, "frame">> \in Spots /\ At(<<t, "frame">>, OF(n), OpenItem(n), ToRun)
    BY <2>4 DEF Spots, At
  <2>6. status[n] = "prepared" /\ n \in Openable(provided, headed)
    BY <2>5 DEF OpenInv
  <2>7. SpotsKept(OF(n), OpenItem(n), ToRun) /\ SpotsKept(PF(n), ProcessItem(n), InTask)
        /\ SpotsKept(PF(n), ProcessItem(n), BeforeClose)
    BY <1>4, <1>7, <2>2, SpotsKeptByReplace
  <2>8. OpenInv(n)'
    BY <1>3, <2>3, <2>6, <2>7 DEF OpenInv, SpotsKept, AtOneSpot
  <2>9. \A x \in Spots : ~At(x, PF(n), ProcessItem(n), InTask)
    BY <2>6 DEF ProcessInv, Ready
  <2>10. ProcessInv(n)'
    <3>1. \A x \in Spots : ~At(x, PF(n), ProcessItem(n), InTask)'
      BY <2>7, <2>9 DEF SpotsKept
    <3> QED
      BY <2>1, <2>7, <3>1, ProcessGone DEF SpotsKept, Closed
  <2>11. ReadyInv(n)'
    <3>1. \A u \in Threads : Holds(u, RF(n))' => Holds(u, RF(n)) \/ n \in Sinks
      BY <1>4, <1>8, HoldsAfterReplace DEF Replaces
    <3>2. \A u \in Threads : Holds(u, AF(n))' => Holds(u, AF(n))
      BY <1>4, <1>9, HoldsAfterReplace DEF Replaces
    <3> QED
      BY <2>6, <3>1, <3>2, ReadyKept
  <2> QED
    BY <2>8, <2>10, <2>11 DEF NodeInv
<1> QED
  BY <1>11, <1>12

LEMMA CheckIfBecameReadyNodes ==
  ASSUME FramesTyped, NEW t \in Threads, CheckIfBecameReady(t),
         NEW n \in Nodes, NodeInv(n)
  PROVE  NodeInv(n)'
<1> DEFINE m == Head(frames[t]).node
           freed == {p \in Popped(m) : IsFull(p) /\ pk[p] - 1 < max_queue_size[p]}
           a == SetToSeq({Frame("throttle", p) : p \in freed})
           b == <<Frame("commit", m)>>
           s == a \o b
<1>1. /\ Scheduling(t, "ready") /\ m \in Sinks
      /\ UNCHANGED <<queue, run, pc, status, provided, headed>>
      /\ \/ /\ status[m] = "opened" /\ m \notin in_flight
            /\ in_flight' = in_flight \cup {m} /\ Replace(t, s)
         \/ Pop(t) /\ in_flight' = in_flight
  BY DEF CheckIfBecameReady, queueVars
<1>2. CASE Pop(t) /\ in_flight' = in_flight
  BY <1>1, <1>2, NodeKeptByPop
<1>3. CASE /\ status[m] = "opened" /\ m \notin in_flight
           /\ in_flight' = in_flight \cup {m} /\ Replace(t, s)
  <2>1. freed \in SUBSET Producers /\ m \in Nodes
    BY <1>1 DEF Popped, Inputs, Nodes
  <2>2. a \in Seq(AllFrames) /\ b \in Seq(AllFrames)
    <3>1. a \in Seq(AllFrames)
      BY <2>1, FramesOfStreams
    <3>2. Frame("commit", m) \in AllFrames
      BY <2>1, NodeFrame DEF NodeKinds
    <3>3. b \in Seq(AllFrames)
      BY <3>2
    <3> QED
      BY <3>1, <3>3
  <2> HIDE DEF freed
  <2>3. \A K : "throttle" \notin K => ~InSeq(FramesFor(K, n), a) /\ Once(FramesFor(K, n), a)
    BY <2>1, ThrottleFrames
  <2>4. \A K : (InSeq(FramesFor(K, n), b) <=> "commit" \in K /\ m = n) /\ Once(FramesFor(K, n), b)
    BY OneFrame
  <2> HIDE DEF a, b
  <2>5. \A K : "throttle" \notin K => /\ InSeq(FramesFor(K, n), s) <=> "commit" \in K /\ m = n
                                      /\ Once(FramesFor(K, n), s)
    BY <2>2, <2>3, <2>4, JoinHolds
  <2>6. s \in Seq(AllFrames)
    BY <2>2
  <2>7. Replaces(t, s)
    BY <1>1, <1>3, <2>6, ReplaceIs DEF Replaces
  <2> HIDE DEF s
  <2>8. /\ InSeq(PF(n), s) <=> m = n
        /\ Once(PF(n), s) /\ ~InSeq(OF(n), s) /\ Once(OF(n), s)
        /\ ~InSeq(RF(n), s) /\ ~InSeq(AF(n), s)
    BY <2>5 DEF PF, OF, RF, AF
  <2>9. OpenInv(n)' /\ ReadyInv(n)'
    BY <1>1, <2>7, <2>8, NodeKeptByReplace
  <2>10. CASE m # n
    BY <1>1, <1>3, <2>7, <2>8, <2>9, <2>10, NodeKeptByReplace DEF NodeInv
  <2>11. CASE m = n
    <3>1. Ready(n) = "opened"
      BY <1>1, <2>11, SchedulerAssumption DEF Ready
    <3> QED
      BY <1>1, <1>3, <2>7, <2>8, <2>9, <2>11, <3>1, ProcessBegins DEF NodeInv
  <2> QED
    BY <2>10, <2>11
<1> QED
  BY <1>1, <1>2, <1>3

LEMMA AddSourceNodes ==
  ASSUME FramesTyped, NodeTypes, NEW t \in Threads, AddSource(t), NEW n \in Nodes, NodeInv(n)
  PROVE  NodeInv(n)'
<1> DEFINE m == Head(frames[t]).node
           s == <<Frame("push", m)>>
<1>1. /\ Scheduling(t, "add") /\ UNCHANGED <<queue, run, pc, status, provided, headed>>
      /\ \/ Pop(t) /\ in_flight' = in_flight
         \/ m \notin in_flight /\ in_flight' = in_flight \cup {m} /\ Replace(t, s)
  BY DEF AddSource, queueVars
<1>2. m \in Nodes
  BY <1>1, HeadOfFrames DEF NodeKinds
<1>3. Frame("push", m) \in AllFrames
  BY <1>2, NodeFrame DEF NodeKinds
<1>4. CASE Pop(t) /\ in_flight' = in_flight
  BY <1>1, <1>4, NodeKeptByPop
<1>5. CASE m \notin in_flight /\ in_flight' = in_flight \cup {m} /\ Replace(t, s)
  <2>1. CASE m # n
    BY <1>1, <1>3, <1>5, <2>1, NodeKeptByNext DEF NodeKinds
  <2>2. CASE m = n
    <3>0. s \in Seq(AllFrames)
      BY <1>3
    <3>1. Replaces(t, s)
      BY <1>1, <1>5, <3>0, ReplaceIs DEF Replaces
    <3>2. \A K : (InSeq(FramesFor(K, n), s) <=> "push" \in K /\ m = n) /\ Once(FramesFor(K, n), s)
      BY OneFrame
    <3>3. \A K : Head(frames[t]) \in FramesFor(K, n) <=> "add" \in K /\ m = n
      BY <1>1, HeadIs
    <3> HIDE DEF s
    <3>4. /\ InSeq(PF(n), s) /\ Once(PF(n), s) /\ ~InSeq(OF(n), s) /\ Once(OF(n), s)
          /\ ~InSeq(RF(n), s) /\ ~InSeq(AF(n), s)
          /\ Head(frames[t]) \in RF(n) /\ Head(frames[t]) \in AF(n)
      BY <2>2, <3>2, <3>3 DEF PF, OF, RF, AF
    <3>5. OpenInv(n)' /\ ReadyInv(n)'
      BY <1>1, <3>1, <3>4, NodeKeptByReplace
    <3>6. Holds(t, RF(n)) /\ Holds(t, AF(n))
      BY <3>1, <3>4, HoldsAfterReplace DEF Replaces
    <3>7. n \in Sources /\ n \notin Sinks
      BY <3>6, SchedulerAssumption DEF NodeInv, ReadyInv
    <3>8. status[n] = Ready(n)
      BY <1>5, <2>2, <3>6, <3>7 DEF NodeInv, ReadyInv, ProcessInv, Closed, Ready
    <3> QED
      BY <1>1, <1>5, <2>2, <3>1, <3>4, <3>5, <3>8, ProcessBegins DEF NodeInv
  <2> QED
    BY <2>1, <2>2
<1> QED
  BY <1>1, <1>4, <1>5

LEMMA AddPreparedNodes ==
  ASSUME FramesTyped, NodeTypes, NEW t \in Threads, AddPrepared(t), NEW n \in Nodes, NodeInv(n)
  PROVE  NodeInv(n)'
<1> DEFINE m == Head(frames[t]).node
<1>1. /\ Scheduling(t, "commit") /\ UNCHANGED <<queue, run, pc, status, provided, headed>>
      /\ \/ Pop(t) /\ in_flight' = in_flight \ {m}
         \/ in_flight' = in_flight /\ Replace(t, <<Frame("push", m)>>)
  BY DEF AddPrepared, queueVars
<1>2. m \in Nodes
  BY <1>1, HeadOfFrames DEF NodeKinds
<1>3. Frame("push", m) \in AllFrames
  BY <1>2, NodeFrame DEF NodeKinds
<1>4. CASE in_flight' = in_flight /\ Replace(t, <<Frame("push", m)>>)
  BY <1>1, <1>3, <1>4, NodeKeptByNext DEF NodeKinds
<1>5. CASE Pop(t) /\ in_flight' = in_flight \ {m}
  <2>1. CASE m # n
    BY <1>1, <1>5, <2>1, NodeKeptByPop
  <2>2. CASE m = n
    <3>1. Replaces(t, <<>>) /\ \A F : ~InSeq(F, <<>>) /\ Once(F, <<>>)
      BY <1>1, <1>5, PopIs DEF Replaces
    <3>2. OpenInv(n)' /\ ReadyInv(n)'
      BY <1>1, <3>1, NodeKeptByReplace
    <3>3. Head(frames[t]) \in PF(n)
      BY <1>1, <2>2, HeadIs DEF PF
    <3>4. AtOneSpot(PF(n), ProcessItem(n), InTask)
      BY DEF NodeInv, ProcessInv
    <3>5. \A x \in Spots : ~At(x, PF(n), ProcessItem(n), InTask)'
      BY <3>1, <3>3, <3>4, DroppedHead
    <3>6. \A u \in Threads : Once(PF(n), frames[u])'
      BY <3>1, <3>4, SpotsKeptByReplace DEF SpotsKept
    <3>7. Holds(t, PF(n))
      BY <3>1, <3>3, HoldsAfterReplace DEF Replaces
    <3>8. <<t, "frame">> \in Spots /\ At(<<t, "frame">>, PF(n), ProcessItem(n), BeforeClose)
      BY <3>7 DEF Spots, At
    <3>9. ~Closed(n)'
      BY <1>1, <3>8 DEF NodeInv, ProcessInv, Closed, Ready
    <3> QED
      BY <3>2, <3>5, <3>6, <3>9, ProcessGone DEF NodeInv
  <2> QED
    BY <2>1, <2>2
<1> QED
  BY <1>1, <1>4, <1>5

-----------------------------------------------------------------------------
LEMMA PushNodes ==
  ASSUME FramesTyped, QueueTypeOK, NEW t \in Threads, Push(t), NEW n \in Nodes, NodeInv(n)
  PROVE  NodeInv(n)'
<1> DEFINE m == Head(frames[t]).node
<1> ProcessInv(n) /\ OpenInv(n) /\ ReadyInv(n)
  BY DEF NodeInv
<1>1. Pop(t) /\ UNCHANGED <<pc, status, in_flight, provided, headed>>
  BY DEF Push, nodeVars
<1>2. PICK kind \in {"push", "push_open"}, i \in {ProcessItem(m), OpenItem(m)} :
        /\ Scheduling(t, kind) /\ AddItemToQueue(t, i)
        /\ kind = "push" <=> i = ProcessItem(m)
  BY DEF Push, ProcessItem, OpenItem
<1>3. m \in Nodes
  BY <1>2, HeadOfFrames DEF NodeKinds
<1>4. i \in Items
  BY <1>2, <1>3, SchedulerAssumption DEF ProcessItem, OpenItem
<1> DEFINE q == Info[i].queue
<1>5. q \in Queues
  BY <1>4, QueueAssumption DEF ItemInfo
<1>6. queue' = [queue EXCEPT ![q] = @ \cup {i}] /\ run' = run /\ queue \in [Queues -> SUBSET Items]
  BY <1>2 DEF AddItemToQueue, QueueTypeOK
<1> HIDE DEF q
<1>7. Replaced(t, <<>>) /\ \A F : ~InSeq(F, <<>>) /\ Once(F, <<>>)
  BY <1>1, <1>2, PopIs
<1>8. \A K : Head(frames[t]) \in FramesFor(K, n) <=> kind \in K /\ m = n
  BY <1>2, HeadIs
<1>9. ReadyInv(n)'
  <2>1. \A F : \A u \in Threads : Holds(u, F)' => Holds(u, F)
    BY <1>7, HoldsAfterReplace
  <2> QED
    BY <1>1, <2>1, ReadyKept
<1>10. ProcessInv(n)'
  <2>1. CASE i = ProcessItem(n)
    <3>1. m = n /\ kind = "push"
      BY <1>2, <2>1 DEF ProcessItem, OpenItem
    <3>2. Head(frames[t]) \in PF(n)
      BY <1>8, <3>1 DEF PF
    <3>3. AtOneSpot(PF(n), i, InTask)'
      BY <1>1, <1>5, <1>6, <1>7, <2>1, <3>2, PushMoves DEF ProcessInv
    <3>4. t \in Threads /\ Holds(t, PF(n))
      BY <1>7, <3>2, HoldsAfterReplace
    <3>5. <<t, "frame">> \in Spots /\ At(<<t, "frame">>, PF(n), ProcessItem(n), BeforeClose)
          /\ At(<<t, "frame">>, PF(n), ProcessItem(n), InTask)
      BY <3>4 DEF Spots, At
    <3> QED
      BY <1>1, <2>1, <3>3, <3>5 DEF ProcessInv, Closed
  <2>2. CASE i # ProcessItem(n)
    <3>1. SpotsKept(PF(n), ProcessItem(n), InTask) /\ SpotsKept(PF(n), ProcessItem(n), BeforeClose)
      BY <1>1, <1>5, <1>6, <1>7, <2>2, PushKeepsOthers DEF ProcessInv
    <3> QED
      BY <1>1, <3>1, ProcessKept
  <2> QED
    BY <2>1, <2>2
<1>11. OpenInv(n)'
  <2>1. CASE i = OpenItem(n)
    <3>1. m = n /\ kind = "push_open"
      BY <1>2, <2>1 DEF ProcessItem, OpenItem
    <3>2. Head(frames[t]) \in OF(n)
      BY <1>8, <3>1 DEF OF
    <3>3. AtOneSpot(OF(n), i, ToRun)'
      BY <1>1, <1>5, <1>6, <1>7, <2>1, <3>2, PushMoves DEF OpenInv
    <3>4. t \in Threads /\ Holds(t, OF(n))
      BY <1>7, <3>2, HoldsAfterReplace
    <3>5. <<t, "frame">> \in Spots /\ At(<<t, "frame">>, OF(n), OpenItem(n), ToRun)
      BY <3>4 DEF Spots, At
    <3> QED
      BY <1>1, <2>1, <3>3, <3>5 DEF OpenInv
  <2>2. CASE i # OpenItem(n)
    <3>1. SpotsKept(OF(n), OpenItem(n), ToRun)
      BY <1>1, <1>5, <1>6, <1>7, <2>2, PushKeepsOthers DEF OpenInv
    <3> QED
      BY <1>1, <3>1, OpenKept
  <2> QED
    BY <2>1, <2>2
<1> QED
  BY <1>9, <1>10, <1>11 DEF NodeInv

LEMMA ThrottlingNodes ==
  ASSUME FramesTyped, NEW t \in Threads, UpdateThrottledNodes(t) \/ SetMaxQueueSize(t),
         NEW n \in Nodes, NodeInv(n)
  PROVE  NodeInv(n)'
<1> DEFINE p == Head(frames[t]).node
<1>1. UNCHANGED <<queue, run, pc, status, in_flight, provided, headed>>
  BY DEF UpdateThrottledNodes, SetMaxQueueSize, queueVars, nodeVars
<1>2. PICK kind \in {"throttle", "resize"} : Scheduling(t, kind)
  BY DEF UpdateThrottledNodes, SetMaxQueueSize
<1>3. p \in Producers
  BY <1>2, HeadOfFrames
<1>4. CASE Pop(t)
  BY <1>1, <1>2, <1>4, NodeKeptByPop
<1>5. CASE p \in Sources /\ status[p] = "active" /\ Replace(t, <<Frame("add", p)>>)
  <2>1. Frame("add", p) \in AllFrames
    BY <1>5, NodeFrame DEF NodeKinds, Nodes
  <2> QED
    BY <1>1, <1>2, <1>5, <2>1, NodeKeptByNext DEF NodeKinds
<1>6. CASE Replace(t, <<Frame("throttle", p)>>)
  <2>1. Frame("throttle", p) \in AllFrames
    BY <1>3, StreamFrame
  <2> QED
    BY <1>1, <1>2, <1>6, <2>1, NodeKeptByNext
<1>7. \/ Pop(t)
      \/ p \in Sources /\ status[p] = "active" /\ Replace(t, <<Frame("add", p)>>)
      \/ Replace(t, <<Frame("throttle", p)>>)
  BY DEF UpdateThrottledNodes, SetMaxQueueSize
<1> QED
  BY <1>4, <1>5, <1>6, <1>7

LEMMA QueueStepNodes ==
  ASSUME FramesTyped, QueueTypeOK, NodeTypes, NEW t \in Threads, QueueStep(t),
         NEW n \in Nodes, NodeInv(n)
  PROVE  NodeInv(n)'
<1> DEFINE m == Head(frames[t]).node
<1>1. CASE AddNodeForOpen(t)
  <2>1. /\ Scheduling(t, "open") /\ UNCHANGED <<queue, run, pc, status, in_flight, provided, headed>>
        /\ Pop(t) \/ Replace(t, <<Frame("push_open", m)>>)
    BY <1>1 DEF AddNodeForOpen, queueVars, nodeVars
  <2>2. m \in Nodes
    BY <2>1, HeadOfFrames DEF NodeKinds
  <2>3. Frame("push_open", m) \in AllFrames
    BY <2>2, NodeFrame DEF NodeKinds
  <2> QED
    BY <2>1, <2>3, NodeKeptByPop, NodeKeptByNext DEF NodeKinds
<1>2. CASE ScheduleNodeIfNotThrottled(t)
  <2>1. /\ Scheduling(t, "ready") /\ UNCHANGED <<queue, run, pc, status, in_flight, provided, headed>>
        /\ m \in Sources /\ (Pop(t) \/ Replace(t, <<Frame("add", m)>>))
    BY <1>2 DEF ScheduleNodeIfNotThrottled, queueVars, nodeVars
  <2>2. Frame("add", m) \in AllFrames
    BY <2>1, NodeFrame DEF NodeKinds, Nodes
  <2> QED
    BY <2>1, <2>2, NodeKeptByPop, NodeKeptByNext DEF NodeKinds
<1>3. CASE \/ QueueBecameActive(t) \/ QueueBecameIdle(t) \/ SubmitTask(t) \/ SubmitWaiting(t)
  <2>1. UNCHANGED <<queue, run, pc, frames, status, in_flight, provided, headed>>
    BY <1>3
    DEF QueueBecameActive, QueueBecameIdle, SubmitTask, SubmitWaiting, BecomeActive,
        BecomeIdle, AddTask, SubmitWaitingTasks, nodeVars, threadVars
  <2>2. NodeTasksKept(n)
    BY <2>1 DEF NodeTasksKept, TasksKept
  <2> QED
    BY <2>1, <2>2, NodeKeptQuietly DEF NodeInv
<1> QED
  BY <1>1, <1>2, <1>3, NodeOpenedNodes, CheckIfBecameReadyNodes, AddSourceNodes,
     AddPreparedNodes, PushNodes, ThrottlingNodes
  DEF QueueStep

-----------------------------------------------------------------------------
(* Where a thread with something to schedule, or to run, can be.           *)
WorkerPlaces ==
  \A t \in Workers :
    /\ pc[t] = "run" => frames[t] = <<>>
    /\ pc[t] \in {"closing", "sched"} => run[t] # NoItem /\ run[t][2] = "process"
    /\ pc[t] = "closing" => Node(t) \in Sources

MainPlaces == pc[Main] \in {"check", "waiting"} => frames[Main] = <<>>

LEMMA TaskAtSpot ==
  ASSUME NEW t \in Threads, NEW F, NEW L, pc[t] \in L
  PROVE  /\ <<t, "task">> \in Spots /\ <<t, "task">>[1] = t /\ <<t, "task">>[2] = "task"
         /\ At(<<t, "task">>, F, run[t], L)
BY DEF Spots, At

(* The item of a worker that is not idle.                                  *)
LEMMA ItemOfWorker ==
  ASSUME TypeInv, FramesInv, NEW t \in Workers, pc[t] # "idle"
  PROVE  /\ t \in Threads /\ Node(t) \in Nodes
         /\ run[t][2] = "process" => run[t] = ProcessItem(Node(t))
         /\ run[t][2] = "open" => run[t] = OpenItem(Node(t))
<1>1. t \in Threads /\ run[t] \in Items /\ Node(t) \in Nodes
  BY NodeOfWorker
<1> QED
  BY <1>1, SchedulerAssumption DEF Node, ProcessItem, OpenItem

(* An item leaves its queue with the worker that takes the task.           *)
LEMMA TakeMoves ==
  ASSUME NEW F, NEW i, NEW L, AtOneSpot(F, i, L), NEW q \in Queues, i \in queue[q],
         queue' = [queue EXCEPT ![q] = @ \ {i}], queue \in [Queues -> SUBSET Items],
         NEW t \in Threads, run' = [run EXCEPT ![t] = i], run \in [Threads -> Items \cup {NoItem}],
         pc' = [pc EXCEPT ![t] = "run"], pc \in [Threads -> Places], frames' = frames
  PROVE  AtOneSpot(F, i, L)'
<1> DEFINE x0 == <<q, "queue">>
           y == <<t, "task">>
<1>1. x0 \in Spots /\ x0[1] = q /\ x0[2] = "queue" /\ At(x0, F, i, L)
  BY DEF Spots, At
<1>2. \A x \in Spots : At(x, F, i, L) => x[1] = q /\ x[2] = "queue"
  BY <1>1 DEF AtOneSpot
<1>3. y \in Spots /\ y[1] = t /\ y[2] = "task"
  BY DEF Spots
<1>4. \A x \in Spots : At(x, F, i, L)' => x[1] = t /\ x[2] = "task"
  BY <1>2 DEF At, Spots, Holds
<1>5. \A u \in Threads : Once(F, frames[u])'
  BY DEF AtOneSpot
<1> HIDE DEF x0, y
<1> QED
  BY <1>3, <1>4, <1>5, OneSpotNew

LEMMA TakeTaskNodes ==
  ASSUME TypeInv, FramesInv, NEW t \in Workers, TakeTask(t), NEW n \in Nodes, NodeInv(n)
  PROVE  NodeInv(n)'
<1> ProcessInv(n) /\ OpenInv(n) /\ ReadyInv(n) /\ QueueTypeOK /\ AppTypes
  BY DEF NodeInv, TypeInv
<1>0. t \in Threads
  BY QueueAssumption
<1>1. PICK q \in Queues : RunNextTask(t, q)
  BY DEF TakeTask
<1>2. PICK i \in Top(q) : /\ queue' = [queue EXCEPT ![q] = @ \ {i}]
                          /\ run' = [run EXCEPT ![t] = i]
  BY <1>1 DEF RunNextTask
<1>3. i \in queue[q]
  BY DEF Top
<1>4. /\ pc' = [pc EXCEPT ![t] = "run"]
      /\ UNCHANGED <<frames, status, in_flight, provided, headed>>
  BY DEF TakeTask, nodeVars
<1>5. /\ queue \in [Queues -> SUBSET Items] /\ run \in [Threads -> Items \cup {NoItem}]
      /\ pc \in [Threads -> Places]
  BY DEF QueueTypeOK, AppTypes
<1>6. \A r \in Queues : queue'[r] \subseteq queue[r]
  BY <1>2, <1>5
<1>7. \A j, L : j # i => TasksKept(j, L)
  BY <1>0, <1>2, <1>4, <1>5 DEF TasksKept
<1>8. ReadyInv(n)'
  BY <1>4, ReadyKept DEF Holds
<1>9. <<q, "queue">> \in Spots /\ \A F, L : At(<<q, "queue">>, F, i, L)
  BY <1>3 DEF Spots, At
<1>10. ProcessInv(n)'
  <2>1. CASE i = ProcessItem(n)
    <3>1. AtOneSpot(PF(n), i, InTask)
      BY <2>1 DEF ProcessInv
    <3>2. AtOneSpot(PF(n), i, InTask)'
      BY <1>0, <1>2, <1>3, <1>4, <1>5, <3>1, TakeMoves
    <3> QED
      BY <1>4, <1>9, <2>1, <3>2 DEF ProcessInv, Closed
  <2>2. CASE i # ProcessItem(n)
    <3>1. SpotsKept(PF(n), ProcessItem(n), InTask) /\ SpotsKept(PF(n), ProcessItem(n), BeforeClose)
      BY <1>4, <1>6, <1>7, <2>2, SpotsKeptQuietly DEF ProcessInv
    <3> QED
      BY <1>4, <3>1, ProcessKept
  <2> QED
    BY <2>1, <2>2
<1>11. OpenInv(n)'
  <2>1. CASE i = OpenItem(n)
    <3>1. AtOneSpot(OF(n), i, ToRun)
      BY <2>1 DEF OpenInv
    <3>2. AtOneSpot(OF(n), i, ToRun)'
      BY <1>0, <1>2, <1>3, <1>4, <1>5, <3>1, TakeMoves
    <3> QED
      BY <1>4, <1>9, <2>1, <3>2 DEF OpenInv
  <2>2. CASE i # OpenItem(n)
    <3>1. SpotsKept(OF(n), OpenItem(n), ToRun)
      BY <1>4, <1>6, <1>7, <2>2, SpotsKeptQuietly DEF OpenInv
    <3> QED
      BY <1>4, <3>1, OpenKept
  <2> QED
    BY <2>1, <2>2
<1> QED
  BY <1>8, <1>10, <1>11 DEF NodeInv

-----------------------------------------------------------------------------
(* The frames a worker gets while it runs a task, and the opening of nodes *)
(* that have become openable.                                              *)
LEMMA OneSpotByGet ==
  ASSUME FramesTyped, NEW t, NEW s, Gets(t, s), NEW F, NEW i, NEW L, queue' = queue,
         \A x \in Spots : At(x, F, i, L) => x[1] = t /\ x[2] = "task", TasksKept(i, L),
         ~(run'[t] = i /\ pc'[t] \in L), Once(F, s), \A u \in Threads : Once(F, frames[u])
  PROVE  AtOneSpot(F, i, L)'
<1>1. /\ \A u \in Threads : u # t => frames'[u] = frames[u]
      /\ frames'[t] = s
      /\ \A u \in Threads : u # t => (Holds(u, F)' <=> Holds(u, F))
  BY HoldsAfterGet
<1>2. \A u \in Threads : Once(F, frames[u])'
  BY <1>1
<1> DEFINE y == <<t, "frame">>
<1>3. y \in Spots /\ y[1] = t /\ y[2] = "frame"
  BY DEF Gets, Spots
<1>4. \A x \in Spots : At(x, F, i, L)' => x[1] = t /\ x[2] = "frame"
  BY <1>1 DEF At, Spots, TasksKept
<1> HIDE DEF y
<1> QED
  BY <1>2, <1>3, <1>4, OneSpotNew

LEMMA OpenableGrows ==
  ASSUME provided \subseteq provided', headed \subseteq headed'
  PROVE  Openable(provided, headed) \subseteq Openable(provided', headed')
BY DEF Openable

(* The nodes that have become openable were nowhere; t opens them.         *)
LEMMA OpensNodes ==
  ASSUME FramesTyped, NEW t, NEW s, Gets(t, s), NEW n \in Nodes, OpenInv(n), queue' = queue,
         TasksKept(OpenItem(n), ToRun), Once(OF(n), s),
         InSeq(OF(n), s) => n \in NewlyOpenable,
         provided \subseteq provided', headed \subseteq headed',
         status'[n] = status[n] \/ (status[n] # "prepared" /\ status'[n] # "prepared")
  PROVE  OpenInv(n)'
<1>1. n \in Openable(provided, headed) => n \in Openable(provided', headed')
  BY OpenableGrows
<1>2. CASE InSeq(OF(n), s)
  <2>1. n \notin Openable(provided, headed) /\ n \in Openable(provided', headed')
    BY <1>2 DEF NewlyOpenable
  <2>2. status[n] = "prepared" /\ \A x \in Spots : ~At(x, OF(n), OpenItem(n), ToRun)
    BY <2>1 DEF OpenInv
  <2>3. t \in Threads
    BY DEF Gets
  <2>4. ~(run'[t] = OpenItem(n) /\ pc'[t] \in ToRun)
    <3> SUFFICES ASSUME run'[t] = OpenItem(n), pc'[t] \in ToRun PROVE FALSE
      OBVIOUS
    <3>1. run[t] = OpenItem(n) /\ pc[t] \in ToRun
      BY <2>3 DEF TasksKept
    <3> QED
      BY <2>2, <2>3, <3>1, TaskAtSpot
  <2>5. \A u \in Threads : Once(OF(n), frames[u])
    BY DEF OpenInv, AtOneSpot
  <2>6. AtOneSpot(OF(n), OpenItem(n), ToRun)'
    BY <2>2, <2>4, <2>5, OneSpotByGet
  <2> QED
    BY <2>1, <2>2, <2>6 DEF OpenInv
<1>3. CASE ~InSeq(OF(n), s)
  <2>1. AtOneSpot(OF(n), OpenItem(n), ToRun)
    BY DEF OpenInv
  <2>2. SpotsKept(OF(n), OpenItem(n), ToRun)
    BY <1>3, <2>1, SpotsKeptByGet
  <2>3. AtOneSpot(OF(n), OpenItem(n), ToRun)'
    BY <2>1, <2>2, OneSpotKept DEF SpotsKept
  <2> QED
    BY <1>1, <2>2, <2>3 DEF OpenInv, SpotsKept
<1> QED
  BY <1>2, <1>3

-----------------------------------------------------------------------------
(* Steps of a worker within its task.                                      *)
LEMMA WorkerTasksKept ==
  ASSUME TypeInv, NEW t \in Workers, NEW place \in Places, pc' = [pc EXCEPT ![t] = place],
         run' = run, NEW n, place # "run", place \in InTask => pc[t] \in InTask,
         place = "closing" => pc[t] \in BeforeClose
  PROVE  NodeTasksKept(n)
<1>1. t \in Threads /\ pc \in [Threads -> Places]
  BY QueueAssumption DEF TypeInv, AppTypes
<1> QED
  BY <1>1 DEF NodeTasksKept, TasksKept, InTask, BeforeClose, ToRun

LEMMA WorkerGets ==
  ASSUME TypeInv, WorkerPlaces, NEW t \in Workers, NEW s \in Seq(AllFrames),
         AtRest(t) \/ pc[t] = "run", frames' = [frames EXCEPT ![t] = s]
  PROVE  FramesTyped /\ Gets(t, s)
BY QueueAssumption DEF Gets, AtRest, WorkerPlaces, TypeInv

LEMMA FinishTaskNodes ==
  ASSUME TypeInv, NEW t \in Workers, FinishTask(t), NEW n \in Nodes, NodeInv(n)
  PROVE  NodeInv(n)'
<1>1. t \in Threads /\ pc \in [Threads -> Places] /\ run \in [Threads -> Items \cup {NoItem}]
  BY QueueAssumption DEF TypeInv, AppTypes, QueueTypeOK
<1>2. ProcessItem(n) # NoItem /\ OpenItem(n) # NoItem
  BY QueueAssumption, SchedulerAssumption DEF ProcessItem, OpenItem
<1>3. run' = [run EXCEPT ![t] = NoItem] /\ pc' = [pc EXCEPT ![t] = "idle"] /\ queue' = queue
  BY DEF FinishTask, EndTask
<1>4. NodeTasksKept(n)
  BY <1>1, <1>2, <1>3 DEF NodeTasksKept, TasksKept
<1>5. UNCHANGED <<frames, status, in_flight, provided, headed>>
  BY DEF FinishTask, nodeVars
<1> QED
  BY <1>3, <1>4, <1>5, NodeKeptQuietly DEF NodeInv

LEMMA NodeErrorNodes ==
  ASSUME TypeInv, NEW t \in Workers, NodeError(t), NEW n \in Nodes, NodeInv(n)
  PROVE  NodeInv(n)'
<1>1. PICK place \in {"end", "sched"} : pc' = [pc EXCEPT ![t] = place]
  BY DEF NodeError
<1>2. pc[t] = "run" /\ UNCHANGED <<queue, run, frames, status, in_flight, provided, headed>>
  BY DEF NodeError, queueVars, nodeVars
<1>3. NodeTasksKept(n)
  BY <1>1, <1>2, WorkerTasksKept DEF Places, InTask
<1> QED
  BY <1>2, <1>3, NodeKeptQuietly DEF NodeInv

LEMMA SourceClosedNodes ==
  ASSUME TypeInv, FramesInv, WorkerPlaces, NEW t \in Workers, SourceClosed(t),
         NEW n \in Nodes, NodeInv(n)
  PROVE  NodeInv(n)'
<1> ProcessInv(n) /\ OpenInv(n) /\ ReadyInv(n)
  BY DEF NodeInv
<1>1. /\ pc[t] = "closing" /\ pc' = [pc EXCEPT ![t] = "sched"]
      /\ status' = [status EXCEPT ![Node(t)] = "closed"]
      /\ UNCHANGED <<queue, run, frames, in_flight, provided, headed>>
  BY DEF SourceClosed, queueVars
<1>2. NodeTasksKept(n)
  BY <1>1, WorkerTasksKept DEF Places, InTask
<1>3. t \in Threads /\ Node(t) \in Nodes /\ run[t] = ProcessItem(Node(t))
  BY <1>1, ItemOfWorker DEF WorkerPlaces
<1>4. status \in [Nodes -> {"prepared", "opened", "active", "closed"}]
  BY DEF TypeInv, NodeTypes
<1>5. CASE n # Node(t)
  <2>1. status'[n] = status[n]
    BY <1>1, <1>3, <1>4, <1>5
  <2> QED
    BY <1>1, <1>2, <2>1, NodeKeptQuietly DEF NodeInv
<1>6. CASE n = Node(t)
  <2>1. status'[n] = "closed"
    BY <1>1, <1>4, <1>6
  <2>2. AtOneSpot(PF(n), ProcessItem(n), InTask) /\ AtOneSpot(OF(n), OpenItem(n), ToRun)
    BY DEF ProcessInv, OpenInv
  <2>3. /\ SpotsKept(PF(n), ProcessItem(n), InTask) /\ SpotsKept(PF(n), ProcessItem(n), BeforeClose)
        /\ SpotsKept(OF(n), OpenItem(n), ToRun)
    BY <1>1, <1>2, <2>2, SpotsKeptQuietly DEF NodeTasksKept
  <2> DEFINE y == <<t, "task">>
  <2>4. /\ y \in Spots /\ y[1] = t /\ y[2] = "task"
        /\ At(y, PF(n), ProcessItem(n), InTask) /\ At(y, PF(n), ProcessItem(n), BeforeClose)
    BY <1>1, <1>3, <1>6, TaskAtSpot DEF InTask, BeforeClose
  <2>5. ~At(y, PF(n), ProcessItem(n), BeforeClose)'
    <3>1. pc'[t] = "sched"
      BY <1>1, <1>3 DEF TypeInv, AppTypes
    <3> QED
      BY <2>4, <3>1 DEF At, BeforeClose
  <2> HIDE DEF y
  <2>6. n \in in_flight /\ status[n] = Ready(n)
    BY <2>4 DEF ProcessInv
  <2>7. \A x \in Spots : At(x, PF(n), ProcessItem(n), InTask) => x = y
    BY <2>2, <2>4 DEF AtOneSpot
  <2>8. \A x \in Spots : At(x, PF(n), ProcessItem(n), BeforeClose)
                           => At(x, PF(n), ProcessItem(n), InTask)
    BY DEF At, InTask, BeforeClose
  <2>9. \A x \in Spots : ~At(x, PF(n), ProcessItem(n), BeforeClose)'
    BY <2>3, <2>5, <2>7, <2>8 DEF SpotsKept
  <2>10. AtOneSpot(PF(n), ProcessItem(n), InTask)' /\ AtOneSpot(OF(n), OpenItem(n), ToRun)'
    BY <2>2, <2>3, OneSpotKept DEF SpotsKept
  <2>11. ProcessInv(n)'
    BY <1>1, <2>1, <2>6, <2>9, <2>10 DEF ProcessInv
  <2>12. status[n] # "prepared"
    BY <2>6 DEF Ready
  <2>13. OpenInv(n)'
    BY <1>1, <2>1, <2>3, <2>10, <2>12 DEF OpenInv, SpotsKept
  <2>14. ReadyInv(n)'
    BY <1>1, <1>2, <2>1, NodeKeptQuietly
  <2> QED
    BY <2>11, <2>13, <2>14 DEF NodeInv
<1> QED
  BY <1>5, <1>6

LEMMA SourceStepNodes ==
  ASSUME TypeInv, FramesInv, WorkerPlaces, NEW t \in Workers, ProcessSource(t) \/ CloseSource(t),
         NEW n \in Nodes, NodeInv(n)
  PROVE  NodeInv(n)'
<1> DEFINE p == Node(t)
<1>1. /\ Executing(t, "process") /\ p \in Sources
      /\ UNCHANGED <<queue, run, status, in_flight, provided, headed>>
  BY DEF ProcessSource, CloseSource, queueVars, nodeVars
<1>2. PICK s \in {AfterAdd(p), AfterClose(p)}, place \in {"sched", "closing"} :
        frames' = [frames EXCEPT ![t] = s] /\ pc' = [pc EXCEPT ![t] = place]
  BY DEF ProcessSource, CloseSource, Emit
<1>3. p \in Producers /\ pc[t] = "run"
  BY <1>1 DEF Producers, Executing
<1>4. s \in Seq(AllFrames)
  BY <1>3, FramesAfterAdd
<1>5. FramesTyped /\ Gets(t, s)
  BY <1>2, <1>3, <1>4, WorkerGets
<1>6. NodeTasksKept(n)
  BY <1>1, <1>2, <1>3, WorkerTasksKept DEF Places, InTask, BeforeClose
<1>7. /\ Once(PF(n), s) /\ ~InSeq(PF(n), s) /\ Once(OF(n), s) /\ ~InSeq(OF(n), s)
      /\ ~InSeq(AF(n), s)
  BY <1>3, AfterPacketFrames DEF PF, OF, AF
<1>8. InSeq(RF(n), s) => n \in Sinks
  BY <1>3, AfterPacketFrames DEF RF
<1> QED
  BY <1>1, <1>5, <1>6, <1>7, <1>8, NodeKeptByGet DEF NodeInv

LEMMA EndSchedulingNodes ==
  ASSUME TypeInv, FramesInv, WorkerPlaces, NEW t \in Workers, EndScheduling(t),
         NEW n \in Nodes, NodeInv(n)
  PROVE  NodeInv(n)'
<1> DEFINE m == Node(t)
           s == <<Frame("ready", m)>>
<1>1. /\ pc[t] = "sched" /\ AtRest(t) /\ pc' = [pc EXCEPT ![t] = "end"]
      /\ UNCHANGED <<queue, run, status, provided, headed>>
      /\ \/ /\ ~Closed(m) /\ in_flight' = in_flight \ {m}
            /\ frames' = [frames EXCEPT ![t] = s]
         \/ UNCHANGED <<in_flight, frames>>
  BY DEF EndScheduling, RunsAgain, queueVars
<1>2. t \in Threads /\ m \in Nodes /\ run[t] = ProcessItem(m)
  BY <1>1, ItemOfWorker DEF WorkerPlaces
<1>3. NodeTasksKept(n)
  BY <1>1, WorkerTasksKept DEF Places, InTask
<1>4. CASE UNCHANGED <<in_flight, frames>>
  BY <1>1, <1>3, <1>4, NodeKeptQuietly DEF NodeInv
<1>5. CASE /\ ~Closed(m) /\ in_flight' = in_flight \ {m}
           /\ frames' = [frames EXCEPT ![t] = s]
  <2>1. s \in Seq(AllFrames)
    <3>1. Frame("ready", m) \in AllFrames
      BY <1>2, NodeFrame DEF NodeKinds
    <3> QED
      BY <3>1
  <2>2. FramesTyped /\ Gets(t, s)
    BY <1>1, <1>5, <2>1, WorkerGets
  <2>3. \A K : (InSeq(FramesFor(K, n), s) <=> "ready" \in K /\ m = n) /\ Once(FramesFor(K, n), s)
    BY OneFrame
  <2> HIDE DEF s
  <2>4. /\ Once(PF(n), s) /\ ~InSeq(PF(n), s) /\ Once(OF(n), s) /\ ~InSeq(OF(n), s)
        /\ ~InSeq(AF(n), s) /\ (InSeq(RF(n), s) => m = n)
    BY <2>3 DEF PF, OF, AF, RF
  <2>5. OpenInv(n)'
    BY <1>1, <1>3, <2>2, <2>4, NodeKeptByGet
  <2>6. CASE m # n
    BY <1>1, <1>3, <1>5, <2>2, <2>4, <2>6, NodeKeptByGet DEF NodeInv
  <2>7. CASE m = n
    <3> DEFINE y == <<t, "task">>
    <3>1. /\ y \in Spots /\ y[1] = t /\ y[2] = "task"
          /\ At(y, PF(n), ProcessItem(n), InTask)
      BY <1>1, <1>2, <2>7, TaskAtSpot DEF InTask
    <3>2. status[n] = Ready(n)
      BY <1>5, <2>7, <3>1 DEF NodeInv, ProcessInv, Closed
    <3>3. ReadyInv(n)'
      <4>1. n \in Sinks \/ status'[n] \in {"active", "closed"}
        BY <1>1, <3>2 DEF Ready, Nodes
      <4> QED
        BY <1>1, <1>3, <2>2, <2>4, <4>1, NodeKeptByGet
    <3>4. AtOneSpot(PF(n), ProcessItem(n), InTask)
      BY DEF NodeInv, ProcessInv
    <3>5. SpotsKept(PF(n), ProcessItem(n), InTask)
      BY <1>1, <1>3, <2>2, <2>4, <3>4, SpotsKeptByGet DEF NodeTasksKept
    <3>6. ~At(y, PF(n), ProcessItem(n), InTask)'
      <4>1. pc'[t] = "end"
        BY <1>1, <1>2 DEF TypeInv, AppTypes
      <4> QED
        BY <3>1, <4>1 DEF At, InTask
    <3> HIDE DEF y
    <3>7. \A x \in Spots : At(x, PF(n), ProcessItem(n), InTask) => x = y
      BY <3>1, <3>4 DEF AtOneSpot
    <3>8. \A x \in Spots : ~At(x, PF(n), ProcessItem(n), InTask)'
      BY <3>5, <3>6, <3>7 DEF SpotsKept
    <3>9. ~Closed(n)'
      BY <1>1, <1>5, <2>7 DEF Closed
    <3>10. ProcessInv(n)'
      BY <3>5, <3>8, <3>9, ProcessGone DEF SpotsKept
    <3> QED
      BY <2>5, <3>3, <3>10 DEF NodeInv
  <2> QED
    BY <2>6, <2>7
<1> QED
  BY <1>1, <1>4, <1>5

LEMMA ProcessSinkNodes ==
  ASSUME TypeInv, FramesInv, WorkerPlaces, NEW t \in Workers, ProcessSink(t),
         NEW n \in Nodes, NodeInv(n)
  PROVE  NodeInv(n)'
<1> DEFINE c == Node(t)
           s == OpenFrames(NewlyOpenable)
<1> ProcessInv(n) /\ OpenInv(n) /\ ReadyInv(n)
  BY DEF NodeInv
<1>1. /\ Executing(t, "process") /\ c \in Sinks
      /\ pc' = [pc EXCEPT ![t] = "sched"] /\ frames' = [frames EXCEPT ![t] = s]
      /\ status' = [status EXCEPT ![c] = "closed"] \/ status' = status
      /\ provided \subseteq provided' /\ headed' = headed
      /\ UNCHANGED <<queue, run, in_flight>>
  BY DEF ProcessSink, queueVars
<1>2. pc[t] = "run" /\ t \in Threads /\ c \in Nodes /\ run[t] = ProcessItem(c)
  BY <1>1, ItemOfWorker DEF Executing
<1>3. NodeTasksKept(n)
  BY <1>1, <1>2, WorkerTasksKept DEF Places, InTask
<1>4. s \in Seq(AllFrames) /\ \A K : /\ InSeq(FramesFor(K, n), s) => "open" \in K /\ n \in NewlyOpenable
                                     /\ Once(FramesFor(K, n), s)
  BY NewlyOpenableNodes, OpeningFrames
<1>5. FramesTyped /\ Gets(t, s)
  BY <1>1, <1>2, <1>4, WorkerGets
<1> HIDE DEF s
<1>6. /\ Once(PF(n), s) /\ ~InSeq(PF(n), s) /\ ~InSeq(AF(n), s) /\ ~InSeq(RF(n), s)
      /\ Once(OF(n), s) /\ (InSeq(OF(n), s) => n \in NewlyOpenable)
  BY <1>4 DEF PF, OF, AF, RF
<1>7. status \in [Nodes -> {"prepared", "opened", "active", "closed"}]
  BY DEF TypeInv, NodeTypes
<1>8. CASE n # c
  <2>1. status'[n] = status[n]
    BY <1>1, <1>2, <1>7, <1>8
  <2>2. OpenInv(n)'
    BY <1>1, <1>3, <1>5, <1>6, <2>1, OpensNodes DEF NodeTasksKept
  <2> QED
    BY <1>1, <1>3, <1>5, <1>6, <2>1, <2>2, NodeKeptByGet DEF NodeInv
<1>9. CASE n = c
  <2>1. AtOneSpot(PF(n), ProcessItem(n), InTask)
    BY DEF ProcessInv
  <2>2. SpotsKept(PF(n), ProcessItem(n), InTask) /\ SpotsKept(PF(n), ProcessItem(n), BeforeClose)
    BY <1>1, <1>3, <1>5, <1>6, <2>1, SpotsKeptByGet DEF NodeTasksKept
  <2> DEFINE y == <<t, "task">>
  <2>4. /\ y \in Spots /\ y[1] = t /\ y[2] = "task"
        /\ At(y, PF(n), ProcessItem(n), InTask) /\ At(y, PF(n), ProcessItem(n), BeforeClose)
    BY <1>2, <1>9, TaskAtSpot DEF InTask, BeforeClose
  <2>5. ~At(y, PF(n), ProcessItem(n), BeforeClose)'
    <3>1. pc'[t] = "sched"
      BY <1>1, <1>2 DEF TypeInv, AppTypes
    <3> QED
      BY <2>4, <3>1 DEF At, BeforeClose
  <2> HIDE DEF y
  <2>6. n \in in_flight /\ status[n] = Ready(n)
    BY <2>4 DEF ProcessInv
  <2>7. \A x \in Spots : At(x, PF(n), ProcessItem(n), InTask) => x = y
    BY <2>1, <2>4 DEF AtOneSpot
  <2>8. \A x \in Spots : At(x, PF(n), ProcessItem(n), BeforeClose)
                           => At(x, PF(n), ProcessItem(n), InTask)
    BY DEF At, InTask, BeforeClose
  <2>9. \A x \in Spots : ~At(x, PF(n), ProcessItem(n), BeforeClose)'
    BY <2>2, <2>5, <2>7, <2>8 DEF SpotsKept
  <2>10. AtOneSpot(PF(n), ProcessItem(n), InTask)'
    BY <2>1, <2>2, OneSpotKept DEF SpotsKept
  <2>11. status'[n] \in {status[n], "closed"}
    BY <1>1, <1>7, <1>9
  <2>12. ProcessInv(n)'
    BY <1>1, <2>6, <2>9, <2>10, <2>11 DEF ProcessInv
  <2>13. OpenInv(n)'
    <3>1. status'[n] = status[n] \/ (status[n] # "prepared" /\ status'[n] # "prepared")
      BY <2>6, <2>11 DEF Ready
    <3> QED
      BY <1>1, <1>3, <1>5, <1>6, <3>1, OpensNodes DEF NodeTasksKept
  <2>14. ReadyInv(n)'
    BY <1>1, <1>3, <1>5, <1>6, <1>9, <2>11, NodeKeptByGet
  <2> QED
    BY <2>12, <2>13, <2>14 DEF NodeInv
<1> QED
  BY <1>8, <1>9

LEMMA OpenNodeNodes ==
  ASSUME TypeInv, FramesInv, WorkerPlaces, NEW t \in Workers, OpenNode(t),
         NEW n \in Nodes, NodeInv(n)
  PROVE  NodeInv(n)'
<1> DEFINE m == Node(t)
           a == OpenFrames(NewlyOpenable)
           b == <<Frame("opened", m)>>
           s == a \o b
<1> ProcessInv(n) /\ OpenInv(n) /\ ReadyInv(n)
  BY DEF NodeInv
<1>1. /\ Executing(t, "open")
      /\ pc' = [pc EXCEPT ![t] = "end"] /\ frames' = [frames EXCEPT ![t] = s]
      /\ provided \subseteq provided' /\ headed \subseteq headed'
      /\ UNCHANGED <<queue, run, in_flight, status>>
  BY DEF OpenNode, queueVars
<1>2. pc[t] = "run" /\ t \in Threads /\ m \in Nodes /\ run[t] = OpenItem(m)
  BY <1>1, ItemOfWorker DEF Executing
<1>3. NodeTasksKept(n)
  BY <1>1, <1>2, WorkerTasksKept DEF Places, InTask
<1>4. a \in Seq(AllFrames) /\ \A K : /\ InSeq(FramesFor(K, n), a) => "open" \in K /\ n \in NewlyOpenable
                                     /\ Once(FramesFor(K, n), a)
  BY NewlyOpenableNodes, OpeningFrames
<1>5. b \in Seq(AllFrames)
  <2>1. Frame("opened", m) \in AllFrames
    BY <1>2, NodeFrame DEF NodeKinds
  <2> QED
    BY <2>1
<1>6. \A K : (InSeq(FramesFor(K, n), b) <=> "opened" \in K /\ m = n) /\ Once(FramesFor(K, n), b)
  BY OneFrame
<1> HIDE DEF a, b
<1>7. s \in Seq(AllFrames)
  BY <1>4, <1>5
<1>8. FramesTyped /\ Gets(t, s)
  BY <1>1, <1>2, <1>7, WorkerGets
<1>9. ASSUME m = n PROVE n \notin NewlyOpenable /\ \A x \in Spots : At(x, OF(n), OpenItem(n), ToRun)
                                                     => x[1] = t /\ x[2] = "task"
  <2> DEFINE y == <<t, "task">>
  <2>1. y \in Spots /\ y[1] = t /\ y[2] = "task" /\ At(y, OF(n), OpenItem(n), ToRun)
    BY <1>2, <1>9, TaskAtSpot DEF ToRun
  <2> HIDE DEF y
  <2>2. \A x \in Spots : At(x, OF(n), OpenItem(n), ToRun) => x = y
    BY <2>1 DEF OpenInv, AtOneSpot
  <2>3. n \in Openable(provided, headed)
    BY <2>1 DEF OpenInv
  <2> QED
    BY <2>1, <2>2, <2>3 DEF NewlyOpenable
<1>10. \A K : /\ InSeq(FramesFor(K, n), s) =>
                   ("open" \in K /\ n \in NewlyOpenable) \/ ("opened" \in K /\ m = n)
              /\ Once(FramesFor(K, n), s)
  <2>1. TAKE K
  <2>2. ~(InSeq(FramesFor(K, n), a) /\ InSeq(FramesFor(K, n), b))
    BY <1>4, <1>6, <1>9
  <2>3. InSeq(FramesFor(K, n), s) <=> InSeq(FramesFor(K, n), a) \/ InSeq(FramesFor(K, n), b)
    BY <1>4, <1>5, JoinHolds
  <2>4. Once(FramesFor(K, n), s)
    BY <1>4, <1>5, <1>6, <2>2, JoinHolds
  <2> QED
    BY <1>4, <1>6, <2>3, <2>4
<1> HIDE DEF s
<1>11. /\ Once(PF(n), s) /\ ~InSeq(PF(n), s) /\ ~InSeq(AF(n), s) /\ ~InSeq(RF(n), s)
       /\ Once(OF(n), s) /\ (InSeq(OF(n), s) => n \in NewlyOpenable \/ m = n)
  BY <1>10 DEF PF, OF, AF, RF
<1>12. ProcessInv(n)' /\ ReadyInv(n)'
  BY <1>1, <1>3, <1>8, <1>11, NodeKeptByGet
<1>13. OpenInv(n)'
  <2>1. CASE m # n
    BY <1>1, <1>3, <1>8, <1>11, <2>1, OpensNodes DEF NodeTasksKept
  <2>2. CASE m = n
    <3>1. ~(run'[t] = OpenItem(n) /\ pc'[t] \in ToRun)
      BY <1>1, <1>2 DEF TypeInv, AppTypes, ToRun
    <3>2. \A u \in Threads : Once(OF(n), frames[u])
      BY DEF OpenInv, AtOneSpot
    <3>3. AtOneSpot(OF(n), OpenItem(n), ToRun)'
      BY <1>1, <1>3, <1>8, <1>9, <1>11, <2>2, <3>1, <3>2, OneSpotByGet DEF NodeTasksKept
    <3>4. <<t, "task">> \in Spots /\ At(<<t, "task">>, OF(n), OpenItem(n), ToRun)
      BY <1>2, <2>2, TaskAtSpot DEF ToRun
    <3>5. status[n] = "prepared" /\ n \in Openable(provided, headed)
      BY <3>4 DEF OpenInv
    <3>6. n \in Openable(provided', headed')
      BY <1>1, <3>5, OpenableGrows
    <3> QED
      BY <1>1, <3>3, <3>5, <3>6 DEF OpenInv
  <2> QED
    BY <2>1, <2>2
<1> QED
  BY <1>12, <1>13 DEF NodeInv

LEMMA WorkerStepNodes ==
  ASSUME TypeInv, FramesInv, WorkerPlaces, NEW t \in Workers, WorkerStep(t) \/ NodeError(t),
         NEW n \in Nodes, NodeInv(n)
  PROVE  NodeInv(n)'
BY TakeTaskNodes, OpenNodeNodes, SourceStepNodes, SourceClosedNodes, ProcessSinkNodes,
   EndSchedulingNodes, FinishTaskNodes, NodeErrorNodes
DEF WorkerStep

-----------------------------------------------------------------------------
(* Steps outside the tasks.                                                *)
NodesQuiet ==
  /\ UNCHANGED <<run, frames, status, in_flight, provided, headed>>
  /\ \A q \in Queues : queue'[q] \subseteq queue[q]

PlacesOutside ==
  \A u \in Threads : pc'[u] = pc[u] \/ pc'[u] \notin InTask

LEMMA OutsideTasksKept ==
  ASSUME PlacesOutside, run' = run, NEW n
  PROVE  NodeTasksKept(n)
BY DEF PlacesOutside, NodeTasksKept, TasksKept, InTask, BeforeClose, ToRun

LEMMA QuietNodes ==
  ASSUME NodesQuiet, PlacesOutside, NEW n \in Nodes, NodeInv(n)
  PROVE  NodeInv(n)'
<1>1. NodeTasksKept(n)
  BY OutsideTasksKept DEF NodesQuiet
<1> QED
  BY <1>1, NodeKeptQuietly DEF NodesQuiet, NodeInv

(* A source of the layer that is being added waits for it.                 *)
LayerWaits ==
  idler \in {"stop", "activate"} => \A s \in work : s \in Sources => status[s] = "opened"

LEMMA ActivateNodeNodes ==
  ASSUME TypeInv, LayerWaits, ActivateNode, NEW n \in Nodes, NodeInv(n)
  PROVE  NodeInv(n)'
<1> ProcessInv(n) /\ OpenInv(n) /\ ReadyInv(n) /\ FramesTyped
  BY DEF NodeInv, TypeInv
<1> DEFINE first == CHOOSE k \in DOMAIN active_sources :
                      /\ active_sources[k] \in work
                      /\ \A j \in 1 .. k - 1 : active_sources[j] \notin work
           m == active_sources[first]
           s == <<Frame("ready", m)>>
<1>1. /\ idler = "activate" /\ AtRest(Idler) /\ work # {}
      /\ status' = [status EXCEPT ![m] = "active"]
      /\ frames' = [frames EXCEPT ![Idler] = s]
      /\ UNCHANGED <<queue, run, pc, in_flight, provided, headed>>
  BY DEF ActivateNode, queueVars
<1>2. m \in work /\ m \in Sources
  BY <1>1, FirstOfLayer DEF TypeInv, StateTypes
<1> HIDE DEF first
<1>3. status[m] = "opened" /\ m \in Nodes
  BY <1>1, <1>2 DEF LayerWaits, Nodes
<1>4. Frame("ready", m) \in AllFrames
  BY <1>3, NodeFrame DEF NodeKinds
<1> HIDE DEF m
<1>5. Gets(Idler, s)
  BY <1>1, <1>4, SchedulerAssumption DEF Gets, AtRest
<1>6. \A K : (InSeq(FramesFor(K, n), s) <=> "ready" \in K /\ m = n) /\ Once(FramesFor(K, n), s)
  BY OneFrame
<1> HIDE DEF s
<1>7. /\ Once(PF(n), s) /\ ~InSeq(PF(n), s) /\ Once(OF(n), s) /\ ~InSeq(OF(n), s)
      /\ ~InSeq(AF(n), s) /\ (InSeq(RF(n), s) => m = n)
  BY <1>6 DEF PF, OF, AF, RF
<1>8. NodeTasksKept(n)
  BY <1>1, OutsideTasksKept DEF PlacesOutside
<1>9. status \in [Nodes -> {"prepared", "opened", "active", "closed"}]
  BY DEF TypeInv, NodeTypes
<1>10. CASE m # n
  <2>1. status'[n] = status[n]
    BY <1>1, <1>3, <1>9, <1>10
  <2> QED
    BY <1>1, <1>5, <1>7, <1>8, <1>10, <2>1, NodeKeptByGet DEF NodeInv
<1>11. CASE m = n
  <2>1. status'[n] = "active" /\ status[n] = "opened"
    BY <1>1, <1>3, <1>9, <1>11
  <2>2. OpenInv(n)'
    BY <1>1, <1>5, <1>7, <1>8, <2>1, OpensNodes DEF NodeTasksKept
  <2>3. ReadyInv(n)'
    BY <1>1, <1>5, <1>7, <1>8, <2>1, NodeKeptByGet
  <2>4. AtOneSpot(PF(n), ProcessItem(n), InTask)
    BY DEF ProcessInv
  <2>5. SpotsKept(PF(n), ProcessItem(n), InTask)
    BY <1>1, <1>5, <1>7, <1>8, <2>4, SpotsKeptByGet DEF NodeTasksKept
  <2>6. Ready(n) = "active"
    BY <1>2, <1>11 DEF Ready
  <2>7. \A x \in Spots : ~At(x, PF(n), ProcessItem(n), InTask)
    BY <2>1, <2>6 DEF ProcessInv
  <2>8. ProcessInv(n)'
    BY <2>1, <2>5, <2>7, ProcessGone DEF SpotsKept, Closed
  <2> QED
    BY <2>2, <2>3, <2>8 DEF NodeInv
<1> QED
  BY <1>10, <1>11

(* A thread outside its task that gets frames for a stream or for the      *)
(* readiness of a node with inputs.                                        *)
LEMMA OutsideGetsNodes ==
  ASSUME FramesTyped, NEW t, NEW s, Gets(t, s), PlacesOutside,
         UNCHANGED <<queue, run, status, in_flight, provided, headed>>, NEW n \in Nodes, NodeInv(n),
         Once(PF(n), s), ~InSeq(PF(n), s), Once(OF(n), s), ~InSeq(OF(n), s), ~InSeq(AF(n), s),
         InSeq(RF(n), s) => n \in Sinks
  PROVE  NodeInv(n)'
<1>1. NodeTasksKept(n)
  BY OutsideTasksKept
<1> QED
  BY <1>1, NodeKeptByGet DEF NodeInv

LEMMA IdlerStepNodes ==
  ASSUME TypeInv, LayerWaits, IdlerStep, NEW n \in Nodes, NodeInv(n)
  PROVE  NodeInv(n)'
<1>1. CASE \/ IdleLoopEnds \/ Quit \/ LayerBlocked \/ TakeNextLayer \/ StopQueuesForLayer
           \/ RestartQueuesForLayer \/ LayerScheduled \/ IdleUnthrottles \/ CollectFullStreams
           \/ StreamsGrown
  <2>1. UNCHANGED <<queue, run, frames, status, in_flight, provided, headed, pc>>
    BY <1>1
    DEF IdleLoopEnds, LayerBlocked, TakeNextLayer, LayerScheduled, IdleUnthrottles,
        CollectFullStreams, StreamsGrown, Quit, StopQueuesForLayer, StopQueues,
        RestartQueuesForLayer, SetQueuesRunning, queueVars, nodeVars, threadVars
  <2>2. NodesQuiet /\ PlacesOutside
    BY <2>1 DEF NodesQuiet, PlacesOutside
  <2> QED
    BY <2>2, QuietNodes
<1>2. CASE GrowFullStream
  <2>1. /\ UNCHANGED <<queue, run, status, in_flight, provided, headed, pc>> /\ AtRest(Idler)
        /\ \/ frames' = frames
           \/ \E p \in work : frames' = [frames EXCEPT ![Idler] = <<Frame("resize", p)>>]
    BY <1>2 DEF GrowFullStream, queueVars, nodeVars
  <2>2. PlacesOutside
    BY <2>1 DEF PlacesOutside
  <2>3. CASE frames' = frames
    BY <2>1, <2>2, <2>3, QuietNodes DEF NodesQuiet
  <2>4. ASSUME NEW p \in work, frames' = [frames EXCEPT ![Idler] = <<Frame("resize", p)>>]
        PROVE  NodeInv(n)'
    <3> DEFINE s == <<Frame("resize", p)>>
    <3>1. Frame("resize", p) \in AllFrames
      BY StreamFrame DEF TypeInv, IdleTypes
    <3>2. Gets(Idler, s)
      BY <2>1, <2>4, <3>1, SchedulerAssumption DEF Gets, AtRest
    <3>3. \A K : (InSeq(FramesFor(K, n), s) <=> "resize" \in K /\ p = n) /\ Once(FramesFor(K, n), s)
      BY OneFrame
    <3> HIDE DEF s
    <3> QED
      BY <2>1, <2>2, <3>2, <3>3, OutsideGetsNodes DEF PF, OF, AF, RF, TypeInv
  <2> QED
    BY <2>1, <2>3, <2>4
<1> QED
  BY <1>1, <1>2, ActivateNodeNodes DEF IdlerStep

LEMMA ControlStepNodes ==
  ASSUME TypeInv, NEW t \in Control, ControlStep(t) \/ Resume(t) \/ CloseAllSourceNodes(t),
         NEW n \in Nodes, NodeInv(n)
  PROVE  NodeInv(n)'
<1>1. /\ UNCHANGED <<queue, run, frames, status, in_flight, provided, headed>>
      /\ \/ pc' = pc
         \/ \E place \in {"idle", "stop_sources"} : pc' = [pc EXCEPT ![t] = place]
  BY DEF ControlStep, Pause, Cancel, ExhaustQueues, Resume, CloseAllPacketSources,
      CloseAllSourceNodes, SetQueuesRunning, SubmitWaitingTasksOnQueues, queueVars, nodeVars,
      threadVars
<1>2. NodesQuiet
  BY <1>1 DEF NodesQuiet
<1>3. PlacesOutside
  BY <1>1 DEF PlacesOutside, InTask, TypeInv, AppTypes
<1> QED
  BY <1>2, <1>3, QuietNodes

(* A run begins with the opening of the nodes that wait for nothing.       *)
FreshRun ==
  /\ \A t \in Threads : frames[t] = IF t = Main THEN OpenFrames(Openable({}, {})) ELSE <<>>
  /\ \A q \in Queues : queue[q] = {}
  /\ \A t \in Threads : run[t] = NoItem
  /\ \A n \in Nodes : status[n] = "prepared"
  /\ in_flight = {} /\ provided = {} /\ headed = {}

LEMMA FreshNodes == FreshRun => \A n \in Nodes : NodeInv(n)
<1> SUFFICES ASSUME FreshRun, NEW n \in Nodes PROVE NodeInv(n)
  OBVIOUS
<1>1. Openable({}, {}) \subseteq Nodes
  BY DEF Openable
<1>2. \A K : \A t \in Threads :
        /\ Holds(t, FramesFor(K, n)) => "open" \in K /\ n \in Openable({}, {}) /\ t = Main
        /\ Once(FramesFor(K, n), frames[t])
  <2> TAKE K
  <2>1. /\ InSeq(FramesFor(K, n), OpenFrames(Openable({}, {}))) => "open" \in K /\ n \in Openable({}, {})
        /\ Once(FramesFor(K, n), OpenFrames(Openable({}, {})))
    BY <1>1, OpeningFrames
  <2>2. ~InSeq(FramesFor(K, n), <<>>) /\ Once(FramesFor(K, n), <<>>)
    BY EmptySeqHolds
  <2> QED
    BY <2>1, <2>2 DEF FreshRun, Holds
<1>3. ProcessItem(n) # NoItem /\ OpenItem(n) # NoItem
  BY QueueAssumption, SchedulerAssumption DEF ProcessItem, OpenItem
<1>4. \A x \in Spots : \A L : /\ ~At(x, PF(n), ProcessItem(n), L)
                              /\ At(x, OF(n), OpenItem(n), L) =>
                                   x[1] = Main /\ x[2] = "frame" /\ n \in Openable({}, {})
  <2>1. \A t \in Threads : ~Holds(t, PF(n))
    BY <1>2 DEF PF
  <2>2. \A t \in Threads : Holds(t, OF(n)) => n \in Openable({}, {}) /\ t = Main
    BY <1>2 DEF OF
  <2> QED
    BY <1>3, <2>1, <2>2 DEF At, Spots, FreshRun
<1>5. ProcessInv(n)
  <2>1. \A t \in Threads : Once(PF(n), frames[t])
    BY <1>2 DEF PF
  <2> QED
    BY <1>4, <2>1 DEF ProcessInv, AtOneSpot, Closed, FreshRun
<1>6. OpenInv(n)
  <2>1. \A t \in Threads : Once(OF(n), frames[t])
    BY <1>2 DEF OF
  <2>2. \A x, y \in Spots : At(x, OF(n), OpenItem(n), ToRun) /\ At(y, OF(n), OpenItem(n), ToRun) => x = y
    BY <1>4, SpotsEqual
  <2> QED
    BY <1>4, <2>1, <2>2 DEF OpenInv, AtOneSpot, FreshRun
<1>7. ReadyInv(n)
  BY <1>2 DEF ReadyInv, RF, AF
<1> QED
  BY <1>5, <1>6, <1>7 DEF NodeInv

LEMMA FreshNodesNext == FreshRun' => (\A n \in Nodes : NodeInv(n))'
BY FreshNodes, PTL

LEMMA MainStepNodes ==
  ASSUME RunsInv, MainPlaces, MainStep, NEW n \in Nodes, NodeInv(n)
  PROVE  NodeInv(n)'
<1> TypeInv /\ FramesTyped /\ Main \in Threads /\ pc \in [Threads -> Places]
  BY SchedulerAssumption DEF RunsInv, SchedInv, TypeInv, AppTypes
<1>1. CASE \/ Start \/ AddPacketToInputStream \/ WaitUntilGraphInputStreamUnthrottled
           \/ AddedPacketToGraphInputStream \/ WaitUntilIdle \/ ObservedIdle
           \/ ClosedAllGraphInputStreams \/ WaitUntilDone \/ CleanupQueue \/ FinishRun
  <2>1. /\ UNCHANGED <<run, frames, status, in_flight, provided, headed>>
        /\ queue' = queue \/ \E q \in Queues : queue' = [queue EXCEPT ![q] = {}]
        /\ pc' = pc \/ \E place \in Places \ InTask : pc' = [pc EXCEPT ![Main] = place]
    BY <1>1
    DEF Start, AddPacketToInputStream, WaitUntilGraphInputStreamUnthrottled,
        AddedPacketToGraphInputStream, WaitUntilIdle, ObservedIdle,
        ClosedAllGraphInputStreams, WaitUntilDone, CleanupQueue, FinishRun,
        SetQueuesRunning, CleanupAfterRun, queueVars, nodeVars, threadVars, Places, InTask
  <2>2. NodesQuiet
    BY <2>1 DEF NodesQuiet, TypeInv, QueueTypeOK
  <2>3. PlacesOutside
    BY <2>1 DEF PlacesOutside
  <2> QED
    BY <2>2, <2>3, QuietNodes
<1>2. CASE AddPacket
  <2>1. /\ UNCHANGED <<queue, run, status, in_flight, provided, headed>> /\ pc[Main] = "check"
        /\ \E place \in {"failed", "waiting", "added"} : pc' = [pc EXCEPT ![Main] = place]
        /\ frames' = frames \/ frames' = [frames EXCEPT ![Main] = AfterAdd(feeding)]
    BY <1>2 DEF AddPacket, Emit, queueVars, nodeVars
  <2>2. PlacesOutside
    BY <2>1 DEF PlacesOutside, InTask
  <2>3. CASE frames' = frames
    BY <2>1, <2>2, <2>3, QuietNodes DEF NodesQuiet
  <2>4. CASE frames' = [frames EXCEPT ![Main] = AfterAdd(feeding)]
    <3> DEFINE s == AfterAdd(feeding)
    <3>1. feeding \in Producers
      BY <2>1 DEF TypeInv, AppTypes, Producers
    <3>2. s \in Seq(AllFrames)
      BY <3>1, FramesAfterAdd
    <3>3. Gets(Main, s)
      BY <2>1, <2>4, <3>2 DEF Gets, MainPlaces
    <3>4. /\ Once(PF(n), s) /\ ~InSeq(PF(n), s) /\ Once(OF(n), s) /\ ~InSeq(OF(n), s)
          /\ ~InSeq(AF(n), s)
      BY <3>1, AfterPacketFrames DEF PF, OF, AF
    <3>5. InSeq(RF(n), s) => n \in Sinks
      BY <3>1, AfterPacketFrames DEF RF
    <3> HIDE DEF s
    <3> QED
      BY <2>1, <2>2, <3>3, <3>4, <3>5, OutsideGetsNodes
  <2> QED
    BY <2>1, <2>3, <2>4
<1>3. CASE CloseInputStreams
  <2>1. /\ UNCHANGED <<queue, run, status, in_flight, provided, headed>> /\ AtRest(Main)
        /\ pc[Main] \in {"feed", "failed"}
        /\ pc' = [pc EXCEPT ![Main] = IF GraphInputs \subseteq done' THEN "closed_all" ELSE @]
    BY <1>3 DEF CloseInputStreams, queueVars, nodeVars
  <2>2. PICK S \in SUBSET GraphInputs : frames' = [frames EXCEPT ![Main] = AfterClosing(S)]
    BY <1>3 DEF CloseInputStreams, OpenInputs
  <2>3. PlacesOutside
    BY <2>1 DEF PlacesOutside, InTask
  <2> DEFINE s == AfterClosing(S)
  <2>4. s \in Seq(AllFrames)
    BY FramesAfterClosing
  <2>5. Gets(Main, s)
    BY <2>1, <2>2, <2>4 DEF Gets, AtRest
  <2>6. /\ Once(PF(n), s) /\ ~InSeq(PF(n), s) /\ Once(OF(n), s) /\ ~InSeq(OF(n), s)
        /\ ~InSeq(AF(n), s)
    BY AfterClosingFrames DEF PF, OF, AF
  <2>7. InSeq(RF(n), s) => n \in Sinks
    BY AfterClosingFrames DEF RF, Nodes
  <2> HIDE DEF s
  <2> QED
    BY <2>1, <2>3, <2>5, <2>6, <2>7, OutsideGetsNodes
<1>4. CASE Reset
  <2>1. pc[Main] = "done" /\ \A t \in Threads : frames[t] = <<>> /\ run[t] = NoItem
    BY <1>4, NobodyPushesWhenDone DEF Reset
  <2>2. /\ frames' = [frames EXCEPT ![Main] = OpenFrames(Openable({}, {}))]
        /\ status' = [m \in Nodes |-> "prepared"]
        /\ in_flight' = {} /\ provided' = {} /\ headed' = {} /\ queue' = queue /\ run' = run
    BY <1>4 DEF Reset
  <2>3. \A q \in Queues : queue[q] = {}
    BY <2>1 DEF RunsInv, DoneMeansIdle, IsIdle
  <2>4. \A t \in Threads : frames'[t] = IF t = Main THEN OpenFrames(Openable({}, {})) ELSE <<>>
    BY <2>1, <2>2 DEF FramesTyped
  <2>5. FreshRun'
    BY <2>1, <2>2, <2>3, <2>4 DEF FreshRun, Openable
  <2>6. (\A m \in Nodes : NodeInv(m))'
    BY <2>5, FreshNodesNext
  <2> QED
    BY <2>6
<1> QED
  BY <1>1, <1>2, <1>3, <1>4 DEF MainStep

-----------------------------------------------------------------------------
(* Places and frames fit each other in every step.                         *)
PlacesInv == WorkerPlaces /\ MainPlaces

OthersKeep(t) ==
  \A u \in Threads \ {t} : /\ u \in Workers \cup {Main} => pc'[u] = pc[u] /\ run'[u] = run[u]
                           /\ frames[u] = <<>> => frames'[u] = <<>>

LEMMA OthersKeepWorkers ==
  ASSUME WorkerPlaces, NEW t, OthersKeep(t), NEW u \in Workers, u # t
  PROVE  /\ pc'[u] = "run" => frames'[u] = <<>>
         /\ pc'[u] \in {"closing", "sched"} => run'[u] # NoItem /\ run'[u][2] = "process"
         /\ pc'[u] = "closing" => Node(u)' \in Sources
BY QueueAssumption DEF WorkerPlaces, OthersKeep, Node

LEMMA OthersKeepMain ==
  ASSUME MainPlaces, NEW t, OthersKeep(t), t # Main
  PROVE  MainPlaces'
BY SchedulerAssumption DEF MainPlaces, OthersKeep

LEMMA WorkerStepPlaces ==
  ASSUME TypeInv, FramesInv, PlacesInv, NEW t \in Workers, WorkerStep(t) \/ NodeError(t)
  PROVE  PlacesInv'
<1> WorkerPlaces /\ MainPlaces /\ t \in Threads /\ t # Main
  BY QueueAssumption, SchedulerAssumption DEF PlacesInv
<1> /\ pc \in [Threads -> Places] /\ run \in [Threads -> Items \cup {NoItem}]
    /\ frames \in [Threads -> Seq(AllFrames)]
  BY DEF TypeInv, AppTypes, QueueTypeOK, FramesTyped
<1> DEFINE WorkerOK == /\ pc'[t] = "run" => frames'[t] = <<>>
                       /\ pc'[t] \in {"closing", "sched"} => run'[t] # NoItem /\ run'[t][2] = "process"
                       /\ pc'[t] = "closing" => run'[t][1] \in Sources
<1>5. OthersKeep(t) /\ WorkerOK
  <2>1. CASE TakeTask(t)
    <3>1. PICK q \in Queues : RunNextTask(t, q)
      BY <2>1 DEF TakeTask
    <3>2. /\ \E i : run' = [run EXCEPT ![t] = i]
          /\ pc' = [pc EXCEPT ![t] = "run"] /\ frames' = frames /\ run[t] = NoItem
      BY <2>1, <3>1 DEF TakeTask, RunNextTask
    <3> QED
      BY <3>2 DEF OthersKeep, FramesInv, WorkersScheduleInTask
  <2>2. CASE OpenNode(t) \/ ProcessSource(t) \/ CloseSource(t) \/ ProcessSink(t)
    <3>1. /\ pc[t] = "run" /\ run' = run /\ \E s : frames' = [frames EXCEPT ![t] = s]
          /\ \/ pc' = [pc EXCEPT ![t] = "end"]
             \/ pc' = [pc EXCEPT ![t] = "sched"] /\ run[t][2] = "process"
             \/ pc' = [pc EXCEPT ![t] = "closing"] /\ run[t][2] = "process" /\ run[t][1] \in Sources
      BY <2>2
      DEF OpenNode, ProcessSource, CloseSource, ProcessSink, Emit, Executing, Node, queueVars
    <3>2. run[t] # NoItem
      BY <3>1 DEF FramesInv, WorkersScheduleInTask
    <3>3. OthersKeep(t)
      BY <3>1 DEF OthersKeep
    <3>4. WorkerOK
      BY <3>1, <3>2
    <3> QED
      BY <3>3, <3>4
  <2>3. CASE SourceClosed(t) \/ EndScheduling(t) \/ NodeError(t)
    <3>1. /\ pc[t] \in {"closing", "sched", "run"} /\ run' = run
          /\ frames' = frames \/ \E s : frames' = [frames EXCEPT ![t] = s]
          /\ \/ pc' = [pc EXCEPT ![t] = "end"]
             \/ /\ pc' = [pc EXCEPT ![t] = "sched"]
                /\ pc[t] = "closing" \/ run[t][2] # "open"
      BY <2>3 DEF SourceClosed, EndScheduling, NodeError, queueVars
    <3>2. run[t] # NoItem
      BY <3>1 DEF FramesInv, WorkersScheduleInTask
    <3>3. run[t][2] \in {"open", "process"}
      BY <3>2, SchedulerAssumption
    <3>4. OthersKeep(t)
      BY <3>1 DEF OthersKeep
    <3>5. WorkerOK
      BY <3>1, <3>2, <3>3 DEF WorkerPlaces
    <3> QED
      BY <3>4, <3>5
  <2>4. CASE FinishTask(t)
    <3>1. /\ run' = [run EXCEPT ![t] = NoItem] /\ frames' = frames
          /\ pc' = [pc EXCEPT ![t] = "idle"]
      BY <2>4 DEF FinishTask, EndTask
    <3> QED
      BY <3>1 DEF OthersKeep
  <2> QED
    BY <2>1, <2>2, <2>3, <2>4 DEF WorkerStep
<1>6. WorkerPlaces'
  BY <1>5, OthersKeepWorkers DEF WorkerPlaces, Node
<1> QED
  BY <1>5, <1>6, OthersKeepMain DEF PlacesInv

LEMMA PlacesInductive ==
  ASSUME SchedInv, PlacesInv, [Next]_vars
  PROVE  PlacesInv'
<1> WorkerPlaces /\ MainPlaces /\ TypeInv /\ FramesInv /\ ControlInv
  BY DEF PlacesInv, SchedInv
<1> /\ pc \in [Threads -> Places] /\ run \in [Threads -> Items \cup {NoItem}]
    /\ frames \in [Threads -> Seq(AllFrames)] /\ Workers \subseteq Threads /\ Main \notin Workers
    /\ Idler \notin Workers /\ Idler # Main
  BY QueueAssumption, SchedulerAssumption DEF TypeInv, AppTypes, QueueTypeOK, FramesTyped
<1>1. ASSUME NEW t, OthersKeep(t), t \notin Workers, MainPlaces' PROVE PlacesInv'
  BY <1>1, OthersKeepWorkers DEF PlacesInv, WorkerPlaces
<1>2. ASSUME NEW t, OthersKeep(t), t \notin Workers \cup {Main} PROVE PlacesInv'
  BY <1>1, <1>2, OthersKeepMain
<1>3. ASSUME NEW t \in Threads, QueueStep(t) PROVE PlacesInv'
  <2>1. OthersKeep(NoThread)
    BY <1>3, QueueStepFrames DEF SameFrames, OthersKeep
  <2>2. NoThread \notin Workers \cup {Main}
    BY SchedulerAssumption
  <2> QED
    BY <1>2, <2>1, <2>2
<1>4. CASE IdlerStep
  <2>1. pc' = pc /\ run' = run /\ (frames' = frames \/ \E s : frames' = [frames EXCEPT ![Idler] = s])
    BY <1>4
    DEF IdlerStep, IdleLoopEnds, LayerBlocked, TakeNextLayer, ActivateNode, LayerScheduled,
        IdleUnthrottles, CollectFullStreams, GrowFullStream, StreamsGrown, Quit,
        StopQueuesForLayer, StopQueues, RestartQueuesForLayer, SetQueuesRunning, queueVars,
        threadVars
  <2>2. OthersKeep(Idler)
    BY <2>1 DEF OthersKeep
  <2> QED
    BY <1>2, <2>2
<1>5. CASE MainStep
  <2>1. /\ run' = run
        /\ pc' = pc \/ \E l : pc' = [pc EXCEPT ![Main] = l]
        /\ frames' = frames \/ \E s : frames' = [frames EXCEPT ![Main] = s]
    BY <1>5
    DEF MainStep, Start, AddPacketToInputStream, AddPacket, Emit,
        WaitUntilGraphInputStreamUnthrottled, AddedPacketToGraphInputStream, WaitUntilIdle,
        ObservedIdle, CloseInputStreams, ClosedAllGraphInputStreams, WaitUntilDone,
        CleanupQueue, CleanupAfterRun, FinishRun, Reset, SetQueuesRunning, queueVars, threadVars
  <2>2. OthersKeep(Main)
    BY <2>1 DEF OthersKeep
  <2>3. CASE CleanupQueue
    BY <1>1, <2>2, <2>3 DEF CleanupQueue, threadVars, MainPlaces
  <2>4. CASE AddPacketToInputStream
    BY <1>1, <2>2, <2>4 DEF AddPacketToInputStream, AtRest, MainPlaces
  <2>5. CASE AddPacket \/ WaitUntilGraphInputStreamUnthrottled
    <3>1. /\ frames[Main] = <<>>
          /\ pc' = [pc EXCEPT ![Main] = "added"] \/ frames' = frames
      BY <2>5 DEF AddPacket, WaitUntilGraphInputStreamUnthrottled, MainPlaces
    <3> QED
      BY <1>1, <2>2, <3>1, SchedulerAssumption DEF MainPlaces
  <2>6. CASE \/ Start \/ AddedPacketToGraphInputStream \/ WaitUntilIdle \/ ObservedIdle
             \/ CloseInputStreams \/ ClosedAllGraphInputStreams \/ WaitUntilDone
             \/ FinishRun \/ Reset
    <3>1. pc'[Main] \notin {"check", "waiting"}
      BY <2>6, SchedulerAssumption
      DEF Start, AddedPacketToGraphInputStream, WaitUntilIdle, ObservedIdle,
          CloseInputStreams, ClosedAllGraphInputStreams, WaitUntilDone, FinishRun, Reset
    <3> QED
      BY <1>1, <2>2, <3>1 DEF MainPlaces
  <2> QED
    BY <1>5, <2>3, <2>4, <2>5, <2>6 DEF MainStep
<1>6. ASSUME NEW t \in Control, ControlStep(t) \/ Resume(t) \/ CloseAllSourceNodes(t)
      PROVE  PlacesInv'
  <2>1. t \notin Workers \cup {Main} /\ t \in Threads
    BY SchedulerAssumption
  <2>2. run' = run /\ frames' = frames /\ (pc' = pc \/ \E l : pc' = [pc EXCEPT ![t] = l])
    BY <1>6
    DEF ControlStep, Pause, Cancel, ExhaustQueues, Resume, CloseAllPacketSources,
        CloseAllSourceNodes, SetQueuesRunning, SubmitWaitingTasksOnQueues, queueVars, threadVars
  <2>3. OthersKeep(t)
    BY <2>2 DEF OthersKeep
  <2> QED
    BY <1>2, <2>1, <2>3
<1>7. CASE UNCHANGED vars
  BY <1>7 DEF vars, queueVars, threadVars, PlacesInv, WorkerPlaces, MainPlaces, Node
<1> QED
  BY <1>3, <1>4, <1>5, <1>6, <1>7, WorkerStepPlaces DEF Next

(***************************************************************************)
(* The layers of sources: where a source waits, from its opening to the    *)
(* end of its run.                                                         *)
(***************************************************************************)
NodesInv == \A n \in Nodes : NodeInv(n)

Listed(s) == \E k \in DOMAIN active_sources : active_sources[k] = s

(* A source of sources_queue_ was opened and not yet activated.            *)
QueuedOpened == \A s \in sources_queue : status[s] = "opened"

(* The layer being added was taken from sources_queue_.                    *)
LayerTaken ==
  idler \in {"stop", "activate"} =>
    work \subseteq Sources /\ work \cap sources_queue = {}

(* In a run every source is waited for, queued, listed or closed.          *)
NoSourceLost ==
  pc[Main] # "done" =>
    \A s \in Sources :
      /\ status[s] = "prepared" => s \in unopened_sources
      /\ s \in unopened_sources \cup sources_queue \/ Listed(s) \/ Closed(s)

(* Before a source is listed, those of the lower layers are closed.        *)
ListedInOrder ==
  \A s, r \in Sources :
    Layer[r] < Layer[s] /\ (status[s] = "active" \/ Listed(s)) => Closed(r)

NoneListedWhenDone ==
  pc[Main] = "done" => sources_queue = {} /\ active_sources = <<>>

LayerInv ==
  /\ QueuedOpened /\ LayerWaits /\ LayerTaken /\ NoSourceLost /\ ListedInOrder
  /\ NoneListedWhenDone

(* Steps that leave the layers alone.                                      *)
LayersQuiet ==
  /\ UNCHANGED <<sources_queue, unopened_sources, active_sources>>
  /\ \A s \in Sources : status'[s] = status[s]
  /\ idler' \in {"stop", "activate"} => idler \in {"stop", "activate"} /\ work' = work
  /\ pc'[Main] = "done" <=> pc[Main] = "done"

LEMMA LayersKept ==
  ASSUME StateTypes, LayerInv, LayersQuiet
  PROVE  LayerInv'
<1> USE DEF LayersQuiet
<1>1. QueuedOpened' /\ LayerWaits' /\ LayerTaken'
  BY DEF LayerInv, QueuedOpened, LayerWaits, LayerTaken, StateTypes
<1>2. \A s \in Sources : (Listed(s)' <=> Listed(s)) /\ (Closed(s)' <=> Closed(s))
  BY DEF Listed, Closed
<1>3. NoSourceLost'
  BY <1>2 DEF LayerInv, NoSourceLost
<1>4. ListedInOrder'
  BY <1>2 DEF LayerInv, ListedInOrder
<1>5. NoneListedWhenDone'
  BY DEF LayerInv, NoneListedWhenDone
<1> QED
  BY <1>1, <1>3, <1>4, <1>5 DEF LayerInv

(* A source reaches sources_queue_ as it is opened.                        *)
LEMMA NodeOpenedLayers ==
  ASSUME RunsInv, NodesInv, LayerInv, NEW t \in Threads, NodeOpened(t)
  PROVE  LayerInv'
<1> TypeInv /\ FramesTyped /\ StateTypes
  BY DEF RunsInv, SchedInv, TypeInv
<1> DEFINE n == Head(frames[t]).node
<1>1. /\ Scheduling(t, "opened")
      /\ status' = [status EXCEPT ![n] = "opened"]
      /\ UNCHANGED <<active_sources, idler, work, pc>>
      /\ \/ /\ n \in Sources
            /\ sources_queue' = sources_queue \cup {n}
            /\ unopened_sources' = unopened_sources \ {n}
         \/ n \notin Sources /\ UNCHANGED <<sources_queue, unopened_sources>>
  BY DEF NodeOpened, idleVars
<1>2. n \in Nodes /\ frames[t] # <<>> /\ frames[t] \in Seq(AllFrames)
  BY <1>1, HeadOfFrames DEF NodeKinds
<1>3. status \in [Nodes -> {"prepared", "opened", "active", "closed"}]
  BY DEF TypeInv, NodeTypes
<1>4. CASE n \notin Sources
  <2>1. LayersQuiet
    BY <1>1, <1>2, <1>3, <1>4 DEF LayersQuiet
  <2> QED
    BY <2>1, LayersKept
<1>5. CASE n \in Sources
  <2>1. Head(frames[t]) \in OF(n)
    BY <1>1, HeadIs DEF OF
  <2>2. InSeq(OF(n), frames[t])
    BY <1>2, <2>1, ReplacedHead, EmptySeqType
  <2>3. At(<<t, "frame">>, OF(n), OpenItem(n), ToRun) /\ <<t, "frame">> \in Spots
    BY <2>2 DEF At, Holds, Spots
  <2>4. status[n] = "prepared"
    BY <1>2, <2>3 DEF NodesInv, NodeInv, OpenInv
  <2>5. pc[Main] # "done"
    BY <1>2, NobodyPushesWhenDone
  <2>6. status'[n] = "opened" /\ \A s \in Nodes : s # n => status'[s] = status[s]
    BY <1>1, <1>2, <1>3
  <2> HIDE DEF n
  <2>7. /\ sources_queue' = sources_queue \cup {n} /\ unopened_sources' = unopened_sources \ {n}
        /\ sources_queue \subseteq Nodes
    BY <1>1, <1>5 DEF StateTypes, Nodes
  <2>8. \A s \in Sources : (Listed(s)' <=> Listed(s)) /\ (Closed(s)' <=> Closed(s))
    BY <1>1, <2>4, <2>6 DEF Listed, Closed, Nodes
  <2>9. QueuedOpened'
    BY <2>6, <2>7 DEF LayerInv, QueuedOpened
  <2>10. LayerWaits' /\ LayerTaken'
    BY <1>1, <2>4, <2>6, <2>7 DEF LayerInv, LayerWaits, LayerTaken, Nodes
  <2>11. NoSourceLost'
    BY <1>1, <2>6, <2>7, <2>8 DEF LayerInv, NoSourceLost, Nodes
  <2>12. ListedInOrder'
    BY <2>6, <2>8 DEF LayerInv, ListedInOrder, Nodes
  <2>13. NoneListedWhenDone'
    BY <1>1, <2>5 DEF NoneListedWhenDone
  <2> QED
    BY <2>9, <2>10, <2>11, <2>12, <2>13 DEF LayerInv
<1> QED
  BY <1>4, <1>5

LEMMA QueueStepLayers ==
  ASSUME RunsInv, NodesInv, LayerInv, NEW t \in Threads, QueueStep(t)
  PROVE  LayerInv'
<1> StateTypes /\ ControlInv
  BY DEF RunsInv, SchedInv, TypeInv
<1>1. CASE \/ AddNodeForOpen(t) \/ ScheduleNodeIfNotThrottled(t) \/ CheckIfBecameReady(t)
           \/ AddSource(t) \/ AddPrepared(t) \/ Push(t)
           \/ UpdateThrottledNodes(t) \/ SetMaxQueueSize(t)
           \/ QueueBecameActive(t) \/ QueueBecameIdle(t)
           \/ SubmitTask(t) \/ SubmitWaiting(t)
  <2>1. UNCHANGED <<sources_queue, unopened_sources, active_sources, status>>
    BY <1>1
    DEF AddNodeForOpen, ScheduleNodeIfNotThrottled, CheckIfBecameReady, AddSource,
        AddPrepared, Push, UpdateThrottledNodes, SetMaxQueueSize, QueueBecameActive,
        QueueBecameIdle, SubmitTask, SubmitWaiting, stateVars, nodeVars
  <2>2. pc' = pc
    BY <1>1
    DEF AddNodeForOpen, ScheduleNodeIfNotThrottled, CheckIfBecameReady, AddSource,
        AddPrepared, Push, UpdateThrottledNodes, SetMaxQueueSize, QueueBecameActive,
        QueueBecameIdle, SubmitTask, SubmitWaiting, threadVars
  <2>3. UNCHANGED <<idler, work>> \/ idler' = "loop"
    BY <1>1
    DEF AddNodeForOpen, ScheduleNodeIfNotThrottled, CheckIfBecameReady, AddSource,
        AddPrepared, Push, UpdateThrottledNodes, SetMaxQueueSize, QueueBecameActive,
        QueueBecameIdle, SubmitTask, SubmitWaiting, idleVars, HandleIdle
  <2>4. LayersQuiet
    BY <2>1, <2>2, <2>3 DEF LayersQuiet
  <2> QED
    BY <2>4, LayersKept
<1> QED
  BY <1>1, NodeOpenedLayers DEF QueueStep

(* A source that is closed was active and no longer waits for its layer.   *)
LEMMA SourceClosedLayers ==
  ASSUME RunsInv, PlacesInv, NodesInv, LayerInv, NEW t \in Workers, SourceClosed(t)
  PROVE  LayerInv'
<1> TypeInv /\ StateTypes /\ t \in Threads
  BY QueueAssumption DEF RunsInv, SchedInv, TypeInv
<1> DEFINE n == Node(t)
<1>1. /\ pc[t] = "closing" /\ status' = [status EXCEPT ![n] = "closed"]
      /\ pc' = [pc EXCEPT ![t] = "sched"]
      /\ UNCHANGED <<sources_queue, unopened_sources, active_sources, idler, work>>
  BY DEF SourceClosed, stateVars, idleVars
<1>2. n \in Sources /\ n \in Nodes /\ run[t] # NoItem /\ run[t][2] = "process"
  BY <1>1 DEF PlacesInv, WorkerPlaces, Nodes
<1>3. status \in [Nodes -> {"prepared", "opened", "active", "closed"}]
  BY DEF TypeInv, NodeTypes
<1>4. run[t] = ProcessItem(n)
  <2>1. run[t] \in Items
    BY <1>2 DEF TypeInv, QueueTypeOK
  <2> QED
    BY <1>2, <2>1, SchedulerAssumption DEF Node, ProcessItem
<1>5. status[n] = "active"
  <2>1. At(<<t, "task">>, PF(n), ProcessItem(n), BeforeClose) /\ <<t, "task">> \in Spots
    BY <1>1, <1>4 DEF At, Spots, BeforeClose
  <2> QED
    BY <1>2, <2>1 DEF NodesInv, NodeInv, ProcessInv, Ready
<1>6. status'[n] = "closed" /\ \A s \in Nodes : s # n => status'[s] = status[s]
  BY <1>1, <1>2, <1>3
<1>7. pc'[Main] = pc[Main]
  BY <1>1, SchedulerAssumption
<1> HIDE DEF n
<1>8. \A s \in Sources : (Listed(s)' <=> Listed(s)) /\ (Closed(s)' <=> Closed(s) \/ s = n)
  BY <1>1, <1>6 DEF Listed, Closed, Nodes
<1>9. QueuedOpened'
  BY <1>1, <1>5, <1>6 DEF LayerInv, QueuedOpened, StateTypes, Nodes
<1>10. LayerWaits' /\ LayerTaken'
  BY <1>1, <1>5, <1>6 DEF LayerInv, LayerWaits, LayerTaken, Nodes
<1>11. NoSourceLost'
  BY <1>1, <1>6, <1>7, <1>8 DEF LayerInv, NoSourceLost, Nodes
<1>12. ListedInOrder'
  BY <1>6, <1>8 DEF LayerInv, ListedInOrder, Nodes
<1>13. NoneListedWhenDone'
  BY <1>1, <1>7 DEF LayerInv, NoneListedWhenDone
<1> QED
  BY <1>9, <1>10, <1>11, <1>12, <1>13 DEF LayerInv

LEMMA WorkerStepLayers ==
  ASSUME RunsInv, PlacesInv, NodesInv, LayerInv, NEW t \in Workers,
         WorkerStep(t) \/ NodeError(t)
  PROVE  LayerInv'
<1> StateTypes /\ TypeInv /\ t # Main
  BY SchedulerAssumption DEF RunsInv, SchedInv, TypeInv
<1>1. CASE ~SourceClosed(t)
  <2>1. UNCHANGED <<sources_queue, unopened_sources, active_sources, idler, work>>
    BY <1>1
    DEF WorkerStep, TakeTask, OpenNode, ProcessSource, CloseSource, ProcessSink,
        EndScheduling, FinishTask, NodeError, stateVars, idleVars
  <2>2. \E l : pc' = [pc EXCEPT ![t] = l]
    BY <1>1
    DEF WorkerStep, TakeTask, OpenNode, ProcessSource, CloseSource, ProcessSink,
        EndScheduling, FinishTask, NodeError
  <2>3. status' = status \/ \E c \in Sinks : status' = [status EXCEPT ![c] = "closed"]
    BY <1>1
    DEF WorkerStep, TakeTask, OpenNode, ProcessSource, CloseSource, ProcessSink,
        EndScheduling, FinishTask, NodeError, nodeVars
  <2>4. \A s \in Sources : status'[s] = status[s]
    BY <2>3, SchedulerAssumption DEF TypeInv, NodeTypes, Nodes
  <2>5. pc'[Main] = pc[Main]
    BY <2>2, SchedulerAssumption DEF TypeInv, AppTypes
  <2>6. LayersQuiet
    BY <2>1, <2>4, <2>5 DEF LayersQuiet
  <2> QED
    BY <2>6, LayersKept
<1> QED
  BY <1>1, SourceClosedLayers

(* CleanupActiveSources drops nothing but closed sources.                  *)
LEMMA CleanupKeepsOpen ==
  ASSUME active_sources \in Seq(Sources)
  PROVE  /\ \A k \in DOMAIN CleanupActiveSources : Listed(CleanupActiveSources[k])
         /\ \A s : Listed(s) =>
              Closed(s) \/ \E k \in DOMAIN CleanupActiveSources : CleanupActiveSources[k] = s
<1> DEFINE open == {k \in DOMAIN active_sources : ~Closed(active_sources[k])}
<1>1. CASE open = {}
  <2>1. CleanupActiveSources = <<>> /\ \A k \in DOMAIN active_sources : Closed(active_sources[k])
    BY <1>1 DEF CleanupActiveSources
  <2> QED
    BY <2>1 DEF Listed
<1>2. CASE open # {}
  <2>1. Len(active_sources) \in Nat /\ open \in SUBSET (1 .. Len(active_sources))
    OBVIOUS
  <2>2. \E k \in open : \A j \in open : j <= k
    <3> HIDE DEF open
    <3> QED
      BY <1>2, <2>1, GreatestNumber
  <2>3. PICK k \in open : /\ k = CHOOSE i \in open : \A j \in open : j <= i
                          /\ \A j \in open : j <= k
    BY <2>2
  <2>4. CleanupActiveSources = SubSeq(active_sources, 1, k)
    BY <1>2, <2>3 DEF CleanupActiveSources
  <2>5. k \in 1 .. Len(active_sources)
    BY <2>1, <2>3
  <2>6. /\ DOMAIN CleanupActiveSources = 1 .. k
        /\ \A j \in 1 .. k : CleanupActiveSources[j] = active_sources[j]
    BY <2>4, <2>5
  <2>7. \A j \in DOMAIN active_sources : j \in 1 .. k \/ Closed(active_sources[j])
    <3> SUFFICES ASSUME NEW j \in DOMAIN active_sources, ~Closed(active_sources[j])
                 PROVE  j \in 1 .. k
      OBVIOUS
    <3>1. j \in open /\ j \in 1 .. Len(active_sources)
      OBVIOUS
    <3> QED
      BY <2>3, <2>5, <3>1
  <2>8. \A j \in 1 .. k : j \in DOMAIN active_sources
    BY <2>5
  <2> HIDE DEF open
  <2> QED
    BY <2>6, <2>7, <2>8 DEF Listed
<1> QED
  BY <1>1, <1>2

(* active_sources_ loses closed sources only.                              *)
LEMMA CleanupLayers ==
  ASSUME StateTypes, ControlInv, LayerInv, MayAct, active_sources' = CleanupActiveSources,
         idler' \notin {"stop", "activate"},
         UNCHANGED <<sources_queue, unopened_sources, status, pc>>
  PROVE  LayerInv'
<1>1. \A s \in Sources : /\ Listed(s)' => Listed(s)
                         /\ Listed(s) => Listed(s)' \/ Closed(s)
                         /\ Closed(s)' <=> Closed(s)
  BY CleanupKeepsOpen DEF StateTypes, Listed, Closed
<1>2. pc[Main] # "done"
  BY DEF MayAct, ControlInv, MainKnowsState
<1>3. QueuedOpened' /\ LayerWaits' /\ LayerTaken' /\ NoneListedWhenDone'
  BY <1>2 DEF LayerInv, QueuedOpened, LayerWaits, LayerTaken, NoneListedWhenDone
<1>4. NoSourceLost'
  BY <1>1, <1>2 DEF LayerInv, NoSourceLost
<1>5. ListedInOrder'
  BY <1>1 DEF LayerInv, ListedInOrder
<1> QED
  BY <1>3, <1>4, <1>5 DEF LayerInv

(* The next layer is taken when all that was listed is closed, and nothing *)
(* below it waits.                                                         *)
LEMMA TakeNextLayerLayers ==
  ASSUME StateTypes, ControlInv, LayerInv, TakeNextLayer
  PROVE  LayerInv'
<1>1. /\ CleanupActiveSources = <<>> /\ sources_queue # {} /\ ~LowerLayerUnopened /\ MayAct
      /\ active_sources' \in SetToSeqs(NextLayer)
      /\ sources_queue' = sources_queue \ NextLayer
      /\ work' = NextLayer
      /\ UNCHANGED <<unopened_sources, status, pc>>
  BY DEF TakeNextLayer, NeedsNextLayer, nodeVars, threadVars
<1>2. pc[Main] # "done"
  BY <1>1 DEF MayAct, ControlInv, MainKnowsState
<1>3. \A s \in Sources : Listed(s) => Closed(s)
  BY <1>1, CleanupKeepsOpen DEF StateTypes
<1>4. \A s \in NextLayer : Listed(s)'
  BY <1>1, NextLayerListed DEF Listed
<1>5. \A s : Listed(s)' => s \in NextLayer
  BY <1>1 DEF Listed, SetToSeqs
<1>6. \A s \in sources_queue : TopLayer <= Layer[s]
  <2> DEFINE T == {Layer[s] : s \in sources_queue}
  <2>1. T \in SUBSET Nat /\ T # {}
    BY <1>1, SchedulerAssumption DEF StateTypes
  <2>2. PICK l \in T : \A k \in T : l <= k
    <3> HIDE DEF T
    <3> QED
      BY <2>1, LeastNumber
  <2>3. \E k \in T : \A s \in sources_queue : k <= Layer[s]
    BY <2>2
  <2>4. TopLayer = CHOOSE k \in T : \A s \in sources_queue : k <= Layer[s]
    BY DEF TopLayer
  <2> HIDE DEF T
  <2> QED
    BY <2>3, <2>4
<1>7. \A s \in NextLayer : s \in sources_queue /\ s \in Sources /\ Layer[s] = TopLayer
  BY DEF NextLayer, StateTypes
<1>8. \A s \in Sources : Layer[s] \in Nat
  BY SchedulerAssumption
<1>9. \A s \in NextLayer, r \in Sources : Layer[r] < Layer[s] => Closed(r)
  <2> SUFFICES ASSUME NEW s \in NextLayer, NEW r \in Sources, Layer[r] < Layer[s]
               PROVE  Closed(r)
    OBVIOUS
  <2>1. r \notin unopened_sources
    BY <1>1, <1>7 DEF LowerLayerUnopened
  <2>2. r \notin sources_queue
    BY <1>6, <1>7, <1>8
  <2> QED
    BY <1>2, <1>3, <2>1, <2>2 DEF LayerInv, NoSourceLost
<1>10. \A s \in Sources : Closed(s)' <=> Closed(s)
  BY <1>1 DEF Closed
<1>11. QueuedOpened' /\ NoneListedWhenDone'
  BY <1>1, <1>2 DEF LayerInv, QueuedOpened, NoneListedWhenDone
<1>12. LayerWaits' /\ LayerTaken'
  BY <1>1, <1>7 DEF LayerInv, QueuedOpened, LayerWaits, LayerTaken
<1>13. NoSourceLost'
  BY <1>1, <1>2, <1>3, <1>4, <1>10 DEF LayerInv, NoSourceLost
<1>14. ListedInOrder'
  BY <1>1, <1>5, <1>9, <1>10 DEF LayerInv, ListedInOrder
<1> QED
  BY <1>11, <1>12, <1>13, <1>14 DEF LayerInv

(* A source of the layer is activated.                                     *)
LEMMA ActivateNodeLayers ==
  ASSUME TypeInv, ControlInv, LayerInv, ActivateNode
  PROVE  LayerInv'
<1> StateTypes /\ status \in [Nodes -> {"prepared", "opened", "active", "closed"}]
  BY DEF TypeInv, NodeTypes
<1> DEFINE first == CHOOSE k \in DOMAIN active_sources :
                      /\ active_sources[k] \in work
                      /\ \A j \in 1 .. k - 1 : active_sources[j] \notin work
           m == active_sources[first]
<1>1. /\ idler = "activate" /\ work # {}
      /\ status' = [status EXCEPT ![m] = "active"]
      /\ work' = work \ {m}
      /\ UNCHANGED <<sources_queue, unopened_sources, active_sources, pc, idler>>
  BY DEF ActivateNode, stateVars
<1>2. m \in work /\ m \in Sources
  BY <1>1, FirstOfLayer DEF TypeInv, StateTypes
<1> HIDE DEF first
<1>3. Listed(m)
  BY <1>1, <1>2 DEF TypeInv, LayerListed, Listed
<1> HIDE DEF m
<1>4. status[m] = "opened" /\ m \notin sources_queue
  BY <1>1, <1>2 DEF LayerInv, LayerWaits, LayerTaken
<1>5. status'[m] = "active" /\ \A s \in Sources : s # m => status'[s] = status[s]
  BY <1>1, <1>2 DEF Nodes
<1>6. \A s \in Sources : (Closed(s)' <=> Closed(s)) /\ (Listed(s)' <=> Listed(s))
  BY <1>1, <1>4, <1>5 DEF Closed, Listed
<1>7. QueuedOpened'
  BY <1>1, <1>4, <1>5 DEF LayerInv, QueuedOpened, StateTypes
<1>8. LayerWaits' /\ LayerTaken'
  BY <1>1, <1>5 DEF LayerInv, LayerWaits, LayerTaken
<1>9. NoSourceLost'
  BY <1>1, <1>5, <1>6 DEF LayerInv, NoSourceLost
<1>10. ListedInOrder'
  BY <1>3, <1>5, <1>6 DEF LayerInv, ListedInOrder
<1>11. NoneListedWhenDone'
  BY <1>1 DEF LayerInv, NoneListedWhenDone
<1> QED
  BY <1>7, <1>8, <1>9, <1>10, <1>11 DEF LayerInv

LEMMA IdlerStepLayers ==
  ASSUME RunsInv, LayerInv, IdlerStep
  PROVE  LayerInv'
<1> TypeInv /\ StateTypes /\ ControlInv
  BY DEF RunsInv, SchedInv, TypeInv
<1>1. CASE \/ IdleLoopEnds \/ StopQueuesForLayer \/ RestartQueuesForLayer \/ LayerScheduled
           \/ CollectFullStreams \/ GrowFullStream \/ StreamsGrown
  <2>1. /\ UNCHANGED <<sources_queue, unopened_sources, active_sources, status, pc>>
        /\ idler' \in {"stop", "activate"} => idler = "stop" /\ work' = work
    BY <1>1
    DEF IdleLoopEnds, StopQueuesForLayer, RestartQueuesForLayer, LayerScheduled,
        CollectFullStreams, GrowFullStream, StreamsGrown, LeaveHandleIdle, stateVars,
        nodeVars, threadVars
  <2>2. LayersQuiet
    BY <2>1 DEF LayersQuiet
  <2> QED
    BY <2>2, LayersKept
<1>2. CASE Quit \/ IdleUnthrottles
  <2>1. /\ MayAct /\ active_sources' = CleanupActiveSources
        /\ idler' \in {"off", "unthrottle"}
        /\ UNCHANGED <<sources_queue, unopened_sources, status, pc>>
    BY <1>2 DEF Quit, IdleUnthrottles, LeaveHandleIdle, nodeVars, threadVars
  <2> QED
    BY <2>1, CleanupLayers
<1>3. CASE LayerBlocked
  <2>1. /\ MayAct /\ active_sources' = CleanupActiveSources
        /\ idler' = "loop"
        /\ UNCHANGED <<sources_queue, unopened_sources, status, pc>>
    BY <1>3 DEF LayerBlocked, NeedsNextLayer, idleVars, nodeVars, threadVars
  <2> QED
    BY <2>1, CleanupLayers
<1> QED
  BY <1>1, <1>2, <1>3, TakeNextLayerLayers, ActivateNodeLayers DEF IdlerStep

LEMMA MainStepLayers ==
  ASSUME RunsInv, LayerInv, MainStep
  PROVE  LayerInv'
<1> TypeInv /\ StateTypes /\ ControlInv /\ Main \in Threads /\ pc \in [Threads -> Places]
  BY SchedulerAssumption DEF RunsInv, SchedInv, TypeInv, AppTypes
<1>1. CASE ~FinishRun /\ ~Reset
  <2>1. /\ UNCHANGED <<sources_queue, unopened_sources, active_sources, status>>
        /\ UNCHANGED <<idler, work>> \/ idler' = "loop"
    BY <1>1
    DEF MainStep, Start, AddPacketToInputStream, AddPacket, HandleIdle,
        WaitUntilGraphInputStreamUnthrottled, AddedPacketToGraphInputStream, WaitUntilIdle,
        ObservedIdle, CloseInputStreams, ClosedAllGraphInputStreams, WaitUntilDone,
        CleanupQueue, stateVars, nodeVars, idleVars
  <2>2. /\ pc[Main] # "done"
        /\ pc' = pc \/ \E l \in Places \ {"done"} : pc' = [pc EXCEPT ![Main] = l]
    BY <1>1
    DEF MainStep, Start, AddPacketToInputStream, AddPacket, HandleIdle,
        WaitUntilGraphInputStreamUnthrottled, AddedPacketToGraphInputStream, WaitUntilIdle,
        ObservedIdle, CloseInputStreams, ClosedAllGraphInputStreams, WaitUntilDone,
        CleanupQueue, threadVars, Places
  <2>3. LayersQuiet
    BY <2>1, <2>2 DEF LayersQuiet
  <2> QED
    BY <2>3, LayersKept
<1>2. CASE FinishRun
  <2>1. /\ sources_queue' = {} /\ active_sources' = <<>> /\ pc'[Main] = "done"
        /\ pc[Main] = "cleanup" /\ UNCHANGED <<status, idler, work>>
    BY <1>2 DEF FinishRun, nodeVars, idleVars
  <2>2. idler \in {"off", "loop"}
    BY <2>1 DEF ControlInv, MainKnowsState, IdlerActsInRun
  <2>3. \A s : ~Listed(s)'
    BY <2>1 DEF Listed
  <2>4. ListedInOrder'
    BY <2>1, <2>3 DEF LayerInv, ListedInOrder, Closed
  <2> QED
    BY <2>1, <2>2, <2>4
    DEF LayerInv, QueuedOpened, LayerWaits, LayerTaken, NoSourceLost, NoneListedWhenDone
<1>3. CASE Reset
  <2>1. /\ pc[Main] = "done" /\ pc'[Main] = "prepare" /\ unopened_sources' = Sources
        /\ status' = [n \in Nodes |-> "prepared"]
        /\ UNCHANGED <<sources_queue, active_sources, idler, work>>
    BY <1>3 DEF Reset, idleVars
  <2>2. idler \in {"off", "loop"} /\ sources_queue = {} /\ active_sources = <<>>
    BY <2>1 DEF ControlInv, MainKnowsState, IdlerActsInRun, LayerInv, NoneListedWhenDone
  <2>3. \A s : ~Listed(s)'
    BY <2>1, <2>2 DEF Listed
  <2>4. ListedInOrder'
    BY <2>1, <2>3 DEF ListedInOrder, Nodes
  <2> QED
    BY <2>1, <2>2, <2>4
    DEF LayerInv, QueuedOpened, LayerWaits, LayerTaken, NoSourceLost, NoneListedWhenDone
<1> QED
  BY <1>1, <1>2, <1>3

LEMMA ControlStepLayers ==
  ASSUME TypeInv, LayerInv, NEW t \in Control,
         ControlStep(t) \/ Resume(t) \/ CloseAllSourceNodes(t)
  PROVE  LayerInv'
<1>1. /\ UNCHANGED <<sources_queue, unopened_sources, active_sources, status>>
      /\ UNCHANGED <<idler, work>> \/ idler' = "loop"
      /\ pc' = pc \/ \E l : pc' = [pc EXCEPT ![t] = l]
  BY DEF ControlStep, Pause, Cancel, Resume, CloseAllPacketSources, CloseAllSourceNodes,
      HandleIdle, stateVars, nodeVars, idleVars, threadVars
<1>2. pc'[Main] = pc[Main]
  BY <1>1, SchedulerAssumption DEF TypeInv, AppTypes
<1>3. LayersQuiet
  BY <1>1, <1>2 DEF LayersQuiet
<1> QED
  BY <1>3, LayersKept DEF TypeInv

-----------------------------------------------------------------------------
(* The nodes, the layers and the places of the threads, step by step.      *)
ScheduleInv == RunsInv /\ PlacesInv /\ NodesInv /\ LayerInv

LEMMA NodesInductive ==
  ASSUME ScheduleInv, [Next]_vars
  PROVE  NodesInv'
<1> SUFFICES ASSUME NEW n \in Nodes PROVE NodeInv(n)'
  BY DEF NodesInv, Nodes
<1> /\ RunsInv /\ TypeInv /\ FramesInv /\ WorkerPlaces /\ MainPlaces /\ LayerWaits
    /\ NodeInv(n) /\ FramesTyped /\ QueueTypeOK /\ NodeTypes
  BY DEF ScheduleInv, RunsInv, SchedInv, PlacesInv, TypeInv, LayerInv, NodesInv
<1>1. CASE UNCHANGED vars
  <2>1. NodesQuiet /\ PlacesOutside
    BY <1>1 DEF vars, queueVars, nodeVars, threadVars, NodesQuiet, PlacesOutside
  <2> QED
    BY <2>1, QuietNodes
<1> QED
  BY <1>1, QueueStepNodes, WorkerStepNodes, IdlerStepNodes, MainStepNodes, ControlStepNodes
  DEF Next

LEMMA LayersInductive ==
  ASSUME ScheduleInv, [Next]_vars
  PROVE  LayerInv'
<1> RunsInv /\ TypeInv /\ StateTypes /\ PlacesInv /\ NodesInv /\ LayerInv
  BY DEF ScheduleInv, RunsInv, SchedInv, TypeInv
<1>1. CASE UNCHANGED vars
  <2>1. LayersQuiet
    BY <1>1 DEF vars, stateVars, nodeVars, idleVars, threadVars, LayersQuiet
  <2> QED
    BY <2>1, LayersKept
<1> QED
  BY <1>1, QueueStepLayers, WorkerStepLayers, IdlerStepLayers, MainStepLayers,
     ControlStepLayers
  DEF Next

LEMMA ScheduleInvInductive ==
  ASSUME ScheduleInv, [Next]_vars
  PROVE  ScheduleInv'
BY RunsInvInductive, PlacesInductive, NodesInductive, LayersInductive
DEF ScheduleInv, RunsInv

LEMMA ScheduleInvInit == Init => ScheduleInv
<1> SUFFICES ASSUME Init PROVE ScheduleInv
  OBVIOUS
<1> Main \in Threads /\ Workers \subseteq Threads /\ Main \notin Workers
  BY QueueAssumption, SchedulerAssumption
<1>1. FreshRun
  BY DEF Init, QueueInit, FreshRun
<1>2. PlacesInv
  BY DEF Init, PlacesInv, WorkerPlaces, MainPlaces
<1>3. \A s : ~Listed(s)
  BY DEF Init, Listed
<1>4. LayerInv
  BY <1>3
  DEF Init, LayerInv, QueuedOpened, LayerWaits, LayerTaken, NoSourceLost, ListedInOrder,
      NoneListedWhenDone, Nodes
<1> QED
  BY <1>1, <1>2, <1>4, RunsInvInit, FreshNodes DEF ScheduleInv, NodesInv

(* What the layers and the places of a node promise.                       *)
LEMMA ScheduleSound ==
  ASSUME ScheduleInv
  PROVE  LayersInOrder /\ NoClosedNodeQueued
<1>1. LayersInOrder
  BY DEF ScheduleInv, LayerInv, ListedInOrder, LayersInOrder
<1>2. NoClosedNodeQueued
  <2> SUFFICES ASSUME NEW q \in Queues, NEW i \in queue[q] PROVE ~Closed(i[1])
    BY DEF NoClosedNodeQueued
  <2> DEFINE n == i[1]
  <2>1. i \in Items
    BY DEF ScheduleInv, RunsInv, SchedInv, TypeInv, QueueTypeOK
  <2>2. n \in Nodes /\ (i = ProcessItem(n) \/ i = OpenItem(n))
    BY <2>1, SchedulerAssumption DEF ProcessItem, OpenItem
  <2> HIDE DEF n
  <2>3. NodeInv(n) /\ <<q, "queue">> \in Spots
    BY <2>2 DEF ScheduleInv, NodesInv, Spots
  <2>4. CASE i = ProcessItem(n)
    <3>1. At(<<q, "queue">>, PF(n), ProcessItem(n), BeforeClose)
      BY <2>4 DEF At
    <3> QED
      BY <2>3, <3>1 DEF NodeInv, ProcessInv, Ready, Closed, n
  <2>5. CASE i = OpenItem(n)
    <3>1. At(<<q, "queue">>, OF(n), OpenItem(n), ToRun)
      BY <2>5 DEF At
    <3> QED
      BY <2>3, <3>1 DEF NodeInv, OpenInv, Closed, n
  <2> QED
    BY <2>2, <2>4, <2>5
<1> QED
  BY <1>1, <1>2

(***************************************************************************)
(* Throttling: the news that a stream became full, or has room again, is   *)
(* under way as long as full_input_streams_ does not say so.               *)
(***************************************************************************)
TF(p) == FramesFor({"throttle"}, p)

NewsUnderWay(p) == \E t \in Threads : Holds(t, TF(p))

Throttled(p) == NewsUnderWay(p) \/ (p \in full <=> IsFull(p))

ThrottleInv == \A p \in Producers : Throttled(p)

LEMMA ThrottleInvImplies ==
  ASSUME ThrottleInv
  PROVE  ThrottleTracksFullness
<1> SUFFICES ASSUME NEW p \in Producers,
                    \A t \in Threads : \A k \in DOMAIN frames[t] :
                      frames[t][k] # Frame("throttle", p)
             PROVE  p \in full <=> IsFull(p)
  BY DEF ThrottleTracksFullness
<1>1. \A f \in TF(p) : f = Frame("throttle", p)
  <2>1. \A f \in [kind : {"throttle"}, node : {p}] : f = [kind |-> "throttle", node |-> p]
    OBVIOUS
  <2> QED
    BY <2>1 DEF TF, FramesFor, Frame
<1>2. ~NewsUnderWay(p)
  BY <1>1 DEF NewsUnderWay, Holds, InSeq
<1> QED
  BY <1>2 DEF ThrottleInv, Throttled

(* The news stays under way, and a stream that it is not about is as full  *)
(* as it was.                                                              *)
NewsKept(p) == \A u \in Threads : Holds(u, TF(p)) => Holds(u, TF(p))'

SameFullness(p) ==
  /\ IsFull(p)' <=> IsFull(p)
  /\ p \in full' <=> p \in full

LEMMA ThrottledKept ==
  ASSUME NEW p, Throttled(p), NewsKept(p), SameFullness(p)
  PROVE  Throttled(p)'
BY DEF Throttled, NewsUnderWay, NewsKept, SameFullness

LEMMA NewsKeptByReplace ==
  ASSUME FramesTyped, NEW t \in Threads, NEW kind, Scheduling(t, kind), NEW p,
         kind # "throttle" \/ Head(frames[t]).node # p,
         \/ Pop(t)
         \/ \E s \in Seq(AllFrames) : Replace(t, s)
  PROVE  NewsKept(p)
<1>1. PICK s \in Seq(AllFrames) : Replaced(t, s)
  <2>1. CASE Pop(t)
    <3>1. Replaced(t, <<>>)
      BY <2>1, PopIs
    <3> QED
      BY <3>1, EmptySeqType
  <2> QED
    BY <2>1, ReplaceIs
<1>2. Head(frames[t]) \notin TF(p)
  BY HeadIs DEF TF
<1>3. Holds(t, TF(p)) => Holds(t, TF(p))'
  BY <1>1, <1>2, HoldsAfterReplace
<1>4. \A u \in Threads : u # t => frames'[u] = frames[u]
  BY <1>1, HoldsAfterReplace
<1> QED
  BY <1>3, <1>4 DEF NewsKept, Holds

(* A thread with nothing to call has no news to lose.                      *)
LEMMA NewsKeptByRest ==
  ASSUME FramesTyped, NEW p,
         \/ frames' = frames
         \/ \E t \in Threads : frames[t] = <<>> /\ \E s : frames' = [frames EXCEPT ![t] = s]
  PROVE  NewsKept(p)
<1>1. \A u \in Threads : frames'[u] = frames[u] \/ frames[u] = <<>>
  BY DEF FramesTyped
<1>2. \A u \in Threads : frames[u] = <<>> => ~Holds(u, TF(p))
  BY EmptySeqHolds DEF Holds
<1> QED
  BY <1>1, <1>2 DEF NewsKept, Holds

LEMMA NewsComes ==
  ASSUME NEW t \in Threads, NEW p, Holds(t, TF(p))'
  PROVE  Throttled(p)'
BY DEF Throttled, NewsUnderWay

LEMMA QuietThrottled ==
  ASSUME NEW p \in Producers, Throttled(p), NewsKept(p),
         UNCHANGED <<pk, max_queue_size, full>>
  PROVE  Throttled(p)'
BY ThrottledKept DEF SameFullness, IsFull

(* A packet fills a stream with the news of it.                            *)
LEMMA EmitThrottled ==
  ASSUME FramesTyped, StreamTypes, NEW t \in Threads, frames[t] = <<>>,
         NEW m \in Producers, Emit(t, m), NEW p \in Producers, Throttled(p)
  PROVE  Throttled(p)'
<1> DEFINE a == IF ~IsFull(m) /\ pk[m] + 1 >= max_queue_size[m]
                THEN <<Frame("throttle", m)>> ELSE <<>>
           b == IF pk[m] = 0 THEN <<Frame("ready", Dest[m])>> ELSE <<>>
<1>1. /\ pk' = [pk EXCEPT ![m] = @ + 1] /\ UNCHANGED <<max_queue_size, full>>
      /\ frames' = [frames EXCEPT ![t] = AfterAdd(m)]
  BY DEF Emit
<1>2. AfterAdd(m) \in Seq(AllFrames)
  BY FramesAfterAdd
<1>3. Gets(t, AfterAdd(m))
  BY <1>1, <1>2 DEF Gets
<1>4. NewsKept(p)
  BY <1>1, NewsKeptByRest
<1>5. CASE p = m /\ ~IsFull(m) /\ pk[m] + 1 >= max_queue_size[m]
  <2>1. Dest[m] \in Nodes
    BY SchedulerAssumption DEF Nodes
  <2>2. Frame("throttle", m) \in AllFrames /\ Frame("ready", Dest[m]) \in AllFrames
    BY <2>1, NodeFrame, StreamFrame DEF NodeKinds
  <2>3. a \in Seq(AllFrames) /\ b \in Seq(AllFrames)
    BY <2>2
  <2>4. a = <<Frame("throttle", m)>> /\ AfterAdd(m) = a \o b
    BY <1>5 DEF AfterAdd
  <2>5. InSeq(TF(p), <<Frame("throttle", p)>>)
    BY OneFrame DEF TF
  <2>6. InSeq(TF(p), a)
    BY <1>5, <2>4, <2>5
  <2> HIDE DEF a, b
  <2>7. InSeq(TF(p), a \o b)
    BY <2>3, <2>6, JoinHolds
  <2>8. InSeq(TF(p), AfterAdd(m))
    BY <2>4, <2>7
  <2>9. Holds(t, TF(p))'
    BY <1>3, <2>8, HoldsAfterGet
  <2> QED
    BY <2>9, NewsComes
<1>6. CASE ~(p = m /\ ~IsFull(m) /\ pk[m] + 1 >= max_queue_size[m])
  <2>1. /\ pk'[p] = (IF p = m THEN pk[m] + 1 ELSE pk[p]) /\ pk[p] \in Nat
        /\ max_queue_size[p] \in Nat
    BY <1>1 DEF StreamTypes
  <2>2. SameFullness(p)
    BY <1>1, <1>6, <2>1 DEF SameFullness, IsFull
  <2> QED
    BY <1>4, <2>2, ThrottledKept
<1> QED
  BY <1>5, <1>6

(* An invocation takes packets and tells of the streams that had none left.*)
LEMMA CheckIfBecameReadyThrottled ==
  ASSUME FramesTyped, StreamTypes, NEW t \in Threads, CheckIfBecameReady(t),
         NEW p \in Producers, Throttled(p)
  PROVE  Throttled(p)'
<1> DEFINE n == Head(frames[t]).node
           freed == {r \in Popped(n) : IsFull(r) /\ pk[r] - 1 < max_queue_size[r]}
           a == SetToSeq({Frame("throttle", r) : r \in freed})
           b == <<Frame("commit", n)>>
<1>1. /\ Scheduling(t, "ready") /\ n \in Sinks
      /\ UNCHANGED <<max_queue_size, full>>
      /\ \/ Pop(t) /\ pk' = pk
         \/ /\ pk' = [r \in Producers |-> IF r \in Popped(n) THEN pk[r] - 1 ELSE pk[r]]
            /\ Replace(t, a \o b)
  BY DEF CheckIfBecameReady
<1>2. CASE Pop(t) /\ pk' = pk
  <2>1. NewsKept(p)
    BY <1>1, <1>2, NewsKeptByReplace
  <2> QED
    BY <1>1, <1>2, <2>1, QuietThrottled
<1>3. CASE /\ pk' = [r \in Producers |-> IF r \in Popped(n) THEN pk[r] - 1 ELSE pk[r]]
           /\ Replace(t, a \o b)
  <2>1. freed \in SUBSET Producers
    BY DEF Popped, Inputs
  <2>2. a \in Seq(AllFrames)
    BY <2>1, FramesOfStreams
  <2>3. Frame("commit", n) \in AllFrames
    BY <1>1, NodeFrame DEF NodeKinds, Nodes
  <2>4. b \in Seq(AllFrames)
    BY <2>3
  <2>5. a \o b \in Seq(AllFrames)
    BY <2>2, <2>4
  <2>6. Replaced(t, a \o b)
    BY <1>1, <1>3, <2>5, ReplaceIs
  <2>7. CASE p \in freed
    <3>1. IsFiniteSet({Frame("throttle", r) : r \in freed})
      <4>1. IsFiniteSet(freed)
        BY <2>1, FS_Subset, FiniteProducers
      <4> HIDE DEF freed
      <4> QED
        BY <4>1, FiniteFrames
    <3>2. Frame("throttle", p) \in TF(p)
      BY FrameIn DEF TF
    <3>3. \E x \in {Frame("throttle", r) : r \in freed} : x \in TF(p)
      BY <2>7, <3>2
    <3>4. InSeq(TF(p), a)
      BY <3>1, <3>3, SetToSeqLists
    <3> HIDE DEF a, b
    <3>5. InSeq(TF(p), a \o b)
      BY <2>2, <2>4, <3>4, JoinHolds
    <3>6. Holds(t, TF(p))'
      BY <2>6, <3>5, HoldsAfterReplace
    <3> QED
      BY <3>6, NewsComes
  <2>8. CASE p \notin freed
    <3>1. SameFullness(p)
      BY <1>1, <1>3, <2>8 DEF SameFullness, IsFull, StreamTypes, Popped
    <3> HIDE DEF a, b
    <3>2. \E s \in Seq(AllFrames) : Replace(t, s)
      BY <1>3, <2>5
    <3>3. NewsKept(p)
      BY <1>1, <3>2, NewsKeptByReplace
    <3> QED
      BY <3>1, <3>3, ThrottledKept
  <2> QED
    BY <2>7, <2>8
<1> QED
  BY <1>1, <1>2, <1>3

(* The callbacks that settle whether a producer is throttled.              *)
LEMMA ThrottlingThrottled ==
  ASSUME FramesTyped, StreamTypes, NEW t \in Threads,
         UpdateThrottledNodes(t) \/ SetMaxQueueSize(t), NEW p \in Producers, Throttled(p)
  PROVE  Throttled(p)'
<1> DEFINE m == Head(frames[t]).node
<1>1. CASE UpdateThrottledNodes(t)
  <2>1. /\ Scheduling(t, "throttle") /\ UNCHANGED <<pk, max_queue_size>>
        /\ full' = IF IsFull(m) THEN full \cup {m} ELSE full \ {m}
        /\ Pop(t) \/ (m \in Sources /\ Replace(t, <<Frame("add", m)>>))
    BY <1>1 DEF UpdateThrottledNodes
  <2>2. CASE p = m
    BY <2>1, <2>2 DEF Throttled, IsFull
  <2>3. CASE p # m
    <3>1. <<Frame("add", m)>> \in Seq(AllFrames) \/ m \notin Sources
      BY NodeFrameType DEF NodeKinds, Nodes
    <3>2. Pop(t) \/ \E s \in Seq(AllFrames) : Replace(t, s)
      BY <2>1, <3>1
    <3>3. NewsKept(p)
      BY <2>1, <2>3, <3>2, NewsKeptByReplace
    <3>4. SameFullness(p)
      BY <2>1, <2>3 DEF SameFullness, IsFull
    <3> QED
      BY <3>3, <3>4, ThrottledKept
  <2> QED
    BY <2>2, <2>3
<1>2. CASE SetMaxQueueSize(t)
  <2>1. /\ Scheduling(t, "resize") /\ UNCHANGED <<pk, full>>
        /\ max_queue_size' = [max_queue_size EXCEPT ![m] = new_size]
        /\ IF (pk[m] >= new_size) # IsFull(m) THEN Replace(t, <<Frame("throttle", m)>>)
           ELSE Pop(t)
    BY <1>2 DEF SetMaxQueueSize
  <2>2. m \in Producers
    BY <2>1, HeadOfFrames
  <2>3. <<Frame("throttle", m)>> \in Seq(AllFrames)
    BY <2>2, StreamFrameType
  <2>4. CASE p = m /\ (pk[m] >= new_size) # IsFull(m)
    <3>1. Replaced(t, <<Frame("throttle", m)>>)
      BY <2>1, <2>3, <2>4, ReplaceIs
    <3>2. InSeq(TF(p), <<Frame("throttle", m)>>)
      BY <2>4, OneFrame DEF TF
    <3>3. Holds(t, TF(p))'
      BY <3>1, <3>2, HoldsAfterReplace
    <3> QED
      BY <3>3, NewsComes
  <2>5. CASE p # m \/ ((pk[m] >= new_size) = IsFull(m))
    <3>1. Pop(t) \/ \E s \in Seq(AllFrames) : Replace(t, s)
      BY <2>1, <2>3
    <3>2. NewsKept(p)
      BY <2>1, <3>1, NewsKeptByReplace
    <3>3. max_queue_size'[p] = IF p = m THEN new_size ELSE max_queue_size[p]
      BY <2>1 DEF StreamTypes
    <3>4. SameFullness(p)
      BY <2>1, <2>5, <3>3 DEF SameFullness, IsFull
    <3> QED
      BY <3>2, <3>4, ThrottledKept
  <2> QED
    BY <2>4, <2>5
<1> QED
  BY <1>1, <1>2

LEMMA QueueStepThrottled ==
  ASSUME TypeInv, NEW t \in Threads, QueueStep(t), NEW p \in Producers, Throttled(p)
  PROVE  Throttled(p)'
<1> FramesTyped /\ StreamTypes
  BY DEF TypeInv
<1> DEFINE m == Head(frames[t]).node
<1>1. CASE \/ AddNodeForOpen(t) \/ NodeOpened(t) \/ ScheduleNodeIfNotThrottled(t)
           \/ AddSource(t) \/ AddPrepared(t) \/ Push(t)
  <2>1. UNCHANGED <<pk, max_queue_size, full>>
    BY <1>1
    DEF AddNodeForOpen, NodeOpened, ScheduleNodeIfNotThrottled, AddSource, AddPrepared,
        Push, streamVars
  <2>2. PICK kind \in NodeKinds : Scheduling(t, kind)
    BY <1>1
    DEF AddNodeForOpen, NodeOpened, ScheduleNodeIfNotThrottled, AddSource, AddPrepared,
        Push, NodeKinds
  <2>3. Pop(t) \/ \E k \in NodeKinds : Replace(t, <<Frame(k, m)>>)
    BY <1>1
    DEF AddNodeForOpen, NodeOpened, ScheduleNodeIfNotThrottled, AddSource, AddPrepared,
        Push, NodeKinds
  <2>4. m \in Nodes /\ kind # "throttle"
    BY <2>2, HeadOfFrames DEF NodeKinds
  <2>5. \A k \in NodeKinds : <<Frame(k, m)>> \in Seq(AllFrames)
    BY <2>4, NodeFrameType
  <2>6. Pop(t) \/ \E s \in Seq(AllFrames) : Replace(t, s)
    BY <2>3, <2>5
  <2>7. NewsKept(p)
    BY <2>2, <2>4, <2>6, NewsKeptByReplace
  <2> QED
    BY <2>1, <2>7, QuietThrottled
<1>2. CASE \/ QueueBecameActive(t) \/ QueueBecameIdle(t) \/ SubmitTask(t) \/ SubmitWaiting(t)
  <2>1. UNCHANGED <<frames, pk, max_queue_size, full>>
    BY <1>2
    DEF QueueBecameActive, QueueBecameIdle, SubmitTask, SubmitWaiting, threadVars, streamVars
  <2> QED
    BY <2>1, NewsKeptByRest, QuietThrottled
<1> QED
  BY <1>1, <1>2, CheckIfBecameReadyThrottled, ThrottlingThrottled DEF QueueStep

LEMMA WorkerStepThrottled ==
  ASSUME TypeInv, PlacesInv, NEW t \in Workers, WorkerStep(t) \/ NodeError(t),
         NEW p \in Producers, Throttled(p)
  PROVE  Throttled(p)'
<1> FramesTyped /\ StreamTypes /\ t \in Threads
  BY QueueAssumption DEF TypeInv
<1>1. CASE ProcessSource(t)
  <2>1. frames[t] = <<>> /\ Node(t) \in Producers /\ Emit(t, Node(t))
    BY <1>1 DEF ProcessSource, Executing, PlacesInv, WorkerPlaces, Producers
  <2> QED
    BY <2>1, EmitThrottled
<1>2. CASE ~ProcessSource(t)
  <2>1. UNCHANGED <<pk, max_queue_size, full>>
    BY <1>2
    DEF WorkerStep, TakeTask, OpenNode, CloseSource, SourceClosed, ProcessSink,
        EndScheduling, FinishTask, NodeError, streamVars
  <2>2. \/ frames' = frames
        \/ /\ pc[t] = "run" \/ AtRest(t)
           /\ \E s : frames' = [frames EXCEPT ![t] = s]
    BY <1>2
    DEF WorkerStep, TakeTask, OpenNode, CloseSource, SourceClosed, ProcessSink,
        EndScheduling, FinishTask, NodeError, Executing
  <2>3. NewsKept(p)
    BY <2>2, NewsKeptByRest DEF AtRest, PlacesInv, WorkerPlaces
  <2> QED
    BY <2>1, <2>3, QuietThrottled
<1> QED
  BY <1>1, <1>2

LEMMA OutsideThrottled ==
  ASSUME TypeInv, PlacesInv, IdlerStep \/ MainStep, NEW p \in Producers, Throttled(p)
  PROVE  Throttled(p)'
<1> FramesTyped /\ StreamTypes /\ Main \in Threads /\ Idler \in Threads
  BY SchedulerAssumption DEF TypeInv
<1>1. CASE IdlerStep
  <2>1. UNCHANGED <<pk, max_queue_size, full>>
    BY <1>1
    DEF IdlerStep, IdleLoopEnds, Quit, LayerBlocked, TakeNextLayer, StopQueuesForLayer,
        ActivateNode, RestartQueuesForLayer, LayerScheduled, IdleUnthrottles,
        CollectFullStreams, GrowFullStream, StreamsGrown, streamVars
  <2>2. frames' = frames \/ (AtRest(Idler) /\ \E s : frames' = [frames EXCEPT ![Idler] = s])
    BY <1>1
    DEF IdlerStep, IdleLoopEnds, Quit, LayerBlocked, TakeNextLayer, StopQueuesForLayer,
        ActivateNode, RestartQueuesForLayer, LayerScheduled, IdleUnthrottles,
        CollectFullStreams, GrowFullStream, StreamsGrown, threadVars
  <2>3. NewsKept(p)
    BY <2>2, NewsKeptByRest DEF AtRest
  <2> QED
    BY <2>1, <2>3, QuietThrottled
<1>2. CASE MainStep /\ ~AddPacket /\ ~Reset
  <2>1. UNCHANGED <<pk, max_queue_size, full>>
    BY <1>2
    DEF MainStep, Start, AddPacketToInputStream, WaitUntilGraphInputStreamUnthrottled,
        AddedPacketToGraphInputStream, WaitUntilIdle, ObservedIdle, CloseInputStreams,
        ClosedAllGraphInputStreams, WaitUntilDone, CleanupQueue, FinishRun, streamVars
  <2>2. frames' = frames \/ (AtRest(Main) /\ \E s : frames' = [frames EXCEPT ![Main] = s])
    BY <1>2
    DEF MainStep, Start, AddPacketToInputStream, WaitUntilGraphInputStreamUnthrottled,
        AddedPacketToGraphInputStream, WaitUntilIdle, ObservedIdle, CloseInputStreams,
        ClosedAllGraphInputStreams, WaitUntilDone, CleanupQueue, FinishRun, threadVars
  <2>3. NewsKept(p)
    BY <2>2, NewsKeptByRest DEF AtRest
  <2> QED
    BY <2>1, <2>3, QuietThrottled
<1>3. CASE AddPacket
  <2>1. \/ UNCHANGED <<pk, max_queue_size, full, frames>>
        \/ Emit(Main, feeding)
    BY <1>3 DEF AddPacket, streamVars
  <2>2. frames[Main] = <<>> /\ feeding \in Producers
    BY <1>3 DEF AddPacket, PlacesInv, MainPlaces, TypeInv, AppTypes, Producers
  <2>3. CASE UNCHANGED <<pk, max_queue_size, full, frames>>
    BY <2>3, NewsKeptByRest, QuietThrottled
  <2> QED
    BY <2>1, <2>2, <2>3, EmitThrottled
<1>4. CASE Reset
  <2>1. /\ full' = {} /\ pk' = [r \in Producers |-> 0]
        /\ max_queue_size' = [r \in Producers |-> MaxQueueSize]
    BY <1>4 DEF Reset
  <2> QED
    BY <2>1, SchedulerAssumption DEF Throttled, IsFull
<1> QED
  BY <1>1, <1>2, <1>3, <1>4

LEMMA ThrottleInductive ==
  ASSUME TypeInv, PlacesInv, ThrottleInv, [Next]_vars
  PROVE  ThrottleInv'
<1> SUFFICES ASSUME NEW p \in Producers PROVE Throttled(p)'
  BY DEF ThrottleInv, Producers
<1> Throttled(p) /\ FramesTyped
  BY DEF ThrottleInv, TypeInv
<1>1. ASSUME NEW t \in Control, ControlStep(t) \/ Resume(t) \/ CloseAllSourceNodes(t)
      PROVE  Throttled(p)'
  <2>1. UNCHANGED <<frames, pk, max_queue_size, full>>
    BY <1>1
    DEF ControlStep, Pause, Cancel, Resume, CloseAllPacketSources, CloseAllSourceNodes,
        streamVars, threadVars
  <2> QED
    BY <2>1, NewsKeptByRest, QuietThrottled
<1>2. CASE UNCHANGED vars
  <2>1. UNCHANGED <<frames, pk, max_queue_size, full>>
    BY <1>2 DEF vars, streamVars, threadVars
  <2> QED
    BY <2>1, NewsKeptByRest, QuietThrottled
<1> QED
  BY <1>1, <1>2, QueueStepThrottled, WorkerStepThrottled, OutsideThrottled DEF Next

(* An application that waits is woken by whoever unthrottles its stream.   *)
LEMMA WakeupInductive ==
  ASSUME SchedInv, NoLostWakeup, [Next]_vars
  PROVE  NoLostWakeup'
<1> TypeInv /\ ControlInv /\ Main \in Threads /\ pc \in [Threads -> Places]
  BY SchedulerAssumption DEF SchedInv, TypeInv, AppTypes
<1>1. ASSUME pc'[Main] = pc[Main], UNCHANGED <<full, woken, feeding>> PROVE NoLostWakeup'
  BY <1>1 DEF NoLostWakeup
<1>2. ASSUME NEW t \in Threads, QueueStep(t) PROVE NoLostWakeup'
  <2>1. pc' = pc
    BY <1>2
    DEF QueueStep, AddNodeForOpen, NodeOpened, ScheduleNodeIfNotThrottled, CheckIfBecameReady, AddSource,
        AddPrepared, Push, UpdateThrottledNodes, SetMaxQueueSize, QueueBecameActive,
        QueueBecameIdle, SubmitTask, SubmitWaiting, threadVars
  <2>2. CASE UpdateThrottledNodes(t)
    <3> DEFINE p == Head(frames[t]).node
    <3>1. /\ full' = IF IsFull(p) THEN full \cup {p} ELSE full \ {p}
          /\ woken' = (woken \/ UnthrottlesInput(p)) /\ feeding' = feeding
      BY <2>2 DEF UpdateThrottledNodes
    <3>2. pc[Main] = "waiting" => feeding \in GraphInputs
      BY DEF TypeInv, AppTypes
    <3> QED
      BY <2>1, <3>1, <3>2 DEF NoLostWakeup, UnthrottlesInput
  <2>3. CASE ~UpdateThrottledNodes(t)
    <3>1. UNCHANGED <<full, woken, feeding>>
      BY <1>2, <2>3
      DEF QueueStep, AddNodeForOpen, NodeOpened, ScheduleNodeIfNotThrottled, CheckIfBecameReady,
          AddSource, AddPrepared, Push, SetMaxQueueSize, QueueBecameActive,
          QueueBecameIdle, SubmitTask, SubmitWaiting, streamVars, threadVars, appVars
    <3> QED
      BY <1>1, <2>1, <3>1
  <2> QED
    BY <2>2, <2>3
<1>3. ASSUME NEW t \in Workers, WorkerStep(t) \/ NodeError(t) PROVE NoLostWakeup'
  <2>1. UNCHANGED <<full, woken, feeding>> /\ \E l : pc' = [pc EXCEPT ![t] = l]
    BY <1>3
    DEF WorkerStep, TakeTask, OpenNode, ProcessSource, Emit, CloseSource, SourceClosed,
        ProcessSink, EndScheduling, FinishTask, NodeError, streamVars, appVars
  <2>2. t # Main
    BY SchedulerAssumption
  <2> QED
    BY <1>1, <2>1, <2>2
<1>4. CASE IdlerStep
  <2>1. UNCHANGED <<full, woken, feeding, pc>>
    BY <1>4
    DEF IdlerStep, IdleLoopEnds, Quit, LayerBlocked, TakeNextLayer, StopQueuesForLayer,
        ActivateNode, RestartQueuesForLayer, LayerScheduled, IdleUnthrottles,
        CollectFullStreams, GrowFullStream, StreamsGrown, streamVars, threadVars, appVars
  <2> QED
    BY <1>1, <2>1
<1>5. CASE MainStep
  <2>1. CASE AddPacket
    BY <2>1 DEF AddPacket, NoLostWakeup, streamVars
  <2>2. CASE CleanupQueue
    BY <1>1, <2>2 DEF CleanupQueue, streamVars, threadVars, appVars
  <2>3. CASE ~AddPacket /\ ~CleanupQueue
    <3>1. pc'[Main] # "waiting"
      BY <1>5, <2>3
      DEF MainStep, Start, AddPacketToInputStream, WaitUntilGraphInputStreamUnthrottled,
          AddedPacketToGraphInputStream, WaitUntilIdle, ObservedIdle, CloseInputStreams,
          ClosedAllGraphInputStreams, WaitUntilDone, FinishRun, Reset
    <3> QED
      BY <3>1 DEF NoLostWakeup
  <2> QED
    BY <2>1, <2>2, <2>3
<1>6. ASSUME NEW t \in Control, ControlStep(t) \/ Resume(t) \/ CloseAllSourceNodes(t)
      PROVE  NoLostWakeup'
  <2>1. /\ UNCHANGED <<full, woken, feeding>>
        /\ pc' = pc \/ \E l : pc' = [pc EXCEPT ![t] = l]
    BY <1>6
    DEF ControlStep, Pause, Cancel, Resume, CloseAllPacketSources, CloseAllSourceNodes,
        MayControl, streamVars, threadVars, appVars
  <2>2. t # Main
    BY SchedulerAssumption
  <2> QED
    BY <1>1, <2>1, <2>2
<1>7. CASE UNCHANGED vars
  BY <1>1, <1>7 DEF vars, streamVars, threadVars, appVars
<1> QED
  BY <1>2, <1>3, <1>4, <1>5, <1>6, <1>7 DEF Next

SourcesInv == ScheduleInv /\ ThrottleInv /\ NoLostWakeup

LEMMA SourcesInvInit == Init => SourcesInv
<1> SUFFICES ASSUME Init PROVE SourcesInv
  OBVIOUS
<1>1. ThrottleInv
  BY SchedulerAssumption DEF Init, ThrottleInv, Throttled, IsFull
<1>2. NoLostWakeup
  BY SchedulerAssumption DEF Init, NoLostWakeup
<1> QED
  BY <1>1, <1>2, ScheduleInvInit DEF SourcesInv

LEMMA SourcesInvInductive ==
  ASSUME SourcesInv, [Next]_vars
  PROVE  SourcesInv'
<1> ScheduleInv /\ TypeInv /\ SchedInv /\ PlacesInv
  BY DEF SourcesInv, ScheduleInv, RunsInv, SchedInv
<1> QED
  BY ScheduleInvInductive, ThrottleInductive, WakeupInductive DEF SourcesInv

(* In every graph, with any threads, queues, layers, failures and limits:  *)
(* a source runs only after the sources of lower layers are closed, no     *)
(* closed node is queued, a producer is throttled exactly while its stream *)
(* is full or the news is on its way, and no wake-up is missed.            *)
THEOREM SourcesAreSound == Spec => []SourcesSound
<1>1. SourcesInv => SourcesSound
  <2> SUFFICES ASSUME SourcesInv PROVE SourcesSound
    OBVIOUS
  <2>1. ScheduleInv /\ TypeInv /\ ThrottleInv
    BY DEF SourcesInv, ScheduleInv, RunsInv, SchedInv
  <2> QED
    BY <2>1, TypeInvImplies, ScheduleSound, ThrottleInvImplies DEF SourcesInv, SourcesSound
<1> QED
  BY <1>1, SourcesInvInit, SourcesInvInductive, PTL DEF Spec
=============================================================================
