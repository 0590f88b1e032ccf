------------------------------ MODULE Scheduler ------------------------------
(***************************************************************************)
(* The scheduler of a calculator graph (framework/scheduler.cc) over its   *)
(* queues, running a graph of source nodes, graph input streams and nodes  *)
(* that consume what they produce.  Nodes follow CalculatorNode, with one  *)
(* invocation in flight; throttling follows CalculatorGraph.               *)
(*                                                                         *)
(* A critical section under state_mutex_ is one action.  HandleIdle holds  *)
(* the mutex at the head of its loop and releases it twice inside the      *)
(* loop, so it is a process of its own, Idler: handling_idle_ admits one   *)
(* activation at a time, and the thread that called it waits.              *)
(***************************************************************************)
EXTENDS SchedulerQueue, Sequences, SequencesExt

CONSTANTS
  Sources,        \* nodes without input streams
  Sinks,          \* nodes with input streams
  GraphInputs,    \* graph input streams
  Dest,           \* the consumer of each source and graph input stream
  Layer,          \* CalculatorNode::source_layer
  OpenNeeds,      \* nodes whose output side packet a node needs to be opened
  LateNodes,      \* nodes that output it in Process() rather than in Open()
  MaxQueueSize,   \* max_queue_size of every input stream
  MaxPackets,     \* bound on the packets of each source and input stream
  Failures,       \* nodes that may return an error or stop the graph
  ReportDeadlock, \* CalculatorGraphConfig::report_deadlock
  Main,           \* the application thread that runs the graph
  Control,        \* application threads that pause, resume and cancel it
  MaxControls,    \* bound on the calls that end a run and on WaitUntilIdle
  Idler,          \* HandleIdle in progress
  NoThread

Nodes == Sources \cup Sinks
Producers == Sources \cup GraphInputs
Inputs(c) == {p \in Producers : Dest[p] = c}

OpenItem(n) == <<n, "open">>
ProcessItem(n) == <<n, "process">>

ASSUME SchedulerAssumption ==
  /\ Items = Nodes \X {"open", "process"}
  /\ Sources \cap Sinks = {} /\ Nodes \cap GraphInputs = {}
  /\ IsFiniteSet(Nodes) /\ IsFiniteSet(GraphInputs)
  /\ Dest \in [Producers -> Sinks]
  /\ Layer \in [Sources -> Nat]
  /\ OpenNeeds \in [Nodes -> SUBSET Nodes]
  /\ LateNodes \subseteq Sinks
  /\ MaxQueueSize \in Nat \ {0}
  /\ MaxPackets \in Nat /\ MaxControls \in Nat
  /\ ReportDeadlock \in BOOLEAN
  /\ Workers \cap ({Main, Idler} \cup Control) = {}
  /\ Main \notin Control /\ Idler \notin Control /\ Main # Idler
  /\ Threads = Workers \cup {Main, Idler} \cup Control
  /\ NoThread \notin Threads

VARIABLES
  state,                      \* state_
  graph_input_streams_closed, \* graph_input_streams_closed_
  sources_queue,              \* sources_queue_, as a set of nodes
  unopened_sources,           \* unopened_sources_
  active_sources,             \* active_sources_
  has_error,                  \* SchedulerShared::has_error
  stopping,                   \* SchedulerShared::stopping
  idler,                      \* where HandleIdle is, "off" if !handling_idle_
  idle_caller,                \* the thread that called it
  work,                       \* sources or streams its unlocked part goes through
  status,                     \* CalculatorNode::status_
  in_flight,                  \* nodes with current_in_flight_ = 1
  closing,                    \* invocations that will call Close()
  provided,                   \* nodes that have set their output side packet
  headed,                     \* nodes that have propagated their headers
  pk,                         \* packets in the input stream of each producer
  sent,                       \* packets a producer has put there
  done,                       \* producers that closed their stream
  max_queue_size,             \* InputStreamManager::max_queue_size_
  full,                       \* producers throttled by full_input_streams_
  pc,                         \* where each thread is
  frames,                     \* what the thread still has to call
  new_size,                   \* local variable of UnthrottleSources
  feeding,                    \* the input stream Main adds a packet to
  woken,                      \* unthrottle_seq_num_ changed during its wait
  controls                    \* calls counted against MaxControls

stateVars == <<state, graph_input_streams_closed, sources_queue,
               unopened_sources, active_sources>>
sharedVars == <<has_error, stopping>>
idleVars == <<idler, idle_caller, work>>
nodeVars == <<status, in_flight, closing, provided, headed>>
streamVars == <<pk, sent, done, max_queue_size, full>>
appVars == <<feeding, woken, controls>>
threadVars == <<pc, frames, new_size, appVars>>
vars == <<queueVars, stateVars, sharedVars, idleVars, nodeVars, streamVars,
          threadVars>>

States == {"NOT_STARTED", "RUNNING", "PAUSED", "CANCELLING", "TERMINATED"}

FrameKinds == {"open", "opened", "ready", "add", "commit", "push_open", "push",
               "throttle", "resize"}

(* A call on a node or, for "throttle" and "resize", on the input stream   *)
(* of a producer.                                                          *)
Frame(kind, n) == [kind |-> kind, node |-> n]

TypeOK ==
  /\ QueueTypeOK
  /\ state \in States
  /\ graph_input_streams_closed \in BOOLEAN
  /\ sources_queue \subseteq Sources /\ unopened_sources \subseteq Sources
  /\ active_sources \in Seq(Sources)
  /\ has_error \in BOOLEAN /\ stopping \in BOOLEAN
  /\ idler \in {"off", "loop", "stop", "activate", "submit", "unthrottle",
                "grow"}
  /\ idle_caller \in Threads \cup {NoThread}
  /\ work \subseteq Producers
  /\ status \in [Nodes -> {"prepared", "opened", "active", "closed"}]
  /\ in_flight \subseteq Nodes /\ closing \subseteq Sinks
  /\ provided \subseteq Nodes /\ headed \subseteq Nodes
  /\ pk \in [Producers -> Nat] /\ sent \in [Producers -> Nat]
  /\ done \subseteq Producers /\ full \subseteq Producers
  /\ max_queue_size \in [Producers -> Nat]
  /\ pc \in [Threads -> {"idle", "prepare", "feed", "check", "added", "failed",
                         "waiting", "observed", "closed_all", "wait", "cleanup", "done",
                         "run", "closing", "sched", "end", "stop_sources"}]
  /\ feeding \in GraphInputs \cup {NoThread}
  /\ \A t \in Threads : \A k \in DOMAIN frames[t] :
       frames[t][k] \in [kind : FrameKinds, node : Nodes \cup GraphInputs]
  /\ new_size \in Nat /\ woken \in BOOLEAN
  /\ controls \in 0 .. MaxControls

-----------------------------------------------------------------------------
(* The nodes whose Open() can be scheduled (ReadyForOpen) once the nodes   *)
(* in S have set their output side packets and those in H have propagated  *)
(* the headers of their output streams.  Graph input streams have theirs.  *)
Openable(S, H) ==
  {n \in Nodes : OpenNeeds[n] \subseteq S /\ Inputs(n) \cap Sources \subseteq H}

OpenFrames(S) == SetToSeq({Frame("open", n) : n \in S})

(* CalculatorGraph::PrepareForRun has reset the scheduler, prepared the    *)
(* nodes and is about to schedule the Open() of those that are ready.      *)
Init ==
  /\ QueueInit
  /\ state = "NOT_STARTED"
  /\ graph_input_streams_closed = (GraphInputs = {})
  /\ sources_queue = {} /\ unopened_sources = Sources
  /\ active_sources = <<>>
  /\ has_error = FALSE /\ stopping = FALSE
  /\ idler = "off" /\ idle_caller = NoThread /\ work = {}
  /\ status = [n \in Nodes |-> "prepared"]
  /\ in_flight = {} /\ closing = {} /\ provided = {} /\ headed = {}
  /\ pk = [p \in Producers |-> 0] /\ sent = [p \in Producers |-> 0]
  /\ done = {} /\ full = {}
  /\ max_queue_size = [p \in Producers |-> MaxQueueSize]
  /\ pc = [t \in Threads |-> IF t = Main THEN "prepare" ELSE "idle"]
  /\ frames = [t \in Threads |->
                 IF t = Main THEN OpenFrames(Openable({}, {})) ELSE <<>>]
  /\ new_size = 0
  /\ feeding = NoThread /\ woken = FALSE /\ controls = 0

-----------------------------------------------------------------------------
(* state_mutex_ is held across steps only at the head of HandleIdle's loop.*)
MutexFree == idler # "loop"

(* The thread is not inside a queue or HandleIdle.                         *)
Free(t) == call[t].at = "none" /\ idle_caller # t

(* The thread has nothing more to schedule either.                         *)
AtRest(t) == Free(t) /\ owed[t] = {} /\ frames[t] = <<>>

(* A call of HandleIdle by t with the mutex held: ignored if one is in     *)
(* progress.                                                               *)
HandleIdle(t) ==
  IF idler = "off"
  THEN idler' = "loop" /\ idle_caller' = t /\ UNCHANGED work
  ELSE UNCHANGED idleVars

Closed(n) == status[n] = "closed"

(* An invocation of c can be prepared: every input stream has a packet or  *)
(* is done; if all are done and empty it is the one that closes the node.  *)
CanProcess(c) ==
  /\ \A p \in Inputs(c) : pk[p] > 0 \/ p \in done
  /\ \E p \in Inputs(c) : pk[p] > 0

CanClose(c) == \A p \in Inputs(c) : pk[p] = 0 /\ p \in done

-----------------------------------------------------------------------------
(* Scheduling a node, frame by frame of the thread's call stack.           *)

Pop(t) == frames' = [frames EXCEPT ![t] = Tail(@)]
Replace(t, s) == frames' = [frames EXCEPT ![t] = s \o Tail(@)]

Scheduling(t, kind) ==
  /\ Free(t)
  /\ frames[t] # <<>>
  /\ Head(frames[t]).kind = kind

(* AddNodeForOpen: nothing is scheduled once there is an error.            *)
AddNodeForOpen(t) ==
  LET n == Head(frames[t]).node
  IN  /\ Scheduling(t, "open")
      /\ IF has_error THEN Pop(t) ELSE Replace(t, <<Frame("push_open", n)>>)
      /\ UNCHANGED <<queueVars, stateVars, sharedVars, idleVars, nodeVars,
                     streamVars, pc, new_size, appVars>>

(* CalculatorGraph::IsNodeThrottled.                                       *)
IsNodeThrottled(n) == n \in full

(* ScheduleNodeIfNotThrottled of a source.                                 *)
ScheduleNodeIfNotThrottled(t) ==
  LET n == Head(frames[t]).node
  IN  /\ Scheduling(t, "ready")
      /\ n \in Sources
      /\ IF IsNodeThrottled(n) THEN Pop(t) ELSE Replace(t, <<Frame("add", n)>>)
      /\ UNCHANGED <<queueVars, stateVars, sharedVars, idleVars, nodeVars,
                     streamVars, pc, new_size, appVars>>

(* InputStreamManager::IsFull.                                             *)
IsFull(p) == pk[p] >= max_queue_size[p]

(* What the thread that adds a packet to p then calls: the queue size      *)
(* callback if the stream became full, the consumer if it was empty.       *)
AfterAdd(p) ==
  (IF ~IsFull(p) /\ pk[p] + 1 >= max_queue_size[p]
   THEN <<Frame("throttle", p)>> ELSE <<>>)
    \o (IF pk[p] = 0 THEN <<Frame("ready", Dest[p])>> ELSE <<>>)

(* A change of the timestamp bound is only notified on an empty stream.    *)
AfterClose(p) == IF pk[p] = 0 THEN <<Frame("ready", Dest[p])>> ELSE <<>>

(* The same for the streams in S, one after the other.                     *)
AfterClosing(S) ==
  LET empty == SetToSeq({p \in S : pk[p] = 0})
  IN  [k \in DOMAIN empty |-> Frame("ready", Dest[empty[k]])]

(* Seeded fault: a waiting application thread is not told.                 *)
WakesNobody(p) == FALSE

(* UnthrottledGraphInputStream advances unthrottle_seq_num_.               *)
UnthrottlesInput(p) ==
  p \in GraphInputs /\ p \in full /\ ~IsFull(p)

(* UpdateThrottledNodes recomputes, under full_input_streams_mutex_,       *)
(* whether the stream is full, as callbacks may arrive out of order.  For a*)
(* graph input stream it tells the scheduler, which takes state_mutex_; a  *)
(* source that is no longer throttled is to be scheduled.                  *)
UpdateThrottledNodes(t) ==
  LET p == Head(frames[t]).node
      changed == IsFull(p) # (p \in full)
  IN  /\ Scheduling(t, "throttle")
      /\ p \in GraphInputs /\ changed => MutexFree
      /\ full' = IF IsFull(p) THEN full \cup {p} ELSE full \ {p}
      /\ woken' = (woken \/ UnthrottlesInput(p))
      /\ IF changed /\ ~IsFull(p) /\ p \in Sources /\ status[p] = "active"
         THEN Replace(t, <<Frame("add", p)>>)
         ELSE Pop(t)
      /\ UNCHANGED <<queueVars, stateVars, sharedVars, idleVars, nodeVars, pk,
                     sent, done, max_queue_size, pc, new_size, feeding, controls>>

(* The streams FillInputSet pops a packet from.                            *)
Popped(n) == {p \in Inputs(n) : pk[p] > 0}

(* CheckIfBecameReady and SchedulingLoop of a node with inputs.  Preparing *)
(* the invocation pops its packets, which may unthrottle their producers;  *)
(* then the node itself is scheduled.                                      *)
CheckIfBecameReady(t) ==
  LET n == Head(frames[t]).node
      freed == {p \in Popped(n) : IsFull(p) /\ pk[p] - 1 < max_queue_size[p]}
  IN  /\ Scheduling(t, "ready")
      /\ n \in Sinks
      /\ IF status[n] = "opened" /\ n \notin in_flight
              /\ (CanProcess(n) \/ CanClose(n))
         THEN /\ in_flight' = in_flight \cup {n}
              /\ closing' = IF CanClose(n) THEN closing \cup {n} ELSE closing
              /\ pk' = [p \in Producers |->
                          IF p \in Popped(n) THEN pk[p] - 1 ELSE pk[p]]
              /\ Replace(t, SetToSeq({Frame("throttle", p) : p \in freed})
                              \o <<Frame("commit", n)>>)
         ELSE Pop(t) /\ UNCHANGED <<in_flight, closing, pk>>
      /\ UNCHANGED <<queueVars, stateVars, sharedVars, idleVars, status,
                     provided, headed, sent, done, max_queue_size, full, pc, new_size,
                     appVars>>

(* SchedulerQueue::AddNode of a source: ignored after an error, or if the  *)
(* source is in flight already.                                            *)
AddSource(t) ==
  LET n == Head(frames[t]).node
  IN  /\ Scheduling(t, "add")
      /\ IF has_error \/ n \in in_flight
         THEN Pop(t) /\ UNCHANGED in_flight
         ELSE /\ in_flight' = in_flight \cup {n}
              /\ Replace(t, <<Frame("push", n)>>)
      /\ UNCHANGED <<queueVars, stateVars, sharedVars, idleVars, status,
                     closing, provided, headed, streamVars, pc, new_size, appVars>>

(* SchedulerQueue::AddNode of a node whose invocation was just prepared.   *)
AddPrepared(t) ==
  LET n == Head(frames[t]).node
  IN  /\ Scheduling(t, "commit")
      /\ IF has_error
         THEN Pop(t) /\ in_flight' = in_flight \ {n}
         ELSE Replace(t, <<Frame("push", n)>>) /\ UNCHANGED in_flight
      /\ UNCHANGED <<queueVars, stateVars, sharedVars, idleVars, status,
                     closing, provided, headed, streamVars, pc, new_size, appVars>>

(* AddItemToQueue.                                                         *)
Push(t) ==
  LET n == Head(frames[t]).node
  IN  /\ \/ Scheduling(t, "push") /\ AddItemToQueue(t, ProcessItem(n))
         \/ Scheduling(t, "push_open") /\ AddItemToQueue(t, OpenItem(n))
      /\ Pop(t)
      /\ UNCHANGED <<stateVars, sharedVars, idleVars, nodeVars, streamVars,
                     pc, new_size, appVars>>

(* QueueIdleStateChanged(false); HandleIdle if the count becomes zero.     *)
QueueBecameActive(t) ==
  /\ MutexFree
  /\ BecomeActive(t)
  /\ IF non_idle_queue_count' = 0 THEN HandleIdle(t) ELSE UNCHANGED idleVars
  /\ UNCHANGED <<stateVars, sharedVars, nodeVars, streamVars, threadVars>>

(* QueueIdleStateChanged(true).                                            *)
QueueBecameIdle(t) ==
  /\ MutexFree
  /\ BecomeIdle(t)
  /\ IF non_idle_queue_count' = 0 THEN HandleIdle(t) ELSE UNCHANGED idleVars
  /\ UNCHANGED <<stateVars, sharedVars, nodeVars, streamVars, threadVars>>

SubmitTask(t) ==
  /\ idle_caller # t
  /\ AddTask(t)
  /\ UNCHANGED <<stateVars, sharedVars, idleVars, nodeVars, streamVars,
                 threadVars>>

SubmitWaiting(t) ==
  /\ idle_caller # t
  /\ \E q \in Queues : SubmitWaitingTasks(t, q)
  /\ UNCHANGED <<stateVars, sharedVars, idleVars, nodeVars, streamVars,
                 threadVars>>

-----------------------------------------------------------------------------
(* Workers.                                                                *)

TakeTask(t) ==
  /\ pc[t] = "idle"
  /\ \E q \in Queues : RunNextTask(t, q)
  /\ pc' = [pc EXCEPT ![t] = "run"]
  /\ UNCHANGED <<stateVars, sharedVars, idleVars, nodeVars, streamVars,
                 frames, new_size, appVars>>

Node(t) == run[t][1]
Executing(t, kind) == pc[t] = "run" /\ run[t][2] = kind

NewlyOpenable == Openable(provided', headed') \ Openable(provided, headed)

(* OpenNode: Open() may set the node's side packet, the headers are        *)
(* propagated, and nodes that waited for either are scheduled; then        *)
(* NodeOpened.                                                             *)
OpenNode(t) ==
  LET n == Node(t)
  IN  /\ Executing(t, "open")
      /\ provided' = IF n \in LateNodes THEN provided ELSE provided \cup {n}
      /\ headed' = headed \cup {n}
      /\ frames' = [frames EXCEPT ![t] =
                      OpenFrames(NewlyOpenable) \o <<Frame("opened", n)>>]
      /\ pc' = [pc EXCEPT ![t] = "end"]
      /\ UNCHANGED <<queueVars, stateVars, sharedVars, idleVars, status,
                     in_flight, closing, streamVars, new_size, appVars>>

(* NodeOpened: a source goes to sources_queue_, under state_mutex_;        *)
(* another node may have received packets and is checked for readiness.    *)
NodeOpened(t) ==
  LET n == Head(frames[t]).node
  IN  /\ Scheduling(t, "opened")
      /\ status' = [status EXCEPT ![n] = "opened"]
      /\ IF n \in Sources
         THEN /\ MutexFree
              /\ sources_queue' = sources_queue \cup {n}
              /\ unopened_sources' = unopened_sources \ {n}
              /\ Pop(t)
         ELSE /\ Replace(t, <<Frame("ready", n)>>)
              /\ UNCHANGED <<sources_queue, unopened_sources>>
      /\ UNCHANGED <<queueVars, state, graph_input_streams_closed,
                     active_sources, sharedVars, idleVars, in_flight, closing,
                     provided, headed, streamVars, pc, new_size, appVars>>

(* Open() or Process() of a node returns an error.                         *)
NodeError(t) ==
  /\ pc[t] = "run"
  /\ Node(t) \in Failures
  /\ has_error' = TRUE
  /\ pc' = [pc EXCEPT ![t] = IF run[t][2] = "open" THEN "end" ELSE "sched"]
  /\ UNCHANGED <<queueVars, stateVars, stopping, idleVars, nodeVars,
                 streamVars, frames, new_size, appVars>>

(* A producer puts a packet into its input stream.                         *)
Emit(t, p) ==
  /\ sent' = [sent EXCEPT ![p] = @ + 1]
  /\ pk' = [pk EXCEPT ![p] = @ + 1]
  /\ frames' = [frames EXCEPT ![t] = AfterAdd(p)]
  /\ UNCHANGED <<done, max_queue_size, full>>

(* Close() of a node may return an error.                                  *)
CloseStatus(n) ==
  has_error' \in IF n \in Failures THEN {has_error, TRUE} ELSE {has_error}

(* ProcessNode of a source that outputs a packet.                          *)
ProcessSource(t) ==
  LET s == Node(t)
  IN  /\ Executing(t, "process") /\ s \in Sources
      /\ ~stopping /\ sent[s] < MaxPackets
      /\ Emit(t, s)
      /\ pc' = [pc EXCEPT ![t] = "sched"]
      /\ UNCHANGED <<queueVars, stateVars, sharedVars, idleVars, nodeVars,
                     new_size, appVars>>

(* CloseNode of a source, when it returns StatusStop() or is run while the *)
(* graph is stopping: its output stream is closed, then its status set.    *)
CloseSource(t) ==
  LET s == Node(t)
  IN  /\ Executing(t, "process") /\ s \in Sources
      /\ done' = done \cup {s}
      /\ frames' = [frames EXCEPT ![t] = AfterClose(s)]
      /\ pc' = [pc EXCEPT ![t] = "closing"]
      /\ UNCHANGED <<queueVars, stateVars, sharedVars, idleVars, nodeVars,
                     pk, sent, max_queue_size, full, new_size, appVars>>

SourceClosed(t) ==
  /\ pc[t] = "closing" /\ AtRest(t)
  /\ status' = [status EXCEPT ![Node(t)] = "closed"]
  /\ CloseStatus(Node(t))
  /\ pc' = [pc EXCEPT ![t] = "sched"]
  /\ UNCHANGED <<queueVars, stateVars, stopping, idleVars, in_flight,
                 closing, provided, headed, streamVars, frames, new_size, appVars>>

(* ProcessNode of a node with inputs: Close() if its inputs are exhausted, *)
(* else Process(), which may set a side packet or stop the graph.          *)
ProcessSink(t) ==
  LET c == Node(t)
      late == c \in LateNodes \ provided /\ c \notin closing
  IN  /\ Executing(t, "process") /\ c \in Sinks
      /\ IF c \in closing
         THEN /\ status' = [status EXCEPT ![c] = "closed"]
              /\ CloseStatus(c)
              /\ UNCHANGED stopping
         ELSE /\ UNCHANGED <<status, has_error>>
              /\ stopping' \in IF c \in Failures THEN {stopping, TRUE}
                                                ELSE {stopping}
      /\ provided' = IF late THEN provided \cup {c} ELSE provided
      /\ UNCHANGED headed
      /\ frames' = [frames EXCEPT ![t] = OpenFrames(NewlyOpenable)]
      /\ pc' = [pc EXCEPT ![t] = "sched"]
      /\ UNCHANGED <<queueVars, stateVars, idleVars, in_flight,
                     closing, streamVars, new_size, appVars>>

(* A node is scheduled again unless it is closed.                          *)
RunsAgain(n) == ~Closed(n)

(* EndScheduling: unless it is closed, the node may be scheduled again.    *)
EndScheduling(t) ==
  LET n == Node(t)
  IN  /\ pc[t] = "sched" /\ AtRest(t)
      /\ IF RunsAgain(n)
         THEN /\ in_flight' = in_flight \ {n}
              /\ frames' = [frames EXCEPT ![t] = <<Frame("ready", n)>>]
         ELSE UNCHANGED <<in_flight, frames>>
      /\ pc' = [pc EXCEPT ![t] = "end"]
      /\ UNCHANGED <<queueVars, stateVars, sharedVars, idleVars, status,
                     closing, provided, headed, streamVars, new_size, appVars>>

FinishTask(t) ==
  /\ pc[t] = "end" /\ AtRest(t)
  /\ EndTask(t)
  /\ pc' = [pc EXCEPT ![t] = "idle"]
  /\ UNCHANGED <<stateVars, sharedVars, idleVars, nodeVars, streamVars,
                 frames, new_size, appVars>>

-----------------------------------------------------------------------------
(* HandleIdle.                                                             *)

(* CleanupActiveSources: closed sources are dropped from the back.         *)
CleanupActiveSources ==
  LET open == {k \in DOMAIN active_sources : ~Closed(active_sources[k])}
  IN  IF open = {} THEN <<>>
      ELSE SubSeq(active_sources, 1, CHOOSE k \in open : \A j \in open : j <= k)

(* Seeded fault: a cancelled run is over at once.                          *)
CancelledActs ==
  state = "CANCELLING" \/ (non_idle_queue_count = 0 /\ state = "RUNNING")

MayAct == non_idle_queue_count = 0 /\ state \in {"RUNNING", "CANCELLING"}

LeaveHandleIdle == idler' = "off" /\ idle_caller' = NoThread /\ work' = {}

(* Seeded fault: sources of later layers are forgotten.                    *)
QuitWhenInactive ==
  has_error \/ (CleanupActiveSources = <<>> /\ graph_input_streams_closed)

ShouldQuit ==
  \/ has_error
  \/ /\ CleanupActiveSources = <<>> /\ sources_queue = {}
     /\ graph_input_streams_closed

(* The loop condition fails.                                               *)
IdleLoopEnds ==
  /\ idler = "loop" /\ ~MayAct
  /\ LeaveHandleIdle
  /\ UNCHANGED <<queueVars, stateVars, sharedVars, nodeVars, streamVars,
                 threadVars>>

(* Quit: the queues stop running and the run is over.                      *)
Quit ==
  /\ idler = "loop" /\ MayAct /\ ShouldQuit
  /\ SetQueuesRunning(Idler, FALSE)
  /\ state' = "TERMINATED"
  /\ active_sources' = CleanupActiveSources
  /\ LeaveHandleIdle
  /\ UNCHANGED <<graph_input_streams_closed, sources_queue, unopened_sources,
                 sharedVars, nodeVars, streamVars, threadVars>>

NeedsNextLayer ==
  /\ idler = "loop" /\ MayAct /\ ~ShouldQuit
  /\ CleanupActiveSources = <<>> /\ sources_queue # {}

TopLayer == CHOOSE l \in {Layer[s] : s \in sources_queue} :
              \A s \in sources_queue : l <= Layer[s]

LowerLayerUnopened == \E s \in unopened_sources : Layer[s] < TopLayer

(* Seeded fault: the blocked layer is not reported.                        *)
IgnoredLayerError == FALSE

(* A blocked layer is an error if no graph input stream is open.           *)
BlockedLayerError == graph_input_streams_closed

(* TryToScheduleNextSourceLayer when a source of a lower layer has not     *)
(* been opened yet.  The loop continues with the mutex still held.         *)
LayerBlocked ==
  /\ NeedsNextLayer /\ LowerLayerUnopened
  /\ has_error' = BlockedLayerError
  /\ active_sources' = <<>>
  /\ UNCHANGED <<queueVars, state, graph_input_streams_closed, sources_queue,
                 unopened_sources, stopping, idleVars, nodeVars, streamVars,
                 threadVars>>

(* Seeded fault: every queued source is activated.                         *)
AllLayers == sources_queue

(* The sources of the lowest layer.                                        *)
NextLayer == {s \in sources_queue : Layer[s] = TopLayer}

(* TryToScheduleNextSourceLayer up to the unlock.                          *)
TakeNextLayer ==
  /\ NeedsNextLayer /\ ~LowerLayerUnopened
  /\ active_sources' \in
       {order \in SetToSeqs(NextLayer) : \A k \in 1 .. Len(order) - 1 :
          ~RunsAfter(ProcessItem(order[k]), ProcessItem(order[k + 1]))}
  /\ sources_queue' = sources_queue \ NextLayer
  /\ work' = NextLayer
  /\ idler' = "stop"
  /\ UNCHANGED <<queueVars, state, graph_input_streams_closed,
                 unopened_sources, sharedVars, idle_caller, nodeVars,
                 streamVars, threadVars>>

(* Seeded fault: the queues are not stopped.                               *)
KeepQueues == UNCHANGED queueVars

StopQueues == SetQueuesRunning(Idler, FALSE)

(* The queues are stopped while the sources of the layer are added ...     *)
StopQueuesForLayer ==
  /\ idler = "stop"
  /\ StopQueues
  /\ idler' = "activate"
  /\ UNCHANGED <<stateVars, sharedVars, idle_caller, work, nodeVars,
                 streamVars, threadVars>>

(* ... each is activated and scheduled unless throttled ...                *)
ActivateNode ==
  /\ idler = "activate" /\ AtRest(Idler) /\ work # {}
  /\ LET first == CHOOSE k \in DOMAIN active_sources :
                    /\ active_sources[k] \in work
                    /\ \A j \in 1 .. k - 1 : active_sources[j] \notin work
         s == active_sources[first]
     IN  /\ status' = [status EXCEPT ![s] = "active"]
         /\ frames' = [frames EXCEPT ![Idler] = <<Frame("ready", s)>>]
         /\ work' = work \ {s}
  /\ UNCHANGED <<queueVars, stateVars, sharedVars, idler, idle_caller,
                 in_flight, closing, provided, headed, streamVars, pc, new_size, appVars>>

(* ... and the queues run again.                                           *)
RestartQueuesForLayer ==
  /\ idler = "activate" /\ AtRest(Idler) /\ work = {}
  /\ SetQueuesRunning(Idler, TRUE)
  /\ idler' = "submit"
  /\ UNCHANGED <<stateVars, sharedVars, idle_caller, work, nodeVars,
                 streamVars, threadVars>>

LayerScheduled ==
  /\ idler = "submit" /\ AtRest(Idler)
  /\ idler' = "loop"
  /\ UNCHANGED <<queueVars, stateVars, sharedVars, idle_caller, work,
                 nodeVars, streamVars, threadVars>>

(* What is left: unthrottle if a source is active or an input stream       *)
(* throttled, with the mutex released, else leave.                         *)
IdleUnthrottles ==
  /\ idler = "loop" /\ MayAct /\ ~ShouldQuit
  /\ CleanupActiveSources # <<>> \/ sources_queue = {}
  /\ active_sources' = CleanupActiveSources
  /\ IF active_sources' # <<>> \/ full \cap GraphInputs # {}
     THEN idler' = "unthrottle" /\ UNCHANGED <<idle_caller, work>>
     ELSE LeaveHandleIdle
  /\ UNCHANGED <<queueVars, state, graph_input_streams_closed, sources_queue,
                 unopened_sources, sharedVars, nodeVars, streamVars,
                 threadVars>>

(* The streams UnthrottleSources collects.                                 *)
FullStreams == full

(* UnthrottleSources collects the full streams; if there is none HandleIdle*)
(* returns without going round its loop again.                             *)
CollectFullStreams ==
  /\ idler = "unthrottle"
  /\ IF FullStreams = {} THEN LeaveHandleIdle
     ELSE idler' = "grow" /\ work' = FullStreams /\ UNCHANGED idle_caller
  /\ UNCHANGED <<queueVars, stateVars, sharedVars, nodeVars, streamVars,
                 threadVars>>

(* Seeded fault: no room is made.                                          *)
SameSize(p) == pk[p]

(* Room for one more packet.                                               *)
NewSize(p) == pk[p] + 1

(* It then makes room for one packet in each, or reports a deadlock.  The  *)
(* size of the queue is read in one critical section ...                   *)
GrowFullStream ==
  /\ idler = "grow" /\ AtRest(Idler)
  /\ \E p \in work :
       /\ work' = work \ {p}
       /\ IF ReportDeadlock
          THEN has_error' = TRUE /\ UNCHANGED <<new_size, frames>>
          ELSE /\ new_size' = NewSize(p)
               /\ frames' = [frames EXCEPT ![Idler] = <<Frame("resize", p)>>]
               /\ UNCHANGED has_error
  /\ UNCHANGED <<queueVars, stateVars, stopping, idler, idle_caller, nodeVars,
                 streamVars, pc, appVars>>

(* ... and SetMaxQueueSize is another.                                     *)
SetMaxQueueSize(t) ==
  LET p == Head(frames[t]).node
      is_full == pk[p] >= new_size
  IN  /\ Scheduling(t, "resize")
      /\ max_queue_size' = [max_queue_size EXCEPT ![p] = new_size]
      /\ new_size' = 0
      /\ IF is_full # IsFull(p) THEN Replace(t, <<Frame("throttle", p)>>)
                               ELSE Pop(t)
      /\ UNCHANGED <<queueVars, stateVars, sharedVars, idleVars, nodeVars, pk,
                     sent, done, full, pc, appVars>>

StreamsGrown ==
  /\ idler = "grow" /\ AtRest(Idler) /\ work = {}
  /\ idler' = "loop"
  /\ UNCHANGED <<queueVars, stateVars, sharedVars, idle_caller, work,
                 nodeVars, streamVars, threadVars>>

-----------------------------------------------------------------------------
(* The application: Main runs the graph, feeding its input streams; the    *)
(* control threads pause, resume, cancel or stop it.                       *)

(* Scheduler::Start.                                                       *)
Start ==
  /\ pc[Main] = "prepare" /\ AtRest(Main) /\ MutexFree
  /\ state' = "RUNNING"
  /\ SetQueuesRunning(Main, TRUE)
  /\ HandleIdle(Main)
  /\ pc' = [pc EXCEPT ![Main] = IF GraphInputs = {} THEN "wait" ELSE "feed"]
  /\ UNCHANGED <<graph_input_streams_closed, sources_queue, unopened_sources,
                 active_sources, sharedVars, nodeVars, streamVars, frames,
                 new_size, appVars>>

OpenInputs == GraphInputs \ done

(* The application adds a packet to an open graph input stream.            *)
AddPacketToInputStream ==
  /\ pc[Main] = "feed" /\ AtRest(Main)
  /\ feeding' \in {g \in OpenInputs : sent[g] < MaxPackets}
  /\ pc' = [pc EXCEPT ![Main] = "check"]
  /\ UNCHANGED <<queueVars, stateVars, sharedVars, idleVars, nodeVars,
                 streamVars, frames, new_size, woken, controls>>

(* WAIT_TILL_NOT_FULL, with full_input_streams_mutex_ held: the packet is  *)
(* added unless there is an error or the stream is full.                   *)
AddPacket ==
  /\ pc[Main] = "check"
  /\ \/ /\ has_error
        /\ feeding' = NoThread
        /\ pc' = [pc EXCEPT ![Main] = "failed"]
        /\ UNCHANGED <<streamVars, frames, woken>>
     \/ /\ ~has_error /\ feeding \in full
        /\ MutexFree
        /\ woken' = FALSE
        /\ pc' = [pc EXCEPT ![Main] = "waiting"]
        /\ UNCHANGED <<streamVars, frames, feeding>>
     \/ /\ ~has_error /\ feeding \notin full
        /\ Emit(Main, feeding)
        /\ feeding' = NoThread
        /\ pc' = [pc EXCEPT ![Main] = "added"]
        /\ UNCHANGED woken
  /\ UNCHANGED <<queueVars, stateVars, sharedVars, idleVars, nodeVars,
                 new_size, controls>>

(* The wait ends when some graph input stream has been unthrottled.        *)
WaitUntilGraphInputStreamUnthrottled ==
  /\ pc[Main] = "waiting" /\ MutexFree
  /\ woken \/ state = "TERMINATED"
  /\ pc' = [pc EXCEPT ![Main] = "check"]
  /\ UNCHANGED <<queueVars, stateVars, sharedVars, idleVars, nodeVars,
                 streamVars, frames, new_size, appVars>>

(* AddedPacketToGraphInputStream.                                          *)
AddedPacketToGraphInputStream ==
  /\ pc[Main] = "added" /\ AtRest(Main)
  /\ IF state = "TERMINATED" THEN UNCHANGED idleVars
     ELSE MutexFree /\ HandleIdle(Main)
  /\ pc' = [pc EXCEPT ![Main] = "feed"]
  /\ UNCHANGED <<queueVars, stateVars, sharedVars, nodeVars, streamVars,
                 frames, new_size, appVars>>

(* WaitUntilIdle, which is for graphs without sources.                     *)
WaitUntilIdle ==
  /\ pc[Main] = "feed" /\ AtRest(Main) /\ MutexFree
  /\ Sources = {}
  /\ non_idle_queue_count = 0
  /\ controls < MaxControls /\ controls' = controls + 1
  /\ pc' = [pc EXCEPT ![Main] = "observed"]
  /\ UNCHANGED <<queueVars, stateVars, sharedVars, idleVars, nodeVars,
                 streamVars, frames, new_size, feeding, woken>>

ObservedIdle ==
  /\ pc[Main] = "observed"
  /\ pc' = [pc EXCEPT ![Main] = "feed"]
  /\ UNCHANGED <<queueVars, stateVars, sharedVars, idleVars, nodeVars,
                 streamVars, frames, new_size, appVars>>

(* CloseInputStream, and CloseAllInputStreams, which closes what is still  *)
(* open: the last stream closed ...                                        *)
CloseInputStreams ==
  /\ pc[Main] \in {"feed", "failed"} /\ AtRest(Main)
  /\ \E S \in {OpenInputs} \cup {{g} : g \in OpenInputs} :
       /\ done' = done \cup S
       /\ frames' = [frames EXCEPT ![Main] = AfterClosing(S)]
  /\ pc' = [pc EXCEPT ![Main] =
               IF GraphInputs \subseteq done' THEN "closed_all" ELSE @]
  /\ UNCHANGED <<queueVars, stateVars, sharedVars, idleVars, nodeVars, pk,
                 sent, max_queue_size, full, new_size, appVars>>

(* ... makes the graph tell the scheduler.                                 *)
ClosedAllGraphInputStreams ==
  /\ pc[Main] = "closed_all" /\ AtRest(Main) /\ MutexFree
  /\ graph_input_streams_closed' = TRUE
  /\ HandleIdle(Main)
  /\ pc' = [pc EXCEPT ![Main] = "wait"]
  /\ UNCHANGED <<queueVars, state, sources_queue, unopened_sources,
                 active_sources, sharedVars, nodeVars, streamVars, frames,
                 new_size, appVars>>

(* WaitUntilDone returns.                                                  *)
WaitUntilDone ==
  /\ pc[Main] = "wait" /\ AtRest(Main) /\ MutexFree
  /\ state = "TERMINATED"
  /\ pc' = [pc EXCEPT ![Main] = "cleanup"]
  /\ UNCHANGED <<queueVars, stateVars, sharedVars, idleVars, nodeVars,
                 streamVars, frames, new_size, appVars>>

(* Scheduler::CleanupAfterRun cleans up the queues one by one (an idle one *)
(* is left as it is) ...                                                   *)
CleanupQueue ==
  /\ pc[Main] = "cleanup" /\ AtRest(Main)
  /\ \E q \in Queues : CleanupAfterRun(Main, q)
  /\ UNCHANGED <<stateVars, sharedVars, idleVars, nodeVars, streamVars,
                 threadVars>>

(* ... and drops what is left of the run.                                  *)
FinishRun ==
  /\ pc[Main] = "cleanup" /\ AtRest(Main)
  /\ \A q \in Queues : IsIdle(q)
  /\ sources_queue' = {} /\ unopened_sources' = {} /\ active_sources' = <<>>
  /\ has_error' = FALSE
  /\ pc' = [pc EXCEPT ![Main] = "done"]
  /\ UNCHANGED <<queueVars, state, graph_input_streams_closed, stopping,
                 idleVars, nodeVars, streamVars, frames, new_size, appVars>>

(* The next run: Scheduler::Reset, which leaves non_idle_queue_count_ and  *)
(* handling_idle_ alone, and the preparation of the nodes.                 *)
Reset ==
  /\ pc[Main] = "done" /\ MutexFree
  /\ num_pending_tasks' = [q \in Queues |-> 0]
  /\ num_tasks_to_add' = [q \in Queues |-> 0]
  /\ running_count' = [q \in Queues |-> 0]
  /\ state' = "NOT_STARTED"
  /\ graph_input_streams_closed' = (GraphInputs = {})
  /\ unopened_sources' = Sources
  /\ has_error' = FALSE /\ stopping' = FALSE
  /\ status' = [n \in Nodes |-> "prepared"]
  /\ in_flight' = {} /\ closing' = {} /\ provided' = {} /\ headed' = {}
  /\ pk' = [p \in Producers |-> 0] /\ sent' = [p \in Producers |-> 0]
  /\ done' = {} /\ full' = {}
  /\ max_queue_size' = [p \in Producers |-> MaxQueueSize]
  /\ pc' = [pc EXCEPT ![Main] = "prepare"]
  /\ frames' = [frames EXCEPT ![Main] = OpenFrames(Openable({}, {}))]
  /\ controls' = 0 /\ new_size' = 0 /\ woken' = FALSE
  /\ UNCHANGED <<queue, executor, non_idle_queue_count, run, call, owed,
                 sources_queue, active_sources, idleVars, feeding>>

(* A control thread may make one more call.                                *)
MayControl(t) ==
  /\ pc[t] = "idle" /\ AtRest(t) /\ MutexFree
  /\ controls < MaxControls
  /\ controls' = controls + 1

(* A graph can be paused and resumed any number of times.                  *)
Pause(t) ==
  /\ pc[t] = "idle" /\ AtRest(t) /\ MutexFree
  /\ state = "RUNNING"
  /\ state' = "PAUSED"
  /\ SetQueuesRunning(t, FALSE)
  /\ UNCHANGED <<graph_input_streams_closed, sources_queue, unopened_sources,
                 active_sources, sharedVars, idleVars, nodeVars, streamVars,
                 threadVars>>

(* Seeded fault: the early return of Resume is missing.                    *)
ResumableAlways == TRUE

Resumable == state = "PAUSED"

Resume(t) ==
  /\ pc[t] = "idle" /\ AtRest(t) /\ MutexFree
  /\ Resumable
  /\ state' = "RUNNING"
  /\ SetQueuesRunning(t, TRUE)
  /\ HandleIdle(t)
  /\ UNCHANGED <<graph_input_streams_closed, sources_queue, unopened_sources,
                 active_sources, sharedVars, nodeVars, streamVars, threadVars>>

(* Seeded fault: queues that run are set running again.                    *)
RunTwice(t) == SetQueuesRunning(t, TRUE)

(* The queues of a paused graph must run, to be exhausted.                 *)
ExhaustQueues(t) ==
  IF state = "PAUSED" THEN SetQueuesRunning(t, TRUE)
  ELSE SubmitWaitingTasksOnQueues(t)

Cancel(t) ==
  /\ MayControl(t)
  /\ state \in {"RUNNING", "PAUSED"}
  /\ has_error' = TRUE
  /\ ExhaustQueues(t)
  /\ state' = "CANCELLING"
  /\ HandleIdle(t)
  /\ UNCHANGED <<graph_input_streams_closed, sources_queue, unopened_sources,
                 active_sources, stopping, nodeVars, streamVars, pc, frames,
                 new_size, feeding, woken>>

(* CloseAllPacketSources of a graph without input streams: HandleIdle      *)
(* first, and then the sources are told to close.                          *)
CloseAllPacketSources(t) ==
  /\ MayControl(t)
  /\ GraphInputs = {} /\ state \in {"RUNNING", "PAUSED"}
  /\ graph_input_streams_closed' = TRUE
  /\ HandleIdle(t)
  /\ pc' = [pc EXCEPT ![t] = "stop_sources"]
  /\ UNCHANGED <<queueVars, state, sources_queue, unopened_sources,
                 active_sources, sharedVars, nodeVars, streamVars, frames,
                 new_size, feeding, woken>>

CloseAllSourceNodes(t) ==
  /\ pc[t] = "stop_sources" /\ AtRest(t)
  /\ stopping' = TRUE
  /\ pc' = [pc EXCEPT ![t] = "idle"]
  /\ UNCHANGED <<queueVars, stateVars, has_error, idleVars, nodeVars,
                 streamVars, frames, new_size, appVars>>

-----------------------------------------------------------------------------
(* Steps of any thread inside a queue or scheduling nodes.                 *)
QueueStep(t) ==
  \/ AddNodeForOpen(t) \/ NodeOpened(t)
  \/ ScheduleNodeIfNotThrottled(t) \/ CheckIfBecameReady(t)
  \/ AddSource(t) \/ AddPrepared(t) \/ Push(t)
  \/ UpdateThrottledNodes(t) \/ SetMaxQueueSize(t)
  \/ QueueBecameActive(t) \/ QueueBecameIdle(t)
  \/ SubmitTask(t) \/ SubmitWaiting(t)

WorkerStep(t) ==
  \/ TakeTask(t) \/ OpenNode(t)
  \/ ProcessSource(t) \/ CloseSource(t) \/ SourceClosed(t) \/ ProcessSink(t)
  \/ EndScheduling(t) \/ FinishTask(t)

IdlerStep ==
  \/ IdleLoopEnds \/ Quit \/ LayerBlocked \/ TakeNextLayer
  \/ StopQueuesForLayer \/ ActivateNode \/ RestartQueuesForLayer
  \/ LayerScheduled \/ IdleUnthrottles \/ CollectFullStreams
  \/ GrowFullStream \/ StreamsGrown

MainStep ==
  \/ Start \/ AddPacketToInputStream \/ AddPacket
  \/ WaitUntilGraphInputStreamUnthrottled \/ AddedPacketToGraphInputStream
  \/ WaitUntilIdle \/ ObservedIdle
  \/ CloseInputStreams \/ ClosedAllGraphInputStreams
  \/ WaitUntilDone \/ CleanupQueue \/ FinishRun \/ Reset

ControlStep(t) == Pause(t) \/ Cancel(t) \/ CloseAllPacketSources(t)

Next ==
  \/ \E t \in Threads : QueueStep(t)
  \/ \E t \in Workers : WorkerStep(t) \/ NodeError(t)
  \/ IdlerStep
  \/ MainStep
  \/ \E t \in Control : ControlStep(t) \/ Resume(t) \/ CloseAllSourceNodes(t)

(* Every thread keeps running, and one that waits for state_mutex_ gets it *)
(* if it is released again and again (hence SF); a paused graph is resumed.*)
(* Whether a node fails or the application pauses or cancels is left open. *)
Fairness ==
  /\ \A t \in Threads : SF_vars(QueueStep(t))
  /\ \A t \in Workers : WF_vars(WorkerStep(t))
  /\ WF_vars(IdlerStep)
  /\ SF_vars(MainStep)
  /\ \A t \in Control : SF_vars(Resume(t)) /\ WF_vars(CloseAllSourceNodes(t))

Spec == Init /\ [][Next]_vars /\ Fairness

-----------------------------------------------------------------------------
(* Properties.                                                             *)

(* The DCHECK of SetRunning and more: whatever the order of Start, Pause,  *)
(* Resume, Cancel, Quit and the stop and restart around the activation of  *)
(* a layer, the queues run exactly if the scheduler is running or          *)
(* cancelling and no layer is being added.                                 *)
RunningCountMatchesState ==
  \A q \in Queues :
    running_count[q] =
      (IF state \in {"RUNNING", "CANCELLING"} THEN 1 ELSE 0)
        - (IF idler = "activate" THEN 1 ELSE 0)

(* Quit: all calls to Process() have returned and none can follow until    *)
(* the next run, so that CleanupAfterRun finds no pending task.            *)
QuiescentWhenTerminated ==
  state = "TERMINATED" =>
    /\ \A q \in Queues : num_pending_tasks[q] = 0
    /\ \A t \in Workers : run[t] = NoItem

(* The layers of sources are run one after the other: no source of a       *)
(* higher layer is scheduled before those of lower layers are closed.      *)
LayersInOrder ==
  \A s, r \in Sources :
    Layer[r] < Layer[s] /\ status[s] = "active" => Closed(r)

(* The CHECK of RunNextTask: no closed node is scheduled again.            *)
NoClosedNodeQueued ==
  \A q \in Queues : \A i \in queue[q] : ~Closed(i[1])

(* A run that ends without an error has closed every node that could be    *)
(* opened, and every packet sent to it has been processed.                 *)
DrainedWhenTerminated ==
  state = "TERMINATED" /\ ~has_error /\ pc[Main] # "done" =>
    \A n \in Openable(provided, headed) :
      Closed(n) /\ \A p \in Inputs(n) : pk[p] = 0

(* max_queue_size (calculator.proto:379): "Any source that is connected to *)
(* an input stream that has hit its maximum capacity will not be scheduled *)
(* until the queue size falls under the specified limits, or if the        *)
(* scheduler queue is empty and no other nodes are running".  AddNode does *)
(* not ask again whether a source that was just unthrottled still is.      *)
NothingElseRuns ==
  (\A q \in Queues : queue[q] = {}) /\ (\A t \in Workers : pc[t] # "run")

FullSourceStep ==
  \A s \in Sources :
    s \in in_flight' \ in_flight => ~IsFull(s) \/ NothingElseRuns

ThrottledSourcesWait == [][FullSourceStep]_vars

(* The state transitions that the figure in scheduler.h allows.            *)
Transitions ==
  {<<"NOT_STARTED", "RUNNING">>, <<"RUNNING", "PAUSED">>,
   <<"PAUSED", "RUNNING">>, <<"RUNNING", "CANCELLING">>,
   <<"PAUSED", "CANCELLING">>, <<"RUNNING", "TERMINATED">>,
   <<"CANCELLING", "TERMINATED">>, <<"TERMINATED", "NOT_STARTED">>}

StateStep == <<state, state'>> \in Transitions

StateTransitions == [][StateStep]_state

(* The queue size callbacks of a stream may be delivered in any order;     *)
(* once none is under way, its producer is throttled iff it is full.       *)
ThrottleTracksFullness ==
  \A p \in Producers :
    (\A t \in Threads : \A k \in DOMAIN frames[t] :
       frames[t][k] # Frame("throttle", p))
    => (p \in full <=> IsFull(p))

(* WaitUntilGraphInputStreamUnthrottled misses no wake-up.                 *)
NoLostWakeup == pc[Main] = "waiting" /\ ~woken => feeding \in full

(* WaitUntilIdle: nothing runs and nothing can be scheduled when it has    *)
(* returned, although it only looks at the count of the callbacks.         *)
IdleMeansQuiet ==
  pc[Main] = "observed" /\ ~has_error =>
    /\ \A q \in Queues : IsIdle(q)
    /\ \A c \in Sinks : c \notin in_flight /\ ~CanProcess(c) /\ ~CanClose(c)

(* WaitUntilDone returns and the run is cleaned up.                        *)
RunEnds == state = "RUNNING" ~> pc[Main] = "done"

(* The sources run as promised: every variable has its type, no source of  *)
(* a later layer runs before the earlier layers are closed, no closed node *)
(* is queued, whoever is throttled fills a full stream unless the news is  *)
(* on its way, and an application that waits for room is woken.            *)
SourcesSound ==
  /\ TypeOK
  /\ LayersInOrder
  /\ NoClosedNodeQueued
  /\ ThrottleTracksFullness
  /\ NoLostWakeup

(* A graph fed by the application: idle means that nothing runs, the       *)
(* throttling logic knows which streams are full, an application that      *)
(* waits for room is woken and a run ends with empty streams.              *)
InputsSound == IdleMeansQuiet /\ ThrottleTracksFullness /\ NoLostWakeup /\ DrainedWhenTerminated
=============================================================================
