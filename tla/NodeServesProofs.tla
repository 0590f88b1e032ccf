--------------------------- MODULE NodeServesProofs ---------------------------
(***************************************************************************)
(* Proofs that a node serves its inputs: whoever feeds it and however the  *)
(* scan of its streams is interrupted, no notification is lost, and while  *)
(* it runs one invocation at a time nothing it sends is refused.           *)
(***************************************************************************)
EXTENDS NodeProofs

-----------------------------------------------------------------------------
(* No active context is forgotten.                                         *)

\* The context is queued, completed, or some thread has it in its hands.
OnItsWay(c) ==
    \/ c \in scheduled \cup completed_input_timestamps
    \/ \E t \in Threads : Claims(t, c)

\* While nobody propagates packets the earliest active context is not completed.
FrontWaits ==
    propagation_state \in {"Idle", "PropagatingBound"} =>
       \A c \in active_contexts \cap completed_input_timestamps :
          \E d \in active_contexts : d < c

WayInv == FrontWaits /\ \A c \in active_contexts : OnItsWay(c)

\* If the earliest active context is not completed, each completed one waits for
\* an earlier one.
LEMMA FrontFound ==
    ASSUME NEW completed, completed \subseteq active_contexts, active_contexts \subseteq Timestamps,
           active_contexts = {} \/ ~FrontIsCompleted(completed)
    PROVE  \A c \in completed : \E d \in active_contexts : d < c
  <1> SUFFICES ASSUME NEW c \in completed PROVE \E d \in active_contexts : d < c
    OBVIOUS
  <1>1. active_contexts # {} /\ completed # {} /\ completed \subseteq Timestamps
    OBVIOUS
  <1>2. PICK d : d = Earliest(active_contexts)
    OBVIOUS
  <1>3. PICK e : e = Earliest(completed)
    OBVIOUS
  <1>4. d \in active_contexts /\ \A u \in active_contexts : d <= u
    BY <1>1, <1>2, EarliestOfSome
  <1>5. e \in completed /\ \A u \in completed : e <= u
    BY <1>1, <1>3, EarliestOfSome
  <1>6. d # e
    BY <1>1, <1>2, <1>3 DEF FrontIsCompleted
  <1>7. d \in Int /\ e \in Int /\ c \in Int /\ d <= e /\ e <= c
    BY <1>1, <1>4, <1>5, SpecialTimestamps
  <1> QED
    BY <1>4, <1>6, <1>7

\* A step that leaves the contexts as they are, or loses none of them.
LEMMA WayKept ==
    ASSUME WayInv, NEW t \in Threads, Moves(t),
           active_contexts' \subseteq active_contexts, scheduled \subseteq scheduled',
           completed_input_timestamps \cap active_contexts' \subseteq completed_input_timestamps',
           active_contexts \subseteq Timestamps,
           \A c \in active_contexts' : Claims(t, c) => OnItsWay(c)'
    PROVE  \A c \in active_contexts' : OnItsWay(c)'
  <1> SUFFICES ASSUME NEW c \in active_contexts' PROVE OnItsWay(c)'
    OBVIOUS
  <1>1. OnItsWay(c) /\ c \in Timestamps
    BY DEF WayInv
  <1>2. CASE c \in scheduled \cup completed_input_timestamps
    BY <1>2 DEF OnItsWay
  <1>3. CASE \E u \in Threads : Claims(u, c)
    <2>1. PICK u \in Threads : Claims(u, c)
      BY <1>3
    <2>2. CASE u = t
      BY <2>1, <2>2
    <2>3. CASE u # t
      <3>1. Claims(u, c)'
        BY <1>1, <2>1, <2>3, OthersClaim
      <3> QED
        BY <3>1 DEF OnItsWay
    <2> QED
      BY <2>2, <2>3
  <1> QED
    BY <1>1, <1>2, <1>3 DEF OnItsWay

\* Actions that have nothing to do with the contexts.
ContextFree(t) ==
    \/ t \in Streams /\ (Produce(t) \/ EndStream(t))
    \/ CheckIfBecameReady(t) \/ BeginLoop(t) \/ ScanStream(t) \/ Recheck(t)
    \/ TryBound(t) \/ SendBound(t) \/ PropagatePackets(t)
    \/ Decide(t) /\ ~PrepareContext(t)
    \/ t \in Workers /\ (\/ OpenNode(t) \/ CloseInputStream(t) \/ CloseOutputStreams(t)
                         \/ NodeClosed(t) \/ EndScheduling(t))

\* They change none of them, and their thread has none in its hands.
LEMMA ContextFreeKeeps ==
    ASSUME NEW t \in Threads, ContextFree(t)
    PROVE  /\ UNCHANGED <<active_contexts, scheduled, completed_input_timestamps, propagation_state>>
           /\ pc[t] \notin {"fill", "schedule", "process", "post"}
  <1>1. CASE t \in Streams /\ (Produce(t) \/ EndStream(t))
    BY <1>1 DEF Produce, EndStream, contextVars, schedVars, propVars
  <1>2. CASE CheckIfBecameReady(t) \/ BeginLoop(t) \/ Recheck(t)
    BY <1>2 DEF CheckIfBecameReady, BeginLoop, Recheck, contextVars, propVars
  <1>3. CASE ScanStream(t) \/ TryBound(t) \/ SendBound(t)
    BY <1>3 DEF ScanStream, TryBound, SendBound, contextVars, schedVars, propVars
  <1>4. CASE PropagatePackets(t)
    BY <1>4 DEF PropagatePackets, schedVars, propVars
  <1>5. CASE Decide(t) /\ ~PrepareContext(t)
    BY <1>5 DEF Decide, NotReady, PrepareClose, schedVars, propVars
  <1>6. CASE OpenNode(t) \/ EndScheduling(t) \/ NodeClosed(t)
    BY <1>6 DEF OpenNode, EndScheduling, NodeClosed, contextVars, propVars
  <1>7. CASE CloseInputStream(t) \/ CloseOutputStreams(t)
    BY <1>7 DEF CloseInputStream, CloseOutputStreams, contextVars, schedVars, propVars
  <1> QED
    BY <1>1, <1>2, <1>3, <1>4, <1>5, <1>6, <1>7 DEF ContextFree

\* So they forget none.
LEMMA ContextFreeWay ==
    ASSUME NodeInv, WayInv, NEW t \in Threads, Moves(t), ContextFree(t)
    PROVE  WayInv'
  <1>1. UNCHANGED <<active_contexts, scheduled, completed_input_timestamps, propagation_state>>
        /\ pc[t] \notin {"fill", "schedule", "process", "post"}
    BY ContextFreeKeeps
  <1>2. FrontWaits'
    BY <1>1 DEF WayInv, FrontWaits
  <1>3. \A c \in active_contexts' : ~Claims(t, c)
    BY <1>1 DEF Claims
  <1> QED
    BY <1>1, <1>2, <1>3, WayKept, NodeTypes DEF WayInv

\* A node without parallel invocations has no active contexts.
LEMMA SequentialWay ==
    ASSUME NodeInv, ~Parallel
    PROVE  active_contexts = {} /\ completed_input_timestamps = {} /\ WayInv
  BY DEF NodeInv, ContextsInv, DefaultOnly, WayInv, FrontWaits

\* The same of the next state.
LEMMA SequentialWayNext == NodeInv' /\ ~Parallel' => WayInv'
  <1>1. NodeInv /\ ~Parallel => WayInv
    BY SequentialWay
  <1> QED
    BY <1>1, PTL

\* Unless packets are being propagated, what is completed is active.
LEMMA CompletedWait ==
    ASSUME NodeInv, propagation_state # "PropagatingPackets"
    PROVE  completed_input_timestamps \subseteq active_contexts
  <1>1. CASE Parallel
    <2>1. ActiveInv
      BY <1>1, ActiveFacts
    <2>2. \A t \in Threads : pc[t] # "propagated"
      BY DEF NodeInv, PlacesInv, Placed, StateFits, PacketLabels
    <2> QED
      BY <2>1, <2>2 DEF ActiveInv
  <1>2. CASE ~Parallel
    BY <1>2, SequentialWay
  <1> QED
    BY <1>1, <1>2

\* A context that is being prepared is in the hands of the thread that prepares it.
LEMMA PrepareContextWay ==
    ASSUME NodeInv, WayInv, NEW t \in Threads, UNCHANGED configVars, Parallel,
           Decide(t), PrepareContext(t)
    PROVE  WayInv'
  <1>1. PICK time : time = InputTimestamp(loc[t].min_packet, loc[t].min_bound)
    OBVIOUS
  <1>2. /\ pc[t] = "scan" /\ loc[t].i \notin Streams
        /\ ReadyForProcess(loc[t].min_packet, loc[t].min_bound)
        /\ UNCHANGED <<scheduled, completed_input_timestamps, propagation_state>>
        /\ active_contexts' = active_contexts \cup {time}
    BY <1>1 DEF Decide, PrepareContext, schedVars, propVars
  <1>3. /\ \A c \in active_contexts \cup completed_input_timestamps : c < time
        /\ time \notin active_contexts \cup completed_input_timestamps \cup scheduled
        /\ time # Done /\ time \in Timestamps
    BY <1>1, <1>2, ContextIsNew
  <1>4. Moves(t) /\ pc'[t] = "fill" /\ loc'[t].timestamp = time
    BY <1>1, PrepareContextEffect
  <1>5. FrontWaits'
    BY <1>2, <1>3 DEF WayInv, FrontWaits
  <1>6. OnItsWay(time)'
    BY <1>3, <1>4 DEF OnItsWay, Claims
  <1>7. ASSUME NEW c \in active_contexts PROVE OnItsWay(c)'
    <2>1. OnItsWay(c) /\ c \in Timestamps
      BY NodeTypes DEF WayInv
    <2>2. CASE c \in scheduled \cup completed_input_timestamps
      BY <1>2, <2>2 DEF OnItsWay
    <2>3. CASE \E u \in Threads : Claims(u, c)
      <3>1. PICK u \in Threads : Claims(u, c)
        BY <2>3
      <3>2. u # t
        BY <1>2, <3>1 DEF Claims
      <3>3. Claims(u, c)'
        BY <1>4, <2>1, <3>1, <3>2, OthersClaim
      <3> QED
        BY <3>3 DEF OnItsWay
    <2> QED
      BY <2>1, <2>2, <2>3 DEF OnItsWay
  <1> QED
    BY <1>2, <1>5, <1>6, <1>7 DEF WayInv

\* A context that is filled is scheduled.
LEMMA FillWay ==
    ASSUME NodeInv, WayInv, NEW t \in Threads, UNCHANGED configVars, Parallel, FillStream(t)
    PROVE  WayInv'
  <1>1. /\ pc[t] = "fill"
        /\ UNCHANGED <<active_contexts, scheduled, completed_input_timestamps, propagation_state>>
    BY DEF FillStream, schedVars, contextVars, propVars
  <1>2. Moves(t) /\ pc'[t] \in {"fill", "schedule"} /\ loc'[t].timestamp = loc[t].timestamp
    BY FillEffect DEF FilledMove, OtherFields
  <1>3. FrontWaits'
    BY <1>1 DEF WayInv, FrontWaits
  <1>4. \A c \in active_contexts' : Claims(t, c) => OnItsWay(c)'
    BY <1>1, <1>2 DEF Claims, OnItsWay
  <1> QED
    BY <1>1, <1>2, <1>3, <1>4, WayKept, NodeTypes DEF WayInv

\* A scheduled context is queued.
LEMMA ScheduleWay ==
    ASSUME NodeInv, WayInv, NEW t \in Threads, UNCHANGED configVars, Parallel, Schedule(t)
    PROVE  WayInv'
  <1>1. /\ pc[t] = "schedule" /\ scheduled' = scheduled \cup {loc[t].timestamp}
        /\ UNCHANGED <<active_contexts, completed_input_timestamps, propagation_state>>
    BY DEF Schedule, contextVars, propVars
  <1>2. Moves(t)
    BY ScheduleEffect
  <1>3. FrontWaits'
    BY <1>1 DEF WayInv, FrontWaits
  <1>4. \A c \in active_contexts' : Claims(t, c) => OnItsWay(c)'
    BY <1>1 DEF Claims, OnItsWay
  <1> QED
    BY <1>1, <1>2, <1>3, <1>4, WayKept, NodeTypes DEF WayInv

\* A context that is taken from the queue is in the hands of the worker.
LEMMA RunWay ==
    ASSUME NodeInv, WayInv, NEW w \in Workers, UNCHANGED configVars, Parallel, RunTask(w)
    PROVE  WayInv'
  <1>1. /\ w \in Threads /\ pc[w] = "free"
        /\ UNCHANGED <<active_contexts, completed_input_timestamps, propagation_state>>
    BY NodeTypes DEF RunTask, contextVars, propVars
  <1>2. PICK d \in scheduled :
          /\ scheduled' = scheduled \ {d}
          /\ Moves(w) /\ pc'[w] = "process" /\ loc'[w].context = d
    BY RunTaskEffect
  <1>3. FrontWaits'
    BY <1>1 DEF WayInv, FrontWaits
  <1>4. ASSUME NEW c \in active_contexts PROVE OnItsWay(c)'
    <2>1. OnItsWay(c) /\ c \in Timestamps /\ c # Done
      BY NodeTypes, ActiveFacts DEF WayInv
    <2>2. CASE c = d
      <3>1. Claims(w, c)'
        BY <1>2, <2>1, <2>2 DEF Claims
      <3> QED
        BY <1>1, <3>1 DEF OnItsWay
    <2>3. CASE c # d /\ c \in scheduled \cup completed_input_timestamps
      BY <1>1, <1>2, <2>3 DEF OnItsWay
    <2>4. CASE \E u \in Threads : Claims(u, c)
      <3>1. PICK u \in Threads : Claims(u, c)
        BY <2>4
      <3>2. u # w
        BY <1>1, <3>1 DEF Claims
      <3>3. Claims(u, c)'
        BY <1>1, <1>2, <2>1, <3>1, <3>2, OthersClaim
      <3> QED
        BY <3>3 DEF OnItsWay
    <2> QED
      BY <2>1, <2>2, <2>3, <2>4 DEF OnItsWay
  <1> QED
    BY <1>1, <1>3, <1>4 DEF WayInv

\* A context that is run stays with its worker.
LEMMA ProcessWay ==
    ASSUME NodeInv, WayInv, NEW w \in Workers, UNCHANGED configVars, Parallel, Process(w)
    PROVE  WayInv'
  <1>1. /\ w \in Threads /\ pc[w] = "process"
        /\ UNCHANGED <<active_contexts, scheduled, completed_input_timestamps, propagation_state>>
    BY NodeTypes DEF Process, schedVars, propVars
  <1>2. Moves(w)
    BY ProcessEffect
  <1>3. FrontWaits'
    BY <1>1 DEF WayInv, FrontWaits
  <1>4. ASSUME NEW c \in active_contexts, Claims(w, c) PROVE OnItsWay(c)'
    <2>1. loc[w].context = c /\ c # Done
      BY <1>1, <1>4 DEF Claims
    <2>2. TurnTimestamp(w) = c
      BY <2>1 DEF TurnTimestamp
    <2>3. pc'[w] = "post" /\ loc'[w].context = c
      BY <2>1, <2>2, ProcessEffect DEF OtherFields
    <2> QED
      BY <1>1, <2>1, <2>3 DEF Claims, OnItsWay
  <1> QED
    BY <1>1, <1>2, <1>3, <1>4, WayKept, NodeTypes DEF WayInv

\* What a thread that joins or ends the propagation leaves behind: it waits for
\* an earlier context.
LEMMA PropagationWaits ==
    ASSUME NodeInv, NEW t \in Threads, NEW completed, active_contexts' = active_contexts,
           completed_input_timestamps' = completed, completed \subseteq active_contexts,
           \/ LeavesPropagation(t)
           \/ StartPackets(t)
           \/ active_contexts = {}
           \/ ~FrontIsCompleted(completed)
    PROVE  FrontWaits'
  <1>1. active_contexts \subseteq Timestamps
    BY NodeTypes
  <1>2. CASE LeavesPropagation(t) \/ StartPackets(t)
    <2>1. propagation_state \in PropagationStates
      BY NodeTypes, ThreadFacts
    <2>2. propagation_state' \in {"PropagationPending", "PropagatingPackets"}
      BY <1>2, <2>1 DEF LeavesPropagation, StartPackets, PropagationStates
    <2> QED
      BY <2>2 DEF FrontWaits
  <1>3. CASE active_contexts = {} \/ ~FrontIsCompleted(completed)
    BY <1>1, <1>3, FrontFound DEF FrontWaits
  <1> QED
    BY <1>2, <1>3

\* A completed context waits for its turn.
LEMMA PostWay ==
    ASSUME NodeInv, WayInv, NEW w \in Workers, UNCHANGED configVars, Parallel, Moves(w), PostProcess(w)
    PROVE  WayInv'
  <1>1. pc[w] = "post" /\ UNCHANGED <<active_contexts, scheduled>>
    BY DEF PostProcess, schedVars
  <1>2. PICK d : d = loc[w].context
    OBVIOUS
  <1>3. /\ w \in Threads /\ loc[w].timestamp = d
        /\ d \in active_contexts
    BY <1>1, <1>2, PostFacts
  <1>4. /\ completed_input_timestamps' = completed_input_timestamps \cup {d}
        /\ JoinPropagation(w, completed_input_timestamps \cup {d}, task_timestamp_bound)
    BY <1>3 DEF PostProcess
  <1>5. FrontWaits'
    <2>1. CASE propagation_state = "Idle"
      <3>1. completed_input_timestamps \cup {d} \subseteq active_contexts
        BY <1>3, <2>1, CompletedWait
      <3>2. \/ StartPackets(w)
            \/ active_contexts = {}
            \/ ~FrontIsCompleted(completed_input_timestamps \cup {d})
        BY <1>4, <2>1 DEF JoinPropagation
      <3> QED
        BY <1>1, <1>3, <1>4, <3>1, <3>2, PropagationWaits
    <2>2. CASE propagation_state # "Idle"
      <3>1. propagation_state \in PropagationStates
        BY <1>3, NodeTypes, ThreadFacts
      <3>2. propagation_state' \in {"PropagationPending", "PropagatingPackets"}
        BY <1>4, <2>2, <3>1 DEF JoinPropagation, PropagationStates
      <3> QED
        BY <3>2 DEF FrontWaits
    <2> QED
      BY <2>1, <2>2
  <1>6. \A c \in active_contexts' : Claims(w, c) => OnItsWay(c)'
    BY <1>1, <1>2, <1>4 DEF Claims, OnItsWay
  <1> QED
    BY <1>1, <1>3, <1>4, <1>5, <1>6, WayKept, NodeTypes DEF WayInv

\* Announcing a bound forgets no context.
LEMMA UpdateWay ==
    ASSUME NodeInv, WayInv, NEW t \in Threads, UNCHANGED configVars, Parallel, Moves(t),
           UpdateTaskTimestampBound(t)
    PROVE  WayInv'
  <1>1. pc[t] = "bound" /\ UNCHANGED <<active_contexts, scheduled, completed_input_timestamps>>
    BY DEF UpdateTaskTimestampBound, schedVars, contextVars, propVars
  <1>2. FrontWaits'
    <2>1. CASE task_timestamp_bound = loc[t].timestamp
      <3>1. propagation_state' = propagation_state
        BY <2>1 DEF UpdateTaskTimestampBound, propVars
      <3> QED
        BY <1>1, <3>1 DEF WayInv, FrontWaits
    <2>2. CASE task_timestamp_bound # loc[t].timestamp
      <3>1. JoinPropagation(t, completed_input_timestamps, loc[t].timestamp)
        BY <2>2 DEF UpdateTaskTimestampBound
      <3>2. CASE propagation_state = "Idle"
        <4>1. completed_input_timestamps \subseteq active_contexts
          BY <3>2, CompletedWait
        <4>2. \/ StartPackets(t)
              \/ active_contexts = {}
              \/ ~FrontIsCompleted(completed_input_timestamps)
          BY <3>1, <3>2 DEF JoinPropagation
        <4> QED
          BY <1>1, <4>1, <4>2, PropagationWaits
      <3>3. CASE propagation_state # "Idle"
        <4>1. propagation_state \in PropagationStates
          BY NodeTypes, ThreadFacts
        <4>2. propagation_state' \in {"PropagationPending", "PropagatingPackets"}
          BY <3>1, <3>3, <4>1 DEF JoinPropagation, PropagationStates
        <4> QED
          BY <4>2 DEF FrontWaits
      <3> QED
        BY <3>2, <3>3
    <2> QED
      BY <2>1, <2>2
  <1>3. \A c \in active_contexts' : ~Claims(t, c)
    BY <1>1 DEF Claims
  <1> QED
    BY <1>1, <1>2, <1>3, WayKept, NodeTypes DEF WayInv

\* A context that is recycled is not active any more.
LEMMA RecycleWay ==
    ASSUME NodeInv, WayInv, NEW t \in Threads, UNCHANGED configVars, Moves(t), RecycleContext(t)
    PROVE  WayInv'
  <1>1. /\ pc[t] = "recycle" /\ active_contexts' \subseteq active_contexts
        /\ UNCHANGED <<scheduled, completed_input_timestamps, propagation_state>>
    BY DEF RecycleContext, schedVars, propVars
  <1>2. propagation_state = "PropagatingPackets"
    BY <1>1 DEF NodeInv, PlacesInv, Placed, StateFits, PacketLabels
  <1>3. FrontWaits'
    BY <1>1, <1>2 DEF FrontWaits
  <1>4. \A c \in active_contexts' : ~Claims(t, c)
    BY <1>1 DEF Claims
  <1> QED
    BY <1>1, <1>3, <1>4, WayKept, NodeTypes DEF WayInv

\* The thread that propagated packets leaves none that could be propagated next.
LEMMA PacketsWay ==
    ASSUME NodeInv, WayInv, NEW t \in Threads, UNCHANGED configVars, Moves(t), PacketsPropagated(t)
    PROVE  WayInv'
  <1>1. /\ pc[t] = "propagated" /\ UNCHANGED <<active_contexts, scheduled>>
        /\ completed_input_timestamps' = StillCompleted
    BY DEF PacketsPropagated, StillCompleted, schedVars, contextVars
  <1>2. /\ Earliest(completed_input_timestamps) = loc[t].context
        /\ StillCompleted \subseteq active_contexts
    BY <1>1, EarliestIsPropagated
  <1>3. loc[t].context \notin active_contexts
    BY <1>1, EarliestIsPropagated, ActiveFacts DEF ActiveInv, PropagatesFirst
  <1>4. FrontWaits'
    <2>1. \/ StartPackets(t)
          \/ active_contexts = {}
          \/ ~FrontIsCompleted(StillCompleted)
      BY DEF PacketsPropagated, StillCompleted
    <2> QED
      BY <1>1, <1>2, <2>1, PropagationWaits
  <1>5. completed_input_timestamps \cap active_contexts' \subseteq completed_input_timestamps'
    BY <1>1, <1>2, <1>3 DEF StillCompleted
  <1>6. \A c \in active_contexts' : ~Claims(t, c)
    BY <1>1 DEF Claims
  <1> QED
    BY <1>1, <1>4, <1>5, <1>6, WayKept, NodeTypes DEF WayInv

\* Nor does the thread that propagated a bound.
LEMMA BoundWay ==
    ASSUME NodeInv, WayInv, NEW t \in Threads, UNCHANGED configVars, Moves(t), BoundPropagated(t)
    PROVE  WayInv'
  <1>1. /\ pc[t] = "bound_tried"
        /\ UNCHANGED <<active_contexts, scheduled, completed_input_timestamps>>
    BY DEF BoundPropagated, schedVars, contextVars
  <1>2. propagation_state \in {"PropagatingBound", "PropagationPending"}
    BY <1>1 DEF NodeInv, PlacesInv, Placed, StateFits, BoundLabels
  <1>3. completed_input_timestamps \subseteq active_contexts
    BY <1>2, CompletedWait
  <1>4. FrontWaits'
    <2>1. CASE propagation_state = "PropagatingBound"
      BY <1>1, <2>1 DEF WayInv, FrontWaits
    <2>2. CASE propagation_state # "PropagatingBound"
      <3>1. \/ StartPackets(t)
            \/ active_contexts = {}
            \/ ~FrontIsCompleted(completed_input_timestamps)
        BY <2>2 DEF BoundPropagated
      <3> QED
        BY <1>1, <1>3, <3>1, PropagationWaits
    <2> QED
      BY <2>1, <2>2
  <1>5. \A c \in active_contexts' : ~Claims(t, c)
    BY <1>1 DEF Claims
  <1> QED
    BY <1>1, <1>4, <1>5, WayKept, NodeTypes DEF WayInv

\* Every step leaves every active context on its way.
LEMMA NodeWay ==
    ASSUME NodeInv, NodeInv', WayInv, NEW t \in Threads, UNCHANGED configVars, StepOf(t)
    PROVE  WayInv'
  <1>0. Moves(t)
    BY NodePlaces DEF StepOf
  <1>1. CASE ~Parallel
    <2>1. ~Parallel'
      BY <1>1 DEF Parallel, configVars
    <2> QED
      BY <2>1, SequentialWayNext
  <1>2. CASE ContextFree(t)
    BY <1>0, <1>2, ContextFreeWay
  <1>3. CASE Parallel /\ Decide(t) /\ PrepareContext(t)
    BY <1>3, PrepareContextWay
  <1>4. CASE Parallel /\ (FillStream(t) \/ Schedule(t))
    BY <1>4, FillWay, ScheduleWay
  <1>5. CASE Parallel /\ t \in Workers /\ (RunTask(t) \/ Process(t) \/ PostProcess(t))
    BY <1>0, <1>5, RunWay, ProcessWay, PostWay
  <1>6. CASE Parallel /\ UpdateTaskTimestampBound(t)
    BY <1>0, <1>6, UpdateWay
  <1>7. CASE RecycleContext(t) \/ PacketsPropagated(t) \/ BoundPropagated(t)
    BY <1>0, <1>7, RecycleWay, PacketsWay, BoundWay
  <1> QED
    BY <1>1, <1>2, <1>3, <1>4, <1>5, <1>6, <1>7, StepKinds DEF Elsewhere, ContextFree

-----------------------------------------------------------------------------
(* Once the closing of the node is prepared, it is on its way.             *)

\* The worker runs the default context.
RunsDefault(w) ==
    \/ pc[w] \in {"process", "post"} /\ loc[w].context = Done
    \/ pc[w] \in {"close", "close_outputs", "closed"}

\* The last timestamp of the default context is Timestamp::Done().
EndsWithDone == batch # <<>> /\ batch[Len(batch)] = Done

CloseInv ==
    prepared_context_for_close =>
       /\ EndsWithDone
       /\ status = "Closed" \/ Done \in scheduled \/ \E w \in Workers : RunsDefault(w)

\* While the closing is not prepared there is nothing to keep.
LEMMA NotPrepared == ~prepared_context_for_close' => CloseInv'
  BY DEF CloseInv

\* The threads that have nothing to do with the default context leave it alone.
LEMMA CloseKept ==
    ASSUME CloseInv, NEW t \in Threads, Moves(t),
           UNCHANGED <<batch, prepared_context_for_close>>,
           Done \in scheduled => Done \in scheduled' \/ (t \in Workers /\ RunsDefault(t)'),
           status = "Closed" => status' = "Closed",
           t \in Workers /\ RunsDefault(t) => RunsDefault(t)' \/ status' = "Closed"
    PROVE  CloseInv'
  <1>1. \A u \in Threads \ {t} : RunsDefault(u) => RunsDefault(u)'
    BY DEF Moves, RunsDefault
  <1>2. \A w \in Workers : w \in Threads
    BY DEF Threads
  <1> QED
    BY <1>1, <1>2 DEF CloseInv, EndsWithDone

\* So do the steps that have nothing to do with any batch.
LEMMA CloseLeft ==
    ASSUME CloseInv, NEW t \in Threads, Moves(t), LeavesBatch(t), ~RunsDefault(t),
           status = "Closed" => status' = "Closed"
    PROVE  CloseInv'
  BY CloseKept DEF LeavesBatch

\* Steps that leave the default context alone.
LEMMA LeavesClose ==
    ASSUME NodeInv, CloseInv, NEW t \in Threads, UNCHANGED configVars, Moves(t),
           \/ t \in Streams /\ (Produce(t) \/ EndStream(t))
           \/ t \in Workers /\ OpenNode(t)
           \/ PropagatePackets(t) \/ RecycleContext(t) \/ TryBound(t) \/ SendBound(t)
           \/ CheckIfBecameReady(t) \/ BeginLoop(t) \/ Recheck(t) \/ ScanStream(t)
           \/ t \in Workers /\ EndScheduling(t)
           \/ UpdateTaskTimestampBound(t) \/ PacketsPropagated(t) \/ BoundPropagated(t)
           \/ t \in Workers /\ Parallel /\ PostProcess(t)
    PROVE  CloseInv'
  <1>1. LeavesBatch(t)
    BY GoesLeave, LoopLeaves, OutputLeaves
  <1>2. status = "Closed" => status' = "Closed"
    BY DEF Produce, EndStream, OpenNode, PropagatePackets, RecycleContext, TryBound, SendBound,
           CheckIfBecameReady, BeginLoop, Recheck, ScanStream, EndScheduling,
           UpdateTaskTimestampBound, PacketsPropagated, BoundPropagated, PostProcess, schedVars
  <1>3. ~RunsDefault(t)
    <2>1. CASE t \in Workers /\ Parallel /\ PostProcess(t)
      <3>1. pc[t] = "post" /\ RunsBatch(t)
        BY <2>1 DEF PostProcess, NodeInv, BatchInv
      <3> QED
        BY <2>1, <3>1 DEF RunsBatch, RunsDefault
    <2>2. CASE ~(t \in Workers /\ Parallel /\ PostProcess(t))
      <3>1. pc[t] \notin {"process", "post", "close", "close_outputs", "closed"}
        BY <2>2 DEF Produce, EndStream, OpenNode, PropagatePackets, RecycleContext, TryBound, SendBound,
           CheckIfBecameReady, BeginLoop, Recheck, ScanStream, EndScheduling,
           UpdateTaskTimestampBound, PacketsPropagated, BoundPropagated
      <3> QED
        BY <3>1 DEF RunsDefault
    <2> QED
      BY <2>1, <2>2
  <1> QED
    BY <1>1, <1>2, <1>3, CloseLeft

\* Deciding to prepare a context or the closing, or that nothing is ready.
LEMMA DecideClose ==
    ASSUME NodeInv, CloseInv, NEW t \in Threads, UNCHANGED configVars, Moves(t), Decide(t)
    PROVE  CloseInv'
  <1>1. /\ pc[t] = "scan" /\ loc[t].i \notin Streams /\ UNCHANGED <<scheduled, status>>
        /\ NotReady(t) \/ PrepareContext(t) \/ PrepareClose(t)
    BY DEF Decide, schedVars
  <1>2. prepared_context_for_close' = prepared_context_for_close
    BY <1>1 DEF NotReady, PrepareContext, PrepareClose, inputVars
  <1>3. CASE batch' = batch
    BY <1>1, <1>2, <1>3, CloseKept DEF RunsDefault
  <1>4. CASE batch' # batch
    <2>1. PrepareContext(t) \/ MayPrepareClose
      BY <1>1, <1>4 DEF NotReady, PrepareClose
    <2>2. ~prepared_context_for_close
      <3>1. CASE PrepareContext(t)
        <4>1. ReadyForProcess(loc[t].min_packet, loc[t].min_bound)
          BY <3>1 DEF PrepareContext
        <4>2. ~Over
          BY <1>1, <4>1, ReadyTimestamp
        <4> QED
          BY <1>1, <4>2, ScanFacts
      <3>2. CASE MayPrepareClose
        BY <3>2 DEF MayPrepareClose
      <3> QED
        BY <2>1, <3>1, <3>2
    <2> QED
      BY <1>2, <2>2, NotPrepared
  <1> QED
    BY <1>3, <1>4

\* The closing is prepared when the default context with Timestamp::Done() is
\* queued.
LEMMA ScheduleClose ==
    ASSUME NodeInv, CloseInv, NEW t \in Threads, UNCHANGED configVars, Schedule(t)
    PROVE  CloseInv'
  <1>1. /\ pc[t] = "schedule" /\ batch' = batch
        /\ scheduled' = scheduled \cup {IF Parallel THEN loc[t].timestamp ELSE Default}
        /\ prepared_context_for_close' =
              IF loc[t].timestamp = Done THEN TRUE ELSE prepared_context_for_close
    BY DEF Schedule, contextVars
  <1>2. ~prepared_context_for_close
    BY <1>1, ScheduledIsNew
  <1>3. CASE loc[t].timestamp = Done
    <2>1. EndsWithDone
      BY <1>1, <1>3 DEF NodeInv, BatchInv, LoadsBatch, AtClose, EndsWithDone
    <2>2. Done \in scheduled'
      BY <1>1, <1>3 DEF Default
    <2> QED
      BY <1>1, <2>1, <2>2 DEF CloseInv, EndsWithDone
  <1>4. CASE loc[t].timestamp # Done
    BY <1>1, <1>2, <1>4, NotPrepared
  <1> QED
    BY <1>3, <1>4

\* A worker takes the default context.
LEMMA RunClose ==
    ASSUME NodeInv, CloseInv, NEW w \in Workers, UNCHANGED configVars, RunTask(w)
    PROVE  CloseInv'
  <1>1. /\ w \in Threads /\ pc[w] = "free"
        /\ UNCHANGED <<batch, prepared_context_for_close, status>>
    BY NodeTypes DEF RunTask, contextVars, inputVars
  <1>2. PICK d \in scheduled :
          /\ scheduled' = scheduled \ {d}
          /\ Moves(w) /\ pc'[w] = "process" /\ loc'[w].context = d
    BY RunTaskEffect
  <1>3. Done \in scheduled => Done \in scheduled' \/ RunsDefault(w)'
    BY <1>2 DEF RunsDefault
  <1>4. ~RunsDefault(w)
    BY <1>1 DEF RunsDefault
  <1> QED
    BY <1>1, <1>2, <1>3, <1>4, CloseKept

\* A turn of the default context that is not the last leaves Timestamp::Done() in it.
LEMMA ProcessClose ==
    ASSUME NodeInv, CloseInv, NEW w \in Workers, UNCHANGED configVars, Process(w)
    PROVE  CloseInv'
  <1>1. /\ w \in Threads /\ pc[w] = "process" /\ Moves(w)
        /\ UNCHANGED <<prepared_context_for_close, status, scheduled>>
        /\ batch \in Seq(Timestamps)
    BY NodeTypes, ProcessEffect DEF Process, schedVars, inputVars
  <1>2. /\ TurnTimestamp(w) = Done => batch' = batch
        /\ TurnTimestamp(w) # Done => batch' = IF loc[w].context = Done THEN Tail(batch) ELSE batch
    BY DEF Process, TurnTimestamp, Default
  <1>3. RunsDefault(w) => RunsDefault(w)'
    <2>1. IF TurnTimestamp(w) = Done THEN pc'[w] = "close"
          ELSE pc'[w] = "post" /\ loc'[w].context = loc[w].context
      BY ProcessEffect DEF OtherFields
    <2> QED
      BY <1>1, <2>1 DEF RunsDefault
  <1>4. CASE batch' = batch
    BY <1>1, <1>3, <1>4, CloseKept
  <1>5. CASE batch' # batch
    <2>1. TurnTimestamp(w) # Done /\ loc[w].context = Done /\ batch' = Tail(batch)
      BY <1>2, <1>5
    <2>2. RunsDefault(w)'
      BY <1>1, <1>3, <2>1 DEF RunsDefault
    <2>3. ASSUME prepared_context_for_close PROVE EndsWithDone'
      <3>1. batch # <<>> /\ batch[Len(batch)] = Done
        BY <2>3 DEF CloseInv, EndsWithDone
      <3>2. Head(batch) # Done /\ Head(batch) = batch[1]
        BY <1>1, <2>1, <3>1 DEF TurnTimestamp
      <3>3. Len(batch) \in Nat /\ Len(batch) # 0 /\ Len(batch) # 1
        BY <1>1, <3>1, <3>2
      <3>4. /\ Len(Tail(batch)) = Len(batch) - 1
            /\ Tail(batch)[Len(batch) - 1] = batch[Len(batch)]
        <4>1. /\ Len(Tail(batch)) = Len(batch) - 1
              /\ \A i \in 1 .. Len(Tail(batch)) : Tail(batch)[i] = batch[i + 1]
          BY <1>1, <3>1
        <4>2. Len(batch) - 1 \in 1 .. Len(Tail(batch)) /\ (Len(batch) - 1) + 1 = Len(batch)
          BY <3>3, <4>1
        <4> QED
          BY <4>1, <4>2
      <3>5. Tail(batch) # <<>>
        BY <3>3, <3>4
      <3> QED
        BY <2>1, <3>1, <3>4, <3>5 DEF EndsWithDone
    <2> QED
      BY <1>1, <2>2, <2>3 DEF CloseInv
  <1> QED
    BY <1>4, <1>5

\* After a turn the worker goes on with the rest of the batch.
LEMMA TurnClose ==
    ASSUME NodeInv, CloseInv, NEW w \in Workers, UNCHANGED configVars, PostProcess(w), ~Parallel
    PROVE  CloseInv'
  <1>1. /\ TakesTurn(w) /\ pc[w] = "post" /\ w \in Threads
        /\ UNCHANGED <<batch, prepared_context_for_close, status, scheduled>>
        /\ batch \in Seq(Timestamps)
    BY NodeTypes DEF PostProcess, TakesTurn, schedVars, inputVars
  <1>2. /\ Moves(w) /\ pc'[w] = IF loc[w].invocations > 1 THEN "process" ELSE "end"
        /\ loc'[w].context = loc[w].context
    BY <1>1, TurnEffect DEF OtherFields
  <1>3. RunsBatch(w) /\ loc[w].context = Done
    BY <1>1 DEF NodeInv, BatchInv, ContextsInv, DefaultOnly, Running
  <1>4. loc[w].invocations = Len(batch) + 1 /\ Len(batch) \in Nat
    BY <1>1, <1>3 DEF RunsBatch
  <1>5. CASE prepared_context_for_close
    <2>1. batch # <<>>
      BY <1>5 DEF CloseInv, EndsWithDone
    <2>2. loc[w].invocations > 1
      BY <1>1, <1>4, <2>1
    <2>3. RunsDefault(w)'
      BY <1>2, <1>3, <2>2 DEF RunsDefault
    <2> QED
      BY <1>1, <1>2, <2>3, CloseKept
  <1>6. CASE ~prepared_context_for_close
    BY <1>1, <1>6, NotPrepared
  <1> QED
    BY <1>5, <1>6

\* The closing goes on until the node is closed.
LEMMA ClosingClose ==
    ASSUME NodeInv, CloseInv, NEW w \in Workers, UNCHANGED configVars, Moves(w),
           CloseInputStream(w) \/ CloseOutputStreams(w) \/ NodeClosed(w)
    PROVE  CloseInv'
  <1>1. /\ w \in Threads
        /\ UNCHANGED <<batch, prepared_context_for_close, scheduled>>
        /\ status' \in {status, "Closed"}
    BY NodeTypes DEF CloseInputStream, CloseOutputStreams, NodeClosed, contextVars, inputVars, schedVars
  <1>2. RunsDefault(w)' \/ status' = "Closed"
    <2>1. pc \in [Threads -> Labels]
      BY NodeTypes, ThreadFacts
    <2>2. CASE CloseInputStream(w)
      BY <2>2, CloseEffect DEF RunsDefault
    <2>3. CASE CloseOutputStreams(w)
      BY <1>1, <2>1, <2>3 DEF CloseOutputStreams, Goto, RunsDefault
    <2>4. CASE NodeClosed(w)
      BY <2>4 DEF NodeClosed
    <2> QED
      BY <2>2, <2>3, <2>4
  <1> QED
    BY <1>1, <1>2, CloseKept

\* Every step keeps the closing on its way.
LEMMA NodeClose ==
    ASSUME NodeInv, CloseInv, NEW t \in Threads, UNCHANGED configVars, StepOf(t)
    PROVE  CloseInv'
  <1>0. Moves(t)
    BY NodePlaces DEF StepOf
  <1>1. CASE Decide(t) \/ Schedule(t)
    BY <1>0, <1>1, DecideClose, ScheduleClose
  <1>2. CASE FillStream(t)
    <2>1. pc[t] = "fill" /\ prepared_context_for_close' = prepared_context_for_close
      BY <1>2 DEF FillStream, inputVars
    <2> QED
      BY <2>1, FillFacts, NotPrepared
  <1>3. CASE t \in Workers /\ (RunTask(t) \/ Process(t))
    BY <1>3, RunClose, ProcessClose
  <1>4. CASE t \in Workers /\ ~Parallel /\ PostProcess(t)
    BY <1>4, TurnClose
  <1>5. CASE t \in Workers /\ (CloseInputStream(t) \/ CloseOutputStreams(t) \/ NodeClosed(t))
    BY <1>0, <1>5, ClosingClose
  <1>6. CASE ~(Decide(t) \/ FillStream(t) \/ Schedule(t))
             /\ ~(t \in Workers /\ (\/ RunTask(t) \/ Process(t) \/ (~Parallel /\ PostProcess(t))
                                    \/ CloseInputStream(t) \/ CloseOutputStreams(t) \/ NodeClosed(t)))
    BY <1>0, <1>6, StepKinds, LeavesClose DEF Elsewhere
  <1> QED
    BY <1>1, <1>2, <1>3, <1>4, <1>5, <1>6

-----------------------------------------------------------------------------
(* No notification is lost.                                                *)

\* The minima of the thread are those of the streams it has looked at.
Exact(t) ==
    LET l == loc[t]
    IN  /\ \A s \in Streams : s < l.i =>
              IF queue[s] = <<>> THEN l.min_bound <= next_timestamp_bound[s]
              ELSE l.min_packet <= Head(queue[s])
        /\ \/ l.min_packet = Done
           \/ \E s \in Streams : s < l.i /\ queue[s] # <<>> /\ Head(queue[s]) = l.min_packet
        /\ \/ l.min_bound = Done
           \/ \E s \in Streams : s < l.i /\ queue[s] = <<>> /\ next_timestamp_bound[s] = l.min_bound

ReadyNow == ReadyForProcess(MinPacket, MinBound) \/ ReadyForClose(MinPacket, MinBound)

\* The thread will test the readiness, or goes on with a test that has missed
\* nothing.
WillLook(t) ==
    \/ pc[t] \in {"notify", "begin", "fill", "schedule"}
    \/ pc[t] = "scan" /\ Exact(t)

\* Whatever is ready, somebody will look: the invocation that ends, the thread
\* that was told to look again, or one that is about to.
ReadinessInv ==
    status = "Opened" =>
       \/ current_in_flight > 0 \/ scheduling_state = "SchedulingPending"
       \/ \E t \in Threads : WillLook(t)
       \/ ~ReadyNow

\* A readiness test sees the same streams as before.
SeesSame ==
    \A s \in Streams :
       /\ queue'[s] = <<>> <=> queue[s] = <<>>
       /\ queue[s] # <<>> => Head(queue'[s]) = Head(queue[s])
       /\ queue[s] = <<>> => next_timestamp_bound'[s] = next_timestamp_bound[s]

\* It comes to the same result.
LEMMA SameReadiness ==
    ASSUME SeesSame, UNCHANGED <<last_processed_ts, process_timestamps>>
    PROVE  ReadyNow' <=> ReadyNow
  <1>1. {Head(queue[s]) : s \in {r \in Streams : queue[r] # <<>>}}'
           = {Head(queue[s]) : s \in {r \in Streams : queue[r] # <<>>}}
    BY DEF SeesSame
  <1>2. {next_timestamp_bound[s] : s \in {r \in Streams : queue[r] = <<>>}}'
           = {next_timestamp_bound[s] : s \in {r \in Streams : queue[r] = <<>>}}
    BY DEF SeesSame
  <1>3. MinPacket' = MinPacket
    BY <1>1 DEF MinPacket, Earliest
  <1>4. MinBound' = MinBound
    BY <1>2 DEF MinBound, Earliest
  <1> QED
    BY <1>3, <1>4 DEF ReadyNow, ReadyForProcess, ReadyForClose, InputTimestamp, MinStreamTimestamp

\* The tests under way stay exact.
LEMMA SameExact ==
    ASSUME SeesSame, NEW u, loc'[u] = loc[u], Exact(u)
    PROVE  Exact(u)'
  BY DEF SeesSame, Exact

\* Steps that change nothing the readiness depends on.
LEMMA ReadinessKept ==
    ASSUME ReadinessInv, NEW t \in Threads, Moves(t), SeesSame,
           UNCHANGED <<last_processed_ts, process_timestamps>>,
           status' = "Opened" => status = "Opened",
           status = "Opened" =>
             (current_in_flight > 0 \/ scheduling_state = "SchedulingPending" \/ WillLook(t)
              => \/ current_in_flight' > 0 \/ scheduling_state' = "SchedulingPending"
                 \/ WillLook(t)')
    PROVE  ReadinessInv'
  <1> SUFFICES ASSUME status' = "Opened", ReadyNow'
               PROVE  \/ current_in_flight' > 0 \/ scheduling_state' = "SchedulingPending"
                      \/ \E u \in Threads : WillLook(u)'
    BY DEF ReadinessInv
  <1>1. ReadyNow
    BY SameReadiness
  <1>2. CASE current_in_flight > 0 \/ scheduling_state = "SchedulingPending" \/ WillLook(t)
    BY <1>2
  <1>3. CASE \E u \in Threads \ {t} : WillLook(u)
    <2>1. PICK u \in Threads \ {t} : WillLook(u)
      BY <1>3
    <2>2. pc'[u] = pc[u] /\ loc'[u] = loc[u]
      BY DEF Moves
    <2>3. WillLook(u)'
      BY <2>1, <2>2, SameExact DEF WillLook
    <2> QED
      BY <2>3
  <1> QED
    BY <1>1, <1>2, <1>3 DEF ReadinessInv

\* A thread that will look is enough.
LEMMA LookedAt == (\E t \in Threads : WillLook(t)') => ReadinessInv'
  BY DEF ReadinessInv

\* So are invocations in flight.
LEMMA CountedOn == current_in_flight' > 0 => ReadinessInv'
  BY DEF ReadinessInv

\* A test that begins has missed nothing.
LEMMA FreshLook ==
    ASSUME NEW t, pc'[t] = "scan", loc'[t].i = 1, loc'[t].min_packet = Done, loc'[t].min_bound = Done
    PROVE  WillLook(t)'
  <1>1. \A s \in Streams : ~(s < 1)
    BY StreamNumbers
  <1> QED
    BY <1>1 DEF WillLook, Exact

\* The streams are the same.
LEMMA QuietSees == UNCHANGED <<queue, next_timestamp_bound>> => SeesSame
  BY DEF SeesSame

\* Upstream asks for a notification whenever a readiness test would see something new.
LEMMA ProduceReadiness ==
    ASSUME NodeInv, ReadinessInv, NEW s \in Streams, UNCHANGED configVars, Produce(s) \/ EndStream(s)
    PROVE  ReadinessInv'
  <1>1. /\ s \in Threads /\ pc[s] = "produce"
        /\ UNCHANGED <<last_processed_ts, process_timestamps, status, current_in_flight, scheduling_state>>
    BY NodeTypes DEF Produce, EndStream, inputVars, schedVars, configVars
  <1>2. StreamsOffer /\ Moves(s) /\ pc \in [Threads -> Labels]
    BY <1>1, ProduceOffers, NodeTypes, ThreadFacts
  <1>3. CASE pc'[s] = "notify"
    BY <1>1, <1>3, LookedAt DEF WillLook
  <1>4. CASE pc'[s] # "notify"
    <2>1. SeesSame
      <3> SUFFICES ASSUME NEW r \in Streams
                   PROVE  /\ queue'[r] = <<>> <=> queue[r] = <<>>
                          /\ queue[r] = <<>> => next_timestamp_bound'[r] = next_timestamp_bound[r]
        BY <1>2 DEF SeesSame, StreamsOffer, Offers
      <3>0. /\ queue \in [Streams -> Seq(Timestamps)]
            /\ next_timestamp_bound \in [Streams -> Timestamps]
            /\ next_timestamp_bound[s] \in Timestamps
        BY NodeTypes DEF StreamInv, StreamTypeOK
      <3>1. queue[r] # <<>> => queue'[r] # <<>>
        BY <1>2 DEF StreamsOffer, Offers
      <3>2. CASE \E p \in PacketTimes : AddPackets(s, <<p>>) /\ Goto(s, IF AddPacketsNotifies(s) THEN "notify" ELSE "produce") /\ ~closed[s]
        <4>1. PICK p \in PacketTimes : AddPackets(s, <<p>>) /\ Goto(s, IF AddPacketsNotifies(s) THEN "notify" ELSE "produce") /\ ~closed[s]
          BY <3>2
        <4>2. queue[s] # <<>>
          BY <1>1, <1>2, <1>4, <4>1 DEF Goto, AddPacketsNotifies
        <4>3. r # s => queue'[r] = queue[r] /\ next_timestamp_bound'[r] = next_timestamp_bound[r]
          BY <3>0, <4>1 DEF AddPackets, QueuePackets
        <4> QED
          BY <3>1, <4>2, <4>3
      <3>3. CASE \E b \in Timestamps : /\ SetNextTimestampBound(s, b)
                                       /\ b > next_timestamp_bound[s] \/ b = Done
                                       /\ Goto(s, IF SetBoundNotifies(s, b) THEN "notify" ELSE "produce")
        <4>1. PICK b \in Timestamps : /\ SetNextTimestampBound(s, b)
                                      /\ Goto(s, IF SetBoundNotifies(s, b) THEN "notify" ELSE "produce")
          BY <3>3
        <4>2. closed[s] \/ ~(b > next_timestamp_bound[s]) \/ queue[s] # <<>>
          BY <1>1, <1>2, <1>4, <4>1 DEF Goto, SetBoundNotifies
        <4>3. /\ queue' = queue
              /\ r # s => next_timestamp_bound'[r] = next_timestamp_bound[r]
              /\ next_timestamp_bound'[s] = IF ~closed[s] /\ b > next_timestamp_bound[s]
                                            THEN b ELSE next_timestamp_bound[s]
          BY <3>0, <4>1 DEF SetNextTimestampBound, queueVars
        <4> QED
          BY <4>2, <4>3
      <3>4. CASE Produce(s)
        <4>1. \A b \in BoundTimes : b \in Timestamps
          BY NodeAssumption
        <4> QED
          BY <3>2, <3>3, <3>4, <4>1 DEF Produce
      <3>5. CASE EndStream(s)
        BY <3>3, <3>5, NoLocalsType DEF EndStream
      <3> QED
        BY <3>4, <3>5
    <2>2. ~WillLook(s)
      BY <1>1 DEF WillLook
    <2> QED
      BY <1>1, <1>2, <2>1, <2>2, ReadinessKept
  <1> QED
    BY <1>3, <1>4

\* A thread that is notified looks or tells the one that does.
LEMMA NotifyReadiness ==
    ASSUME NodeInv, ReadinessInv, NEW t \in Threads, UNCHANGED configVars, Moves(t),
           CheckIfBecameReady(t) \/ BeginLoop(t) \/ Recheck(t)
    PROVE  ReadinessInv'
  <1>0. /\ PlacesInv /\ pc \in [Threads -> Labels] /\ Allowance \in Int
        /\ current_in_flight \in Nat /\ max_in_flight \in Nat \ {0}
        /\ scheduling_state \in SchedulingStates
    BY NodeTypes, ThreadFacts DEF NodeInv, CountInv, ConfigInv
  <1>1. /\ SeesSame
        /\ UNCHANGED <<last_processed_ts, process_timestamps, status, current_in_flight>>
    BY QuietSees DEF CheckIfBecameReady, BeginLoop, Recheck, streamVars, queueVars, boundVars,
                     inputVars, configVars
  <1> SUFFICES ASSUME status = "Opened",
                      current_in_flight > 0 \/ scheduling_state = "SchedulingPending" \/ WillLook(t)
               PROVE  \/ current_in_flight' > 0 \/ scheduling_state' = "SchedulingPending"
                      \/ WillLook(t)'
    BY <1>1, ReadinessKept
  <1> SUFFICES ASSUME current_in_flight = 0
               PROVE  scheduling_state' = "SchedulingPending" \/ WillLook(t)'
    BY <1>0, <1>1
  <1>2. CASE CheckIfBecameReady(t)
    <2>1. CASE scheduling_state = "Idle"
      BY <1>0, <1>2, <2>1 DEF CheckIfBecameReady, Goto, WillLook
    <2>2. CASE scheduling_state # "Idle"
      BY <1>0, <1>2, <2>2 DEF CheckIfBecameReady, ToldToLookAgain, SchedulingStates
    <2> QED
      BY <2>1, <2>2
  <1>3. CASE NextInvocation(t, Allowance)
    <2>1. Allowance > 0
      BY <1>0 DEF Allowance
    <2>2. pc'[t] = "scan" /\ loc'[t].i = 1 /\ loc'[t].min_packet = Done /\ loc'[t].min_bound = Done
      BY <1>0, <1>3, <2>1, NextInvocationEffect
    <2> QED
      BY <2>2, FreshLook
  <1>4. CASE BeginLoop(t)
    BY <1>3, <1>4 DEF BeginLoop
  <1>5. CASE Recheck(t)
    <2>1. CASE RunAgain
      BY <1>3, <1>5, <2>1 DEF Recheck
    <2>2. CASE ~RunAgain
      BY <1>0, <1>5, <2>2 DEF Recheck, RunAgain, WillLook
    <2> QED
      BY <2>1, <2>2
  <1> QED
    BY <1>2, <1>4, <1>5

\* A test takes one more stream into account.
LEMMA ScanReadiness ==
    ASSUME NodeInv, ReadinessInv, NEW t \in Threads, UNCHANGED configVars, ScanStream(t)
    PROVE  ReadinessInv'
  <1>1. /\ UNCHANGED <<queue, next_timestamp_bound>>
        /\ UNCHANGED <<last_processed_ts, process_timestamps, status, current_in_flight, scheduling_state>>
    BY DEF ScanStream, streamVars, queueVars, boundVars, inputVars, configVars, schedVars
  <1>2. PICK s : s = loc[t].i
    OBVIOUS
  <1>3. /\ pc[t] = "scan" /\ s \in Streams
        /\ Moves(t) /\ pc' = pc /\ loc'[t].i = s + 1
        /\ loc'[t].min_bound = IF queue[s] = <<>> THEN Earlier(loc[t].min_bound, MinTimestampOrBound(s))
                                                  ELSE loc[t].min_bound
        /\ loc'[t].min_packet = IF queue[s] = <<>> THEN loc[t].min_packet
                                                   ELSE Earlier(loc[t].min_packet, MinTimestampOrBound(s))
    BY <1>2, ScanEffect
  <1>4. SeesSame
    BY <1>1, QuietSees
  <1>5. ASSUME Exact(t) PROVE Exact(t)'
    <2>0. /\ loc[t].min_packet \in Int /\ loc[t].min_bound \in Int
          /\ MinTimestampOrBound(s) \in Int
          /\ \A r \in Streams : queue[r] = <<>> => next_timestamp_bound[r] \in Int
          /\ \A r \in Streams : queue[r] # <<>> => Head(queue[r]) \in Int
      <3>1. ASSUME NEW r \in Streams
            PROVE  /\ next_timestamp_bound[r] \in Int /\ MinTimestampOrBound(r) \in Int
                   /\ queue[r] # <<>> => Head(queue[r]) \in Int
        BY StreamFacts DEF MinTimestampOrBound
      <3> QED
        BY <1>3, <3>1, ScanFacts
    <2>1. /\ \A r \in Streams : r < s =>
                IF queue[r] = <<>> THEN loc[t].min_bound <= next_timestamp_bound[r]
                ELSE loc[t].min_packet <= Head(queue[r])
          /\ \/ loc[t].min_packet = Done
             \/ \E r \in Streams : r < s /\ queue[r] # <<>> /\ Head(queue[r]) = loc[t].min_packet
          /\ \/ loc[t].min_bound = Done
             \/ \E r \in Streams : r < s /\ queue[r] = <<>> /\ next_timestamp_bound[r] = loc[t].min_bound
      BY <1>2, <1>5 DEF Exact
    <2>2. \A r \in Streams : r < s + 1 <=> r < s \/ r = s
      BY <1>3, StreamNumbers
    <2>3. CASE queue[s] = <<>>
      <3>1. /\ loc'[t].min_bound = Earlier(loc[t].min_bound, next_timestamp_bound[s])
            /\ loc'[t].min_packet = loc[t].min_packet
        BY <1>3, <2>3 DEF MinTimestampOrBound
      <3>2. /\ loc'[t].min_bound <= loc[t].min_bound /\ loc'[t].min_bound <= next_timestamp_bound[s]
            /\ loc'[t].min_bound \in {loc[t].min_bound, next_timestamp_bound[s]}
            /\ loc'[t].min_bound \in Int
        BY <1>3, <2>0, <2>3, <3>1 DEF Earlier
      <3>3. \A r \in Streams : r < s + 1 =>
                IF queue[r] = <<>> THEN loc'[t].min_bound <= next_timestamp_bound[r]
                ELSE loc'[t].min_packet <= Head(queue[r])
        BY <2>0, <2>1, <2>2, <2>3, <3>1, <3>2
      <3>4. \/ loc'[t].min_packet = Done
            \/ \E r \in Streams : r < s + 1 /\ queue[r] # <<>> /\ Head(queue[r]) = loc'[t].min_packet
        BY <2>1, <2>2, <3>1
      <3>5. \/ loc'[t].min_bound = Done
            \/ \E r \in Streams : r < s + 1 /\ queue[r] = <<>> /\ next_timestamp_bound[r] = loc'[t].min_bound
        BY <1>3, <2>1, <2>2, <2>3, <3>2
      <3> QED
        BY <1>1, <1>3, <3>3, <3>4, <3>5 DEF Exact
    <2>4. CASE queue[s] # <<>>
      <3>1. /\ loc'[t].min_packet = Earlier(loc[t].min_packet, Head(queue[s]))
            /\ loc'[t].min_bound = loc[t].min_bound
        BY <1>3, <2>4 DEF MinTimestampOrBound
      <3>2. /\ loc'[t].min_packet <= loc[t].min_packet /\ loc'[t].min_packet <= Head(queue[s])
            /\ loc'[t].min_packet \in {loc[t].min_packet, Head(queue[s])}
            /\ loc'[t].min_packet \in Int
        BY <1>3, <2>0, <2>4, <3>1 DEF Earlier
      <3>3. \A r \in Streams : r < s + 1 =>
                IF queue[r] = <<>> THEN loc'[t].min_bound <= next_timestamp_bound[r]
                ELSE loc'[t].min_packet <= Head(queue[r])
        BY <2>0, <2>1, <2>2, <2>4, <3>1, <3>2
      <3>4. \/ loc'[t].min_bound = Done
            \/ \E r \in Streams : r < s + 1 /\ queue[r] = <<>> /\ next_timestamp_bound[r] = loc'[t].min_bound
        BY <2>1, <2>2, <3>1
      <3>5. \/ loc'[t].min_packet = Done
            \/ \E r \in Streams : r < s + 1 /\ queue[r] # <<>> /\ Head(queue[r]) = loc'[t].min_packet
        BY <1>3, <2>1, <2>2, <2>4, <3>2
      <3> QED
        BY <1>1, <1>3, <3>3, <3>4, <3>5 DEF Exact
    <2> QED
      BY <2>3, <2>4
  <1>6. WillLook(t) => WillLook(t)'
    BY <1>3, <1>5 DEF WillLook
  <1> QED
    BY <1>1, <1>3, <1>4, <1>6, ReadinessKept

\* The minima of an exact test of all streams are those of the streams.
LEMMA ExactMinima ==
    ASSUME NodeInv, NEW t \in Threads, pc[t] = "scan", loc[t].i \notin Streams, Exact(t)
    PROVE  loc[t].min_packet = MinPacket /\ loc[t].min_bound = MinBound
  <1> DEFINE H == {Head(queue[s]) : s \in {r \in Streams : queue[r] # <<>>}}
             B == {next_timestamp_bound[s] : s \in {r \in Streams : queue[r] = <<>>}}
  <1>1. \A s \in Streams : s < loc[t].i
    BY StreamNumbers, ScanFacts DEF Scanned
  <1>2. /\ H \subseteq Timestamps /\ B \subseteq Timestamps /\ Done \in Timestamps
        /\ loc[t].min_packet \in Timestamps /\ loc[t].min_bound \in Timestamps
    <2>1. ASSUME NEW s \in Streams
          PROVE  /\ next_timestamp_bound[s] \in Timestamps
                 /\ queue[s] # <<>> => Head(queue[s]) \in Timestamps
      BY StreamOffers, NodeTypes
    <2> QED
      BY <2>1, NodeTypes, NoLocalsType
  <1>3. loc[t].min_packet \in {Done} \cup H /\ \A x \in {Done} \cup H : loc[t].min_packet <= x
    <2>1. loc[t].min_packet \in {Done} \cup H
      BY <1>1 DEF Exact
    <2>2. \A x \in H : loc[t].min_packet <= x
      BY <1>1 DEF Exact
    <2>3. loc[t].min_packet <= Done
      BY <1>2 DEF Timestamps
    <2> QED
      BY <2>1, <2>2, <2>3
  <1>4. loc[t].min_bound \in {Done} \cup B /\ \A x \in {Done} \cup B : loc[t].min_bound <= x
    <2>1. loc[t].min_bound \in {Done} \cup B
      BY <1>1 DEF Exact
    <2>2. \A x \in B : loc[t].min_bound <= x
      BY <1>1 DEF Exact
    <2>3. loc[t].min_bound <= Done
      BY <1>2 DEF Timestamps
    <2> QED
      BY <2>1, <2>2, <2>3
  <1>5. MinPacket \in {Done} \cup H /\ \A x \in {Done} \cup H : MinPacket <= x
    <2>1. {Done} \cup H \subseteq Timestamps /\ {Done} \cup H # {}
      BY <1>2
    <2> QED
      BY <2>1, EarliestOfSome DEF MinPacket
  <1>6. MinBound \in {Done} \cup B /\ \A x \in {Done} \cup B : MinBound <= x
    <2>1. {Done} \cup B \subseteq Timestamps /\ {Done} \cup B # {}
      BY <1>2
    <2> QED
      BY <2>1, EarliestOfSome DEF MinBound
  <1> HIDE DEF H, B
  <1>7. MinPacket \in Int /\ MinBound \in Int /\ loc[t].min_packet \in Int /\ loc[t].min_bound \in Int
    BY <1>2, <1>5, <1>6, SpecialTimestamps
  <1>8. loc[t].min_packet <= MinPacket /\ MinPacket <= loc[t].min_packet
    BY <1>3, <1>5
  <1>9. loc[t].min_bound <= MinBound /\ MinBound <= loc[t].min_bound
    BY <1>4, <1>6
  <1> QED
    BY <1>7, <1>8, <1>9

\* What is queued is counted.
LEMMA QueuedIsCounted ==
    ASSUME NodeInv, status # "Closed", scheduled # {}
    PROVE  current_in_flight > 0
  <1>1. /\ IsFiniteSet(scheduled) /\ IsFiniteSet(Tasks)
        /\ current_in_flight = Cardinality(scheduled) + Cardinality(Tasks)
    BY DEF NodeInv, CountInv
  <1>2. Cardinality(scheduled) \in Nat /\ Cardinality(Tasks) \in Nat /\ Cardinality(scheduled) # 0
    BY <1>1, FS_CardinalityType, FS_EmptySet
  <1> QED
    BY <1>1, <1>2

\* A thread that runs a context, or propagates for one, is counted.
LEMMA ClaimIsCounted ==
    ASSUME NodeInv, status # "Closed", NEW t \in Threads, InTask(t)
    PROVE  current_in_flight > 0
  <1>1. t \in Workers
    BY DEF NodeInv, PlacesInv, Placed, InTask, TaskLabels
  <1> QED
    BY <1>1, TaskIsCounted

\* As long as the closing of the node cannot be prepared, an invocation is in flight.
LEMMA BusyNode ==
    ASSUME NodeInv, WayInv, CloseInv, status # "Closed", NEW t \in Threads, pc[t] = "scan",
           ~MayPrepareClose
    PROVE  current_in_flight > 0
  <1>0. /\ PlacesInv /\ InLoop(t) /\ active_contexts \subseteq Timestamps
    BY NodeTypes, RoomNow
  <1>1. CASE prepared_context_for_close
    <2>1. Done \in scheduled \/ \E w \in Workers : RunsDefault(w)
      BY <1>1 DEF CloseInv
    <2>2. \A w \in Workers : RunsDefault(w) => w \in Threads /\ InTask(w)
      BY DEF RunsDefault, InTask, Threads
    <2> QED
      BY <2>1, <2>2, QueuedIsCounted, ClaimIsCounted
  <1>2. CASE active_contexts # {}
    <2>1. CASE \E c \in active_contexts : c \notin completed_input_timestamps
      <3>1. PICK c \in active_contexts : c \notin completed_input_timestamps
        BY <2>1
      <3>2. CASE c \in scheduled
        BY <3>2, QueuedIsCounted
      <3>3. CASE \E u \in Threads : Claims(u, c)
        <4>1. PICK u \in Threads : Claims(u, c)
          BY <3>3
        <4>2. CASE pc[u] \in {"fill", "schedule"}
          <5>1. InLoop(u) /\ u # t
            BY <4>2 DEF InLoop
          <5> QED
            BY <1>0, <5>1 DEF PlacesInv, LoopsExclusive
        <4>3. CASE pc[u] \in {"process", "post"}
          <5>1. InTask(u)
            BY <4>3 DEF InTask
          <5> QED
            BY <5>1, ClaimIsCounted
        <4> QED
          BY <4>1, <4>2, <4>3 DEF Claims
      <3> QED
        BY <3>1, <3>2, <3>3 DEF WayInv, OnItsWay
    <2>2. CASE \A c \in active_contexts : c \in completed_input_timestamps
      <3>1. PICK e : e = Earliest(active_contexts)
        OBVIOUS
      <3>2. e \in active_contexts /\ \A d \in active_contexts : e <= d
        BY <1>0, <1>2, <3>1, EarliestOfSome
      <3>3. ~(\E d \in active_contexts : d < e)
        BY <1>0, <3>2, SpecialTimestamps
      <3>4. propagation_state # "Idle"
        BY <2>2, <3>2, <3>3 DEF WayInv, FrontWaits
      <3>5. PICK u \in Threads : InPropagation(u)
        BY <1>0, <3>4 DEF PlacesInv, LoopsExclusive
      <3>6. pc[u] \in PropLabels /\ Placed(u)
        BY <1>0, <3>5, ThreadFacts
      <3>7. loc[u].caller \in {"recheck", "end"} /\ u # t
        <4>1. pc[t] \notin PropLabels
          BY DEF PropLabels, PacketLabels, BoundLabels
        <4> QED
          BY <3>6, <4>1 DEF Placed, CallerFits
      <3>8. loc[u].caller # "recheck"
        BY <1>0, <3>7 DEF InLoop, PlacesInv, LoopsExclusive
      <3>9. InTask(u)
        BY <3>7, <3>8 DEF InTask
      <3> QED
        BY <3>9, ClaimIsCounted
    <2> QED
      BY <2>1, <2>2
  <1> QED
    BY <1>1, <1>2 DEF MayPrepareClose

\* What a test finds is scheduled, or somebody will look again.
LEMMA DecideReadiness ==
    ASSUME NodeInv, WayInv, CloseInv, ReadinessInv, NEW t \in Threads, UNCHANGED configVars,
           Moves(t), Decide(t)
    PROVE  ReadinessInv'
  <1>1. /\ pc[t] = "scan" /\ loc[t].i \notin Streams
        /\ UNCHANGED <<queue, next_timestamp_bound, status, current_in_flight, scheduling_state>>
        /\ NotReady(t) \/ PrepareContext(t) \/ PrepareClose(t)
        /\ process_timestamps' = process_timestamps
    BY DEF Decide, streamVars, queueVars, boundVars, schedVars, configVars
  <1>2. SeesSame
    BY <1>1, QuietSees
  <1>3. CASE NotReady(t)
    <2>1. last_processed_ts' = last_processed_ts
      BY <1>3 DEF NotReady, inputVars
    <2>2. CASE Exact(t)
      <3>1. ~ReadyNow
        BY <1>1, <1>3, <2>2, ExactMinima DEF NotReady, ReadyNow
      <3> QED
        BY <1>1, <1>2, <2>1, <3>1, SameReadiness DEF ReadinessInv
    <2>3. CASE ~Exact(t)
      BY <1>1, <1>2, <2>1, <2>3, ReadinessKept DEF WillLook
    <2> QED
      BY <2>2, <2>3
  <1>4. CASE PrepareContext(t)
    <2>1. pc'[t] = "fill"
      BY <1>4, PrepareContextEffect
    <2> QED
      BY <2>1, LookedAt DEF WillLook
  <1>5. CASE PrepareClose(t)
    <2>1. CASE MayPrepareClose
      <3>1. pc'[t] = "schedule"
        BY <1>5, <2>1, PrepareCloseEffect
      <3> QED
        BY <3>1, LookedAt DEF WillLook
    <2>2. CASE ~MayPrepareClose
      <3>1. status' = "Opened" => current_in_flight > 0
        BY <1>1, <2>2, BusyNode
      <3> QED
        BY <1>1, <3>1 DEF ReadinessInv
    <2> QED
      BY <2>1, <2>2
  <1> QED
    BY <1>1, <1>3, <1>4, <1>5

\* After an input set the loop tests again.
LEMMA FillReadiness ==
    ASSUME NodeInv, NEW t \in Threads, UNCHANGED configVars, FillStream(t)
    PROVE  ReadinessInv'
  <1>1. pc[t] = "fill" /\ Moves(t) /\ FilledMove(t)
    BY FillEffect DEF FillStream
  <1>2. CASE pc'[t] \in {"fill", "schedule"}
    BY <1>2, LookedAt DEF WillLook
  <1>3. CASE NextInvocation(t, loc[t].left)
    <2>1. loc[t].left \in Int /\ loc[t].left > 0
      BY <1>1, RoomNow
    <2>2. pc'[t] = "scan" /\ loc'[t].i = 1 /\ loc'[t].min_packet = Done /\ loc'[t].min_bound = Done
      BY <1>3, <2>1, NextInvocationEffect, NodeTypes
    <2> QED
      BY <2>2, FreshLook, LookedAt
  <1> QED
    BY <1>1, <1>2, <1>3 DEF FilledMove

\* A scheduled invocation looks when it ends.
LEMMA ScheduleReadiness ==
    ASSUME NodeInv, NEW t \in Threads, Schedule(t)
    PROVE  ReadinessInv'
  <1>1. current_in_flight' = current_in_flight + 1 /\ current_in_flight \in Nat
    BY DEF Schedule, NodeInv, CountInv
  <1> QED
    BY <1>1, CountedOn

\* The steps of a thread outside of the loop.
OutsideLoop(t) ==
    \/ UpdateTaskTimestampBound(t) \/ PropagatePackets(t) \/ RecycleContext(t)
    \/ PacketsPropagated(t) \/ TryBound(t) \/ SendBound(t) \/ BoundPropagated(t)
    \/ t \in Workers /\ (RunTask(t) \/ Process(t) \/ PostProcess(t) \/ CloseOutputStreams(t))

\* They have nothing to do with the readiness.
LEMMA OutsideReadiness ==
    ASSUME NodeInv, ReadinessInv, NEW t \in Threads, UNCHANGED configVars, Moves(t), OutsideLoop(t)
    PROVE  ReadinessInv'
  <1>1. UNCHANGED <<streamVars, inputVars, status, current_in_flight, scheduling_state>>
    BY DEF OutsideLoop, UpdateTaskTimestampBound, PropagatePackets, RecycleContext,
           PacketsPropagated, TryBound, SendBound, BoundPropagated, RunTask, Process, PostProcess,
           CloseOutputStreams, schedVars
  <1>2. pc[t] \notin {"notify", "begin", "fill", "schedule", "scan"}
    BY DEF OutsideLoop, UpdateTaskTimestampBound, PropagatePackets, RecycleContext,
           PacketsPropagated, TryBound, SendBound, BoundPropagated, RunTask, Process, PostProcess,
           CloseOutputStreams
  <1>3. SeesSame /\ UNCHANGED <<last_processed_ts, process_timestamps>>
    BY <1>1, QuietSees DEF streamVars, queueVars, boundVars, inputVars, configVars
  <1>4. ~WillLook(t)
    BY <1>2 DEF WillLook
  <1> QED
    BY <1>1, <1>3, <1>4, ReadinessKept

\* An invocation that ends looks itself, or tells the thread that does.
LEMMA EndReadiness ==
    ASSUME NodeInv, NEW w \in Workers, EndScheduling(w)
    PROVE  ReadinessInv'
  <1>1. w \in Threads /\ pc \in [Threads -> Labels]
    BY NodeTypes, ThreadFacts
  <1>2. CASE status # "Opened"
    BY <1>2 DEF EndScheduling, ReadinessInv
  <1>3. CASE status = "Opened" /\ NobodySchedules
    <2>1. pc'[w] = "begin"
      BY <1>1, <1>3 DEF EndScheduling, Goto
    <2> QED
      BY <1>1, <2>1, LookedAt DEF WillLook
  <1>4. CASE status = "Opened" /\ ~NobodySchedules
    <2>1. scheduling_state' = "SchedulingPending"
      BY <1>4 DEF EndScheduling
    <2> QED
      BY <2>1 DEF ReadinessInv
  <1> QED
    BY <1>2, <1>3, <1>4

\* Every step keeps the node looked after.
LEMMA NodeReadiness ==
    ASSUME NodeInv, WayInv, CloseInv, ReadinessInv, NEW t \in Threads, UNCHANGED configVars, StepOf(t)
    PROVE  ReadinessInv'
  <1>0. Moves(t)
    BY NodePlaces DEF StepOf
  <1>1. CASE t \in Streams /\ (Produce(t) \/ EndStream(t))
    BY <1>1, ProduceReadiness
  <1>2. CASE CheckIfBecameReady(t) \/ BeginLoop(t) \/ Recheck(t)
    BY <1>0, <1>2, NotifyReadiness
  <1>3. CASE ScanStream(t) \/ Decide(t)
    BY <1>0, <1>3, ScanReadiness, DecideReadiness
  <1>4. CASE FillStream(t) \/ Schedule(t)
    BY <1>4, FillReadiness, ScheduleReadiness
  <1>5. CASE OutsideLoop(t)
    BY <1>0, <1>5, OutsideReadiness
  <1>6. CASE t \in Workers /\ OpenNode(t)
    <2>1. pc'[t] = "notify"
      BY <1>6, NodeTypes, ThreadFacts DEF OpenNode, Goto
    <2> QED
      BY <2>1, LookedAt DEF WillLook
  <1>7. CASE t \in Workers /\ EndScheduling(t)
    BY <1>7, EndReadiness
  <1>8. CASE t \in Workers /\ CloseInputStream(t)
    <2>1. InTask(t) /\ UNCHANGED <<status, current_in_flight>>
      BY <1>8 DEF CloseInputStream, InTask, schedVars
    <2>2. status = "Opened" => current_in_flight' > 0
      BY <2>1, ClaimIsCounted
    <2> QED
      BY <2>1, <2>2 DEF ReadinessInv
  <1>9. CASE t \in Workers /\ NodeClosed(t)
    BY <1>9 DEF NodeClosed, ReadinessInv
  <1> QED
    BY <1>1, <1>2, <1>3, <1>4, <1>5, <1>6, <1>7, <1>8, <1>9, StepKinds DEF Elsewhere, OutsideLoop

\* Once nobody is in the node or about to be, nothing is ready.
LEMMA QuietMissesNothing ==
    ASSUME NodeInv, ReadinessInv
    PROVE  NoLostReadiness
  <1> SUFFICES ASSUME Quiet, status = "Opened" PROVE ~ReadyNow
    BY DEF NoLostReadiness, ReadyNow
  <1>1. \A t \in Threads : /\ pc[t] \in {"produce", "free"} /\ loc[t].caller = "none"
    BY DEF Quiet, Home, NodeInv, PlacesInv, Placed, CallerFits
  <1>2. \A t \in Threads : ~InLoop(t) /\ ~InTask(t) /\ ~WillLook(t)
    BY <1>1 DEF InLoop, InTask, WillLook
  <1>3. scheduling_state = "Idle"
    BY <1>2 DEF NodeInv, PlacesInv, LoopsExclusive
  <1>4. Tasks = {} /\ scheduled = {}
    BY <1>2 DEF Tasks, Threads, Quiet
  <1>5. current_in_flight = 0
    BY <1>4, FS_EmptySet DEF NodeInv, CountInv
  <1> QED
    BY <1>2, <1>3, <1>5 DEF ReadinessInv

-----------------------------------------------------------------------------
(* The types of the output.                                                *)

Shards == [bound : Timestamps, updated : Timestamps,
           packets : {<<>>} \cup {<<q>> : q \in Timestamps}]

OutTypes ==
    /\ shard \in [Timestamps -> Shards]
    /\ out_bound \in Timestamps /\ mirror_bound \in Timestamps

\* The bounds computed from timestamps are timestamps.
LEMMA NextTypes ==
    ASSUME NEW q \in Timestamps
    PROVE  /\ NextAllowedInStream(q) \in Timestamps /\ InputBound(q) \in Timestamps
           /\ \A u \in Timestamps : Later(q, u) \in Timestamps
  <1>1. NextAllowedInStream(q) \in Timestamps
    BY RangeAssumption DEF NextAllowedInStream, Plus, Timestamps, Unset, Done, PreStream, OneOverPostStream
  <1>2. RangeMin \in Timestamps /\ PostStream \in Timestamps
    BY RangeAssumption DEF Timestamps, Unset, Done, PostStream
  <1> QED
    BY <1>1, <1>2 DEF InputBound, Later

\* A calculator leaves such a shard.
LEMMA ProcessTypes ==
    ASSUME OutTypes, NEW time \in Timestamps
    PROVE  ProcessOutputs(time) \subseteq Shards
  <1> SUFFICES ASSUME NEW output \in ProcessOutputs(time) PROVE output \in Shards
    OBVIOUS
  <1>0. /\ out_bound \in Timestamps /\ Unset \in Timestamps
        /\ Announced \subseteq Timestamps
    BY NodeAssumption, NoLocalsType DEF OutTypes
  <1>1. CASE output = [NoShard EXCEPT !.bound = out_bound]
    <2>1. output = [bound |-> out_bound, updated |-> Unset, packets |-> <<>>]
      BY <1>1 DEF NoShard
    <2> QED
      BY <1>0, <2>1 DEF Shards
  <1>2. ASSUME NEW q \in MaySend(time),
               output = [bound |-> NextAllowedInStream(q), updated |-> NextAllowedInStream(q),
                         packets |-> <<q>>]
        PROVE  output \in Shards
    <2>1. q \in Timestamps
      BY <1>2 DEF MaySend
    <2>2. NextAllowedInStream(q) \in Timestamps
      BY <2>1, NextTypes
    <2> QED
      BY <1>2, <2>1, <2>2 DEF Shards
  <1>3. ASSUME NEW b \in MayAnnounce(time), output = [bound |-> b, updated |-> b, packets |-> <<>>]
        PROVE  output \in Shards
    <2>1. b \in Timestamps
      BY <1>0, <1>3 DEF MayAnnounce
    <2> QED
      BY <1>3, <2>1 DEF Shards
  <1> QED
    BY <1>1, <1>2, <1>3 DEF ProcessOutputs

\* What is sent downstream has its types.
LEMMA SendTypes ==
    ASSUME OutTypes, NEW bound \in Timestamps,
           NEW packets \in {<<>>} \cup {<<q>> : q \in Timestamps},
           PropagateUpdatesToMirrors(bound, packets)
    PROVE  out_bound' \in Timestamps /\ mirror_bound' \in Timestamps
  <1>1. packets # <<>> => NextAllowedInStream(packets[1]) \in Timestamps
    <2> SUFFICES ASSUME packets # <<>> PROVE NextAllowedInStream(packets[1]) \in Timestamps
      OBVIOUS
    <2>1. PICK q \in Timestamps : packets = <<q>>
      OBVIOUS
    <2>2. packets[1] = q
      BY <2>1
    <2> QED
      BY <2>2, NextTypes
  <1>2. out_bound \in Timestamps /\ mirror_bound \in Timestamps
    BY DEF OutTypes
  <1>3. out_bound' \in Timestamps
    BY <1>2 DEF PropagateUpdatesToMirrors
  <1>4. PICK after : after = IF packets = <<>> \/ (packets # <<>> /\ MirrorRefuses(packets[1])) THEN mirror_bound
                             ELSE NextAllowedInStream(packets[1])
    OBVIOUS
  <1>5. after \in Timestamps
    BY <1>1, <1>2, <1>4
  <1>6. mirror_bound' \in {after, Later(after, bound)}
    BY <1>4 DEF PropagateUpdatesToMirrors
  <1>7. Later(after, bound) \in Timestamps
    BY <1>5 DEF Later
  <1> QED
    BY <1>3, <1>5, <1>6, <1>7

\* The bound that is computed from a shard.
LEMMA OutputBoundType ==
    ASSUME OutTypes, NEW context \in Timestamps, NEW time \in Timestamps
    PROVE  ComputeOutputTimestampBound(shard[context], time) \in Timestamps
  <1>1. PICK s : s = shard[context]
    OBVIOUS
  <1>2. /\ s \in Shards /\ s.bound \in Timestamps /\ s.updated \in Timestamps
        /\ s.packets \in {<<>>} \cup {<<q>> : q \in Timestamps}
    BY <1>1 DEF OutTypes, Shards
  <1>3. PICK bound : bound = ComputeOutputTimestampBound(s, time)
    OBVIOUS
  <1>4. bound \in Timestamps
    <2>1. PICK own : own = IF InputBound(time) > s.bound THEN InputBound(time) ELSE Unset
      OBVIOUS
    <2>2. own \in Timestamps /\ Later(s.updated, own) \in Timestamps
      BY <1>2, <2>1, NextTypes, NoLocalsType
    <2>3. PICK new : new = Later(s.updated, own)
      OBVIOUS
    <2>4. bound = IF s.packets = <<>> THEN new ELSE Later(new, NextAllowedInStream(s.packets[1]))
      BY <1>3, <2>1, <2>3 DEF ComputeOutputTimestampBound
    <2>5. CASE s.packets = <<>>
      BY <2>2, <2>3, <2>4, <2>5
    <2>6. CASE s.packets # <<>>
      <3>1. PICK q \in Timestamps : s.packets = <<q>>
        BY <1>2, <2>6
      <3>2. s.packets[1] = q
        BY <3>1
      <3>3. NextAllowedInStream(q) \in Timestamps /\ new \in Timestamps
        BY <2>2, <2>3, NextTypes
      <3> QED
        BY <2>4, <2>6, <3>2, <3>3, NextTypes
    <2> QED
      BY <2>5, <2>6
  <1> QED
    BY <1>1, <1>3, <1>4

\* So have the outputs of an invocation.
LEMMA OutputTypes ==
    ASSUME OutTypes, NEW context \in Timestamps, NEW time \in Timestamps,
           PropagateOutputPackets(context, time)
    PROVE  OutTypes'
  <1>1. PICK s : s = shard[context]
    OBVIOUS
  <1>2. s \in Shards /\ s.packets \in {<<>>} \cup {<<q>> : q \in Timestamps}
    BY <1>1 DEF OutTypes, Shards
  <1>3. PICK bound : bound = ComputeOutputTimestampBound(s, time)
    OBVIOUS
  <1>4. bound \in Timestamps
    BY <1>1, <1>3, OutputBoundType
  <1>5. PropagateUpdatesToMirrors(bound, s.packets)
    BY <1>1, <1>3 DEF PropagateOutputPackets
  <1>6. out_bound' \in Timestamps /\ mirror_bound' \in Timestamps
    BY <1>2, <1>4, <1>5, SendTypes
  <1>7. shard' \in [Timestamps -> Shards]
    <2>1. shard \in [Timestamps -> Shards] /\ shard' = [shard EXCEPT ![context].packets = <<>>]
      BY DEF OutTypes, PropagateOutputPackets
    <2>2. [shard[context] EXCEPT !.packets = <<>>] \in Shards
      BY <2>1 DEF Shards
    <2> QED
      BY <2>1, <2>2
  <1> QED
    BY <1>6, <1>7 DEF OutTypes

\* The steps that send something or change a shard.
Sends(t) ==
    \/ UpdateTaskTimestampBound(t) \/ PropagatePackets(t) \/ RecycleContext(t) \/ SendBound(t)
    \/ t \in Workers /\ (Process(t) \/ PostProcess(t) \/ CloseOutputStreams(t))

\* The others leave the output alone.
LEMMA SendsNothing ==
    ASSUME NEW t \in Threads, StepOf(t), ~Sends(t)
    PROVE  UNCHANGED <<shard, out_bound, mirror_bound, mirror_got_packet, mirror_refused>>
  <1>1. CASE t \in Streams /\ (Produce(t) \/ EndStream(t))
    BY <1>1 DEF Produce, EndStream, contextVars, outVars
  <1>2. CASE CheckIfBecameReady(t) \/ BeginLoop(t) \/ Recheck(t)
    BY <1>2 DEF CheckIfBecameReady, BeginLoop, Recheck, contextVars, outVars
  <1>3. CASE ScanStream(t) \/ Decide(t)
    BY <1>3 DEF ScanStream, Decide, contextVars, outVars
  <1>4. CASE FillStream(t) \/ Schedule(t)
    BY <1>4 DEF FillStream, Schedule, contextVars, outVars
  <1>5. CASE PacketsPropagated(t) \/ TryBound(t) \/ BoundPropagated(t)
    BY <1>5 DEF PacketsPropagated, TryBound, BoundPropagated, contextVars, outVars
  <1>6. CASE t \in Workers /\ (OpenNode(t) \/ RunTask(t) \/ EndScheduling(t))
    BY <1>6 DEF OpenNode, RunTask, EndScheduling, contextVars, outVars
  <1>7. CASE t \in Workers /\ (CloseInputStream(t) \/ NodeClosed(t))
    BY <1>7 DEF CloseInputStream, NodeClosed, contextVars, outVars
  <1> QED
    BY <1>1, <1>2, <1>3, <1>4, <1>5, <1>6, <1>7, StepKinds DEF Elsewhere, Sends

\* Every step keeps the types of the output.
LEMMA NodeOutTypes ==
    ASSUME NodeInv, OutTypes, NEW t \in Threads, StepOf(t)
    PROVE  OutTypes'
  <1>0. /\ loc[t].timestamp \in Timestamps /\ loc[t].context \in Timestamps
        /\ active_contexts \subseteq Timestamps /\ Done \in Timestamps
    BY NodeTypes, NoLocalsType
  <1>1. CASE ~Sends(t)
    BY <1>1, SendsNothing DEF OutTypes
  <1>2. CASE UNCHANGED <<shard, out_bound, mirror_bound>>
    BY <1>2 DEF OutTypes
  <1>3. ASSUME NEW bound \in Timestamps, PropagateUpdatesToMirrors(bound, <<>>), shard' = shard
        PROVE  OutTypes'
    <2>1. <<>> \in {<<>>} \cup {<<q>> : q \in Timestamps}
      OBVIOUS
    <2> QED
      BY <1>3, <2>1, SendTypes DEF OutTypes
  <1>4. CASE SendBound(t)
    BY <1>0, <1>3, <1>4 DEF SendBound, contextVars
  <1>5. CASE t \in Workers /\ CloseOutputStreams(t)
    BY <1>0, <1>3, <1>5 DEF CloseOutputStreams, contextVars
  <1>6. CASE UpdateTaskTimestampBound(t)
    BY <1>0, <1>2, <1>3, <1>6 DEF UpdateTaskTimestampBound, contextVars, outVars
  <1>7. CASE PropagatePackets(t)
    BY <1>0, <1>7, OutputTypes DEF PropagatePackets
  <1>8. CASE t \in Workers /\ PostProcess(t)
    <2>1. CASE Parallel
      BY <1>2, <1>8, <2>1 DEF PostProcess, outVars
    <2>2. CASE ~Parallel
      BY <1>0, <1>8, <2>2, OutputTypes DEF PostProcess, Default
    <2> QED
      BY <2>1, <2>2
  <1>9. CASE RecycleContext(t)
    <2>1. NoShard \in Shards
      BY NoLocalsType DEF NoShard, Shards
    <2>2. /\ shard' = [shard EXCEPT ![RecycledContext] = NoShard]
          /\ UNCHANGED <<out_bound, mirror_bound>>
      BY <1>9 DEF RecycleContext, outVars
    <2> QED
      BY <2>1, <2>2 DEF OutTypes
  <1>10. CASE t \in Workers /\ Process(t)
    <2>1. UNCHANGED <<out_bound, mirror_bound>>
      BY <1>10 DEF Process, outVars
    <2>2. TurnTimestamp(t) \in Timestamps
      BY <1>10, TurnIsTimestamp DEF Process
    <2>3. CASE TurnTimestamp(t) = Done
      BY <1>10, <2>1, <2>3 DEF Process, TurnTimestamp, Default, OutTypes
    <2>4. CASE TurnTimestamp(t) # Done
      <3>1. PICK output \in ProcessOutputs(TurnTimestamp(t)) :
               shard' = [shard EXCEPT ![loc[t].context] = output]
        BY <1>10, <2>4 DEF Process, TurnTimestamp, Default
      <3>2. output \in Shards
        BY <2>2, <3>1, ProcessTypes
      <3> QED
        BY <2>1, <3>1, <3>2 DEF OutTypes
    <2> QED
      BY <2>3, <2>4
  <1> QED
    BY <1>1, <1>4, <1>5, <1>6, <1>7, <1>8, <1>9, <1>10 DEF Sends

-----------------------------------------------------------------------------
(* The packet at PostStream.                                               *)

\* A packet that waits in a shard is at PostStream exactly if the calculator
\* sends its packet there.
PacketsFit ==
    \A c \in Timestamps :
       shard[c].packets # <<>> => (shard[c].packets[1] = PostStream <=> sends_post_stream)

\* Such a packet leaves no room for another.
PostIsLast == sends_post_stream /\ mirror_got_packet => PostStream < mirror_bound

PostInv == sends_post_stream \in SendsPostStream /\ PacketsFit /\ PostIsLast

\* What a calculator leaves in a shard.
LEMMA ProcessPost ==
    ASSUME NEW time \in Timestamps, NEW output \in ProcessOutputs(time), output.packets # <<>>
    PROVE  output.packets[1] = PostStream <=> sends_post_stream
  <1>1. output # [NoShard EXCEPT !.bound = out_bound]
    BY DEF NoShard
  <1>2. \A b : output # [bound |-> b, updated |-> b, packets |-> <<>>]
    OBVIOUS
  <1>3. PICK q \in MaySend(time) :
           output = [bound |-> NextAllowedInStream(q), updated |-> NextAllowedInStream(q),
                     packets |-> <<q>>]
    BY <1>1, <1>2 DEF ProcessOutputs
  <1>4. output.packets[1] = q
    BY <1>3
  <1> QED
    BY <1>3, <1>4 DEF MaySend

\* What is sent downstream does not end the stream before a packet at PostStream.
LEMMA SendsPost ==
    ASSUME OutTypes, PostIsLast, UNCHANGED sends_post_stream, NEW bound \in Timestamps,
           NEW packets \in {<<>>} \cup {<<q>> : q \in Timestamps},
           packets # <<>> /\ sends_post_stream => packets[1] = PostStream,
           PropagateUpdatesToMirrors(bound, packets)
    PROVE  PostIsLast'
  <1> SUFFICES ASSUME sends_post_stream, mirror_got_packet' PROVE PostStream < mirror_bound'
    BY DEF PostIsLast
  <1>1. PICK got : got = (packets # <<>> /\ ~MirrorRefuses(packets[1]))
    OBVIOUS
  <1>2. PICK after : after = IF packets = <<>> \/ (packets # <<>> /\ MirrorRefuses(packets[1])) THEN mirror_bound
                             ELSE NextAllowedInStream(packets[1])
    OBVIOUS
  <1>3. mirror_bound' \in {after, Later(after, bound)}
    BY <1>2 DEF PropagateUpdatesToMirrors
  <1>4. mirror_bound \in Int /\ bound \in Int /\ PostStream \in Int
    BY SpecialTimestamps DEF OutTypes
  <1>5. after \in Int /\ PostStream < after
    <2>1. CASE got
      <3>1. packets[1] = PostStream /\ after = NextAllowedInStream(PostStream)
        BY <1>1, <1>2, <2>1
      <3>2. NextAllowedInStream(PostStream) \in Int /\ PostStream < NextAllowedInStream(PostStream)
        BY RangeAssumption DEF NextAllowedInStream, Plus, Unset, PreStream, PostStream, OneOverPostStream, Done
      <3> QED
        BY <3>1, <3>2
    <2>2. CASE ~got
      <3>1. mirror_got_packet
        BY <1>1, <2>2 DEF PropagateUpdatesToMirrors
      <3>2. after = mirror_bound
        BY <1>1, <1>2, <2>2
      <3> QED
        BY <1>4, <3>1, <3>2 DEF PostIsLast
    <2> QED
      BY <2>1, <2>2
  <1> QED
    BY <1>3, <1>4, <1>5 DEF Later

\* So with the outputs of an invocation.
LEMMA OutputsPost ==
    ASSUME OutTypes, PostInv, UNCHANGED configVars, NEW context \in Timestamps, NEW time \in Timestamps,
           PropagateOutputPackets(context, time)
    PROVE  PostInv'
  <1>1. PICK s : s = shard[context]
    OBVIOUS
  <1>2. s \in Shards /\ s.packets \in {<<>>} \cup {<<q>> : q \in Timestamps}
    BY <1>1 DEF OutTypes, Shards
  <1>3. PICK bound : bound = ComputeOutputTimestampBound(s, time)
    OBVIOUS
  <1>4. bound \in Timestamps
    BY <1>1, <1>3, OutputBoundType
  <1>5. PropagateUpdatesToMirrors(bound, s.packets)
    BY <1>1, <1>3 DEF PropagateOutputPackets
  <1>6. s.packets # <<>> /\ sends_post_stream => s.packets[1] = PostStream
    BY <1>1 DEF PostInv, PacketsFit
  <1>7. UNCHANGED sends_post_stream
    BY DEF configVars
  <1>8. PostIsLast'
    BY <1>2, <1>4, <1>5, <1>6, <1>7, SendsPost DEF PostInv
  <1>9. PacketsFit'
    <2> SUFFICES ASSUME NEW c \in Timestamps, shard'[c].packets # <<>>
                 PROVE  shard'[c].packets[1] = PostStream <=> sends_post_stream
      BY <1>7 DEF PacketsFit
    <2>1. shard \in [Timestamps -> Shards] /\ shard' = [shard EXCEPT ![context].packets = <<>>]
      BY DEF OutTypes, PropagateOutputPackets
    <2>2. c # context
      BY <2>1
    <2>3. shard'[c] = shard[c]
      BY <2>1, <2>2
    <2> QED
      BY <2>3 DEF PostInv, PacketsFit
  <1> QED
    BY <1>7, <1>8, <1>9 DEF PostInv

\* Every step keeps to it.
LEMMA NodePost ==
    ASSUME NodeInv, OutTypes, PostInv, UNCHANGED configVars, NEW t \in Threads, StepOf(t)
    PROVE  PostInv'
  <1>0. /\ loc[t].timestamp \in Timestamps /\ loc[t].context \in Timestamps
        /\ Done \in Timestamps /\ UNCHANGED sends_post_stream
    BY NodeTypes, NoLocalsType DEF configVars
  <1>1. CASE ~Sends(t)
    <2>1. UNCHANGED <<shard, mirror_bound, mirror_got_packet>>
      BY <1>1, SendsNothing
    <2> QED
      BY <1>0, <2>1 DEF PostInv, PacketsFit, PostIsLast
  <1>2. CASE UNCHANGED <<shard, mirror_bound, mirror_got_packet>>
    BY <1>0, <1>2 DEF PostInv, PacketsFit, PostIsLast
  <1>3. ASSUME NEW bound \in Timestamps, PropagateUpdatesToMirrors(bound, <<>>), shard' = shard
        PROVE  PostInv'
    <2>1. <<>> \in {<<>>} \cup {<<q>> : q \in Timestamps}
      OBVIOUS
    <2>2. PostIsLast'
      BY <1>0, <1>3, <2>1, SendsPost DEF PostInv
    <2> QED
      BY <1>0, <1>3, <2>2 DEF PostInv, PacketsFit
  <1>4. CASE SendBound(t)
    BY <1>0, <1>3, <1>4 DEF SendBound, contextVars
  <1>5. CASE t \in Workers /\ CloseOutputStreams(t)
    BY <1>0, <1>3, <1>5 DEF CloseOutputStreams, contextVars
  <1>6. CASE UpdateTaskTimestampBound(t)
    BY <1>0, <1>2, <1>3, <1>6 DEF UpdateTaskTimestampBound, contextVars, outVars
  <1>7. CASE PropagatePackets(t)
    BY <1>0, <1>7, OutputsPost DEF PropagatePackets
  <1>8. CASE t \in Workers /\ PostProcess(t)
    <2>1. CASE Parallel
      BY <1>2, <1>8, <2>1 DEF PostProcess, outVars
    <2>2. CASE ~Parallel
      BY <1>0, <1>8, <2>2, OutputsPost DEF PostProcess, Default
    <2> QED
      BY <2>1, <2>2
  <1>9. ASSUME NEW context \in Timestamps, NEW output, shard' = [shard EXCEPT ![context] = output],
               output.packets # <<>> => (output.packets[1] = PostStream <=> sends_post_stream),
               UNCHANGED outVars
        PROVE  PostInv'
    <2>1. shard \in [Timestamps -> Shards] /\ UNCHANGED <<mirror_bound, mirror_got_packet>>
      BY <1>9 DEF OutTypes, outVars
    <2>2. PostIsLast'
      BY <1>0, <2>1 DEF PostInv, PostIsLast
    <2>3. PacketsFit'
      <3> SUFFICES ASSUME NEW c \in Timestamps, shard'[c].packets # <<>>
                   PROVE  shard'[c].packets[1] = PostStream <=> sends_post_stream
        BY <1>0 DEF PacketsFit
      <3>1. CASE c = context
        BY <1>9, <2>1, <3>1
      <3>2. CASE c # context
        BY <1>9, <2>1, <3>2 DEF PostInv, PacketsFit
      <3> QED
        BY <3>1, <3>2
    <2> QED
      BY <1>0, <2>2, <2>3 DEF PostInv
  <1>10. CASE RecycleContext(t)
    <2>1. NoShard.packets = <<>>
      BY DEF NoShard
    <2>2. shard' = [shard EXCEPT ![RecycledContext] = NoShard] /\ UNCHANGED outVars
      BY <1>10 DEF RecycleContext
    <2>3. CASE RecycledContext \in Timestamps
      BY <1>9, <2>1, <2>2, <2>3
    <2>4. CASE RecycledContext \notin Timestamps
      <3>1. UNCHANGED <<shard, mirror_bound, mirror_got_packet>>
        BY <2>2, <2>4 DEF OutTypes, outVars
      <3> QED
        BY <1>2, <3>1
    <2> QED
      BY <2>3, <2>4
  <1>11. CASE t \in Workers /\ Process(t)
    <2>1. UNCHANGED outVars
      BY <1>11 DEF Process
    <2>2. TurnTimestamp(t) \in Timestamps
      BY <1>11, TurnIsTimestamp DEF Process
    <2>3. CASE TurnTimestamp(t) = Done
      BY <1>2, <1>11, <2>1, <2>3 DEF Process, TurnTimestamp, Default, outVars
    <2>4. CASE TurnTimestamp(t) # Done
      <3>1. PICK output \in ProcessOutputs(TurnTimestamp(t)) :
               shard' = [shard EXCEPT ![loc[t].context] = output]
        BY <1>11, <2>4 DEF Process, TurnTimestamp, Default
      <3>2. output.packets # <<>> => (output.packets[1] = PostStream <=> sends_post_stream)
        BY <2>2, ProcessPost
      <3> QED
        BY <1>0, <1>9, <2>1, <3>1, <3>2
    <2> QED
      BY <2>3, <2>4
  <1> QED
    BY <1>1, <1>4, <1>5, <1>6, <1>7, <1>8, <1>10, <1>11 DEF Sends

-----------------------------------------------------------------------------
(* The batch of a node without parallel invocations.                       *)

\* Its timestamps grow, are allowed in a stream, and are none the node has not
\* selected yet; Done ends it.
BatchGrows ==
    /\ \A i, j \in 1 .. Len(batch) : i < j => batch[i] < batch[j]
    /\ \A i \in 1 .. Len(batch) : batch[i] = Done \/ IsAllowedInStream(batch[i])
    /\ batch # <<>> => batch[Len(batch)] = Done \/ batch[Len(batch)] <= last_processed_ts

\* A full batch is on its way to the scheduler.
BatchFits ==
    status # "Closed" /\ current_in_flight = 0 =>
       /\ Len(batch) <= batch_size
       /\ Len(batch) = batch_size => \E t \in Threads : pc[t] \in {"fill", "schedule"}

\* An invocation has run its whole batch when it ends.
BatchRuns == status = "Opened" => \A w \in Workers : pc[w] = "end" => batch = <<>>

\* What has been processed is earlier than the rest of the batch.
PostOrder(w) ==
    pc[w] = "post" =>
       /\ IsAllowedInStream(loc[w].timestamp)
       /\ IF batch = <<>> THEN loc[w].timestamp <= last_processed_ts
          ELSE loc[w].timestamp < Head(batch)

BatchOrderInv == ~Parallel => BatchGrows /\ BatchFits /\ BatchRuns /\ \A w \in Workers : PostOrder(w)

\* A step that leaves the batch as it is.
KeepsOrder(t) ==
    /\ UNCHANGED <<batch, last_processed_ts, batch_size, max_in_flight>>
    /\ status' = "Opened" => status = "Opened" \/ \A w \in Workers : ~InTask(w)
    /\ status' # "Closed" /\ current_in_flight' = 0 =>
          status # "Closed" /\ (current_in_flight = 0 \/ batch = <<>>)
    /\ pc[t] \in {"fill", "schedule"} =>
          \/ pc'[t] \in {"fill", "schedule"} \/ current_in_flight' > 0 \/ Len(batch) # batch_size
    /\ pc'[t] = "end" => pc[t] = "end" \/ batch = <<>> \/ status' # "Opened"
    /\ pc'[t] # "post"

\* Such a step keeps the order.
LEMMA OrderKept ==
    ASSUME NodeInv, BatchOrderInv, NEW t \in Threads, Moves(t), KeepsOrder(t)
    PROVE  BatchOrderInv'
  <1> SUFFICES ASSUME ~Parallel'
               PROVE  BatchGrows' /\ BatchFits' /\ BatchRuns' /\ \A w \in Workers : PostOrder(w)'
    BY DEF BatchOrderInv
  <1>1. /\ BatchGrows /\ BatchFits /\ BatchRuns /\ \A w \in Workers : PostOrder(w)
        /\ batch \in Seq(Timestamps) /\ batch_size \in Nat \ {0} /\ current_in_flight \in Nat
    BY DEF KeepsOrder, Parallel, BatchOrderInv, NodeInv, BatchInv, ConfigInv, CountInv
  <1>2. \A u \in Threads \ {t} : pc'[u] = pc[u] /\ loc'[u] = loc[u]
    BY DEF Moves
  <1>3. BatchGrows'
    BY <1>1 DEF BatchGrows, KeepsOrder
  <1>4. BatchFits'
    <2> SUFFICES ASSUME status' # "Closed", current_in_flight' = 0
                 PROVE  /\ Len(batch) <= batch_size
                        /\ Len(batch) = batch_size => \E u \in Threads : pc'[u] \in {"fill", "schedule"}
      BY DEF BatchFits, KeepsOrder
    <2>1. CASE batch = <<>>
      BY <1>1, <2>1
    <2>2. CASE batch # <<>>
      <3>1. /\ Len(batch) <= batch_size
            /\ Len(batch) = batch_size => \E u \in Threads : pc[u] \in {"fill", "schedule"}
        BY <1>1, <2>2 DEF BatchFits, KeepsOrder
      <3>2. pc[t] \in {"fill", "schedule"} => pc'[t] \in {"fill", "schedule"} \/ Len(batch) # batch_size
        BY DEF KeepsOrder
      <3> QED
        BY <1>2, <3>1, <3>2
    <2> QED
      BY <2>1, <2>2
  <1>5. BatchRuns'
    <2> SUFFICES ASSUME status' = "Opened", NEW w \in Workers, pc'[w] = "end" PROVE batch = <<>>
      BY DEF BatchRuns, KeepsOrder
    <2>1. status = "Opened" /\ pc[w] = "end" => batch = <<>>
      BY <1>1 DEF BatchRuns
    <2>2. pc[w] = "end" => InTask(w)
      BY DEF InTask
    <2>3. w \in Threads
      BY NodeTypes
    <2> QED
      BY <1>2, <2>1, <2>2, <2>3 DEF KeepsOrder
  <1>6. ASSUME NEW w \in Workers PROVE PostOrder(w)'
    <2>1. w \in Threads
      BY NodeTypes
    <2>2. CASE w = t
      BY <2>2 DEF PostOrder, KeepsOrder
    <2>3. CASE w # t
      BY <1>1, <1>2, <2>1, <2>3 DEF PostOrder, KeepsOrder
    <2> QED
      BY <2>2, <2>3
  <1> QED
    BY <1>3, <1>4, <1>5, <1>6

\* Nobody is in the propagation loop of such a node.
LEMMA SequentialPlaces ==
    ASSUME NodeInv, ~Parallel, NEW t \in Threads
    PROVE  /\ pc[t] \notin PropLabels
           /\ ~PropagatePackets(t) /\ ~RecycleContext(t) /\ ~PacketsPropagated(t)
           /\ ~TryBound(t) /\ ~SendBound(t) /\ ~BoundPropagated(t)
  <1>1. pc[t] \notin PropLabels
    BY DEF NodeInv, PlacesInv, Placed
  <1> QED
    BY <1>1 DEF PropLabels, PacketLabels, BoundLabels, PropagatePackets, RecycleContext,
                PacketsPropagated, TryBound, SendBound, BoundPropagated

\* Actions that have nothing to do with the batch.
BatchFree(t) ==
    \/ t \in Streams /\ (Produce(t) \/ EndStream(t))
    \/ CheckIfBecameReady(t) \/ BeginLoop(t) \/ ScanStream(t) \/ Recheck(t)
    \/ UpdateTaskTimestampBound(t) \/ (Decide(t) /\ NotReady(t))
    \/ t \in Workers /\ (RunTask(t) \/ CloseInputStream(t) \/ CloseOutputStreams(t))

\* It keeps what the order of the batch is about.
LEMMA BatchFreeKeeps ==
    ASSUME NodeInv, ~Parallel, NEW t \in Threads, BatchFree(t)
    PROVE  /\ UNCHANGED <<batch, last_processed_ts, status, current_in_flight>>
           /\ pc[t] \notin {"fill", "schedule", "post"}
           /\ pc'[t] \notin {"fill", "schedule", "post", "end"}
  <1>0. pc \in [Threads -> Labels] /\ Home(t) \in {"produce", "free"}
    BY NodeTypes, ThreadFacts
  <1>1. CASE t \in Streams /\ (Produce(t) \/ EndStream(t))
    BY <1>0, <1>1 DEF Produce, EndStream, contextVars, schedVars, inputVars, Goto
  <1>2. CASE CheckIfBecameReady(t)
    BY <1>0, <1>2 DEF CheckIfBecameReady, contextVars, inputVars, Goto, Return
  <1>3. CASE BeginLoop(t) \/ Recheck(t)
    BY <1>0, <1>3 DEF BeginLoop, Recheck, contextVars, inputVars, Goto, Return, NextInvocation
  <1>4. CASE ScanStream(t)
    BY <1>0, <1>4 DEF ScanStream, contextVars, schedVars, inputVars
  <1>5. CASE UpdateTaskTimestampBound(t)
    BY <1>0, <1>5 DEF UpdateTaskTimestampBound, contextVars, schedVars, inputVars, Goto
  <1>6. CASE Decide(t) /\ NotReady(t)
    BY <1>0, <1>6 DEF Decide, NotReady, schedVars, inputVars, Goto
  <1>7. CASE t \in Workers /\ RunTask(t)
    BY <1>0, <1>7 DEF RunTask, contextVars, inputVars, Goto
  <1>8. CASE t \in Workers /\ (CloseInputStream(t) \/ CloseOutputStreams(t))
    BY <1>0, <1>8 DEF CloseInputStream, CloseOutputStreams, contextVars, schedVars, inputVars, Goto
  <1> QED
    BY <1>1, <1>2, <1>3, <1>4, <1>5, <1>6, <1>7, <1>8 DEF BatchFree

\* So it keeps the order.
LEMMA BatchFreeOrder ==
    ASSUME NodeInv, BatchOrderInv, NEW t \in Threads, UNCHANGED configVars, Moves(t), ~Parallel, BatchFree(t)
    PROVE  BatchOrderInv'
  <1>1. KeepsOrder(t)
    BY BatchFreeKeeps DEF KeepsOrder, configVars
  <1> QED
    BY <1>1, OrderKept

\* The opening of the node, the end of an invocation, the closing of the node.
LEMMA StatusOrder ==
    ASSUME NodeInv, BatchOrderInv, NEW w \in Workers, UNCHANGED configVars, Moves(w), ~Parallel,
           OpenNode(w) \/ EndScheduling(w) \/ NodeClosed(w)
    PROVE  BatchOrderInv'
  <1>0. /\ pc \in [Threads -> Labels] /\ Home(w) \in {"produce", "free"} /\ w \in Threads
        /\ UNCHANGED <<batch_size, max_in_flight>>
    BY NodeTypes, ThreadFacts DEF configVars
  <1>1. CASE OpenNode(w)
    <2>1. \A u \in Workers : ~InTask(u)
      BY <1>1, TaskIsCounted DEF OpenNode
    <2>2. KeepsOrder(w)
      BY <1>0, <1>1, <2>1 DEF OpenNode, KeepsOrder, contextVars, inputVars, Goto
    <2> QED
      BY <1>0, <2>2, OrderKept
  <1>2. CASE EndScheduling(w)
    <2>1. status = "Opened" => batch = <<>>
      BY <1>2 DEF BatchOrderInv, BatchRuns, EndScheduling
    <2>2. UNCHANGED <<batch, last_processed_ts, status>> /\ pc[w] = "end"
      BY <1>2 DEF EndScheduling, contextVars, inputVars
    <2>3. pc'[w] \notin {"end", "post"}
      BY <1>0, <1>2 DEF EndScheduling, Return, Goto
    <2>4. status # "Opened" => current_in_flight' = current_in_flight
      BY <1>2 DEF EndScheduling
    <2>5. KeepsOrder(w)
      BY <1>0, <2>1, <2>2, <2>3, <2>4 DEF KeepsOrder
    <2> QED
      BY <1>0, <2>5, OrderKept
  <1>3. CASE NodeClosed(w)
    <2>1. KeepsOrder(w)
      BY <1>0, <1>3 DEF NodeClosed, KeepsOrder, contextVars, inputVars, Goto
    <2> QED
      BY <1>0, <2>1, OrderKept
  <1> QED
    BY <1>1, <1>2, <1>3

\* Filling and scheduling.
LEMMA FillOrder ==
    ASSUME NodeInv, BatchOrderInv, NEW t \in Threads, UNCHANGED configVars, Moves(t), ~Parallel,
           FillStream(t) \/ Schedule(t)
    PROVE  BatchOrderInv'
  <1>0. UNCHANGED <<batch_size, max_in_flight>> /\ pc \in [Threads -> Labels]
    BY NodeTypes, ThreadFacts DEF configVars
  <1>1. CASE FillStream(t)
    <2>1. /\ UNCHANGED <<batch, last_processed_ts, status, current_in_flight>> /\ pc[t] = "fill"
      BY <1>1 DEF FillStream, contextVars, schedVars, inputVars
    <2>2. \/ pc'[t] \in {"fill", "schedule"}
          \/ Len(batch) # batch_size /\ pc'[t] \in {"scan", "recheck"}
      BY <1>0, <1>1, <2>1 DEF FillStream, Goto, NextInvocation
    <2>3. KeepsOrder(t)
      BY <1>0, <2>1, <2>2 DEF KeepsOrder
    <2> QED
      BY <2>3, OrderKept
  <1>2. CASE Schedule(t)
    <2>1. /\ UNCHANGED <<batch, last_processed_ts, status>> /\ pc[t] = "schedule"
          /\ current_in_flight' = current_in_flight + 1
      BY <1>2 DEF Schedule, contextVars
    <2>2. current_in_flight \in Nat
      BY DEF NodeInv, CountInv
    <2>3. pc'[t] \in {"scan", "recheck"}
      BY <1>2, ScheduleEffect
    <2>4. current_in_flight' > 0
      BY <2>1, <2>2
    <2>5. KeepsOrder(t)
      BY <1>0, <2>1, <2>3, <2>4 DEF KeepsOrder
    <2> QED
      BY <2>5, OrderKept
  <1> QED
    BY <1>1, <1>2

\* A timestamp the node has just selected, or Done, comes after the others.
LEMMA AppendGrows ==
    ASSUME batch \in Seq(Timestamps), BatchGrows, \A i \in 1 .. Len(batch) : batch[i] # Done,
           last_processed_ts \in Timestamps, NEW time \in Timestamps, batch' = Append(batch, time),
           \/ time = Done
           \/ IsAllowedInStream(time) /\ last_processed_ts < time /\ last_processed_ts' = time
    PROVE  BatchGrows'
  <1> DEFINE n == Len(batch)
  <1>1. /\ n \in Nat /\ Len(batch') = n + 1 /\ batch'[n + 1] = time
        /\ \A i \in 1 .. n : batch'[i] = batch[i] /\ batch[i] \in Timestamps
    OBVIOUS
  <1> HIDE DEF n
  <1>2. \A i \in 1 .. n : batch[i] < time
    <2> SUFFICES ASSUME NEW i \in 1 .. n PROVE batch[i] < time
      OBVIOUS
    <2>1. batch[i] \in Int /\ batch[i] <= Done /\ batch[i] # Done /\ time \in Int /\ Done \in Int
      BY <1>1, SpecialTimestamps DEF n
    <2>2. CASE time = Done
      BY <2>1, <2>2
    <2>3. CASE time # Done
      <3>1. batch # <<>> /\ n \in 1 .. n /\ batch[n] \in Int /\ batch[n] # Done
        <4>1. n \in 1 .. n
          BY <1>1
        <4>2. batch[n] \in Timestamps /\ batch[n] # Done
          BY <1>1, <4>1 DEF n
        <4>3. batch # <<>>
          BY <4>1 DEF n
        <4> QED
          BY <4>1, <4>2, <4>3, SpecialTimestamps
      <3>2. batch[n] <= last_processed_ts
        BY <3>1 DEF BatchGrows, n
      <3>3. i < n => batch[i] < batch[n]
        BY <3>1 DEF BatchGrows, n
      <3>4. last_processed_ts \in Int /\ last_processed_ts < time
        BY <2>3, SpecialTimestamps
      <3> QED
        BY <1>1, <2>1, <3>1, <3>2, <3>3, <3>4
    <2> QED
      BY <2>2, <2>3
  <1>3. \A i, j \in 1 .. Len(batch') : i < j => batch'[i] < batch'[j]
    <2> SUFFICES ASSUME NEW i \in 1 .. n + 1, NEW j \in 1 .. n + 1, i < j PROVE batch'[i] < batch'[j]
      BY <1>1
    <2>1. CASE j = n + 1
      BY <1>1, <1>2, <2>1
    <2>2. CASE j # n + 1
      <3>1. i \in 1 .. n /\ j \in 1 .. n
        BY <1>1, <2>2
      <3> QED
        BY <1>1, <3>1 DEF BatchGrows, n
    <2> QED
      BY <2>1, <2>2
  <1>4. \A i \in 1 .. Len(batch') : batch'[i] = Done \/ IsAllowedInStream(batch'[i])
    <2> SUFFICES ASSUME NEW i \in 1 .. n + 1 PROVE batch'[i] = Done \/ IsAllowedInStream(batch'[i])
      BY <1>1
    <2>1. CASE i = n + 1
      BY <1>1, <2>1
    <2>2. CASE i # n + 1
      <3>1. i \in 1 .. n
        BY <1>1, <2>2
      <3> QED
        BY <1>1, <3>1 DEF BatchGrows, n
    <2> QED
      BY <2>1, <2>2
  <1>5. batch'[Len(batch')] = Done \/ batch'[Len(batch')] <= last_processed_ts'
    BY <1>1, SpecialTimestamps
  <1> QED
    BY <1>3, <1>4, <1>5 DEF BatchGrows

\* What a thread that scans the streams knows of the batch.
LEMMA ScanBatch ==
    ASSUME NodeInv, BatchOrderInv, ~Parallel, NEW t \in Threads, pc[t] = "scan"
    PROVE  /\ current_in_flight = 0 /\ BatchGrows
           /\ batch \in Seq(Timestamps) /\ Len(batch) \in Nat /\ batch_size \in Nat \ {0}
           /\ status # "Closed" => Len(batch) < batch_size
           /\ status # "Closed" => \A w \in Workers : ~InTask(w)
           /\ \A w \in Workers : pc[w] # "post"
  <1>1. current_in_flight = 0 /\ pc[t] \in LoopLabels
    BY RoomNow DEF LoopLabels
  <1>2. /\ batch \in Seq(Timestamps) /\ Len(batch) \in Nat /\ batch_size \in Nat \ {0}
        /\ BatchGrows /\ BatchFits
    BY DEF NodeInv, BatchInv, ConfigInv, BatchOrderInv
  <1>3. \A u \in Threads : pc[u] \notin {"fill", "schedule"}
    BY <1>1, OthersOutside DEF LoopLabels
  <1>4. status # "Closed" => Len(batch) < batch_size
    BY <1>1, <1>2, <1>3 DEF BatchFits
  <1>5. status # "Closed" => \A w \in Workers : ~InTask(w)
    BY <1>1, TaskIsCounted
  <1>6. \A w \in Workers : pc[w] # "post"
    BY <1>5 DEF NodeInv, CountInv, InTask, TaskLabels
  <1> QED
    BY <1>1, <1>2, <1>4, <1>5, <1>6

\* Preparing the next input set.
LEMMA PrepareContextOrder ==
    ASSUME NodeInv, BatchOrderInv, NEW t \in Threads, UNCHANGED configVars, ~Parallel,
           Decide(t), PrepareContext(t)
    PROVE  BatchOrderInv'
  <1>1. PICK time : time = InputTimestamp(loc[t].min_packet, loc[t].min_bound)
    OBVIOUS
  <1>2. /\ pc[t] = "scan" /\ loc[t].i \notin Streams
        /\ ReadyForProcess(loc[t].min_packet, loc[t].min_bound)
        /\ batch' = Append(batch, time) /\ last_processed_ts' = time
        /\ UNCHANGED <<status, current_in_flight, batch_size, max_in_flight>>
    BY <1>1 DEF Decide, PrepareContext, schedVars, configVars
  <1>3. time \in Timestamps /\ IsAllowedInStream(time) /\ last_processed_ts < time /\ ~Over
    BY <1>1, <1>2, ReadyTimestamp
  <1>4. ~prepared_context_for_close
    BY <1>3 DEF NodeInv, InputsInv
  <1>5. status # "Closed"
    BY <1>4 DEF NodeInv, ClosingInv
  <1>6. Moves(t) /\ pc'[t] = "fill"
    BY PrepareContextEffect
  <1>7. BatchGrows'
    BY <1>2, <1>3, <1>4, ScanBatch, BatchOpen, NodeTypes, AppendGrows
  <1>8. BatchFits'
    <2>1. Len(batch') = Len(batch) + 1
      BY <1>2, ScanBatch
    <2> QED
      BY <1>2, <1>5, <1>6, <2>1, ScanBatch DEF BatchFits
  <1>9. \A w \in Workers : pc'[w] \notin {"post", "end"}
    <2> SUFFICES ASSUME NEW w \in Workers PROVE pc'[w] \notin {"post", "end"}
      OBVIOUS
    <2>1. pc[w] \notin {"post", "end"} /\ w \in Threads
      BY <1>2, <1>5, ScanBatch, NodeTypes DEF InTask
    <2> QED
      BY <1>6, <2>1 DEF Moves
  <1> QED
    BY <1>7, <1>8, <1>9 DEF BatchOrderInv, BatchRuns, PostOrder

\* Preparing the end.
LEMMA PrepareCloseOrder ==
    ASSUME NodeInv, CloseInv, BatchOrderInv, NEW t \in Threads, UNCHANGED configVars, ~Parallel,
           Decide(t), PrepareClose(t)
    PROVE  BatchOrderInv'
  <1>1. /\ pc[t] = "scan"
        /\ UNCHANGED <<status, current_in_flight, batch_size, max_in_flight>>
    BY DEF Decide, schedVars, configVars
  <1>2. Moves(t) /\ pc'[t] = IF MayPrepareClose THEN "schedule" ELSE "recheck"
    BY PrepareCloseEffect
  <1>3. BatchGrows' /\ Len(batch') = IF MayPrepareClose THEN Len(batch) + 1 ELSE Len(batch)
    <2>1. CASE MayPrepareClose
      <3>1. batch' = Append(batch, Done) /\ ~prepared_context_for_close
        BY <2>1 DEF PrepareClose, MayPrepareClose
      <3> QED
        BY <1>1, <2>1, <3>1, ScanBatch, BatchOpen, NodeTypes, NoLocalsType, AppendGrows
    <2>2. CASE ~MayPrepareClose
      <3>1. batch' = batch
        BY <2>2 DEF PrepareClose
      <3>2. prepared_context_for_close
        BY <2>2, SequentialWay DEF MayPrepareClose
      <3>3. EndsWithDone
        BY <3>2 DEF CloseInv
      <3> QED
        BY <1>1, <2>2, <3>1, <3>3, ScanBatch DEF BatchGrows, EndsWithDone
    <2> QED
      BY <2>1, <2>2
  <1>4. BatchFits'
    <2> SUFFICES ASSUME status # "Closed"
                 PROVE  /\ Len(batch') <= batch_size
                        /\ Len(batch') = batch_size => \E u \in Threads : pc'[u] \in {"fill", "schedule"}
      BY <1>1 DEF BatchFits
    <2> QED
      BY <1>1, <1>2, <1>3, ScanBatch
  <1>5. \A w \in Workers : pc'[w] # "post" /\ (status # "Closed" => pc'[w] # "end")
    <2> SUFFICES ASSUME NEW w \in Workers PROVE pc'[w] # "post" /\ (status # "Closed" => pc'[w] # "end")
      OBVIOUS
    <2>1. pc[w] # "post" /\ (status # "Closed" => pc[w] # "end") /\ w \in Threads
      BY <1>1, ScanBatch, NodeTypes DEF InTask
    <2> QED
      BY <1>2, <2>1 DEF Moves
  <1> QED
    BY <1>1, <1>3, <1>4, <1>5 DEF BatchOrderInv, BatchRuns, PostOrder

\* The rest of a batch.
LEMMA TailGrows ==
    ASSUME batch \in Seq(Timestamps), batch # <<>>, BatchGrows, batch' = Tail(batch),
           last_processed_ts' = last_processed_ts, Head(batch) # Done
    PROVE  /\ BatchGrows' /\ Len(batch') = Len(batch) - 1
           /\ Head(batch) \in Timestamps /\ IsAllowedInStream(Head(batch))
           /\ IF batch' = <<>> THEN Head(batch) <= last_processed_ts ELSE Head(batch) < Head(batch')
  <1>1. /\ Len(batch) \in Nat \ {0} /\ Len(batch') = Len(batch) - 1 /\ Head(batch) = batch[1]
        /\ \A i \in 1 .. Len(batch) - 1 : batch'[i] = batch[i + 1]
        /\ batch' \in Seq(Timestamps)
    OBVIOUS
  <1>2. batch[1] \in Timestamps /\ IsAllowedInStream(batch[1])
    BY <1>1 DEF BatchGrows
  <1>3. \A i, j \in 1 .. Len(batch') : i < j => batch'[i] < batch'[j]
    <2> SUFFICES ASSUME NEW i \in 1 .. Len(batch'), NEW j \in 1 .. Len(batch'), i < j
                 PROVE  batch'[i] < batch'[j]
      OBVIOUS
    <2>1. batch'[i] = batch[i + 1] /\ batch'[j] = batch[j + 1]
          /\ i + 1 \in 1 .. Len(batch) /\ j + 1 \in 1 .. Len(batch) /\ i + 1 < j + 1
      BY <1>1
    <2> QED
      BY <2>1 DEF BatchGrows
  <1>4. \A i \in 1 .. Len(batch') : batch'[i] = Done \/ IsAllowedInStream(batch'[i])
    <2> SUFFICES ASSUME NEW i \in 1 .. Len(batch') PROVE batch'[i] = Done \/ IsAllowedInStream(batch'[i])
      OBVIOUS
    <2>1. batch'[i] = batch[i + 1] /\ i + 1 \in 1 .. Len(batch)
      BY <1>1
    <2> QED
      BY <2>1 DEF BatchGrows
  <1>5. CASE Len(batch) = 1
    <2>1. batch' = <<>>
      BY <1>1, <1>5
    <2>2. batch[1] <= last_processed_ts
      BY <1>1, <1>5 DEF BatchGrows
    <2> QED
      BY <1>1, <1>2, <1>3, <1>4, <2>1, <2>2 DEF BatchGrows
  <1>6. CASE Len(batch) # 1
    <2>1. /\ batch' # <<>> /\ Head(batch') = batch'[1] /\ batch'[1] = batch[2]
          /\ 1 \in 1 .. Len(batch) /\ 2 \in 1 .. Len(batch)
      <3>1. 1 \in 1 .. Len(batch) /\ 2 \in 1 .. Len(batch) /\ 1 \in 1 .. Len(batch) - 1
        BY <1>1, <1>6
      <3>2. batch'[1] = batch[1 + 1]
        BY <1>1, <3>1
      <3>3. batch' # <<>>
        <4> SUFFICES ASSUME batch' = <<>> PROVE FALSE
          OBVIOUS
        <4>0. Len(<<>>) = 0
          OBVIOUS
        <4>1. Len(batch') = 0
          BY <4>0, Zenon
        <4>2. Len(batch') = Len(batch) - 1 /\ Len(batch) \in Nat /\ Len(batch) # 0
          BY <1>1
        <4> QED
          BY <1>6, <4>1, <4>2
      <3>4. Head(batch') = batch'[1]
        BY <1>1, <3>3
      <3> QED
        BY <3>1, <3>2, <3>3, <3>4
    <2>2. batch[1] < batch[2]
      BY <2>1 DEF BatchGrows
    <2>3. batch'[Len(batch')] = batch[Len(batch)]
      BY <1>1, <1>6
    <2> QED
      BY <1>1, <1>2, <1>3, <1>4, <2>1, <2>2, <2>3 DEF BatchGrows
  <1> QED
    BY <1>5, <1>6

\* What a task of such a node runs.
LEMMA SequentialTurn ==
    ASSUME NodeInv, ~Parallel, NEW w \in Workers, pc[w] \in {"process", "post"}
    PROVE  /\ loc[w].context = Done /\ w \in Threads /\ status # "Closed" /\ current_in_flight = 1
           /\ pc[w] = "process" => batch # <<>> /\ TurnTimestamp(w) = Head(batch)
           /\ pc[w] = "post" => loc[w].invocations = Len(batch) + 1
           /\ \A u \in Threads \ {w} :
                 /\ pc[u] \notin {"scan", "fill", "schedule", "bound"}
                 /\ u \in Workers => pc[u] \notin TaskLabels
           /\ Len(batch) \in Nat /\ batch \in Seq(Timestamps)
  <1>1. w \in Threads
    BY NodeTypes
  <1>2. loc[w].context = Done
    BY <1>1 DEF NodeInv, ContextsInv, DefaultOnly, Running
  <1>3. /\ status # "Closed" /\ current_in_flight = 1
        /\ \A u \in Workers \ {w} : ~InTask(u)
        /\ \A t \in Threads : pc[t] \notin {"scan", "fill", "schedule"}
    BY SequentialAlone DEF TaskLabels
  <1>4. \A t \in Threads : pc[t] # "bound"
    BY <1>3 DEF NodeInv, CountInv
  <1>5. batch \in Seq(Timestamps) /\ RunsBatch(w)
    BY DEF NodeInv, BatchInv
  <1>6. \A u \in Workers : ~InTask(u) => pc[u] \notin TaskLabels
    BY DEF InTask, TaskLabels
  <1> QED
    BY <1>1, <1>2, <1>3, <1>4, <1>5, <1>6 DEF RunsBatch, TurnTimestamp

\* The turn that begins takes the first timestamp of the batch.
LEMMA ProcessOrder ==
    ASSUME NodeInv, BatchOrderInv, NEW w \in Workers, UNCHANGED configVars, ~Parallel, Process(w)
    PROVE  BatchOrderInv'
  <1>1. /\ pc[w] = "process" /\ Moves(w)
        /\ UNCHANGED <<last_processed_ts, status, current_in_flight, batch_size, max_in_flight>>
    BY ProcessEffect DEF Process, schedVars, inputVars, configVars
  <1>2. /\ w \in Threads /\ current_in_flight = 1 /\ batch # <<>> /\ TurnTimestamp(w) = Head(batch)
        /\ loc[w].context = Done /\ batch \in Seq(Timestamps)
        /\ \A u \in Workers \ {w} : pc[u] \notin TaskLabels
    BY <1>1, SequentialTurn, NodeTypes
  <1>3. CASE Head(batch) = Done
    <2>1. pc'[w] = "close" /\ batch' = batch
      BY <1>2, <1>3, ProcessEffect DEF Process, Default
    <2>2. KeepsOrder(w)
      BY <1>1, <1>2, <2>1 DEF KeepsOrder
    <2> QED
      BY <1>1, <1>2, <2>2, OrderKept
  <1>4. CASE Head(batch) # Done
    <2>1. pc'[w] = "post" /\ loc'[w].timestamp = Head(batch)
      BY <1>2, <1>4, ProcessEffect
    <2>2. batch' = Tail(batch)
      BY <1>2, <1>4 DEF Process, Default
    <2>3. BatchGrows
      BY DEF BatchOrderInv
    <2>4. /\ BatchGrows' /\ IsAllowedInStream(Head(batch))
          /\ IF batch' = <<>> THEN Head(batch) <= last_processed_ts ELSE Head(batch) < Head(batch')
      BY <1>1, <1>2, <1>4, <2>2, <2>3, TailGrows
    <2>5. BatchFits' /\ PostOrder(w)'
      BY <1>1, <1>2, <2>1, <2>4 DEF BatchFits, PostOrder
    <2>6. \A u \in Workers : u # w => pc'[u] \notin TaskLabels
      BY <1>1, <1>2, NodeTypes DEF Moves
    <2> QED
      BY <2>1, <2>4, <2>5, <2>6 DEF BatchOrderInv, BatchRuns, PostOrder, TaskLabels
  <1> QED
    BY <1>3, <1>4

\* The turn that ends leaves the rest of the batch.
LEMMA TurnOrder ==
    ASSUME NodeInv, BatchOrderInv, NEW w \in Workers, UNCHANGED configVars, ~Parallel, PostProcess(w)
    PROVE  BatchOrderInv'
  <1>1. /\ pc[w] = "post" /\ TakesTurn(w)
        /\ UNCHANGED <<batch, last_processed_ts, status, current_in_flight, batch_size, max_in_flight>>
    BY DEF PostProcess, TakesTurn, schedVars, inputVars, configVars
  <1>2. /\ w \in Threads /\ loc[w].invocations = Len(batch) + 1 /\ Len(batch) \in Nat
        /\ batch \in Seq(Timestamps) /\ current_in_flight = 1
    BY <1>1, SequentialTurn
  <1>3. Moves(w) /\ pc'[w] = IF loc[w].invocations > 1 THEN "process" ELSE "end"
    BY <1>1, TurnEffect
  <1>4. pc'[w] = "end" => batch = <<>>
    BY <1>2, <1>3
  <1>5. KeepsOrder(w)
    BY <1>1, <1>2, <1>3, <1>4 DEF KeepsOrder
  <1> QED
    BY <1>2, <1>3, <1>5, OrderKept

\* Every step keeps the order of the batch.
LEMMA NodeOrder ==
    ASSUME NodeInv, CloseInv, BatchOrderInv, NEW t \in Threads, UNCHANGED configVars, StepOf(t)
    PROVE  BatchOrderInv'
  <1>1. Moves(t) /\ Parallel' = Parallel
    BY NodePlaces DEF StepOf, configVars, Parallel
  <1> SUFFICES ASSUME ~Parallel PROVE BatchOrderInv'
    BY <1>1 DEF BatchOrderInv
  <1>2. CASE BatchFree(t)
    BY <1>1, <1>2, BatchFreeOrder
  <1>3. CASE t \in Workers /\ (OpenNode(t) \/ EndScheduling(t) \/ NodeClosed(t))
    BY <1>1, <1>3, StatusOrder
  <1>4. CASE FillStream(t) \/ Schedule(t)
    BY <1>1, <1>4, FillOrder
  <1>5. CASE Decide(t) /\ ~NotReady(t)
    <2>1. PrepareContext(t) \/ PrepareClose(t)
      BY <1>5 DEF Decide
    <2> QED
      BY <1>5, <2>1, PrepareContextOrder, PrepareCloseOrder
  <1>6. CASE t \in Workers /\ (Process(t) \/ PostProcess(t))
    BY <1>6, ProcessOrder, TurnOrder
  <1>7. ~OutputStep(t) \/ UpdateTaskTimestampBound(t)
    BY SequentialPlaces DEF OutputStep
  <1> QED
    BY <1>2, <1>3, <1>4, <1>5, <1>6, <1>7 DEF StepOf, ThreadStep, LoopStep, WorkerStep, BatchFree

-----------------------------------------------------------------------------
(* The bounds of the streams that had no packet when they were looked at.  *)

EmptyBounds(t) ==
    pc[t] = "scan" =>
       \A s \in Streams :
          s < loc[t].i /\ queue[s] = <<>> => loc[t].min_bound <= next_timestamp_bound[s]

EmptyInv == \A t \in Threads : EmptyBounds(t)

\* A stream without packets had none before, and no stream offers less.
StreamsGrow ==
    \A s \in Streams :
       /\ MinTimestampOrBound(s) <= MinTimestampOrBound(s)'
       /\ queue'[s] = <<>> =>
             queue[s] = <<>> /\ next_timestamp_bound[s] <= next_timestamp_bound'[s]

\* A step after which every stream offers at least as much.
LEMMA OffersGrow ==
    ASSUME NodeInv, StreamsOffer
    PROVE  StreamsGrow
  BY DEF StreamsOffer, Offers, StreamsGrow, MinTimestampOrBound

\* Closing an input stream takes nothing back.
LEMMA CloseGrows ==
    ASSUME NodeInv, NEW s \in Streams, ClosesStream(s)
    PROVE  StreamsGrow
  BY DEF ClosesStream, StreamsGrow, MinTimestampOrBound

\* Every step but FillInputSet() lets the streams grow.
LEMMA NodeGrows ==
    ASSUME NodeInv, NEW t \in Threads, UNCHANGED configVars, StepOf(t), ~FillStream(t)
    PROVE  StreamsGrow
  <1>1. CASE t \in Streams /\ (Produce(t) \/ EndStream(t))
    BY <1>1, ProduceOffers, OffersGrow
  <1>2. CASE UNCHANGED streamVars
    BY <1>2, SameStreams, OffersGrow
  <1>3. CASE ScanStream(t) \/ Decide(t) \/ Schedule(t) \/ UpdateTaskTimestampBound(t)
    BY <1>2, <1>3 DEF ScanStream, Decide, Schedule, UpdateTaskTimestampBound
  <1>4. CASE t \in Workers /\ CloseInputStream(t)
    <2>1. loc[t].i \in Streams
      BY <1>4 DEF CloseInputStream, NodeInv, BatchInv, RunsBatch
    <2>2. Close(loc[t].i) /\ enable_timestamps' = enable_timestamps
      BY <1>4 DEF CloseInputStream, configVars
    <2> QED
      BY <2>1, <2>2, CloseOffers, CloseGrows
  <1>5. CASE Elsewhere(t)
    BY <1>2, <1>5, ElsewhereKeeps
  <1> QED
    BY <1>1, <1>3, <1>4, <1>5, StepKinds

\* A thread that goes on scanning begins afresh or looks at the next stream.
LEMMA ScansAfresh ==
    ASSUME NodeInv, NEW t \in Threads, UNCHANGED configVars, StepOf(t), ~ScanStream(t), pc'[t] = "scan"
    PROVE  loc'[t].i = 1 /\ loc'[t].min_bound = Done
  <1>1. CASE t \in Streams /\ (Produce(t) \/ EndStream(t))
    BY <1>1, ProduceOffers
  <1>2. CASE Decide(t)
    <2>1. pc'[t] # "scan"
      BY <1>2, NotReadyEffect, PrepareContextEffect, PrepareCloseEffect DEF Decide
    <2> QED
      BY <2>1
  <1>3. CASE FillStream(t)
    <2>1. NextInvocation(t, loc[t].left)
      BY <1>3, FillEffect DEF FilledMove, FillStream
    <2> QED
      BY <2>1, NodeTypes, NextInvocationEffect
  <1>4. CASE Schedule(t)
    <2>1. NextInvocation(t, loc[t].left - 1) /\ loc[t].left - 1 \in Int
      BY <1>4, ScheduleEffect, NodeTypes
    <2> QED
      BY <2>1, NodeTypes, NextInvocationEffect
  <1>5. CASE UpdateTaskTimestampBound(t)
    BY <1>5, UpdateLabels
  <1>6. CASE t \in Workers /\ CloseInputStream(t)
    BY <1>6, CloseEffect
  <1>7. CASE Elsewhere(t)
    BY <1>7, ElsewhereScans DEF Scans
  <1> QED
    BY <1>1, <1>2, <1>3, <1>4, <1>5, <1>6, <1>7, StepKinds

\* Every step keeps what a scan knows of the streams without packets.
LEMMA NodeEmpty ==
    ASSUME NodeInv, EmptyInv, NEW t \in Threads, UNCHANGED configVars, StepOf(t)
    PROVE  EmptyInv'
  <1> SUFFICES ASSUME NEW u \in Threads, pc'[u] = "scan", NEW s \in Streams,
                      s < loc'[u].i, queue'[s] = <<>>
               PROVE  loc'[u].min_bound <= next_timestamp_bound'[s]
    BY DEF EmptyInv, EmptyBounds
  <1>1. Moves(t) /\ next_timestamp_bound[s] \in Int /\ s \in Nat \ {0}
    BY NodePlaces, StreamFacts, StreamNumbers DEF StepOf
  <1>2. CASE u # t
    <2>1. pc[u] = "scan" /\ loc'[u] = loc[u]
      BY <1>1, <1>2 DEF Moves
    <2>2. ~FillStream(t)
      BY <1>2, <2>1, OthersOutside DEF FillStream, LoopLabels
    <2>3. StreamsGrow
      BY <2>2, NodeGrows
    <2>4. queue[s] = <<>> /\ next_timestamp_bound[s] <= next_timestamp_bound'[s]
      BY <2>3 DEF StreamsGrow
    <2>5. loc[u].min_bound <= next_timestamp_bound[s]
      BY <2>1, <2>4 DEF EmptyInv, EmptyBounds
    <2>6. loc[u].min_bound \in Int /\ next_timestamp_bound'[s] \in Int
      <3>1. loc[u].min_bound \in Timestamps
        BY NodeTypes
      <3>2. StreamInv'
        BY NodeInputs DEF InputsInv
      <3> QED
        BY <3>1, <3>2, SpecialTimestamps DEF StreamInv, StreamTypeOK
    <2> QED
      BY <1>1, <2>1, <2>4, <2>5, <2>6
  <1>3. CASE u = t /\ ~ScanStream(t)
    BY <1>1, <1>3, ScansAfresh
  <1>4. CASE u = t /\ ScanStream(t)
    <2>1. /\ pc[t] = "scan" /\ loc[t].i \in Streams /\ loc'[t].i = loc[t].i + 1
          /\ loc'[t].min_bound = IF queue[loc[t].i] = <<>>
                                 THEN Earlier(loc[t].min_bound, MinTimestampOrBound(loc[t].i))
                                 ELSE loc[t].min_bound
      BY <1>4, ScanEffect
    <2>2. queue' = queue /\ next_timestamp_bound' = next_timestamp_bound
      BY <1>4 DEF ScanStream, streamVars, queueVars, boundVars
    <2>3. loc[t].min_bound \in Int /\ MinTimestampOrBound(loc[t].i) \in Int
      <3>1. loc[t].min_bound \in Timestamps
        BY NodeTypes
      <3> QED
        BY <2>1, <3>1, SpecialTimestamps, StreamFacts
    <2>4. s < loc[t].i \/ s = loc[t].i
      BY <1>4, <2>1, StreamNumbers
    <2>5. CASE s < loc[t].i
      <3>1. loc[t].min_bound <= next_timestamp_bound[s]
        BY <2>1, <2>2, <2>5 DEF EmptyInv, EmptyBounds
      <3>2. loc'[t].min_bound <= loc[t].min_bound /\ loc'[t].min_bound \in Int
        BY <2>1, <2>3 DEF Earlier
      <3> QED
        BY <1>1, <1>4, <2>2, <2>3, <3>1, <3>2
    <2>6. CASE s = loc[t].i
      <3>1. loc'[t].min_bound = Earlier(loc[t].min_bound, next_timestamp_bound[s])
        BY <2>1, <2>2, <2>6 DEF MinTimestampOrBound
      <3> QED
        BY <1>1, <1>4, <2>2, <2>3, <3>1 DEF Earlier
    <2> QED
      BY <2>4, <2>5, <2>6
  <1> QED
    BY <1>2, <1>3, <1>4

-----------------------------------------------------------------------------
(* The bounds that are announced ahead of time.                            *)

\* The bound x does not stand against outputs at this timestamp: it is not later,
\* or the next bound to announce there.
Fits(x, timestamp) ==
    x <= timestamp \/ (x \in Announced /\ \A c \in Announced : c > timestamp => x <= c)

\* The timestamps that may still be selected ...
After(timestamp) == IsAllowedInStream(timestamp) /\ timestamp > last_processed_ts

\* ... since a bound has been passed to the node ...
Passed(timestamp, bound) ==
    process_timestamps /\ IsRangeValue(timestamp) /\ bound <= timestamp + 1

\* ... or a packet.
MayCome(timestamp) ==
    /\ After(timestamp)
    /\ \E s \in Streams :
          \/ MinTimestampOrBound(s) <= timestamp
          \/ queue[s] = <<>> /\ Passed(timestamp, next_timestamp_bound[s])

FitsNext(x) ==
    IF batch # <<>> THEN Fits(x, Head(batch))
    ELSE \A timestamp \in Timestamps : MayCome(timestamp) => Fits(x, timestamp)

\* A bound that is about to be announced is not later than the next input.
BoundOk(t) ==
    pc[t] = "bound" /\ IsRangeValue(loc[t].timestamp) =>
       IF batch # <<>> THEN loc[t].timestamp = Head(batch)
       ELSE \A timestamp \in Timestamps : MayCome(timestamp) => loc[t].timestamp <= timestamp

\* What has been announced fits the bounds the scan has met.
ScanOk(t) ==
    pc[t] = "scan" /\ batch = <<>> =>
       \A timestamp \in Timestamps :
          After(timestamp) /\ Passed(timestamp, loc[t].min_bound) => Fits(out_bound, timestamp)

\* What an invocation has put out is what Process() may put out.
PostOk(w) ==
    pc[w] = "post" =>
       /\ shard[Done] \in ProcessOutputs(loc[w].timestamp)
       /\ Fits(out_bound, loc[w].timestamp)

AnnounceInv ==
    ~Parallel =>
       /\ mirror_refused = {} /\ mirror_bound = out_bound
       /\ FitsNext(out_bound)
       /\ \A t \in Threads : BoundOk(t) /\ ScanOk(t)
       /\ \A w \in Workers : PostOk(w)

\* A bound that fits a timestamp fits the later ones.
LEMMA FitsLater ==
    ASSUME NEW x \in Timestamps, NEW time \in Timestamps, NEW later \in Timestamps,
           Fits(x, time), time <= later
    PROVE  Fits(x, later)
  <1>1. x \in Int /\ time \in Int /\ later \in Int /\ \A c \in Announced : c \in Int
    BY SpecialTimestamps, NodeAssumption
  <1> QED
    BY <1>1 DEF Fits

OffersAreNumbers ==
    \A s \in Streams : MinTimestampOrBound(s) \in Int /\ next_timestamp_bound[s] \in Int

\* What the streams offer can be compared.
LEMMA OffersNow == NodeInv => OffersAreNumbers
  BY StreamFacts DEF OffersAreNumbers

\* In the next state too.
LEMMA OffersNext == NodeInv' => OffersAreNumbers'
  BY OffersNow, PTL

\* Fewer timestamps may come when streams grow.
LEMMA GrowthBrings ==
    ASSUME NodeInv, StreamsGrow, NodeInv', UNCHANGED <<last_processed_ts, process_timestamps>>,
           NEW time \in Timestamps, MayCome(time)'
    PROVE  MayCome(time)
  <1>1. After(time) /\ time \in Int
    BY SpecialTimestamps DEF MayCome, After
  <1>2. PICK s \in Streams : \/ MinTimestampOrBound(s)' <= time
                             \/ queue'[s] = <<>> /\ Passed(time, next_timestamp_bound[s])'
    BY DEF MayCome
  <1>3. /\ MinTimestampOrBound(s) <= MinTimestampOrBound(s)'
        /\ queue'[s] = <<>> => queue[s] = <<>> /\ next_timestamp_bound[s] <= next_timestamp_bound'[s]
    BY DEF StreamsGrow
  <1>4. MinTimestampOrBound(s) \in Int /\ next_timestamp_bound[s] \in Int
    BY StreamFacts
  <1>5. MinTimestampOrBound(s)' \in Int /\ next_timestamp_bound'[s] \in Int
    BY OffersNext DEF OffersAreNumbers
  <1>6. CASE MinTimestampOrBound(s)' <= time
    <2>1. MinTimestampOrBound(s) <= time
      BY <1>1, <1>3, <1>4, <1>5, <1>6
    <2> QED
      BY <1>1, <2>1 DEF MayCome
  <1>7. CASE queue'[s] = <<>> /\ Passed(time, next_timestamp_bound[s])'
    <2>1. /\ process_timestamps /\ IsRangeValue(time) /\ next_timestamp_bound'[s] <= time + 1
          /\ queue[s] = <<>>
      BY <1>3, <1>7 DEF Passed
    <2>2. next_timestamp_bound[s] <= time + 1
      BY <1>1, <1>3, <1>4, <1>5, <1>7, <2>1
    <2> QED
      BY <1>1, <2>1, <2>2 DEF MayCome, Passed
  <1> QED
    BY <1>2, <1>6, <1>7

\* A step that leaves the batch and the outputs as they are.
KeepsAnnounce(t) ==
    /\ UNCHANGED <<batch, last_processed_ts, process_timestamps, max_in_flight, sends_post_stream>>
    /\ UNCHANGED <<shard, out_bound, mirror_bound, mirror_refused>>
    /\ batch # <<>> \/ StreamsGrow
    /\ pc'[t] \notin {"bound", "post"}
    /\ pc'[t] = "scan" => loc'[t].min_bound = Done

\* The other threads know what they knew.
LEMMA OthersKnow ==
    ASSUME NodeInv, NodeInv', NEW t \in Threads, Moves(t), NEW u \in Threads \ {t},
           UNCHANGED <<batch, last_processed_ts, process_timestamps, out_bound>>,
           batch # <<>> \/ StreamsGrow
    PROVE  (BoundOk(u) => BoundOk(u)') /\ (ScanOk(u) => ScanOk(u)')
  <1>1. pc'[u] = pc[u] /\ loc'[u] = loc[u]
    BY DEF Moves
  <1>2. BoundOk(u) => BoundOk(u)'
    <2>1. CASE batch # <<>>
      BY <1>1, <2>1 DEF BoundOk
    <2>2. CASE batch = <<>>
      <3>1. \A time \in Timestamps : MayCome(time)' => MayCome(time)
        BY <2>2, GrowthBrings
      <3> QED
        BY <1>1, <2>2, <3>1 DEF BoundOk
    <2> QED
      BY <2>1, <2>2
  <1>3. ScanOk(u) => ScanOk(u)'
    BY <1>1 DEF ScanOk, After, Passed, Fits
  <1> QED
    BY <1>2, <1>3

\* No range value is passed by Done.
LEMMA FreshScanOk ==
    ASSUME NEW t, pc'[t] = "scan" => loc'[t].min_bound = Done
    PROVE  ScanOk(t)'
  <1> SUFFICES ASSUME NEW time \in Timestamps, pc'[t] = "scan", Passed(time, loc[t].min_bound)' PROVE FALSE
    BY DEF ScanOk
  <1>1. IsRangeValue(time) /\ Done <= time + 1 /\ time \in Int
    BY SpecialTimestamps DEF Passed
  <1> QED
    BY <1>1, RangeAssumption DEF IsRangeValue, Done

\* Such a step keeps what is announced in time.
LEMMA AnnounceKept ==
    ASSUME NodeInv, NodeInv', AnnounceInv, NEW t \in Threads, Moves(t), KeepsAnnounce(t)
    PROVE  AnnounceInv'
  <1> SUFFICES ASSUME ~Parallel'
               PROVE  /\ mirror_refused' = {} /\ mirror_bound' = out_bound'
                      /\ FitsNext(out_bound)'
                      /\ \A u \in Threads : BoundOk(u)' /\ ScanOk(u)'
                      /\ \A w \in Workers : PostOk(w)'
    BY DEF AnnounceInv
  <1>1. /\ mirror_refused = {} /\ mirror_bound = out_bound /\ FitsNext(out_bound)
        /\ \A u \in Threads : BoundOk(u) /\ ScanOk(u)
        /\ \A w \in Workers : PostOk(w)
    BY DEF AnnounceInv, KeepsAnnounce, Parallel
  <1>2. mirror_refused' = {} /\ mirror_bound' = out_bound'
    BY <1>1 DEF KeepsAnnounce
  <1>3. FitsNext(out_bound)'
    <2>1. CASE batch # <<>>
      BY <1>1, <2>1 DEF FitsNext, KeepsAnnounce, Fits
    <2>2. CASE batch = <<>>
      <3>1. \A time \in Timestamps : MayCome(time)' => MayCome(time)
        BY <2>2, GrowthBrings DEF KeepsAnnounce
      <3> QED
        BY <1>1, <2>2, <3>1 DEF FitsNext, KeepsAnnounce, Fits
    <2> QED
      BY <2>1, <2>2
  <1>4. \A u \in Threads : BoundOk(u)' /\ ScanOk(u)'
    <2>1. BoundOk(t)' /\ ScanOk(t)'
      BY FreshScanOk DEF KeepsAnnounce, BoundOk
    <2> QED
      BY <1>1, <2>1, OthersKnow DEF KeepsAnnounce
  <1>5. ASSUME NEW w \in Workers PROVE PostOk(w)'
    <2>1. w \in Threads
      BY NodeTypes
    <2>2. CASE w = t
      BY <2>2 DEF PostOk, KeepsAnnounce
    <2>3. CASE w # t
      <3>1. pc'[w] = pc[w] /\ loc'[w] = loc[w]
        BY <2>1, <2>3 DEF Moves
      <3> QED
        BY <1>1, <3>1 DEF PostOk, KeepsAnnounce, ProcessOutputs, MaySend, Fits
    <2> QED
      BY <2>2, <2>3
  <1> QED
    BY <1>2, <1>3, <1>4, <1>5

\* What bears on the announcements only by way of its place.
Bystands(t) ==
    \/ t \in Streams /\ (Produce(t) \/ EndStream(t))
    \/ CheckIfBecameReady(t) \/ BeginLoop(t) \/ Recheck(t) \/ FillStream(t) \/ Schedule(t)
    \/ t \in Workers /\ (\/ OpenNode(t) \/ RunTask(t) \/ EndScheduling(t)
                         \/ CloseInputStream(t) \/ NodeClosed(t))

\* A step that has nothing to do with the outputs ...
LEMMA BystandsKeeps ==
    ASSUME NodeInv, ~Parallel, NEW t \in Threads, Bystands(t), UNCHANGED configVars
    PROVE  /\ UNCHANGED <<batch, last_processed_ts>> /\ pc'[t] \notin {"bound", "post"}
           /\ ~Sends(t) /\ StepOf(t) /\ ~ScanStream(t)
  <1>0. /\ pc \in [Threads -> Labels] /\ Home(t) \in {"produce", "free"}
        /\ t \in Streams => t \notin Workers
    BY NodeTypes, ThreadFacts
  <1>1. StepOf(t)
    BY DEF Bystands, StepOf, ThreadStep, LoopStep, WorkerStep
  <1>2. CASE t \in Streams /\ (Produce(t) \/ EndStream(t))
    BY <1>0, <1>1, <1>2 DEF Produce, EndStream, contextVars, inputVars, Goto, Sends, ScanStream,
       UpdateTaskTimestampBound, PropagatePackets, RecycleContext, SendBound
  <1>3. CASE CheckIfBecameReady(t)
    BY <1>0, <1>1, <1>3 DEF CheckIfBecameReady, contextVars, inputVars, Goto, Return, Sends, ScanStream,
       UpdateTaskTimestampBound, PropagatePackets, RecycleContext, SendBound, Process, PostProcess, CloseOutputStreams
  <1>4. CASE BeginLoop(t) \/ Recheck(t)
    BY <1>0, <1>1, <1>4 DEF BeginLoop, Recheck, contextVars, inputVars, Goto, Return, NextInvocation, Sends, ScanStream,
       UpdateTaskTimestampBound, PropagatePackets, RecycleContext, SendBound, Process, PostProcess, CloseOutputStreams
  <1>5. CASE FillStream(t)
    BY <1>0, <1>1, <1>5 DEF FillStream, contextVars, inputVars, Goto, NextInvocation, Sends, ScanStream,
       UpdateTaskTimestampBound, PropagatePackets, RecycleContext, SendBound, Process, PostProcess, CloseOutputStreams
  <1>6. CASE Schedule(t)
    <2>1. pc'[t] \in {"scan", "recheck"} /\ pc[t] = "schedule"
      BY <1>6, ScheduleEffect DEF Schedule
    <2> QED
      BY <1>1, <1>6, <2>1 DEF Schedule, contextVars, Sends, ScanStream,
         UpdateTaskTimestampBound, PropagatePackets, RecycleContext, SendBound, Process, PostProcess, CloseOutputStreams
  <1>7. CASE t \in Workers /\ (OpenNode(t) \/ RunTask(t))
    BY <1>0, <1>1, <1>7 DEF OpenNode, RunTask, contextVars, inputVars, Goto, Sends, ScanStream,
       UpdateTaskTimestampBound, PropagatePackets, RecycleContext, SendBound, Process, PostProcess, CloseOutputStreams
  <1>8. CASE t \in Workers /\ EndScheduling(t)
    BY <1>0, <1>1, <1>8 DEF EndScheduling, contextVars, inputVars, Goto, Return, Sends, ScanStream,
       UpdateTaskTimestampBound, PropagatePackets, RecycleContext, SendBound, Process, PostProcess, CloseOutputStreams
  <1>9. CASE t \in Workers /\ (CloseInputStream(t) \/ NodeClosed(t))
    BY <1>0, <1>1, <1>9 DEF CloseInputStream, NodeClosed, contextVars, inputVars, Goto, Sends, ScanStream,
       UpdateTaskTimestampBound, PropagatePackets, RecycleContext, SendBound, Process, PostProcess, CloseOutputStreams
  <1> QED
    BY <1>2, <1>3, <1>4, <1>5, <1>6, <1>7, <1>8, <1>9 DEF Bystands

\* ... keeps what is announced in time.
LEMMA BystandsAnnounce ==
    ASSUME NodeInv, NodeInv', AnnounceInv, NEW t \in Threads, UNCHANGED configVars, Moves(t),
           ~Parallel, Bystands(t)
    PROVE  AnnounceInv'
  <1>1. /\ UNCHANGED <<batch, last_processed_ts>> /\ pc'[t] \notin {"bound", "post"}
        /\ ~Sends(t) /\ StepOf(t) /\ ~ScanStream(t)
    BY BystandsKeeps
  <1>2. UNCHANGED <<shard, out_bound, mirror_bound, mirror_refused>>
    BY <1>1, SendsNothing
  <1>3. batch # <<>> \/ StreamsGrow
    <2>1. CASE FillStream(t)
      <3>1. pc[t] = "fill" /\ LoadsBatch(t)
        BY <2>1 DEF FillStream, NodeInv, BatchInv
      <3> QED
        BY <3>1 DEF LoadsBatch
    <2>2. CASE ~FillStream(t)
      BY <1>1, <2>2, NodeGrows
    <2> QED
      BY <2>1, <2>2
  <1>4. pc'[t] = "scan" => loc'[t].min_bound = Done
    BY <1>1, ScansAfresh
  <1>5. KeepsAnnounce(t)
    BY <1>1, <1>2, <1>3, <1>4 DEF KeepsAnnounce, configVars
  <1> QED
    BY <1>5, AnnounceKept

\* The scan meets another bound.
LEMMA ScanAnnounce ==
    ASSUME NodeInv, NodeInv', AnnounceInv, NEW t \in Threads, UNCHANGED configVars, ~Parallel, ScanStream(t)
    PROVE  AnnounceInv'
  <1>1. /\ pc[t] = "scan" /\ loc[t].i \in Streams /\ Moves(t) /\ pc' = pc
        /\ loc'[t].min_bound = IF queue[loc[t].i] = <<>>
                               THEN Earlier(loc[t].min_bound, MinTimestampOrBound(loc[t].i))
                               ELSE loc[t].min_bound
    BY ScanEffect
  <1>2. /\ UNCHANGED <<batch, last_processed_ts, process_timestamps, max_in_flight, shard>>
        /\ UNCHANGED <<out_bound, mirror_bound, mirror_refused>>
        /\ UNCHANGED <<queue, next_timestamp_bound, streamVars>>
    BY DEF ScanStream, contextVars, outVars, inputVars, configVars, streamVars, queueVars, boundVars
  <1>3. /\ mirror_refused = {} /\ mirror_bound = out_bound /\ FitsNext(out_bound)
        /\ \A u \in Threads : BoundOk(u) /\ ScanOk(u)
        /\ \A w \in Workers : PostOk(w)
    BY DEF AnnounceInv
  <1>4. \A time : MayCome(time)' <=> MayCome(time)
    BY <1>2 DEF MayCome, After, Passed, MinTimestampOrBound
  <1>5. FitsNext(out_bound)'
    BY <1>2, <1>3, <1>4 DEF FitsNext, Fits
  <1>6. ScanOk(t)'
    <2> SUFFICES ASSUME batch = <<>>, NEW time \in Timestamps, After(time), Passed(time, loc[t].min_bound)'
                 PROVE  Fits(out_bound, time)
      BY <1>2 DEF ScanOk, After, Fits
    <2>1. /\ process_timestamps /\ IsRangeValue(time) /\ loc'[t].min_bound <= time + 1
      BY <1>2 DEF Passed
    <2>2. CASE loc'[t].min_bound = loc[t].min_bound
      <3>1. Passed(time, loc[t].min_bound)
        BY <2>1, <2>2 DEF Passed
      <3> QED
        BY <1>1, <1>3, <3>1 DEF ScanOk
    <2>3. CASE loc'[t].min_bound # loc[t].min_bound
      <3>1. /\ queue[loc[t].i] = <<>>
            /\ loc'[t].min_bound = next_timestamp_bound[loc[t].i]
        BY <1>1, <2>3 DEF Earlier, MinTimestampOrBound
      <3>2. MayCome(time)
        BY <1>1, <2>1, <3>1 DEF MayCome, Passed
      <3> QED
        BY <1>3, <3>2 DEF FitsNext
    <2> QED
      BY <2>2, <2>3
  <1>7. \A u \in Threads : BoundOk(u)' /\ ScanOk(u)'
    <2>1. StreamsGrow
      BY <1>2, SameStreams, OffersGrow
    <2>2. BoundOk(t)'
      BY <1>1 DEF BoundOk
    <2>3. \A u \in Threads \ {t} : BoundOk(u)' /\ ScanOk(u)'
      BY <1>1, <1>2, <1>3, <2>1, OthersKnow
    <2> QED
      BY <1>6, <2>2, <2>3
  <1>8. ASSUME NEW w \in Workers PROVE PostOk(w)'
    <2>1. w \in Threads
      BY NodeTypes
    <2>2. pc'[w] = "post" => w # t
      BY <1>1
    <2>3. w # t => loc'[w] = loc[w]
      BY <1>1, <2>1 DEF Moves
    <2>4. pc'[w] = pc[w] /\ PostOk(w)
      BY <1>1, <1>3
    <2> QED
      BY <1>2, <2>2, <2>3, <2>4 DEF PostOk, ProcessOutputs, MaySend, Fits, configVars
  <1> QED
    BY <1>2, <1>3, <1>5, <1>7, <1>8 DEF AnnounceInv

\* Nobody but the thread that decides knows of bounds or outputs.
LEMMA DecidesAlone ==
    ASSUME NodeInv, BatchOrderInv, ~Parallel, NEW t \in Threads, pc[t] = "scan", Moves(t),
           pc'[t] \in Labels
    PROVE  /\ \A u \in Threads \ {t} : pc'[u] \notin {"scan", "bound"}
           /\ \A w \in Workers : pc'[w] = "post" => w = t
  <1>1. pc[t] \in LoopLabels /\ \A w \in Workers : pc[w] # "post" /\ w \in Threads
    BY ScanBatch, NodeTypes DEF LoopLabels
  <1>2. \A u \in Threads \ {t} : pc[u] \notin {"scan", "bound"}
    BY <1>1, OthersOutside DEF LoopLabels
  <1> QED
    BY <1>1, <1>2 DEF Moves

\* A step out of a scan that leaves a batch with a first timestamp that fits.
LEMMA DecidedAnnounce ==
    ASSUME NodeInv, BatchOrderInv, AnnounceInv, ~Parallel, NEW t \in Threads, pc[t] = "scan", Moves(t),
           pc'[t] \in {"fill", "schedule", "recheck"},
           UNCHANGED <<max_in_flight, out_bound, mirror_bound, mirror_refused>>,
           batch' # <<>>, Fits(out_bound, Head(batch'))
    PROVE  AnnounceInv'
  <1>1. /\ \A u \in Threads \ {t} : pc'[u] \notin {"scan", "bound"}
        /\ \A w \in Workers : pc'[w] = "post" => w = t
    BY DecidesAlone DEF Labels, LoopLabels
  <1>2. mirror_refused' = {} /\ mirror_bound' = out_bound'
    BY DEF AnnounceInv
  <1>3. FitsNext(out_bound)'
    BY DEF FitsNext, Fits
  <1> QED
    BY <1>1, <1>2, <1>3 DEF AnnounceInv, BoundOk, ScanOk, PostOk

\* The timestamp before one of the range is one less.
LEMMA PreviousOfRange ==
    ASSUME NEW bound \in Timestamps
    PROVE  /\ RangeMin < bound /\ bound <= RangeMax => PreviousAllowedInStream(bound) = bound - 1
           /\ bound <= RangeMin => PreviousAllowedInStream(bound) = Unstarted
           /\ bound = PostStream => PreviousAllowedInStream(bound) = Unstarted
           /\ bound > PostStream => PreviousAllowedInStream(bound) = RangeMax
  BY RangeAssumption DEF Timestamps, PreviousAllowedInStream, Plus, Unstarted, PostStream, Unset, Done

\* What a complete scan knows.
LEMMA ScanComplete ==
    ASSUME NodeInv, NEW t \in Threads, pc[t] = "scan", loc[t].i \notin Streams
    PROVE  /\ loc[t].min_packet \in Timestamps /\ loc[t].min_bound \in Timestamps
           /\ \A s \in Streams :
                 /\ Earlier(loc[t].min_packet, loc[t].min_bound) <= MinTimestampOrBound(s)
                 /\ s < loc[t].i
           /\ \/ loc[t].min_packet = Done
              \/ \E s \in Streams : MinTimestampOrBound(s) = loc[t].min_packet
  <1>1. Scanned(t) /\ loc[t].i \in Nat \ {0}
    BY ScanFacts DEF Scanned
  <1>2. \A s \in Streams : s < loc[t].i
    BY <1>1, StreamNumbers
  <1>3. \/ loc[t].min_packet = Done
        \/ \E s \in Streams : MinTimestampOrBound(s) = loc[t].min_packet
    BY <1>1 DEF Scanned, MinTimestampOrBound
  <1> QED
    BY <1>1, <1>2, <1>3, NodeTypes, ScanFacts

\* What has been announced fits the first timestamp of a batch.
LEMMA ReadyFits ==
    ASSUME NodeInv, AnnounceInv, ~Parallel, NEW t \in Threads, pc[t] = "scan", loc[t].i \notin Streams,
           batch = <<>>, ReadyForProcess(loc[t].min_packet, loc[t].min_bound),
           NEW time, time = InputTimestamp(loc[t].min_packet, loc[t].min_bound)
    PROVE  Fits(out_bound, time)
  <1>1. PICK p \in Timestamps, b \in Timestamps : p = loc[t].min_packet /\ b = loc[t].min_bound
    BY ScanComplete
  <1>2. /\ time \in Timestamps /\ time \in Int /\ After(time)
    BY ReadyTimestamp, SpecialTimestamps DEF After
  <1>3. p \in Int /\ b \in Int
    BY SpecialTimestamps
  <1>4. CASE time = p
    <2>1. p # Done
      BY <1>2, <1>4, SpecialTimestamps DEF After, IsAllowedInStream
    <2>2. PICK s \in Streams : MinTimestampOrBound(s) = p
      BY <1>1, <2>1, ScanComplete
    <2>3. MinTimestampOrBound(s) <= time
      BY <1>3, <1>4, <2>2
    <2>4. MayCome(time)
      BY <1>2, <2>3 DEF MayCome
    <2> QED
      BY <1>2, <2>4 DEF AnnounceInv, FitsNext
  <1>5. CASE time # p
    <2>1. ReadyForProcess(p, b) /\ time = InputTimestamp(p, b)
      BY <1>1
    <2>2. process_timestamps
      BY <1>3, <1>5, <2>1 DEF ReadyForProcess, InputTimestamp, MinStreamTimestamp, Earlier
    <2>3. time = PreviousAllowedInStream(b) /\ ~(p = PostStream /\ b > p) /\ time <= p
      <3>1. time = Earlier(p, IF p = PostStream /\ b > p THEN p ELSE PreviousAllowedInStream(b))
        BY <2>1, <2>2 DEF InputTimestamp
      <3>2. PreviousAllowedInStream(b) \in Int
        BY MinimaTypes, SpecialTimestamps
      <3> QED
        BY <1>3, <1>5, <3>1, <3>2 DEF Earlier
    <2>4. time # Unstarted
      BY <1>2, SpecialTimestamps DEF After, IsAllowedInStream
    <2>5. b > RangeMin /\ b # PostStream
      BY <1>3, <2>3, <2>4, PreviousOfRange, SpecialTimestamps
    <2>6. b <= RangeMax
      <3> SUFFICES ASSUME b > RangeMax PROVE FALSE
        BY <1>3, SpecialTimestamps
      <3>1. b > PostStream
        BY <1>3, <2>5, RangeAssumption DEF PostStream
      <3>2. time = RangeMax
        BY <2>3, <3>1, PreviousOfRange
      <3>3. p > RangeMax
        BY <1>3, <1>5, <2>3, <3>2, SpecialTimestamps
      <3>4. p # PostStream
        BY <1>3, <2>3, <3>1, SpecialTimestamps
      <3>5. p >= OneOverPostStream /\ b >= OneOverPostStream
        BY <1>3, <3>1, <3>3, <3>4, RangeAssumption DEF PostStream, OneOverPostStream
      <3>6. ReadyForClose(p, b)
        BY <1>3, <3>5 DEF ReadyForClose, MinStreamTimestamp, Earlier
      <3> QED
        BY <2>1, <3>6 DEF ReadyForProcess
    <2>7. time = b - 1
      BY <2>3, <2>5, <2>6, PreviousOfRange
    <2>8. IsRangeValue(time) /\ b <= time + 1
      BY <1>3, <2>5, <2>6, <2>7, RangeAssumption DEF IsRangeValue
    <2>9. Passed(time, loc[t].min_bound)
      BY <1>1, <2>2, <2>8 DEF Passed
    <2> QED
      BY <1>2, <2>9 DEF AnnounceInv, ScanOk
  <1> QED
    BY <1>4, <1>5

\* A context is prepared at a timestamp that everything announced fits.
LEMMA PrepareContextAnnounce ==
    ASSUME NodeInv, BatchOrderInv, AnnounceInv, NEW t \in Threads, UNCHANGED configVars, ~Parallel,
           Decide(t), PrepareContext(t)
    PROVE  AnnounceInv'
  <1>1. PICK time : time = InputTimestamp(loc[t].min_packet, loc[t].min_bound)
    OBVIOUS
  <1>2. /\ pc[t] = "scan" /\ loc[t].i \notin Streams
        /\ ReadyForProcess(loc[t].min_packet, loc[t].min_bound)
        /\ batch' = Append(batch, time)
        /\ UNCHANGED <<max_in_flight, out_bound, mirror_bound, mirror_refused>>
    BY <1>1 DEF Decide, PrepareContext, outVars, configVars
  <1>3. Moves(t) /\ pc'[t] = "fill"
    BY PrepareContextEffect
  <1>4. batch \in Seq(Timestamps) /\ time \in Timestamps
    BY <1>1, <1>2, NodeTypes, ReadyTimestamp
  <1>5. batch' # <<>> /\ Head(batch') = IF batch = <<>> THEN time ELSE Head(batch)
    BY <1>2, <1>4
  <1>6. Fits(out_bound, Head(batch'))
    BY <1>1, <1>2, <1>5, ReadyFits DEF AnnounceInv, FitsNext
  <1> QED
    BY <1>2, <1>3, <1>5, <1>6, DecidedAnnounce

\* Once the inputs have ended no timestamp may come.
LEMMA PrepareCloseAnnounce ==
    ASSUME NodeInv, CloseInv, BatchOrderInv, AnnounceInv, OutTypes, NEW t \in Threads, UNCHANGED configVars,
           ~Parallel, Decide(t), PrepareClose(t)
    PROVE  AnnounceInv'
  <1>1. /\ pc[t] = "scan"
        /\ UNCHANGED <<max_in_flight, out_bound, mirror_bound, mirror_refused>>
    BY DEF Decide, outVars, configVars
  <1>2. Moves(t) /\ pc'[t] \in {"schedule", "recheck"}
    BY PrepareCloseEffect
  <1>3. batch \in Seq(Timestamps)
    BY NodeTypes
  <1>4. Fits(out_bound, Done)
    BY SpecialTimestamps DEF OutTypes, Fits
  <1>5. batch' # <<>> /\ Fits(out_bound, Head(batch'))
    <2>1. CASE MayPrepareClose
      <3>1. batch' = Append(batch, Done)
        BY <2>1 DEF PrepareClose
      <3>2. batch' # <<>> /\ Head(batch') = IF batch = <<>> THEN Done ELSE Head(batch)
        BY <1>3, <3>1
      <3> QED
        BY <1>4, <3>2 DEF AnnounceInv, FitsNext
    <2>2. CASE ~MayPrepareClose
      <3>1. batch' = batch /\ EndsWithDone
        BY <2>2, SequentialWay DEF PrepareClose, MayPrepareClose, CloseInv
      <3> QED
        BY <3>1 DEF AnnounceInv, FitsNext, EndsWithDone
    <2> QED
      BY <2>1, <2>2
  <1> QED
    BY <1>1, <1>2, <1>5, DecidedAnnounce

\* The bound that is found is not later than what may still come.
LEMMA NotReadyBound ==
    ASSUME NodeInv, EmptyInv, NEW t \in Threads, pc[t] = "scan", loc[t].i \notin Streams,
           NEW p \in Timestamps, NEW b \in Timestamps, p = loc[t].min_packet, b = loc[t].min_bound,
           ~ReadyForClose(p, b), ~ReadyForProcess(p, b),
           NEW bound, bound = MinStreamTimestamp(p, b), IsRangeValue(bound),
           NEW time \in Timestamps, MayCome(time)
    PROVE  bound <= time
  <1>1. p \in Int /\ b \in Int /\ time \in Int /\ bound \in Int /\ After(time)
    BY SpecialTimestamps DEF MinStreamTimestamp, Earlier, MayCome
  <1>2. PICK s \in Streams : \/ MinTimestampOrBound(s) <= time
                             \/ queue[s] = <<>> /\ Passed(time, next_timestamp_bound[s])
    BY DEF MayCome
  <1>3. MinTimestampOrBound(s) \in Int /\ next_timestamp_bound[s] \in Int
    BY StreamFacts
  <1>4. CASE MinTimestampOrBound(s) <= time
    <2>1. bound <= MinTimestampOrBound(s)
      BY ScanComplete DEF MinStreamTimestamp
    <2> QED
      BY <1>1, <1>3, <1>4, <2>1
  <1>5. CASE queue[s] = <<>> /\ Passed(time, next_timestamp_bound[s])
    <2>1. process_timestamps /\ IsRangeValue(time) /\ next_timestamp_bound[s] <= time + 1
      BY <1>5 DEF Passed
    <2>2. s < loc[t].i
      BY ScanComplete
    <2>3. b <= next_timestamp_bound[s]
      BY <1>5, <2>2 DEF EmptyInv, EmptyBounds
    <2>4. b <= time + 1
      BY <1>1, <1>3, <2>1, <2>3
    <2>5. CASE p < b
      BY <1>1, <2>4, <2>5 DEF MinStreamTimestamp, Earlier
    <2>6. CASE b <= p
      <3>1. bound = b
        BY <1>1, <2>6 DEF MinStreamTimestamp, Earlier
      <3>2. CASE b = RangeMin
        BY <1>1, <2>1, <3>1, <3>2 DEF IsRangeValue
      <3>3. CASE b # RangeMin
        <4>1. RangeMin < b /\ b <= RangeMax
          BY <1>1, <3>1, <3>3, SpecialTimestamps DEF IsRangeValue
        <4>2. PreviousAllowedInStream(b) = b - 1
          BY <4>1, PreviousOfRange
        <4>3. ~(p = PostStream /\ b > p)
          BY <1>1, <2>6
        <4>4. InputTimestamp(p, b) = Earlier(p, b - 1)
          BY <2>1, <4>2, <4>3 DEF InputTimestamp
        <4>5. InputTimestamp(p, b) = b - 1
          BY <1>1, <2>6, <4>4 DEF Earlier
        <4>6. last_processed_ts \in Int /\ Unstarted \in Int
          BY NodeTypes, SpecialTimestamps
        <4>7. b - 1 <= Later(last_processed_ts, Unstarted)
          BY <1>1, <2>1, <4>5, <4>6 DEF ReadyForProcess, Later
        <4>8. b - 1 > Unstarted
          BY <1>1, <4>1, SpecialTimestamps
        <4>9. b - 1 <= last_processed_ts
          BY <1>1, <4>6, <4>7, <4>8 DEF Later
        <4>10. last_processed_ts < time
          BY <1>1, <4>6 DEF After
        <4> QED
          BY <1>1, <3>1, <4>6, <4>9, <4>10
      <3> QED
        BY <3>2, <3>3
    <2> QED
      BY <1>1, <2>5, <2>6
  <1> QED
    BY <1>2, <1>4, <1>5

\* The bound that is about to be announced is not later than what may come.
LEMMA NotReadyAnnounce ==
    ASSUME NodeInv, EmptyInv, BatchOrderInv, AnnounceInv, NEW t \in Threads, UNCHANGED configVars, ~Parallel,
           Decide(t), NotReady(t)
    PROVE  AnnounceInv'
  <1>1. /\ pc[t] = "scan" /\ loc[t].i \notin Streams
        /\ UNCHANGED <<max_in_flight, process_timestamps, out_bound, mirror_bound, mirror_refused>>
        /\ UNCHANGED <<batch, last_processed_ts, queue, next_timestamp_bound>>
        /\ ~ReadyForClose(loc[t].min_packet, loc[t].min_bound)
        /\ ~ReadyForProcess(loc[t].min_packet, loc[t].min_bound)
    BY DEF Decide, NotReady, outVars, inputVars, configVars, streamVars, queueVars, boundVars
  <1>2. /\ Moves(t) /\ pc'[t] = "bound"
        /\ loc'[t].timestamp = IF batch_size > 1 /\ batch # <<>> THEN Head(batch)
                               ELSE MinStreamTimestamp(loc[t].min_packet, loc[t].min_bound)
    BY NotReadyEffect
  <1>3. /\ \A u \in Threads \ {t} : pc'[u] \notin {"scan", "bound"}
        /\ \A w \in Workers : pc'[w] # "post"
    BY <1>1, <1>2, DecidesAlone DEF Labels, LoopLabels
  <1>4. \A time : MayCome(time)' <=> MayCome(time)
    BY <1>1 DEF MayCome, After, Passed, MinTimestampOrBound
  <1>5. mirror_refused' = {} /\ mirror_bound' = out_bound' /\ FitsNext(out_bound)'
    BY <1>1, <1>4 DEF AnnounceInv, FitsNext, Fits
  <1>6. status # "Closed"
    <2> SUFFICES ASSUME status = "Closed" PROVE FALSE
      OBVIOUS
    <2>1. prepared_context_for_close
      BY DEF NodeInv, ClosingInv
    <2>2. loc[t].min_packet = Done /\ loc[t].min_bound >= OneOverPostStream /\ loc[t].min_bound \in Int
      BY <1>1, <2>1, ScanFacts
    <2>3. ReadyForClose(loc[t].min_packet, loc[t].min_bound)
      BY <2>2, SpecialTimestamps DEF ReadyForClose, MinStreamTimestamp, Earlier
    <2> QED
      BY <1>1, <2>3
  <1>7. BoundOk(t)'
    <2>1. CASE batch # <<>>
      <3>1. Len(batch) < batch_size /\ batch \in Seq(Timestamps) /\ batch_size \in Nat
        BY <1>1, <1>6, ScanBatch
      <3>2. Len(batch) >= 1
        BY <2>1, <3>1
      <3>3. batch_size > 1 /\ batch # <<>>
        BY <2>1, <3>1, <3>2
      <3> QED
        BY <1>1, <1>2, <2>1, <3>3 DEF BoundOk
    <2>2. CASE batch = <<>>
      <3>1. PICK p \in Timestamps, b \in Timestamps : p = loc[t].min_packet /\ b = loc[t].min_bound
        BY <1>1, ScanComplete
      <3>2. loc'[t].timestamp = MinStreamTimestamp(p, b)
        BY <1>2, <2>2, <3>1
      <3>3. ASSUME IsRangeValue(loc'[t].timestamp), NEW time \in Timestamps, MayCome(time)
            PROVE  loc'[t].timestamp <= time
        BY <1>1, <3>1, <3>2, <3>3, NotReadyBound
      <3> QED
        BY <1>1, <1>4, <2>2, <3>3 DEF BoundOk
    <2> QED
      BY <2>1, <2>2
  <1>8. \A u \in Threads : BoundOk(u)' /\ ScanOk(u)'
    <2>1. ScanOk(t)'
      BY <1>2 DEF ScanOk
    <2>2. \A u \in Threads \ {t} : BoundOk(u)' /\ ScanOk(u)'
      BY <1>3 DEF BoundOk, ScanOk
    <2> QED
      BY <1>7, <2>1, <2>2
  <1>9. \A w \in Workers : PostOk(w)'
    BY <1>3 DEF PostOk
  <1> QED
    BY <1>5, <1>8, <1>9 DEF AnnounceInv

\* Nobody looks at bounds while such a node runs an invocation.
LEMMA RunsAlone ==
    ASSUME NodeInv, ~Parallel, NEW w \in Workers, pc[w] \in TaskLabels \ {"end"}, Moves(w),
           pc'[w] \notin {"scan", "bound"}
    PROVE  /\ \A t \in Threads : BoundOk(t)' /\ ScanOk(t)'
           /\ \A u \in Workers : pc'[u] = "post" => u = w
  <1>1. /\ current_in_flight = 1 /\ w \in Threads
        /\ \A u \in Workers \ {w} : ~InTask(u) /\ u \in Threads
        /\ \A t \in Threads : pc[t] \notin {"scan", "fill", "schedule"}
    BY SequentialAlone, NodeTypes
  <1>2. \A t \in Threads : pc[t] # "bound"
    BY <1>1 DEF NodeInv, CountInv
  <1>3. \A t \in Threads : pc'[t] \notin {"scan", "bound"}
    BY <1>1, <1>2 DEF Moves
  <1>4. \A u \in Workers : pc'[u] = "post" => u = w
    BY <1>1 DEF Moves, InTask
  <1> QED
    BY <1>3, <1>4 DEF BoundOk, ScanOk

\* An invocation puts out what Process() may put out at its timestamp.
LEMMA ProcessAnnounce ==
    ASSUME NodeInv, NodeInv', BatchOrderInv, OutTypes, AnnounceInv, NEW w \in Workers, UNCHANGED configVars,
           ~Parallel, Process(w)
    PROVE  AnnounceInv'
  <1>1. /\ pc[w] = "process" /\ Moves(w)
        /\ UNCHANGED <<last_processed_ts, process_timestamps, max_in_flight, streamVars>>
        /\ UNCHANGED <<out_bound, mirror_bound, mirror_refused>>
    BY ProcessEffect DEF Process, outVars, inputVars, configVars
  <1>2. /\ w \in Threads /\ batch # <<>> /\ TurnTimestamp(w) = Head(batch)
        /\ loc[w].context = Done /\ batch \in Seq(Timestamps)
    BY <1>1, SequentialTurn
  <1>3. CASE Head(batch) = Done
    <2>1. pc'[w] = "close" /\ batch' = batch /\ shard' = shard
      BY <1>2, <1>3, ProcessEffect DEF Process, Default
    <2>2. KeepsAnnounce(w)
      BY <1>1, <1>2, <2>1 DEF KeepsAnnounce, configVars
    <2> QED
      BY <1>1, <1>2, <2>2, AnnounceKept
  <1>4. CASE Head(batch) # Done
    <2>1. pc'[w] = "post" /\ loc'[w].timestamp = Head(batch)
      BY <1>2, <1>4, ProcessEffect
    <2>2. /\ batch' = Tail(batch)
          /\ \E output \in ProcessOutputs(Head(batch)) : shard' = [shard EXCEPT ![Done] = output]
      BY <1>2, <1>4 DEF Process, Default
    <2>3. shard'[Done] \in ProcessOutputs(Head(batch))
      BY <2>2, NoLocalsType DEF OutTypes
    <2>4. Fits(out_bound, Head(batch)) /\ mirror_refused = {} /\ mirror_bound = out_bound
      BY <1>2 DEF AnnounceInv, FitsNext
    <2>5. PostOk(w)'
      BY <1>1, <2>1, <2>3, <2>4 DEF PostOk, ProcessOutputs, MaySend, Fits, configVars
    <2>6. /\ Head(batch) \in Timestamps /\ BatchGrows' /\ batch' \in Seq(Timestamps)
          /\ IF batch' = <<>> THEN Head(batch) <= last_processed_ts ELSE Head(batch) < Head(batch')
      BY <1>1, <1>2, <1>4, <2>2, TailGrows DEF BatchOrderInv
    <2>7. FitsNext(out_bound)'
      <3>1. out_bound \in Timestamps /\ Head(batch) \in Int
        BY <2>6, SpecialTimestamps DEF OutTypes
      <3>2. CASE batch' # <<>>
        <4>1. Head(batch') \in Timestamps
          BY <2>6, <3>2
        <4>2. Head(batch) <= Head(batch')
          <5>1. Head(batch) < Head(batch')
            BY <2>6, <3>2
          <5>2. Head(batch') \in Int
            BY <4>1, SpecialTimestamps
          <5>3. PICK h, k : h = Head(batch) /\ k = Head(batch')
            OBVIOUS
          <5>4. h \in Int /\ k \in Int /\ h < k => h <= k
            OBVIOUS
          <5> QED
            BY <3>1, <5>1, <5>2, <5>3, <5>4, Zenon
        <4>3. Fits(out_bound, Head(batch'))
          BY <2>4, <2>6, <3>1, <4>1, <4>2, FitsLater
        <4> QED
          BY <1>1, <3>2, <4>3 DEF FitsNext, Fits
      <3>3. CASE batch' = <<>>
        <4> SUFFICES ASSUME NEW time \in Timestamps, MayCome(time)' PROVE Fits(out_bound, time)
          BY <1>1, <3>3 DEF FitsNext, Fits
        <4>1. time > last_processed_ts /\ time \in Int /\ last_processed_ts \in Int
          BY <1>1, NodeTypes, SpecialTimestamps DEF MayCome, After
        <4>2. Head(batch) <= time
          BY <2>6, <3>1, <3>3, <4>1
        <4> QED
          BY <2>4, <2>6, <3>1, <4>2, FitsLater
      <3> QED
        BY <3>2, <3>3
    <2>8. /\ \A t \in Threads : BoundOk(t)' /\ ScanOk(t)'
          /\ \A u \in Workers : pc'[u] = "post" => u = w
      BY <1>1, <2>1, RunsAlone DEF TaskLabels
    <2> QED
      BY <1>1, <2>4, <2>5, <2>7, <2>8 DEF AnnounceInv, PostOk
  <1> QED
    BY <1>3, <1>4

\* The bound after an input timestamp is one more.
LEMMA NextOfAllowed ==
    ASSUME NEW time \in Timestamps, IsAllowedInStream(time)
    PROVE  /\ InputBound(time) = time + 1 /\ time + 1 \in Timestamps /\ Unset < time
           /\ time \notin {PreStream, RangeMax} => NextAllowedInStream(time) = time + 1
  BY RangeAssumption DEF Timestamps, IsAllowedInStream, InputBound, NextAllowedInStream, Plus,
     Unset, PreStream, PostStream, OneOverPostStream, Done

\* A bound that is sent without a packet.
LEMMA SendsBound ==
    ASSUME NEW bound \in Int, bound # Unset, mirror_refused = {}, mirror_bound = out_bound,
           out_bound \in Int, out_bound <= bound, PropagateUpdatesToMirrors(bound, <<>>)
    PROVE  out_bound' = bound /\ mirror_bound' = bound /\ mirror_refused' = {}
  <1>1. ~(bound < mirror_bound) /\ Later(mirror_bound, bound) = bound
    BY DEF Later
  <1>2. out_bound' = bound
    BY DEF PropagateUpdatesToMirrors
  <1>3. mirror_bound' = Later(mirror_bound, bound)
    BY DEF PropagateUpdatesToMirrors
  <1>4. mirror_refused' =
              mirror_refused
              \cup {r \in {"packet"} : FALSE}
              \cup {r \in {"bound"} : bound < mirror_bound /\ mirror_bound # Done}
              \cup {r \in {"bound after close"} : bound < mirror_bound /\ mirror_bound = Done}
    BY Zenon DEF PropagateUpdatesToMirrors
  <1> QED
    BY <1>1, <1>2, <1>3, <1>4

\* A packet that is sent with the bound that follows from it.
LEMMA SendsPacket ==
    ASSUME NEW q \in Timestamps, NEW bound \in Int, bound # Unset, mirror_refused = {}, mirror_bound = out_bound,
           out_bound \in Int, out_bound <= q, NextAllowedInStream(q) = bound,
           q = PostStream => ~mirror_got_packet, PropagateUpdatesToMirrors(bound, <<q>>)
    PROVE  out_bound' = bound /\ mirror_bound' = bound /\ mirror_refused' = {}
  <1>1. <<q>>[1] = q /\ <<q>> # <<>> /\ q \in Int
    BY SpecialTimestamps
  <1>2. ~MirrorRefuses(q)
    BY <1>1 DEF MirrorRefuses
  <1> QED
    BY <1>1, <1>2 DEF PropagateUpdatesToMirrors, Later

\* The outputs of an invocation are accepted, and what they announce fits every
\* later timestamp.
LEMMA PostSends ==
    ASSUME NEW time \in Timestamps, IsAllowedInStream(time), NEW output,
           output \in ProcessOutputs(time), out_bound \in Timestamps, Fits(out_bound, time),
           mirror_refused = {}, mirror_bound = out_bound, PostIsLast,
           PropagateUpdatesToMirrors(ComputeOutputTimestampBound(output, time), output.packets)
    PROVE  /\ mirror_refused' = {} /\ mirror_bound' = out_bound'
           /\ \/ out_bound' = out_bound
              \/ \A later \in Timestamps : later > time => Fits(out_bound', later)
  <1>1. PICK x : x = out_bound
    OBVIOUS
  <1>2. /\ x \in Int /\ time \in Int /\ InputBound(time) = time + 1 /\ Unset \in Int /\ Unset < time
        /\ \A u \in Timestamps : u \in Int
        /\ \A a \in Announced : a \in Int /\ a \in Timestamps
    BY <1>1, SpecialTimestamps, NextOfAllowed, NodeAssumption
  <1>3. CASE output = [NoShard EXCEPT !.bound = out_bound]
    <2>1. output = [bound |-> x, updated |-> Unset, packets |-> <<>>]
      BY <1>1, <1>3 DEF NoShard
    <2>2. output.bound = x /\ output.updated = Unset /\ output.packets = <<>>
      BY <2>1
    <2>3. CASE time + 1 > x
      <3>1. ComputeOutputTimestampBound(output, time) = time + 1
        BY <1>2, <2>2, <2>3 DEF ComputeOutputTimestampBound, Later
      <3>2. PropagateUpdatesToMirrors(time + 1, <<>>)
        BY <2>2, <3>1
      <3>3. time + 1 \in Int /\ time + 1 # Unset /\ out_bound <= time + 1
        BY <1>1, <1>2, <2>3
      <3>4. out_bound' = time + 1 /\ mirror_bound' = time + 1 /\ mirror_refused' = {}
        BY <1>1, <1>2, <3>2, <3>3, SendsBound
      <3> QED
        BY <1>2, <3>4 DEF Fits
    <2>4. CASE ~(time + 1 > x)
      <3>1. ComputeOutputTimestampBound(output, time) = Unset
        BY <1>2, <2>2, <2>4 DEF ComputeOutputTimestampBound, Later
      <3>2. PropagateUpdatesToMirrors(Unset, <<>>)
        BY <2>2, <3>1
      <3> QED
        BY <3>2 DEF PropagateUpdatesToMirrors
    <2> QED
      BY <2>3, <2>4
  <1>4. ASSUME NEW q \in MaySend(time),
               output = [bound |-> NextAllowedInStream(q), updated |-> NextAllowedInStream(q),
                         packets |-> <<q>>]
        PROVE  /\ mirror_refused' = {} /\ mirror_bound' = out_bound'
               /\ \A later \in Timestamps : later > time => Fits(out_bound', later)
    <2>1. /\ q = time /\ time \notin {PreStream, RangeMax} /\ \A a \in Announced : a <= time
          /\ time = PostStream => sends_post_stream
      BY <1>4 DEF MaySend
    <2>2. NextAllowedInStream(time) = time + 1
      BY <2>1, NextOfAllowed
    <2>3. output.bound = time + 1 /\ output.updated = time + 1 /\ output.packets = <<time>>
      BY <1>4, <2>1, <2>2
    <2>4. output.packets # <<>> /\ output.packets[1] = time
      BY <2>3
    <2>5. ComputeOutputTimestampBound(output, time) = time + 1
      BY <1>2, <2>2, <2>3, <2>4 DEF ComputeOutputTimestampBound, Later
    <2>6. out_bound <= time
      BY <1>1, <1>2, <2>1 DEF Fits
    <2>7. PropagateUpdatesToMirrors(time + 1, <<time>>)
      BY <2>3, <2>5
    <2>8. time + 1 \in Int /\ time + 1 # Unset
      BY <1>2
    <2>9. time = PostStream => ~mirror_got_packet
      BY <1>1, <1>2, <2>1, <2>6 DEF PostIsLast
    <2>10. out_bound' = time + 1 /\ mirror_bound' = time + 1 /\ mirror_refused' = {}
      BY <1>1, <1>2, <2>2, <2>6, <2>7, <2>8, <2>9, SendsPacket
    <2> QED
      BY <1>2, <2>10 DEF Fits
  <1>5. ASSUME NEW a \in MayAnnounce(time), output = [bound |-> a, updated |-> a, packets |-> <<>>]
        PROVE  /\ mirror_refused' = {} /\ mirror_bound' = out_bound'
               /\ \A later \in Timestamps : later > time => Fits(out_bound', later)
    <2>1. a \in Announced /\ a > time /\ \A c \in Announced : c > time => a <= c
      BY <1>5 DEF MayAnnounce
    <2>2. output.bound = a /\ output.updated = a /\ output.packets = <<>>
      BY <1>5
    <2>3. a \in Int /\ a # Unset /\ ~(time + 1 > a) /\ Unset <= a
      BY <1>2, <2>1
    <2>4. ComputeOutputTimestampBound(output, time) = a
      BY <1>2, <2>2, <2>3 DEF ComputeOutputTimestampBound, Later
    <2>5. out_bound <= a
      BY <1>1, <1>2, <2>1, <2>3 DEF Fits
    <2>6. PropagateUpdatesToMirrors(a, <<>>)
      BY <2>2, <2>4
    <2>7. out_bound' = a /\ mirror_bound' = a /\ mirror_refused' = {}
      BY <1>1, <1>2, <2>3, <2>5, <2>6, SendsBound
    <2>8. ASSUME NEW later \in Timestamps, later > time PROVE Fits(a, later)
      <3>1. \A c \in Announced : c > later => a <= c
        BY <1>2, <2>1, <2>8
      <3> QED
        BY <2>1, <3>1 DEF Fits
    <2> QED
      BY <2>7, <2>8
  <1> QED
    BY <1>3, <1>4, <1>5 DEF ProcessOutputs

\* The outputs of an invocation are sent before the next timestamp is taken.
LEMMA TurnAnnounce ==
    ASSUME NodeInv, NodeInv', BatchOrderInv, OutTypes, PostIsLast, AnnounceInv, NEW w \in Workers,
           UNCHANGED configVars, ~Parallel, PostProcess(w)
    PROVE  AnnounceInv'
  <1>1. /\ pc[w] = "post" /\ TakesTurn(w) /\ PropagateOutputPackets(Done, loc[w].timestamp)
        /\ UNCHANGED <<batch, last_processed_ts, process_timestamps, max_in_flight, streamVars>>
    BY DEF PostProcess, TakesTurn, Default, inputVars, configVars
  <1>2. /\ mirror_refused = {} /\ mirror_bound = out_bound
        /\ FitsNext(out_bound) /\ PostOk(w) /\ PostOrder(w)
    BY DEF AnnounceInv, BatchOrderInv
  <1>3. PICK time : time = loc[w].timestamp
    OBVIOUS
  <1>4. /\ w \in Threads /\ time \in Timestamps /\ IsAllowedInStream(time)
        /\ shard[Done] \in ProcessOutputs(time) /\ Fits(out_bound, time)
        /\ IF batch = <<>> THEN time <= last_processed_ts ELSE time < Head(batch)
        /\ batch \in Seq(Timestamps) /\ last_processed_ts \in Timestamps
    BY <1>1, <1>2, <1>3, NodeTypes DEF PostOk, PostOrder
  <1>5. PropagateUpdatesToMirrors(ComputeOutputTimestampBound(shard[Done], time), shard[Done].packets)
    BY <1>1, <1>3 DEF PropagateOutputPackets
  <1>6. /\ mirror_refused' = {} /\ mirror_bound' = out_bound'
        /\ \/ out_bound' = out_bound
           \/ \A later \in Timestamps : later > time => Fits(out_bound', later)
    BY <1>2, <1>4, <1>5, PostSends DEF OutTypes
  <1>7. \A c : MayCome(c)' <=> MayCome(c)
    BY <1>1 DEF MayCome, After, Passed, MinTimestampOrBound, streamVars, queueVars, boundVars
  <1>8. FitsNext(out_bound)'
    <2>1. CASE out_bound' = out_bound
      BY <1>1, <1>2, <1>7, <2>1 DEF FitsNext, Fits
    <2>2. CASE \A later \in Timestamps : later > time => Fits(out_bound', later)
      <3>1. CASE batch # <<>>
        <4>1. Head(batch) \in Timestamps /\ Head(batch) > time
          BY <1>4, <3>1, SpecialTimestamps
        <4>2. Fits(out_bound', Head(batch))
          BY <2>2, <4>1
        <4> QED
          BY <1>1, <3>1, <4>2 DEF FitsNext, Fits
      <3>2. CASE batch = <<>>
        <4> SUFFICES ASSUME NEW later \in Timestamps, MayCome(later) PROVE Fits(out_bound', later)
          BY <1>1, <1>7, <3>2 DEF FitsNext, Fits
        <4>1. later > last_processed_ts /\ time <= last_processed_ts
          BY <1>4, <3>2 DEF MayCome, After
        <4>2. later > time
          BY <1>4, <4>1, SpecialTimestamps
        <4> QED
          BY <2>2, <4>2
      <3> QED
        BY <3>1, <3>2
    <2> QED
      BY <1>6, <2>1, <2>2
  <1>9. Moves(w) /\ pc'[w] \in {"process", "end"}
    BY <1>1, TurnEffect
  <1>10. /\ \A t \in Threads : BoundOk(t)' /\ ScanOk(t)'
         /\ \A u \in Workers : pc'[u] = "post" => u = w
    BY <1>1, <1>9, RunsAlone DEF TaskLabels
  <1> QED
    BY <1>6, <1>8, <1>9, <1>10 DEF AnnounceInv, PostOk

\* A bound is announced while nobody processes.
LEMMA UpdateAnnounce ==
    ASSUME NodeInv, NodeInv', OutTypes, AnnounceInv, NEW t \in Threads, UNCHANGED configVars, Moves(t),
           ~Parallel, UpdateTaskTimestampBound(t)
    PROVE  AnnounceInv'
  <1>1. /\ pc[t] = "bound" /\ pc'[t] = "recheck"
        /\ IF BoundIsNews(loc[t].timestamp) THEN PropagateUpdatesToMirrors(loc[t].timestamp, <<>>)
           ELSE UNCHANGED outVars
        /\ UNCHANGED <<batch, last_processed_ts, process_timestamps, max_in_flight, streamVars, shard>>
    BY NodeTypes, ThreadFacts DEF UpdateTaskTimestampBound, Goto, contextVars, inputVars, configVars
  <1>2. /\ mirror_refused = {} /\ mirror_bound = out_bound
        /\ \A u \in Threads : BoundOk(u) /\ ScanOk(u)
    BY DEF AnnounceInv
  <1>3. StreamsGrow
    BY <1>1, SameStreams, OffersGrow
  <1>4. CASE ~BoundIsNews(loc[t].timestamp)
    <2>1. KeepsAnnounce(t)
      BY <1>1, <1>3, <1>4 DEF KeepsAnnounce, outVars, configVars
    <2> QED
      BY <2>1, AnnounceKept
  <1>5. CASE BoundIsNews(loc[t].timestamp)
    <2>1. PICK bound : bound = loc[t].timestamp
      OBVIOUS
    <2>2. IsRangeValue(bound) /\ bound > out_bound /\ bound \in Timestamps
      BY <1>5, <2>1, NodeTypes DEF BoundIsNews
    <2>3. bound \in Int /\ out_bound \in Int /\ out_bound <= bound /\ bound # Unset
      BY <2>2, SpecialTimestamps, RangeAssumption DEF OutTypes, IsRangeValue, Unset, Timestamps
    <2>4. out_bound' = bound /\ mirror_bound' = bound /\ mirror_refused' = {}
      BY <1>1, <1>2, <1>5, <2>1, <2>3, SendsBound
    <2>5. BoundOk(t)
      BY <1>2
    <2>6. FitsNext(out_bound)'
      <3>1. CASE batch # <<>>
        <4>1. bound = Head(batch)
          BY <1>1, <2>1, <2>2, <2>5, <3>1 DEF BoundOk
        <4>2. bound <= Head(batch)
          BY <2>3, <4>1
        <4> QED
          BY <1>1, <2>4, <3>1, <4>2 DEF FitsNext, Fits
      <3>2. CASE batch = <<>>
        <4>1. \A later \in Timestamps : MayCome(later) => bound <= later
          BY <1>1, <2>1, <2>2, <2>5, <3>2 DEF BoundOk
        <4>2. \A c : MayCome(c)' <=> MayCome(c)
          BY <1>1 DEF MayCome, After, Passed, MinTimestampOrBound, streamVars, queueVars, boundVars
        <4> QED
          BY <1>1, <2>4, <3>2, <4>1, <4>2 DEF FitsNext, Fits
      <3> QED
        BY <3>1, <3>2
    <2>7. \A w \in Workers : pc[w] # "post" /\ w \in Threads
      <3> SUFFICES ASSUME NEW w \in Workers, pc[w] = "post" PROVE FALSE
        BY NodeTypes
      <3>1. current_in_flight = 1
        BY SequentialAlone DEF TaskLabels
      <3>2. current_in_flight = 0
        BY <1>1 DEF NodeInv, CountInv
      <3> QED
        BY <3>1, <3>2
    <2>8. \A u \in Threads \ {t} : pc[u] \notin {"scan", "bound"}
      BY <1>1, OthersOutside DEF LoopLabels
    <2>9. /\ \A u \in Threads : pc'[u] \notin {"scan", "bound"}
          /\ \A w \in Workers : pc'[w] # "post"
      BY <1>1, <2>7, <2>8 DEF Moves
    <2> QED
      BY <2>4, <2>6, <2>9 DEF AnnounceInv, PostOk, BoundOk, ScanOk
  <1> QED
    BY <1>4, <1>5

\* The last bound of a stream fits everything that may come: nothing.
LEMMA CloseOutputsAnnounce ==
    ASSUME NodeInv, NodeInv', OutTypes, AnnounceInv, NEW w \in Workers, UNCHANGED configVars, Moves(w),
           ~Parallel, CloseOutputStreams(w)
    PROVE  AnnounceInv'
  <1>1. /\ pc[w] = "close_outputs" /\ pc'[w] = "closed" /\ w \in Threads
        /\ PropagateUpdatesToMirrors(Done, <<>>)
        /\ UNCHANGED <<batch, last_processed_ts, process_timestamps, max_in_flight, streamVars, shard>>
    BY NodeTypes, ThreadFacts DEF CloseOutputStreams, Goto, contextVars, inputVars, configVars
  <1>2. mirror_refused = {} /\ mirror_bound = out_bound
    BY DEF AnnounceInv
  <1>3. batch = <<Done>>
    BY <1>1 DEF NodeInv, BatchInv, RunsBatch
  <1>4. Done \in Int /\ Done # Unset /\ out_bound \in Int /\ out_bound <= Done
    BY SpecialTimestamps, RangeAssumption DEF OutTypes, Timestamps, Done, Unset
  <1>5. out_bound' = Done /\ mirror_bound' = Done /\ mirror_refused' = {}
    BY <1>1, <1>2, <1>4, SendsBound
  <1>6. FitsNext(out_bound)'
    BY <1>1, <1>3, <1>4, <1>5 DEF FitsNext, Fits
  <1>7. /\ \A t \in Threads : BoundOk(t)' /\ ScanOk(t)'
        /\ \A u \in Workers : pc'[u] = "post" => u = w
    BY <1>1, RunsAlone DEF TaskLabels
  <1> QED
    BY <1>1, <1>5, <1>6, <1>7 DEF AnnounceInv, PostOk

\* Every step keeps what is announced in time.
LEMMA NodeAnnounce ==
    ASSUME NodeInv, NodeInv', CloseInv, BatchOrderInv, EmptyInv, OutTypes, PostIsLast, AnnounceInv,
           NEW t \in Threads, UNCHANGED configVars, StepOf(t)
    PROVE  AnnounceInv'
  <1>1. Moves(t) /\ Parallel' = Parallel
    BY NodePlaces DEF StepOf, configVars, Parallel
  <1> SUFFICES ASSUME ~Parallel PROVE AnnounceInv'
    BY <1>1 DEF AnnounceInv
  <1>2. CASE Bystands(t)
    BY <1>1, <1>2, BystandsAnnounce
  <1>3. CASE ScanStream(t)
    BY <1>3, ScanAnnounce
  <1>4. CASE Decide(t)
    <2>1. CASE NotReady(t)
      BY <1>4, <2>1, NotReadyAnnounce
    <2>2. CASE PrepareContext(t)
      BY <1>4, <2>2, PrepareContextAnnounce
    <2>3. CASE PrepareClose(t)
      BY <1>4, <2>3, PrepareCloseAnnounce
    <2> QED
      BY <1>4, <2>1, <2>2, <2>3 DEF Decide
  <1>5. CASE t \in Workers /\ Process(t)
    BY <1>5, ProcessAnnounce
  <1>6. CASE t \in Workers /\ PostProcess(t)
    BY <1>6, TurnAnnounce
  <1>7. CASE t \in Workers /\ CloseOutputStreams(t)
    BY <1>1, <1>7, CloseOutputsAnnounce
  <1>8. CASE UpdateTaskTimestampBound(t)
    BY <1>1, <1>8, UpdateAnnounce
  <1>9. ~OutputStep(t) \/ UpdateTaskTimestampBound(t)
    BY SequentialPlaces DEF OutputStep
  <1> QED
    BY <1>2, <1>3, <1>4, <1>5, <1>6, <1>7, <1>8, <1>9 DEF StepOf, ThreadStep, LoopStep, WorkerStep, Bystands

-----------------------------------------------------------------------------
(* Together they are inductive.                                            *)

ServesInv ==
    /\ NodeInv /\ WayInv /\ CloseInv /\ ReadinessInv
    /\ OutTypes /\ PostInv /\ BatchOrderInv /\ EmptyInv /\ AnnounceInv

\* It holds at first ...
LEMMA ServesInvInit == Init => ServesInv
  <1> SUFFICES ASSUME Init PROVE ServesInv
    OBVIOUS
  <1>1. NodeInv
    BY NodeInvInit
  <1>2. /\ status = "Prepared" /\ prepared_context_for_close = FALSE /\ active_contexts = {}
        /\ batch = <<>> /\ mirror_refused = {} /\ out_bound = PreStream /\ mirror_bound = PreStream
    BY DEF Init
  <1>3. \A t \in Threads : pc[t] \in {"produce", "free"}
    BY DEF Init, Home
  <1>4. \A w \in Workers : w \in Threads
    BY <1>1, NodeTypes
  <1>5. WayInv
    BY <1>2 DEF WayInv, FrontWaits
  <1>6. CloseInv /\ ReadinessInv
    BY <1>2 DEF CloseInv, ReadinessInv
  <1>7. OutTypes
    <2>1. NoShard \in Shards
      BY NoLocalsType DEF NoShard, Shards
    <2>2. PreStream \in Timestamps
      BY SpecialTimestamps
    <2> QED
      BY <1>2, <2>1, <2>2 DEF Init, OutTypes
  <1>11. PostInv
    BY DEF Init, PostInv, PacketsFit, PostIsLast, NoShard
  <1>8. BatchOrderInv
    <2>1. Len(<<>>) = 0
      OBVIOUS
    <2>2. BatchGrows
      BY <1>2, <2>1 DEF BatchGrows
    <2>3. batch_size > 0 /\ batch_size \in Int
      BY <1>1 DEF NodeInv, ConfigInv
    <2>4. BatchFits
      BY <1>2, <2>1, <2>3 DEF BatchFits
    <2>5. BatchRuns
      BY <1>2 DEF BatchRuns
    <2>6. \A w \in Workers : PostOrder(w)
      BY <1>3, <1>4 DEF PostOrder
    <2> QED
      BY <2>2, <2>4, <2>5, <2>6 DEF BatchOrderInv
  <1>9. EmptyInv
    BY <1>3 DEF EmptyInv, EmptyBounds
  <1>10. AnnounceInv
    <2>1. FitsNext(out_bound)
      BY <1>2 DEF FitsNext, Fits, MayCome, After, IsAllowedInStream
    <2>2. \A t \in Threads : BoundOk(t) /\ ScanOk(t)
      BY <1>3 DEF BoundOk, ScanOk
    <2>3. \A w \in Workers : PostOk(w)
      BY <1>3, <1>4 DEF PostOk
    <2> QED
      BY <1>2, <2>1, <2>2, <2>3 DEF AnnounceInv
  <1> QED
    BY <1>1, <1>5, <1>6, <1>7, <1>8, <1>9, <1>10, <1>11 DEF ServesInv

\* ... and after every step.
LEMMA ServesInvStep == ServesInv /\ Next => ServesInv'
  <1> SUFFICES ASSUME ServesInv, Next PROVE ServesInv'
    OBVIOUS
  <1>1. /\ NodeInv /\ WayInv /\ CloseInv /\ ReadinessInv
        /\ OutTypes /\ PostInv /\ BatchOrderInv /\ EmptyInv /\ AnnounceInv
    BY DEF ServesInv
  <1>2. UNCHANGED configVars
    BY DEF Next
  <1>3. PICK t \in Threads : StepOf(t)
    BY DEF Next, StepOf, Threads
  <1>4. NodeInv'
    BY <1>1, NodeInvStep
  <1>5. WayInv' /\ CloseInv' /\ ReadinessInv'
    BY <1>1, <1>2, <1>3, <1>4, NodeWay, NodeClose, NodeReadiness
  <1>6. OutTypes' /\ BatchOrderInv' /\ EmptyInv'
    BY <1>1, <1>2, <1>3, NodeOutTypes, NodeOrder, NodeEmpty
  <1>7. PostInv'
    BY <1>1, <1>2, <1>3, NodePost
  <1>8. AnnounceInv'
    BY <1>1, <1>2, <1>3, <1>4, NodeAnnounce DEF PostInv
  <1> QED
    BY <1>4, <1>5, <1>6, <1>7, <1>8 DEF ServesInv

\* A step that changes nothing.
LEMMA ServesInvStutter == ServesInv /\ UNCHANGED vars => ServesInv'
  <1> SUFFICES ASSUME ServesInv, UNCHANGED vars PROVE ServesInv'
    OBVIOUS
  <1>0. /\ NodeInv /\ WayInv /\ CloseInv /\ ReadinessInv
        /\ OutTypes /\ PostInv /\ BatchOrderInv /\ EmptyInv /\ AnnounceInv
    BY DEF ServesInv
  <1>1. /\ UNCHANGED <<streamVars, configVars, schedVars, inputVars, contextVars, propVars>>
        /\ UNCHANGED <<outVars, failed, pc, loc>>
    BY DEF vars, nodeVars
  <1>2. /\ UNCHANGED <<status, scheduling_state, current_in_flight, scheduled>>
        /\ UNCHANGED <<last_processed_ts, prepared_context_for_close, active_contexts, batch, shard>>
        /\ UNCHANGED <<completed_input_timestamps, task_timestamp_bound, propagation_state>>
        /\ UNCHANGED <<max_in_flight, batch_size, process_timestamps, enable_timestamps>>
        /\ UNCHANGED <<sends_post_stream, mirror_got_packet>>
        /\ UNCHANGED <<queue, next_timestamp_bound, out_bound, mirror_bound, mirror_refused>>
    BY <1>1 DEF streamVars, queueVars, boundVars, configVars, schedVars, inputVars, contextVars,
                propVars, outVars
  <1>3. NodeInv'
    BY <1>0, NodeInvStutter
  <1>4. WayInv'
    BY <1>0, <1>1, <1>2 DEF WayInv, FrontWaits, OnItsWay, Claims
  <1>5. CloseInv'
    BY <1>0, <1>1, <1>2 DEF CloseInv, EndsWithDone, RunsDefault
  <1>6. ReadinessInv'
    <2>1. ReadyNow' <=> ReadyNow
      BY <1>2, SameReadiness DEF SeesSame
    <2>2. \A t \in Threads : WillLook(t)' <=> WillLook(t)
      BY <1>1, <1>2 DEF WillLook, Exact
    <2> QED
      BY <1>0, <1>2, <2>1, <2>2 DEF ReadinessInv
  <1>7. OutTypes'
    BY <1>0, <1>2 DEF OutTypes
  <1>8. BatchOrderInv'
    BY <1>0, <1>1, <1>2 DEF BatchOrderInv, BatchGrows, BatchFits, BatchRuns, PostOrder, Parallel
  <1>9. EmptyInv'
    BY <1>0, <1>1, <1>2 DEF EmptyInv, EmptyBounds
  <1>10. AnnounceInv'
    <2>1. \A c : (MayCome(c)' <=> MayCome(c)) /\ (After(c)' <=> After(c))
                 /\ \A b : Passed(c, b)' <=> Passed(c, b)
      BY <1>2 DEF MayCome, After, Passed, MinTimestampOrBound
    <2>2. FitsNext(out_bound)' <=> FitsNext(out_bound)
      BY <1>2, <2>1 DEF FitsNext, Fits
    <2>3. \A t \in Threads : BoundOk(t)' <=> BoundOk(t)
      BY <1>1, <1>2, <2>1 DEF BoundOk
    <2>4. \A t \in Threads : ScanOk(t)' <=> ScanOk(t)
      BY <1>1, <1>2, <2>1 DEF ScanOk, Fits, After, Passed
    <2>5. \A w \in Workers : PostOk(w)' <=> PostOk(w)
      BY <1>1, <1>2 DEF PostOk, ProcessOutputs, MaySend, Fits
    <2> QED
      BY <1>0, <1>2, <2>2, <2>3, <2>4, <2>5 DEF AnnounceInv, Parallel
  <1>11. PostInv'
    BY <1>0, <1>2 DEF PostInv, PacketsFit, PostIsLast
  <1> QED
    BY <1>3, <1>4, <1>5, <1>6, <1>7, <1>8, <1>9, <1>10, <1>11 DEF ServesInv

\* It holds throughout.
LEMMA ServesInvHolds == Spec => []ServesInv
  <1>1. Init => ServesInv
    BY ServesInvInit
  <1>2. ServesInv /\ [Next]_vars => ServesInv'
    BY ServesInvStep, ServesInvStutter
  <1> QED
    BY <1>1, <1>2, PTL DEF Spec

\* Whatever the threads do and in whichever order they are interrupted, the node
\* never comes to rest with an input set it could process, or with ended inputs
\* it could close on: a notification that meets a running loop is never lost.
THEOREM NoNotificationIsLost == Spec => []NoLostReadiness
  <1>1. ServesInv => NoLostReadiness
    BY QuietMissesNothing DEF ServesInv
  <1> QED
    BY <1>1, ServesInvHolds, PTL

\* The streams at the other end of a node that runs one invocation at a time
\* accept every packet and every bound it sends: batches, bounds announced ahead
\* by the calculator and bounds passed on by the scheduling loop never overtake
\* one another.
THEOREM SequentialOutputsInOrder == Spec => []SequentialOutputsAccepted
  <1>1. ServesInv => SequentialOutputsAccepted
    BY DEF ServesInv, AnnounceInv, SequentialOutputsAccepted
  <1> QED
    BY <1>1, ServesInvHolds, PTL

\* The variables of a node have their types in every state.
THEOREM NodeIsTyped == Spec => []NodeTypeOK
  <1>1. ServesInv => NodeTypeOK
    <2> SUFFICES ASSUME ServesInv PROVE NodeTypeOK
      OBVIOUS
    <2>1. NodeInv /\ OutTypes
      BY DEF ServesInv
    <2>2. StreamTypeOK
      BY <2>1, NodeTypes DEF StreamInv
    <2>3. ConfigInv /\ PlacesInv /\ InputsInv /\ CountInv
      BY <2>1 DEF NodeInv
    <2>4. DOMAIN shard = Timestamps
      BY <2>1 DEF OutTypes
    <2>5. current_in_flight \in 0 .. max_in_flight
      BY <2>3 DEF ConfigInv, CountInv
    <2>6. /\ batch \in Seq(Timestamps) /\ active_contexts \subseteq Timestamps
          /\ scheduled \subseteq Timestamps /\ completed_input_timestamps \subseteq Timestamps
      BY <2>1, NodeTypes
    <2>7. /\ last_processed_ts \in Timestamps /\ task_timestamp_bound \in Timestamps
          /\ prepared_context_for_close \in BOOLEAN
      BY <2>3 DEF InputsInv
    <2>8. /\ max_in_flight \in MaxInFlights /\ batch_size \in BatchSizes \cup {1}
          /\ process_timestamps \in ProcessTimestamps
      BY <2>3 DEF ConfigInv
    <2>10. sends_post_stream \in SendsPostStream
      BY DEF ServesInv, PostInv
    <2>9. /\ status \in {"Prepared", "Opened", "Closed"}
          /\ scheduling_state \in {"Idle", "Scheduling", "SchedulingPending"}
          /\ propagation_state \in {"Idle", "PropagatingPackets", "PropagatingBound",
                                    "PropagationPending"}
      BY <2>3 DEF PlacesInv, Statuses, SchedulingStates, PropagationStates
    <2> QED
      BY <2>1, <2>2, <2>4, <2>5, <2>6, <2>7, <2>8, <2>9, <2>10 DEF NodeTypeOK, OutTypes
  <1> QED
    BY <1>1, ServesInvHolds, PTL

\* A node serves its inputs: the three together are what the run of the node's
\* inputs checks.
THEOREM NodeIsServing == Spec => []NodeServes
  <1>1. NodeTypeOK /\ NoLostReadiness /\ SequentialOutputsAccepted => NodeServes
    BY DEF NodeServes
  <1> QED
    BY <1>1, NodeIsTyped, NoNotificationIsLost, SequentialOutputsInOrder, PTL

-----------------------------------------------------------------------------
(* What is left when a node is closed.                                     *)

EndComes == prepared_context_for_close \/ \E t \in Threads : AtClose(t)

\* A parallel node takes its end up only when no invocation is under way.
IdleAtEnd == Parallel /\ EndComes => active_contexts = {}

\* A closed node has nothing but the end of its inputs in its default context.
ClosedBatch == status = "Closed" => batch = <<Done>>

\* Packets that wait in a shard belong to an invocation that is not done with.
ShardsInUse ==
    \A c \in Timestamps : shard[c].packets # <<>> =>
       IF Parallel THEN c \in active_contexts ELSE c = Done /\ \E w \in Workers : pc[w] = "post"

DrainInv == IdleAtEnd /\ ClosedBatch /\ ShardsInUse

\* A step after which no end comes that did not come before.
LEMMA IdleKept ==
    ASSUME NodeInv, IdleAtEnd, NEW t \in Threads, Moves(t), max_in_flight' = max_in_flight,
           prepared_context_for_close' => EndComes, AtClose(t)' => EndComes,
           active_contexts' \subseteq active_contexts
    PROVE  IdleAtEnd'
  <1>1. \A u \in Threads \ {t} : AtClose(u)' <=> AtClose(u)
    BY DEF Moves, AtClose
  <1>2. EndComes' => EndComes
    BY <1>1 DEF EndComes
  <1> QED
    BY <1>2 DEF IdleAtEnd, Parallel

LEMMA DecideIdle ==
    ASSUME NodeInv, IdleAtEnd, NEW t \in Threads, UNCHANGED configVars, Moves(t), Decide(t)
    PROVE  IdleAtEnd'
  <1>1. pc[t] = "scan" /\ loc[t].i \notin Streams /\ max_in_flight' = max_in_flight
    BY DEF Decide, configVars
  <1>2. CASE NotReady(t)
    <2>1. pc'[t] = "bound"
      BY <1>2, NotReadyEffect
    <2>2. UNCHANGED <<prepared_context_for_close, active_contexts>>
      BY <1>2 DEF NotReady, inputVars
    <2> QED
      BY <1>1, <2>1, <2>2, IdleKept DEF AtClose, EndComes
  <1>3. CASE PrepareContext(t)
    <2>1. ~Over
      BY <1>1, <1>3, ReadyTimestamp DEF PrepareContext
    <2>2. ~prepared_context_for_close /\ \A u \in Threads : ~AtClose(u)
      BY <2>1 DEF NodeInv, InputsInv
    <2>3. pc'[t] = "fill" /\ prepared_context_for_close' = prepared_context_for_close
      BY <1>3, PrepareContextEffect DEF PrepareContext
    <2>4. \A u \in Threads : ~AtClose(u)'
      BY <2>2, <2>3 DEF AtClose, Moves
    <2> QED
      BY <2>2, <2>3, <2>4 DEF IdleAtEnd, EndComes
  <1>4. CASE PrepareClose(t)
    <2>1. UNCHANGED <<prepared_context_for_close, active_contexts>>
      BY <1>4 DEF PrepareClose
    <2>2. CASE active_contexts = {}
      BY <2>1, <2>2 DEF IdleAtEnd
    <2>3. CASE active_contexts # {}
      <3>1. pc'[t] = "recheck"
        BY <1>4, <2>3, PrepareCloseEffect DEF MayPrepareClose
      <3> QED
        BY <1>1, <2>1, <3>1, IdleKept DEF AtClose, EndComes
    <2> QED
      BY <2>2, <2>3
  <1> QED
    BY <1>2, <1>3, <1>4 DEF Decide

LEMMA FillIdle ==
    ASSUME NodeInv, IdleAtEnd, NEW t \in Threads, UNCHANGED configVars, Moves(t),
           FillStream(t) \/ Schedule(t)
    PROVE  IdleAtEnd'
  <1>1. max_in_flight' = max_in_flight /\ active_contexts' = active_contexts
    BY DEF configVars, FillStream, Schedule, contextVars
  <1>2. CASE FillStream(t)
    <2>1. pc[t] = "fill" /\ prepared_context_for_close' = prepared_context_for_close
      BY <1>2 DEF FillStream, inputVars
    <2>2. loc[t].timestamp # Done
      BY <2>1, FillFacts
    <2>3. FilledMove(t)
      BY <1>2, FillEffect
    <2>4. ~AtClose(t)'
      <3>1. CASE NextInvocation(t, loc[t].left)
        <4>1. pc'[t] \in {"scan", "recheck"}
          BY <3>1, NodeTypes, NextInvocationEffect
        <4> QED
          BY <4>1 DEF AtClose
      <3> QED
        BY <2>2, <2>3, <3>1 DEF FilledMove, AtClose
    <2> QED
      BY <1>1, <2>1, <2>4, IdleKept DEF EndComes
  <1>3. CASE Schedule(t)
    <2>1. pc'[t] \in {"scan", "recheck"}
      BY <1>3, ScheduleEffect
    <2>2. prepared_context_for_close' => EndComes
      BY <1>3 DEF Schedule, EndComes, AtClose
    <2> QED
      BY <1>1, <2>1, <2>2, IdleKept DEF AtClose
  <1> QED
    BY <1>2, <1>3

\* Only the recycling of a context takes one away; it adds none.
LEMMA ElsewhereActive ==
    ASSUME NEW t \in Threads, Elsewhere(t)
    PROVE  active_contexts' \subseteq active_contexts
  <1>1. CASE CheckIfBecameReady(t) \/ BeginLoop(t) \/ Recheck(t) \/ (t \in Workers /\ EndScheduling(t))
    BY <1>1 DEF CheckIfBecameReady, BeginLoop, Recheck, EndScheduling, contextVars
  <1>2. CASE PropagatePackets(t) \/ RecycleContext(t) \/ TryBound(t) \/ SendBound(t)
    BY <1>2 DEF PropagatePackets, RecycleContext, TryBound, SendBound, contextVars
  <1>3. CASE PacketsPropagated(t) \/ BoundPropagated(t)
    BY <1>3 DEF PacketsPropagated, BoundPropagated, contextVars
  <1>4. CASE t \in Workers /\ (\/ OpenNode(t) \/ CloseOutputStreams(t) \/ NodeClosed(t)
                               \/ RunTask(t) \/ Process(t) \/ PostProcess(t))
    BY <1>4 DEF OpenNode, CloseOutputStreams, NodeClosed, RunTask, Process, PostProcess, contextVars
  <1> QED
    BY <1>1, <1>2, <1>3, <1>4 DEF Elsewhere

LEMMA NodeIdle ==
    ASSUME NodeInv, IdleAtEnd, NEW t \in Threads, UNCHANGED configVars, StepOf(t)
    PROVE  IdleAtEnd'
  <1>1. Moves(t) /\ max_in_flight' = max_in_flight
    BY NodePlaces DEF StepOf, configVars
  <1>2. CASE t \in Streams /\ (Produce(t) \/ EndStream(t))
    <2>1. pc'[t] \in {"produce", "notify"}
      BY <1>2, ProduceOffers
    <2>2. UNCHANGED <<prepared_context_for_close, active_contexts>>
      BY <1>2 DEF Produce, EndStream, inputVars, contextVars
    <2> QED
      BY <1>1, <2>1, <2>2, IdleKept DEF AtClose, EndComes
  <1>3. CASE ScanStream(t)
    <2>1. pc[t] = "scan" /\ pc' = pc /\ UNCHANGED <<prepared_context_for_close, active_contexts>>
      BY <1>3 DEF ScanStream, inputVars, contextVars
    <2> QED
      BY <1>1, <2>1, IdleKept DEF AtClose, EndComes
  <1>4. CASE Decide(t)
    BY <1>1, <1>4, DecideIdle
  <1>5. CASE FillStream(t) \/ Schedule(t)
    BY <1>1, <1>5, FillIdle
  <1>6. CASE UpdateTaskTimestampBound(t)
    <2>1. pc'[t] # "schedule"
      BY <1>6, UpdateLabels
    <2>2. UNCHANGED <<prepared_context_for_close, active_contexts>>
      BY <1>6 DEF UpdateTaskTimestampBound, inputVars, contextVars
    <2> QED
      BY <1>1, <2>1, <2>2, IdleKept DEF AtClose, EndComes
  <1>7. CASE t \in Workers /\ CloseInputStream(t)
    <2>1. pc'[t] # "schedule"
      BY <1>7, CloseEffect
    <2>2. UNCHANGED <<prepared_context_for_close, active_contexts>>
      BY <1>7 DEF CloseInputStream, inputVars, contextVars
    <2> QED
      BY <1>1, <2>1, <2>2, IdleKept DEF AtClose, EndComes
  <1>8. CASE Elsewhere(t)
    <2>1. pc'[t] # "schedule"
      BY <1>8, ElsewhereScans DEF Scans
    <2>2. prepared_context_for_close' = prepared_context_for_close
      BY <1>8, ElsewhereKeeps DEF inputVars
    <2> QED
      BY <1>1, <1>8, <2>1, <2>2, IdleKept, ElsewhereActive DEF AtClose, EndComes
  <1> QED
    BY <1>2, <1>3, <1>4, <1>5, <1>6, <1>7, <1>8, StepKinds

\* What the steps leave as it is.
LEMMA DrainFrame ==
    ASSUME NEW t \in Threads, StepOf(t)
    PROVE  /\ ~Decide(t) /\ ~(t \in Workers /\ Process(t)) => batch' = batch
           /\ status' = "Closed" => status = "Closed" \/ (t \in Workers /\ NodeClosed(t))
           /\ ~RecycleContext(t) => active_contexts \subseteq active_contexts'
           /\ pc[t] = "post" => t \in Workers /\ PostProcess(t)
  <1>1. CASE t \in Streams /\ (Produce(t) \/ EndStream(t))
    BY <1>1 DEF Produce, EndStream, schedVars, contextVars
  <1>2. CASE CheckIfBecameReady(t) \/ BeginLoop(t) \/ Recheck(t)
    BY <1>2 DEF CheckIfBecameReady, BeginLoop, Recheck, contextVars
  <1>3. CASE ScanStream(t) \/ FillStream(t) \/ Schedule(t)
    BY <1>3 DEF ScanStream, FillStream, Schedule, schedVars, contextVars
  <1>4. CASE Decide(t)
    BY <1>4 DEF Decide, NotReady, PrepareContext, PrepareClose, schedVars
  <1>5. CASE OutputStep(t)
    BY <1>5 DEF OutputStep, UpdateTaskTimestampBound, PropagatePackets, RecycleContext,
                PacketsPropagated, TryBound, SendBound, BoundPropagated, schedVars, contextVars
  <1>6. CASE t \in Workers /\ (OpenNode(t) \/ RunTask(t) \/ EndScheduling(t) \/ CloseInputStream(t)
                               \/ CloseOutputStreams(t) \/ NodeClosed(t))
    BY <1>6 DEF OpenNode, RunTask, EndScheduling, CloseInputStream, CloseOutputStreams, NodeClosed,
                schedVars, contextVars
  <1>7. CASE t \in Workers /\ (Process(t) \/ PostProcess(t))
    BY <1>7 DEF Process, PostProcess, schedVars
  <1> QED
    BY <1>1, <1>2, <1>3, <1>4, <1>5, <1>6, <1>7 DEF StepOf, ThreadStep, LoopStep, WorkerStep

LEMMA NodeClosedBatch ==
    ASSUME NodeInv, ClosedBatch, NEW t \in Threads, UNCHANGED configVars, StepOf(t)
    PROVE  ClosedBatch'
  <1> SUFFICES ASSUME status' = "Closed" PROVE batch' = <<Done>>
    BY DEF ClosedBatch
  <1>1. CASE t \in Workers /\ NodeClosed(t)
    BY <1>1 DEF NodeClosed, contextVars, NodeInv, BatchInv, RunsBatch
  <1>2. CASE status = "Closed"
    <2>1. batch = <<Done>> /\ prepared_context_for_close
      BY <1>2 DEF ClosedBatch, NodeInv, ClosingInv
    <2>2. Over
      BY <2>1 DEF NodeInv, InputsInv
    <2>3. CASE Decide(t)
      <3>1. ~PrepareContext(t)
        BY <2>2, <2>3, ReadyTimestamp DEF Decide, PrepareContext
      <3> QED
        BY <2>1, <2>3, <3>1 DEF Decide, NotReady, PrepareClose, MayPrepareClose
    <2>4. CASE t \in Workers /\ Process(t)
      <3>1. pc[t] = "process"
        BY <2>4 DEF Process
      <3>2. Parallel
        BY <1>2, <2>4, <3>1, SequentialAlone DEF TaskLabels
      <3>3. TurnTimestamp(t) = Done \/ loc[t].context # Done
        BY <2>4, <3>1, <3>2, TakingTurn
      <3> QED
        BY <2>1, <2>4, <3>3 DEF Process, TurnTimestamp, Default
    <2> QED
      BY <2>1, <2>3, <2>4, DrainFrame
  <1> QED
    BY <1>1, <1>2, DrainFrame

\* A step that writes no shard and recycles no context.
LEMMA ShardsKept ==
    ASSUME NodeInv, ShardsInUse, NEW t \in Threads, UNCHANGED configVars, Moves(t), StepOf(t),
           shard' = shard, ~RecycleContext(t), Parallel \/ pc[t] # "post"
    PROVE  ShardsInUse'
  <1>1. Parallel' = Parallel
    BY DEF configVars, Parallel
  <1>2. Parallel => active_contexts \subseteq active_contexts'
    BY DrainFrame
  <1>3. ASSUME ~Parallel, NEW w \in Workers, pc[w] = "post" PROVE pc'[w] = "post"
    BY <1>3, NodeTypes DEF Moves
  <1> QED
    BY <1>1, <1>2, <1>3 DEF ShardsInUse

LEMMA ProcessShards ==
    ASSUME NodeInv, OutTypes, ShardsInUse, NEW w \in Workers, UNCHANGED configVars, Moves(w), Process(w)
    PROVE  ShardsInUse'
  <1>1. /\ pc[w] = "process" /\ w \in Threads /\ Parallel' = Parallel /\ loc[w].context \in Timestamps
        /\ active_contexts' = active_contexts
    BY NodeTypes DEF Process, configVars, Parallel
  <1>2. CASE TurnTimestamp(w) = Done
    <2>1. shard' = shard
      BY <1>2 DEF Process, TurnTimestamp, Default
    <2> QED
      BY <1>1, <2>1, ShardsKept DEF StepOf, ThreadStep, WorkerStep, Process, RecycleContext
  <1>3. CASE TurnTimestamp(w) # Done
    <2>1. PICK output : shard' = [shard EXCEPT ![loc[w].context] = output]
      BY <1>3 DEF Process, TurnTimestamp, Default
    <2>2. \A c \in Timestamps : c # loc[w].context => shard'[c] = shard[c]
      BY <2>1 DEF OutTypes
    <2>3. pc'[w] = "post"
      BY <1>3, ProcessEffect
    <2>4. CASE Parallel
      <3>1. loc[w].context # Done
        BY <1>1, <1>3, <2>4, TakingTurn
      <3>2. loc[w].context \in active_contexts
        BY <1>1, <2>4, <3>1, ActiveFacts DEF ActiveInv, Claims
      <3> QED
        BY <1>1, <2>2, <2>4, <3>2 DEF ShardsInUse
    <2>5. CASE ~Parallel
      <3>1. loc[w].context = Done
        BY <1>1, <2>5, SequentialTurn
      <3> QED
        BY <1>1, <2>2, <2>3, <2>5, <3>1 DEF ShardsInUse
    <2> QED
      BY <2>4, <2>5
  <1> QED
    BY <1>2, <1>3

\* The shard of a context is emptied where its packets are sent.
LEMMA SentShards ==
    ASSUME NodeInv, OutTypes, ShardsInUse, NEW t \in Threads, UNCHANGED configVars,
           \/ PropagatePackets(t) /\ Parallel
           \/ RecycleContext(t) /\ Parallel
           \/ t \in Workers /\ PostProcess(t) /\ ~Parallel
    PROVE  ShardsInUse'
  <1>1. Parallel' = Parallel
    BY DEF configVars, Parallel
  <1>2. CASE PropagatePackets(t) /\ Parallel
    <2>1. active_contexts' = active_contexts
          /\ shard' = [shard EXCEPT ![loc[t].context].packets = <<>>]
      BY <1>2 DEF PropagatePackets, PropagateOutputPackets
    <2>2. \A c \in Timestamps : shard'[c].packets = IF c = loc[t].context THEN <<>> ELSE shard[c].packets
      BY <2>1 DEF OutTypes, Shards
    <2> QED
      BY <1>1, <1>2, <2>1, <2>2 DEF ShardsInUse
  <1>3. CASE RecycleContext(t) /\ Parallel
    <2>1. active_contexts' = active_contexts \ {RecycledContext}
          /\ shard' = [shard EXCEPT ![RecycledContext] = NoShard]
      BY <1>3 DEF RecycleContext
    <2>2. \A c \in Timestamps :
             shard'[c].packets = IF c = RecycledContext THEN <<>> ELSE shard[c].packets
      BY <2>1 DEF OutTypes, NoShard
    <2> QED
      BY <1>1, <1>3, <2>1, <2>2 DEF ShardsInUse
  <1>4. CASE t \in Workers /\ PostProcess(t) /\ ~Parallel
    <2>1. shard' = [shard EXCEPT ![Done].packets = <<>>]
      BY <1>4 DEF PostProcess, PropagateOutputPackets, Default
    <2>2. \A c \in Timestamps : shard'[c].packets = IF c = Done THEN <<>> ELSE shard[c].packets
      BY <2>1 DEF OutTypes, Shards
    <2> QED
      BY <1>1, <1>4, <2>2 DEF ShardsInUse
  <1> QED
    BY <1>2, <1>3, <1>4

LEMMA NodeShards ==
    ASSUME NodeInv, OutTypes, ShardsInUse, NEW t \in Threads, UNCHANGED configVars, StepOf(t)
    PROVE  ShardsInUse'
  <1>1. Moves(t) /\ max_in_flight' = max_in_flight
    BY NodePlaces DEF StepOf, configVars
  <1>2. CASE t \in Workers /\ Process(t)
    BY <1>1, <1>2, ProcessShards
  <1>3. CASE t \in Workers /\ PostProcess(t) /\ ~Parallel
    BY <1>3, SentShards
  <1>4. CASE PropagatePackets(t) \/ RecycleContext(t)
    <2>1. pc[t] \in PropLabels
      BY <1>4 DEF PropagatePackets, RecycleContext, PropLabels, PacketLabels
    <2>2. Parallel
      BY <2>1, NodeTypes, ThreadFacts DEF Placed
    <2> QED
      BY <1>4, <2>2, SentShards
  <1>5. ASSUME ~(t \in Workers /\ Process(t)), ~(t \in Workers /\ PostProcess(t) /\ ~Parallel),
               ~PropagatePackets(t), ~RecycleContext(t)
        PROVE  ShardsInUse'
    <2>1. shard' = shard
      <3>1. CASE ~Sends(t)
        BY <3>1, SendsNothing
      <3>2. CASE UpdateTaskTimestampBound(t) \/ SendBound(t) \/ (t \in Workers /\ CloseOutputStreams(t))
        BY <3>2 DEF UpdateTaskTimestampBound, SendBound, CloseOutputStreams, contextVars
      <3>3. CASE t \in Workers /\ PostProcess(t) /\ Parallel
        BY <3>3 DEF PostProcess
      <3> QED
        BY <1>5, <3>1, <3>2, <3>3 DEF Sends
    <2>2. Parallel \/ pc[t] # "post"
      BY <1>5, DrainFrame
    <2> QED
      BY <1>1, <1>5, <2>1, <2>2, ShardsKept
  <1> QED
    BY <1>2, <1>3, <1>4, <1>5

\* It holds throughout.
LEMMA DrainInvHolds == Spec => []DrainInv
  <1>1. Init => DrainInv
    <2> SUFFICES ASSUME Init PROVE DrainInv
      OBVIOUS
    <2>1. active_contexts = {} /\ status = "Prepared"
      BY DEF Init
    <2>2. \A c \in Timestamps : shard[c].packets = <<>>
      BY DEF Init, NoShard
    <2> QED
      BY <2>1, <2>2 DEF DrainInv, IdleAtEnd, ClosedBatch, ShardsInUse
  <1>2. ServesInv /\ DrainInv /\ [Next]_vars => DrainInv'
    <2> SUFFICES ASSUME ServesInv, DrainInv, [Next]_vars PROVE DrainInv'
      OBVIOUS
    <2>1. NodeInv /\ OutTypes
      BY DEF ServesInv
    <2>2. CASE Next
      <3>1. UNCHANGED configVars
        BY <2>2 DEF Next
      <3>2. PICK t \in Threads : StepOf(t)
        BY <2>2 DEF Next, StepOf, Threads
      <3> QED
        BY <2>1, <3>1, <3>2, NodeIdle, NodeClosedBatch, NodeShards DEF DrainInv
    <2>3. CASE UNCHANGED vars
      <3>1. UNCHANGED <<pc, loc, max_in_flight, prepared_context_for_close, active_contexts, status, batch, shard>>
        BY <2>3 DEF vars, nodeVars, configVars, schedVars, inputVars, contextVars
      <3> QED
        BY <3>1 DEF DrainInv, IdleAtEnd, EndComes, AtClose, ClosedBatch, ShardsInUse, Parallel
    <2> QED
      BY <2>2, <2>3
  <1> QED
    BY <1>1, <1>2, ServesInvHolds, PTL DEF Spec

\* A node is closed only after its inputs have ended and been processed: its
\* queues are empty, no invocation is under way or queued, and every packet an
\* invocation has put out has been handed on.
THEOREM ClosedNodeIsDone == Spec => []ClosedAfterInputs
  <1>1. ServesInv /\ DrainInv => ClosedAfterInputs
    <2> SUFFICES ASSUME ServesInv, DrainInv, status = "Closed"
                 PROVE  /\ \A s \in Streams : queue[s] = <<>>
                        /\ active_contexts = {} /\ scheduled = {} /\ batch = <<Done>>
                        /\ \A c \in Timestamps : shard[c].packets = <<>>
      BY DEF ClosedAfterInputs
    <2>1. NodeInv /\ prepared_context_for_close
      BY DEF ServesInv, NodeInv, ClosingInv
    <2>2. \A s \in Streams : queue[s] = <<>>
      BY <2>1 DEF NodeInv, InputsInv, Over, Ended
    <2>3. batch = <<Done>>
      BY DEF DrainInv, ClosedBatch
    <2>4. CASE Parallel
      <3>1. active_contexts = {}
        BY <2>1, <2>4 DEF DrainInv, IdleAtEnd, EndComes
      <3>2. scheduled = {}
        BY <2>1, <2>4, <3>1, ActiveFacts DEF NodeInv, ClosingInv, ActiveInv
      <3> QED
        BY <2>2, <2>3, <2>4, <3>1, <3>2 DEF DrainInv, ShardsInUse
    <2>5. CASE ~Parallel
      <3>1. active_contexts = {}
        BY <2>1, <2>5, SequentialWay
      <3>2. scheduled = {} /\ \A w \in Workers : pc[w] # "post"
        BY <2>1, <2>5 DEF NodeInv, CountInv, TaskLabels
      <3> QED
        BY <2>2, <2>3, <2>5, <3>1, <3>2 DEF DrainInv, ShardsInUse
    <2> QED
      BY <2>4, <2>5
  <1> QED
    BY <1>1, ServesInvHolds, DrainInvHolds, PTL

-----------------------------------------------------------------------------
(* What parallel invocations send.                                         *)

\* An input may still come at this timestamp, or a scan has seen that a stream
\* without packets is past it.
Comes(timestamp) ==
    \/ MayCome(timestamp)
    \/ After(timestamp) /\ \E t \in Threads : pc[t] = "scan" /\ Passed(timestamp, loc[t].min_bound)

\* Popping the packets up to the last selected timestamp brings nothing later.
LEMMA PopBrings ==
    ASSUME NodeInv, NodeInv', enable_timestamps' = enable_timestamps, NEW s \in Streams,
           NEW time \in Timestamps, time <= last_processed_ts,
           IsAllowedInStream(time), time <= MinTimestampOrBound(s), PopPacketAtTimestamp(s, time),
           UNCHANGED <<last_processed_ts, process_timestamps>>,
           NEW later \in Timestamps, MayCome(later)'
    PROVE  MayCome(later)
  <1>0. time \in Int /\ later \in Int /\ last_processed_ts \in Int
    BY NodeTypes, SpecialTimestamps
  <1>1. Selects(s, time)
    BY SelectOffers
  <1>2. PICK k \in 0 .. Len(queue[s]) :
           /\ \A i \in 1 .. k : queue[s][i] <= time
           /\ queue' = [queue EXCEPT ![s] = SubSeq(@, k + 1, Len(@))]
    BY DEF PopPacketAtTimestamp, PopWhile
  <1>3. /\ queue \in [Streams -> Seq(Timestamps)]
        /\ next_timestamp_bound \in [Streams -> Timestamps]
    BY NodeTypes DEF StreamInv, StreamTypeOK
  <1>4. \A r \in Streams \ {s} : next_timestamp_bound'[r] = next_timestamp_bound[r] /\ queue'[r] = queue[r]
    BY <1>2, <1>3 DEF PopPacketAtTimestamp
  <1>5. After(later) /\ later > last_processed_ts
    BY DEF MayCome, After
  <1>6. PICK r \in Streams : \/ MinTimestampOrBound(r)' <= later
                             \/ queue'[r] = <<>> /\ Passed(later, next_timestamp_bound[r])'
    BY DEF MayCome
  <1>7. MinTimestampOrBound(r) \in Int /\ MinTimestampOrBound(r)' \in Int
    BY StreamFacts, OffersNext DEF OffersAreNumbers
  <1>8. MinTimestampOrBound(r) <= MinTimestampOrBound(r)'
    BY <1>1, <1>7 DEF Selects
  <1>9. CASE MinTimestampOrBound(r)' <= later
    <2>1. MinTimestampOrBound(r) <= later
      BY <1>0, <1>7, <1>8, <1>9
    <2> QED
      BY <1>5, <2>1 DEF MayCome
  <1>10. CASE r # s /\ queue'[r] = <<>> /\ Passed(later, next_timestamp_bound[r])'
    <2>1. queue[r] = <<>> /\ Passed(later, next_timestamp_bound[r])
      BY <1>4, <1>10 DEF Passed
    <2> QED
      BY <1>5, <2>1 DEF MayCome
  <1>11. CASE r = s /\ queue'[s] = <<>> /\ Passed(later, next_timestamp_bound[s])' /\ queue[s] = <<>>
    <2>1. next_timestamp_bound'[s] =
             IF next_timestamp_bound[s] <= time THEN NextAllowedInStream(time)
             ELSE next_timestamp_bound[s]
      BY <1>3 DEF PopPacketAtTimestamp
    <2>2. time < NextAllowedInStream(time) /\ NextAllowedInStream(time) \in Int
      BY <1>0, NextIsLater DEF IsAllowedInStream
    <2>3. next_timestamp_bound[s] \in Int /\ next_timestamp_bound[s] <= next_timestamp_bound'[s]
          /\ next_timestamp_bound'[s] \in Int
      BY <1>0, <2>1, <2>2, StreamFacts
    <2>4. process_timestamps /\ IsRangeValue(later) /\ next_timestamp_bound'[s] <= later + 1
      BY <1>11 DEF Passed
    <2>5. Passed(later, next_timestamp_bound[s])
      BY <1>0, <2>3, <2>4 DEF Passed
    <2> QED
      BY <1>5, <1>11, <2>5 DEF MayCome
  <1>12. CASE r = s /\ queue'[s] = <<>> /\ queue[s] # <<>>
    <2>1. PICK q : q = SubSeq(queue[s], k + 1, Len(queue[s]))
      OBVIOUS
    <2>2. queue[s] \in Seq(Timestamps) /\ queue'[s] = q
      BY <1>2, <1>3, <2>1
    <2>3. Len(q) = Len(queue[s]) - k /\ Len(queue[s]) \in Nat \ {0}
      BY <1>12, <2>1, <2>2, QueueSuffix
    <2>4. Len(q) = 0
      BY <1>12, <2>2
    <2>5. 1 \in 1 .. k
      BY <2>3, <2>4
    <2>6. MinTimestampOrBound(s) <= time
      BY <1>2, <1>12, <2>5, NodeTypes, StreamOffers DEF MinTimestampOrBound
    <2>7. MinTimestampOrBound(s) <= later
      BY <1>0, <1>5, <1>7, <1>12, <2>6
    <2> QED
      BY <1>5, <2>7 DEF MayCome
  <1> QED
    BY <1>6, <1>9, <1>10, <1>11, <1>12

\* Once the inputs have ended, nothing comes.
LEMMA NothingComes ==
    ASSUME NodeInv, Over, NEW later \in Timestamps
    PROVE  ~Comes(later)
  <1> SUFFICES ASSUME Comes(later) PROVE FALSE
    OBVIOUS
  <1>0. later \in Int /\ later <= PostStream /\ PostStream = RangeMax + 1
        /\ OneOverPostStream = RangeMax + 2 /\ RangeMax \in Int
    BY SpecialTimestamps, RangeAssumption DEF Comes, MayCome, After, IsAllowedInStream, PostStream,
       OneOverPostStream
  <1>1. \A s \in Streams : queue[s] = <<>> /\ next_timestamp_bound[s] >= OneOverPostStream
                           /\ next_timestamp_bound[s] \in Int
    BY StreamFacts DEF Over, Ended
  <1>2. \A t \in Threads : pc[t] = "scan" => loc[t].min_bound >= OneOverPostStream
                                             /\ loc[t].min_bound \in Int
    BY NodeTypes, SpecialTimestamps DEF Over, KnowsEnd
  <1>3. CASE MayCome(later)
    <2>1. PICK s \in Streams : MinTimestampOrBound(s) <= later \/ Passed(later, next_timestamp_bound[s])
      BY <1>3 DEF MayCome
    <2> QED
      BY <1>0, <1>1, <2>1 DEF MinTimestampOrBound, Passed, IsRangeValue
  <1>4. CASE \E t \in Threads : pc[t] = "scan" /\ Passed(later, loc[t].min_bound)
    BY <1>0, <1>2, <1>4 DEF Passed, IsRangeValue
  <1> QED
    BY <1>3, <1>4 DEF Comes

NothingToCome == \A later \in Timestamps : ~Comes(later)

\* In the next state too.
LEMMA NothingComesNext == NodeInv' /\ Over' => NothingToCome'
  <1>1. NodeInv /\ Over => NothingToCome
    BY NothingComes DEF NothingToCome
  <1> QED
    BY <1>1, PTL

\* No step but Decide() changes what was processed last.
LEMMA LastKept ==
    ASSUME NEW t \in Threads, StepOf(t), ~Decide(t)
    PROVE  last_processed_ts' = last_processed_ts
  <1>1. CASE t \in Streams /\ (Produce(t) \/ EndStream(t))
    BY <1>1 DEF Produce, EndStream, inputVars
  <1>2. CASE ScanStream(t) \/ FillStream(t) \/ Schedule(t) \/ UpdateTaskTimestampBound(t)
    BY <1>2 DEF ScanStream, FillStream, Schedule, UpdateTaskTimestampBound, inputVars
  <1>3. CASE t \in Workers /\ CloseInputStream(t)
    BY <1>3 DEF CloseInputStream, inputVars
  <1>4. CASE Elsewhere(t)
    BY <1>4, ElsewhereKeeps DEF inputVars
  <1> QED
    BY <1>1, <1>2, <1>3, <1>4, StepKinds

\* Decide() selects later inputs, or ends.
LEMMA DecideLast ==
    ASSUME NodeInv, NodeInv', NEW t \in Threads, UNCHANGED configVars, Decide(t)
    PROVE  Over' \/ last_processed_ts <= last_processed_ts'
  <1>1. pc[t] = "scan" /\ loc[t].i \notin Streams /\ UNCHANGED <<streamVars, propVars>>
    BY DEF Decide
  <1>2. last_processed_ts \in Int
    BY NodeTypes, SpecialTimestamps
  <1>3. CASE NotReady(t)
    BY <1>2, <1>3 DEF NotReady, inputVars
  <1>4. CASE PrepareContext(t)
    <2>1. /\ ReadyForProcess(loc[t].min_packet, loc[t].min_bound)
          /\ last_processed_ts' = InputTimestamp(loc[t].min_packet, loc[t].min_bound)
      BY <1>4 DEF PrepareContext
    <2>2. last_processed_ts < last_processed_ts' /\ last_processed_ts' \in Int
      BY <1>1, <2>1, ReadyTimestamp
    <2> QED
      BY <1>2, <2>2
  <1>5. CASE PrepareClose(t)
    BY <1>1, <1>5, PrepareCloseInputs
  <1> QED
    BY <1>3, <1>4, <1>5 DEF Decide

\* A scan that goes on has seen nothing that could not come before.
LEMMA ScanBrings ==
    ASSUME NodeInv, NEW t \in Threads, UNCHANGED configVars, StepOf(t), pc'[t] = "scan",
           NEW later \in Timestamps, After(later), Passed(later, loc'[t].min_bound)
    PROVE  Comes(later)
  <1>1. later \in Int /\ IsRangeValue(later) /\ RangeMax \in Int
    BY SpecialTimestamps, RangeAssumption DEF Passed
  <1>2. CASE ~ScanStream(t)
    <2>1. loc'[t].min_bound = Done
      BY <1>2, ScansAfresh
    <2> QED
      BY <1>1, <2>1 DEF Passed, IsRangeValue, Done
  <1>3. CASE ScanStream(t)
    <2>1. PICK s \in Streams : s = loc[t].i
      BY <1>3, ScanEffect
    <2>2. /\ pc[t] = "scan"
          /\ loc'[t].min_bound = IF queue[s] = <<>> THEN Earlier(loc[t].min_bound, MinTimestampOrBound(s))
                                 ELSE loc[t].min_bound
      BY <1>3, <2>1, ScanEffect
    <2>3. loc'[t].min_bound = loc[t].min_bound \/ (queue[s] = <<>> /\ loc'[t].min_bound = next_timestamp_bound[s])
      BY <2>2 DEF Earlier, MinTimestampOrBound
    <2>4. CASE loc'[t].min_bound = loc[t].min_bound
      BY <2>2, <2>4 DEF Comes
    <2>5. CASE queue[s] = <<>> /\ loc'[t].min_bound = next_timestamp_bound[s]
      <3>1. MayCome(later)
        BY <2>5 DEF MayCome
      <3> QED
        BY <3>1 DEF Comes
    <2> QED
      BY <2>3, <2>4, <2>5
  <1> QED
    BY <1>2, <1>3

\* What may come after a step might have come before it.
LEMMA ComesBefore ==
    ASSUME NodeInv, NodeInv', NEW t \in Threads, UNCHANGED configVars, StepOf(t),
           NEW later \in Timestamps, Comes(later)'
    PROVE  Comes(later)
  <1>0. later \in Int /\ last_processed_ts \in Int /\ last_processed_ts' \in Timestamps /\ last_processed_ts' \in Int
    BY NodeTypes, SpecialTimestamps DEF NodeInv, InputsInv
  <1>1. ~Over'
    BY NothingComesNext DEF NothingToCome
  <1>2. last_processed_ts <= last_processed_ts'
    BY <1>0, <1>1, LastKept, DecideLast
  <1>3. After(later)' /\ After(later)
    BY <1>0, <1>2 DEF Comes, MayCome, After
  <1>4. Moves(t) /\ process_timestamps' = process_timestamps
    BY NodePlaces DEF StepOf, configVars
  <1>5. CASE \E u \in Threads : pc'[u] = "scan" /\ Passed(later, loc[u].min_bound)'
    <2>1. PICK u \in Threads : pc'[u] = "scan" /\ Passed(later, loc'[u].min_bound)
      BY <1>4, <1>5 DEF Passed
    <2>2. CASE u = t
      BY <1>3, <2>1, <2>2, ScanBrings
    <2>3. CASE u # t
      <3>1. pc[u] = "scan" /\ loc'[u] = loc[u]
        BY <1>4, <2>1, <2>3 DEF Moves
      <3> QED
        BY <1>3, <2>1, <3>1 DEF Comes
    <2> QED
      BY <2>2, <2>3
  <1>6. CASE MayCome(later)'
    <2>1. CASE Decide(t)
      <3>1. StreamsGrow
        BY <2>1, NodeGrows, SameStreams, OffersGrow DEF Decide
      <3>2. PICK s \in Streams : \/ MinTimestampOrBound(s)' <= later
                                 \/ queue'[s] = <<>> /\ Passed(later, next_timestamp_bound[s])'
        BY <1>6 DEF MayCome
      <3>3. UNCHANGED <<queue, next_timestamp_bound>>
        BY <2>1 DEF Decide, streamVars, queueVars, boundVars
      <3>4. \/ MinTimestampOrBound(s) <= later
            \/ queue[s] = <<>> /\ Passed(later, next_timestamp_bound[s])
        BY <1>4, <3>2, <3>3 DEF MinTimestampOrBound, Passed
      <3> QED
        BY <1>3, <3>4 DEF Comes, MayCome
    <2>2. CASE FillStream(t)
      <3>1. PICK s \in Streams, time \in Timestamps : s = loc[t].i /\ time = loc[t].timestamp
        BY <2>2, FillFacts DEF FillStream
      <3>2. /\ IsAllowedInStream(time) /\ time <= MinTimestampOrBound(s)
            /\ time = last_processed_ts /\ PopPacketAtTimestamp(s, time)
        BY <2>2, <3>1, FillFacts DEF FillStream, Filling
      <3>3. UNCHANGED <<last_processed_ts, process_timestamps, enable_timestamps>>
        BY <2>2 DEF FillStream, inputVars, configVars
      <3>4. time <= last_processed_ts
        BY <1>0, <3>2
      <3> QED
        BY <1>6, <3>2, <3>3, <3>4, PopBrings DEF Comes
    <2>3. CASE ~Decide(t) /\ ~FillStream(t)
      BY <1>4, <1>6, <2>3, LastKept, NodeGrows, GrowthBrings DEF Comes
    <2> QED
      BY <2>1, <2>2, <2>3
  <1> QED
    BY <1>5, <1>6 DEF Comes

\* A context is prepared at a timestamp that may come.
LEMMA ReadyComes ==
    ASSUME NodeInv, NEW t \in Threads, pc[t] = "scan", loc[t].i \notin Streams,
           ReadyForProcess(loc[t].min_packet, loc[t].min_bound),
           NEW time, time = InputTimestamp(loc[t].min_packet, loc[t].min_bound)
    PROVE  time \in Timestamps /\ Comes(time)
  <1>1. PICK p \in Timestamps, b \in Timestamps : p = loc[t].min_packet /\ b = loc[t].min_bound
    BY ScanComplete
  <1>2. /\ time \in Timestamps /\ time \in Int /\ After(time)
    BY ReadyTimestamp, SpecialTimestamps DEF After
  <1>3. p \in Int /\ b \in Int
    BY SpecialTimestamps
  <1>4. CASE time = p
    <2>1. p # Done
      BY <1>2, <1>4, SpecialTimestamps DEF After, IsAllowedInStream
    <2>2. PICK s \in Streams : MinTimestampOrBound(s) = p
      BY <1>1, <2>1, ScanComplete
    <2>3. MinTimestampOrBound(s) <= time
      BY <1>3, <1>4, <2>2
    <2> QED
      BY <1>2, <2>3 DEF MayCome, Comes
  <1>5. CASE time # p
    <2>1. ReadyForProcess(p, b) /\ time = InputTimestamp(p, b)
      BY <1>1
    <2>2. process_timestamps
      BY <1>3, <1>5, <2>1 DEF ReadyForProcess, InputTimestamp, MinStreamTimestamp, Earlier
    <2>3. time = PreviousAllowedInStream(b) /\ ~(p = PostStream /\ b > p) /\ time <= p
      <3>1. time = Earlier(p, IF p = PostStream /\ b > p THEN p ELSE PreviousAllowedInStream(b))
        BY <2>1, <2>2 DEF InputTimestamp
      <3>2. PreviousAllowedInStream(b) \in Int
        BY MinimaTypes, SpecialTimestamps
      <3> QED
        BY <1>3, <1>5, <3>1, <3>2 DEF Earlier
    <2>4. time # Unstarted
      BY <1>2, SpecialTimestamps DEF After, IsAllowedInStream
    <2>5. b > RangeMin /\ b # PostStream
      BY <1>3, <2>3, <2>4, PreviousOfRange, SpecialTimestamps
    <2>6. b <= RangeMax
      <3> SUFFICES ASSUME b > RangeMax PROVE FALSE
        BY <1>3, SpecialTimestamps
      <3>1. b > PostStream
        BY <1>3, <2>5, RangeAssumption DEF PostStream
      <3>2. time = RangeMax
        BY <2>3, <3>1, PreviousOfRange
      <3>3. p > RangeMax
        BY <1>3, <1>5, <2>3, <3>2, SpecialTimestamps
      <3>4. p # PostStream
        BY <1>3, <2>3, <3>1, SpecialTimestamps
      <3>5. p >= OneOverPostStream /\ b >= OneOverPostStream
        BY <1>3, <3>1, <3>3, <3>4, RangeAssumption DEF PostStream, OneOverPostStream
      <3>6. ReadyForClose(p, b)
        BY <1>3, <3>5 DEF ReadyForClose, MinStreamTimestamp, Earlier
      <3> QED
        BY <2>1, <3>6 DEF ReadyForProcess
    <2>7. time = b - 1
      BY <2>3, <2>5, <2>6, PreviousOfRange
    <2>8. IsRangeValue(time) /\ b <= time + 1
      BY <1>3, <2>5, <2>6, <2>7, RangeAssumption DEF IsRangeValue
    <2>9. Passed(time, loc[t].min_bound)
      BY <1>1, <2>2, <2>8 DEF Passed
    <2> QED
      BY <1>2, <2>9 DEF Comes
  <1> QED
    BY <1>4, <1>5

-----------------------------------------------------------------------------

\* The bound, if it is in the range, stands against no input that may come.
Due(bound) == IsRangeValue(bound) => \A time \in Timestamps : Comes(time) => bound <= time

MirrorDue == \A time \in Timestamps : Comes(time) => mirror_bound <= time

\* So do the bounds that are on their way downstream,
BoundsDue ==
    /\ Due(task_timestamp_bound)
    /\ \A t \in Threads : pc[t] \in {"bound"} \cup BoundLabels => Due(loc[t].timestamp)

\* and they are propagated before the outputs of the invocations under way.
BoundFirst(t) ==
    pc[t] \in BoundLabels /\ IsRangeValue(loc[t].timestamp) =>
       \A c \in active_contexts : loc[t].timestamp <= c

\* The packets of the context have been propagated, it is not recycled yet.
Sent(c) == \E t \in Threads : pc[t] = "recycle" /\ loc[t].context = c

\* What is known downstream does not exclude the outputs of invocations under way.
MirrorBehind == \A c \in active_contexts : mirror_bound <= c \/ Sent(c)

\* What TryPropagateTimestampBound() has tested still holds, unless the stream
\* was closed.
SendOk(t) ==
    pc[t] = "send_bound" =>
       IsRangeValue(loc[t].timestamp) /\ (loc[t].timestamp > out_bound \/ mirror_bound = Done)

\* An invocation that announces nothing ahead leaves nothing or one packet.
InShard(c) ==
    \/ shard[c].packets = <<>> /\ shard[c].updated = Unset
    \/ /\ c \notin {PreStream, RangeMax}
       /\ shard[c].packets = <<c>> /\ shard[c].bound = NextAllowedInStream(c)
       /\ shard[c].updated = NextAllowedInStream(c)

ShardsOk == \A c \in Timestamps : InShard(c) \/ Sent(c)

NoneRefused == mirror_refused \cap {"packet", "bound"} = {}

MirrorFollows == mirror_bound = out_bound \/ mirror_bound = Done

\* What is known downstream of the node.
MirrorOk == NoneRefused /\ MirrorFollows /\ MirrorDue /\ MirrorBehind

\* Parallel invocations, and no bounds announced ahead.
InTurns == Parallel /\ Announced = {}

TurnsOk ==
    /\ MirrorOk /\ BoundsDue /\ ShardsOk
    /\ \A t \in Threads : BoundFirst(t) /\ SendOk(t)

TurnsInv == InTurns => TurnsOk

\* What the steps of a parallel node leave as it is.
LEMMA TurnsFrame ==
    ASSUME NodeInv, Parallel, NEW t \in Threads, StepOf(t)
    PROVE  /\ \/ PropagatePackets(t) \/ SendBound(t) \/ (t \in Workers /\ CloseOutputStreams(t))
              \/ UNCHANGED <<out_bound, mirror_bound, mirror_refused>>
           /\ \/ PropagatePackets(t) \/ RecycleContext(t) \/ (t \in Workers /\ Process(t))
              \/ shard' = shard
           /\ \/ RecycleContext(t) \/ (Decide(t) /\ PrepareContext(t))
              \/ active_contexts' = active_contexts
           /\ \/ pc[t] = "bound" /\ task_timestamp_bound' = loc[t].timestamp
              \/ task_timestamp_bound' = task_timestamp_bound
           /\ pc[t] = "recycle" => RecycleContext(t)
  <1>1. CASE t \in Streams /\ (Produce(t) \/ EndStream(t))
    BY <1>1 DEF Produce, EndStream, contextVars, outVars, propVars
  <1>2. CASE CheckIfBecameReady(t) \/ BeginLoop(t) \/ Recheck(t)
    BY <1>2 DEF CheckIfBecameReady, BeginLoop, Recheck, contextVars, outVars, propVars
  <1>3. CASE ScanStream(t) \/ FillStream(t) \/ Schedule(t)
    BY <1>3 DEF ScanStream, FillStream, Schedule, contextVars, outVars, propVars
  <1>4. CASE Decide(t)
    BY <1>4 DEF Decide, NotReady, PrepareClose, outVars, propVars
  <1>5. CASE UpdateTaskTimestampBound(t)
    BY <1>5 DEF UpdateTaskTimestampBound, contextVars, outVars, propVars
  <1>6. CASE PropagatePackets(t) \/ RecycleContext(t) \/ PacketsPropagated(t)
    BY <1>6 DEF PropagatePackets, RecycleContext, PacketsPropagated, contextVars, outVars, propVars
  <1>7. CASE TryBound(t) \/ SendBound(t) \/ BoundPropagated(t)
    BY <1>7 DEF TryBound, SendBound, BoundPropagated, contextVars, outVars, propVars
  <1>8. CASE t \in Workers /\ (OpenNode(t) \/ RunTask(t) \/ EndScheduling(t) \/ CloseInputStream(t)
                               \/ CloseOutputStreams(t) \/ NodeClosed(t))
    BY <1>8 DEF OpenNode, RunTask, EndScheduling, CloseInputStream, CloseOutputStreams, NodeClosed,
                contextVars, outVars, propVars
  <1>9. CASE t \in Workers /\ (Process(t) \/ PostProcess(t))
    BY <1>9 DEF Process, PostProcess, outVars, propVars
  <1> QED
    BY <1>1, <1>2, <1>3, <1>4, <1>5, <1>6, <1>7, <1>8, <1>9
       DEF StepOf, ThreadStep, LoopStep, WorkerStep, OutputStep

\* Where a thread that propagates goes with a bound.
LEMMA PropagationMoves ==
    ASSUME NodeInv, NEW t \in Threads, Propagates(t),
           \/ FinishPropagation(t) \/ LeavesPropagation(t) \/ StartPackets(t)
           \/ \E bound \in Timestamps :
                 StartBound(t, bound) /\ active_contexts' = {} /\ task_timestamp_bound' = bound,
           pc'[t] \in BoundLabels
    PROVE  /\ active_contexts' = {} /\ loc'[t].timestamp = task_timestamp_bound'
           /\ pc'[t] = "try_bound"
  <1>1. pc \in [Threads -> Labels]
    BY NodeTypes, ThreadFacts
  <1>2. loc[t].caller \in {"recheck", "end"}
    BY DEF Propagates
  <1>3. CASE FinishPropagation(t) \/ LeavesPropagation(t) \/ StartPackets(t)
    BY <1>1, <1>2, <1>3 DEF FinishPropagation, LeavesPropagation, StartPackets, Goto, BoundLabels
  <1>4. ASSUME NEW bound \in Timestamps,
               StartBound(t, bound) /\ active_contexts' = {} /\ task_timestamp_bound' = bound
        PROVE  /\ active_contexts' = {} /\ loc'[t].timestamp = task_timestamp_bound'
           /\ pc'[t] = "try_bound"
    BY <1>4, StartBoundEffect
  <1> QED
    BY <1>3, <1>4

\* A bound that is to be propagated is the last one of the task, taken up while no
\* context was active.
LEMMA BoundMoves ==
    ASSUME NodeInv, NEW t \in Threads, UNCHANGED configVars, StepOf(t), pc'[t] \in BoundLabels
    PROVE  \/ (TryBound(t) \/ SendBound(t)) /\ loc' = loc /\ pc[t] \in BoundLabels
           \/ /\ active_contexts' = {} /\ loc'[t].timestamp = task_timestamp_bound'
              /\ pc'[t] = "try_bound"
  <1>0. Moves(t) /\ PlacesInv' /\ PlacesInv /\ task_timestamp_bound \in Timestamps
    BY NodePlaces, NodeTypes DEF StepOf
  <1>1. ~OutsidePropagation(t)
    BY <1>0, StaysOut DEF OutsidePropagation, propVars, PropLabels
  <1>2. \/ PropagatePackets(t) \/ RecycleContext(t) \/ TryBound(t) \/ SendBound(t)
        \/ UpdateTaskTimestampBound(t)
        \/ t \in Workers /\ Parallel /\ PostProcess(t)
        \/ PacketsPropagated(t) \/ BoundPropagated(t)
    BY <1>1, LoopOutside, TaskOutside, StepKinds DEF Elsewhere
  <1>3. CASE PropagatePackets(t) \/ RecycleContext(t) \/ TryBound(t) \/ SendBound(t)
    <2>1. loc' = loc /\ Leads(t, pc[t], pc'[t])
      BY <1>3, GoesEffect DEF OnlyGoes
    <2> QED
      BY <1>3, <2>1 DEF Leads, PropagatePackets, RecycleContext, TryBound, SendBound, BoundLabels
  <1>4. CASE UpdateTaskTimestampBound(t)
    <2>1. pc[t] = "bound" /\ active_contexts' = active_contexts /\ loc[t].timestamp \in Timestamps
      BY <1>0, <1>4, NodeTypes DEF UpdateTaskTimestampBound, contextVars
    <2>2. Propagates(t)
      BY <1>0, <2>1, WhoPropagates
    <2>3. ~Goto(t, "recheck")
      BY <1>0, ThreadFacts DEF Goto, BoundLabels
    <2>4. /\ task_timestamp_bound' = loc[t].timestamp
          /\ JoinPropagation(t, completed_input_timestamps, loc[t].timestamp)
      BY <1>4, <2>3 DEF UpdateTaskTimestampBound
    <2>5. \/ FinishPropagation(t) \/ LeavesPropagation(t) \/ StartPackets(t)
          \/ StartBound(t, loc[t].timestamp) /\ active_contexts' = {}
      BY <2>1, <2>4 DEF JoinPropagation, LeavesPropagation
    <2> QED
      BY <2>1, <2>2, <2>4, <2>5, PropagationMoves
  <1>5. CASE t \in Workers /\ Parallel /\ PostProcess(t)
    <2>1. /\ pc[t] = "post" /\ active_contexts' = active_contexts
          /\ task_timestamp_bound' = task_timestamp_bound
          /\ JoinPropagation(t, completed_input_timestamps \cup {loc[t].timestamp}, task_timestamp_bound)
      BY <1>5 DEF PostProcess
    <2>2. Propagates(t)
      BY <1>0, <2>1, WhoPropagates
    <2>3. \/ FinishPropagation(t) \/ LeavesPropagation(t) \/ StartPackets(t)
          \/ StartBound(t, task_timestamp_bound) /\ active_contexts' = {}
      BY <2>1 DEF JoinPropagation, LeavesPropagation
    <2> QED
      BY <1>0, <2>1, <2>2, <2>3, PropagationMoves
  <1>6. CASE PacketsPropagated(t) \/ BoundPropagated(t)
    <2>1. /\ pc[t] \in {"propagated", "bound_tried"} /\ active_contexts' = active_contexts
          /\ task_timestamp_bound' = task_timestamp_bound
      BY <1>6 DEF PacketsPropagated, BoundPropagated, contextVars
    <2>2. Propagates(t)
      BY <1>0, <2>1, WhoPropagates DEF PropLabels, PacketLabels, BoundLabels
    <2>3. \/ FinishPropagation(t) \/ StartPackets(t)
          \/ StartBound(t, task_timestamp_bound) /\ active_contexts' = {}
      BY <1>6, <2>1 DEF PacketsPropagated, BoundPropagated
    <2> QED
      BY <1>0, <2>1, <2>2, <2>3, PropagationMoves
  <1> QED
    BY <1>2, <1>3, <1>4, <1>5, <1>6

\* A thread has a new bound to announce only from a scan.
LEMMA BoundBegins ==
    ASSUME NodeInv, NEW t \in Threads, UNCHANGED configVars, StepOf(t), pc'[t] = "bound"
    PROVE  Decide(t) /\ NotReady(t)
  <1>1. CASE t \in Streams /\ (Produce(t) \/ EndStream(t))
    BY <1>1, ProduceOffers
  <1>2. CASE ScanStream(t)
    BY <1>2, ScanEffect
  <1>3. CASE Decide(t)
    BY <1>3, PrepareContextEffect, PrepareCloseEffect DEF Decide
  <1>4. CASE FillStream(t)
    <2>1. pc'[t] \in {"fill", "schedule"} \/ NextInvocation(t, loc[t].left)
      BY <1>4, FillEffect DEF FilledMove
    <2> QED
      BY <2>1, NodeTypes, NextInvocationEffect
  <1>5. CASE Schedule(t)
    BY <1>5, ScheduleEffect
  <1>6. CASE UpdateTaskTimestampBound(t)
    BY <1>6, UpdateLabels
  <1>7. CASE t \in Workers /\ CloseInputStream(t)
    BY <1>7, CloseEffect
  <1>8. CASE Elsewhere(t)
    BY <1>8, ElsewhereScans DEF Scans
  <1> QED
    BY <1>1, <1>2, <1>3, <1>4, <1>5, <1>6, <1>7, <1>8, StepKinds

\* The bound that a scan has found is due.
LEMMA NotReadyDue ==
    ASSUME NodeInv, NodeInv', EmptyInv, Parallel, NEW t \in Threads, UNCHANGED configVars,
           Decide(t), NotReady(t)
    PROVE  Due(loc[t].timestamp)'
  <1>1. /\ pc[t] = "scan" /\ loc[t].i \notin Streams
        /\ UNCHANGED <<process_timestamps, last_processed_ts, queue, next_timestamp_bound>>
        /\ ~ReadyForClose(loc[t].min_packet, loc[t].min_bound)
        /\ ~ReadyForProcess(loc[t].min_packet, loc[t].min_bound)
    BY DEF Decide, NotReady, inputVars, configVars, streamVars, queueVars, boundVars
  <1>2. PICK p \in Timestamps, b \in Timestamps : p = loc[t].min_packet /\ b = loc[t].min_bound
    BY <1>1, ScanComplete
  <1>3. ~(batch_size > 1)
    BY DEF NodeInv, ConfigInv
  <1>4. Moves(t) /\ pc'[t] = "bound" /\ loc'[t].timestamp = MinStreamTimestamp(p, b)
    BY <1>2, <1>3, NotReadyEffect
  <1>5. ASSUME NEW later \in Timestamps, Comes(later)'
        PROVE  MayCome(later)
    <2>1. \A u \in Threads : pc'[u] # "scan"
      BY <1>1, <1>4, OthersOutside DEF Moves, LoopLabels
    <2>2. MayCome(later)'
      BY <1>5, <2>1 DEF Comes
    <2> QED
      BY <1>1, <2>2 DEF MayCome, After, Passed, MinTimestampOrBound
  <1>6. ASSUME IsRangeValue(loc'[t].timestamp), NEW later \in Timestamps, Comes(later)'
        PROVE  loc'[t].timestamp <= later
    BY <1>1, <1>2, <1>4, <1>5, <1>6, NotReadyBound
  <1> QED
    BY <1>6 DEF Due

\* A bound that was due stays due.
LEMMA DueStays ==
    ASSUME NodeInv, NodeInv', NEW t \in Threads, UNCHANGED configVars, StepOf(t),
           NEW bound, Due(bound)
    PROVE  IsRangeValue(bound) => \A later \in Timestamps : Comes(later)' => bound <= later
  BY ComesBefore DEF Due

\* The bounds that are on their way stay due.
LEMMA NodeBoundsDue ==
    ASSUME NodeInv, NodeInv', EmptyInv, Parallel, BoundsDue, NEW t \in Threads, UNCHANGED configVars, StepOf(t)
    PROVE  BoundsDue'
  <1>0. Moves(t)
    BY NodePlaces DEF StepOf
  <1>1. Due(task_timestamp_bound)'
    <2>1. CASE task_timestamp_bound' = task_timestamp_bound
      <3>1. Due(task_timestamp_bound)
        BY DEF BoundsDue
      <3> QED
        BY <2>1, <3>1, DueStays DEF Due
    <2>2. CASE pc[t] = "bound" /\ task_timestamp_bound' = loc[t].timestamp
      <3>1. Due(loc[t].timestamp)
        BY <2>2 DEF BoundsDue
      <3> QED
        BY <2>2, <3>1, DueStays DEF Due
    <2> QED
      BY <2>1, <2>2, TurnsFrame
  <1>2. ASSUME NEW u \in Threads, pc'[u] \in {"bound"} \cup BoundLabels
        PROVE  Due(loc[u].timestamp)'
    <2>1. CASE loc'[u] = loc[u] /\ pc[u] \in {"bound"} \cup BoundLabels
      <3>1. Due(loc[u].timestamp)
        BY <2>1 DEF BoundsDue
      <3> QED
        BY <2>1, <3>1, DueStays DEF Due
    <2>2. CASE u # t
      BY <1>0, <1>2, <2>1, <2>2 DEF Moves
    <2>3. CASE u = t /\ pc'[t] = "bound"
      BY <2>3, BoundBegins, NotReadyDue
    <2>4. CASE u = t /\ pc'[t] \in BoundLabels
      <3>1. \/ loc' = loc /\ pc[t] \in BoundLabels
            \/ loc'[t].timestamp = task_timestamp_bound'
        BY <2>4, BoundMoves
      <3> QED
        BY <1>1, <2>1, <2>4, <3>1 DEF Due
    <2> QED
      BY <1>2, <2>2, <2>3, <2>4
  <1> QED
    BY <1>1, <1>2 DEF BoundsDue

\* A bound that is not behind is taken.
LEMMA SendsInTurn ==
    ASSUME NEW bound \in Int, bound # Unset, mirror_bound \in Int, mirror_bound <= bound,
           PropagateUpdatesToMirrors(bound, <<>>)
    PROVE  out_bound' = bound /\ mirror_bound' = bound /\ mirror_refused' = mirror_refused
  <1>1. ~(bound < mirror_bound) /\ Later(mirror_bound, bound) = bound
    BY DEF Later
  <1>2. out_bound' = bound
    BY DEF PropagateUpdatesToMirrors
  <1>3. mirror_bound' = Later(mirror_bound, bound)
    BY DEF PropagateUpdatesToMirrors
  <1>4. mirror_refused' =
              mirror_refused
              \cup {r \in {"packet"} : FALSE}
              \cup {r \in {"bound"} : bound < mirror_bound /\ mirror_bound # Done}
              \cup {r \in {"bound after close"} : bound < mirror_bound /\ mirror_bound = Done}
    BY Zenon DEF PropagateUpdatesToMirrors
  <1> QED
    BY <1>1, <1>2, <1>3, <1>4

\* A bound for a stream that was closed is not taken.
LEMMA SendsAfterClose ==
    ASSUME NEW bound \in Timestamps, bound # Unset, mirror_bound = Done,
           PropagateUpdatesToMirrors(bound, <<>>)
    PROVE  mirror_bound' = Done /\ (NoneRefused => NoneRefused')
  <1>1. Later(mirror_bound, bound) = Done
    BY SpecialTimestamps DEF Later
  <1>2. mirror_bound' = Later(mirror_bound, bound)
    BY DEF PropagateUpdatesToMirrors
  <1>3. mirror_refused' =
              mirror_refused
              \cup {r \in {"packet"} : FALSE}
              \cup {r \in {"bound"} : bound < mirror_bound /\ mirror_bound # Done}
              \cup {r \in {"bound after close"} : bound < mirror_bound /\ mirror_bound = Done}
    BY Zenon DEF PropagateUpdatesToMirrors
  <1>4. mirror_refused' \subseteq mirror_refused \cup {"bound after close"}
    BY <1>3
  <1> QED
    BY <1>1, <1>2, <1>4 DEF NoneRefused

\* A packet that is not behind is taken, with the bound that follows from it.
LEMMA SendsPacketInTurn ==
    ASSUME NEW q \in Timestamps, NEW bound \in Int, bound # Unset, mirror_bound \in Int,
           mirror_bound <= q, NextAllowedInStream(q) = bound,
           q = PostStream => ~mirror_got_packet, PropagateUpdatesToMirrors(bound, <<q>>)
    PROVE  out_bound' = bound /\ mirror_bound' = bound /\ mirror_refused' = mirror_refused
  <1>1. <<q>>[1] = q /\ <<q>> # <<>> /\ q \in Int
    BY SpecialTimestamps
  <1>2. ~MirrorRefuses(q)
    BY <1>1 DEF MirrorRefuses
  <1> QED
    BY <1>1, <1>2 DEF PropagateUpdatesToMirrors, Later

\* The outputs of the first active context are taken, and the bound goes at most
\* past it.
LEMMA OutputsInTurn ==
    ASSUME NodeInv, OutTypes, PostInv, Parallel, NoneRefused, MirrorFollows, MirrorBehind, ShardsOk,
           NEW t \in Threads, PropagatePackets(t)
    PROVE  /\ NoneRefused' /\ mirror_bound' = out_bound'
           /\ mirror_bound' \in Int /\ mirror_bound' <= loc[t].context + 1
  <1>1. PICK c \in Timestamps : c = loc[t].context
    BY NodeTypes
  <1>2. pc[t] = "propagate" /\ c \in active_contexts /\ IsAllowedInStream(c)
    BY <1>1, ActiveFacts DEF PropagatePackets, ActiveInv, PropagatesFirst
  <1>3. ~Sent(c)
    <2>1. \A u \in Threads : pc[u] = "recycle" => u = t
      BY <1>2 DEF NodeInv, PlacesInv, LoopsExclusive, InPropagation
    <2> QED
      BY <1>2, <2>1 DEF Sent
  <1>4. mirror_bound <= c /\ InShard(c)
    BY <1>2, <1>3 DEF MirrorBehind, ShardsOk
  <1>5. PICK x : x = mirror_bound
    OBVIOUS
  <1>6. /\ c \in Int /\ x \in Int /\ InputBound(c) = c + 1 /\ Unset \in Int /\ Unset < c
        /\ c \notin {PreStream, RangeMax} => NextAllowedInStream(c) = c + 1
    BY <1>2, <1>5, SpecialTimestamps, NextOfAllowed DEF OutTypes
  <1>7. mirror_bound = out_bound
    BY <1>2, <1>4, <1>5, <1>6, SpecialTimestamps DEF MirrorFollows, IsAllowedInStream
  <1>8. PICK output : output = shard[c]
    OBVIOUS
  <1>9. PropagateUpdatesToMirrors(ComputeOutputTimestampBound(output, c), output.packets)
    BY <1>1, <1>8 DEF PropagatePackets, PropagateOutputPackets
  <1>10. output.bound \in Int
    BY <1>8, SpecialTimestamps DEF OutTypes, Shards
  <1>11. CASE output.packets = <<>> /\ output.updated = Unset /\ c + 1 > output.bound
    <2>1. ComputeOutputTimestampBound(output, c) = c + 1
      <3>1. Later(Unset, c + 1) = c + 1
        BY <1>6 DEF Later
      <3>2. ComputeOutputTimestampBound(output, c) = Later(output.updated, c + 1)
        BY <1>6, <1>11 DEF ComputeOutputTimestampBound
      <3> QED
        BY <1>11, <3>1, <3>2
    <2>2. PropagateUpdatesToMirrors(c + 1, <<>>)
      BY <1>9, <1>11, <2>1
    <2>3. c + 1 \in Int /\ c + 1 # Unset /\ mirror_bound <= c + 1
      BY <1>4, <1>5, <1>6
    <2>4. out_bound' = c + 1 /\ mirror_bound' = c + 1 /\ mirror_refused' = mirror_refused
      BY <1>5, <1>6, <2>2, <2>3, SendsInTurn
    <2> QED
      BY <1>1, <1>6, <2>4 DEF NoneRefused
  <1>12. CASE output.packets = <<>> /\ output.updated = Unset /\ ~(c + 1 > output.bound)
    <2>1. ComputeOutputTimestampBound(output, c) = Unset
      BY <1>6, <1>10, <1>12 DEF ComputeOutputTimestampBound, Later
    <2>2. PropagateUpdatesToMirrors(Unset, <<>>)
      BY <1>9, <1>12, <2>1
    <2>3. UNCHANGED <<out_bound, mirror_bound, mirror_refused>>
      BY <2>2 DEF PropagateUpdatesToMirrors
    <2> QED
      BY <1>1, <1>4, <1>5, <1>6, <1>7, <2>3 DEF NoneRefused
  <1>13. CASE /\ c \notin {PreStream, RangeMax} /\ output.packets = <<c>>
              /\ output.bound = NextAllowedInStream(c) /\ output.updated = NextAllowedInStream(c)
    <2>1. output.packets # <<>> /\ output.packets[1] = c
      BY <1>13
    <2>2. ComputeOutputTimestampBound(output, c) = c + 1
      BY <1>6, <1>13, <2>1 DEF ComputeOutputTimestampBound, Later
    <2>3. PropagateUpdatesToMirrors(c + 1, <<c>>)
      BY <1>9, <1>13, <2>2
    <2>4. c + 1 \in Int /\ c + 1 # Unset /\ NextAllowedInStream(c) = c + 1
      BY <1>6, <1>13
    <2>5. c = PostStream => ~mirror_got_packet
      <3>1. c = PostStream => sends_post_stream
        BY <1>8, <2>1 DEF PostInv, PacketsFit
      <3> QED
        BY <1>4, <1>5, <1>6, <3>1 DEF PostInv, PostIsLast
    <2>6. out_bound' = c + 1 /\ mirror_bound' = c + 1 /\ mirror_refused' = mirror_refused
      BY <1>4, <1>5, <1>6, <2>3, <2>4, <2>5, SendsPacketInTurn
    <2> QED
      BY <1>1, <1>6, <2>6 DEF NoneRefused
  <1> QED
    BY <1>4, <1>8, <1>11, <1>12, <1>13 DEF InShard

\* The context that is recycled is the one whose packets have been propagated.
LEMMA RecycleFacts ==
    ASSUME NodeInv, Parallel, NEW t \in Threads, RecycleContext(t)
    PROVE  /\ RecycledContext = loc[t].context /\ loc[t].context \in active_contexts
           /\ \A c \in Timestamps : Sent(c) => c = RecycledContext
  <1>1. /\ pc[t] = "recycle" /\ loc[t].context \in active_contexts
        /\ \A c \in active_contexts : loc[t].context <= c
    BY ActiveFacts DEF RecycleContext, ActiveInv, PropagatesFirst
  <1>2. active_contexts \subseteq Timestamps /\ active_contexts # {}
    BY <1>1, NodeTypes
  <1>3. Earliest(active_contexts) \in active_contexts /\ Earliest(active_contexts) <= loc[t].context
    BY <1>1, <1>2, EarliestOfSome
  <1>4. RecycledContext = loc[t].context
    <2>1. PICK x : x = Earliest(active_contexts)
      OBVIOUS
    <2>2. x \in Int /\ loc[t].context \in Int /\ x <= loc[t].context /\ loc[t].context <= x
      BY <1>1, <1>2, <1>3, <2>1, SpecialTimestamps
    <2>3. x = loc[t].context
      BY <2>2
    <2> QED
      BY <2>1, <2>3 DEF RecycledContext
  <1>5. \A u \in Threads : pc[u] = "recycle" => u = t
    BY <1>1 DEF NodeInv, PlacesInv, LoopsExclusive, InPropagation
  <1> QED
    BY <1>1, <1>4, <1>5 DEF Sent

\* A context whose packets have been propagated is recycled by the same thread.
LEMMA SentStays ==
    ASSUME NodeInv, Parallel, NEW t \in Threads, Moves(t), StepOf(t), ~RecycleContext(t),
           NEW c, Sent(c)
    PROVE  Sent(c)'
  <1>1. PICK u \in Threads : pc[u] = "recycle" /\ loc[u].context = c
    BY DEF Sent
  <1>2. u # t
    BY <1>1, TurnsFrame
  <1> QED
    BY <1>1, <1>2 DEF Moves, Sent

\* Nothing has been sent of any context while packets are propagated.
LEMMA NoneSent ==
    ASSUME NodeInv, NEW t \in Threads, InPropagation(t), pc[t] # "recycle", NEW c
    PROVE  ~Sent(c)
  <1>1. \A u \in Threads : pc[u] = "recycle" => u = t
    BY DEF NodeInv, PlacesInv, LoopsExclusive, InPropagation
  <1> QED
    BY <1>1 DEF Sent

\* Every step keeps the shards of parallel invocations as they leave them.
LEMMA NodeShardsOk ==
    ASSUME NodeInv, OutTypes, InTurns, ShardsOk, NEW t \in Threads, UNCHANGED configVars, StepOf(t)
    PROVE  ShardsOk'
  <1> SUFFICES ASSUME NEW c \in Timestamps PROVE InShard(c)' \/ Sent(c)'
    BY DEF ShardsOk
  <1>0. Moves(t) /\ Parallel /\ Announced = {} /\ shard \in [Timestamps -> Shards]
    BY NodePlaces DEF StepOf, InTurns, OutTypes
  <1>1. InShard(c) \/ Sent(c)
    BY DEF ShardsOk
  <1>2. CASE shard' = shard /\ ~RecycleContext(t)
    BY <1>0, <1>1, <1>2, SentStays DEF InShard
  <1>3. CASE PropagatePackets(t)
    <2>1. /\ pc[t] = "propagate" /\ InPropagation(t)
          /\ shard' = [shard EXCEPT ![loc[t].context].packets = <<>>]
      BY <1>3 DEF PropagatePackets, PropagateOutputPackets, InPropagation
    <2>2. loc' = loc /\ pc'[t] = "recycle"
      BY <1>3, GoesEffect, <2>1 DEF OnlyGoes, Leads
    <2>3. CASE c = loc[t].context
      BY <2>2, <2>3 DEF Sent
    <2>4. CASE c # loc[t].context
      <3>1. shard'[c] = shard[c]
        BY <1>0, <2>1, <2>4
      <3>2. InShard(c)
        BY <1>1, <2>1, NoneSent
      <3> QED
        BY <3>1, <3>2 DEF InShard
    <2> QED
      BY <2>3, <2>4
  <1>4. CASE RecycleContext(t)
    <2>1. shard' = [shard EXCEPT ![RecycledContext] = NoShard]
      BY <1>4 DEF RecycleContext
    <2>2. CASE c = RecycledContext
      <3>1. shard'[c] = NoShard
        BY <1>0, <2>1, <2>2
      <3> QED
        BY <3>1 DEF InShard, NoShard
    <2>3. CASE c # RecycledContext
      <3>1. shard'[c] = shard[c] /\ InShard(c)
        BY <1>0, <1>1, <1>4, <2>1, <2>3, RecycleFacts
      <3> QED
        BY <3>1 DEF InShard
    <2> QED
      BY <2>2, <2>3
  <1>5. CASE t \in Workers /\ Process(t) /\ shard' # shard
    <2>1. PICK x : x = loc[t].context
      OBVIOUS
    <2>2. pc[t] = "process" /\ TurnTimestamp(t) # Done
      BY <1>5 DEF Process, TurnTimestamp, Default
    <2>3. x # Done
      BY <1>0, <1>5, <2>1, <2>2, TakingTurn
    <2>4. PICK output \in ProcessOutputs(x) : shard' = [shard EXCEPT ![x] = output]
      BY <1>5, <2>1, <2>3 DEF Process, Default
    <2>5. x \in Timestamps
      BY <2>1, NodeTypes, <1>5
    <2>6. CASE c = x
      <3>1. shard'[c] = output
        BY <1>0, <2>4, <2>6
      <3>2. CASE output = [NoShard EXCEPT !.bound = out_bound]
        <4>1. output.packets = <<>> /\ output.updated = Unset
          BY <3>2 DEF NoShard
        <4> QED
          BY <3>1, <4>1 DEF InShard
      <3>3. ASSUME NEW q \in MaySend(x),
                   output = [bound |-> NextAllowedInStream(q), updated |-> NextAllowedInStream(q),
                             packets |-> <<q>>]
            PROVE  InShard(c)'
        <4>1. q = c /\ c \notin {PreStream, RangeMax}
          BY <2>6, <3>3 DEF MaySend
        <4> QED
          BY <3>1, <3>3, <4>1 DEF InShard
      <3>4. MayAnnounce(x) = {}
        BY <1>0 DEF MayAnnounce
      <3> QED
        BY <2>4, <3>2, <3>3, <3>4 DEF ProcessOutputs
    <2>7. CASE c # x
      <3>1. shard'[c] = shard[c]
        BY <1>0, <2>4, <2>7
      <3>2. ~RecycleContext(t)
        BY <2>2 DEF RecycleContext
      <3> QED
        BY <1>0, <1>1, <3>1, <3>2, SentStays DEF InShard
    <2> QED
      BY <2>6, <2>7
  <1> QED
    BY <1>0, <1>2, <1>3, <1>4, <1>5, TurnsFrame

\* A step that sends nothing.
LEMMA SilentMirror ==
    ASSUME NodeInv, NodeInv', Parallel, MirrorOk, NEW t \in Threads, UNCHANGED configVars, StepOf(t),
           UNCHANGED <<out_bound, mirror_bound, mirror_refused>>
    PROVE  MirrorOk'
  <1>0. Moves(t) /\ NoneRefused /\ MirrorFollows /\ MirrorDue /\ MirrorBehind
    BY NodePlaces DEF StepOf, MirrorOk
  <1>1. NoneRefused' /\ MirrorFollows'
    BY <1>0 DEF NoneRefused, MirrorFollows
  <1>2. MirrorDue'
    BY <1>0, ComesBefore DEF MirrorDue
  <1>3. MirrorBehind'
    <2> SUFFICES ASSUME NEW c \in active_contexts', ~Sent(c)' PROVE mirror_bound <= c
      BY DEF MirrorBehind
    <2>1. CASE RecycleContext(t)
      <3>1. active_contexts' = active_contexts \ {RecycledContext}
        BY <2>1 DEF RecycleContext
      <3>2. c \in active_contexts /\ c # RecycledContext /\ c \in Timestamps
        BY <3>1, NodeTypes
      <3>3. ~Sent(c)
        BY <2>1, <3>2, RecycleFacts
      <3> QED
        BY <1>0, <3>2, <3>3 DEF MirrorBehind
    <2>2. CASE c \in active_contexts /\ ~RecycleContext(t)
      <3>1. ~Sent(c)
        BY <1>0, <2>2, SentStays
      <3> QED
        BY <1>0, <2>2, <3>1 DEF MirrorBehind
    <2>3. CASE c \notin active_contexts /\ ~RecycleContext(t)
      <3>1. Decide(t) /\ PrepareContext(t)
        BY <2>3, TurnsFrame
      <3>2. /\ pc[t] = "scan" /\ loc[t].i \notin Streams
            /\ ReadyForProcess(loc[t].min_packet, loc[t].min_bound)
            /\ c = InputTimestamp(loc[t].min_packet, loc[t].min_bound)
        BY <2>3, <3>1 DEF Decide, PrepareContext
      <3>3. c \in Timestamps /\ Comes(c)
        BY <3>2, ReadyComes
      <3> QED
        BY <1>0, <3>3 DEF MirrorDue
    <2> QED
      BY <2>1, <2>2, <2>3
  <1> QED
    BY <1>1, <1>2, <1>3 DEF MirrorOk

\* The packets of the first active context are sent.
LEMMA PacketsMirror ==
    ASSUME NodeInv, NodeInv', OutTypes, PostInv, Parallel, MirrorOk, ShardsOk, NEW t \in Threads,
           UNCHANGED configVars, PropagatePackets(t)
    PROVE  MirrorOk'
  <1>0. /\ StepOf(t) /\ NoneRefused /\ MirrorFollows /\ MirrorBehind
        /\ NoneRefused' /\ mirror_bound' = out_bound'
        /\ mirror_bound' \in Int /\ mirror_bound' <= loc[t].context + 1
    BY OutputsInTurn DEF StepOf, ThreadStep, OutputStep, MirrorOk
  <1>1. PICK c \in Timestamps : c = loc[t].context
    BY NodeTypes
  <1>2. /\ pc[t] = "propagate" /\ c \in active_contexts /\ c \in Int
        /\ active_contexts' = active_contexts /\ active_contexts \subseteq Timestamps
        /\ \A d \in active_contexts : c <= d
    BY <1>1, ActiveFacts, SpecialTimestamps DEF PropagatePackets, ActiveInv, PropagatesFirst
  <1>3. loc' = loc /\ pc'[t] = "recycle"
    BY <1>2, GoesEffect DEF OnlyGoes, Leads
  <1>4. Sent(c)'
    BY <1>1, <1>3 DEF Sent
  <1>5. MirrorBehind'
    <2> SUFFICES ASSUME NEW d \in active_contexts', d # c PROVE mirror_bound' <= d
      BY <1>4 DEF MirrorBehind
    <2>1. d \in Int /\ c < d
      BY <1>2, SpecialTimestamps
    <2>2. PICK x \in Int : x = mirror_bound'
      BY <1>0
    <2>3. x <= c + 1
      BY <1>0, <1>1, <2>2
    <2>4. x <= d
      BY <1>2, <2>1, <2>3
    <2> QED
      BY <2>2, <2>4
  <1>6. MirrorDue'
    <2> SUFFICES ASSUME NEW time \in Timestamps, Comes(time)' PROVE mirror_bound' <= time
      BY DEF MirrorDue
    <2>1. Comes(time)
      BY <1>0, ComesBefore
    <2>2. ~Over
      BY <2>1, NothingComes
    <2>3. c <= last_processed_ts
      BY <1>2, <2>2, ActiveFacts DEF ActiveInv
    <2>4. time > last_processed_ts /\ time \in Int /\ last_processed_ts \in Int
      BY <2>1, NodeTypes, SpecialTimestamps DEF Comes, MayCome, After
    <2>5. PICK x \in Int : x = mirror_bound'
      BY <1>0
    <2>6. x <= c + 1
      BY <1>0, <1>1, <2>5
    <2>7. x <= time
      BY <1>2, <2>3, <2>4, <2>6
    <2> QED
      BY <2>5, <2>7
  <1> QED
    BY <1>0, <1>5, <1>6 DEF MirrorOk, MirrorFollows

\* A bound is sent that stands against nothing.
LEMMA BoundMirror ==
    ASSUME NodeInv, NodeInv', OutTypes, Parallel, MirrorOk, BoundsDue, NEW t \in Threads, UNCHANGED configVars,
           BoundFirst(t), SendOk(t), SendBound(t)
    PROVE  MirrorOk'
  <1>0. /\ StepOf(t) /\ Moves(t) /\ NoneRefused /\ MirrorFollows /\ MirrorDue /\ MirrorBehind
        /\ pc[t] = "send_bound" /\ active_contexts' = active_contexts /\ ~RecycleContext(t)
    BY NodePlaces DEF StepOf, ThreadStep, OutputStep, MirrorOk, SendBound, RecycleContext, contextVars
  <1>1. PICK b \in Timestamps : b = loc[t].timestamp
    BY NodeTypes
  <1>2. PropagateUpdatesToMirrors(b, <<>>)
    BY <1>1 DEF SendBound
  <1>3. b \in Int /\ b # Unset /\ IsRangeValue(b) /\ (b > out_bound \/ mirror_bound = Done)
    BY <1>0, <1>1, SpecialTimestamps DEF SendOk, IsRangeValue
  <1>4. CASE mirror_bound = Done
    <2>1. mirror_bound' = Done /\ NoneRefused'
      BY <1>0, <1>2, <1>3, <1>4, SendsAfterClose
    <2>2. MirrorDue'
      BY <1>0, <1>4, <2>1, ComesBefore DEF MirrorDue
    <2>3. MirrorBehind'
      BY <1>0, <1>4, <2>1, SentStays DEF MirrorBehind
    <2> QED
      BY <2>1, <2>2, <2>3 DEF MirrorOk, MirrorFollows
  <1>5. CASE mirror_bound # Done
    <2>1. PICK x \in Int : x = mirror_bound /\ x = out_bound
      BY <1>0, <1>5, SpecialTimestamps DEF MirrorFollows, OutTypes
    <2>2. mirror_bound \in Int /\ mirror_bound <= b
      BY <1>3, <1>5, <2>1
    <2>3. out_bound' = b /\ mirror_bound' = b /\ mirror_refused' = mirror_refused
      BY <1>2, <1>3, <2>2, SendsInTurn
    <2>4. MirrorBehind'
      <3>1. \A c \in active_contexts : b <= c
        BY <1>0, <1>1, <1>3 DEF BoundFirst, BoundLabels
      <3> QED
        BY <1>0, <2>3, <3>1 DEF MirrorBehind
    <2>5. MirrorDue'
      <3>1. Due(b)
        BY <1>0, <1>1 DEF BoundsDue, BoundLabels
      <3> QED
        BY <1>0, <1>3, <2>3, <3>1, ComesBefore DEF Due, MirrorDue
    <2> QED
      BY <1>0, <2>3, <2>4, <2>5 DEF MirrorOk, MirrorFollows, NoneRefused
  <1> QED
    BY <1>4, <1>5

\* The stream is ended when nothing is left and nothing comes.
LEMMA EndMirror ==
    ASSUME NodeInv, NodeInv', OutTypes, Parallel, IdleAtEnd, MirrorOk, NEW w \in Workers, UNCHANGED configVars,
           CloseOutputStreams(w)
    PROVE  MirrorOk' /\ mirror_bound' = Done
  <1>0. /\ w \in Threads /\ StepOf(w) /\ NoneRefused /\ MirrorFollows
        /\ pc[w] = "close_outputs" /\ active_contexts' = active_contexts
    BY NodeTypes DEF StepOf, ThreadStep, WorkerStep, MirrorOk, CloseOutputStreams, contextVars
  <1>1. prepared_context_for_close
    BY <1>0 DEF NodeInv, BatchInv, RunsBatch
  <1>2. active_contexts' = {} /\ Over
    BY <1>0, <1>1 DEF IdleAtEnd, EndComes, NodeInv, InputsInv
  <1>3. NothingToCome'
    BY <1>0, <1>2, OverStays, NothingComesNext
  <1>4. PropagateUpdatesToMirrors(Done, <<>>)
    BY DEF CloseOutputStreams
  <1>5. Done \in Int /\ Done # Unset /\ mirror_bound \in Int /\ mirror_bound <= Done
    BY SpecialTimestamps DEF OutTypes
  <1>6. out_bound' = Done /\ mirror_bound' = Done /\ mirror_refused' = mirror_refused
    BY <1>4, <1>5, SendsInTurn
  <1>7. NoneRefused' /\ MirrorFollows'
    BY <1>0, <1>6 DEF NoneRefused, MirrorFollows
  <1>8. MirrorDue' /\ MirrorBehind'
    BY <1>2, <1>3 DEF MirrorDue, MirrorBehind, NothingToCome
  <1> QED
    BY <1>6, <1>7, <1>8 DEF MirrorOk

\* A thread comes to send a bound only by testing it.
LEMMA TestedBound ==
    ASSUME NodeInv, NEW t \in Threads, UNCHANGED configVars, StepOf(t), pc'[t] = "send_bound"
    PROVE  TryBound(t) /\ loc' = loc /\ BoundIsNews(loc[t].timestamp)
  <1>1. (TryBound(t) \/ SendBound(t)) /\ loc' = loc
    BY BoundMoves DEF BoundLabels
  <1>2. Leads(t, pc[t], pc'[t])
    BY <1>1, GoesEffect DEF OnlyGoes
  <1>3. ~SendBound(t)
    BY <1>2 DEF Leads, SendBound
  <1>4. pc \in [Threads -> Labels]
    BY NodeTypes, ThreadFacts
  <1>5. BoundIsNews(loc[t].timestamp)
    BY <1>1, <1>3, <1>4 DEF TryBound, Goto
  <1> QED
    BY <1>1, <1>3, <1>5

LEMMA NodeSendOk ==
    ASSUME NodeInv, Parallel, OutTypes, NEW t \in Threads, UNCHANGED configVars, StepOf(t),
           t \in Workers /\ CloseOutputStreams(t) => mirror_bound' = Done,
           NEW u \in Threads, SendOk(u)
    PROVE  SendOk(u)'
  <1> SUFFICES ASSUME pc'[u] = "send_bound"
               PROVE  IsRangeValue(loc'[u].timestamp) /\ (loc'[u].timestamp > out_bound' \/ mirror_bound' = Done)
    BY DEF SendOk
  <1>0. Moves(t)
    BY NodePlaces DEF StepOf
  <1>1. CASE u = t
    <2>1. TryBound(t) /\ loc' = loc /\ BoundIsNews(loc[t].timestamp)
      BY <1>1, TestedBound
    <2>2. out_bound' = out_bound
      BY <2>1 DEF TryBound, outVars
    <2> QED
      BY <1>1, <2>1, <2>2 DEF BoundIsNews
  <1>2. CASE u # t
    <2>1. pc[u] = "send_bound" /\ loc'[u] = loc[u]
      BY <1>0, <1>2 DEF Moves
    <2>2. ~InPropagation(t)
      BY <1>2, <2>1 DEF NodeInv, PlacesInv, LoopsExclusive, InPropagation
    <2>3. ~PropagatePackets(t) /\ ~SendBound(t)
      BY <2>2 DEF InPropagation, PropagatePackets, SendBound
    <2>4. CASE t \in Workers /\ CloseOutputStreams(t)
      BY <2>1, <2>4 DEF SendOk
    <2>5. CASE UNCHANGED <<out_bound, mirror_bound, mirror_refused>>
      BY <2>1, <2>5 DEF SendOk
    <2> QED
      BY <2>3, <2>4, <2>5, TurnsFrame
  <1> QED
    BY <1>1, <1>2

LEMMA NodeBoundFirst ==
    ASSUME NodeInv, Parallel, BoundsDue, NEW t \in Threads, UNCHANGED configVars, StepOf(t),
           NEW u \in Threads, BoundFirst(u)
    PROVE  BoundFirst(u)'
  <1> SUFFICES ASSUME pc'[u] \in BoundLabels, IsRangeValue(loc'[u].timestamp), NEW c \in active_contexts'
               PROVE  loc'[u].timestamp <= c
    BY DEF BoundFirst
  <1>0. Moves(t)
    BY NodePlaces DEF StepOf
  <1>1. pc[u] \in BoundLabels /\ loc'[u] = loc[u]
    <2>1. CASE u = t
      BY <2>1, BoundMoves
    <2>2. CASE u # t
      BY <1>0, <2>2 DEF Moves
    <2> QED
      BY <2>1, <2>2
  <1>2. CASE c \in active_contexts
    BY <1>1, <1>2 DEF BoundFirst
  <1>3. CASE c \notin active_contexts
    <2>1. Decide(t) /\ PrepareContext(t)
      BY <1>3, TurnsFrame DEF RecycleContext
    <2>2. /\ pc[t] = "scan" /\ loc[t].i \notin Streams
          /\ ReadyForProcess(loc[t].min_packet, loc[t].min_bound)
          /\ c = InputTimestamp(loc[t].min_packet, loc[t].min_bound)
      BY <1>3, <2>1 DEF Decide, PrepareContext
    <2>3. c \in Timestamps /\ Comes(c)
      BY <2>2, ReadyComes
    <2>4. Due(loc[u].timestamp)
      BY <1>1 DEF BoundsDue
    <2> QED
      BY <1>1, <2>3, <2>4 DEF Due
  <1> QED
    BY <1>2, <1>3

\* Every step keeps what parallel invocations send in its order.
LEMMA NodeTurns ==
    ASSUME ServesInv, NodeInv', IdleAtEnd, TurnsInv, NEW t \in Threads, UNCHANGED configVars, StepOf(t)
    PROVE  TurnsInv'
  <1>1. NodeInv /\ OutTypes /\ PostInv /\ EmptyInv
    BY DEF ServesInv
  <1>2. InTurns' <=> InTurns
    BY DEF InTurns, configVars, Parallel
  <1> SUFFICES ASSUME InTurns PROVE TurnsOk'
    BY <1>2 DEF TurnsInv
  <1>3. Parallel /\ MirrorOk /\ BoundsDue /\ ShardsOk /\ \A u \in Threads : BoundFirst(u) /\ SendOk(u)
    BY DEF TurnsInv, TurnsOk, InTurns
  <1>4. BoundsDue' /\ ShardsOk'
    BY <1>1, <1>3, NodeBoundsDue, NodeShardsOk
  <1>5. MirrorOk'
    <2>1. CASE PropagatePackets(t)
      BY <1>1, <1>3, <2>1, PacketsMirror
    <2>2. CASE SendBound(t)
      BY <1>1, <1>3, <2>2, BoundMirror
    <2>3. CASE t \in Workers /\ CloseOutputStreams(t)
      BY <1>1, <1>3, <2>3, EndMirror
    <2>4. CASE UNCHANGED <<out_bound, mirror_bound, mirror_refused>>
      BY <1>1, <1>3, <2>4, SilentMirror
    <2> QED
      BY <1>1, <1>3, <2>1, <2>2, <2>3, <2>4, TurnsFrame
  <1>6. t \in Workers /\ CloseOutputStreams(t) => mirror_bound' = Done
    BY <1>1, <1>3, EndMirror
  <1>7. \A u \in Threads : BoundFirst(u)' /\ SendOk(u)'
    BY <1>1, <1>3, <1>6, NodeBoundFirst, NodeSendOk
  <1> QED
    BY <1>4, <1>5, <1>7 DEF TurnsOk

LEMMA TurnsInit == Init => TurnsInv
  <1> SUFFICES ASSUME Init, InTurns PROVE TurnsOk
    BY DEF TurnsInv
  <1>1. /\ active_contexts = {} /\ task_timestamp_bound = Unset
        /\ out_bound = PreStream /\ mirror_bound = PreStream /\ mirror_refused = {}
    BY DEF Init
  <1>2. \A t \in Threads : pc[t] \in {"produce", "free"}
    BY DEF Init, Home
  <1>3. MirrorOk
    BY <1>1 DEF MirrorOk, NoneRefused, MirrorFollows, MirrorDue, MirrorBehind, Comes, MayCome, After,
                IsAllowedInStream
  <1>4. ~IsRangeValue(Unset)
    BY SpecialTimestamps DEF IsRangeValue
  <1>5. BoundsDue /\ \A t \in Threads : BoundFirst(t) /\ SendOk(t)
    BY <1>1, <1>2, <1>4 DEF BoundsDue, Due, BoundFirst, SendOk, BoundLabels
  <1>6. \A c \in Timestamps : shard[c] = NoShard
    BY DEF Init
  <1>7. ShardsOk
    BY <1>6 DEF ShardsOk, InShard, NoShard
  <1> QED
    BY <1>3, <1>5, <1>7 DEF TurnsOk

LEMMA TurnsStutter == TurnsInv /\ UNCHANGED vars => TurnsInv'
  <1> SUFFICES ASSUME TurnsInv, UNCHANGED vars PROVE TurnsInv'
    OBVIOUS
  <1>1. /\ UNCHANGED <<max_in_flight, process_timestamps, last_processed_ts, active_contexts, shard>>
        /\ UNCHANGED <<task_timestamp_bound, queue, next_timestamp_bound>>
        /\ UNCHANGED <<out_bound, mirror_bound, mirror_refused, pc, loc>>
    BY DEF vars, nodeVars, streamVars, queueVars, boundVars, configVars, inputVars, contextVars,
           propVars, outVars
  <1>2. \A c \in Timestamps : Comes(c)' <=> Comes(c)
    BY <1>1 DEF Comes, MayCome, After, Passed, MinTimestampOrBound
  <1>3. MirrorOk => MirrorOk'
    BY <1>1, <1>2 DEF MirrorOk, NoneRefused, MirrorFollows, MirrorDue, MirrorBehind, Sent
  <1>4. BoundsDue => BoundsDue'
    BY <1>1, <1>2 DEF BoundsDue, Due
  <1>5. ShardsOk => ShardsOk'
    BY <1>1 DEF ShardsOk, InShard, Sent
  <1>6. \A t \in Threads : (BoundFirst(t) => BoundFirst(t)') /\ (SendOk(t) => SendOk(t)')
    BY <1>1 DEF BoundFirst, SendOk
  <1> QED
    BY <1>1, <1>3, <1>4, <1>5, <1>6 DEF TurnsInv, TurnsOk, InTurns, Parallel

\* It holds throughout.
LEMMA TurnsInvHolds == Spec => []TurnsInv
  <1>1. ServesInv /\ ServesInv' /\ DrainInv /\ TurnsInv /\ [Next]_vars => TurnsInv'
    <2> SUFFICES ASSUME ServesInv, ServesInv', DrainInv, TurnsInv, Next PROVE TurnsInv'
      BY TurnsStutter
    <2>1. UNCHANGED configVars
      BY DEF Next
    <2>2. PICK t \in Threads : StepOf(t)
      BY DEF Next, StepOf, Threads
    <2> QED
      BY <2>1, <2>2, NodeTurns DEF ServesInv, DrainInv
  <1> QED
    BY <1>1, TurnsInit, ServesInvHolds, DrainInvHolds, PTL DEF Spec

\* Whatever the number of invocations in flight, the stream at the other end
\* accepts every packet and every bound up to the end of the stream, provided
\* that invocations which run in parallel announce no bounds ahead of time: the
\* packets of an invocation wait for those of the earlier ones, and the bounds of
\* the scheduling loop for all that are under way.
THEOREM OutputsInOrder ==
    MaxInFlights \subseteq {1} \/ Announced = {} => (Spec => []OutputsAccepted)
  <1> SUFFICES ASSUME MaxInFlights \subseteq {1} \/ Announced = {} PROVE Spec => []OutputsAccepted
    OBVIOUS
  <1>1. ServesInv /\ TurnsInv => OutputsAccepted
    <2> SUFFICES ASSUME ServesInv, TurnsInv PROVE OutputsAccepted
      OBVIOUS
    <2>1. CASE ~Parallel
      BY <2>1 DEF ServesInv, AnnounceInv, OutputsAccepted
    <2>2. CASE Parallel
      <3>1. max_in_flight \in MaxInFlights
        BY DEF ServesInv, NodeInv, ConfigInv
      <3>2. Announced = {}
        BY <2>2, <3>1 DEF Parallel
      <3> QED
        BY <2>2, <3>2 DEF TurnsInv, TurnsOk, InTurns, MirrorOk, NoneRefused, OutputsAccepted
    <2> QED
      BY <2>1, <2>2
  <1> QED
    BY <1>1, ServesInvHolds, TurnsInvHolds, PTL
=============================================================================
