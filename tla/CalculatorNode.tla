--------------------------- MODULE CalculatorNode ---------------------------
(***************************************************************************)
(* A node with input streams between its opening and its closing:          *)
(* calculator_node.cc (CheckIfBecameReady, SchedulingLoop, ProcessNode,    *)
(* EndScheduling), input_stream_handler.cc with the default policy,        *)
(* calculator_context_manager.cc, output_stream_handler.cc and             *)
(* in_order_output_stream_handler.cc, output_stream_manager.cc.            *)
(*                                                                         *)
(* Threads run the node: for every input stream the upstream thread that   *)
(* propagates to it, and the workers of the executor.  A step of a thread  *)
(* is what it does while it holds one mutex.  pc names the step a thread   *)
(* takes next, loc its local variables.                                    *)
(*                                                                         *)
(* Abstracted: the node has one output stream, whose offset is 0, and that *)
(* stream has one mirror.  Packets are their timestamps.  Nodes that fail  *)
(* or stop are the business of Scheduler.                                  *)
(***************************************************************************)
EXTENDS InputStreamManager

CONSTANTS Workers,          \* the threads of the executor
          MaxInFlights,     \* the values of max_in_flight_ to choose from
          BatchSizes,       \* the values of batch_size_, 1 for parallel nodes
          ProcessTimestamps, \* the values of process_timestamps_
          SendsPostStream,  \* whether the calculator's packet is at PostStream
          PacketTimes,      \* the timestamps of the packets that may arrive
          BoundTimes,       \* the bounds that may be announced
          Announced         \* bounds an invocation may announce ahead of time

ASSUME NodeAssumption ==
    /\ IsFiniteSet(Streams) /\ Streams = 1 .. Cardinality(Streams) /\ Streams # {}
    /\ MaxInFlights \subseteq Nat \ {0} /\ BatchSizes \subseteq Nat \ {0}
    /\ ProcessTimestamps \subseteq BOOLEAN /\ SendsPostStream \subseteq BOOLEAN
    /\ PacketTimes \subseteq Timestamps /\ BoundTimes \subseteq Timestamps
    /\ Announced \subseteq Timestamps
    /\ Workers \cap Streams = {}

VARIABLES max_in_flight, batch_size, process_timestamps, \* fixed before the run
          sends_post_stream,  \* so is this, by the calculator
          status,             \* status_: Prepared, Opened or Closed
          scheduling_state, current_in_flight,
          last_processed_ts, prepared_context_for_close,
          active_contexts,    \* the input timestamps of the active contexts
          batch,              \* the input timestamps in the default context
          scheduled,          \* the contexts in the queue of the scheduler
          shard,              \* the output shard of each context
          completed_input_timestamps, task_timestamp_bound, propagation_state,
          out_bound,          \* next_timestamp_bound_ of the output stream
          mirror_bound,       \* the bound of the stream at its other end
          mirror_got_packet,  \* num_packets_added_ of that stream is not 0
          mirror_refused,     \* what it has refused
          failed,             \* the CHECKs that have failed
          pc, loc

configVars == <<enable_timestamps, max_in_flight, batch_size, process_timestamps,
                sends_post_stream>>
schedVars  == <<status, scheduling_state, current_in_flight, scheduled>>
inputVars  == <<last_processed_ts, prepared_context_for_close>>
contextVars == <<active_contexts, batch, shard>>
propVars   == <<completed_input_timestamps, task_timestamp_bound, propagation_state>>
outVars    == <<out_bound, mirror_bound, mirror_got_packet, mirror_refused>>
nodeVars   == <<configVars, schedVars, inputVars, contextVars, propVars, outVars,
                failed, pc, loc>>
vars       == <<streamVars, nodeVars>>

Threads == Streams \cup Workers

Parallel == max_in_flight > 1

\* The default context; the other contexts are named by their timestamps.
Default == Done

NoShard == [bound |-> Unset, updated |-> Unset, packets |-> <<>>]

NoLocals == [left |-> 0, i |-> 0, min_bound |-> Done, min_packet |-> Done,
             timestamp |-> Unset, context |-> Default, invocations |-> 0,
             caller |-> "none"]

\* Where a thread is between two of its calls into the node.
Home(t) == IF t \in Streams THEN "produce" ELSE "free"

Return(t) == pc' = [pc EXCEPT ![t] = Home(t)] /\ loc' = [loc EXCEPT ![t] = NoLocals]

Goto(t, label) == pc' = [pc EXCEPT ![t] = label]

\* The CHECK of this name holds or is recorded.
Check(name, condition) ==
    failed' = IF condition THEN failed ELSE failed \cup {name}

Init ==
    /\ StreamInit
    /\ enable_timestamps = [s \in Streams |-> TRUE]
    /\ max_in_flight \in MaxInFlights
    /\ batch_size \in IF Parallel THEN {1} ELSE BatchSizes
    /\ process_timestamps \in ProcessTimestamps
    /\ sends_post_stream \in SendsPostStream
    /\ status = "Prepared"
    /\ scheduling_state = "Idle" /\ current_in_flight = 0
    /\ last_processed_ts = Unset /\ prepared_context_for_close = FALSE
    /\ active_contexts = {} /\ batch = <<>> /\ scheduled = {}
    /\ shard = [c \in Timestamps |-> NoShard]
    /\ completed_input_timestamps = {} /\ task_timestamp_bound = Unset
    /\ propagation_state = "Idle"
    /\ out_bound = PreStream /\ mirror_bound = PreStream
    /\ mirror_got_packet = FALSE /\ mirror_refused = {}
    /\ failed = {}
    /\ pc = [t \in Threads |-> Home(t)] /\ loc = [t \in Threads |-> NoLocals]

-----------------------------------------------------------------------------
(* The upstream threads: InputStreamHandler::AddPackets and                *)
(* SetNextTimestampBound, each followed by the notification it asks for.   *)

Produce(s) ==
    /\ pc[s] = "produce" /\ ~closed[s]
    /\ \/ \E p \in PacketTimes :
             /\ AcceptsPacket(s, <<p>>, 1)
             /\ AddPackets(s, <<p>>)
             /\ Goto(s, IF AddPacketsNotifies(s) THEN "notify" ELSE "produce")
       \/ \E b \in BoundTimes :
             /\ b > next_timestamp_bound[s]
             /\ SetNextTimestampBound(s, b)
             /\ Goto(s, IF SetBoundNotifies(s, b) THEN "notify" ELSE "produce")
    /\ UNCHANGED <<schedVars, inputVars, contextVars, propVars, outVars,
                   failed, loc>>

\* The end of the stream, OutputStreamManager::Close() of the upstream node.
EndStream(s) ==
    /\ pc[s] = "produce" /\ next_timestamp_bound[s] # Done
    /\ SetNextTimestampBound(s, Done)
    /\ Goto(s, IF SetBoundNotifies(s, Done) THEN "notify" ELSE "produce")
    /\ UNCHANGED <<schedVars, inputVars, contextVars, propVars, outVars,
                   failed, loc>>

-----------------------------------------------------------------------------
(* Scheduling.                                                             *)

\* OpenNode() and the call of NodeOpened() after it.
OpenNode(w) ==
    /\ pc[w] = "free" /\ status = "Prepared"
    /\ status' = "Opened"
    /\ Goto(w, "notify")
    /\ UNCHANGED <<streamVars, scheduling_state, current_in_flight, scheduled,
                   inputVars, contextVars,
                   propVars, outVars, failed, loc>>

\* Seeded fault: a notification during the scheduling is forgotten.
ForgetNotification == scheduling_state

\* The state once the thread that schedules the node has been told to look again.
ToldToLookAgain ==
    IF scheduling_state = "Scheduling" THEN "SchedulingPending" ELSE scheduling_state

CheckIfBecameReady(t) ==
    /\ pc[t] = "notify"
    /\ IF status # "Opened"
       THEN UNCHANGED scheduling_state /\ Return(t)
       ELSE IF scheduling_state = "Idle" /\ current_in_flight < max_in_flight
       THEN scheduling_state' = "Scheduling" /\ Goto(t, "begin") /\ UNCHANGED loc
       ELSE scheduling_state' = ToldToLookAgain /\ Return(t)
    /\ UNCHANGED <<streamVars, status,
                   current_in_flight, scheduled, inputVars, contextVars, propVars,
                   outVars, failed>>

\* max_allowance of SchedulingLoop().
Allowance == max_in_flight - current_in_flight

\* A thread goes on with the next readiness test or leaves the inner loop.
NextInvocation(t, left) ==
    /\ loc' = [loc EXCEPT ![t] = [NoLocals EXCEPT !.left = left, !.i = 1]]
    /\ Goto(t, IF left > 0 THEN "scan" ELSE "recheck")

\* The first block of SchedulingLoop().
BeginLoop(t) ==
    /\ pc[t] = "begin"
    /\ IF status = "Closed"
       THEN scheduling_state' = "Idle" /\ Return(t)
       ELSE /\ UNCHANGED scheduling_state
            /\ NextInvocation(t, Allowance)
    /\ UNCHANGED <<streamVars, status,
                   current_in_flight, scheduled, inputVars, contextVars, propVars,
                   outVars, failed>>

\* GetReadiness() looks at one stream after the other.
ScanStream(t) ==
    LET s == loc[t].i
        time == MinTimestampOrBound(s)
    IN  /\ pc[t] = "scan" /\ s \in Streams
        /\ loc' = IF queue[s] = <<>>
                  THEN [loc EXCEPT ![t].i = s + 1, ![t].min_bound = Earlier(@, time)]
                  ELSE [loc EXCEPT ![t].i = s + 1, ![t].min_packet = Earlier(@, time)]
        /\ UNCHANGED <<streamVars, schedVars, inputVars, contextVars, propVars, outVars, failed, pc>>

\* What GetReadiness() makes of the two minima.
MinStreamTimestamp(min_packet, min_bound) == Earlier(min_packet, min_bound)

ReadyForClose(min_packet, min_bound) ==
    MinStreamTimestamp(min_packet, min_bound) >= OneOverPostStream

InputTimestamp(min_packet, min_bound) ==
    IF ~process_timestamps
    THEN MinStreamTimestamp(min_packet, min_bound)
    ELSE Earlier(min_packet,
                 IF min_packet = PostStream /\ min_bound > min_packet THEN min_packet
                 ELSE PreviousAllowedInStream(min_bound))

ReadyForProcess(min_packet, min_bound) ==
    /\ ~ReadyForClose(min_packet, min_bound)
    /\ IF ~process_timestamps
       THEN min_bound > min_packet
       ELSE InputTimestamp(min_packet, min_bound) > Later(last_processed_ts, Unstarted)

\* kNotReady: the bound to announce, which is that of an unfinished batch.
NotReady(t) ==
    /\ ~ReadyForClose(loc[t].min_packet, loc[t].min_bound)
    /\ ~ReadyForProcess(loc[t].min_packet, loc[t].min_bound)
    /\ loc' = [loc EXCEPT ![t] =
                 [NoLocals EXCEPT !.caller = "recheck", !.timestamp =
                    IF batch_size > 1 /\ batch # <<>> THEN Head(batch)
                    ELSE MinStreamTimestamp(loc[t].min_packet, loc[t].min_bound)]]
    /\ Goto(t, "bound")
    /\ UNCHANGED <<inputVars, active_contexts, batch, failed>>

\* kReadyForProcess: a context is prepared for the input timestamp.
PrepareContext(t) ==
    LET timestamp == InputTimestamp(loc[t].min_packet, loc[t].min_bound)
    IN  /\ ReadyForProcess(loc[t].min_packet, loc[t].min_bound)
        /\ last_processed_ts' = timestamp
        /\ Check("context is new", ~Parallel \/ timestamp \notin active_contexts)
        /\ IF Parallel
           THEN active_contexts' = active_contexts \cup {timestamp} /\ UNCHANGED batch
           ELSE batch' = Append(batch, timestamp) /\ UNCHANGED active_contexts
        /\ loc' = [loc EXCEPT ![t].timestamp = timestamp, ![t].i = 1]
        /\ Goto(t, "fill")
        /\ UNCHANGED prepared_context_for_close

MayPrepareClose == active_contexts = {} /\ ~prepared_context_for_close

\* kReadyForClose: the default context gets Timestamp::Done(), once and when no
\* invocation is under way.
PrepareClose(t) ==
    /\ ReadyForClose(loc[t].min_packet, loc[t].min_bound)
    /\ last_processed_ts' = PreviousAllowedInStream(Done)
    /\ IF MayPrepareClose
       THEN /\ batch' = Append(batch, Done)
            /\ loc' = [loc EXCEPT ![t].timestamp = Done]
            /\ Goto(t, "schedule")
       ELSE UNCHANGED <<batch, loc>> /\ Goto(t, "recheck")
    /\ UNCHANGED <<prepared_context_for_close, active_contexts, failed>>

Decide(t) ==
    /\ pc[t] = "scan" /\ loc[t].i \notin Streams
    /\ NotReady(t) \/ PrepareContext(t) \/ PrepareClose(t)
    /\ UNCHANGED <<streamVars, schedVars,
                   shard, propVars, outVars>>

\* FillInputSet() pops one stream after the other; the context is scheduled
\* when its batch is complete.
FillStream(t) ==
    LET s == loc[t].i
        timestamp == loc[t].timestamp
    IN  /\ pc[t] = "fill"
        /\ Check("selected in order, nothing dropped",
                 /\ IsAllowedInStream(timestamp)
                 /\ last_select_timestamp[s] <= timestamp
                 /\ ~DropsPackets(s, timestamp))
        /\ PopPacketAtTimestamp(s, timestamp)
        /\ IF s + 1 \in Streams
           THEN loc' = [loc EXCEPT ![t].i = s + 1] /\ UNCHANGED pc
           ELSE IF Parallel \/ Len(batch) = batch_size
           THEN Goto(t, "schedule") /\ UNCHANGED loc
           ELSE NextInvocation(t, loc[t].left)
        /\ UNCHANGED <<schedVars, inputVars, contextVars, propVars, outVars>>

\* schedule_callback_: AddNode() of the queue and TryToBeginScheduling().
Schedule(t) ==
    LET timestamp == loc[t].timestamp
        context == IF Parallel THEN timestamp ELSE Default
    IN  /\ pc[t] = "schedule"
        /\ Check("context is committed to be scheduled", current_in_flight < max_in_flight)
        /\ current_in_flight' = current_in_flight + 1
        /\ scheduled' = scheduled \cup {context}
        /\ IF timestamp = Done
           THEN /\ prepared_context_for_close' = TRUE
                /\ loc' = [loc EXCEPT ![t] = NoLocals] /\ Goto(t, "recheck")
           ELSE /\ UNCHANGED prepared_context_for_close
                /\ NextInvocation(t, loc[t].left - 1)
        /\ UNCHANGED <<streamVars, status, scheduling_state, last_processed_ts,
                       contextVars, propVars, outVars>>

\* Seeded fault: the loop is left whatever happened meanwhile.
LeaveLoop == FALSE

RunAgain == scheduling_state = "SchedulingPending" /\ current_in_flight < max_in_flight

\* The second block of SchedulingLoop().
Recheck(t) ==
    /\ pc[t] = "recheck"
    /\ IF RunAgain
       THEN /\ scheduling_state' = "Scheduling"
            /\ NextInvocation(t, Allowance)
       ELSE scheduling_state' = "Idle" /\ Return(t)
    /\ UNCHANGED <<streamVars, status, current_in_flight, scheduled, inputVars,
                   contextVars, propVars, outVars, failed>>

\* Seeded fault: an invocation that ends schedules the node whoever does.
ScheduleAnyway == TRUE

\* Nobody else schedules the node.
NobodySchedules == scheduling_state = "Idle"

OneLessInFlight == current_in_flight - 1

EndScheduling(w) ==
    /\ pc[w] = "end"
    /\ IF status # "Opened"
       THEN UNCHANGED <<current_in_flight, scheduling_state, failed>> /\ Return(w)
       ELSE /\ current_in_flight' = OneLessInFlight
            /\ Check("in flight", current_in_flight > 0)
            /\ IF NobodySchedules
               THEN /\ scheduling_state' = "Scheduling"
                    /\ loc' = [loc EXCEPT ![w] = NoLocals] /\ Goto(w, "begin")
               ELSE scheduling_state' = "SchedulingPending" /\ Return(w)
    /\ UNCHANGED <<streamVars, status, scheduled, inputVars, contextVars, propVars, outVars>>

-----------------------------------------------------------------------------
(* Outputs.                                                                *)

\* The stream at the other end takes no packet before its bound, and one at
\* PostStream only if it is the only packet it ever got.
MirrorRefuses(packet) ==
    (packet = PostStream /\ mirror_got_packet) \/ packet < mirror_bound

\* OutputStreamManager::PropagateUpdatesToMirrors() and what that stream makes of
\* the packets (one at most) and the bound.
PropagateUpdatesToMirrors(bound, packets) ==
    LET packet_refused == packets # <<>> /\ MirrorRefuses(packets[1])
        after_packets ==
            IF packets = <<>> \/ packet_refused THEN mirror_bound
            ELSE NextAllowedInStream(packets[1])
        set_bound ==
            /\ bound # Unset
            /\ packets # <<>> => NextAllowedInStream(packets[1]) # bound
        bound_refused == set_bound /\ bound < after_packets
    IN  /\ out_bound' = IF bound # Unset THEN bound ELSE out_bound
        /\ mirror_bound' = IF set_bound THEN Later(after_packets, bound) ELSE after_packets
        /\ mirror_got_packet' = (mirror_got_packet \/ (packets # <<>> /\ ~packet_refused))
        /\ mirror_refused' =
              mirror_refused
              \cup {r \in {"packet"} : packet_refused}
              \cup {r \in {"bound"} : bound_refused /\ mirror_bound # Done}
              \cup {r \in {"bound after close"} : bound_refused /\ mirror_bound = Done}

\* The bound that follows from having completed an input timestamp, the offset
\* of the stream being 0.
InputBound(timestamp) ==
    IF timestamp = PreStream THEN RangeMin
    ELSE IF timestamp = RangeMax THEN PostStream
    ELSE NextAllowedInStream(timestamp)

ComputeOutputTimestampBound(output, timestamp) ==
    LET new_bound == Later(output.updated,
                           IF InputBound(timestamp) > output.bound
                           THEN InputBound(timestamp) ELSE Unset)
    IN  IF output.packets = <<>> THEN new_bound
        ELSE Later(new_bound, NextAllowedInStream(output.packets[1]))

PropagateOutputPackets(context, timestamp) ==
    /\ PropagateUpdatesToMirrors(ComputeOutputTimestampBound(shard[context], timestamp),
                                 shard[context].packets)
    /\ shard' = [shard EXCEPT ![context].packets = <<>>]

\* The test of TryPropagateTimestampBound(); a closed stream has the bound Done.
BoundIsNews(bound) == IsRangeValue(bound) /\ bound > out_bound

\* What a calculator may do at an input timestamp.  It announces the next of its
\* bounds, sends no packet before one, and none after which its stream could only
\* end while inputs may still come.  One that sends a packet at PostStream sends
\* no other packet: the stream downstream would refuse it.
MayAnnounce(timestamp) ==
    {a \in Announced : a > timestamp /\ \A b \in Announced : b > timestamp => a <= b}

MaySend(timestamp) ==
    {q \in {timestamp} \ {PreStream, RangeMax} :
        /\ q = PostStream <=> sends_post_stream
        /\ \A b \in Announced : b <= q}

\* The shard after PrepareOutputs() and Calculator::Process(): nothing, a packet
\* at the input timestamp, or a bound announced ahead.
ProcessOutputs(timestamp) ==
    {[NoShard EXCEPT !.bound = out_bound]}
    \cup {[bound |-> NextAllowedInStream(q), updated |-> NextAllowedInStream(q),
            packets |-> <<q>>] : q \in MaySend(timestamp)}
    \cup {[bound |-> b, updated |-> b, packets |-> <<>>] : b \in MayAnnounce(timestamp)}

Earliest(timestamps) == CHOOSE t \in timestamps : \A u \in timestamps : t <= u

\* A thread leaves the propagation loop.
FinishPropagation(t) ==
    /\ propagation_state' = "Idle"
    /\ loc' = [loc EXCEPT ![t] = NoLocals]
    /\ Goto(t, loc[t].caller)

\* It propagates the packets of the earliest active context next.
StartPackets(t) ==
    /\ propagation_state' = "PropagatingPackets"
    /\ loc' = [loc EXCEPT ![t].context = Earliest(active_contexts)]
    /\ Goto(t, "propagate")

\* It propagates this bound next.
StartBound(t, bound) ==
    /\ propagation_state' = "PropagatingBound"
    /\ loc' = [loc EXCEPT ![t].timestamp = bound]
    /\ Goto(t, "try_bound")

\* The earliest active context is completed.
FrontIsCompleted(completed) ==
    completed # {} /\ Earliest(active_contexts) = Earliest(completed)

\* What PostProcess() and UpdateTaskTimestampBound() do about the propagation
\* after their update, PropagationLoop() up to its first unlock included.
JoinPropagation(t, completed, bound) ==
    IF propagation_state = "Idle"
    THEN IF active_contexts = {} THEN StartBound(t, bound)
         ELSE IF FrontIsCompleted(completed) THEN StartPackets(t)
         ELSE FinishPropagation(t)
    ELSE /\ propagation_state' =
               IF propagation_state = "PropagatingBound" THEN "PropagationPending"
               ELSE propagation_state
         /\ loc' = [loc EXCEPT ![t] = NoLocals]
         /\ Goto(t, loc[t].caller)

UpdateTaskTimestampBound(t) ==
    LET bound == loc[t].timestamp
    IN  /\ pc[t] = "bound"
        /\ IF ~Parallel
           THEN /\ IF BoundIsNews(bound) THEN PropagateUpdatesToMirrors(bound, <<>>)
                   ELSE UNCHANGED outVars
                /\ loc' = [loc EXCEPT ![t] = NoLocals] /\ Goto(t, "recheck")
                /\ UNCHANGED <<propVars, failed>>
           ELSE IF task_timestamp_bound = bound
           THEN /\ loc' = [loc EXCEPT ![t] = NoLocals] /\ Goto(t, "recheck")
                /\ UNCHANGED <<propVars, outVars, failed>>
           ELSE /\ Check("task bound grows", bound > task_timestamp_bound)
                /\ task_timestamp_bound' = bound
                /\ JoinPropagation(t, completed_input_timestamps, bound)
                /\ UNCHANGED <<completed_input_timestamps, outVars>>
        /\ UNCHANGED <<streamVars, schedVars, inputVars, contextVars>>

\* PropagatePackets(): the unlocked part, the recycling of the context, and the
\* part that holds timestamp_mutex_ again.
PropagatePackets(t) ==
    /\ pc[t] = "propagate"
    /\ PropagateOutputPackets(loc[t].context, loc[t].context)
    /\ Goto(t, "recycle")
    /\ UNCHANGED <<streamVars, schedVars, inputVars, active_contexts, batch, propVars,
                   failed, loc>>

RecycledContext == Earliest(active_contexts)

RecycleContext(t) ==
    /\ pc[t] = "recycle"
    /\ active_contexts' = active_contexts \ {RecycledContext}
    /\ shard' = [shard EXCEPT ![RecycledContext] = NoShard]
    /\ Goto(t, "propagated")
    /\ UNCHANGED <<streamVars, schedVars, inputVars, batch, propVars, outVars, failed, loc>>

\* The packets at this timestamp have already told the bound.
BoundIsKnown(timestamp) == task_timestamp_bound <= NextAllowedInStream(timestamp)

PacketsPropagated(t) ==
    LET completed == completed_input_timestamps \ {Earliest(completed_input_timestamps)}
    IN  /\ pc[t] = "propagated"
        /\ completed_input_timestamps' = completed
        /\ IF completed = {} /\ active_contexts = {}
           THEN IF BoundIsKnown(loc[t].context)
                THEN FinishPropagation(t)
                ELSE StartBound(t, task_timestamp_bound)
           ELSE IF FrontIsCompleted(completed) THEN StartPackets(t)
           ELSE FinishPropagation(t)
        /\ UNCHANGED <<streamVars, schedVars, inputVars, contextVars, task_timestamp_bound,
                       outVars, failed>>

\* PropagationBound(): the unlocked part, which tests and then propagates, and
\* what follows it.
TryBound(t) ==
    /\ pc[t] = "try_bound"
    /\ Goto(t, IF BoundIsNews(loc[t].timestamp) THEN "send_bound" ELSE "bound_tried")
    /\ UNCHANGED <<streamVars, schedVars, inputVars, contextVars, propVars, outVars,
                   failed, loc>>

SendBound(t) ==
    /\ pc[t] = "send_bound"
    /\ PropagateUpdatesToMirrors(loc[t].timestamp, <<>>)
    /\ Goto(t, "bound_tried")
    /\ UNCHANGED <<streamVars, schedVars, inputVars, contextVars, propVars, failed, loc>>

BoundPropagated(t) ==
    /\ pc[t] = "bound_tried"
    /\ IF propagation_state = "PropagatingBound"
       THEN FinishPropagation(t) /\ UNCHANGED failed
       ELSE /\ Check("propagation is pending",
                     /\ propagation_state = "PropagationPending"
                     /\ active_contexts = {} => loc[t].timestamp < task_timestamp_bound)
            /\ IF active_contexts = {} THEN StartBound(t, task_timestamp_bound)
               ELSE IF FrontIsCompleted(completed_input_timestamps) THEN StartPackets(t)
               ELSE FinishPropagation(t)
    /\ UNCHANGED <<streamVars, schedVars, inputVars, contextVars, completed_input_timestamps,
                   task_timestamp_bound, outVars>>

-----------------------------------------------------------------------------
(* ProcessNode().                                                          *)

\* A worker takes any of the contexts in the queue of the scheduler.
RunTask(w) ==
    /\ pc[w] = "free"
    /\ \E c \in scheduled :
          /\ scheduled' = scheduled \ {c}
          /\ loc' = [loc EXCEPT ![w] =
                       [NoLocals EXCEPT !.context = c, !.caller = "end",
                          !.invocations = IF c = Default THEN Len(batch) ELSE 1]]
    /\ Goto(w, "process")
    /\ UNCHANGED <<streamVars, status, scheduling_state, current_in_flight, inputVars,
                   contextVars, propVars, outVars, failed>>

\* One turn of the loop over the input timestamps of the context, up to
\* PostProcess() or CloseNode().
Process(w) ==
    LET context == loc[w].context
        timestamp == IF context = Default THEN Head(batch) ELSE context
    IN  /\ pc[w] = "process"
        /\ IF timestamp = Done
           THEN /\ Check("no input after the last", Len(batch) = 1)
                /\ loc' = [loc EXCEPT ![w].i = 1] /\ Goto(w, "close")
                /\ UNCHANGED <<batch, shard>>
           ELSE /\ \E output \in ProcessOutputs(timestamp) :
                      shard' = [shard EXCEPT ![context] = output]
                /\ batch' = IF context = Default THEN Tail(batch) ELSE batch
                /\ loc' = [loc EXCEPT ![w].timestamp = timestamp] /\ Goto(w, "post")
                /\ UNCHANGED failed
        /\ UNCHANGED <<streamVars, schedVars, inputVars, active_contexts, propVars, outVars>>

\* Seeded fault: the outputs of a parallel invocation do not wait for their turn.
PostProcessAtOnce(w) ==
    /\ pc[w] = "post"
    /\ PropagateOutputPackets(loc[w].context, loc[w].timestamp)
    /\ Goto(w, IF loc[w].invocations > 1 THEN "process" ELSE "end")
    /\ loc' = [loc EXCEPT ![w].invocations = @ - 1, ![w].timestamp = Unset]
    /\ UNCHANGED <<streamVars, schedVars, inputVars, active_contexts, batch, propVars, failed>>

PostProcess(w) ==
    /\ pc[w] = "post"
    /\ IF ~Parallel
       THEN /\ PropagateOutputPackets(Default, loc[w].timestamp)
            /\ Goto(w, IF loc[w].invocations > 1 THEN "process" ELSE "end")
            /\ loc' = [loc EXCEPT ![w].invocations = @ - 1, ![w].timestamp = Unset]
            /\ UNCHANGED propVars
       ELSE LET completed == completed_input_timestamps \cup {loc[w].timestamp}
            IN  /\ completed_input_timestamps' = completed
                /\ JoinPropagation(w, completed, task_timestamp_bound)
                /\ UNCHANGED <<task_timestamp_bound, outVars, shard>>
    /\ UNCHANGED <<streamVars, schedVars, inputVars, active_contexts, batch, failed>>

\* CloseNode(): the input streams, the output stream, the status.
CloseInputStream(w) ==
    /\ pc[w] = "close"
    /\ Close(loc[w].i)
    /\ loc' = [loc EXCEPT ![w].i = @ + 1]
    /\ Goto(w, IF loc[w].i + 1 \in Streams THEN "close" ELSE "close_outputs")
    /\ UNCHANGED <<schedVars, inputVars, contextVars, propVars, outVars, failed>>

CloseOutputStreams(w) ==
    /\ pc[w] = "close_outputs"
    /\ PropagateUpdatesToMirrors(Done, <<>>)
    /\ Goto(w, "closed")
    /\ UNCHANGED <<streamVars, schedVars, inputVars, contextVars, propVars, failed, loc>>

NodeClosed(w) ==
    /\ pc[w] = "closed"
    /\ status' = "Closed"
    /\ Goto(w, "end")
    /\ UNCHANGED <<streamVars, scheduling_state, current_in_flight, scheduled, inputVars,
                   contextVars, propVars, outVars, failed, loc>>

-----------------------------------------------------------------------------

LoopStep(t) ==
    \/ CheckIfBecameReady(t) \/ BeginLoop(t) \/ ScanStream(t) \/ Decide(t)
    \/ FillStream(t) \/ Schedule(t) \/ Recheck(t)

OutputStep(t) ==
    \/ UpdateTaskTimestampBound(t) \/ PropagatePackets(t) \/ RecycleContext(t)
    \/ PacketsPropagated(t) \/ TryBound(t) \/ SendBound(t) \/ BoundPropagated(t)

WorkerStep(w) ==
    \/ OpenNode(w) \/ RunTask(w) \/ Process(w) \/ PostProcess(w) \/ EndScheduling(w)
    \/ CloseInputStream(w) \/ CloseOutputStreams(w) \/ NodeClosed(w)

ThreadStep(t) == LoopStep(t) \/ OutputStep(t) \/ (t \in Workers /\ WorkerStep(t))

Next ==
    /\ UNCHANGED configVars
    /\ \/ \E s \in Streams : Produce(s) \/ EndStream(s)
       \/ \E t \in Threads : ThreadStep(t)

\* A thread that has something to do gets to do it.
Spec == Init /\ [][Next]_vars
        /\ \A t \in Threads : WF_vars(UNCHANGED configVars /\ ThreadStep(t))

-----------------------------------------------------------------------------

\* The thread is in SchedulingLoop(), in a task of the node, in PropagationLoop().
InLoop(t) ==
    \/ pc[t] \in {"begin", "scan", "fill", "schedule", "recheck", "bound"}
    \/ loc[t].caller = "recheck"
InTask(t) ==
    \/ pc[t] \in {"process", "post", "close", "close_outputs", "closed", "end"}
    \/ loc[t].caller = "end"
InPropagation(t) ==
    pc[t] \in {"propagate", "recycle", "propagated", "try_bound", "send_bound", "bound_tried"}

NodeTypeOK ==
    /\ StreamTypeOK
    /\ max_in_flight \in MaxInFlights /\ batch_size \in BatchSizes \cup {1}
    /\ process_timestamps \in ProcessTimestamps
    /\ status \in {"Prepared", "Opened", "Closed"}
    /\ scheduling_state \in {"Idle", "Scheduling", "SchedulingPending"}
    /\ current_in_flight \in 0 .. max_in_flight
    /\ last_processed_ts \in Timestamps /\ prepared_context_for_close \in BOOLEAN
    /\ active_contexts \subseteq Timestamps /\ scheduled \subseteq Timestamps
    /\ batch \in Seq(Timestamps)
    /\ DOMAIN shard = Timestamps
    /\ completed_input_timestamps \subseteq Timestamps
    /\ task_timestamp_bound \in Timestamps
    /\ propagation_state \in {"Idle", "PropagatingPackets", "PropagatingBound",
                              "PropagationPending"}
    /\ out_bound \in Timestamps /\ mirror_bound \in Timestamps

\* One thread at a time runs SchedulingLoop(), whoever wakes the node, and one
\* PropagationLoop(); the two state variables say whether one does.
LoopsExclusive ==
    /\ \A t, u \in Threads : InLoop(t) /\ InLoop(u) => t = u
    /\ (scheduling_state # "Idle") <=> \E t \in Threads : InLoop(t)
    /\ \A t, u \in Threads : InPropagation(t) /\ InPropagation(u) => t = u
    /\ (propagation_state # "Idle") <=> \E t \in Threads : InPropagation(t)

\* current_in_flight_ counts the invocations that are queued or run, and is
\* never more than max_in_flight_ (TryToBeginScheduling, EndScheduling).
InFlightExact ==
    /\ current_in_flight <= max_in_flight
    /\ status # "Closed" =>
         current_in_flight = Cardinality(scheduled)
                             + Cardinality({w \in Workers : InTask(w)})

\* Completed timestamps are those of active contexts, or of the one that
\* PropagatePackets() has recycled a moment ago; the loop relies on it.
CompletedAreActive ==
    completed_input_timestamps \subseteq
       active_contexts \cup {loc[t].context : t \in {u \in Threads : pc[u] = "propagated"}}

\* No CHECK of the node and its handlers fails: a context is prepared once per
\* timestamp and is committed to be scheduled, inputs are selected in order and
\* none is dropped (CHECK_EQ(num_packets_dropped, 0)), bounds grow.
NoCheckFails == failed = {}

\* The outputs of parallel invocations reach the stream downstream in the order
\* of their input timestamps, and no bound announced before stands against them.
\* (A calculator that sends a packet at PostStream after another packet is left
\* out, see MaySend: that stream refuses it whatever the node does.)
OutputsAccepted == mirror_refused \cap {"packet", "bound"} = {}

\* A node that runs one invocation at a time never takes back a bound that an
\* earlier invocation announced with SetNextTimestampBound(), nor sends a packet
\* or a bound that is refused for another reason, one at PostStream that is not
\* the calculator's only packet excepted (MaySend).
SequentialOutputsAccepted == ~Parallel => mirror_refused = {}

\* Nothing is sent to a stream after CloseOutputStreams() has ended it.
NothingAfterClose == "bound after close" \notin mirror_refused

\* Nobody is in the node or about to be.
Quiet == scheduled = {} /\ \A t \in Threads : pc[t] = Home(t)

\* The readiness a thread would see now.
MinPacket == Earliest({Done} \cup {Head(queue[s]) : s \in {r \in Streams : queue[r] # <<>>}})
MinBound == Earliest({Done} \cup {next_timestamp_bound[s] :
                                    s \in {r \in Streams : queue[r] = <<>>}})

\* A notification is never lost: once the node is quiet, it is not ready, neither
\* for Process() nor for Close() (CheckIfBecameReady against SchedulingLoop).
NoLostReadiness ==
    Quiet /\ status = "Opened" =>
       ~ReadyForProcess(MinPacket, MinBound) /\ ~ReadyForClose(MinPacket, MinBound)

\* A bound is never lost either: once the node is quiet, downstream knows the
\* earliest timestamp at which an input, or an unfinished batch, can still cause
\* an output (UpdateTaskTimestampBound, PropagationBound).
BoundsPassedOn ==
    LET bound == IF batch = <<>> THEN MinStreamTimestamp(MinPacket, MinBound)
                 ELSE Head(batch)
    IN  Quiet /\ status = "Opened" /\ IsRangeValue(bound) => mirror_bound >= bound

\* When a node is closed, every packet it ever accepted has been processed and
\* its outputs have been handed on.
ClosedAfterInputs ==
    status = "Closed" =>
       /\ \A s \in Streams : queue[s] = <<>>
       /\ active_contexts = {} /\ scheduled = {} /\ batch = <<Done>>
       /\ \A c \in Timestamps : shard[c].packets = <<>>

\* Once all input streams have ended, the node is closed.
NodeCloses ==
    (\A s \in Streams : next_timestamp_bound[s] = Done) ~> (status = "Closed")

\* The accounting of a node that is fed and run by several threads: one of them
\* schedules and one propagates, every invocation is counted once, completed
\* timestamps are still known, and no CHECK of the node and its handlers fails.
NodeSound == LoopsExclusive /\ InFlightExact /\ CompletedAreActive /\ NoCheckFails

\* Such a node misses no notification, and while it runs one invocation at a time
\* it sends nothing its consumer refuses.
NodeServes == NodeTypeOK /\ NoLostReadiness /\ SequentialOutputsAccepted

\* Parallel invocations deliver like sequential ones: one thread schedules and
\* one propagates, finished invocations are still known, their packets and the
\* bounds between them arrive in order and none is lost, and the node closes
\* only after its inputs have.
OutputsSound == LoopsExclusive /\ CompletedAreActive /\ OutputsAccepted /\ BoundsPassedOn /\ ClosedAfterInputs
=============================================================================
