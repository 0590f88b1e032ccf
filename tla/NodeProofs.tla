------------------------------ MODULE NodeProofs ------------------------------
(***************************************************************************)
(* Proofs about a node that is fed and run by several threads, for every   *)
(* number of streams and workers, every range of timestamps and any        *)
(* number of invocations in flight.                                        *)
(***************************************************************************)
EXTENDS CalculatorNode, InputStreamProofs, FiniteSetTheorems, NumberLemmas

LoopLabels == {"begin", "scan", "fill", "schedule", "recheck", "bound"}
TaskLabels == {"process", "post", "close", "close_outputs", "closed", "end"}
PacketLabels == {"propagate", "recycle", "propagated"}
BoundLabels == {"try_bound", "send_bound", "bound_tried"}
PropLabels == PacketLabels \cup BoundLabels
Labels == {"produce", "free", "notify"} \cup LoopLabels \cup TaskLabels \cup PropLabels

Locals == [left : Int, i : Int, min_bound : Timestamps, min_packet : Timestamps,
           timestamp : Timestamps, context : Timestamps, invocations : Int,
           caller : {"none", "recheck", "end"}]

Statuses == {"Prepared", "Opened", "Closed"}
SchedulingStates == {"Idle", "Scheduling", "SchedulingPending"}
PropagationStates == {"Idle", "PropagatingPackets", "PropagatingBound", "PropagationPending"}

-----------------------------------------------------------------------------
(* The inductive invariant, in parts.                                      *)

\* What is fixed before the run.
ConfigInv ==
    /\ max_in_flight \in Nat \ {0} /\ max_in_flight \in MaxInFlights
    /\ batch_size \in Nat \ {0} /\ batch_size \in BatchSizes \cup {1}
    /\ process_timestamps \in BOOLEAN /\ process_timestamps \in ProcessTimestamps
    /\ Parallel => batch_size = 1
    /\ enable_timestamps = [s \in Streams |-> TRUE]

\* The caller a thread at this label remembers.
CallerFits(label, caller) ==
    /\ label \in PropLabels => caller \in {"recheck", "end"}
    /\ label = "bound" => caller = "recheck"
    /\ label \in {"process", "post", "close", "close_outputs", "closed"} => caller = "end"
    /\ label = "end" => caller \in {"none", "end"}
    /\ label \in {"produce", "free", "notify"} \cup (LoopLabels \ {"bound"}) => caller = "none"

\* A thread propagates in the state that says so.
StateFits(label, propagation) ==
    /\ label \in PacketLabels => propagation = "PropagatingPackets"
    /\ label \in BoundLabels => propagation \in {"PropagatingBound", "PropagationPending"}

Placed(t) ==
    /\ CallerFits(pc[t], loc[t].caller)
    /\ StateFits(pc[t], propagation_state)
    /\ pc[t] \in TaskLabels \/ loc[t].caller = "end" => t \in Workers
    /\ pc[t] \in PropLabels => Parallel

\* Who is where, and what the two state variables say of it.
PlacesInv ==
    /\ pc \in [Threads -> Labels] /\ loc \in [Threads -> Locals]
    /\ status \in Statuses
    /\ scheduling_state \in SchedulingStates
    /\ propagation_state \in PropagationStates
    /\ \A t \in Threads : Placed(t)
    /\ LoopsExclusive

\* The inputs have ended, and a scan under way knows.
Ended(s) == queue[s] = <<>> /\ next_timestamp_bound[s] >= OneOverPostStream

AtClose(t) == pc[t] = "schedule" /\ loc[t].timestamp = Done

\* A thread that prepares invocations has seen that the inputs have ended.
KnowsEnd(t) ==
    /\ pc[t] = "scan" => loc[t].min_packet = Done /\ loc[t].min_bound >= OneOverPostStream
    /\ pc[t] # "fill"
    /\ pc[t] = "schedule" => loc[t].timestamp = Done

Over == (\A s \in Streams : Ended(s)) /\ \A t \in Threads : KnowsEnd(t)

\* The two minima of a scan are lower bounds of what was scanned, and
\* min_packet is the first packet of some stream.
Scanned(t) ==
    LET l == loc[t]
    IN  /\ l.i \in Nat \ {0}
        /\ \A s \in Streams :
              s < l.i => Earlier(l.min_packet, l.min_bound) <= MinTimestampOrBound(s)
        /\ \/ l.min_packet = Done
           \/ \E s \in Streams :
                 s < l.i /\ queue[s] # <<>> /\ Head(queue[s]) = l.min_packet
        /\ task_timestamp_bound <= l.min_packet /\ task_timestamp_bound <= l.min_bound

\* The streams up to i are at the timestamp, the others have nothing before it.
Filling(t) ==
    LET l == loc[t]
    IN  /\ IsAllowedInStream(l.timestamp) /\ l.timestamp = last_processed_ts
        /\ l.i \in Streams
        /\ \A s \in Streams :
              /\ ~closed[s]
              /\ s < l.i => last_select_timestamp[s] = l.timestamp
              /\ s >= l.i => /\ last_select_timestamp[s] <= l.timestamp
                             /\ l.timestamp <= MinTimestampOrBound(s)

\* All streams have been selected up to the last input timestamp.
Selected ==
    \A s \in Streams :
       ~closed[s] /\ last_select_timestamp[s] = Later(last_processed_ts, Unstarted)

\* All packets that wait have timestamps allowed in a stream.
QueuesAllowed == \A s \in Streams : \A i \in 1 .. Len(queue[s]) : IsAllowedInStream(queue[s][i])

\* What the thread that schedules the node knows of the input streams.
KnowsInputs(t) ==
    /\ pc[t] = "scan" => Scanned(t)
    /\ pc[t] = "fill" => Filling(t)
    /\ pc[t] = "bound" /\ Parallel =>
          /\ task_timestamp_bound <= loc[t].timestamp
          /\ \A s \in Streams : loc[t].timestamp <= MinTimestampOrBound(s)
    /\ pc[t] = "schedule" =>
          loc[t].timestamp = Done \/ IsAllowedInStream(loc[t].timestamp)

InputsInv ==
    /\ StreamInv
    /\ last_processed_ts \in Timestamps /\ task_timestamp_bound \in Timestamps
    /\ prepared_context_for_close \in BOOLEAN
    /\ QueuesAllowed
    /\ \A s \in Streams : task_timestamp_bound <= MinTimestampOrBound(s)
    /\ \A t \in Threads : KnowsInputs(t)
    /\ Over \/ Selected \/ \E t \in Threads : pc[t] = "fill"
    /\ prepared_context_for_close \/ (\E t \in Threads : AtClose(t)) => Over
    /\ prepared_context_for_close => \A t \in Threads : pc[t] # "schedule"
    /\ \A s \in Streams : closed[s] => prepared_context_for_close

\* The threads that run a context, that prepare or run this one, and those that
\* close the node.
Running(t) == pc[t] \in {"process", "post"} /\ loc[t].context # Done

Claims(t, c) ==
    /\ c # Done
    /\ \/ pc[t] \in {"fill", "schedule"} /\ loc[t].timestamp = c
       \/ pc[t] \in {"process", "post"} /\ loc[t].context = c

Closing(w) ==
    \/ pc[w] = "process" /\ loc[w].context = Done
    \/ pc[w] \in {"close", "close_outputs", "closed"}

\* The earliest active context is propagated first.
PropagatesFirst(t) ==
    /\ pc[t] \in {"propagate", "recycle"} =>
          /\ loc[t].context \in active_contexts \cap completed_input_timestamps
          /\ \A c \in active_contexts : loc[t].context <= c
    /\ pc[t] = "propagated" =>
          /\ loc[t].context \in completed_input_timestamps \ active_contexts
          /\ \A c \in active_contexts : loc[t].context < c

\* With one invocation at a time there is the default context only.
DefaultOnly ==
    /\ active_contexts = {} /\ completed_input_timestamps = {}
    /\ scheduled \subseteq {Done}
    /\ \A t \in Threads : ~Running(t)

\* With several invocations in flight an active context is prepared, scheduled,
\* run or completed, and not two of these; the earliest is propagated first.
ActiveInv ==
    /\ \A c \in active_contexts \cup completed_input_timestamps : IsAllowedInStream(c)
    /\ Over \/ \A c \in active_contexts \cup completed_input_timestamps : c <= last_processed_ts
    /\ scheduled \ {Done} \subseteq active_contexts
    /\ completed_input_timestamps \cap scheduled = {}
    /\ \A c \in completed_input_timestamps :
          c \in active_contexts \/ \E t \in Threads : pc[t] = "propagated" /\ loc[t].context = c
    /\ \A t \in Threads, c \in Timestamps :
          Claims(t, c) => c \in active_contexts \ (scheduled \cup completed_input_timestamps)
    /\ \A t, u \in Threads, c \in Timestamps : Claims(t, c) /\ Claims(u, c) => t = u
    /\ \A t \in Threads : Running(t) /\ pc[t] = "post" => loc[t].timestamp = loc[t].context
    /\ \A t \in Threads : PropagatesFirst(t)

ContextsInv ==
    /\ active_contexts \subseteq Timestamps /\ scheduled \subseteq Timestamps
    /\ completed_input_timestamps \subseteq Timestamps
    /\ IF Parallel THEN ActiveInv ELSE DefaultOnly

\* A pending propagation has something to do.
PendingInv ==
    \A t \in Threads : pc[t] \in BoundLabels =>
       /\ loc[t].timestamp <= task_timestamp_bound
       /\ propagation_state = "PropagationPending" =>
             active_contexts # {} \/ loc[t].timestamp < task_timestamp_bound

Tasks == {w \in Workers : InTask(w)}

\* Invocations are counted, and the scheduling thread has room for those it
\* may still schedule.
CountInv ==
    /\ IsFiniteSet(scheduled) /\ IsFiniteSet(Tasks)
    /\ current_in_flight \in Nat /\ current_in_flight <= max_in_flight
    /\ status # "Closed" =>
          current_in_flight = Cardinality(scheduled) + Cardinality(Tasks)
    /\ \A t \in Threads :
          /\ pc[t] \in {"scan", "fill", "schedule"} =>
                loc[t].left > 0 /\ current_in_flight + loc[t].left <= max_in_flight
          /\ ~Parallel /\ pc[t] = "bound" => current_in_flight = 0
    /\ ~Parallel /\ status = "Closed" =>
          scheduled = {} /\ \A w \in Workers : pc[w] \notin TaskLabels \ {"end"}
    /\ status = "Prepared" => current_in_flight = 0 /\ scheduling_state = "Idle"

\* A thread that prepares invocations has put something into the default context.
LoadsBatch(t) ==
    /\ ~Parallel /\ pc[t] \in {"fill", "schedule"} => batch # <<>>
    /\ AtClose(t) => batch # <<>> /\ batch[Len(batch)] = Done

\* The invocations of the task that runs the default context are those of the batch.
RunsBatch(w) ==
    /\ pc[w] = "process" /\ loc[w].context = Done =>
          /\ batch # <<>> /\ loc[w].invocations = Len(batch)
          /\ Parallel => prepared_context_for_close
    /\ pc[w] = "post" /\ loc[w].context = Done =>
          /\ loc[w].invocations = Len(batch) + 1
          /\ ~Parallel /\ loc[w].timestamp # Done
    /\ pc[w] \in {"close", "close_outputs", "closed"} =>
          batch = <<Done>> /\ prepared_context_for_close
    /\ pc[w] = "close" => loc[w].i \in Streams

\* The default context holds the input timestamps of a batch, and Done last.
DoneIsLast ==
    \A i \in 1 .. Len(batch) : batch[i] = Done =>
       /\ i = Len(batch)
       /\ prepared_context_for_close \/ \E t \in Threads : AtClose(t)

BatchInv ==
    /\ batch \in Seq(Timestamps)
    /\ DoneIsLast
    /\ Parallel => batch \in {<<>>, <<Done>>}
    /\ \A t \in Threads : LoadsBatch(t)
    /\ Done \in scheduled => batch # <<>> /\ (Parallel => prepared_context_for_close)
    /\ \A w \in Workers : RunsBatch(w)

\* The close is prepared once, so that one task closes the node.
ClosingInv ==
    /\ status = "Closed" => prepared_context_for_close
    /\ Parallel /\ prepared_context_for_close =>
          /\ Done \in scheduled => \A w \in Workers : ~Closing(w)
          /\ \A w, u \in Workers : Closing(w) /\ Closing(u) => w = u
          /\ status = "Closed" => Done \notin scheduled /\ \A w \in Workers : ~Closing(w)

NodeInv ==
    /\ ConfigInv /\ PlacesInv /\ InputsInv /\ ContextsInv /\ PendingInv
    /\ CountInv /\ BatchInv /\ ClosingInv /\ NoCheckFails

\* A set of timestamps has an earliest one.
LEMMA EarliestOfSome ==
    ASSUME NEW T, T \subseteq Timestamps, T # {}
    PROVE  Earliest(T) \in T /\ \A u \in T : Earliest(T) <= u
  <1> DEFINE N == {t - Unset : t \in T}
  <1>1. \A t \in Timestamps : t \in Int /\ t - Unset \in Nat
    BY SpecialTimestamps DEF Timestamps
  <1>2. N \in SUBSET Nat /\ N # {}
    BY <1>1
  <1>3. PICK n \in N : \A m \in N : n <= m
    <2> HIDE DEF N
    <2> QED
      BY <1>2, LeastNumber
  <1>4. PICK t \in T : n = t - Unset
    OBVIOUS
  <1>5. ASSUME NEW u \in T PROVE t <= u
    <2>1. u - Unset \in N
      OBVIOUS
    <2>2. t - Unset <= u - Unset
      BY <1>3, <1>4, <2>1
    <2> QED
      BY <1>1, <2>2, SpecialTimestamps
  <1> QED
    BY <1>5 DEF Earliest

\* The locals a thread starts with.
LEMMA NoLocalsType ==
    /\ NoLocals \in Locals /\ Done \in Timestamps /\ Unset \in Timestamps
    /\ NoLocals.caller = "none" /\ NoLocals.timestamp = Unset /\ NoLocals.context = Done
    /\ NoLocals.min_packet = Done /\ NoLocals.min_bound = Done
  BY SpecialTimestamps DEF NoLocals, Locals, Default, Timestamps

\* What a stream offers is a timestamp.
LEMMA StreamOffers ==
    ASSUME StreamInv, NEW s \in Streams
    PROVE  /\ queue[s] \in Seq(Timestamps) /\ Len(queue[s]) \in Nat
           /\ next_timestamp_bound[s] \in Timestamps
           /\ last_select_timestamp[s] \in Timestamps
           /\ MinTimestampOrBound(s) \in Timestamps
           /\ queue[s] # <<>> => Head(queue[s]) \in Timestamps /\ Head(queue[s]) = queue[s][1]
  BY DEF StreamInv, StreamTypeOK, MinTimestampOrBound

\* A step of the thread t: the others stay where they are.
Moves(t) ==
    /\ pc' \in [Threads -> Labels] /\ loc' \in [Threads -> Locals]
    /\ \A u \in Threads \ {t} : pc'[u] = pc[u] /\ loc'[u] = loc[u]

\* Where InLoop and InPropagation look.
LoopAt(p, l) == p \in LoopLabels \/ l.caller = "recheck"

\* The thread stays in or out of the scheduling loop, enters it or leaves it.
LoopMove(t) ==
    \/ /\ LoopAt(pc'[t], loc'[t]) <=> InLoop(t)
       /\ (scheduling_state' = "Idle") <=> (scheduling_state = "Idle")
    \/ LoopAt(pc'[t], loc'[t]) /\ scheduling_state = "Idle" /\ scheduling_state' # "Idle"
    \/ ~LoopAt(pc'[t], loc'[t]) /\ InLoop(t) /\ scheduling_state' = "Idle"

\* Likewise the propagation loop.
PropMove(t) ==
    \/ /\ pc'[t] \in PropLabels <=> InPropagation(t)
       /\ (propagation_state' = "Idle") <=> (propagation_state = "Idle")
       /\ \/ InPropagation(t)
          \/ propagation_state' = propagation_state
          \/ propagation_state = "PropagatingBound" /\ propagation_state' = "PropagationPending"
    \/ pc'[t] \in PropLabels /\ propagation_state = "Idle" /\ propagation_state' # "Idle"
    \/ pc'[t] \notin PropLabels /\ InPropagation(t) /\ propagation_state' = "Idle"

MoveAllowed(t) ==
    /\ Moves(t) /\ max_in_flight' = max_in_flight
    /\ status' \in Statuses
    /\ scheduling_state' \in SchedulingStates /\ propagation_state' \in PropagationStates
    /\ CallerFits(pc'[t], loc'[t].caller) /\ StateFits(pc'[t], propagation_state')
    /\ pc'[t] \in TaskLabels \/ loc'[t].caller = "end" => t \in Workers
    /\ pc'[t] \in PropLabels => Parallel
    /\ LoopMove(t) /\ PropMove(t)

\* A thread that moves so leaves everybody in a place that fits.
LEMMA ThreadMoves ==
    ASSUME PlacesInv, NEW t \in Threads, MoveAllowed(t)
    PROVE  PlacesInv'
  <1>1. /\ pc' \in [Threads -> Labels] /\ loc' \in [Threads -> Locals]
        /\ \A u \in Threads \ {t} : pc'[u] = pc[u] /\ loc'[u] = loc[u]
    BY DEF MoveAllowed, Moves
  <1>4. /\ InLoop(t)' <=> LoopAt(pc'[t], loc'[t])
        /\ \A u \in Threads \ {t} : InLoop(u)' <=> InLoop(u)
    BY <1>1 DEF InLoop, LoopAt, LoopLabels
  <1>5. /\ InPropagation(t)' <=> pc'[t] \in PropLabels
        /\ \A u \in Threads \ {t} : InPropagation(u)' <=> InPropagation(u)
    BY <1>1 DEF InPropagation, PropLabels, PacketLabels, BoundLabels
  <1>6. ASSUME NEW u \in Threads PROVE Placed(u)'
    <2>1. CASE u = t
      BY <2>1 DEF MoveAllowed, Placed, Parallel
    <2>2. CASE u # t
      <3>1. pc'[u] = pc[u] /\ loc'[u] = loc[u] /\ Placed(u)
        BY <1>1, <2>2 DEF PlacesInv
      <3>2. StateFits(pc[u], propagation_state')
        <4>1. CASE pc[u] \in PropLabels
          <5>1. InPropagation(u) /\ propagation_state # "Idle" /\ ~InPropagation(t)
            BY <2>2, <4>1 DEF PlacesInv, LoopsExclusive, InPropagation, PropLabels, PacketLabels,
                              BoundLabels
          <5> QED
            BY <3>1, <5>1 DEF MoveAllowed, PropMove, Placed, StateFits, PacketLabels, BoundLabels
        <4>2. CASE pc[u] \notin PropLabels
          BY <4>2 DEF StateFits, PropLabels
        <4> QED
          BY <4>1, <4>2
      <3> QED
        BY <3>1, <3>2 DEF Placed, Parallel, MoveAllowed
    <2> QED
      BY <2>1, <2>2
  <1>7. LoopsExclusive'
    <2>1. /\ \A u, v \in Threads : InLoop(u)' /\ InLoop(v)' => u = v
          /\ (scheduling_state' # "Idle") <=> \E u \in Threads : InLoop(u)'
      <3>1. /\ \A u, v \in Threads : InLoop(u) /\ InLoop(v) => u = v
            /\ (scheduling_state # "Idle") <=> \E u \in Threads : InLoop(u)
        BY DEF PlacesInv, LoopsExclusive
      <3> QED
        BY <1>4, <3>1 DEF MoveAllowed, LoopMove
    <2>2. /\ \A u, v \in Threads : InPropagation(u)' /\ InPropagation(v)' => u = v
          /\ (propagation_state' # "Idle") <=> \E u \in Threads : InPropagation(u)'
      <3>1. /\ \A u, v \in Threads : InPropagation(u) /\ InPropagation(v) => u = v
            /\ (propagation_state # "Idle") <=> \E u \in Threads : InPropagation(u)
        BY DEF PlacesInv, LoopsExclusive
      <3> QED
        BY <1>5, <3>1 DEF MoveAllowed, PropMove
    <2> QED
      BY <2>1, <2>2 DEF LoopsExclusive
  <1> QED
    BY <1>1, <1>6, <1>7 DEF PlacesInv, MoveAllowed

\* What the invariant says of the thread that acts.
LEMMA ThreadFacts ==
    ASSUME PlacesInv, NEW t \in Threads
    PROVE  /\ pc \in [Threads -> Labels] /\ loc \in [Threads -> Locals]
           /\ pc[t] \in Labels /\ loc[t] \in Locals /\ Placed(t)
           /\ status \in Statuses /\ scheduling_state \in SchedulingStates
           /\ propagation_state \in PropagationStates
           /\ InLoop(t) => scheduling_state # "Idle"
           /\ InPropagation(t) => propagation_state # "Idle"
           /\ InPropagation(t) <=> pc[t] \in PropLabels
           /\ InLoop(t) <=> LoopAt(pc[t], loc[t])
           /\ Home(t) \in {"produce", "free"} /\ Home(t) \in Labels
  BY DEF PlacesInv, LoopsExclusive, InPropagation, InLoop, LoopAt, LoopLabels, PropLabels,
         PacketLabels, BoundLabels, Home, Labels

\* A thread that stays in or out of the loops, and changes nothing of them.
LEMMA PlainMove ==
    ASSUME PlacesInv, NEW t \in Threads, Moves(t),
           max_in_flight' = max_in_flight, status' \in Statuses,
           UNCHANGED <<scheduling_state, propagation_state>>,
           CallerFits(pc'[t], loc'[t].caller), StateFits(pc'[t], propagation_state),
           pc'[t] \in TaskLabels \/ loc'[t].caller = "end" => t \in Workers,
           LoopAt(pc'[t], loc'[t]) <=> LoopAt(pc[t], loc[t]),
           pc'[t] \in PropLabels <=> pc[t] \in PropLabels
    PROVE  PlacesInv'
  <1>1. MoveAllowed(t)
    BY ThreadFacts DEF MoveAllowed, LoopMove, PropMove, Placed
  <1> QED
    BY <1>1, ThreadMoves

\* No label is in two of the groups.
LEMMA LabelSets ==
    /\ LoopLabels \subseteq Labels /\ TaskLabels \subseteq Labels /\ PropLabels \subseteq Labels
    /\ LoopLabels \cap PropLabels = {} /\ TaskLabels \cap PropLabels = {}
    /\ LoopLabels \cap TaskLabels = {}
    /\ {"produce", "free", "notify"} \cap (LoopLabels \cup TaskLabels \cup PropLabels) = {}
  BY DEF LoopLabels, TaskLabels, PropLabels, PacketLabels, BoundLabels, Labels

\* A thread that only goes to another label.
LEMMA GotoEffect ==
    ASSUME PlacesInv, NEW t \in Threads, NEW label \in Labels, Goto(t, label), UNCHANGED loc
    PROVE  Moves(t) /\ pc'[t] = label /\ loc'[t] = loc[t]
  BY ThreadFacts DEF Goto, Moves

\* One that starts something else with no locals.
LEMMA FreshEffect ==
    ASSUME PlacesInv, NEW t \in Threads, NEW label \in Labels, Goto(t, label),
           loc' = [loc EXCEPT ![t] = NoLocals]
    PROVE  Moves(t) /\ pc'[t] = label /\ loc'[t] = NoLocals
  BY ThreadFacts, NoLocalsType DEF Goto, Moves

\* One that goes back to where it is between two calls.
LEMMA ReturnEffect ==
    ASSUME PlacesInv, NEW t \in Threads, Return(t)
    PROVE  Moves(t) /\ pc'[t] = Home(t) /\ loc'[t] = NoLocals
  BY ThreadFacts, NoLocalsType DEF Return, Moves

\* One that goes on with the next readiness test, or leaves the inner loop.
LEMMA NextInvocationEffect ==
    ASSUME PlacesInv, NEW t \in Threads, NEW left \in Int, NextInvocation(t, left)
    PROVE  /\ Moves(t)
           /\ pc'[t] = IF left > 0 THEN "scan" ELSE "recheck"
           /\ loc'[t].left = left /\ loc'[t].i = 1
           /\ loc'[t].min_packet = Done /\ loc'[t].min_bound = Done
           /\ loc'[t].timestamp = Unset /\ loc'[t].context = Done /\ loc'[t].caller = "none"
  <1>0. PICK one \in Int : one = 1
    OBVIOUS
  <1> DEFINE l == [NoLocals EXCEPT !.left = left, !.i = one]
  <1>a. l \in Locals
    BY NoLocalsType DEF Locals
  <1>b. l.left = left /\ l.i = one
    BY NoLocalsType DEF Locals
  <1>c. l.min_packet = Done /\ l.min_bound = Done
        /\ l.timestamp = Unset /\ l.context = Done /\ l.caller = "none"
    BY NoLocalsType DEF Locals
  <1>2. {"scan", "recheck"} \subseteq Labels
    BY DEF Labels, LoopLabels
  <1>3. loc' = [loc EXCEPT ![t] = l]
    BY <1>0 DEF NextInvocation
  <1> HIDE DEF l
  <1> QED
    BY <1>0, <1>a, <1>b, <1>c, <1>2, <1>3, ThreadFacts DEF NextInvocation, Goto, Moves

\* The fields of the locals besides those named.
OtherFields(l, m, changed) ==
    /\ "left" \notin changed => l.left = m.left
    /\ "i" \notin changed => l.i = m.i
    /\ "min_bound" \notin changed => l.min_bound = m.min_bound
    /\ "min_packet" \notin changed => l.min_packet = m.min_packet
    /\ "timestamp" \notin changed => l.timestamp = m.timestamp
    /\ "context" \notin changed => l.context = m.context
    /\ "invocations" \notin changed => l.invocations = m.invocations
    /\ "caller" \notin changed => l.caller = m.caller

\* An update of the index alone.
LEMMA IndexUpdate ==
    ASSUME PlacesInv, NEW t \in Threads, NEW n \in Int, loc' = [loc EXCEPT ![t].i = n]
    PROVE  /\ loc' \in [Threads -> Locals]
           /\ \A u \in Threads \ {t} : loc'[u] = loc[u]
           /\ loc'[t].i = n /\ OtherFields(loc'[t], loc[t], {"i"})
  <1>1. loc \in [Threads -> Locals]
    BY DEF PlacesInv
  <1>2. loc' \in [Threads -> Locals] /\ \A u \in Threads \ {t} : loc'[u] = loc[u]
    BY <1>1 DEF Locals
  <1>3. loc'[t].i = n
    BY <1>1 DEF Locals
  <1>4. OtherFields(loc'[t], loc[t], {"i"})
    BY <1>1 DEF Locals, OtherFields
  <1> QED
    BY <1>2, <1>3, <1>4

\* An update of the timestamp alone.
LEMMA TimestampUpdate ==
    ASSUME PlacesInv, NEW t \in Threads, NEW time \in Timestamps,
           loc' = [loc EXCEPT ![t].timestamp = time]
    PROVE  /\ loc' \in [Threads -> Locals]
           /\ \A u \in Threads \ {t} : loc'[u] = loc[u]
           /\ loc'[t].timestamp = time /\ OtherFields(loc'[t], loc[t], {"timestamp"})
  <1>1. loc \in [Threads -> Locals]
    BY DEF PlacesInv
  <1>2. loc' \in [Threads -> Locals] /\ \A u \in Threads \ {t} : loc'[u] = loc[u]
    BY <1>1 DEF Locals
  <1>3. loc'[t].timestamp = time
    BY <1>1 DEF Locals
  <1>4. OtherFields(loc'[t], loc[t], {"timestamp"})
    BY <1>1 DEF Locals, OtherFields
  <1> QED
    BY <1>2, <1>3, <1>4

\* An update of the context alone.
LEMMA ContextUpdate ==
    ASSUME PlacesInv, NEW t \in Threads, NEW time \in Timestamps,
           loc' = [loc EXCEPT ![t].context = time]
    PROVE  /\ loc' \in [Threads -> Locals]
           /\ \A u \in Threads \ {t} : loc'[u] = loc[u]
           /\ loc'[t].context = time /\ OtherFields(loc'[t], loc[t], {"context"})
  <1>1. loc \in [Threads -> Locals]
    BY DEF PlacesInv
  <1>2. loc' \in [Threads -> Locals] /\ \A u \in Threads \ {t} : loc'[u] = loc[u]
    BY <1>1 DEF Locals
  <1>3. loc'[t].context = time
    BY <1>1 DEF Locals
  <1>4. OtherFields(loc'[t], loc[t], {"context"})
    BY <1>1 DEF Locals, OtherFields
  <1> QED
    BY <1>2, <1>3, <1>4

\* An update of the timestamp and the index, as when an input set is begun.
LEMMA StartUpdate ==
    ASSUME PlacesInv, NEW t \in Threads, NEW time \in Timestamps, NEW n \in Int,
           loc' = [loc EXCEPT ![t].timestamp = time, ![t].i = n]
    PROVE  /\ loc' \in [Threads -> Locals]
           /\ \A u \in Threads \ {t} : loc'[u] = loc[u]
           /\ loc'[t].timestamp = time /\ loc'[t].i = n
           /\ OtherFields(loc'[t], loc[t], {"timestamp", "i"})
  <1>1. loc \in [Threads -> Locals]
    BY DEF PlacesInv
  <1>2. loc' \in [Threads -> Locals] /\ \A u \in Threads \ {t} : loc'[u] = loc[u]
    BY <1>1 DEF Locals
  <1>3. loc'[t].timestamp = time /\ loc'[t].i = n
    BY <1>1 DEF Locals
  <1>4. OtherFields(loc'[t], loc[t], {"timestamp", "i"})
    BY <1>1 DEF Locals, OtherFields
  <1> QED
    BY <1>2, <1>3, <1>4

\* An update of the invocations left and the timestamp, as after a turn.
LEMMA TurnUpdate ==
    ASSUME PlacesInv, NEW t \in Threads, NEW time \in Timestamps, NEW n \in Int,
           loc' = [loc EXCEPT ![t].invocations = n, ![t].timestamp = time]
    PROVE  /\ loc' \in [Threads -> Locals]
           /\ \A u \in Threads \ {t} : loc'[u] = loc[u]
           /\ loc'[t].timestamp = time /\ loc'[t].invocations = n
           /\ OtherFields(loc'[t], loc[t], {"timestamp", "invocations"})
  <1>1. loc \in [Threads -> Locals]
    BY DEF PlacesInv
  <1>2. loc' \in [Threads -> Locals] /\ \A u \in Threads \ {t} : loc'[u] = loc[u]
    BY <1>1 DEF Locals
  <1>3. loc'[t].timestamp = time /\ loc'[t].invocations = n
    BY <1>1 DEF Locals
  <1>4. OtherFields(loc'[t], loc[t], {"timestamp", "invocations"})
    BY <1>1 DEF Locals, OtherFields
  <1> QED
    BY <1>2, <1>3, <1>4

\* An update of the index and the least bound.
LEMMA BoundUpdate ==
    ASSUME PlacesInv, NEW t \in Threads, NEW m \in Timestamps, NEW n \in Int,
           loc' = [loc EXCEPT ![t].i = n, ![t].min_bound = m]
    PROVE  /\ loc' \in [Threads -> Locals]
           /\ \A u \in Threads \ {t} : loc'[u] = loc[u]
           /\ loc'[t].min_bound = m /\ loc'[t].i = n
           /\ OtherFields(loc'[t], loc[t], {"min_bound", "i"})
  <1>1. loc \in [Threads -> Locals]
    BY DEF PlacesInv
  <1>2. loc' \in [Threads -> Locals] /\ \A u \in Threads \ {t} : loc'[u] = loc[u]
    BY <1>1 DEF Locals
  <1>3. loc'[t].min_bound = m /\ loc'[t].i = n
    BY <1>1 DEF Locals
  <1>4. OtherFields(loc'[t], loc[t], {"min_bound", "i"})
    BY <1>1 DEF Locals, OtherFields
  <1> QED
    BY <1>2, <1>3, <1>4

\* An update of the index and the least packet.
LEMMA PacketUpdate ==
    ASSUME PlacesInv, NEW t \in Threads, NEW m \in Timestamps, NEW n \in Int,
           loc' = [loc EXCEPT ![t].i = n, ![t].min_packet = m]
    PROVE  /\ loc' \in [Threads -> Locals]
           /\ \A u \in Threads \ {t} : loc'[u] = loc[u]
           /\ loc'[t].min_packet = m /\ loc'[t].i = n
           /\ OtherFields(loc'[t], loc[t], {"min_packet", "i"})
  <1>1. loc \in [Threads -> Locals]
    BY DEF PlacesInv
  <1>2. loc' \in [Threads -> Locals] /\ \A u \in Threads \ {t} : loc'[u] = loc[u]
    BY <1>1 DEF Locals
  <1>3. loc'[t].min_packet = m /\ loc'[t].i = n
    BY <1>1 DEF Locals
  <1>4. OtherFields(loc'[t], loc[t], {"min_packet", "i"})
    BY <1>1 DEF Locals, OtherFields
  <1> QED
    BY <1>2, <1>3, <1>4

\* What a scan has seen of one more stream.
LEMMA ScanUpdate ==
    ASSUME PlacesInv, NEW t \in Threads, NEW time \in Timestamps, NEW n \in Int, NEW q,
           loc' = IF q = <<>>
                  THEN [loc EXCEPT ![t].i = n, ![t].min_bound = Earlier(@, time)]
                  ELSE [loc EXCEPT ![t].i = n, ![t].min_packet = Earlier(@, time)]
    PROVE  /\ loc' \in [Threads -> Locals]
           /\ \A u \in Threads \ {t} : loc'[u] = loc[u]
           /\ loc'[t].i = n
           /\ loc'[t].min_bound = IF q = <<>> THEN Earlier(loc[t].min_bound, time) ELSE loc[t].min_bound
           /\ loc'[t].min_packet = IF q = <<>> THEN loc[t].min_packet ELSE Earlier(loc[t].min_packet, time)
           /\ OtherFields(loc'[t], loc[t], {"min_bound", "min_packet", "i"})
  <1>1. loc \in [Threads -> Locals] /\ loc[t] \in Locals
    BY DEF PlacesInv
  <1>0. loc[t].min_bound \in Timestamps /\ loc[t].min_packet \in Timestamps
    BY <1>1 DEF Locals
  <1>2. CASE q = <<>>
    <2>1. PICK m \in Timestamps : m = Earlier(loc[t].min_bound, time)
      BY <1>0 DEF Earlier
    <2>2. loc' = [loc EXCEPT ![t].i = n, ![t].min_bound = m]
      BY <1>2, <2>1
    <2>3. /\ loc' \in [Threads -> Locals]
          /\ \A u \in Threads \ {t} : loc'[u] = loc[u]
          /\ loc'[t].min_bound = m /\ loc'[t].i = n
          /\ OtherFields(loc'[t], loc[t], {"min_bound", "i"})
      BY <2>2, BoundUpdate
    <2>4. OtherFields(loc'[t], loc[t], {"min_bound", "min_packet", "i"})
      BY <2>3 DEF OtherFields
    <2>5. loc'[t].min_packet = loc[t].min_packet
      BY <2>3 DEF OtherFields
    <2> QED
      BY <1>2, <2>1, <2>3, <2>4, <2>5
  <1>3. CASE q # <<>>
    <2>1. PICK m \in Timestamps : m = Earlier(loc[t].min_packet, time)
      BY <1>0 DEF Earlier
    <2>2. loc' = [loc EXCEPT ![t].i = n, ![t].min_packet = m]
      BY <1>3, <2>1
    <2>3. /\ loc' \in [Threads -> Locals]
          /\ \A u \in Threads \ {t} : loc'[u] = loc[u]
          /\ loc'[t].min_packet = m /\ loc'[t].i = n
          /\ OtherFields(loc'[t], loc[t], {"min_packet", "i"})
      BY <2>2, PacketUpdate
    <2>4. OtherFields(loc'[t], loc[t], {"min_bound", "min_packet", "i"})
      BY <2>3 DEF OtherFields
    <2>5. loc'[t].min_bound = loc[t].min_bound
      BY <2>3 DEF OtherFields
    <2> QED
      BY <1>3, <2>1, <2>3, <2>4, <2>5
  <1> QED
    BY <1>2, <1>3

\* What the invariant says of the types.
LEMMA NodeTypes ==
    ASSUME NodeInv
    PROVE  /\ PlacesInv /\ StreamInv
           /\ max_in_flight \in Int /\ current_in_flight \in Int /\ Allowance \in Int
           /\ batch \in Seq(Timestamps)
           /\ active_contexts \subseteq Timestamps
           /\ completed_input_timestamps \subseteq Timestamps /\ scheduled \subseteq Timestamps
           /\ task_timestamp_bound \in Timestamps /\ last_processed_ts \in Timestamps
           /\ \A s \in Streams : s \in Threads /\ s \in Int /\ s + 1 \in Int
           /\ \A w \in Workers : w \in Threads /\ w \notin Streams
           /\ \A t \in Threads : loc[t] \in Locals
           /\ \A t \in Threads : /\ loc[t].left \in Int /\ loc[t].i \in Int
                                 /\ loc[t].invocations \in Int
                                 /\ loc[t].timestamp \in Timestamps /\ loc[t].context \in Timestamps
                                 /\ loc[t].min_packet \in Timestamps
                                 /\ loc[t].min_bound \in Timestamps
  <1>1. PlacesInv /\ InputsInv /\ ConfigInv /\ CountInv /\ BatchInv /\ ContextsInv
    BY DEF NodeInv
  <1>2. max_in_flight \in Int /\ current_in_flight \in Int
    BY <1>1 DEF ConfigInv, CountInv
  <1>3. \A s \in Streams : s \in Threads /\ s \in Int /\ s + 1 \in Int
    <2>1. PICK n : n = Cardinality(Streams)
      OBVIOUS
    <2>2. Streams = 1 .. n
      BY <2>1, NodeAssumption
    <2> QED
      BY <2>2 DEF Threads
  <1>4. \A w \in Workers : w \in Threads /\ w \notin Streams
    BY NodeAssumption DEF Threads
  <1>5. \A t \in Threads : loc[t] \in Locals
    BY <1>1 DEF PlacesInv
  <1>6. \A l \in Locals : /\ l.left \in Int /\ l.i \in Int /\ l.invocations \in Int
                          /\ l.timestamp \in Timestamps /\ l.context \in Timestamps
                          /\ l.min_packet \in Timestamps /\ l.min_bound \in Timestamps
    BY DEF Locals
  <1>7. PlacesInv /\ StreamInv /\ batch \in Seq(Timestamps)
        /\ active_contexts \subseteq Timestamps
        /\ completed_input_timestamps \subseteq Timestamps /\ scheduled \subseteq Timestamps
        /\ task_timestamp_bound \in Timestamps /\ last_processed_ts \in Timestamps
    BY <1>1 DEF InputsInv, BatchInv, ContextsInv
  <1> QED
    BY <1>2, <1>3, <1>4, <1>5, <1>6, <1>7 DEF Allowance

\* What GetReadiness() computes from its two minima are timestamps.
LEMMA MinimaTypes ==
    ASSUME NEW p \in Timestamps, NEW b \in Timestamps
    PROVE  /\ MinStreamTimestamp(p, b) \in Timestamps
           /\ PreviousAllowedInStream(b) \in Timestamps
           /\ InputTimestamp(p, b) \in Timestamps
  <1>1. MinStreamTimestamp(p, b) \in Timestamps
    BY DEF MinStreamTimestamp, Earlier
  <1>2. \A t \in Timestamps : PreviousAllowedInStream(t) \in Timestamps
    BY RangeAssumption
       DEF PreviousAllowedInStream, Plus, Timestamps, Unset, Unstarted, PreStream, PostStream, Done
  <1> QED
    BY <1>1, <1>2 DEF InputTimestamp, Earlier

-----------------------------------------------------------------------------
(* What each action does to the thread that takes it.                      *)

\* A scan takes one more stream into its minima.
LEMMA ScanEffect ==
    ASSUME NodeInv, NEW t \in Threads, ScanStream(t)
    PROVE  LET s == loc[t].i
               time == MinTimestampOrBound(s)
           IN  /\ pc[t] = "scan" /\ s \in Streams
               /\ Moves(t) /\ pc' = pc /\ loc'[t].i = s + 1
               /\ loc'[t].min_bound = IF queue[s] = <<>> THEN Earlier(loc[t].min_bound, time)
                                                         ELSE loc[t].min_bound
               /\ loc'[t].min_packet = IF queue[s] = <<>> THEN loc[t].min_packet
                                                          ELSE Earlier(loc[t].min_packet, time)
               /\ OtherFields(loc'[t], loc[t], {"min_bound", "min_packet", "i"})
  <1>1. PICK s \in Streams : s = loc[t].i
    BY DEF ScanStream
  <1>2. PICK n \in Int : n = s + 1
    BY NodeTypes
  <1>3. PICK time \in Timestamps : time = MinTimestampOrBound(s)
    BY NodeTypes, StreamOffers
  <1>4. PlacesInv
    BY NodeTypes
  <1>5. /\ pc[t] = "scan" /\ pc' = pc
        /\ loc' = IF queue[s] = <<>>
                  THEN [loc EXCEPT ![t].i = n, ![t].min_bound = Earlier(@, time)]
                  ELSE [loc EXCEPT ![t].i = n, ![t].min_packet = Earlier(@, time)]
    BY <1>1, <1>2, <1>3 DEF ScanStream
  <1>6. /\ loc' \in [Threads -> Locals]
        /\ \A u \in Threads \ {t} : loc'[u] = loc[u]
        /\ loc'[t].i = n
        /\ loc'[t].min_bound = IF queue[s] = <<>> THEN Earlier(loc[t].min_bound, time) ELSE loc[t].min_bound
        /\ loc'[t].min_packet = IF queue[s] = <<>> THEN loc[t].min_packet ELSE Earlier(loc[t].min_packet, time)
        /\ OtherFields(loc'[t], loc[t], {"min_bound", "min_packet", "i"})
    BY <1>4, <1>5, ScanUpdate
  <1>7. Moves(t)
    BY <1>5, <1>6, NodeTypes, ThreadFacts DEF Moves
  <1> QED
    BY <1>1, <1>2, <1>3, <1>4, <1>5, <1>6, <1>7

\* A thread that finds the node not ready remembers the bound to announce.
LEMMA NotReadyEffect ==
    ASSUME NodeInv, NEW t \in Threads, NotReady(t)
    PROVE  /\ Moves(t) /\ pc'[t] = "bound" /\ loc'[t].caller = "recheck"
           /\ loc'[t].timestamp = IF batch_size > 1 /\ batch # <<>> THEN Head(batch)
                                  ELSE MinStreamTimestamp(loc[t].min_packet, loc[t].min_bound)
  <1>1. PICK time \in Timestamps :
           time = IF batch_size > 1 /\ batch # <<>> THEN Head(batch)
                  ELSE MinStreamTimestamp(loc[t].min_packet, loc[t].min_bound)
    BY NodeTypes, MinimaTypes
  <1> DEFINE l == [NoLocals EXCEPT !.caller = "recheck", !.timestamp = time]
  <1>2. l \in Locals
    BY NoLocalsType DEF Locals
  <1>3. l.caller = "recheck" /\ l.timestamp = time
    BY NoLocalsType DEF Locals
  <1>4. loc' = [loc EXCEPT ![t] = l] /\ pc' = [pc EXCEPT ![t] = "bound"]
    BY <1>1 DEF NotReady, Goto
  <1>5. "bound" \in Labels
    BY DEF Labels, LoopLabels
  <1> HIDE DEF l
  <1> QED
    BY <1>1, <1>2, <1>3, <1>4, <1>5, NodeTypes, ThreadFacts DEF Moves

\* A thread that prepares a context fills it from the first stream on.
LEMMA PrepareContextEffect ==
    ASSUME NodeInv, NEW t \in Threads, PrepareContext(t)
    PROVE  /\ Moves(t) /\ pc'[t] = "fill" /\ loc'[t].i = 1
           /\ loc'[t].timestamp = InputTimestamp(loc[t].min_packet, loc[t].min_bound)
           /\ OtherFields(loc'[t], loc[t], {"timestamp", "i"})
  <1>1. PICK time \in Timestamps : time = InputTimestamp(loc[t].min_packet, loc[t].min_bound)
    BY NodeTypes, MinimaTypes
  <1>2. PICK one \in Int : one = 1
    OBVIOUS
  <1>3. loc' = [loc EXCEPT ![t].timestamp = time, ![t].i = one] /\ pc' = [pc EXCEPT ![t] = "fill"]
    BY <1>1, <1>2 DEF PrepareContext, Goto
  <1>4. "fill" \in Labels
    BY DEF Labels, LoopLabels
  <1>5. /\ loc' \in [Threads -> Locals]
        /\ \A u \in Threads \ {t} : loc'[u] = loc[u]
        /\ loc'[t].timestamp = time /\ loc'[t].i = one
        /\ OtherFields(loc'[t], loc[t], {"timestamp", "i"})
    BY <1>3, StartUpdate, NodeTypes
  <1> QED
    BY <1>1, <1>2, <1>3, <1>4, <1>5, NodeTypes, ThreadFacts DEF Moves

\* A thread that finds all inputs ended schedules Done, or looks again.
LEMMA PrepareCloseEffect ==
    ASSUME NodeInv, NEW t \in Threads, PrepareClose(t)
    PROVE  /\ Moves(t) /\ OtherFields(loc'[t], loc[t], {"timestamp"})
           /\ IF MayPrepareClose THEN pc'[t] = "schedule" /\ loc'[t].timestamp = Done
              ELSE pc'[t] = "recheck" /\ loc' = loc
  <1>1. CASE MayPrepareClose
    <2>1. loc' = [loc EXCEPT ![t].timestamp = Done] /\ pc' = [pc EXCEPT ![t] = "schedule"]
      BY <1>1 DEF PrepareClose, Goto
    <2>2. "schedule" \in Labels
      BY DEF Labels, LoopLabels
    <2>3. /\ loc' \in [Threads -> Locals]
          /\ \A u \in Threads \ {t} : loc'[u] = loc[u]
          /\ loc'[t].timestamp = Done
          /\ OtherFields(loc'[t], loc[t], {"timestamp"})
      BY <2>1, TimestampUpdate, NodeTypes, NoLocalsType
    <2> QED
      BY <1>1, <2>1, <2>2, <2>3, NodeTypes, ThreadFacts DEF Moves
  <1>2. CASE ~MayPrepareClose
    <2>1. loc' = loc /\ Goto(t, "recheck")
      BY <1>2 DEF PrepareClose
    <2>2. "recheck" \in Labels
      BY DEF Labels, LoopLabels
    <2> QED
      BY <1>2, <2>1, <2>2, GotoEffect, NodeTypes DEF OtherFields
  <1> QED
    BY <1>1, <1>2

\* What becomes of the thread when the stream is filled.
FilledMove(t) ==
    \/ /\ loc[t].i + 1 \in Streams
       /\ pc'[t] = "fill" /\ loc'[t].i = loc[t].i + 1
       /\ OtherFields(loc'[t], loc[t], {"i"})
    \/ /\ loc[t].i + 1 \notin Streams /\ (Parallel \/ Len(batch) = batch_size)
       /\ pc'[t] = "schedule" /\ loc'[t] = loc[t]
    \/ /\ loc[t].i + 1 \notin Streams /\ ~Parallel
       /\ NextInvocation(t, loc[t].left)

\* A thread that fills an input set moves as FilledMove says.
LEMMA FillEffect ==
    ASSUME NodeInv, NEW t \in Threads, FillStream(t)
    PROVE  Moves(t) /\ FilledMove(t)
  <1>1. CASE loc[t].i + 1 \in Streams
    <2>1. PICK n \in Int : n = loc[t].i + 1
      BY <1>1, NodeTypes
    <2>2. loc' = [loc EXCEPT ![t].i = n] /\ pc' = pc /\ pc[t] = "fill"
      BY <1>1, <2>1 DEF FillStream
    <2>3. /\ loc' \in [Threads -> Locals]
          /\ \A u \in Threads \ {t} : loc'[u] = loc[u]
          /\ loc'[t].i = n /\ OtherFields(loc'[t], loc[t], {"i"})
      BY <2>2, IndexUpdate, NodeTypes
    <2> QED
      BY <1>1, <2>1, <2>2, <2>3, NodeTypes, ThreadFacts DEF Moves, FilledMove
  <1>2. CASE loc[t].i + 1 \notin Streams /\ (Parallel \/ Len(batch) = batch_size)
    <2>1. Goto(t, "schedule") /\ UNCHANGED loc
      BY <1>2 DEF FillStream
    <2>2. "schedule" \in Labels
      BY DEF Labels, LoopLabels
    <2> QED
      BY <1>2, <2>1, <2>2, GotoEffect, NodeTypes DEF FilledMove
  <1>3. CASE loc[t].i + 1 \notin Streams /\ ~(Parallel \/ Len(batch) = batch_size)
    <2>1. NextInvocation(t, loc[t].left)
      BY <1>3 DEF FillStream
    <2> QED
      BY <1>3, <2>1, NextInvocationEffect, NodeTypes DEF FilledMove
  <1> QED
    BY <1>1, <1>2, <1>3

\* A thread that has scheduled a context tests readiness again, and after
\* Done leaves the loop.
LEMMA ScheduleEffect ==
    ASSUME NodeInv, NEW t \in Threads, Schedule(t)
    PROVE  /\ Moves(t) /\ pc'[t] \in {"scan", "recheck"} /\ loc'[t].caller = "none"
           /\ IF loc[t].timestamp = Done
              THEN pc'[t] = "recheck" /\ loc'[t] = NoLocals
              ELSE NextInvocation(t, loc[t].left - 1)
  <1>1. CASE loc[t].timestamp = Done
    <2>1. loc' = [loc EXCEPT ![t] = NoLocals] /\ Goto(t, "recheck")
      BY <1>1 DEF Schedule
    <2>2. "recheck" \in Labels
      BY DEF Labels, LoopLabels
    <2> QED
      BY <1>1, <2>1, <2>2, FreshEffect, NodeTypes, NoLocalsType
  <1>2. CASE loc[t].timestamp # Done
    <2>1. NextInvocation(t, loc[t].left - 1)
      BY <1>2 DEF Schedule
    <2>2. loc[t].left - 1 \in Int
      BY NodeTypes
    <2> QED
      BY <1>2, <2>1, <2>2, NextInvocationEffect, NodeTypes
  <1> QED
    BY <1>1, <1>2

\* A thread that has something to propagate, or has just propagated.
Propagates(t) ==
    /\ pc[t] \in {"bound", "post"} \cup PropLabels
    /\ loc[t].caller \in {"recheck", "end"} /\ loc[t].caller \in Labels
    /\ loc[t].caller = "end" => t \in Workers
    /\ InLoop(t) <=> loc[t].caller = "recheck"
    /\ InPropagation(t) <=> pc[t] \in PropLabels

\* The labels say who propagates and for whom.
LEMMA WhoPropagates ==
    ASSUME PlacesInv, NEW t \in Threads, pc[t] \in {"bound", "post"} \cup PropLabels
    PROVE  Propagates(t)
  <1>1. Placed(t) /\ (InLoop(t) <=> LoopAt(pc[t], loc[t])) /\ (InPropagation(t) <=> pc[t] \in PropLabels)
    BY ThreadFacts
  <1>2. loc[t].caller \in {"recheck", "end"}
    BY <1>1 DEF Placed, CallerFits
  <1>3. pc[t] = "bound" => loc[t].caller = "recheck"
    BY <1>1 DEF Placed, CallerFits
  <1>4. {"recheck", "end"} \subseteq Labels
    BY DEF Labels, LoopLabels, TaskLabels
  <1> QED
    BY <1>1, <1>2, <1>3, <1>4, LabelSets
       DEF Placed, LoopAt, Propagates, LoopLabels

\* Who leaves the propagation loop goes back to its caller.
LEMMA FinishEffect ==
    ASSUME NodeInv, NEW t \in Threads, Propagates(t), FinishPropagation(t)
    PROVE  /\ Moves(t) /\ pc'[t] = loc[t].caller /\ loc'[t] = NoLocals
           /\ propagation_state' = "Idle"
  BY FreshEffect, NodeTypes DEF FinishPropagation, Propagates

\* Who starts to propagate packets takes the earliest active context.
LEMMA StartPacketsEffect ==
    ASSUME NodeInv, NEW t \in Threads, active_contexts # {}, StartPackets(t)
    PROVE  /\ Moves(t) /\ pc'[t] = "propagate" /\ propagation_state' = "PropagatingPackets"
           /\ loc'[t].context = Earliest(active_contexts)
           /\ OtherFields(loc'[t], loc[t], {"context"})
  <1>1. PICK c \in Timestamps : c = Earliest(active_contexts)
    BY NodeTypes, EarliestOfSome
  <1>2. loc' = [loc EXCEPT ![t].context = c] /\ pc' = [pc EXCEPT ![t] = "propagate"]
    BY <1>1 DEF StartPackets, Goto
  <1>3. PlacesInv
    BY NodeTypes
  <1>4. /\ loc' \in [Threads -> Locals]
        /\ \A u \in Threads \ {t} : loc'[u] = loc[u]
        /\ loc'[t].context = c /\ OtherFields(loc'[t], loc[t], {"context"})
    BY <1>2, <1>3, ContextUpdate
  <1>5. "propagate" \in Labels
    BY DEF Labels, PropLabels, PacketLabels
  <1> QED
    BY <1>1, <1>2, <1>3, <1>4, <1>5, ThreadFacts DEF Moves, StartPackets

\* Who starts to propagate a bound remembers it.
LEMMA StartBoundEffect ==
    ASSUME NodeInv, NEW t \in Threads, NEW bound \in Timestamps, StartBound(t, bound)
    PROVE  /\ Moves(t) /\ pc'[t] = "try_bound" /\ propagation_state' = "PropagatingBound"
           /\ loc'[t].timestamp = bound
           /\ OtherFields(loc'[t], loc[t], {"timestamp"})
  <1>2. loc' = [loc EXCEPT ![t].timestamp = bound] /\ pc' = [pc EXCEPT ![t] = "try_bound"]
    BY DEF StartBound, Goto
  <1>3. PlacesInv
    BY NodeTypes
  <1>4. /\ loc' \in [Threads -> Locals]
        /\ \A u \in Threads \ {t} : loc'[u] = loc[u]
        /\ loc'[t].timestamp = bound /\ OtherFields(loc'[t], loc[t], {"timestamp"})
    BY <1>2, <1>3, TimestampUpdate
  <1>5. "try_bound" \in Labels
    BY DEF Labels, PropLabels, BoundLabels
  <1> QED
    BY <1>2, <1>3, <1>4, <1>5, ThreadFacts DEF Moves, StartBound

\* A call that leaves the propagation to the thread that is at it.
LeavesPropagation(t) ==
    /\ propagation_state # "Idle"
    /\ propagation_state' =
          IF propagation_state = "PropagatingBound" THEN "PropagationPending" ELSE propagation_state
    /\ loc' = [loc EXCEPT ![t] = NoLocals]
    /\ Goto(t, loc[t].caller)

\* Who leaves the propagation to another goes back to its caller.
LEMMA LeavesEffect ==
    ASSUME NodeInv, NEW t \in Threads, Propagates(t), LeavesPropagation(t)
    PROVE  Moves(t) /\ pc'[t] = loc[t].caller /\ loc'[t] = NoLocals
  BY FreshEffect, NodeTypes DEF LeavesPropagation, Propagates

\* A thread goes on with the propagation, ends it or leaves it to another.
LEMMA PropagationPlaces ==
    ASSUME NodeInv, NEW t \in Threads, Propagates(t), Parallel, max_in_flight' = max_in_flight,
           UNCHANGED <<status, scheduling_state>>,
           \/ /\ propagation_state = "Idle" \/ InPropagation(t)
              /\ \/ FinishPropagation(t)
                 \/ active_contexts # {} /\ StartPackets(t)
                 \/ \E bound \in Timestamps : StartBound(t, bound)
           \/ ~InPropagation(t) /\ LeavesPropagation(t)
    PROVE  PlacesInv' /\ Moves(t)
  <1>0. PlacesInv
    BY NodeTypes
  <1>1. /\ status \in Statuses /\ scheduling_state \in SchedulingStates
        /\ propagation_state \in PropagationStates
        /\ InLoop(t) => scheduling_state # "Idle"
        /\ InPropagation(t) => propagation_state # "Idle"
    BY <1>0, ThreadFacts
  <1>2. /\ loc[t].caller \in {"recheck", "end"}
        /\ loc[t].caller = "end" => t \in Workers
        /\ InLoop(t) <=> loc[t].caller = "recheck"
        /\ InPropagation(t) <=> pc[t] \in PropLabels
    BY DEF Propagates
  <1>3. ASSUME Moves(t), pc'[t] = loc[t].caller, loc'[t] = NoLocals,
               propagation_state' \in PropagationStates,
               \/ InPropagation(t) /\ propagation_state' = "Idle"
               \/ ~InPropagation(t) /\ propagation_state' = propagation_state
               \/ ~InPropagation(t) /\ propagation_state = "PropagatingBound"
                                    /\ propagation_state' = "PropagationPending"
        PROVE  PlacesInv'
    <2>1. LoopAt(pc'[t], loc'[t]) <=> InLoop(t)
      BY <1>2, <1>3, NoLocalsType DEF LoopAt, LoopLabels
    <2>2. pc'[t] \notin PropLabels
      BY <1>2, <1>3 DEF PropLabels, PacketLabels, BoundLabels
    <2>3. CallerFits(pc'[t], loc'[t].caller) /\ StateFits(pc'[t], propagation_state')
      BY <1>2, <1>3, <2>2, NoLocalsType
         DEF CallerFits, StateFits, LoopLabels, PropLabels, PacketLabels, BoundLabels
    <2>4. pc'[t] \in TaskLabels \/ loc'[t].caller = "end" => t \in Workers
      BY <1>2, <1>3, NoLocalsType DEF TaskLabels
    <2>5. LoopMove(t) /\ PropMove(t)
      BY <1>1, <1>3, <2>1, <2>2 DEF LoopMove, PropMove
    <2>6. MoveAllowed(t)
      BY <1>1, <1>3, <2>2, <2>3, <2>4, <2>5 DEF MoveAllowed
    <2> QED
      BY <1>0, <2>6, ThreadMoves
  <1>4. ASSUME Moves(t), loc'[t].caller = loc[t].caller,
               propagation_state = "Idle" \/ InPropagation(t),
               \/ pc'[t] = "propagate" /\ propagation_state' = "PropagatingPackets"
               \/ pc'[t] = "try_bound" /\ propagation_state' = "PropagatingBound"
        PROVE  PlacesInv'
    <2>1. LoopAt(pc'[t], loc'[t]) <=> InLoop(t)
      BY <1>2, <1>4 DEF LoopAt, LoopLabels
    <2>2. pc'[t] \in PropLabels /\ propagation_state' \in PropagationStates
          /\ propagation_state' # "Idle"
      BY <1>4 DEF PropLabels, PacketLabels, BoundLabels, PropagationStates
    <2>3. CallerFits(pc'[t], loc'[t].caller) /\ StateFits(pc'[t], propagation_state')
      BY <1>2, <1>4 DEF CallerFits, StateFits, LoopLabels, PacketLabels, BoundLabels
    <2>4. pc'[t] \in TaskLabels \/ loc'[t].caller = "end" => t \in Workers
      BY <1>2, <1>4 DEF TaskLabels
    <2>5. LoopMove(t) /\ PropMove(t)
      BY <1>1, <1>4, <2>1, <2>2 DEF LoopMove, PropMove
    <2>6. MoveAllowed(t)
      BY <1>1, <1>4, <2>2, <2>3, <2>4, <2>5 DEF MoveAllowed
    <2> QED
      BY <1>0, <2>6, ThreadMoves
  <1>5. CASE (propagation_state = "Idle" \/ InPropagation(t)) /\ FinishPropagation(t)
    <2>1. Moves(t) /\ pc'[t] = loc[t].caller /\ loc'[t] = NoLocals /\ propagation_state' = "Idle"
      BY <1>5, FinishEffect
    <2>2. propagation_state' \in PropagationStates
      BY <2>1 DEF PropagationStates
    <2>3. CASE InPropagation(t)
      BY <1>3, <2>1, <2>2, <2>3
    <2>4. CASE ~InPropagation(t)
      <3>1. propagation_state' = propagation_state
        BY <1>5, <2>1, <2>4
      <3> QED
        BY <1>3, <2>1, <2>2, <2>4, <3>1
    <2> QED
      BY <2>3, <2>4
  <1>6. CASE (propagation_state = "Idle" \/ InPropagation(t)) /\ active_contexts # {} /\ StartPackets(t)
    <2>1. Moves(t) /\ pc'[t] = "propagate" /\ propagation_state' = "PropagatingPackets"
          /\ OtherFields(loc'[t], loc[t], {"context"})
      BY <1>6, StartPacketsEffect
    <2>2. loc'[t].caller = loc[t].caller
      BY <2>1 DEF OtherFields
    <2> QED
      BY <1>4, <1>6, <2>1, <2>2
  <1>7. CASE (propagation_state = "Idle" \/ InPropagation(t))
             /\ \E bound \in Timestamps : StartBound(t, bound)
    <2>1. Moves(t) /\ pc'[t] = "try_bound" /\ propagation_state' = "PropagatingBound"
          /\ OtherFields(loc'[t], loc[t], {"timestamp"})
      BY <1>7, StartBoundEffect
    <2>2. loc'[t].caller = loc[t].caller
      BY <2>1 DEF OtherFields
    <2> QED
      BY <1>4, <1>7, <2>1, <2>2
  <1>8. CASE ~InPropagation(t) /\ LeavesPropagation(t)
    <2>1. Moves(t) /\ pc'[t] = loc[t].caller /\ loc'[t] = NoLocals
      BY <1>8, LeavesEffect
    <2>2. /\ propagation_state' \in PropagationStates
          /\ \/ propagation_state' = propagation_state
             \/ propagation_state = "PropagatingBound" /\ propagation_state' = "PropagationPending"
      BY <1>1, <1>8 DEF PropagationStates, LeavesPropagation
    <2> QED
      BY <1>3, <1>8, <2>1, <2>2
  <1> QED
    BY <1>5, <1>6, <1>7, <1>8

\* A worker takes a context from the queue and knows how many invocations it
\* has.
LEMMA RunTaskEffect ==
    ASSUME NodeInv, NEW w \in Workers, RunTask(w)
    PROVE  /\ pc[w] = "free"
           /\ \E c \in scheduled :
                 /\ scheduled' = scheduled \ {c}
                 /\ Moves(w) /\ pc'[w] = "process"
                 /\ loc'[w].context = c /\ loc'[w].caller = "end" /\ loc'[w].timestamp = Unset
                 /\ loc'[w].invocations = IF c = Done THEN Len(batch) ELSE 1
  <1>1. PICK c \in scheduled :
           /\ scheduled' = scheduled \ {c}
           /\ loc' = [loc EXCEPT ![w] =
                        [NoLocals EXCEPT !.context = c, !.caller = "end",
                           !.invocations = IF c = Default THEN Len(batch) ELSE 1]]
    BY DEF RunTask
  <1>2. c \in Timestamps
    BY NodeTypes
  <1>3. PICK n \in Int : n = IF c = Default THEN Len(batch) ELSE 1
    BY NodeTypes
  <1> DEFINE l == [NoLocals EXCEPT !.context = c, !.caller = "end", !.invocations = n]
  <1>4. l \in Locals
    BY <1>2, NoLocalsType DEF Locals
  <1>5. l.context = c /\ l.caller = "end" /\ l.timestamp = Unset /\ l.invocations = n
    BY NoLocalsType DEF Locals
  <1>6. loc' = [loc EXCEPT ![w] = l] /\ pc' = [pc EXCEPT ![w] = "process"] /\ pc[w] = "free"
    BY <1>1, <1>3 DEF RunTask, Goto
  <1>7. "process" \in Labels
    BY DEF Labels, TaskLabels
  <1> HIDE DEF l
  <1>8. Moves(w) /\ pc'[w] = "process" /\ loc'[w] = l
    BY <1>4, <1>6, <1>7, NodeTypes, ThreadFacts DEF Moves
  <1> QED
    BY <1>1, <1>3, <1>5, <1>6, <1>8 DEF Default

\* The timestamp of the next turn of a task.
TurnTimestamp(w) == IF loc[w].context = Done THEN Head(batch) ELSE loc[w].context

\* There is an input timestamp for the next turn of a task.
LEMMA TurnIsTimestamp ==
    ASSUME NodeInv, NEW w \in Workers, pc[w] = "process"
    PROVE  /\ TurnTimestamp(w) \in Timestamps
           /\ loc[w].context = Done => batch # <<>> /\ Head(batch) = batch[1]
  <1>1. loc[w].context = Done => batch # <<>>
    BY DEF NodeInv, BatchInv, RunsBatch
  <1>2. batch \in Seq(Timestamps) /\ loc[w].context \in Timestamps
    BY NodeTypes
  <1> QED
    BY <1>1, <1>2 DEF TurnTimestamp

\* A turn ends in CloseNode() if its timestamp is Done, and in PostProcess()
\* otherwise.
LEMMA ProcessEffect ==
    ASSUME NodeInv, NEW w \in Workers, Process(w)
    PROVE  /\ pc[w] = "process" /\ Moves(w)
           /\ IF TurnTimestamp(w) = Done
              THEN /\ pc'[w] = "close" /\ loc'[w].i = 1
                   /\ OtherFields(loc'[w], loc[w], {"i"})
              ELSE /\ pc'[w] = "post" /\ loc'[w].timestamp = TurnTimestamp(w)
                   /\ OtherFields(loc'[w], loc[w], {"timestamp"})
  <1>0. pc[w] = "process" /\ PlacesInv /\ w \in Threads
    BY NodeTypes DEF Process
  <1>1. PICK time \in Timestamps : time = TurnTimestamp(w)
    BY <1>0, TurnIsTimestamp
  <1>2. CASE time = Done
    <2>1. PICK one \in Int : one = 1
      OBVIOUS
    <2>2. loc' = [loc EXCEPT ![w].i = one] /\ pc' = [pc EXCEPT ![w] = "close"]
      BY <1>1, <1>2, <2>1 DEF Process, TurnTimestamp, Goto, Default
    <2>3. /\ loc' \in [Threads -> Locals]
          /\ \A u \in Threads \ {w} : loc'[u] = loc[u]
          /\ loc'[w].i = one /\ OtherFields(loc'[w], loc[w], {"i"})
      BY <1>0, <2>2, IndexUpdate
    <2>4. "close" \in Labels
      BY DEF Labels, TaskLabels
    <2> QED
      BY <1>0, <1>1, <1>2, <2>1, <2>2, <2>3, <2>4, ThreadFacts DEF Moves
  <1>3. CASE time # Done
    <2>2. loc' = [loc EXCEPT ![w].timestamp = time] /\ pc' = [pc EXCEPT ![w] = "post"]
      BY <1>1, <1>3 DEF Process, TurnTimestamp, Goto, Default
    <2>3. /\ loc' \in [Threads -> Locals]
          /\ \A u \in Threads \ {w} : loc'[u] = loc[u]
          /\ loc'[w].timestamp = time /\ OtherFields(loc'[w], loc[w], {"timestamp"})
      BY <1>0, <2>2, TimestampUpdate
    <2>4. "post" \in Labels
      BY DEF Labels, TaskLabels
    <2> QED
      BY <1>0, <1>1, <1>3, <2>2, <2>3, <2>4, ThreadFacts DEF Moves
  <1> QED
    BY <1>2, <1>3

\* A task that is not parallel sends its outputs and takes its next turn.
TakesTurn(w) ==
    /\ Goto(w, IF loc[w].invocations > 1 THEN "process" ELSE "end")
    /\ loc' = [loc EXCEPT ![w].invocations = @ - 1, ![w].timestamp = Unset]

\* A task that takes its turns has one invocation less after each.
LEMMA TurnEffect ==
    ASSUME NodeInv, NEW w \in Workers, TakesTurn(w)
    PROVE  /\ Moves(w) /\ pc'[w] = IF loc[w].invocations > 1 THEN "process" ELSE "end"
           /\ loc'[w].invocations = loc[w].invocations - 1 /\ loc'[w].timestamp = Unset
           /\ OtherFields(loc'[w], loc[w], {"timestamp", "invocations"})
  <1>0. PlacesInv /\ w \in Threads
    BY NodeTypes
  <1>1. PICK n \in Int : n = loc[w].invocations - 1
    BY <1>0, NodeTypes
  <1>5. PICK time \in Timestamps : time = Unset
    BY NoLocalsType
  <1>2. loc' = [loc EXCEPT ![w].invocations = n, ![w].timestamp = time]
    BY <1>1, <1>5 DEF TakesTurn
  <1>3. /\ loc' \in [Threads -> Locals]
        /\ \A u \in Threads \ {w} : loc'[u] = loc[u]
        /\ loc'[w].timestamp = time /\ loc'[w].invocations = n
        /\ OtherFields(loc'[w], loc[w], {"timestamp", "invocations"})
    BY <1>0, <1>2, TurnUpdate
  <1>4. {"process", "end"} \subseteq Labels
    BY DEF Labels, TaskLabels
  <1> QED
    BY <1>0, <1>1, <1>3, <1>4, <1>5, ThreadFacts DEF Moves, TakesTurn, Goto

\* Input streams are closed one after the other, the outputs after them.
LEMMA CloseEffect ==
    ASSUME NodeInv, NEW w \in Workers, CloseInputStream(w)
    PROVE  /\ pc[w] = "close" /\ Moves(w) /\ loc'[w].i = loc[w].i + 1
           /\ pc'[w] = IF loc[w].i + 1 \in Streams THEN "close" ELSE "close_outputs"
           /\ OtherFields(loc'[w], loc[w], {"i"})
  <1>0. PlacesInv /\ w \in Threads
    BY NodeTypes
  <1>1. PICK n \in Int : n = loc[w].i + 1
    BY <1>0, NodeTypes
  <1>2. loc' = [loc EXCEPT ![w].i = n]
    BY <1>1 DEF CloseInputStream
  <1>3. /\ loc' \in [Threads -> Locals]
        /\ \A u \in Threads \ {w} : loc'[u] = loc[u]
        /\ loc'[w].i = n /\ OtherFields(loc'[w], loc[w], {"i"})
    BY <1>0, <1>2, IndexUpdate
  <1>4. {"close", "close_outputs"} \subseteq Labels
    BY DEF Labels, TaskLabels
  <1> QED
    BY <1>0, <1>1, <1>3, <1>4, ThreadFacts DEF Moves, CloseInputStream, Goto

-----------------------------------------------------------------------------
(* The places after each action.                                           *)

\* Actions that only lead to another label.
OnlyGoes(t) ==
    \/ t \in Streams /\ (Produce(t) \/ EndStream(t))
    \/ t \in Workers /\ (OpenNode(t) \/ CloseOutputStreams(t) \/ NodeClosed(t))
    \/ PropagatePackets(t) \/ RecycleContext(t) \/ TryBound(t) \/ SendBound(t)

\* Where they lead.
Leads(t, from, to) ==
    \/ from = "produce" /\ to \in {"produce", "notify"}
    \/ from = "free" /\ to = "notify"
    \/ t \in Workers /\ from = "close_outputs" /\ to = "closed"
    \/ t \in Workers /\ from = "closed" /\ to = "end"
    \/ from = "propagate" /\ to = "recycle"
    \/ from = "recycle" /\ to = "propagated"
    \/ from = "try_bound" /\ to \in {"send_bound", "bound_tried"}
    \/ from = "send_bound" /\ to = "bound_tried"

\* What these actions leave alone.
LEMMA GoesKeeps ==
    ASSUME NEW t \in Threads, OnlyGoes(t)
    PROVE  /\ loc' = loc /\ UNCHANGED <<scheduling_state, propagation_state>>
           /\ status' \in {status, "Opened", "Closed"}
           /\ \E label \in Labels : Goto(t, label) /\ Leads(t, pc[t], label)
  <1>0. {"produce", "notify", "closed", "end", "recycle", "propagated", "send_bound", "bound_tried"}
           \subseteq Labels
    BY DEF Labels, TaskLabels, PropLabels, PacketLabels, BoundLabels
  <1>1. CASE Produce(t)
    <2>1. loc' = loc /\ UNCHANGED <<scheduling_state, propagation_state>>
          /\ status' \in {status, "Opened", "Closed"}
      BY <1>1 DEF Produce, schedVars, propVars
    <2>2. \E label \in Labels : Goto(t, label) /\ Leads(t, pc[t], label)
      BY <1>0, <1>1 DEF Produce, Leads
    <2> QED
      BY <2>1, <2>2
  <1>2. CASE EndStream(t)
    <2>1. loc' = loc /\ UNCHANGED <<scheduling_state, propagation_state>>
          /\ status' \in {status, "Opened", "Closed"}
      BY <1>2 DEF EndStream, schedVars, propVars
    <2>2. \E label \in Labels : Goto(t, label) /\ Leads(t, pc[t], label)
      BY <1>0, <1>2 DEF EndStream, Leads
    <2> QED
      BY <2>1, <2>2
  <1>3. CASE t \in Workers /\ OpenNode(t)
    <2>1. loc' = loc /\ UNCHANGED <<scheduling_state, propagation_state>>
          /\ status' \in {status, "Opened", "Closed"}
      BY <1>3 DEF OpenNode, schedVars, propVars
    <2>2. \E label \in Labels : Goto(t, label) /\ Leads(t, pc[t], label)
      BY <1>0, <1>3 DEF OpenNode, Leads
    <2> QED
      BY <2>1, <2>2
  <1>4. CASE t \in Workers /\ CloseOutputStreams(t)
    <2>1. loc' = loc /\ UNCHANGED <<scheduling_state, propagation_state>>
          /\ status' \in {status, "Opened", "Closed"}
      BY <1>4 DEF CloseOutputStreams, schedVars, propVars
    <2>2. \E label \in Labels : Goto(t, label) /\ Leads(t, pc[t], label)
      BY <1>0, <1>4 DEF CloseOutputStreams, Leads
    <2> QED
      BY <2>1, <2>2
  <1>5. CASE t \in Workers /\ NodeClosed(t)
    <2>1. loc' = loc /\ UNCHANGED <<scheduling_state, propagation_state>>
          /\ status' \in {status, "Opened", "Closed"}
      BY <1>5 DEF NodeClosed, schedVars, propVars
    <2>2. \E label \in Labels : Goto(t, label) /\ Leads(t, pc[t], label)
      BY <1>0, <1>5 DEF NodeClosed, Leads
    <2> QED
      BY <2>1, <2>2
  <1>6. CASE PropagatePackets(t)
    <2>1. loc' = loc /\ UNCHANGED <<scheduling_state, propagation_state>>
          /\ status' \in {status, "Opened", "Closed"}
      BY <1>6 DEF PropagatePackets, schedVars, propVars
    <2>2. \E label \in Labels : Goto(t, label) /\ Leads(t, pc[t], label)
      BY <1>0, <1>6 DEF PropagatePackets, Leads
    <2> QED
      BY <2>1, <2>2
  <1>7. CASE RecycleContext(t)
    <2>1. loc' = loc /\ UNCHANGED <<scheduling_state, propagation_state>>
          /\ status' \in {status, "Opened", "Closed"}
      BY <1>7 DEF RecycleContext, schedVars, propVars
    <2>2. \E label \in Labels : Goto(t, label) /\ Leads(t, pc[t], label)
      BY <1>0, <1>7 DEF RecycleContext, Leads
    <2> QED
      BY <2>1, <2>2
  <1>8. CASE TryBound(t)
    <2>1. loc' = loc /\ UNCHANGED <<scheduling_state, propagation_state>>
          /\ status' \in {status, "Opened", "Closed"}
      BY <1>8 DEF TryBound, schedVars, propVars
    <2>2. \E label \in Labels : Goto(t, label) /\ Leads(t, pc[t], label)
      BY <1>0, <1>8 DEF TryBound, Leads
    <2> QED
      BY <2>1, <2>2
  <1>9. CASE SendBound(t)
    <2>1. loc' = loc /\ UNCHANGED <<scheduling_state, propagation_state>>
          /\ status' \in {status, "Opened", "Closed"}
      BY <1>9 DEF SendBound, schedVars, propVars
    <2>2. \E label \in Labels : Goto(t, label) /\ Leads(t, pc[t], label)
      BY <1>0, <1>9 DEF SendBound, Leads
    <2> QED
      BY <2>1, <2>2
  <1> QED
    BY <1>1, <1>2, <1>3, <1>4, <1>5, <1>6, <1>7, <1>8, <1>9 DEF OnlyGoes

\* The actions that only lead to another label lead where Leads says.
LEMMA GoesEffect ==
    ASSUME NodeInv, NEW t \in Threads, OnlyGoes(t)
    PROVE  /\ Moves(t) /\ loc' = loc /\ Leads(t, pc[t], pc'[t])
           /\ UNCHANGED <<scheduling_state, propagation_state>>
  <1>0. PlacesInv
    BY NodeTypes
  <1>1. loc' = loc /\ UNCHANGED <<scheduling_state, propagation_state>>
    BY GoesKeeps
  <1>3. PICK label \in Labels : Goto(t, label) /\ Leads(t, pc[t], label)
    BY GoesKeeps
  <1>4. Moves(t) /\ pc'[t] = label
    BY <1>0, <1>1, <1>3, GotoEffect
  <1> QED
    BY <1>1, <1>3, <1>4

\* These actions leave everybody in a place that fits.
LEMMA GoesPlaces ==
    ASSUME NodeInv, NEW t \in Threads, OnlyGoes(t), UNCHANGED configVars
    PROVE  PlacesInv'
  <1>0. PlacesInv /\ max_in_flight' = max_in_flight
    BY NodeTypes DEF configVars
  <1>1. Moves(t) /\ loc' = loc /\ Leads(t, pc[t], pc'[t])
        /\ UNCHANGED <<scheduling_state, propagation_state>>
    BY GoesEffect
  <1>2. Placed(t) /\ status \in Statuses
    BY <1>0, ThreadFacts
  <1>3. status' \in Statuses
    BY <1>2, GoesKeeps DEF Statuses
  <1>4. /\ CallerFits(pc'[t], loc'[t].caller) /\ StateFits(pc'[t], propagation_state)
        /\ pc'[t] \in TaskLabels \/ loc'[t].caller = "end" => t \in Workers
        /\ LoopAt(pc'[t], loc'[t]) <=> LoopAt(pc[t], loc[t])
        /\ pc'[t] \in PropLabels <=> pc[t] \in PropLabels
    BY <1>1, <1>2
       DEF Leads, Placed, CallerFits, StateFits, LoopAt, LoopLabels, TaskLabels, PropLabels,
           PacketLabels, BoundLabels
  <1> QED
    BY <1>0, <1>1, <1>3, <1>4, PlainMove

\* So does joining the propagation after an update.
LEMMA JoinPlaces ==
    ASSUME NodeInv, NEW t \in Threads, pc[t] \in {"bound", "post"}, Parallel,
           UNCHANGED configVars, UNCHANGED <<status, scheduling_state>>,
           NEW completed, NEW bound \in Timestamps, JoinPropagation(t, completed, bound)
    PROVE  PlacesInv' /\ Moves(t)
  <1>0. PlacesInv /\ max_in_flight' = max_in_flight
    BY NodeTypes DEF configVars
  <1>1. Propagates(t) /\ ~InPropagation(t)
    <2>1. Propagates(t)
      BY <1>0, WhoPropagates
    <2>2. pc[t] \notin PropLabels
      BY DEF PropLabels, PacketLabels, BoundLabels
    <2> QED
      BY <2>1, <2>2 DEF Propagates
  <1>2. CASE propagation_state = "Idle"
    <2>1. \/ FinishPropagation(t)
          \/ active_contexts # {} /\ StartPackets(t)
          \/ StartBound(t, bound)
      BY <1>2 DEF JoinPropagation
    <2>2. \/ FinishPropagation(t)
          \/ active_contexts # {} /\ StartPackets(t)
          \/ \E b \in Timestamps : StartBound(t, b)
      BY <2>1
    <2> QED
      BY <1>0, <1>1, <1>2, <2>2, PropagationPlaces
  <1>3. CASE propagation_state # "Idle"
    <2>1. LeavesPropagation(t)
      BY <1>3 DEF JoinPropagation, LeavesPropagation
    <2> QED
      BY <1>0, <1>1, <1>3, <2>1, PropagationPlaces
  <1> QED
    BY <1>2, <1>3

\* The timestamps that stay completed when a thread has propagated one.
StillCompleted == completed_input_timestamps \ {Earliest(completed_input_timestamps)}

\* The one it has propagated is the earliest, the others are active.
LEMMA EarliestIsPropagated ==
    ASSUME NodeInv, NEW t \in Threads, pc[t] = "propagated"
    PROVE  /\ Parallel
           /\ Earliest(completed_input_timestamps) = loc[t].context
           /\ loc[t].context \in completed_input_timestamps
           /\ StillCompleted \subseteq active_contexts
  <1>1. PlacesInv /\ ContextsInv
    BY DEF NodeInv
  <1>2. Placed(t) /\ LoopsExclusive
    BY <1>1 DEF PlacesInv
  <1>3. Parallel
    BY <1>2 DEF Placed, PropLabels, PacketLabels
  <1>4. /\ completed_input_timestamps \subseteq Timestamps
        /\ loc[t].context \in completed_input_timestamps
        /\ \A c \in active_contexts : loc[t].context < c
        /\ \A c \in completed_input_timestamps :
              c \in active_contexts \/ \E u \in Threads : pc[u] = "propagated" /\ loc[u].context = c
    BY <1>1, <1>3 DEF ContextsInv, ActiveInv, PropagatesFirst
  <1>5. \A u \in Threads : pc[u] = "propagated" => u = t
    BY <1>2 DEF LoopsExclusive, InPropagation
  <1>6. \A c \in completed_input_timestamps : c = loc[t].context \/ c \in active_contexts
    BY <1>4, <1>5
  <1>7. /\ Earliest(completed_input_timestamps) \in completed_input_timestamps
        /\ Earliest(completed_input_timestamps) <= loc[t].context
    BY <1>4, EarliestOfSome
  <1>8. Earliest(completed_input_timestamps) = loc[t].context
    <2>1. \A c \in Timestamps : c \in Int
      BY SpecialTimestamps
    <2> QED
      BY <1>4, <1>6, <1>7, <2>1
  <1> QED
    BY <1>3, <1>4, <1>6, <1>8 DEF StillCompleted

\* So do the steps of the propagation and PostProcess().
LEMMA OutputPlaces ==
    ASSUME NodeInv, NEW t \in Threads, UNCHANGED configVars,
           \/ UpdateTaskTimestampBound(t) \/ PacketsPropagated(t) \/ BoundPropagated(t)
           \/ t \in Workers /\ PostProcess(t)
    PROVE  PlacesInv' /\ Moves(t)
  <1>0. PlacesInv /\ max_in_flight' = max_in_flight
    BY NodeTypes DEF configVars
  <1>t. /\ task_timestamp_bound \in Timestamps /\ loc[t].timestamp \in Timestamps
        /\ Placed(t) /\ status \in Statuses
    BY <1>0, NodeTypes, ThreadFacts
  <1>1. CASE UpdateTaskTimestampBound(t)
    <2>1. pc[t] = "bound" /\ UNCHANGED <<status, scheduling_state>>
      BY <1>1 DEF UpdateTaskTimestampBound, schedVars
    <2>2. CASE Parallel /\ task_timestamp_bound # loc[t].timestamp
      <3>1. JoinPropagation(t, completed_input_timestamps, loc[t].timestamp)
        BY <1>1, <2>2 DEF UpdateTaskTimestampBound
      <3> QED
        BY <1>0, <1>t, <2>1, <2>2, <3>1, JoinPlaces
    <2>3. CASE ~(Parallel /\ task_timestamp_bound # loc[t].timestamp)
      <3>1. loc' = [loc EXCEPT ![t] = NoLocals] /\ Goto(t, "recheck") /\ UNCHANGED propVars
        BY <1>1, <2>3 DEF UpdateTaskTimestampBound
      <3>2. "recheck" \in Labels
        BY DEF Labels, LoopLabels
      <3>3. Moves(t) /\ pc'[t] = "recheck" /\ loc'[t] = NoLocals /\ propagation_state' = propagation_state
        BY <1>0, <3>1, <3>2, FreshEffect DEF propVars
      <3>4. /\ CallerFits(pc'[t], loc'[t].caller) /\ StateFits(pc'[t], propagation_state)
            /\ pc'[t] \in TaskLabels \/ loc'[t].caller = "end" => t \in Workers
            /\ LoopAt(pc'[t], loc'[t]) <=> LoopAt(pc[t], loc[t])
            /\ pc'[t] \in PropLabels <=> pc[t] \in PropLabels
        BY <2>1, <3>3, NoLocalsType
           DEF CallerFits, StateFits, LoopAt, LoopLabels, TaskLabels, PropLabels, PacketLabels, BoundLabels
      <3> QED
        BY <1>0, <1>t, <2>1, <3>3, <3>4, PlainMove
    <2> QED
      BY <2>2, <2>3
  <1>2. CASE PacketsPropagated(t)
    <2>1. pc[t] = "propagated" /\ UNCHANGED <<status, scheduling_state>>
      BY <1>2 DEF PacketsPropagated, schedVars
    <2>2. pc[t] \in PropLabels
      BY <2>1 DEF PropLabels, PacketLabels
    <2>3. Propagates(t) /\ InPropagation(t)
      BY <1>0, <2>2, WhoPropagates DEF Propagates
    <2>4. Parallel /\ StillCompleted \subseteq active_contexts
      BY <2>1, EarliestIsPropagated
    <2>5. \/ FinishPropagation(t)
          \/ active_contexts # {} /\ StartPackets(t)
          \/ StartBound(t, task_timestamp_bound)
      BY <1>2, <2>4 DEF PacketsPropagated, StillCompleted, FrontIsCompleted
    <2> QED
      BY <1>0, <1>t, <2>1, <2>3, <2>4, <2>5, PropagationPlaces
  <1>3. CASE BoundPropagated(t)
    <2>1. pc[t] = "bound_tried" /\ UNCHANGED <<status, scheduling_state>>
      BY <1>3 DEF BoundPropagated, schedVars
    <2>2. pc[t] \in PropLabels
      BY <2>1 DEF PropLabels, BoundLabels
    <2>3. Propagates(t) /\ InPropagation(t)
      BY <1>0, <2>2, WhoPropagates DEF Propagates
    <2>4. Parallel
      BY <1>t, <2>2 DEF Placed
    <2>5. \/ FinishPropagation(t)
          \/ active_contexts # {} /\ StartPackets(t)
          \/ StartBound(t, task_timestamp_bound)
      BY <1>3 DEF BoundPropagated
    <2> QED
      BY <1>0, <1>t, <2>1, <2>3, <2>4, <2>5, PropagationPlaces
  <1>4. CASE t \in Workers /\ PostProcess(t)
    <2>1. pc[t] = "post" /\ UNCHANGED <<status, scheduling_state>>
      BY <1>4 DEF PostProcess, schedVars
    <2>2. CASE Parallel
      <3>1. JoinPropagation(t, completed_input_timestamps \cup {loc[t].timestamp}, task_timestamp_bound)
        BY <1>4, <2>2 DEF PostProcess
      <3> QED
        BY <1>0, <1>t, <2>1, <2>2, <3>1, JoinPlaces
    <2>3. CASE ~Parallel
      <3>1. TakesTurn(t) /\ UNCHANGED propVars
        BY <1>4, <2>3 DEF PostProcess, TakesTurn
      <3>2. Moves(t) /\ pc'[t] \in {"process", "end"} /\ OtherFields(loc'[t], loc[t], {"timestamp", "invocations"})
            /\ propagation_state' = propagation_state
        BY <1>4, <3>1, TurnEffect DEF propVars
      <3>3. loc'[t].caller = loc[t].caller /\ loc[t].caller = "end"
        BY <1>t, <2>1, <3>2 DEF OtherFields, Placed, CallerFits
      <3>4. /\ CallerFits(pc'[t], loc'[t].caller) /\ StateFits(pc'[t], propagation_state)
            /\ LoopAt(pc'[t], loc'[t]) <=> LoopAt(pc[t], loc[t])
            /\ pc'[t] \in PropLabels <=> pc[t] \in PropLabels
        BY <2>1, <3>2, <3>3
           DEF CallerFits, StateFits, LoopAt, LoopLabels, TaskLabels, PropLabels, PacketLabels, BoundLabels
      <3> QED
        BY <1>0, <1>4, <1>t, <2>1, <3>2, <3>4, PlainMove
    <2> QED
      BY <2>2, <2>3
  <1> QED
    BY <1>1, <1>2, <1>3, <1>4

\* Actions of a worker that has a task.
LEMMA TaskPlaces ==
    ASSUME NodeInv, NEW w \in Workers, UNCHANGED configVars,
           RunTask(w) \/ Process(w) \/ CloseInputStream(w)
    PROVE  PlacesInv' /\ Moves(w)
  <1>0. PlacesInv /\ max_in_flight' = max_in_flight /\ w \in Threads
    BY NodeTypes DEF configVars
  <1>t. Placed(w) /\ status \in Statuses
    BY <1>0, ThreadFacts
  <1>1. UNCHANGED <<status, scheduling_state, propagation_state>>
    BY DEF RunTask, Process, CloseInputStream, schedVars, propVars
  <1>2. /\ Moves(w) /\ loc'[w].caller = "end" /\ loc[w].caller # "recheck"
        /\ pc[w] \in {"free", "process", "close"}
        /\ pc'[w] \in {"process", "post", "close", "close_outputs"}
    <2>1. CASE RunTask(w)
      <3>1. pc[w] = "free" /\ loc[w].caller = "none"
        BY <1>t, <2>1, RunTaskEffect DEF Placed, CallerFits
      <3> QED
        BY <2>1, <3>1, RunTaskEffect
    <2>2. CASE Process(w)
      <3>1. pc[w] = "process" /\ Moves(w) /\ pc'[w] \in {"post", "close"}
            /\ loc'[w].caller = loc[w].caller
        BY <2>2, ProcessEffect DEF OtherFields
      <3> QED
        BY <1>t, <3>1 DEF Placed, CallerFits
    <2>3. CASE CloseInputStream(w)
      <3>1. pc[w] = "close" /\ Moves(w) /\ pc'[w] \in {"close", "close_outputs"}
            /\ loc'[w].caller = loc[w].caller
        BY <2>3, CloseEffect DEF OtherFields
      <3> QED
        BY <1>t, <3>1 DEF Placed, CallerFits
    <2> QED
      BY <2>1, <2>2, <2>3
  <1>3. /\ CallerFits(pc'[w], loc'[w].caller) /\ StateFits(pc'[w], propagation_state)
        /\ LoopAt(pc'[w], loc'[w]) <=> LoopAt(pc[w], loc[w])
        /\ pc'[w] \in PropLabels <=> pc[w] \in PropLabels
    BY <1>2
       DEF CallerFits, StateFits, LoopAt, LoopLabels, TaskLabels, PropLabels, PacketLabels, BoundLabels
  <1> QED
    BY <1>0, <1>t, <1>1, <1>2, <1>3, PlainMove

\* A thread outside the propagation enters the scheduling loop, goes on in it,
\* leaves it or tells another thread to look again.
LEMMA LoopPlaces ==
    ASSUME PlacesInv, NEW t \in Threads, Moves(t), max_in_flight' = max_in_flight,
           UNCHANGED <<status, propagation_state>>,
           pc[t] \notin PropLabels, pc'[t] \notin PropLabels \cup TaskLabels,
           loc'[t].caller = IF pc'[t] = "bound" THEN "recheck" ELSE "none",
           scheduling_state' \in SchedulingStates,
           \/ /\ pc'[t] \in LoopLabels <=> InLoop(t)
              /\ (scheduling_state' = "Idle") <=> (scheduling_state = "Idle")
           \/ pc'[t] \in LoopLabels /\ scheduling_state = "Idle" /\ scheduling_state' # "Idle"
           \/ pc'[t] \notin LoopLabels /\ InLoop(t) /\ scheduling_state' = "Idle"
    PROVE  PlacesInv'
  <1>1. /\ status \in Statuses /\ propagation_state \in PropagationStates
        /\ InPropagation(t) <=> pc[t] \in PropLabels
        /\ pc'[t] \in Labels
    BY ThreadFacts DEF Moves
  <1>2. LoopAt(pc'[t], loc'[t]) <=> pc'[t] \in LoopLabels
    BY DEF LoopAt, LoopLabels
  <1>3. CallerFits(pc'[t], loc'[t].caller) /\ StateFits(pc'[t], propagation_state')
    BY <1>1 DEF CallerFits, StateFits, LoopLabels, PropLabels, TaskLabels
  <1>4. LoopMove(t) /\ PropMove(t)
    BY <1>1, <1>2 DEF LoopMove, PropMove
  <1>5. MoveAllowed(t)
    BY <1>1, <1>3, <1>4 DEF MoveAllowed
  <1> QED
    BY <1>5, ThreadMoves

\* Entering the scheduling loop, going on in it and leaving it keep the two
\* state variables true to who is in the loops.
LEMMA NotifyPlaces ==
    ASSUME NodeInv, NEW t \in Threads, UNCHANGED configVars,
           CheckIfBecameReady(t) \/ BeginLoop(t) \/ Recheck(t) \/ (t \in Workers /\ EndScheduling(t))
    PROVE  PlacesInv' /\ Moves(t)
  <1>0. PlacesInv /\ max_in_flight' = max_in_flight
    BY NodeTypes DEF configVars
  <1>t. /\ Placed(t) /\ Home(t) \in {"produce", "free"} /\ scheduling_state \in SchedulingStates
        /\ InLoop(t) => scheduling_state # "Idle"
        /\ InLoop(t) <=> LoopAt(pc[t], loc[t])
        /\ "begin" \in Labels
    BY <1>0, ThreadFacts DEF Labels, LoopLabels
  <1>a. Allowance \in Int
    BY NodeTypes
  <1>1. UNCHANGED <<status, propagation_state>>
    <2>1. CASE CheckIfBecameReady(t)
      BY <2>1 DEF CheckIfBecameReady, propVars
    <2>2. CASE BeginLoop(t)
      BY <2>2 DEF BeginLoop, propVars
    <2>3. CASE Recheck(t)
      BY <2>3 DEF Recheck, propVars
    <2>4. CASE EndScheduling(t)
      BY <2>4 DEF EndScheduling, propVars
    <2> QED
      BY <2>1, <2>2, <2>3, <2>4
  <1>2. pc[t] \in {"notify", "begin", "recheck", "end"}
    BY DEF CheckIfBecameReady, BeginLoop, Recheck, EndScheduling
  <1>3. /\ InLoop(t) <=> pc[t] \in {"begin", "recheck"}
        /\ pc[t] \notin PropLabels
        /\ pc[t] = "notify" => loc[t].caller = "none"
    BY <1>2, <1>t DEF LoopAt, LoopLabels, Placed, CallerFits, PropLabels, PacketLabels, BoundLabels
  <1>4. ASSUME Return(t), scheduling_state' \in SchedulingStates,
               \/ InLoop(t) /\ scheduling_state' = "Idle"
               \/ /\ ~InLoop(t)
                  /\ (scheduling_state' = "Idle") <=> (scheduling_state = "Idle")
        PROVE  PlacesInv' /\ Moves(t)
    <2>1. Moves(t) /\ pc'[t] = Home(t) /\ loc'[t] = NoLocals
      BY <1>0, <1>4, ReturnEffect
    <2>2. pc'[t] \notin PropLabels \cup TaskLabels \cup LoopLabels /\ loc'[t].caller = "none"
          /\ pc'[t] # "bound"
      BY <1>t, <2>1, NoLocalsType, LabelSets DEF LoopLabels
    <2> QED
      BY <1>0, <1>1, <1>3, <1>4, <2>1, <2>2, LoopPlaces
  <1>5. ASSUME Moves(t), pc'[t] \in {"begin", "scan", "recheck"}, loc'[t].caller = "none",
               scheduling_state' \in SchedulingStates \ {"Idle"},
               InLoop(t) \/ scheduling_state = "Idle"
        PROVE  PlacesInv'
    <2>1. pc'[t] \notin PropLabels \cup TaskLabels /\ pc'[t] \in LoopLabels /\ pc'[t] # "bound"
      BY <1>5 DEF PropLabels, TaskLabels, LoopLabels, PacketLabels, BoundLabels
    <2> QED
      BY <1>0, <1>1, <1>3, <1>5, <1>t, <2>1, LoopPlaces
  <1>6. CASE CheckIfBecameReady(t)
    <2>1. ~InLoop(t)
      BY <1>3, <1>6 DEF CheckIfBecameReady
    <2>2. CASE Return(t)
      <3>1. scheduling_state' \in SchedulingStates
            /\ ((scheduling_state' = "Idle") <=> (scheduling_state = "Idle"))
        <4>1. \/ scheduling_state' = scheduling_state
              \/ scheduling_state' = ToldToLookAgain
              \/ /\ status = "Opened" /\ scheduling_state = "Idle"
                 /\ scheduling_state' = "Scheduling" /\ Goto(t, "begin")
          BY <1>6 DEF CheckIfBecameReady
        <4>2. ~Goto(t, "begin")
          <5>1. pc'[t] = Home(t)
            BY <1>0, <2>2, ReturnEffect
          <5>2. Goto(t, "begin") => pc'[t] = "begin"
            BY <1>0, ThreadFacts DEF Goto
          <5> QED
            BY <1>t, <5>1, <5>2
        <4> QED
          BY <1>t, <4>1, <4>2 DEF ToldToLookAgain, SchedulingStates
      <3> QED
        BY <1>4, <2>1, <2>2, <3>1
    <2>3. CASE ~Return(t)
      <3>1. scheduling_state = "Idle" /\ scheduling_state' = "Scheduling" /\ Goto(t, "begin") /\ loc' = loc
        BY <1>6, <2>3 DEF CheckIfBecameReady
      <3>2. Moves(t) /\ pc'[t] = "begin" /\ loc'[t] = loc[t]
        BY <1>0, <1>t, <3>1, GotoEffect
      <3>3. loc'[t].caller = "none"
        BY <1>3, <1>6, <3>2 DEF CheckIfBecameReady
      <3>4. scheduling_state' \in SchedulingStates \ {"Idle"}
        BY <3>1 DEF SchedulingStates
      <3> QED
        BY <1>5, <3>1, <3>2, <3>3, <3>4
    <2> QED
      BY <2>2, <2>3
  <1>7. CASE BeginLoop(t) \/ Recheck(t)
    <2>1. InLoop(t)
      BY <1>3, <1>7 DEF BeginLoop, Recheck
    <2>2. CASE scheduling_state' = "Idle" /\ Return(t)
      BY <1>4, <2>1, <2>2 DEF SchedulingStates
    <2>3. CASE ~(scheduling_state' = "Idle" /\ Return(t))
      <3>1. scheduling_state' \in {scheduling_state, "Scheduling"} /\ NextInvocation(t, Allowance)
        BY <1>7, <2>3 DEF BeginLoop, Recheck
      <3>2. /\ Moves(t) /\ pc'[t] \in {"begin", "scan", "recheck"} /\ loc'[t].caller = "none"
        BY <1>0, <1>a, <3>1, NextInvocationEffect
      <3>3. scheduling_state' \in SchedulingStates \ {"Idle"}
        BY <1>t, <2>1, <3>1 DEF SchedulingStates
      <3> QED
        BY <1>5, <2>1, <3>2, <3>3
    <2> QED
      BY <2>2, <2>3
  <1>8. CASE t \in Workers /\ EndScheduling(t)
    <2>1. ~InLoop(t)
      BY <1>3, <1>8 DEF EndScheduling
    <2>2. CASE scheduling_state = "Idle" /\ scheduling_state' = "Scheduling"
               /\ loc' = [loc EXCEPT ![t] = NoLocals] /\ Goto(t, "begin")
      <3>1. Moves(t) /\ pc'[t] = "begin" /\ loc'[t] = NoLocals
        BY <1>0, <1>t, <2>2, FreshEffect
      <3> QED
        BY <1>5, <2>2, <3>1, NoLocalsType DEF SchedulingStates
    <2>3. CASE /\ Return(t)
               /\ \/ scheduling_state' = scheduling_state
                  \/ scheduling_state # "Idle" /\ scheduling_state' = "SchedulingPending"
      BY <1>4, <1>t, <2>1, <2>3 DEF SchedulingStates
    <2> QED
      BY <1>8, <2>2, <2>3 DEF EndScheduling, NobodySchedules
  <1> QED
    BY <1>6, <1>7, <1>8

\* So do the steps of the readiness scan, of the input sets and of the
\* scheduling.
LEMMA SchedulingPlaces ==
    ASSUME NodeInv, NEW t \in Threads, UNCHANGED configVars,
           ScanStream(t) \/ Decide(t) \/ FillStream(t) \/ Schedule(t)
    PROVE  PlacesInv' /\ Moves(t)
  <1>0. PlacesInv /\ max_in_flight' = max_in_flight
    BY NodeTypes DEF configVars
  <1>1. UNCHANGED <<status, scheduling_state, propagation_state>>
    <2>1. CASE ScanStream(t)
      BY <2>1 DEF ScanStream, propVars, schedVars
    <2>2. CASE Decide(t)
      BY <2>2 DEF Decide, propVars, schedVars
    <2>3. CASE FillStream(t)
      BY <2>3 DEF FillStream, propVars, schedVars
    <2>4. CASE Schedule(t)
      BY <2>4 DEF Schedule, propVars
    <2> QED
      BY <2>1, <2>2, <2>3, <2>4
  <1>2. pc[t] \in {"scan", "fill", "schedule"}
    BY DEF ScanStream, Decide, FillStream, Schedule
  <1>3. loc[t].caller = "none" /\ InLoop(t) /\ pc[t] \notin PropLabels
    BY <1>0, <1>2, ThreadFacts
       DEF Placed, CallerFits, LoopAt, LoopLabels, PropLabels, PacketLabels, BoundLabels
  <1>t. loc[t].left \in Int
    BY NodeTypes
  <1>4. /\ Moves(t) /\ pc'[t] \in {"scan", "fill", "schedule", "recheck", "bound"}
        /\ loc'[t].caller = IF pc'[t] = "bound" THEN "recheck" ELSE "none"
    <2>1. CASE ScanStream(t)
      <3>1. Moves(t) /\ pc'[t] = "scan" /\ loc'[t].caller = loc[t].caller
        BY <2>1, ScanEffect DEF OtherFields
      <3> QED
        BY <1>3, <3>1
    <2>2. CASE Decide(t)
      <3>1. CASE NotReady(t)
        BY <3>1, NotReadyEffect
      <3>2. CASE PrepareContext(t)
        <4>1. Moves(t) /\ pc'[t] = "fill" /\ loc'[t].caller = loc[t].caller
          BY <3>2, PrepareContextEffect DEF OtherFields
        <4> QED
          BY <1>3, <4>1
      <3>3. CASE PrepareClose(t)
        <4>1. Moves(t) /\ pc'[t] \in {"schedule", "recheck"} /\ loc'[t].caller = loc[t].caller
          BY <3>3, PrepareCloseEffect DEF OtherFields
        <4> QED
          BY <1>3, <4>1
      <3> QED
        BY <2>2, <3>1, <3>2, <3>3 DEF Decide
    <2>3. CASE FillStream(t)
      <3>1. Moves(t) /\ FilledMove(t)
        BY <2>3, FillEffect
      <3>2. CASE pc'[t] = "fill" /\ OtherFields(loc'[t], loc[t], {"i"})
        BY <1>3, <3>1, <3>2 DEF OtherFields
      <3>3. CASE pc'[t] = "schedule" /\ loc'[t] = loc[t]
        BY <1>3, <3>1, <3>3
      <3>4. CASE NextInvocation(t, loc[t].left)
        BY <1>0, <1>t, <3>4, NextInvocationEffect
      <3> QED
        BY <3>1, <3>2, <3>3, <3>4 DEF FilledMove
    <2>4. CASE Schedule(t)
      BY <2>4, ScheduleEffect
    <2> QED
      BY <2>1, <2>2, <2>3, <2>4
  <1>5. pc'[t] \notin PropLabels \cup TaskLabels /\ pc'[t] \in LoopLabels
    BY <1>4 DEF PropLabels, TaskLabels, LoopLabels, PacketLabels, BoundLabels
  <1>6. scheduling_state \in SchedulingStates
    BY <1>0, ThreadFacts
  <1> QED
    BY <1>0, <1>1, <1>3, <1>4, <1>5, <1>6, LoopPlaces

\* Every step leaves everybody in a place that fits, one thread at most in
\* each of the two loops.
LEMMA NodePlaces ==
    ASSUME NodeInv, NEW t \in Threads, UNCHANGED configVars,
           \/ t \in Streams /\ (Produce(t) \/ EndStream(t))
           \/ ThreadStep(t)
    PROVE  PlacesInv' /\ Moves(t)
  <1>1. CASE OnlyGoes(t)
    BY <1>1, GoesPlaces, GoesEffect
  <1>2. CASE ~OnlyGoes(t)
    <2>1. \/ CheckIfBecameReady(t) \/ BeginLoop(t) \/ Recheck(t) \/ (t \in Workers /\ EndScheduling(t))
          \/ ScanStream(t) \/ Decide(t) \/ FillStream(t) \/ Schedule(t)
          \/ UpdateTaskTimestampBound(t) \/ PacketsPropagated(t) \/ BoundPropagated(t)
          \/ t \in Workers /\ PostProcess(t)
          \/ t \in Workers /\ (RunTask(t) \/ Process(t) \/ CloseInputStream(t))
      <3>1. ThreadStep(t)
        BY <1>2 DEF OnlyGoes
      <3>2. CASE LoopStep(t)
        BY <3>2 DEF LoopStep
      <3>3. CASE OutputStep(t)
        BY <1>2, <3>3 DEF OutputStep, OnlyGoes
      <3>4. CASE t \in Workers /\ WorkerStep(t)
        BY <1>2, <3>4 DEF WorkerStep, OnlyGoes
      <3> QED
        BY <3>1, <3>2, <3>3, <3>4 DEF ThreadStep
    <2>2. CASE CheckIfBecameReady(t) \/ BeginLoop(t) \/ Recheck(t) \/ (t \in Workers /\ EndScheduling(t))
      BY <2>2, NotifyPlaces
    <2>3. CASE ScanStream(t) \/ Decide(t) \/ FillStream(t) \/ Schedule(t)
      BY <2>3, SchedulingPlaces
    <2>4. CASE \/ UpdateTaskTimestampBound(t) \/ PacketsPropagated(t) \/ BoundPropagated(t)
               \/ t \in Workers /\ PostProcess(t)
      BY <2>4, OutputPlaces
    <2>5. CASE t \in Workers /\ (RunTask(t) \/ Process(t) \/ CloseInputStream(t))
      BY <2>5, TaskPlaces
    <2> QED
      BY <2>1, <2>2, <2>3, <2>4, <2>5
  <1> QED
    BY <1>1, <1>2

-----------------------------------------------------------------------------
(* What the steps do to the input streams.                                 *)

\* What is known of every input stream.
LEMMA StreamFacts ==
    ASSUME NodeInv, NEW s \in Streams
    PROVE  /\ Timed = Streams /\ TimedInv(s) /\ enable_timestamps[s]
           /\ queue[s] \in Seq(Timestamps) /\ Len(queue[s]) \in Nat
           /\ next_timestamp_bound[s] \in Timestamps /\ next_timestamp_bound[s] \in Int
           /\ last_select_timestamp[s] \in Timestamps /\ last_select_timestamp[s] \in Int
           /\ MinTimestampOrBound(s) \in Timestamps /\ MinTimestampOrBound(s) \in Int
           /\ \A i \in 1 .. Len(queue[s]) :
                 /\ queue[s][i] \in Timestamps /\ queue[s][i] \in Int
                 /\ IsAllowedInStream(queue[s][i])
                 /\ MinTimestampOrBound(s) <= queue[s][i]
                 /\ queue[s][i] < next_timestamp_bound[s]
           /\ MinTimestampOrBound(s) <= next_timestamp_bound[s]
           /\ ~closed[s] => last_select_timestamp[s] < MinTimestampOrBound(s)
  <1>1. StreamInv /\ ConfigInv /\ InputsInv
    BY DEF NodeInv, InputsInv
  <1>2. Timed = Streams /\ enable_timestamps[s]
    BY <1>1 DEF ConfigInv, Timed
  <1>3. TimedInv(s)
    BY <1>1, <1>2 DEF StreamInv
  <1>4. /\ queue[s] \in Seq(Timestamps) /\ Len(queue[s]) \in Nat
        /\ next_timestamp_bound[s] \in Timestamps
        /\ last_select_timestamp[s] \in Timestamps
        /\ MinTimestampOrBound(s) \in Timestamps
    BY <1>1, StreamOffers
  <1>5. \A t \in Timestamps : t \in Int
    BY SpecialTimestamps
  <1>6. \A i \in 1 .. Len(queue[s]) : queue[s][i] \in Timestamps /\ queue[s][i] \in Int
    BY <1>4, <1>5
  <1>7. ASSUME NEW i \in 1 .. Len(queue[s])
        PROVE  MinTimestampOrBound(s) <= queue[s][i] /\ queue[s][i] < next_timestamp_bound[s]
    <2>1. 1 \in 1 .. Len(queue[s]) /\ MinTimestampOrBound(s) = queue[s][1]
      BY <1>4 DEF MinTimestampOrBound
    <2> QED
      BY <1>3, <1>6, <2>1 DEF TimedInv, OrderInv
  <1>8. CASE queue[s] = <<>>
    <2>1. MinTimestampOrBound(s) = next_timestamp_bound[s]
      BY <1>8 DEF MinTimestampOrBound
    <2> QED
      BY <1>1, <1>2, <1>3, <1>4, <1>5, <1>6, <1>7, <2>1 DEF TimedInv, BoundsInv, InputsInv, QueuesAllowed
  <1>9. CASE queue[s] # <<>>
    <2>1. 1 \in 1 .. Len(queue[s]) /\ MinTimestampOrBound(s) = queue[s][1]
      BY <1>4, <1>9 DEF MinTimestampOrBound
    <2>2. ~closed[s] => last_select_timestamp[s] < MinTimestampOrBound(s)
      BY <1>3, <2>1 DEF TimedInv, OrderInv
    <2>3. MinTimestampOrBound(s) <= next_timestamp_bound[s]
      BY <1>4, <1>5, <1>7, <2>1
    <2> QED
      BY <1>1, <1>2, <1>3, <1>4, <1>5, <1>6, <1>7, <2>2, <2>3 DEF InputsInv, QueuesAllowed
  <1> QED
    BY <1>8, <1>9

\* The streams offer at least what they offered; what had been seen at the head
\* of a queue is still there, and what had ended has ended.
Offers(s) ==
    /\ MinTimestampOrBound(s) <= MinTimestampOrBound(s)'
    /\ queue[s] # <<>> => queue'[s] # <<>> /\ Head(queue'[s]) = Head(queue[s])
    /\ Ended(s) => Ended(s)'
    /\ last_select_timestamp'[s] = last_select_timestamp[s]
    /\ closed'[s] = closed[s]

StreamsOffer == StreamInv' /\ QueuesAllowed' /\ \A s \in Streams : Offers(s)

\* A stream that stays the same offers what it offered.
LEMMA SameOffers ==
    ASSUME NodeInv, NEW s \in Streams, StreamSame(s)
    PROVE  Offers(s)
  BY StreamFacts DEF StreamSame, Offers, Ended, MinTimestampOrBound

\* Streams that stay the same offer what they offered.
LEMMA SameStreams ==
    ASSUME NodeInv, UNCHANGED streamVars
    PROVE  StreamsOffer
  <1>1. StreamInv'
    BY NodeTypes
       DEF streamVars, queueVars, sizeVars, boundVars, StreamInv, StreamTypeOK, Timed, TimedInv,
           BoundsInv, OrderInv, SpecialInv
  <1>2. QueuesAllowed'
    BY DEF NodeInv, InputsInv, QueuesAllowed, streamVars, queueVars
  <1>3. \A s \in Streams : Offers(s)
    BY SameOffers DEF StreamSame, streamVars, queueVars, boundVars
  <1> QED
    BY <1>1, <1>2, <1>3 DEF StreamsOffer

\* So do all streams when one gets a bound.
LEMMA BoundOffers ==
    ASSUME NodeInv, enable_timestamps' = enable_timestamps, NEW s \in Streams,
           NEW bound \in Timestamps, SetNextTimestampBound(s, bound)
    PROVE  StreamsOffer
  <1>1. StreamInv'
    BY NodeTypes, SetBoundStep
  <1>2. queue' = queue /\ last_select_timestamp' = last_select_timestamp /\ closed' = closed
        /\ num_packets_added' = num_packets_added
    BY DEF SetNextTimestampBound, queueVars
  <1>3. /\ \A r \in Streams \ {s} : next_timestamp_bound'[r] = next_timestamp_bound[r]
        /\ next_timestamp_bound'[s] \in {bound, next_timestamp_bound[s]}
        /\ next_timestamp_bound'[s] = bound => bound > next_timestamp_bound[s] \/ bound = next_timestamp_bound[s]
    BY NodeTypes DEF SetNextTimestampBound, StreamInv, StreamTypeOK
  <1>4. QueuesAllowed'
    BY <1>2 DEF NodeInv, InputsInv, QueuesAllowed
  <1>5. \A r \in Streams \ {s} : Offers(r)
    BY <1>2, <1>3, SameOffers DEF StreamSame
  <1>6. next_timestamp_bound'[s] >= next_timestamp_bound[s] /\ next_timestamp_bound'[s] \in Int
    <2>1. next_timestamp_bound[s] \in Int /\ bound \in Int
      BY StreamFacts, SpecialTimestamps
    <2>2. \/ next_timestamp_bound'[s] = next_timestamp_bound[s]
          \/ next_timestamp_bound'[s] = bound /\ bound > next_timestamp_bound[s]
      BY <1>3
    <2> QED
      BY <2>1, <2>2
  <1>7. Offers(s)
    BY <1>2, <1>6, StreamFacts, SpecialTimestamps DEF Offers, Ended, MinTimestampOrBound
  <1> QED
    BY <1>1, <1>4, <1>5, <1>7 DEF StreamsOffer

\* A packet accepted by a stream that is not closed.
LEMMA PacketOffers ==
    ASSUME NodeInv, enable_timestamps' = enable_timestamps, NEW s \in Streams, ~closed[s],
           NEW p \in Timestamps, AcceptsPacket(s, <<p>>, 1), AddPackets(s, <<p>>)
    PROVE  StreamsOffer
  <1>0. p \in Int /\ IsAllowedInStream(p) /\ p >= next_timestamp_bound[s]
    <2>1. <<p>>[1] = p /\ p \in Int
      BY SpecialTimestamps
    <2> QED
      BY <2>1, StreamFacts DEF AcceptsPacket
  <1>1. <<p>> \in PacketLists
    <2>1. <<p>> \in [1 .. 1 -> Timestamps] /\ 1 \in 1 .. MaxList
      BY StreamAssumption
    <2> QED
      BY <2>1 DEF PacketLists
  <1>2. StreamInv'
    BY <1>1, NodeTypes, AddPacketsStep
  <1>3. PICK n \in 0 .. Len(<<p>>) : QueuePackets(s, <<p>>, n)
    BY DEF AddPackets
  <1>4. n = 1
    <2>1. n \in 0 .. 1 /\ Len(<<p>>) = 1
      OBVIOUS
    <2>2. n # 0
      BY <1>3, <2>1 DEF QueuePackets
    <2> QED
      BY <2>1, <2>2
  <1>5. /\ last_select_timestamp' = last_select_timestamp /\ closed' = closed
    BY DEF AddPackets
  <1>6. /\ queue' = [queue EXCEPT ![s] = @ \o SubSeq(<<p>>, 1, 1)]
        /\ num_packets_added' = [num_packets_added EXCEPT ![s] = @ + 1]
        /\ next_timestamp_bound' = [next_timestamp_bound EXCEPT ![s] = NextAllowedInStream(<<p>>[1])]
    BY <1>3, <1>4 DEF QueuePackets
  <1>7. /\ queue \in [Streams -> Seq(Timestamps)] /\ num_packets_added \in [Streams -> Nat]
        /\ next_timestamp_bound \in [Streams -> Timestamps]
    BY NodeTypes DEF StreamInv, StreamTypeOK
  <1>8. \A r \in Streams \ {s} : Offers(r)
    <2>1. \A r \in Streams \ {s} : StreamSame(r)
      BY <1>5, <1>6, <1>7 DEF StreamSame
    <2> QED
      BY <2>1, SameOffers
  <1>9. /\ queue[s] \in Seq(Timestamps) /\ <<p>> \in Seq(Timestamps) /\ 1 \in 0 .. Len(<<p>>)
        /\ <<p>>[1] = p
    BY <1>7
  <1>10. PICK q : q = queue[s] \o SubSeq(<<p>>, 1, 1)
    OBVIOUS
  <1>11. /\ q \in Seq(Timestamps) /\ Len(q) = Len(queue[s]) + 1
         /\ \A i \in 1 .. Len(q) : \/ i \in 1 .. Len(queue[s]) /\ q[i] = queue[s][i]
                                   \/ i - Len(queue[s]) \in 1 .. 1 /\ q[i] = <<p>>[i - Len(queue[s])]
    BY <1>9, <1>10, QueueExtended
  <1>12. queue'[s] = q
    BY <1>6, <1>7, <1>10
  <1>13. \A i \in 1 .. Len(q) : (i \in 1 .. Len(queue[s]) /\ q[i] = queue[s][i]) \/ q[i] = p
    <2>1. \A i \in 1 .. Len(q) : i - Len(queue[s]) \in 1 .. 1 => <<p>>[i - Len(queue[s])] = p
      BY <1>9
    <2> QED
      BY <1>11, <2>1
  <1>14. QueuesAllowed'
    <2>1. \A r \in Streams \ {s} : queue'[r] = queue[r]
      BY <1>6, <1>7
    <2>2. \A i \in 1 .. Len(q) : IsAllowedInStream(q[i])
      BY <1>0, <1>13, StreamFacts
    <2>3. QueuesAllowed
      BY DEF NodeInv, InputsInv, QueuesAllowed
    <2> QED
      BY <1>12, <2>1, <2>2, <2>3 DEF QueuesAllowed
  <1>15. q # <<>> /\ Head(q) = q[1]
    BY <1>11, StreamFacts
  <1>16. CASE queue[s] = <<>>
    <2>1. q[1] = p
      BY <1>9, <1>11, <1>16
    <2>2. ~Ended(s)
      BY <1>0, StreamFacts, SpecialTimestamps DEF Ended, IsAllowedInStream
    <2>3. MinTimestampOrBound(s) = next_timestamp_bound[s] /\ MinTimestampOrBound(s)' = p
      BY <1>12, <1>15, <1>16, <2>1 DEF MinTimestampOrBound
    <2>4. Offers(s)
      BY <1>0, <1>5, <1>16, <2>2, <2>3, StreamFacts DEF Offers
    <2> QED
      BY <1>2, <1>8, <1>14, <2>4 DEF StreamsOffer
  <1>17. CASE queue[s] # <<>>
    <2>1. 1 \in 1 .. Len(queue[s]) /\ Head(queue[s]) = queue[s][1]
      BY <1>9, <1>17
    <2>2. q[1] = queue[s][1]
      <3>1. 1 \in 1 .. Len(q) /\ ~(1 - Len(queue[s]) \in 1 .. 1)
        BY <1>9, <1>11, <2>1
      <3> QED
        BY <1>11, <3>1
    <2>3. MinTimestampOrBound(s) = queue[s][1] /\ MinTimestampOrBound(s)' = q[1]
      BY <1>12, <1>15, <1>17, <2>1 DEF MinTimestampOrBound
    <2>4. ~Ended(s)
      BY <1>17 DEF Ended
    <2>5. Offers(s)
      BY <1>5, <1>12, <1>15, <2>1, <2>2, <2>3, <2>4, StreamFacts DEF Offers
    <2> QED
      BY <1>2, <1>8, <1>14, <2>5 DEF StreamsOffer
  <1> QED
    BY <1>16, <1>17

\* A stream that had nothing before the timestamp has been selected there.
Selects(s, time) ==
    /\ StreamInv' /\ QueuesAllowed' /\ closed' = closed
    /\ last_select_timestamp'[s] = time
    /\ \A r \in Streams \ {s} :
          /\ last_select_timestamp'[r] = last_select_timestamp[r]
          /\ MinTimestampOrBound(r)' = MinTimestampOrBound(r)
    /\ MinTimestampOrBound(s) <= MinTimestampOrBound(s)'

\* Selecting at a timestamp before which nothing waits drops nothing.
LEMMA SelectOffers ==
    ASSUME NodeInv, enable_timestamps' = enable_timestamps, NEW s \in Streams,
           NEW time \in Timestamps, IsAllowedInStream(time), time <= MinTimestampOrBound(s),
           PopPacketAtTimestamp(s, time)
    PROVE  Selects(s, time) /\ ~DropsPackets(s, time)
  <1>0. time \in Int
    BY SpecialTimestamps
  <1>1. StreamInv'
    BY NodeTypes, SelectStep
  <1>2. PICK k \in 0 .. Len(queue[s]) :
           /\ \A i \in 1 .. k : queue[s][i] <= time
           /\ queue' = [queue EXCEPT ![s] = SubSeq(@, k + 1, Len(@))]
    BY DEF PopPacketAtTimestamp, PopWhile
  <1>3. /\ queue \in [Streams -> Seq(Timestamps)]
        /\ next_timestamp_bound \in [Streams -> Timestamps]
        /\ last_select_timestamp \in [Streams -> Timestamps]
        /\ next_timestamp_bound' \in [Streams -> Timestamps]
    BY <1>1, NodeTypes DEF StreamInv, StreamTypeOK
  <1>4. closed' = closed
    BY DEF PopPacketAtTimestamp
  <1>5. last_select_timestamp'[s] = time
        /\ \A r \in Streams \ {s} :
              /\ last_select_timestamp'[r] = last_select_timestamp[r]
              /\ next_timestamp_bound'[r] = next_timestamp_bound[r]
              /\ queue'[r] = queue[r]
    BY <1>2, <1>3 DEF PopPacketAtTimestamp
  <1>6. \A r \in Streams \ {s} : MinTimestampOrBound(r)' = MinTimestampOrBound(r)
    BY <1>5 DEF MinTimestampOrBound
  <1>7. PICK q : q = SubSeq(queue[s], k + 1, Len(queue[s]))
    OBVIOUS
  <1>8. /\ q \in Seq(Timestamps) /\ Len(q) = Len(queue[s]) - k
        /\ \A i \in 1 .. Len(q) : i + k \in 1 .. Len(queue[s]) /\ q[i] = queue[s][i + k]
    BY <1>3, <1>7, QueueSuffix
  <1>9. queue'[s] = q
    BY <1>2, <1>3, <1>7
  <1>10. QueuesAllowed'
    <2>1. \A i \in 1 .. Len(q) : IsAllowedInStream(q[i])
      BY <1>8, StreamFacts
    <2>2. QueuesAllowed
      BY DEF NodeInv, InputsInv, QueuesAllowed
    <2> QED
      BY <1>5, <1>9, <2>1, <2>2 DEF QueuesAllowed
  <1>11. next_timestamp_bound'[s] >= next_timestamp_bound[s] /\ next_timestamp_bound'[s] \in Int
    <2>1. next_timestamp_bound'[s] =
             IF next_timestamp_bound[s] <= time THEN NextAllowedInStream(time)
             ELSE next_timestamp_bound[s]
      BY <1>3 DEF PopPacketAtTimestamp
    <2>2. time < NextAllowedInStream(time) /\ NextAllowedInStream(time) \in Int
      BY <1>0, NextIsLater DEF IsAllowedInStream
    <2> QED
      BY <1>0, <2>1, <2>2, StreamFacts
  <1>12. MinTimestampOrBound(s) <= MinTimestampOrBound(s)'
    <2>1. CASE q = <<>>
      <3>1. MinTimestampOrBound(s)' = next_timestamp_bound'[s]
        BY <1>9, <2>1 DEF MinTimestampOrBound
      <3> QED
        BY <1>11, <3>1, StreamFacts
    <2>2. CASE q # <<>>
      <3>1. 1 \in 1 .. Len(q) /\ MinTimestampOrBound(s)' = q[1]
        BY <1>8, <1>9, <2>2 DEF MinTimestampOrBound
      <3> QED
        BY <1>8, <3>1, StreamFacts
    <2> QED
      BY <2>1, <2>2
  <1>13. ~DropsPackets(s, time)
    <2> SUFFICES ASSUME NEW j \in 1 .. Len(queue[s]),
                        \A i \in 1 .. j : queue[s][i] <= time,
                        queue[s][j] < time \/ j > 1
                 PROVE  FALSE
      BY DEF DropsPackets
    <2>1. Len(queue[s]) \in Nat /\ OrderInv(s)
          /\ \A i \in 1 .. Len(queue[s]) : queue[s][i] \in Int /\ MinTimestampOrBound(s) <= queue[s][i]
          /\ MinTimestampOrBound(s) \in Int
      BY StreamFacts DEF TimedInv
    <2>2. queue[s][j] <= time /\ queue[s][j] = time
      <3>1. j \in 1 .. j
        BY <2>1
      <3>2. queue[s][j] <= time
        BY <3>1
      <3> QED
        BY <1>0, <2>1, <3>2
    <2>3. j > 1 /\ 1 \in 1 .. Len(queue[s])
      BY <1>0, <2>1, <2>2
    <2>4. queue[s][1] < queue[s][j]
      BY <2>1, <2>3 DEF OrderInv
    <2>5. time <= queue[s][1]
      BY <1>0, <2>1, <2>3
    <2> QED
      BY <1>0, <2>1, <2>2, <2>3, <2>4, <2>5
  <1> QED
    BY <1>1, <1>4, <1>5, <1>6, <1>10, <1>12, <1>13 DEF Selects

\* A stream that is closed has nothing left to offer.
ClosesStream(s) ==
    /\ StreamInv' /\ QueuesAllowed' /\ queue' = queue
    /\ \A r \in Streams : MinTimestampOrBound(r) <= MinTimestampOrBound(r)'
    /\ \A r \in Streams : Ended(r) => Ended(r)'
    /\ \A r \in Streams : r # s => closed'[r] = closed[r]

\* Closing a stream leaves what the others offer.
LEMMA CloseOffers ==
    ASSUME NodeInv, enable_timestamps' = enable_timestamps, NEW s \in Streams, Close(s)
    PROVE  ClosesStream(s)
  <1>1. StreamInv'
    BY NodeTypes, CloseStep
  <1>2. queue' = queue
    BY DEF Close, queueVars
  <1>3. QueuesAllowed'
    BY <1>2 DEF NodeInv, InputsInv, QueuesAllowed
  <1>4. /\ \A r \in Streams \ {s} : closed'[r] = closed[r] /\ next_timestamp_bound'[r] = next_timestamp_bound[r]
        /\ next_timestamp_bound'[s] = Done
    BY NodeTypes DEF Close, StreamInv, StreamTypeOK
  <1>5. ASSUME NEW r \in Streams
        PROVE  MinTimestampOrBound(r) <= MinTimestampOrBound(r)' /\ (Ended(r) => Ended(r)')
    <2>1. next_timestamp_bound'[r] >= next_timestamp_bound[r] /\ next_timestamp_bound'[r] \in Int
      BY <1>4, StreamFacts, SpecialTimestamps
    <2>2. Ended(r) => Ended(r)'
      BY <1>2, <2>1, StreamFacts, SpecialTimestamps DEF Ended
    <2>3. MinTimestampOrBound(r) <= MinTimestampOrBound(r)'
      BY <1>2, <2>1, StreamFacts, SpecialTimestamps DEF MinTimestampOrBound
    <2> QED
      BY <2>2, <2>3
  <1> QED
    BY <1>1, <1>2, <1>3, <1>4, <1>5 DEF ClosesStream

\* While a thread is in the scheduling loop, no other is.
LEMMA OthersOutside ==
    ASSUME NodeInv, NEW t \in Threads, pc[t] \in LoopLabels
    PROVE  \A u \in Threads \ {t} : pc[u] \notin LoopLabels
  BY DEF NodeInv, PlacesInv, LoopsExclusive, InLoop, LoopLabels

\* A thread that prepares invocations changes what it knows; nobody else does.
LEMMA InputsOfLoop ==
    ASSUME NodeInv, NEW t \in Threads, pc[t] \in LoopLabels, Moves(t),
           StreamInv', QueuesAllowed',
           last_processed_ts' \in Timestamps, task_timestamp_bound' \in Timestamps,
           prepared_context_for_close' \in BOOLEAN,
           \A s \in Streams : task_timestamp_bound' <= MinTimestampOrBound(s)',
           KnowsInputs(t)',
           \/ (\A s \in Streams : Ended(s)') /\ KnowsEnd(t)'
           \/ ~prepared_context_for_close' /\ ~AtClose(t)' /\ (Selected' \/ pc'[t] = "fill"),
           prepared_context_for_close' => pc'[t] # "schedule",
           \A s \in Streams : closed'[s] => prepared_context_for_close'
    PROVE  InputsInv'
  <1>1. \A u \in Threads \ {t} : pc'[u] \notin LoopLabels
    BY OthersOutside DEF Moves
  <1>2. \A u \in Threads \ {t} : KnowsInputs(u)' /\ KnowsEnd(u)' /\ ~AtClose(u)' /\ pc'[u] # "schedule"
    BY <1>1 DEF KnowsInputs, KnowsEnd, AtClose, LoopLabels
  <1>3. CASE (\A s \in Streams : Ended(s)') /\ KnowsEnd(t)'
    <2>1. Over'
      BY <1>2, <1>3 DEF Over
    <2> QED
      BY <1>2, <2>1 DEF InputsInv
  <1>4. CASE ~prepared_context_for_close' /\ ~AtClose(t)' /\ (Selected' \/ pc'[t] = "fill")
    <2>1. \A u \in Threads : KnowsInputs(u)' /\ ~AtClose(u)'
      BY <1>2, <1>4
    <2>2. Selected' \/ \E u \in Threads : pc'[u] = "fill"
      BY <1>4
    <2> QED
      BY <1>4, <2>1, <2>2 DEF InputsInv
  <1> QED
    BY <1>3, <1>4

\* A thread that does not prepare invocations, and may begin to.
LEMMA InputsKept ==
    ASSUME NodeInv, NEW t \in Threads, Moves(t), StreamsOffer,
           UNCHANGED <<last_processed_ts, prepared_context_for_close, task_timestamp_bound, max_in_flight>>,
           pc[t] \notin {"fill", "schedule"},
           pc'[t] \notin {"fill", "schedule", "bound"},
           pc'[t] = "scan" =>
              loc'[t].i = 1 /\ loc'[t].min_packet = Done /\ loc'[t].min_bound = Done
    PROVE  InputsInv'
  <1>1. InputsInv /\ task_timestamp_bound \in Timestamps
    BY NodeTypes DEF NodeInv
  <1>2. StreamInv' /\ QueuesAllowed' /\ \A s \in Streams : Offers(s)
    BY DEF StreamsOffer
  <1>3. \A s \in Streams : MinTimestampOrBound(s) <= MinTimestampOrBound(s)'
    BY <1>2 DEF Offers
  <1>4. \A s \in Streams : MinTimestampOrBound(s) \in Int /\ MinTimestampOrBound(s)' \in Int
    <2>1. \A s \in Streams : MinTimestampOrBound(s)' \in Timestamps
      BY <1>2 DEF StreamInv, StreamTypeOK, MinTimestampOrBound
    <2> QED
      BY <2>1, StreamFacts, SpecialTimestamps
  <1>5. \A x \in Int, s \in Streams : x <= MinTimestampOrBound(s) => x <= MinTimestampOrBound(s)'
    BY <1>3, <1>4
  <1>6. task_timestamp_bound \in Int /\ task_timestamp_bound <= Done
    BY <1>1, SpecialTimestamps
  <1>7. \A s \in Streams : task_timestamp_bound' <= MinTimestampOrBound(s)'
    BY <1>1, <1>5, <1>6 DEF InputsInv
  <1>8. ASSUME NEW u \in Threads \ {t} PROVE KnowsInputs(u)' /\ (KnowsEnd(u) => KnowsEnd(u)')
    <2>1. pc'[u] = pc[u] /\ loc'[u] = loc[u] /\ Parallel' = Parallel
      BY DEF Moves, Parallel
    <2>2. /\ loc[u].min_packet \in Int /\ loc[u].min_bound \in Int /\ loc[u].timestamp \in Int
      BY NodeTypes, SpecialTimestamps
    <2>3. KnowsInputs(u)
      BY <1>1 DEF InputsInv
    <2>4. pc[u] = "scan" => Scanned(u)'
      <3> SUFFICES ASSUME pc[u] = "scan" PROVE Scanned(u)'
        OBVIOUS
      <3>1. Scanned(u)
        BY <2>3 DEF KnowsInputs
      <3>2. Earlier(loc[u].min_packet, loc[u].min_bound) \in Int
        BY <2>2 DEF Earlier
      <3>3. \A s \in Streams :
               s < loc[u].i => Earlier(loc[u].min_packet, loc[u].min_bound) <= MinTimestampOrBound(s)'
        BY <1>5, <3>1, <3>2 DEF Scanned
      <3>4. \/ loc[u].min_packet = Done
            \/ \E s \in Streams :
                  s < loc[u].i /\ queue'[s] # <<>> /\ Head(queue'[s]) = loc[u].min_packet
        BY <1>2, <3>1 DEF Scanned, Offers
      <3> QED
        BY <2>1, <3>1, <3>3, <3>4 DEF Scanned
    <2>5. pc[u] = "fill" => Filling(u)'
      <3> SUFFICES ASSUME pc[u] = "fill" PROVE Filling(u)'
        OBVIOUS
      <3>1. Filling(u)
        BY <2>3 DEF KnowsInputs
      <3>2. \A s \in Streams : last_select_timestamp'[s] = last_select_timestamp[s] /\ closed'[s] = closed[s]
        BY <1>2 DEF Offers
      <3>3. \A s \in Streams : s >= loc[u].i => loc[u].timestamp <= MinTimestampOrBound(s)'
        BY <1>5, <2>2, <3>1 DEF Filling
      <3> QED
        BY <2>1, <3>1, <3>2, <3>3 DEF Filling
    <2>6. pc[u] = "bound" /\ Parallel =>
             \A s \in Streams : loc[u].timestamp <= MinTimestampOrBound(s)'
      BY <1>5, <2>2, <2>3 DEF KnowsInputs
    <2>7. KnowsInputs(u)'
      BY <2>1, <2>3, <2>4, <2>5, <2>6 DEF KnowsInputs
    <2> QED
      BY <2>1, <2>7 DEF KnowsEnd
  <1>9. pc'[t] = "scan" => Scanned(t)'
    <2>1. \A s \in Streams : ~(s < 1)
      <3>1. PICK n : n = Cardinality(Streams)
        OBVIOUS
      <3>2. Streams = 1 .. n
        BY <3>1, NodeAssumption
      <3> QED
        BY <3>2
    <2> QED
      BY <1>6, <2>1 DEF Scanned
  <1>10. KnowsInputs(t)' /\ KnowsEnd(t)'
    BY <1>9, SpecialTimestamps DEF KnowsInputs, KnowsEnd
  <1>11. Over => Over'
    BY <1>2, <1>8, <1>10 DEF Over, Offers
  <1>12. Selected => Selected'
    BY <1>2 DEF Selected, Offers
  <1>13. (\E u \in Threads : pc[u] = "fill") => \E u \in Threads : pc'[u] = "fill"
    BY DEF Moves
  <1>14. (\E u \in Threads : AtClose(u)') => \E u \in Threads : AtClose(u)
    BY DEF Moves, AtClose
  <1>15. \A u \in Threads : pc'[u] = "schedule" => pc[u] = "schedule"
    BY DEF Moves
  <1>16. \A s \in Streams : closed'[s] => closed[s]
    BY <1>2 DEF Offers
  <1>17. \A u \in Threads : KnowsInputs(u)'
    BY <1>8, <1>10
  <1> QED
    BY <1>1, <1>2, <1>7, <1>11, <1>12, <1>13, <1>14, <1>15, <1>16, <1>17 DEF InputsInv

\* The numbers of the streams.
LEMMA StreamNumbers ==
    /\ 1 \in Streams
    /\ \A s \in Streams : s \in Nat \ {0}
    /\ \A s \in Streams, r \in Streams : r < s + 1 <=> r < s \/ r = s
    /\ \A i \in Nat \ {0} : i \notin Streams => \A s \in Streams : s < i
    /\ \A i \in Streams : i + 1 \notin Streams => \A s \in Streams : s < i \/ s = i
  <1>1. PICK n : n = Cardinality(Streams)
    OBVIOUS
  <1>2. Streams = 1 .. n /\ Streams # {} /\ n \in Nat
    BY <1>1, NodeAssumption, FS_CardinalityType
  <1> QED
    BY <1>2

\* What a thread that scans knows.
LEMMA ScanFacts ==
    ASSUME NodeInv, NEW t \in Threads, pc[t] = "scan"
    PROVE  /\ InputsInv /\ Scanned(t) /\ pc[t] \in LoopLabels
           /\ Over \/ Selected
           /\ ~Over => ~prepared_context_for_close
           /\ Over => loc[t].min_packet = Done /\ loc[t].min_bound >= OneOverPostStream
           /\ loc[t].min_packet \in Int /\ loc[t].min_bound \in Int
           /\ Earlier(loc[t].min_packet, loc[t].min_bound) \in Int
           /\ loc[t].i \notin Streams =>
                 \A s \in Streams :
                    Earlier(loc[t].min_packet, loc[t].min_bound) <= MinTimestampOrBound(s)
  <1>1. InputsInv /\ KnowsInputs(t)
    BY DEF NodeInv, InputsInv
  <1>2. Scanned(t)
    BY <1>1 DEF KnowsInputs
  <1>3. pc[t] \in LoopLabels
    BY DEF LoopLabels
  <1>4. \A u \in Threads : pc[u] # "fill"
    BY <1>3, OthersOutside DEF LoopLabels
  <1>5. Over \/ Selected
    BY <1>1, <1>4 DEF InputsInv
  <1>6. Over => KnowsEnd(t)
    BY DEF Over
  <1>7. loc[t].min_packet \in Int /\ loc[t].min_bound \in Int
    BY NodeTypes, SpecialTimestamps
  <1>8. Earlier(loc[t].min_packet, loc[t].min_bound) \in Int
    BY <1>7 DEF Earlier
  <1>9. loc[t].i \notin Streams =>
           \A s \in Streams : Earlier(loc[t].min_packet, loc[t].min_bound) <= MinTimestampOrBound(s)
    BY <1>2, StreamNumbers DEF Scanned
  <1> QED
    BY <1>1, <1>2, <1>3, <1>5, <1>6, <1>7, <1>8, <1>9 DEF InputsInv, KnowsEnd

\* A scan of one more stream keeps what is known of the inputs.
LEMMA ScanInputs ==
    ASSUME NodeInv, NEW t \in Threads, UNCHANGED configVars, ScanStream(t)
    PROVE  InputsInv'
  <1>0. pc[t] = "scan" /\ loc[t].i \in Streams
    BY DEF ScanStream
  <1> DEFINE s == loc[t].i
             time == MinTimestampOrBound(loc[t].i)
  <1>1. /\ Moves(t) /\ pc' = pc /\ loc'[t].i = s + 1
        /\ loc'[t].min_bound = IF queue[s] = <<>> THEN Earlier(loc[t].min_bound, time)
                                                  ELSE loc[t].min_bound
        /\ loc'[t].min_packet = IF queue[s] = <<>> THEN loc[t].min_packet
                                                   ELSE Earlier(loc[t].min_packet, time)
    BY ScanEffect
  <1>2. UNCHANGED <<streamVars, inputVars, propVars>>
    BY DEF ScanStream
  <1>3. /\ last_processed_ts' = last_processed_ts /\ task_timestamp_bound' = task_timestamp_bound
        /\ prepared_context_for_close' = prepared_context_for_close
        /\ queue' = queue /\ closed' = closed /\ next_timestamp_bound' = next_timestamp_bound
        /\ last_select_timestamp' = last_select_timestamp /\ Parallel' = Parallel
    BY <1>2 DEF inputVars, propVars, streamVars, queueVars, boundVars, configVars, Parallel
  <1>4. StreamInv' /\ QueuesAllowed'
    BY <1>2, SameStreams DEF StreamsOffer
  <1>5. \A r \in Streams : MinTimestampOrBound(r)' = MinTimestampOrBound(r)
    BY <1>3 DEF MinTimestampOrBound
  <1>6. /\ InputsInv /\ Scanned(t) /\ pc[t] \in LoopLabels
        /\ Over \/ Selected
        /\ ~Over => ~prepared_context_for_close
        /\ Over => loc[t].min_packet = Done /\ loc[t].min_bound >= OneOverPostStream
        /\ loc[t].min_packet \in Int /\ loc[t].min_bound \in Int
    BY <1>0, ScanFacts
  <1>7. /\ task_timestamp_bound \in Int /\ Done \in Int /\ OneOverPostStream \in Int
        /\ \A x \in Timestamps : x <= Done
        /\ \A r \in Streams : MinTimestampOrBound(r) \in Int /\ MinTimestampOrBound(r) \in Timestamps
        /\ \A r \in Streams : task_timestamp_bound <= MinTimestampOrBound(r)
    BY <1>6, StreamFacts, NodeTypes, SpecialTimestamps DEF InputsInv
  <1>8. Scanned(t)'
    <2>1. loc'[t].i \in Nat \ {0}
      BY <1>0, <1>1, StreamNumbers
    <2>2. \A r \in Streams : r < loc'[t].i => r < s \/ r = s
      BY <1>0, <1>1, StreamNumbers
    <2>3. loc'[t].min_packet \in Int /\ loc'[t].min_bound \in Int
      BY <1>0, <1>1, <1>6, <1>7 DEF Earlier
    <2>4. Earlier(loc'[t].min_packet, loc'[t].min_bound) <= Earlier(loc[t].min_packet, loc[t].min_bound)
          /\ Earlier(loc'[t].min_packet, loc'[t].min_bound) <= time
          /\ Earlier(loc'[t].min_packet, loc'[t].min_bound) \in Int
          /\ Earlier(loc[t].min_packet, loc[t].min_bound) \in Int
      BY <1>0, <1>1, <1>6, <1>7, <2>3 DEF Earlier
    <2>5. ASSUME NEW r \in Streams, r < loc'[t].i
          PROVE  Earlier(loc'[t].min_packet, loc'[t].min_bound) <= MinTimestampOrBound(r)
      <3>1. CASE r = s
        BY <2>4, <3>1
      <3>2. CASE r < s
        <4>1. Earlier(loc[t].min_packet, loc[t].min_bound) <= MinTimestampOrBound(r)
          BY <1>6, <3>2 DEF Scanned
        <4> QED
          BY <1>7, <2>4, <4>1
      <3> QED
        BY <2>2, <2>5, <3>1, <3>2
    <2>6. \/ loc'[t].min_packet = Done
          \/ \E r \in Streams :
                r < loc'[t].i /\ queue[r] # <<>> /\ Head(queue[r]) = loc'[t].min_packet
      <3>1. \A r \in Streams : r < s \/ r = s => r < loc'[t].i
        BY <1>0, <1>1, StreamNumbers
      <3>2. CASE loc'[t].min_packet = loc[t].min_packet
        BY <1>6, <3>1, <3>2 DEF Scanned
      <3>3. CASE loc'[t].min_packet # loc[t].min_packet
        <4>1. queue[s] # <<>> /\ loc'[t].min_packet = time
          BY <1>1, <3>3 DEF Earlier
        <4>2. time = Head(queue[s])
          BY <4>1 DEF MinTimestampOrBound
        <4> QED
          BY <1>0, <3>1, <4>1, <4>2
      <3> QED
        BY <3>2, <3>3
    <2>7. task_timestamp_bound <= loc'[t].min_packet /\ task_timestamp_bound <= loc'[t].min_bound
      <3>1. task_timestamp_bound <= loc[t].min_packet /\ task_timestamp_bound <= loc[t].min_bound
        BY <1>6 DEF Scanned
      <3> QED
        BY <1>0, <1>1, <1>6, <1>7, <3>1 DEF Earlier
    <2> QED
      BY <1>3, <1>5, <2>1, <2>5, <2>6, <2>7 DEF Scanned
  <1>9. KnowsInputs(t)' /\ pc'[t] = "scan"
    BY <1>0, <1>1, <1>8 DEF KnowsInputs
  <1>10. Over => (\A r \in Streams : Ended(r)') /\ KnowsEnd(t)'
    <2> SUFFICES ASSUME Over PROVE (\A r \in Streams : Ended(r)') /\ KnowsEnd(t)'
      OBVIOUS
    <2>1. \A r \in Streams : Ended(r) /\ Ended(r)'
      BY <1>3 DEF Over, Ended
    <2>2. queue[s] = <<>> /\ time >= OneOverPostStream
      BY <1>0, <2>1 DEF Ended, MinTimestampOrBound
    <2>3. loc'[t].min_packet = Done /\ loc'[t].min_bound >= OneOverPostStream
      BY <1>0, <1>1, <1>6, <1>7, <2>2 DEF Earlier
    <2> QED
      BY <1>9, <2>1, <2>3 DEF KnowsEnd
  <1>11. ~Over => ~prepared_context_for_close' /\ ~AtClose(t)' /\ Selected'
    BY <1>3, <1>6, <1>9 DEF Selected, AtClose
  <1>12. \A r \in Streams : closed'[r] => prepared_context_for_close'
    BY <1>3, <1>6 DEF InputsInv
  <1>13. \A r \in Streams : task_timestamp_bound' <= MinTimestampOrBound(r)'
    BY <1>3, <1>5, <1>7
  <1>14. last_processed_ts' \in Timestamps /\ task_timestamp_bound' \in Timestamps
         /\ prepared_context_for_close' \in BOOLEAN
    BY <1>3, <1>6 DEF InputsInv
  <1> HIDE DEF s, time
  <1>15. \/ (\A r \in Streams : Ended(r)') /\ KnowsEnd(t)'
         \/ ~prepared_context_for_close' /\ ~AtClose(t)' /\ (Selected' \/ pc'[t] = "fill")
    BY <1>10, <1>11
  <1>16. pc'[t] # "schedule"
    BY <1>9
  <1> QED
    BY <1>1, <1>4, <1>6, <1>9, <1>12, <1>13, <1>14, <1>15, <1>16, InputsOfLoop

\* A step of the loop that leaves the streams and the bound of the tasks alone.
LEMMA QuietInputs ==
    ASSUME NodeInv, UNCHANGED <<streamVars, task_timestamp_bound>>
    PROVE  /\ StreamInv' /\ QueuesAllowed' /\ task_timestamp_bound' \in Timestamps
           /\ queue' = queue /\ closed' = closed /\ next_timestamp_bound' = next_timestamp_bound
           /\ last_select_timestamp' = last_select_timestamp
           /\ \A s \in Streams : MinTimestampOrBound(s)' = MinTimestampOrBound(s)
           /\ \A s \in Streams : task_timestamp_bound' <= MinTimestampOrBound(s)'
           /\ \A s \in Streams : Ended(s)' <=> Ended(s)
  <1>1. StreamInv' /\ QueuesAllowed'
    BY SameStreams DEF StreamsOffer
  <1>2. /\ queue' = queue /\ closed' = closed /\ next_timestamp_bound' = next_timestamp_bound
        /\ last_select_timestamp' = last_select_timestamp
    BY DEF streamVars, queueVars, boundVars
  <1>3. \A s \in Streams : MinTimestampOrBound(s)' = MinTimestampOrBound(s)
    BY <1>2 DEF MinTimestampOrBound
  <1>4. \A s \in Streams : task_timestamp_bound <= MinTimestampOrBound(s)
    BY DEF NodeInv, InputsInv
  <1>5. \A s \in Streams : Ended(s)' <=> Ended(s)
    BY <1>2 DEF Ended
  <1> QED
    BY <1>1, <1>2, <1>3, <1>4, <1>5, NodeTypes

\* So does finding the node not ready: the bound to announce is one no
\* stream has anything before.
LEMMA NotReadyInputs ==
    ASSUME NodeInv, NEW t \in Threads, UNCHANGED configVars, UNCHANGED <<streamVars, propVars>>,
           pc[t] = "scan", loc[t].i \notin Streams, NotReady(t)
    PROVE  InputsInv'
  <1>1. /\ Moves(t) /\ pc'[t] = "bound"
        /\ loc'[t].timestamp = IF batch_size > 1 /\ batch # <<>> THEN Head(batch)
                               ELSE MinStreamTimestamp(loc[t].min_packet, loc[t].min_bound)
    BY NotReadyEffect
  <1>2. UNCHANGED task_timestamp_bound /\ UNCHANGED <<last_processed_ts, prepared_context_for_close>>
        /\ Parallel' = Parallel
    BY DEF propVars, NotReady, inputVars, configVars, Parallel
  <1>3. /\ InputsInv /\ Scanned(t) /\ pc[t] \in LoopLabels
        /\ Over \/ Selected
        /\ ~Over => ~prepared_context_for_close
        /\ loc[t].min_packet \in Int /\ loc[t].min_bound \in Int
        /\ \A s \in Streams : Earlier(loc[t].min_packet, loc[t].min_bound) <= MinTimestampOrBound(s)
    BY ScanFacts
  <1>4. /\ StreamInv' /\ QueuesAllowed' /\ task_timestamp_bound' \in Timestamps
        /\ closed' = closed /\ last_select_timestamp' = last_select_timestamp
        /\ \A s \in Streams : MinTimestampOrBound(s)' = MinTimestampOrBound(s)
        /\ \A s \in Streams : task_timestamp_bound' <= MinTimestampOrBound(s)'
        /\ \A s \in Streams : Ended(s)' <=> Ended(s)
    BY <1>2, QuietInputs
  <1>5. Parallel =>
          /\ task_timestamp_bound <= loc'[t].timestamp
          /\ \A s \in Streams : loc'[t].timestamp <= MinTimestampOrBound(s)
    <2> SUFFICES ASSUME Parallel
                 PROVE  /\ task_timestamp_bound <= loc'[t].timestamp
                        /\ \A s \in Streams : loc'[t].timestamp <= MinTimestampOrBound(s)
      OBVIOUS
    <2>1. batch_size = 1
      BY DEF NodeInv, ConfigInv
    <2>2. loc'[t].timestamp = Earlier(loc[t].min_packet, loc[t].min_bound)
      BY <1>1, <2>1 DEF MinStreamTimestamp
    <2> QED
      BY <1>3, <2>2 DEF Scanned, Earlier
  <1>6. KnowsInputs(t)' /\ KnowsEnd(t)' /\ ~AtClose(t)' /\ pc'[t] # "schedule"
    BY <1>1, <1>2, <1>4, <1>5 DEF KnowsInputs, KnowsEnd, AtClose
  <1>7. \/ (\A s \in Streams : Ended(s)') /\ KnowsEnd(t)'
        \/ ~prepared_context_for_close' /\ ~AtClose(t)' /\ (Selected' \/ pc'[t] = "fill")
    <2>1. CASE Over
      BY <1>4, <1>6, <2>1 DEF Over
    <2>2. CASE ~Over
      <3>1. Selected'
        BY <1>2, <1>3, <1>4, <2>2 DEF Selected
      <3> QED
        BY <1>2, <1>3, <1>6, <2>2, <3>1
    <2> QED
      BY <2>1, <2>2
  <1>8. /\ last_processed_ts' \in Timestamps /\ prepared_context_for_close' \in BOOLEAN
        /\ \A s \in Streams : closed'[s] => prepared_context_for_close'
    BY <1>2, <1>3, <1>4 DEF InputsInv
  <1> QED
    BY <1>1, <1>3, <1>4, <1>6, <1>7, <1>8, InputsOfLoop

\* The timestamp for which a context is prepared: it is later than the last one,
\* and no stream has anything before it.
LEMMA ReadyTimestamp ==
    ASSUME NodeInv, NEW t \in Threads, pc[t] = "scan", loc[t].i \notin Streams,
           ReadyForProcess(loc[t].min_packet, loc[t].min_bound),
           NEW time, time = InputTimestamp(loc[t].min_packet, loc[t].min_bound)
    PROVE  /\ time \in Timestamps /\ time \in Int
           /\ ~Over /\ Selected
           /\ IsAllowedInStream(time)
           /\ last_processed_ts < time
           /\ \A s \in Streams : last_select_timestamp[s] <= time /\ time <= MinTimestampOrBound(s)
  <1> DEFINE p == loc[t].min_packet
             b == loc[t].min_bound
  <1>1. /\ InputsInv /\ Scanned(t)
        /\ Over \/ Selected
        /\ Over => p = Done /\ b >= OneOverPostStream
        /\ p \in Int /\ b \in Int /\ Earlier(p, b) \in Int
        /\ \A s \in Streams : Earlier(p, b) <= MinTimestampOrBound(s)
    BY ScanFacts
  <1>2. time \in Timestamps /\ time \in Int /\ p \in Timestamps /\ b \in Timestamps
    BY NodeTypes, MinimaTypes, SpecialTimestamps
  <1>3. Earlier(p, b) < OneOverPostStream
    BY <1>1, SpecialTimestamps DEF ReadyForProcess, ReadyForClose, MinStreamTimestamp
  <1>4. ~Over /\ Selected
    BY <1>1, <1>3, SpecialTimestamps DEF Earlier
  <1>5. last_processed_ts \in Int /\ process_timestamps \in BOOLEAN
    BY NodeTypes, SpecialTimestamps DEF NodeInv, ConfigInv
  <1>6. \A s \in Streams : ~closed[s] /\ last_select_timestamp[s] = Later(last_processed_ts, Unstarted)
    BY <1>4 DEF Selected
  <1>7. CASE ~process_timestamps
    <2>1. time = p /\ p < b /\ time = Earlier(p, b)
      BY <1>1, <1>7 DEF ReadyForProcess, InputTimestamp, MinStreamTimestamp, Earlier
    <2>2. p # Done
      BY <1>3, <2>1, SpecialTimestamps
    <2>3. PICK s \in Streams : queue[s] # <<>> /\ Head(queue[s]) = p
      BY <1>1, <2>2 DEF Scanned
    <2>4. 1 \in 1 .. Len(queue[s]) /\ queue[s][1] = p /\ MinTimestampOrBound(s) = p
      BY <2>3, StreamFacts DEF MinTimestampOrBound
    <2>5. IsAllowedInStream(p) /\ last_select_timestamp[s] < p
      BY <1>6, <2>4, StreamFacts
    <2>6. Later(last_processed_ts, Unstarted) < time
      BY <1>6, <2>1, <2>5
    <2> QED
      BY <1>1, <1>2, <1>4, <1>5, <1>6, <2>1, <2>5, <2>6, SpecialTimestamps DEF Later
  <1>8. CASE process_timestamps
    <2>1. time > Later(last_processed_ts, Unstarted)
      BY <1>8 DEF ReadyForProcess
    <2>2. time > Unstarted /\ time > last_processed_ts
      BY <1>2, <1>5, <2>1, SpecialTimestamps DEF Later
    <2>3. time <= p /\ time <= b
      <3>1. CASE p = PostStream /\ b > p
        BY <1>1, <1>8, <3>1 DEF InputTimestamp, Earlier
      <3>2. CASE ~(p = PostStream /\ b > p)
        <4>1. time = Earlier(p, PreviousAllowedInStream(b))
          BY <1>8, <3>2 DEF InputTimestamp
        <4>2. PreviousAllowedInStream(b) \in Int
          BY <1>2, MinimaTypes, SpecialTimestamps
        <4>3. PreviousAllowedInStream(b) <= b \/ PreviousAllowedInStream(b) = Unstarted
          BY <1>1, RangeAssumption
             DEF PreviousAllowedInStream, Plus, Unstarted
        <4> QED
          BY <1>1, <1>2, <2>2, <4>1, <4>2, <4>3, SpecialTimestamps DEF Earlier
      <3> QED
        BY <3>1, <3>2
    <2>4. time <= Earlier(p, b)
      BY <2>3 DEF Earlier
    <2>5. IsAllowedInStream(time)
      BY <1>1, <1>2, <1>3, <2>2, <2>4, RangeAssumption
         DEF IsAllowedInStream, Unstarted, PreStream, PostStream, OneOverPostStream
    <2>6. \A s \in Streams : time <= MinTimestampOrBound(s)
      BY <1>1, <1>2, <2>4, StreamFacts
    <2>7. \A s \in Streams : last_select_timestamp[s] <= time
      BY <1>2, <1>5, <1>6, <2>1, SpecialTimestamps DEF Later
    <2> QED
      BY <1>2, <1>4, <2>2, <2>5, <2>6, <2>7
  <1> QED
    BY <1>5, <1>7, <1>8

\* So does preparing a context.
LEMMA PrepareContextInputs ==
    ASSUME NodeInv, NEW t \in Threads, UNCHANGED configVars, UNCHANGED <<streamVars, propVars>>,
           pc[t] = "scan", loc[t].i \notin Streams, PrepareContext(t)
    PROVE  InputsInv'
  <1>1. PICK time : time = InputTimestamp(loc[t].min_packet, loc[t].min_bound)
    OBVIOUS
  <1>2. /\ time \in Timestamps /\ time \in Int
        /\ ~Over /\ Selected
        /\ IsAllowedInStream(time)
        /\ \A s \in Streams : last_select_timestamp[s] <= time /\ time <= MinTimestampOrBound(s)
    BY <1>1, ReadyTimestamp DEF PrepareContext
  <1>3. /\ Moves(t) /\ pc'[t] = "fill" /\ loc'[t].i = 1 /\ loc'[t].timestamp = time
    BY <1>1, PrepareContextEffect
  <1>4. UNCHANGED task_timestamp_bound /\ last_processed_ts' = time
        /\ UNCHANGED prepared_context_for_close
    BY <1>1 DEF propVars, PrepareContext
  <1>5. InputsInv /\ pc[t] \in LoopLabels /\ ~prepared_context_for_close
    BY <1>2, ScanFacts
  <1>6. /\ StreamInv' /\ QueuesAllowed' /\ task_timestamp_bound' \in Timestamps
        /\ closed' = closed /\ last_select_timestamp' = last_select_timestamp
        /\ \A s \in Streams : MinTimestampOrBound(s)' = MinTimestampOrBound(s)
        /\ \A s \in Streams : task_timestamp_bound' <= MinTimestampOrBound(s)'
    BY <1>4, QuietInputs
  <1>7. Filling(t)'
    <2>1. 1 \in Streams /\ \A s \in Streams : ~(s < 1)
      BY StreamNumbers
    <2>2. \A s \in Streams : ~closed'[s]
      BY <1>2, <1>6 DEF Selected
    <2>3. \A s \in Streams : last_select_timestamp'[s] <= time /\ time <= MinTimestampOrBound(s)'
      BY <1>2, <1>6
    <2>4. loc[t]'.timestamp = time /\ loc[t]'.i = 1 /\ last_processed_ts' = time
      BY <1>3, <1>4
    <2> QED
      BY <1>2, <2>1, <2>2, <2>3, <2>4 DEF Filling
  <1>8. KnowsInputs(t)' /\ ~AtClose(t)' /\ pc'[t] # "schedule"
    BY <1>3, <1>7 DEF KnowsInputs, AtClose
  <1>9. /\ prepared_context_for_close' \in BOOLEAN /\ last_processed_ts' \in Timestamps
        /\ \A s \in Streams : closed'[s] => prepared_context_for_close'
        /\ ~prepared_context_for_close'
    BY <1>2, <1>4, <1>5, <1>6 DEF InputsInv
  <1> QED
    BY <1>3, <1>5, <1>6, <1>8, <1>9, InputsOfLoop

\* All input streams have ended when the node is ready to be closed.
LEMMA ReadyToClose ==
    ASSUME NodeInv, NEW t \in Threads, pc[t] = "scan", loc[t].i \notin Streams,
           ReadyForClose(loc[t].min_packet, loc[t].min_bound)
    PROVE  \A s \in Streams : Ended(s)
  <1> SUFFICES ASSUME NEW s \in Streams PROVE Ended(s)
    OBVIOUS
  <1>1. MinTimestampOrBound(s) >= OneOverPostStream
    BY ScanFacts, StreamFacts, SpecialTimestamps DEF ReadyForClose, MinStreamTimestamp
  <1>2. queue[s] = <<>>
    <2> SUFFICES ASSUME queue[s] # <<>> PROVE FALSE
      OBVIOUS
    <2>1. 1 \in 1 .. Len(queue[s]) /\ MinTimestampOrBound(s) = queue[s][1]
      BY StreamFacts DEF MinTimestampOrBound
    <2>2. IsAllowedInStream(MinTimestampOrBound(s))
      BY <2>1, StreamFacts
    <2> QED
      BY <1>1, <2>2, StreamFacts, SpecialTimestamps DEF IsAllowedInStream
  <1> QED
    BY <1>1, <1>2 DEF Ended, MinTimestampOrBound

\* So does preparing the close, and then the inputs have ended.
LEMMA PrepareCloseInputs ==
    ASSUME NodeInv, NEW t \in Threads, UNCHANGED configVars, UNCHANGED <<streamVars, propVars>>,
           pc[t] = "scan", loc[t].i \notin Streams, PrepareClose(t)
    PROVE  InputsInv' /\ Over'
  <1>1. \A s \in Streams : Ended(s)
    BY ReadyToClose DEF PrepareClose
  <1>2. /\ Moves(t) /\ pc'[t] \in {"schedule", "recheck"}
        /\ pc'[t] = "schedule" => loc'[t].timestamp = Done /\ MayPrepareClose
    BY PrepareCloseEffect
  <1>3. UNCHANGED task_timestamp_bound /\ UNCHANGED prepared_context_for_close
        /\ last_processed_ts' = PreviousAllowedInStream(Done)
    BY DEF propVars, PrepareClose
  <1>4. last_processed_ts' \in Timestamps
    BY <1>3, MinimaTypes, NoLocalsType
  <1>5. InputsInv /\ pc[t] \in LoopLabels
    BY ScanFacts
  <1>6. /\ StreamInv' /\ QueuesAllowed' /\ task_timestamp_bound' \in Timestamps
        /\ closed' = closed
        /\ \A s \in Streams : task_timestamp_bound' <= MinTimestampOrBound(s)'
        /\ \A s \in Streams : Ended(s)' <=> Ended(s)
    BY <1>3, QuietInputs
  <1>7. KnowsInputs(t)' /\ KnowsEnd(t)'
    BY <1>2 DEF KnowsInputs, KnowsEnd
  <1>8. /\ prepared_context_for_close' \in BOOLEAN
        /\ prepared_context_for_close' => pc'[t] # "schedule"
        /\ \A s \in Streams : closed'[s] => prepared_context_for_close'
    BY <1>2, <1>3, <1>5, <1>6 DEF InputsInv, MayPrepareClose
  <1>9. \A s \in Streams : Ended(s)'
    BY <1>1, <1>6
  <1>10. InputsInv'
    BY <1>2, <1>4, <1>5, <1>6, <1>7, <1>8, <1>9, InputsOfLoop
  <1>11. \A u \in Threads \ {t} : KnowsEnd(u)'
    <2>1. \A u \in Threads \ {t} : pc'[u] \notin LoopLabels
      BY <1>2, <1>5, OthersOutside DEF Moves
    <2> QED
      BY <2>1 DEF KnowsEnd, LoopLabels
  <1> QED
    BY <1>7, <1>9, <1>10, <1>11 DEF Over

\* A scan that begins.
LEMMA FreshScan ==
    ASSUME NEW t, task_timestamp_bound' \in Timestamps,
           loc'[t].i = 1, loc'[t].min_packet = Done, loc'[t].min_bound = Done
    PROVE  Scanned(t)'
  <1>1. \A s \in Streams : ~(s < 1)
    BY StreamNumbers
  <1>2. task_timestamp_bound' <= Done
    BY SpecialTimestamps
  <1> QED
    BY <1>1, <1>2 DEF Scanned

\* What a thread that fills an input set knows.
LEMMA FillFacts ==
    ASSUME NodeInv, NEW t \in Threads, pc[t] = "fill"
    PROVE  /\ Filling(t) /\ pc[t] \in LoopLabels
           /\ loc[t].i \in Streams /\ loc[t].timestamp \in Timestamps
           /\ IsAllowedInStream(loc[t].timestamp)
           /\ loc[t].timestamp # Done
           /\ last_select_timestamp[loc[t].i] <= loc[t].timestamp
           /\ loc[t].timestamp <= MinTimestampOrBound(loc[t].i)
           /\ ~Over /\ ~prepared_context_for_close
           /\ \A u \in Threads : ~AtClose(u)
  <1>1. Filling(t)
    BY DEF NodeInv, InputsInv, KnowsInputs
  <1>2. ~Over
    BY DEF Over, KnowsEnd
  <1>3. ~prepared_context_for_close /\ \A u \in Threads : ~AtClose(u)
    BY <1>2 DEF NodeInv, InputsInv
  <1>4. loc[t].timestamp # Done
    BY <1>1, SpecialTimestamps DEF Filling, IsAllowedInStream
  <1>5. /\ loc[t].i \in Streams
        /\ last_select_timestamp[loc[t].i] <= loc[t].timestamp
        /\ loc[t].timestamp <= MinTimestampOrBound(loc[t].i)
    <2>1. \A s \in Streams : s >= s
      BY StreamNumbers
    <2> QED
      BY <1>1, <2>1 DEF Filling
  <1> QED
    BY <1>1, <1>2, <1>3, <1>4, <1>5, NodeTypes DEF Filling, LoopLabels

\* Filling an input set keeps what is known of the inputs, and drops no
\* packet.
LEMMA FillInputs ==
    ASSUME NodeInv, NEW t \in Threads, UNCHANGED configVars, FillStream(t)
    PROVE  InputsInv' /\ ~DropsPackets(loc[t].i, loc[t].timestamp)
  <1>0. pc[t] = "fill" /\ UNCHANGED <<inputVars, propVars>>
        /\ enable_timestamps' = enable_timestamps
    BY DEF FillStream, configVars
  <1>a. PICK s \in Streams : loc[t].i = s
    BY <1>0, FillFacts
  <1>b. PICK time \in Timestamps : loc[t].timestamp = time
    BY <1>0, FillFacts
  <1>10. loc[t].i = s /\ loc[t].timestamp = time
    BY <1>a, <1>b
  <1>1. /\ Filling(t) /\ pc[t] \in LoopLabels
        /\ s \in Streams /\ time \in Timestamps
        /\ IsAllowedInStream(time) /\ time # Done
        /\ time <= MinTimestampOrBound(s)
        /\ ~prepared_context_for_close
        /\ InputsInv
    BY <1>0, <1>10, FillFacts DEF NodeInv
  <1>2. PopPacketAtTimestamp(s, time)
    BY <1>10 DEF FillStream
  <1>3. Selects(s, time) /\ ~DropsPackets(s, time)
    BY <1>0, <1>1, <1>2, SelectOffers
  <1>4. /\ last_processed_ts' = last_processed_ts /\ task_timestamp_bound' = task_timestamp_bound
        /\ prepared_context_for_close' = prepared_context_for_close
    BY <1>0 DEF inputVars, propVars
  <1>5. Moves(t) /\ FilledMove(t)
    BY FillEffect
  <1>6. /\ StreamInv' /\ QueuesAllowed' /\ closed' = closed
        /\ last_select_timestamp'[s] = time
        /\ \A r \in Streams \ {s} :
              /\ last_select_timestamp'[r] = last_select_timestamp[r]
              /\ MinTimestampOrBound(r)' = MinTimestampOrBound(r)
        /\ MinTimestampOrBound(s) <= MinTimestampOrBound(s)'
    BY <1>3 DEF Selects
  <1>7. task_timestamp_bound' \in Timestamps /\ last_processed_ts' \in Timestamps
        /\ prepared_context_for_close' \in BOOLEAN /\ ~prepared_context_for_close'
        /\ \A r \in Streams : ~closed'[r] /\ ~closed[r]
    BY <1>1, <1>4, <1>6 DEF InputsInv
  <1>8. \A r \in Streams : task_timestamp_bound' <= MinTimestampOrBound(r)'
    <2>1. \A r \in Streams : task_timestamp_bound <= MinTimestampOrBound(r)
      BY <1>1 DEF InputsInv
    <2>2. MinTimestampOrBound(s)' \in Int /\ MinTimestampOrBound(s) \in Int /\ task_timestamp_bound \in Int
      <3>1. MinTimestampOrBound(s)' \in Timestamps
        BY <1>1, <1>6 DEF StreamInv, StreamTypeOK, MinTimestampOrBound
      <3> QED
        BY <1>1, <3>1, StreamFacts, NodeTypes, SpecialTimestamps
    <2>3. task_timestamp_bound' <= MinTimestampOrBound(s)'
      BY <1>1, <1>4, <1>6, <2>1, <2>2
    <2> QED
      BY <1>4, <1>6, <2>1, <2>3
  <1>9. time = last_processed_ts /\ Later(time, Unstarted) = time /\ time \in Int
    BY <1>1, <1>10, SpecialTimestamps DEF Filling, IsAllowedInStream, Later
  <1>11. CASE s + 1 \in Streams /\ pc'[t] = "fill" /\ loc'[t].i = s + 1
              /\ OtherFields(loc'[t], loc[t], {"i"})
    <2>1. loc'[t].timestamp = time
      BY <1>10, <1>11 DEF OtherFields
    <2>2. ASSUME NEW r \in Streams, r < s + 1
          PROVE  last_select_timestamp'[r] = time
      <3>1. r < s \/ r = s
        BY <1>1, <2>2, StreamNumbers
      <3> QED
        BY <1>1, <1>6, <1>10, <3>1 DEF Filling
    <2>3. ASSUME NEW r \in Streams, r >= s + 1
          PROVE  last_select_timestamp'[r] <= time /\ time <= MinTimestampOrBound(r)'
      <3>1. r >= s /\ r # s
        BY <1>1, <2>3, StreamNumbers
      <3> QED
        BY <1>1, <1>6, <1>10, <3>1 DEF Filling
    <2>4. Filling(t)'
      BY <1>1, <1>4, <1>7, <1>9, <1>11, <2>1, <2>2, <2>3 DEF Filling
    <2>5. KnowsInputs(t)' /\ ~AtClose(t)' /\ pc'[t] # "schedule"
      BY <1>11, <2>4 DEF KnowsInputs, AtClose
    <2>6. InputsInv'
      BY <1>1, <1>5, <1>6, <1>7, <1>8, <1>11, <2>5, InputsOfLoop
    <2> QED
      BY <1>3, <1>10, <2>6
  <1>12. CASE s + 1 \notin Streams
    <2>1. Selected'
      <3>1. \A r \in Streams : r < s \/ r = s
        BY <1>1, <1>12, StreamNumbers
      <3>2. \A r \in Streams : last_select_timestamp'[r] = time
        BY <1>1, <1>6, <1>10, <3>1 DEF Filling
      <3> QED
        BY <1>4, <1>7, <1>9, <3>2 DEF Selected
    <2>2. /\ pc'[t] \in {"schedule", "scan", "recheck"}
          /\ pc'[t] = "schedule" => loc'[t] = loc[t]
          /\ pc'[t] = "scan" => loc'[t].i = 1 /\ loc'[t].min_packet = Done /\ loc'[t].min_bound = Done
      <3>1. \/ pc'[t] = "schedule" /\ loc'[t] = loc[t]
            \/ NextInvocation(t, loc[t].left)
        BY <1>5, <1>10, <1>12 DEF FilledMove
      <3>2. PlacesInv /\ loc[t].left \in Int
        BY NodeTypes
      <3> QED
        BY <3>1, <3>2, NextInvocationEffect
    <2>3. pc'[t] = "scan" => Scanned(t)'
      BY <1>7, <2>2, FreshScan
    <2>4. KnowsInputs(t)' /\ ~AtClose(t)'
      BY <1>1, <1>10, <2>2, <2>3 DEF KnowsInputs, AtClose
    <2>5. InputsInv'
      BY <1>1, <1>5, <1>6, <1>7, <1>8, <2>1, <2>4, InputsOfLoop
    <2> QED
      BY <1>3, <1>10, <2>5
  <1> QED
    BY <1>5, <1>10, <1>11, <1>12 DEF FilledMove

\* So does scheduling the context.
LEMMA ScheduleInputs ==
    ASSUME NodeInv, NEW t \in Threads, UNCHANGED configVars, Schedule(t)
    PROVE  InputsInv'
  <1>0. pc[t] = "schedule" /\ pc[t] \in LoopLabels /\ InputsInv /\ PlacesInv
    BY DEF Schedule, LoopLabels, NodeInv
  <1>1. UNCHANGED <<streamVars, last_processed_ts, task_timestamp_bound>>
    BY DEF Schedule, propVars
  <1>2. Moves(t) /\ pc'[t] \in {"scan", "recheck"}
    BY ScheduleEffect
  <1>3. pc'[t] = "scan" => loc'[t].i = 1 /\ loc'[t].min_packet = Done /\ loc'[t].min_bound = Done
    <2>1. CASE loc[t].timestamp = Done
      BY <2>1, ScheduleEffect
    <2>2. CASE loc[t].timestamp # Done
      <3>1. NextInvocation(t, loc[t].left - 1) /\ loc[t].left - 1 \in Int
        BY <2>2, ScheduleEffect, NodeTypes
      <3> QED
        BY <1>0, <3>1, NextInvocationEffect
    <2> QED
      BY <2>1, <2>2
  <1>4. /\ StreamInv' /\ QueuesAllowed' /\ task_timestamp_bound' \in Timestamps
        /\ closed' = closed /\ last_select_timestamp' = last_select_timestamp
        /\ \A s \in Streams : task_timestamp_bound' <= MinTimestampOrBound(s)'
        /\ \A s \in Streams : Ended(s)' <=> Ended(s)
    BY <1>1, QuietInputs
  <1>5. pc'[t] = "scan" => Scanned(t)'
    BY <1>3, <1>4, FreshScan
  <1>6. KnowsInputs(t)' /\ KnowsEnd(t)' /\ ~AtClose(t)' /\ pc'[t] # "schedule"
    BY <1>2, <1>3, <1>5, SpecialTimestamps DEF KnowsInputs, KnowsEnd, AtClose
  <1>7. last_processed_ts' \in Timestamps
    BY <1>0, <1>1 DEF InputsInv
  <1>8. CASE loc[t].timestamp = Done
    <2>1. prepared_context_for_close' = TRUE
      BY <1>8 DEF Schedule
    <2>2. Over
      BY <1>0, <1>8 DEF InputsInv, AtClose
    <2>3. \A s \in Streams : Ended(s)'
      BY <1>4, <2>2 DEF Over
    <2> QED
      BY <1>0, <1>2, <1>4, <1>6, <1>7, <2>1, <2>3, InputsOfLoop
  <1>9. CASE loc[t].timestamp # Done
    <2>1. prepared_context_for_close' = prepared_context_for_close
      BY <1>9 DEF Schedule
    <2>2. ~Over
      BY <1>0, <1>9 DEF Over, KnowsEnd
    <2>3. ~prepared_context_for_close
      BY <1>0, <2>2 DEF InputsInv
    <2>4. \A u \in Threads : pc[u] # "fill"
      BY <1>0, OthersOutside DEF LoopLabels
    <2>5. Selected'
      BY <1>0, <1>1, <1>4, <2>2, <2>4 DEF InputsInv, Selected
    <2>6. \A s \in Streams : ~closed'[s]
      BY <1>0, <1>4, <2>3 DEF InputsInv
    <2>7. prepared_context_for_close' \in BOOLEAN /\ ~prepared_context_for_close'
      BY <1>0, <2>1, <2>3 DEF InputsInv
    <2> QED
      BY <1>0, <1>2, <1>4, <1>6, <1>7, <2>5, <2>6, <2>7, InputsOfLoop
  <1> QED
    BY <1>8, <1>9

\* A thread that propagates goes on with that or back to its caller.
PropagationGoes(t) ==
    \/ FinishPropagation(t)
    \/ StartPackets(t)
    \/ \E bound \in Timestamps : StartBound(t, bound)
    \/ Goto(t, loc[t].caller)

\* Where a thread that propagates goes.
LEMMA PropagationLabels ==
    ASSUME NodeInv, NEW t \in Threads, Propagates(t), PropagationGoes(t)
    PROVE  pc'[t] \in {"propagate", "try_bound", "recheck", "end"}
  <1>1. pc \in [Threads -> Labels]
    BY NodeTypes, ThreadFacts
  <1>2. loc[t].caller \in {"recheck", "end"}
    BY DEF Propagates
  <1> QED
    BY <1>1, <1>2 DEF PropagationGoes, FinishPropagation, StartPackets, StartBound, Goto

\* Where a thread that announces a bound goes.
LEMMA UpdateLabels ==
    ASSUME NodeInv, NEW t \in Threads, UpdateTaskTimestampBound(t)
    PROVE  pc'[t] \in {"propagate", "try_bound", "recheck", "end"}
  <1>1. pc[t] = "bound" /\ PlacesInv /\ pc \in [Threads -> Labels]
    BY NodeTypes, ThreadFacts DEF UpdateTaskTimestampBound
  <1>2. CASE Parallel /\ task_timestamp_bound # loc[t].timestamp
    <2>1. JoinPropagation(t, completed_input_timestamps, loc[t].timestamp)
      BY <1>2 DEF UpdateTaskTimestampBound
    <2>2. Propagates(t) /\ loc[t].timestamp \in Timestamps
      BY <1>1, WhoPropagates, NodeTypes
    <2>3. PropagationGoes(t)
      BY <2>1, <2>2 DEF JoinPropagation, PropagationGoes
    <2> QED
      BY <2>2, <2>3, PropagationLabels
  <1>3. CASE ~(Parallel /\ task_timestamp_bound # loc[t].timestamp)
    <2>1. Goto(t, "recheck")
      BY <1>3 DEF UpdateTaskTimestampBound
    <2> QED
      BY <1>1, <2>1 DEF Goto
  <1> QED
    BY <1>2, <1>3

\* Announcing a bound keeps what is known of the inputs.
LEMMA UpdateInputs ==
    ASSUME NodeInv, NEW t \in Threads, UNCHANGED configVars, UpdateTaskTimestampBound(t)
    PROVE  InputsInv'
  <1>0. pc[t] = "bound" /\ pc[t] \in LoopLabels /\ InputsInv /\ PlacesInv
        /\ UNCHANGED <<streamVars, inputVars>> /\ max_in_flight' = max_in_flight
    BY DEF UpdateTaskTimestampBound, LoopLabels, NodeInv, configVars
  <1>1. Moves(t)
    BY OutputPlaces
  <1>2. UNCHANGED <<last_processed_ts, prepared_context_for_close>>
    BY <1>0 DEF inputVars
  <1>3. CASE Parallel /\ task_timestamp_bound # loc[t].timestamp
    <2>1. JoinPropagation(t, completed_input_timestamps, loc[t].timestamp)
          /\ task_timestamp_bound' = loc[t].timestamp
      BY <1>3 DEF UpdateTaskTimestampBound
    <2>2. Propagates(t) /\ loc[t].timestamp \in Timestamps
      BY <1>0, WhoPropagates, NodeTypes
    <2>3. PropagationGoes(t)
      BY <2>1, <2>2 DEF JoinPropagation, PropagationGoes
    <2>4. pc'[t] \in {"propagate", "try_bound", "recheck", "end"}
      BY <2>2, <2>3, PropagationLabels
    <2>5. KnowsInputs(t)' /\ KnowsEnd(t)' /\ ~AtClose(t)' /\ pc'[t] # "schedule"
      BY <2>4 DEF KnowsInputs, KnowsEnd, AtClose
    <2>6. StreamInv' /\ QueuesAllowed' /\ \A s \in Streams : Offers(s)
      BY <1>0, SameStreams DEF StreamsOffer
    <2>7. \A s \in Streams : Ended(s)' <=> Ended(s)
      BY <1>0 DEF Ended, streamVars, queueVars, boundVars
    <2>8. \A s \in Streams : MinTimestampOrBound(s)' = MinTimestampOrBound(s)
      BY <1>0 DEF MinTimestampOrBound, streamVars, queueVars, boundVars
    <2>9. \A s \in Streams : loc[t].timestamp <= MinTimestampOrBound(s)
      BY <1>0, <1>3 DEF InputsInv, KnowsInputs
    <2>10. \A u \in Threads : pc[u] # "fill"
      BY <1>0, OthersOutside DEF LoopLabels
    <2>11. Over \/ (~prepared_context_for_close /\ Selected)
      BY <1>0, <2>10 DEF InputsInv
    <2>12. \/ (\A s \in Streams : Ended(s)') /\ KnowsEnd(t)'
           \/ ~prepared_context_for_close' /\ ~AtClose(t)' /\ (Selected' \/ pc'[t] = "fill")
      <3>1. CASE Over
        BY <2>5, <2>7, <3>1 DEF Over
      <3>2. CASE ~prepared_context_for_close /\ Selected
        <4>1. Selected'
          BY <1>2, <2>6, <3>2 DEF Selected, Offers
        <4> QED
          BY <1>2, <2>5, <3>2, <4>1
      <3> QED
        BY <2>11, <3>1, <3>2
    <2>13. /\ last_processed_ts' \in Timestamps /\ prepared_context_for_close' \in BOOLEAN
           /\ \A s \in Streams : closed'[s] => prepared_context_for_close'
      BY <1>0, <1>2, <2>6 DEF InputsInv, Offers
    <2>14. task_timestamp_bound' \in Timestamps
           /\ \A s \in Streams : task_timestamp_bound' <= MinTimestampOrBound(s)'
      BY <2>1, <2>2, <2>8, <2>9
    <2> QED
      BY <1>0, <1>1, <2>5, <2>6, <2>12, <2>13, <2>14, InputsOfLoop
  <1>4. CASE ~(Parallel /\ task_timestamp_bound # loc[t].timestamp)
    <2>1. Goto(t, "recheck") /\ UNCHANGED propVars
      BY <1>4 DEF UpdateTaskTimestampBound
    <2>2. pc'[t] = "recheck" /\ task_timestamp_bound' = task_timestamp_bound
      BY <1>0, <2>1, ThreadFacts DEF Goto, propVars
    <2> QED
      BY <1>0, <1>1, <1>2, <2>2, SameStreams, InputsKept
  <1> QED
    BY <1>3, <1>4

\* Closing an input stream, when all inputs have ended.
LEMMA CloseInputs ==
    ASSUME NodeInv, NEW w \in Workers, UNCHANGED configVars, CloseInputStream(w)
    PROVE  InputsInv'
  <1>0. /\ pc[w] = "close" /\ InputsInv /\ prepared_context_for_close /\ loc[w].i \in Streams
        /\ w \in Threads
    <2>1. pc[w] = "close" /\ InputsInv /\ BatchInv
      BY DEF CloseInputStream, NodeInv
    <2> QED
      BY <2>1, NodeTypes DEF BatchInv, RunsBatch
  <1>1. Over /\ \A u \in Threads : pc[u] # "schedule"
    BY <1>0 DEF InputsInv
  <1>2. PICK s \in Streams : loc[w].i = s
    BY <1>0
  <1>3. Close(s) /\ UNCHANGED <<inputVars, propVars>> /\ enable_timestamps' = enable_timestamps
        /\ max_in_flight' = max_in_flight
    BY <1>2 DEF CloseInputStream, configVars
  <1>4. /\ StreamInv' /\ QueuesAllowed' /\ queue' = queue
        /\ \A r \in Streams : MinTimestampOrBound(r) <= MinTimestampOrBound(r)'
        /\ \A r \in Streams : Ended(r)'
    BY <1>1, <1>3, CloseOffers DEF ClosesStream, Over
  <1>5. UNCHANGED <<last_processed_ts, prepared_context_for_close, task_timestamp_bound>>
    BY <1>3 DEF inputVars, propVars
  <1>6. \A r \in Streams : MinTimestampOrBound(r) \in Int /\ MinTimestampOrBound(r)' \in Int
    <2>1. \A r \in Streams : MinTimestampOrBound(r)' \in Timestamps
      BY <1>4 DEF StreamInv, StreamTypeOK, MinTimestampOrBound
    <2> QED
      BY <2>1, StreamFacts, SpecialTimestamps
  <1>7. \A x \in Int, r \in Streams : x <= MinTimestampOrBound(r) => x <= MinTimestampOrBound(r)'
    BY <1>4, <1>6
  <1>8. \A r \in Streams : task_timestamp_bound' <= MinTimestampOrBound(r)'
    BY <1>0, <1>5, <1>7, NodeTypes, SpecialTimestamps DEF InputsInv
  <1>9. Moves(w) /\ pc'[w] \in {"close", "close_outputs"}
    BY CloseEffect
  <1>10. ASSUME NEW u \in Threads PROVE KnowsInputs(u)' /\ KnowsEnd(u)' /\ pc'[u] # "schedule"
    <2>1. CASE u = w
      BY <1>9, <2>1 DEF KnowsInputs, KnowsEnd
    <2>2. CASE u # w
      <3>1. pc'[u] = pc[u] /\ loc'[u] = loc[u] /\ Parallel' = Parallel
        BY <1>3, <1>9, <2>2 DEF Moves, Parallel
      <3>2. KnowsInputs(u) /\ KnowsEnd(u) /\ pc[u] \notin {"schedule", "fill"}
        BY <1>0, <1>1 DEF InputsInv, Over, KnowsEnd
      <3>3. pc[u] = "scan" => Scanned(u)'
        <4> SUFFICES ASSUME pc[u] = "scan" PROVE Scanned(u)'
          OBVIOUS
        <4>1. Scanned(u)
          BY <3>2 DEF KnowsInputs
        <4>2. Earlier(loc[u].min_packet, loc[u].min_bound) \in Int
          BY ScanFacts
        <4>3. \A r \in Streams :
                 r < loc[u].i => Earlier(loc[u].min_packet, loc[u].min_bound) <= MinTimestampOrBound(r)'
          BY <1>7, <4>1, <4>2 DEF Scanned
        <4> QED
          BY <1>4, <1>5, <3>1, <4>1, <4>3 DEF Scanned
      <3>4. pc[u] = "bound" /\ Parallel => \A r \in Streams : loc[u].timestamp <= MinTimestampOrBound(r)'
        BY <1>7, <3>2, NodeTypes, SpecialTimestamps DEF KnowsInputs
      <3>5. KnowsInputs(u)'
        BY <1>5, <3>1, <3>2, <3>3, <3>4 DEF KnowsInputs
      <3> QED
        BY <3>1, <3>2, <3>5 DEF KnowsEnd
    <2> QED
      BY <2>1, <2>2
  <1>11. Over'
    BY <1>4, <1>10 DEF Over
  <1>12. /\ last_processed_ts' \in Timestamps /\ task_timestamp_bound' \in Timestamps
         /\ prepared_context_for_close' = TRUE
    BY <1>0, <1>5 DEF InputsInv
  <1> QED
    BY <1>4, <1>8, <1>10, <1>11, <1>12 DEF InputsInv

-----------------------------------------------------------------------------

\* An upstream thread leaves what the streams offer, or offers more.
LEMMA ProduceOffers ==
    ASSUME NodeInv, NEW s \in Streams, UNCHANGED configVars, Produce(s) \/ EndStream(s)
    PROVE  StreamsOffer /\ Moves(s) /\ pc'[s] \in {"produce", "notify"}
  <1>0. s \in Threads /\ enable_timestamps' = enable_timestamps /\ max_in_flight' = max_in_flight
    BY NodeTypes DEF configVars
  <1>3. StreamsOffer
    <2>1. CASE EndStream(s)
      BY <1>0, <2>1, BoundOffers, NoLocalsType DEF EndStream
    <2>2. CASE Produce(s)
      <3>1. CASE \E p \in PacketTimes : AcceptsPacket(s, <<p>>, 1) /\ AddPackets(s, <<p>>)
        <4>1. PICK p \in PacketTimes : AcceptsPacket(s, <<p>>, 1) /\ AddPackets(s, <<p>>)
          BY <3>1
        <4>2. p \in Timestamps /\ ~closed[s]
          BY <2>2, NodeAssumption DEF Produce
        <4> QED
          BY <1>0, <4>1, <4>2, PacketOffers
      <3>2. CASE \E b \in BoundTimes : SetNextTimestampBound(s, b)
        BY <1>0, <3>2, BoundOffers, NodeAssumption
      <3> QED
        BY <2>2, <3>1, <3>2 DEF Produce
    <2> QED
      BY <2>1, <2>2
  <1>4. Moves(s) /\ Leads(s, pc[s], pc'[s])
    BY <1>0, GoesEffect DEF OnlyGoes
  <1>5. pc[s] = "produce"
    BY DEF Produce, EndStream
  <1> QED
    BY <1>3, <1>4, <1>5 DEF Leads

\* Packets, bounds and ends from upstream keep what is known of the inputs.
LEMMA ProduceInputs ==
    ASSUME NodeInv, NEW s \in Streams, UNCHANGED configVars, Produce(s) \/ EndStream(s)
    PROVE  InputsInv'
  <1>1. s \in Threads /\ max_in_flight' = max_in_flight
    BY NodeTypes DEF configVars
  <1>2. pc[s] = "produce" /\ UNCHANGED <<inputVars, propVars>>
    BY DEF Produce, EndStream
  <1>3. UNCHANGED <<last_processed_ts, prepared_context_for_close, task_timestamp_bound>>
    BY <1>2 DEF inputVars, propVars
  <1> QED
    BY <1>1, <1>2, <1>3, ProduceOffers, InputsKept

\* The thread may begin a scan, which knows nothing yet.
Scans(t) ==
    /\ pc'[t] \notin {"fill", "schedule", "bound"}
    /\ pc'[t] = "scan" => loc'[t].i = 1 /\ loc'[t].min_packet = Done /\ loc'[t].min_bound = Done

\* The actions that leave the inputs alone.
Elsewhere(t) ==
    \/ CheckIfBecameReady(t) \/ BeginLoop(t) \/ Recheck(t) \/ (t \in Workers /\ EndScheduling(t))
    \/ PropagatePackets(t) \/ RecycleContext(t) \/ TryBound(t) \/ SendBound(t)
    \/ PacketsPropagated(t) \/ BoundPropagated(t)
    \/ (t \in Workers /\ (\/ OpenNode(t) \/ CloseOutputStreams(t) \/ NodeClosed(t)
                          \/ RunTask(t) \/ Process(t) \/ PostProcess(t)))

\* The other actions leave the inputs alone.
LEMMA ElsewhereKeeps ==
    ASSUME NEW t \in Threads, Elsewhere(t)
    PROVE  UNCHANGED <<streamVars, inputVars, task_timestamp_bound>>
  <1>1. CASE CheckIfBecameReady(t)
    BY <1>1 DEF CheckIfBecameReady, propVars
  <1>2. CASE BeginLoop(t)
    BY <1>2 DEF BeginLoop, propVars
  <1>3. CASE Recheck(t)
    BY <1>3 DEF Recheck, propVars
  <1>4. CASE EndScheduling(t)
    BY <1>4 DEF EndScheduling, propVars
  <1>5. CASE PropagatePackets(t)
    BY <1>5 DEF PropagatePackets, propVars
  <1>6. CASE RecycleContext(t)
    BY <1>6 DEF RecycleContext, propVars
  <1>7. CASE TryBound(t)
    BY <1>7 DEF TryBound, propVars
  <1>8. CASE SendBound(t)
    BY <1>8 DEF SendBound, propVars
  <1>9. CASE PacketsPropagated(t)
    BY <1>9 DEF PacketsPropagated, propVars
  <1>10. CASE BoundPropagated(t)
    BY <1>10 DEF BoundPropagated, propVars
  <1>11. CASE OpenNode(t)
    BY <1>11 DEF OpenNode, propVars
  <1>12. CASE CloseOutputStreams(t)
    BY <1>12 DEF CloseOutputStreams, propVars
  <1>13. CASE NodeClosed(t)
    BY <1>13 DEF NodeClosed, propVars
  <1>14. CASE RunTask(t)
    BY <1>14 DEF RunTask, propVars
  <1>15. CASE Process(t)
    BY <1>15 DEF Process, propVars
  <1>16. CASE PostProcess(t)
    BY <1>16 DEF PostProcess, propVars
  <1> QED
    BY <1>1, <1>2, <1>3, <1>4, <1>5, <1>6, <1>7, <1>8, <1>9, <1>10, <1>11, <1>12, <1>13, <1>14, <1>15, <1>16 DEF Elsewhere

\* The thread that takes them prepares nothing.
LEMMA ElsewhereScans ==
    ASSUME NodeInv, NEW t \in Threads, UNCHANGED configVars, Elsewhere(t)
    PROVE  Scans(t) /\ pc[t] \notin {"fill", "schedule", "bound"}
  <1>0. PlacesInv /\ pc \in [Threads -> Labels] /\ Home(t) \in {"produce", "free"}
        /\ Allowance \in Int
    BY NodeTypes, ThreadFacts
  <1>1. CASE OnlyGoes(t)
    <2>1. Leads(t, pc[t], pc'[t])
      BY <1>1, GoesEffect
    <2> QED
      BY <2>1 DEF Leads, Scans
  <1>2. CASE CheckIfBecameReady(t)
    <2>1. pc[t] = "notify" /\ (Return(t) \/ Goto(t, "begin"))
      BY <1>2 DEF CheckIfBecameReady
    <2>2. pc'[t] \in {"produce", "free", "begin"}
      BY <1>0, <2>1, ReturnEffect DEF Goto
    <2> QED
      BY <2>1, <2>2 DEF Scans
  <1>3. CASE BeginLoop(t) \/ Recheck(t)
    <2>1. pc[t] \in {"begin", "recheck"} /\ (Return(t) \/ NextInvocation(t, Allowance))
      BY <1>3 DEF BeginLoop, Recheck
    <2>2. CASE Return(t)
      <3>1. pc'[t] \in {"produce", "free"}
        BY <1>0, <2>2, ReturnEffect
      <3> QED
        BY <2>1, <3>1 DEF Scans
    <2>3. CASE NextInvocation(t, Allowance)
      <3>1. /\ pc'[t] \in {"scan", "recheck"}
            /\ loc'[t].i = 1 /\ loc'[t].min_packet = Done /\ loc'[t].min_bound = Done
        BY <1>0, <2>3, NextInvocationEffect
      <3> QED
        BY <2>1, <3>1 DEF Scans
    <2> QED
      BY <2>1, <2>2, <2>3
  <1>4. CASE t \in Workers /\ EndScheduling(t)
    <2>1. pc[t] = "end" /\ (Return(t) \/ Goto(t, "begin"))
      BY <1>4 DEF EndScheduling
    <2>2. pc'[t] \in {"produce", "free", "begin"}
      BY <1>0, <2>1, ReturnEffect DEF Goto
    <2> QED
      BY <2>1, <2>2 DEF Scans
  <1>5. CASE t \in Workers /\ (RunTask(t) \/ Process(t))
    <2>1. pc[t] \in {"free", "process"} /\ pc'[t] \in {"process", "post", "close"}
      BY <1>5, RunTaskEffect, ProcessEffect
    <2> QED
      BY <2>1 DEF Scans
  <1>6. CASE PacketsPropagated(t) \/ BoundPropagated(t)
    <2>1. pc[t] \in {"propagated", "bound_tried"}
      BY <1>6 DEF PacketsPropagated, BoundPropagated
    <2>2. Propagates(t)
      BY <1>0, <2>1, WhoPropagates DEF PropLabels, PacketLabels, BoundLabels
    <2>3. task_timestamp_bound \in Timestamps
      BY NodeTypes
    <2>4. PropagationGoes(t)
      <3>1. FinishPropagation(t) \/ StartPackets(t) \/ StartBound(t, task_timestamp_bound)
        BY <1>6 DEF PacketsPropagated, BoundPropagated
      <3> QED
        BY <2>3, <3>1 DEF PropagationGoes
    <2> QED
      BY <2>1, <2>2, <2>4, PropagationLabels DEF Scans
  <1>7. CASE t \in Workers /\ PostProcess(t)
    <2>1. pc[t] = "post"
      BY <1>7 DEF PostProcess
    <2>2. CASE Parallel
      <3>1. JoinPropagation(t, completed_input_timestamps \cup {loc[t].timestamp}, task_timestamp_bound)
        BY <1>7, <2>2 DEF PostProcess
      <3>2. Propagates(t) /\ task_timestamp_bound \in Timestamps
        BY <1>0, <2>1, WhoPropagates, NodeTypes
      <3>3. PropagationGoes(t)
        BY <3>1, <3>2 DEF JoinPropagation, PropagationGoes
      <3> QED
        BY <2>1, <3>2, <3>3, PropagationLabels DEF Scans
    <2>3. CASE ~Parallel
      <3>1. TakesTurn(t)
        BY <1>7, <2>3 DEF PostProcess, TakesTurn
      <3>2. pc'[t] \in {"process", "end"}
        BY <1>7, <3>1, TurnEffect
      <3> QED
        BY <2>1, <3>2 DEF Scans
    <2> QED
      BY <2>2, <2>3
  <1> QED
    BY <1>1, <1>2, <1>3, <1>4, <1>5, <1>6, <1>7 DEF Elsewhere, OnlyGoes

\* They keep what is known of the inputs.
LEMMA ElsewhereInputs ==
    ASSUME NodeInv, NEW t \in Threads, UNCHANGED configVars, Elsewhere(t), Moves(t)
    PROVE  InputsInv'
  <1>1. UNCHANGED <<streamVars, inputVars, task_timestamp_bound>>
    BY ElsewhereKeeps
  <1>2. UNCHANGED <<last_processed_ts, prepared_context_for_close, task_timestamp_bound, max_in_flight>>
    BY <1>1 DEF inputVars, configVars
  <1>3. StreamsOffer
    BY <1>1, SameStreams
  <1>4. pc[t] \notin {"fill", "schedule"} /\ Scans(t)
    BY ElsewhereScans
  <1> QED
    BY <1>2, <1>3, <1>4, InputsKept DEF Scans

\* Every step is one of these.
StepOf(t) ==
    \/ t \in Streams /\ (Produce(t) \/ EndStream(t))
    \/ ThreadStep(t)

\* The actions by what they do to the inputs.
LEMMA StepKinds ==
    ASSUME NEW t \in Threads, StepOf(t)
    PROVE  \/ t \in Streams /\ (Produce(t) \/ EndStream(t))
           \/ ScanStream(t)
           \/ Decide(t)
           \/ FillStream(t)
           \/ Schedule(t)
           \/ UpdateTaskTimestampBound(t)
           \/ t \in Workers /\ CloseInputStream(t)
           \/ Elsewhere(t)
  <1>1. CASE LoopStep(t)
    BY <1>1 DEF LoopStep, Elsewhere
  <1>2. CASE OutputStep(t)
    BY <1>2 DEF OutputStep, Elsewhere
  <1>3. CASE t \in Workers /\ WorkerStep(t)
    BY <1>3 DEF WorkerStep, Elsewhere
  <1> QED
    BY <1>1, <1>2, <1>3 DEF StepOf, ThreadStep

\* Every step keeps what is known of the inputs.
LEMMA NodeInputs ==
    ASSUME NodeInv, NEW t \in Threads, UNCHANGED configVars, StepOf(t)
    PROVE  InputsInv'
  <1>0. Moves(t)
    BY NodePlaces DEF StepOf
  <1>1. CASE t \in Streams /\ (Produce(t) \/ EndStream(t))
    BY <1>1, ProduceInputs
  <1>2. CASE ScanStream(t)
    BY <1>2, ScanInputs
  <1>3. CASE Decide(t)
    <2>1. UNCHANGED <<streamVars, propVars>> /\ pc[t] = "scan" /\ loc[t].i \notin Streams
      BY <1>3 DEF Decide
    <2> QED
      BY <1>3, <2>1, NotReadyInputs, PrepareContextInputs, PrepareCloseInputs DEF Decide
  <1>4. CASE FillStream(t)
    BY <1>4, FillInputs
  <1>5. CASE Schedule(t)
    BY <1>5, ScheduleInputs
  <1>6. CASE UpdateTaskTimestampBound(t)
    BY <1>6, UpdateInputs
  <1>7. CASE t \in Workers /\ CloseInputStream(t)
    BY <1>7, CloseInputs
  <1>8. CASE Elsewhere(t)
    BY <1>0, <1>8, ElsewhereInputs
  <1> QED
    BY <1>1, <1>2, <1>3, <1>4, <1>5, <1>6, <1>7, <1>8, StepKinds

-----------------------------------------------------------------------------
(* Once the inputs have ended they stay so, and every scan finds it out.   *)

\* Inputs that have ended stay ended if the thread that moves knows.
LEMMA OverKept ==
    ASSUME NodeInv, NEW t \in Threads, Moves(t), Over, \A s \in Streams : Ended(s)', KnowsEnd(t)'
    PROVE  Over'
  <1>1. ASSUME NEW u \in Threads PROVE KnowsEnd(u)'
    <2>1. CASE u = t
      BY <2>1
    <2>2. CASE u # t
      <3>1. pc'[u] = pc[u] /\ loc'[u] = loc[u] /\ KnowsEnd(u)
        BY <2>2 DEF Moves, Over
      <3> QED
        BY <3>1 DEF KnowsEnd
    <2> QED
      BY <2>1, <2>2
  <1> QED
    BY <1>1 DEF Over

\* A scan of inputs that have ended finds no packet and no bound before
\* Done.
LEMMA ScanOver ==
    ASSUME NodeInv, NEW t \in Threads, Over, ScanStream(t)
    PROVE  KnowsEnd(t)'
  <1> DEFINE s == loc[t].i
             time == MinTimestampOrBound(s)
  <1>1. /\ pc[t] = "scan" /\ s \in Streams /\ pc' = pc
        /\ loc'[t].min_bound = IF queue[s] = <<>> THEN Earlier(loc[t].min_bound, time)
                                                  ELSE loc[t].min_bound
        /\ loc'[t].min_packet = IF queue[s] = <<>> THEN loc[t].min_packet
                                                   ELSE Earlier(loc[t].min_packet, time)
    BY ScanEffect
  <1>2. loc[t].min_packet = Done /\ loc[t].min_bound >= OneOverPostStream
    BY <1>1, ScanFacts
  <1>3. queue[s] = <<>> /\ time >= OneOverPostStream
    BY <1>1 DEF Over, Ended, MinTimestampOrBound
  <1>4. loc'[t].min_packet = Done /\ loc'[t].min_bound >= OneOverPostStream
    BY <1>1, <1>2, <1>3 DEF Earlier
  <1> QED
    BY <1>1, <1>4 DEF KnowsEnd

\* Once the inputs have ended every step leaves them so.
LEMMA OverStays ==
    ASSUME NodeInv, NEW t \in Threads, UNCHANGED configVars, StepOf(t), Over
    PROVE  Over'
  <1>0. Moves(t)
    BY NodePlaces DEF StepOf
  <1>1. UNCHANGED <<streamVars, task_timestamp_bound>> => \A s \in Streams : Ended(s)'
    BY QuietInputs DEF Over
  <1>2. CASE t \in Streams /\ (Produce(t) \/ EndStream(t))
    <2>1. StreamsOffer /\ pc'[t] \in {"produce", "notify"}
      BY <1>2, ProduceOffers
    <2>2. \A s \in Streams : Ended(s)'
      BY <2>1 DEF StreamsOffer, Offers, Over
    <2>3. KnowsEnd(t)'
      BY <2>1 DEF KnowsEnd
    <2> QED
      BY <1>0, <2>2, <2>3, OverKept
  <1>3. CASE ScanStream(t)
    <2>1. UNCHANGED <<streamVars, task_timestamp_bound>>
      BY <1>3 DEF ScanStream, propVars
    <2> QED
      BY <1>0, <1>1, <1>3, <2>1, ScanOver, OverKept
  <1>4. CASE Decide(t)
    <2>1. UNCHANGED <<streamVars, propVars>> /\ pc[t] = "scan" /\ loc[t].i \notin Streams
      BY <1>4 DEF Decide
    <2>2. UNCHANGED <<streamVars, task_timestamp_bound>>
      BY <2>1 DEF propVars
    <2>3. CASE NotReady(t)
      <3>1. KnowsEnd(t)'
        BY <2>3, NotReadyEffect DEF KnowsEnd
      <3> QED
        BY <1>0, <1>1, <2>2, <3>1, OverKept
    <2>4. CASE PrepareContext(t)
      <3>1. ~Over
        BY <2>1, <2>4, ReadyTimestamp DEF PrepareContext
      <3> QED
        BY <3>1
    <2>5. CASE PrepareClose(t)
      BY <2>1, <2>5, PrepareCloseInputs
    <2> QED
      BY <1>4, <2>3, <2>4, <2>5 DEF Decide
  <1>5. CASE FillStream(t)
    BY <1>5, FillFacts DEF FillStream
  <1>6. CASE Schedule(t)
    <2>1. UNCHANGED <<streamVars, task_timestamp_bound>> /\ pc[t] = "schedule"
      BY <1>6 DEF Schedule, propVars
    <2>2. loc[t].timestamp = Done
      BY <2>1 DEF Over, KnowsEnd
    <2>3. KnowsEnd(t)'
      BY <1>6, <2>2, ScheduleEffect DEF KnowsEnd
    <2> QED
      BY <1>0, <1>1, <2>1, <2>3, OverKept
  <1>7. CASE UpdateTaskTimestampBound(t)
    <2>1. pc[t] = "bound" /\ UNCHANGED streamVars
      BY <1>7 DEF UpdateTaskTimestampBound
    <2>2. pc'[t] \in {"propagate", "try_bound", "recheck", "end"}
      BY <1>7, UpdateLabels
    <2>3. \A s \in Streams : Ended(s)'
      BY <2>1 DEF Over, Ended, streamVars, queueVars, boundVars
    <2>4. KnowsEnd(t)'
      BY <2>2 DEF KnowsEnd
    <2> QED
      BY <1>0, <2>3, <2>4, OverKept
  <1>8. CASE t \in Workers /\ CloseInputStream(t)
    <2>1. pc'[t] \in {"close", "close_outputs"}
      BY <1>8, CloseEffect
    <2>2. pc[t] = "close" /\ BatchInv /\ Close(loc[t].i) /\ enable_timestamps' = enable_timestamps
      BY <1>8 DEF CloseInputStream, NodeInv, configVars
    <2>3. PICK s \in Streams : s = loc[t].i
      BY <1>8, <2>2 DEF BatchInv, RunsBatch
    <2>4. \A r \in Streams : Ended(r)'
      BY <2>2, <2>3, CloseOffers DEF ClosesStream, Over
    <2>5. KnowsEnd(t)'
      BY <2>1 DEF KnowsEnd
    <2> QED
      BY <1>0, <2>4, <2>5, OverKept
  <1>9. CASE Elsewhere(t)
    <2>1. UNCHANGED <<streamVars, task_timestamp_bound>>
      BY <1>9, ElsewhereKeeps
    <2>2. Scans(t)
      BY <1>9, ElsewhereScans
    <2>3. KnowsEnd(t)'
      BY <2>2, SpecialTimestamps DEF Scans, KnowsEnd
    <2> QED
      BY <1>0, <1>1, <2>1, <2>3, OverKept
  <1> QED
    BY <1>2, <1>3, <1>4, <1>5, <1>6, <1>7, <1>8, <1>9, StepKinds

-----------------------------------------------------------------------------
(* The contexts.                                                           *)

\* What the other threads keep when one moves.
LEMMA OthersClaim ==
    ASSUME NEW t \in Threads, Moves(t), NEW u \in Threads \ {t}
    PROVE  /\ \A c \in Timestamps : Claims(u, c)' <=> Claims(u, c)
           /\ Running(u)' <=> Running(u)
           /\ pc'[u] = pc[u] /\ loc'[u] = loc[u]
  BY DEF Moves, Claims, Running

\* A step that leaves the contexts alone.
LEMMA ContextsKept ==
    ASSUME NodeInv, NEW t \in Threads, Moves(t), Parallel' = Parallel, Over => Over',
           UNCHANGED <<active_contexts, scheduled, completed_input_timestamps>>,
           last_processed_ts' = last_processed_ts \/ Over',
           \A c \in Timestamps : Claims(t, c)' => Claims(t, c),
           Running(t)' => Running(t),
           Parallel => /\ Running(t)' /\ pc'[t] = "post" => loc'[t].timestamp = loc'[t].context
                       /\ PropagatesFirst(t)'
                       /\ pc[t] # "propagated"
    PROVE  ContextsInv'
  <1>1. ContextsInv
    BY DEF NodeInv
  <1>2. CASE Parallel
    <2>0. ActiveInv
      BY <1>1, <1>2 DEF ContextsInv
    <2>1. Over' \/ \A c \in active_contexts \cup completed_input_timestamps : c <= last_processed_ts'
      BY <2>0 DEF ActiveInv
    <2>2. \A c \in completed_input_timestamps :
             c \in active_contexts \/ \E u \in Threads : pc'[u] = "propagated" /\ loc'[u].context = c
      <3>1. \A u \in Threads : pc[u] = "propagated" => pc'[u] = pc[u] /\ loc'[u] = loc[u]
        BY <1>2 DEF Moves
      <3> QED
        BY <2>0, <3>1 DEF ActiveInv
    <2>3. \A u \in Threads, c \in Timestamps : Claims(u, c)' => Claims(u, c)
      BY OthersClaim
    <2>4. ASSUME NEW u \in Threads
          PROVE  /\ Running(u)' /\ pc'[u] = "post" => loc'[u].timestamp = loc'[u].context
                 /\ PropagatesFirst(u)'
      <3>1. CASE u = t
        BY <1>2, <3>1
      <3>2. CASE u # t
        <4>1. pc'[u] = pc[u] /\ loc'[u] = loc[u] /\ (Running(u)' <=> Running(u))
          BY <3>2, OthersClaim
        <4>2. (Running(u) /\ pc[u] = "post" => loc[u].timestamp = loc[u].context) /\ PropagatesFirst(u)
          BY <2>0 DEF ActiveInv
        <4>3. PropagatesFirst(u)'
          BY <4>1, <4>2 DEF PropagatesFirst
        <4> QED
          BY <4>1, <4>2, <4>3
      <3> QED
        BY <3>1, <3>2
    <2>5. /\ \A c \in active_contexts' \cup completed_input_timestamps' : IsAllowedInStream(c)
          /\ scheduled' \ {Done} \subseteq active_contexts'
          /\ completed_input_timestamps' \cap scheduled' = {}
      BY <2>0 DEF ActiveInv
    <2>6. \A u \in Threads, c \in Timestamps :
             Claims(u, c)' => c \in active_contexts' \ (scheduled' \cup completed_input_timestamps')
      BY <2>0, <2>3 DEF ActiveInv
    <2>7. \A u, v \in Threads, c \in Timestamps : Claims(u, c)' /\ Claims(v, c)' => u = v
      BY <2>0, <2>3 DEF ActiveInv
    <2>8. ActiveInv'
      BY <2>1, <2>2, <2>4, <2>5, <2>6, <2>7 DEF ActiveInv
    <2> QED
      BY <1>1, <1>2, <2>8 DEF ContextsInv
  <1>3. CASE ~Parallel
    <2>1. DefaultOnly
      BY <1>1, <1>3 DEF ContextsInv
    <2>2. \A u \in Threads : ~Running(u)'
      BY <2>1, OthersClaim DEF DefaultOnly
    <2> QED
      BY <1>1, <1>3, <2>1, <2>2 DEF ContextsInv, DefaultOnly
  <1> QED
    BY <1>2, <1>3

\* The thread goes where it claims no context and propagates none.
Unburdened(label) ==
    label \notin {"fill", "schedule", "process", "post", "propagate", "recycle", "propagated"}

\* A thread that goes where it has no context, the contexts staying as they
\* are.
LEMMA ContextsUnburdened ==
    ASSUME NodeInv, NEW t \in Threads, Moves(t), Parallel' = Parallel, Over => Over',
           UNCHANGED <<active_contexts, scheduled, completed_input_timestamps>>,
           last_processed_ts' = last_processed_ts \/ Over',
           Unburdened(pc'[t]), pc[t] # "propagated"
    PROVE  ContextsInv'
  <1>1. /\ \A c \in Timestamps : ~Claims(t, c)'
        /\ ~Running(t)' /\ PropagatesFirst(t)'
    BY DEF Unburdened, Claims, Running, PropagatesFirst
  <1> QED
    BY <1>1, ContextsKept

\* The steps after which a thread claims nothing.
Unburdens(t) ==
    \/ t \in Streams /\ (Produce(t) \/ EndStream(t))
    \/ CheckIfBecameReady(t) \/ BeginLoop(t) \/ ScanStream(t) \/ Recheck(t)
    \/ TryBound(t) \/ SendBound(t)
    \/ t \in Workers /\ (\/ OpenNode(t) \/ CloseInputStream(t) \/ CloseOutputStreams(t)
                         \/ NodeClosed(t) \/ EndScheduling(t))

\* These steps leave the contexts as they are.
LEMMA UnburdensKeeps ==
    ASSUME NEW t \in Threads, Unburdens(t)
    PROVE  UNCHANGED <<active_contexts, scheduled, completed_input_timestamps, last_processed_ts>>
  <1>1. CASE Produce(t) \/ EndStream(t)
    BY <1>1 DEF Produce, EndStream, schedVars, inputVars, contextVars, propVars
  <1>2. CASE CheckIfBecameReady(t) \/ BeginLoop(t) \/ Recheck(t)
    BY <1>2 DEF CheckIfBecameReady, BeginLoop, Recheck, inputVars, contextVars, propVars
  <1>3. CASE ScanStream(t)
    BY <1>3 DEF ScanStream, schedVars, inputVars, contextVars, propVars
  <1>4. CASE TryBound(t) \/ SendBound(t)
    BY <1>4 DEF TryBound, SendBound, schedVars, inputVars, contextVars, propVars
  <1>5. CASE OpenNode(t) \/ NodeClosed(t) \/ EndScheduling(t)
    BY <1>5 DEF OpenNode, NodeClosed, EndScheduling, inputVars, contextVars, propVars
  <1>6. CASE CloseInputStream(t) \/ CloseOutputStreams(t)
    BY <1>6 DEF CloseInputStream, CloseOutputStreams, schedVars, inputVars, contextVars, propVars
  <1> QED
    BY <1>1, <1>2, <1>3, <1>4, <1>5, <1>6 DEF Unburdens

\* They lead to labels without a context.
LEMMA UnburdensLabels ==
    ASSUME NodeInv, NEW t \in Threads, Unburdens(t)
    PROVE  Unburdened(pc'[t]) /\ pc[t] # "propagated"
  <1>0. PlacesInv /\ pc \in [Threads -> Labels] /\ Home(t) \in {"produce", "free"}
        /\ Allowance \in Int
    BY NodeTypes, ThreadFacts
  <1>1. CASE (t \in Streams /\ (Produce(t) \/ EndStream(t))) \/ TryBound(t) \/ SendBound(t)
             \/ (t \in Workers /\ (OpenNode(t) \/ CloseOutputStreams(t) \/ NodeClosed(t)))
    <2>1. OnlyGoes(t) /\ Leads(t, pc[t], pc'[t])
      BY <1>1, GoesEffect DEF OnlyGoes
    <2>2. pc[t] \notin {"propagate", "recycle"}
      BY <1>1 DEF Produce, EndStream, TryBound, SendBound, OpenNode, CloseOutputStreams, NodeClosed
    <2> QED
      BY <2>1, <2>2 DEF Leads, Unburdened
  <1>2. CASE CheckIfBecameReady(t)
    <2>1. pc[t] = "notify" /\ (Return(t) \/ Goto(t, "begin"))
      BY <1>2 DEF CheckIfBecameReady
    <2>2. pc'[t] \in {"produce", "free", "begin"}
      BY <1>0, <2>1, ReturnEffect DEF Goto
    <2> QED
      BY <2>1, <2>2 DEF Unburdened
  <1>3. CASE BeginLoop(t) \/ Recheck(t)
    <2>1. pc[t] \in {"begin", "recheck"} /\ (Return(t) \/ NextInvocation(t, Allowance))
      BY <1>3 DEF BeginLoop, Recheck
    <2>2. pc'[t] \in {"produce", "free", "scan", "recheck"}
      BY <1>0, <2>1, ReturnEffect, NextInvocationEffect
    <2> QED
      BY <2>1, <2>2 DEF Unburdened
  <1>4. CASE t \in Workers /\ EndScheduling(t)
    <2>1. pc[t] = "end" /\ (Return(t) \/ Goto(t, "begin"))
      BY <1>4 DEF EndScheduling
    <2>2. pc'[t] \in {"produce", "free", "begin"}
      BY <1>0, <2>1, ReturnEffect DEF Goto
    <2> QED
      BY <2>1, <2>2 DEF Unburdened
  <1>5. CASE ScanStream(t)
    BY <1>5 DEF ScanStream, Unburdened
  <1>6. CASE t \in Workers /\ CloseInputStream(t)
    BY <1>6, CloseEffect DEF Unburdened
  <1> QED
    BY <1>1, <1>2, <1>3, <1>4, <1>5, <1>6 DEF Unburdens

\* They keep what is known of the contexts.
LEMMA UnburdensContexts ==
    ASSUME NodeInv, NEW t \in Threads, UNCHANGED configVars, Unburdens(t), Moves(t), Over => Over'
    PROVE  ContextsInv'
  <1>1. Parallel' = Parallel
    BY DEF configVars, Parallel
  <1> QED
    BY <1>1, UnburdensKeeps, UnburdensLabels, ContextsUnburdened

\* The earliest active context is completed: its packets are next.
LEMMA FrontIsFirst ==
    ASSUME NodeInv, NEW t \in Threads, active_contexts # {}, active_contexts' = active_contexts,
           FrontIsCompleted(completed_input_timestamps'), completed_input_timestamps' \subseteq Timestamps,
           StartPackets(t)
    PROVE  PropagatesFirst(t)' /\ pc'[t] = "propagate"
  <1>1. active_contexts \subseteq Timestamps
    BY NodeTypes
  <1>2. PICK T : T = completed_input_timestamps'
    OBVIOUS
  <1>3. T \subseteq Timestamps /\ T # {} /\ Earliest(active_contexts) = Earliest(T)
    BY <1>2 DEF FrontIsCompleted
  <1>4. PICK c : c = Earliest(active_contexts)
    OBVIOUS
  <1>5. /\ c \in active_contexts /\ \A d \in active_contexts : c <= d
        /\ c \in T
    BY <1>1, <1>3, <1>4, EarliestOfSome
  <1>6. pc'[t] = "propagate" /\ loc'[t].context = c
    BY <1>4, StartPacketsEffect
  <1> QED
    BY <1>2, <1>5, <1>6 DEF PropagatesFirst

\* Joining the propagation, or going on with it.
LEMMA PropagationContexts ==
    ASSUME NodeInv, NEW t \in Threads, Moves(t), Parallel, Parallel' = Parallel, Over => Over',
           UNCHANGED <<active_contexts, scheduled, completed_input_timestamps, last_processed_ts>>,
           Propagates(t), pc[t] # "propagated",
           \/ FinishPropagation(t)
           \/ active_contexts # {} /\ FrontIsCompleted(completed_input_timestamps) /\ StartPackets(t)
           \/ \E bound \in Timestamps : StartBound(t, bound)
           \/ LeavesPropagation(t)
    PROVE  ContextsInv'
  <1>1. CASE active_contexts # {} /\ FrontIsCompleted(completed_input_timestamps) /\ StartPackets(t)
    <2>1. PropagatesFirst(t)' /\ pc'[t] = "propagate"
      BY <1>1, FrontIsFirst, NodeTypes
    <2>2. /\ \A c \in Timestamps : ~Claims(t, c)'
          /\ ~Running(t)'
      BY <2>1 DEF Claims, Running
    <2> QED
      BY <2>1, <2>2, ContextsKept
  <1>2. CASE FinishPropagation(t) \/ LeavesPropagation(t)
    <2>1. pc'[t] = loc[t].caller /\ loc[t].caller \in {"recheck", "end"}
      BY <1>2, FinishEffect, LeavesEffect DEF Propagates
    <2> QED
      BY <2>1, ContextsUnburdened DEF Unburdened
  <1>3. CASE \E bound \in Timestamps : StartBound(t, bound)
    <2>1. pc'[t] = "try_bound"
      BY <1>3, StartBoundEffect
    <2> QED
      BY <2>1, ContextsUnburdened DEF Unburdened
  <1> QED
    BY <1>1, <1>2, <1>3

\* Announcing a bound keeps what is known of the contexts, and starts with
\* the earliest context if that is completed.
LEMMA UpdateContexts ==
    ASSUME NodeInv, NEW t \in Threads, UNCHANGED configVars, UpdateTaskTimestampBound(t),
           Moves(t), Over => Over'
    PROVE  ContextsInv'
  <1>1. /\ pc[t] = "bound" /\ Parallel' = Parallel
        /\ UNCHANGED <<active_contexts, scheduled, completed_input_timestamps, last_processed_ts>>
    BY DEF UpdateTaskTimestampBound, schedVars, inputVars, contextVars, propVars, configVars, Parallel
  <1>2. CASE Parallel /\ task_timestamp_bound # loc[t].timestamp
    <2>1. JoinPropagation(t, completed_input_timestamps, loc[t].timestamp)
      BY <1>2 DEF UpdateTaskTimestampBound
    <2>2. Propagates(t) /\ loc[t].timestamp \in Timestamps
      BY <1>1, WhoPropagates, NodeTypes
    <2>3. \/ FinishPropagation(t)
          \/ active_contexts # {} /\ FrontIsCompleted(completed_input_timestamps) /\ StartPackets(t)
          \/ StartBound(t, loc[t].timestamp)
          \/ LeavesPropagation(t)
      BY <2>1 DEF JoinPropagation, LeavesPropagation
    <2> QED
      BY <1>1, <1>2, <2>2, <2>3, PropagationContexts
  <1>3. CASE ~(Parallel /\ task_timestamp_bound # loc[t].timestamp)
    <2>1. Goto(t, "recheck") /\ PlacesInv /\ pc \in [Threads -> Labels]
      BY <1>3, NodeTypes, ThreadFacts DEF UpdateTaskTimestampBound
    <2>2. Unburdened(pc'[t])
      BY <2>1 DEF Goto, Unburdened
    <2> QED
      BY <1>1, <2>2, ContextsUnburdened
  <1> QED
    BY <1>2, <1>3

\* Going on after a bound keeps what is known of the contexts.
LEMMA BoundContexts ==
    ASSUME NodeInv, NEW t \in Threads, UNCHANGED configVars, BoundPropagated(t),
           Moves(t), Over => Over'
    PROVE  ContextsInv'
  <1>1. /\ pc[t] = "bound_tried" /\ Parallel' = Parallel
        /\ UNCHANGED <<active_contexts, scheduled, completed_input_timestamps, last_processed_ts>>
    BY DEF BoundPropagated, schedVars, inputVars, contextVars, propVars, configVars, Parallel
  <1>2. Propagates(t) /\ task_timestamp_bound \in Timestamps /\ Placed(t)
    BY <1>1, WhoPropagates, NodeTypes, ThreadFacts DEF PropLabels, BoundLabels
  <1>3. Parallel
    BY <1>1, <1>2 DEF Placed, PropLabels, BoundLabels
  <1>4. \/ FinishPropagation(t)
        \/ active_contexts # {} /\ FrontIsCompleted(completed_input_timestamps) /\ StartPackets(t)
        \/ StartBound(t, task_timestamp_bound)
    BY DEF BoundPropagated
  <1> QED
    BY <1>1, <1>2, <1>3, <1>4, PropagationContexts

\* A step with one invocation at a time.
LEMMA DefaultKept ==
    ASSUME NodeInv, NEW t \in Threads, Moves(t), ~Parallel, Parallel' = Parallel,
           UNCHANGED <<active_contexts, completed_input_timestamps>>, scheduled' \subseteq {Done},
           Running(t)' => Running(t)
    PROVE  ContextsInv'
  <1>1. ContextsInv /\ DefaultOnly
    BY DEF NodeInv, ContextsInv
  <1>2. \A u \in Threads : ~Running(u)'
    BY <1>1, OthersClaim DEF DefaultOnly
  <1>3. Done \in Timestamps
    BY NoLocalsType
  <1> QED
    BY <1>1, <1>2, <1>3 DEF ContextsInv, DefaultOnly

\* With several invocations in flight it is enough to look at the contexts that
\* change hands.
LEMMA ContextsOf ==
    ASSUME NodeInv, NEW t \in Threads, Moves(t), Parallel, Parallel' = Parallel,
           active_contexts' \subseteq Timestamps, scheduled' \subseteq Timestamps,
           completed_input_timestamps' \subseteq Timestamps,
           \A c \in active_contexts' \cup completed_input_timestamps' : IsAllowedInStream(c),
           Over' \/ \A c \in active_contexts' \cup completed_input_timestamps' : c <= last_processed_ts',
           scheduled' \ {Done} \subseteq active_contexts',
           completed_input_timestamps' \cap scheduled' = {},
           \A c \in completed_input_timestamps' :
              c \in active_contexts' \/ \E u \in Threads : pc'[u] = "propagated" /\ loc'[u].context = c,
           \A c \in Timestamps : Claims(t, c)' =>
              /\ c \in active_contexts' \ (scheduled' \cup completed_input_timestamps')
              /\ \A u \in Threads \ {t} : ~Claims(u, c),
           \A u \in Threads \ {t}, c \in Timestamps : Claims(u, c) =>
              c \in active_contexts' \ (scheduled' \cup completed_input_timestamps'),
           Running(t)' /\ pc'[t] = "post" => loc'[t].timestamp = loc'[t].context,
           \A u \in Threads : PropagatesFirst(u)'
    PROVE  ContextsInv'
  <1>1. ActiveInv
    BY DEF NodeInv, ContextsInv
  <1>2. \A u \in Threads \ {t} : /\ \A c \in Timestamps : Claims(u, c)' <=> Claims(u, c)
                                 /\ Running(u)' <=> Running(u)
                                 /\ pc'[u] = pc[u] /\ loc'[u] = loc[u]
    BY OthersClaim
  <1>3. \A u \in Threads : Running(u)' /\ pc'[u] = "post" => loc'[u].timestamp = loc'[u].context
    BY <1>1, <1>2 DEF ActiveInv
  <1>4. \A u \in Threads, c \in Timestamps :
           Claims(u, c)' => c \in active_contexts' \ (scheduled' \cup completed_input_timestamps')
    BY <1>2
  <1>5. ASSUME NEW u \in Threads, NEW v \in Threads, NEW c \in Timestamps, Claims(u, c)', Claims(v, c)'
        PROVE  u = v
    <2>1. CASE u = t \/ v = t
      BY <1>2, <1>5, <2>1
    <2>2. CASE u # t /\ v # t
      BY <1>1, <1>2, <1>5, <2>2 DEF ActiveInv
    <2> QED
      BY <2>1, <2>2
  <1>6. ActiveInv'
    BY <1>3, <1>4, <1>5 DEF ActiveInv
  <1> QED
    BY <1>6 DEF ContextsInv

\* No other thread is in the propagation loop.
LEMMA PropagatesAlone ==
    ASSUME NodeInv, NEW t \in Threads, Moves(t), pc[t] \in PropLabels, NEW u \in Threads \ {t}
    PROVE  PropagatesFirst(u)' /\ pc[u] \notin PropLabels
  <1>1. pc[u] \notin PropLabels
    BY DEF NodeInv, PlacesInv, LoopsExclusive, InPropagation, PropLabels, PacketLabels, BoundLabels
  <1>2. pc'[u] = pc[u]
    BY DEF Moves
  <1> QED
    BY <1>1, <1>2 DEF PropagatesFirst, PropLabels, PacketLabels

-----------------------------------------------------------------------------

\* A new context is younger than the others.
LEMMA ContextIsNew ==
    ASSUME NodeInv, NEW t \in Threads, pc[t] = "scan", loc[t].i \notin Streams,
           ReadyForProcess(loc[t].min_packet, loc[t].min_bound), Parallel,
           NEW time, time = InputTimestamp(loc[t].min_packet, loc[t].min_bound)
    PROVE  /\ \A c \in active_contexts \cup completed_input_timestamps : c < time
           /\ time \notin active_contexts \cup completed_input_timestamps \cup scheduled
           /\ IsAllowedInStream(time) /\ time # Done /\ time \in Timestamps
  <1>1. /\ time \in Timestamps /\ time \in Int
        /\ ~Over /\ IsAllowedInStream(time) /\ last_processed_ts < time
    BY ReadyTimestamp
  <1>2. /\ active_contexts \subseteq Timestamps /\ completed_input_timestamps \subseteq Timestamps
        /\ last_processed_ts \in Timestamps
    BY NodeTypes
  <1>3. \A c \in Timestamps : c \in Int
    BY SpecialTimestamps
  <1>4. ActiveInv
    BY DEF NodeInv, ContextsInv
  <1>5. \A c \in active_contexts \cup completed_input_timestamps : c <= last_processed_ts /\ c \in Int
    BY <1>1, <1>2, <1>3, <1>4 DEF ActiveInv
  <1>6. \A c \in active_contexts \cup completed_input_timestamps : c < time
    <2>1. last_processed_ts \in Int /\ time \in Int /\ last_processed_ts < time
      BY <1>1, <1>2, <1>3
    <2> SUFFICES ASSUME NEW c \in active_contexts \cup completed_input_timestamps PROVE c < time
      OBVIOUS
    <2>2. c \in Int /\ c <= last_processed_ts
      BY <1>5
    <2> QED
      BY <2>1, <2>2
  <1>7. time # Done
    BY <1>1, SpecialTimestamps DEF IsAllowedInStream
  <1>8. time \notin active_contexts \cup completed_input_timestamps
    BY <1>1, <1>6
  <1> QED
    BY <1>1, <1>4, <1>6, <1>7, <1>8 DEF ActiveInv

\* Preparing a context adds an active one that is younger than all others.
LEMMA PrepareContextContexts ==
    ASSUME NodeInv, NEW t \in Threads, UNCHANGED configVars,
           UNCHANGED <<schedVars, propVars>>,
           pc[t] = "scan", loc[t].i \notin Streams, PrepareContext(t)
    PROVE  ContextsInv'
  <1>0. PICK time : time = InputTimestamp(loc[t].min_packet, loc[t].min_bound)
    OBVIOUS
  <1>1. Moves(t) /\ pc'[t] = "fill" /\ loc'[t].timestamp = time
    BY <1>0, PrepareContextEffect
  <1>2. /\ Parallel' = Parallel /\ scheduled' = scheduled
        /\ completed_input_timestamps' = completed_input_timestamps
    BY DEF configVars, schedVars, propVars, Parallel
  <1>3. CASE ~Parallel
    <2>1. active_contexts' = active_contexts
      BY <1>3 DEF PrepareContext
    <2>2. DefaultOnly
      BY <1>3 DEF NodeInv, ContextsInv
    <2>3. ~Running(t)'
      BY <1>1 DEF Running
    <2> QED
      BY <1>1, <1>2, <1>3, <2>1, <2>2, <2>3, DefaultKept DEF DefaultOnly
  <1>4. CASE Parallel
    <2>1. active_contexts' = active_contexts \cup {time} /\ last_processed_ts' = time
      BY <1>0, <1>4 DEF PrepareContext
    <2>2. /\ \A c \in active_contexts \cup completed_input_timestamps : c < time
          /\ time \notin active_contexts \cup completed_input_timestamps \cup scheduled
          /\ IsAllowedInStream(time) /\ time # Done /\ time \in Timestamps
      BY <1>0, <1>4, ContextIsNew DEF PrepareContext
    <2>3. /\ active_contexts \subseteq Timestamps /\ completed_input_timestamps \subseteq Timestamps
          /\ scheduled \subseteq Timestamps /\ time \in Int
          /\ \A c \in Timestamps : c \in Int
      BY <2>2, NodeTypes, SpecialTimestamps
    <2>4. ActiveInv
      BY <1>4 DEF NodeInv, ContextsInv
    <2>5. \A c \in active_contexts' \cup completed_input_timestamps' : c <= last_processed_ts'
      BY <1>2, <2>1, <2>2, <2>3
    <2>6. \A c \in completed_input_timestamps' :
             c \in active_contexts' \/ \E u \in Threads : pc'[u] = "propagated" /\ loc'[u].context = c
      <3>1. \A u \in Threads : pc[u] = "propagated" => pc'[u] = pc[u] /\ loc'[u] = loc[u]
        BY <1>1 DEF Moves
      <3> QED
        BY <1>2, <2>1, <2>4, <3>1 DEF ActiveInv
    <2>7. \A u \in Threads, c \in Timestamps :
             Claims(u, c) => c \in active_contexts \ (scheduled \cup completed_input_timestamps)
      BY <2>4 DEF ActiveInv
    <2>8. \A c \in Timestamps : Claims(t, c)' => c = time
      BY <1>1 DEF Claims
    <2>9. ASSUME NEW u \in Threads PROVE PropagatesFirst(u)'
      <3>1. CASE u = t
        BY <1>1, <3>1 DEF PropagatesFirst
      <3>2. CASE u # t
        <4>1. pc'[u] = pc[u] /\ loc'[u] = loc[u] /\ PropagatesFirst(u)
          BY <1>1, <2>4, <3>2 DEF Moves, ActiveInv
        <4>2. CASE pc[u] \in {"propagate", "recycle"}
          <5>1. loc[u].context \in active_contexts \cap completed_input_timestamps
                /\ \A c \in active_contexts : loc[u].context <= c
            BY <4>1, <4>2 DEF PropagatesFirst
          <5>2. loc[u].context <= time
            <6>1. loc[u].context < time /\ loc[u].context \in Int
              BY <2>2, <2>3, <5>1
            <6> QED
              BY <2>3, <6>1
          <5> QED
            BY <1>2, <2>1, <4>1, <4>2, <5>1, <5>2 DEF PropagatesFirst
        <4>3. CASE pc[u] = "propagated"
          <5>1. loc[u].context \in completed_input_timestamps \ active_contexts
                /\ \A c \in active_contexts : loc[u].context < c
            BY <4>1, <4>3 DEF PropagatesFirst
          <5>2. loc[u].context < time /\ loc[u].context # time
            BY <2>2, <2>3, <5>1
          <5> QED
            BY <1>2, <2>1, <4>1, <4>3, <5>1, <5>2 DEF PropagatesFirst
        <4>4. CASE pc[u] \notin {"propagate", "recycle", "propagated"}
          BY <4>1, <4>4 DEF PropagatesFirst
        <4> QED
          BY <4>2, <4>3, <4>4
      <3> QED
        BY <3>1, <3>2
    <2>10. ~Running(t)'
      BY <1>1 DEF Running
    <2>11. /\ \A c \in active_contexts' \cup completed_input_timestamps' : IsAllowedInStream(c)
           /\ scheduled' \ {Done} \subseteq active_contexts'
           /\ completed_input_timestamps' \cap scheduled' = {}
           /\ active_contexts' \subseteq Timestamps /\ scheduled' \subseteq Timestamps
           /\ completed_input_timestamps' \subseteq Timestamps
      BY <1>2, <2>1, <2>2, <2>3, <2>4 DEF ActiveInv
    <2>12. \A c \in Timestamps : Claims(t, c)' =>
              /\ c \in active_contexts' \ (scheduled' \cup completed_input_timestamps')
              /\ \A u \in Threads \ {t} : ~Claims(u, c)
      BY <1>2, <2>1, <2>2, <2>7, <2>8
    <2>13. \A u \in Threads \ {t}, c \in Timestamps : Claims(u, c) =>
              c \in active_contexts' \ (scheduled' \cup completed_input_timestamps')
      BY <1>2, <2>1, <2>7
    <2> QED
      BY <1>1, <1>2, <1>4, <2>5, <2>6, <2>9, <2>10, <2>11, <2>12, <2>13, ContextsOf
  <1> QED
    BY <1>3, <1>4

\* Whatever a scan leads to keeps what is known of the contexts.
LEMMA DecideContexts ==
    ASSUME NodeInv, NEW t \in Threads, UNCHANGED configVars, Decide(t), Over => Over'
    PROVE  ContextsInv'
  <1>1. UNCHANGED <<streamVars, schedVars, propVars>> /\ pc[t] = "scan" /\ loc[t].i \notin Streams
    BY DEF Decide
  <1>2. /\ Parallel' = Parallel /\ scheduled' = scheduled
        /\ completed_input_timestamps' = completed_input_timestamps
    BY <1>1 DEF configVars, schedVars, propVars, Parallel
  <1>3. CASE NotReady(t)
    <2>1. Moves(t) /\ pc'[t] = "bound"
      BY <1>3, NotReadyEffect
    <2>2. UNCHANGED <<active_contexts, last_processed_ts>>
      BY <1>3 DEF NotReady, inputVars
    <2> QED
      BY <1>1, <1>2, <2>1, <2>2, ContextsUnburdened DEF Unburdened
  <1>4. CASE PrepareContext(t)
    BY <1>1, <1>4, PrepareContextContexts
  <1>5. CASE PrepareClose(t)
    <2>1. Moves(t) /\ (pc'[t] = "recheck" \/ (pc'[t] = "schedule" /\ loc'[t].timestamp = Done))
      BY <1>5, PrepareCloseEffect
    <2>2. active_contexts' = active_contexts
      BY <1>5 DEF PrepareClose
    <2>3. Over'
      BY <1>1, <1>5, PrepareCloseInputs
    <2>4. /\ \A c \in Timestamps : ~Claims(t, c)'
          /\ ~Running(t)' /\ PropagatesFirst(t)'
      BY <2>1 DEF Claims, Running, PropagatesFirst
    <2> QED
      BY <1>1, <1>2, <2>1, <2>2, <2>3, <2>4, ContextsKept
  <1> QED
    BY <1>3, <1>4, <1>5 DEF Decide

\* So does filling an input set.
LEMMA FillContexts ==
    ASSUME NodeInv, NEW t \in Threads, UNCHANGED configVars, FillStream(t), Over => Over'
    PROVE  ContextsInv'
  <1>1. /\ pc[t] = "fill" /\ Parallel' = Parallel
        /\ UNCHANGED <<active_contexts, scheduled, completed_input_timestamps, last_processed_ts>>
    BY DEF FillStream, schedVars, inputVars, contextVars, propVars, configVars, Parallel
  <1>2. Moves(t) /\ FilledMove(t) /\ PlacesInv /\ loc[t].left \in Int
    BY FillEffect, NodeTypes
  <1>3. CASE pc'[t] \in {"fill", "schedule"} /\ loc'[t].timestamp = loc[t].timestamp
    <2>1. /\ \A c \in Timestamps : Claims(t, c)' => Claims(t, c)
          /\ ~Running(t)' /\ PropagatesFirst(t)'
      BY <1>1, <1>3 DEF Claims, Running, PropagatesFirst
    <2> QED
      BY <1>1, <1>2, <2>1, ContextsKept
  <1>4. CASE NextInvocation(t, loc[t].left)
    <2>1. Unburdened(pc'[t])
      BY <1>2, <1>4, NextInvocationEffect DEF Unburdened
    <2> QED
      BY <1>1, <1>2, <2>1, ContextsUnburdened
  <1> QED
    BY <1>2, <1>3, <1>4 DEF FilledMove, OtherFields

\* So does sending the packets of a context.
LEMMA PropagateContexts ==
    ASSUME NodeInv, NEW t \in Threads, UNCHANGED configVars, PropagatePackets(t), Over => Over'
    PROVE  ContextsInv'
  <1>1. /\ pc[t] = "propagate" /\ Parallel' = Parallel
        /\ UNCHANGED <<active_contexts, scheduled, completed_input_timestamps, last_processed_ts>>
    BY DEF PropagatePackets, schedVars, inputVars, propVars, configVars, Parallel
  <1>2. Moves(t) /\ loc' = loc /\ pc'[t] = "recycle"
    BY <1>1, GoesEffect DEF OnlyGoes, Leads
  <1>3. Parallel => PropagatesFirst(t)'
    BY <1>1, <1>2 DEF NodeInv, ContextsInv, ActiveInv, PropagatesFirst
  <1>4. /\ \A c \in Timestamps : ~Claims(t, c)'
        /\ ~Running(t)'
    BY <1>2 DEF Claims, Running
  <1> QED
    BY <1>1, <1>2, <1>3, <1>4, ContextsKept

\* So does a turn of a task.
LEMMA ProcessContexts ==
    ASSUME NodeInv, NEW w \in Workers, UNCHANGED configVars, Process(w), Over => Over'
    PROVE  ContextsInv'
  <1>0. w \in Threads
    BY NodeTypes
  <1>1. /\ pc[w] = "process" /\ Parallel' = Parallel
        /\ UNCHANGED <<active_contexts, scheduled, completed_input_timestamps, last_processed_ts>>
    BY DEF Process, schedVars, inputVars, propVars, configVars, Parallel
  <1>2. CASE TurnTimestamp(w) = Done
    <2>1. Moves(w) /\ pc'[w] = "close"
      BY <1>2, ProcessEffect
    <2> QED
      BY <1>0, <1>1, <2>1, ContextsUnburdened DEF Unburdened
  <1>3. CASE TurnTimestamp(w) # Done
    <2>1. /\ Moves(w) /\ pc'[w] = "post" /\ loc'[w].timestamp = TurnTimestamp(w)
          /\ loc'[w].context = loc[w].context
      BY <1>3, ProcessEffect DEF OtherFields
    <2>2. /\ \A c \in Timestamps : Claims(w, c)' => Claims(w, c)
          /\ Running(w)' => Running(w)
          /\ PropagatesFirst(w)'
      BY <1>1, <2>1 DEF Claims, Running, PropagatesFirst
    <2>3. Running(w)' => loc'[w].timestamp = loc'[w].context
      BY <2>1 DEF Running, TurnTimestamp
    <2> QED
      BY <1>0, <1>1, <2>1, <2>2, <2>3, ContextsKept
  <1> QED
    BY <1>2, <1>3

\* So does the end of a turn of a node with one invocation at a time.
LEMMA TurnContexts ==
    ASSUME NodeInv, NEW w \in Workers, UNCHANGED configVars, PostProcess(w), ~Parallel
    PROVE  ContextsInv'
  <1>0. w \in Threads
    BY NodeTypes
  <1>1. /\ pc[w] = "post" /\ Parallel' = Parallel /\ TakesTurn(w)
        /\ UNCHANGED <<active_contexts, scheduled, completed_input_timestamps>>
    BY DEF PostProcess, TakesTurn, schedVars, propVars, configVars, Parallel
  <1>2. Moves(w) /\ loc'[w].context = loc[w].context
    BY <1>1, TurnEffect DEF OtherFields
  <1>3. Running(w)' => Running(w)
    BY <1>1, <1>2 DEF Running
  <1>4. scheduled \subseteq {Done}
    BY DEF NodeInv, ContextsInv, DefaultOnly
  <1> QED
    BY <1>0, <1>1, <1>2, <1>3, <1>4, DefaultKept

\* What the invariant says of the contexts of a parallel node.
LEMMA ActiveFacts ==
    ASSUME NodeInv, Parallel
    PROVE  /\ ActiveInv
           /\ active_contexts \subseteq Timestamps /\ scheduled \subseteq Timestamps
           /\ completed_input_timestamps \subseteq Timestamps
           /\ Done \in Timestamps
           /\ Done \notin active_contexts \cup completed_input_timestamps
           /\ \A c \in active_contexts \cup completed_input_timestamps : IsAllowedInStream(c)
  <1>1. ActiveInv /\ Done \in Timestamps
    BY NoLocalsType DEF NodeInv, ContextsInv
  <1>2. ~IsAllowedInStream(Done)
    BY SpecialTimestamps DEF IsAllowedInStream
  <1> QED
    BY <1>1, <1>2, NodeTypes DEF ActiveInv

\* A scheduled context passes from the thread that prepared it to the queue.
LEMMA ScheduleContexts ==
    ASSUME NodeInv, NEW t \in Threads, UNCHANGED configVars, Schedule(t), Over => Over'
    PROVE  ContextsInv'
  <1>1. /\ pc[t] = "schedule" /\ Parallel' = Parallel
        /\ UNCHANGED <<active_contexts, completed_input_timestamps, last_processed_ts>>
    BY DEF Schedule, contextVars, propVars, configVars, Parallel
  <1>2. Moves(t) /\ pc'[t] \in {"scan", "recheck"}
    BY ScheduleEffect
  <1>3. /\ \A c \in Timestamps : ~Claims(t, c)'
        /\ ~Running(t)' /\ PropagatesFirst(t)'
    BY <1>2 DEF Claims, Running, PropagatesFirst
  <1>4. CASE ~Parallel
    <2>1. scheduled' = scheduled \cup {Done}
      BY <1>4 DEF Schedule, Default
    <2>2. scheduled \subseteq {Done}
      BY <1>4 DEF NodeInv, ContextsInv, DefaultOnly
    <2> QED
      BY <1>1, <1>2, <1>3, <1>4, <2>1, <2>2, DefaultKept
  <1>5. CASE Parallel
    <2>1. PICK time \in Timestamps : time = loc[t].timestamp
      BY NodeTypes
    <2>2. scheduled' = scheduled \cup {time}
      BY <1>5, <2>1 DEF Schedule
    <2>3. /\ ActiveInv
          /\ active_contexts \subseteq Timestamps /\ scheduled \subseteq Timestamps
          /\ completed_input_timestamps \subseteq Timestamps
          /\ Done \notin completed_input_timestamps
          /\ \A c \in active_contexts \cup completed_input_timestamps : IsAllowedInStream(c)
      BY <1>5, ActiveFacts
    <2>4. time = Done \/ Claims(t, time)
      BY <1>1, <2>1 DEF Claims
    <2>5. time = Done \/ time \in active_contexts \ (scheduled \cup completed_input_timestamps)
      BY <2>3, <2>4 DEF ActiveInv
    <2>6. \A u \in Threads \ {t}, c \in Timestamps : Claims(u, c) =>
             c \in active_contexts' \ (scheduled' \cup completed_input_timestamps')
      <3> SUFFICES ASSUME NEW u \in Threads \ {t}, NEW c \in Timestamps, Claims(u, c)
                   PROVE  c \in active_contexts' \ (scheduled' \cup completed_input_timestamps')
        OBVIOUS
      <3>1. c \in active_contexts \ (scheduled \cup completed_input_timestamps)
        BY <2>3 DEF ActiveInv
      <3>2. c # time
        <4>1. c # Done
          BY DEF Claims
        <4> QED
          BY <2>3, <2>4, <4>1 DEF ActiveInv
      <3> QED
        BY <1>1, <2>2, <3>1, <3>2
    <2>7. \A c \in completed_input_timestamps' :
             c \in active_contexts' \/ \E u \in Threads : pc'[u] = "propagated" /\ loc'[u].context = c
      <3>1. \A u \in Threads : pc[u] = "propagated" => pc'[u] = pc[u] /\ loc'[u] = loc[u]
        BY <1>1, <1>2 DEF Moves
      <3> QED
        BY <1>1, <2>3, <3>1 DEF ActiveInv
    <2>8. \A u \in Threads : PropagatesFirst(u)'
      <3>1. \A u \in Threads \ {t} : pc'[u] = pc[u] /\ loc'[u] = loc[u] /\ PropagatesFirst(u)
        BY <1>2, <2>3 DEF Moves, ActiveInv
      <3> QED
        BY <1>1, <1>3, <3>1 DEF PropagatesFirst
    <2>9. Over' \/ \A c \in active_contexts' \cup completed_input_timestamps' : c <= last_processed_ts'
      BY <1>1, <2>3 DEF ActiveInv
    <2>10. /\ scheduled' \ {Done} \subseteq active_contexts'
           /\ completed_input_timestamps' \cap scheduled' = {}
      BY <1>1, <2>2, <2>3, <2>5 DEF ActiveInv
    <2>11. /\ active_contexts' \subseteq Timestamps /\ scheduled' \subseteq Timestamps
           /\ completed_input_timestamps' \subseteq Timestamps
           /\ \A c \in active_contexts' \cup completed_input_timestamps' : IsAllowedInStream(c)
      BY <1>1, <2>1, <2>2, <2>3
    <2> QED
      BY <1>1, <1>2, <1>3, <1>5, <2>6, <2>7, <2>8, <2>9, <2>10, <2>11, ContextsOf
  <1> QED
    BY <1>4, <1>5

\* A context passes from the queue to the worker that runs it.
LEMMA RunContexts ==
    ASSUME NodeInv, NEW w \in Workers, UNCHANGED configVars, RunTask(w), Over => Over'
    PROVE  ContextsInv'
  <1>0. w \in Threads
    BY NodeTypes
  <1>1. /\ Parallel' = Parallel
        /\ UNCHANGED <<active_contexts, completed_input_timestamps, last_processed_ts>>
    BY DEF RunTask, inputVars, contextVars, propVars, configVars, Parallel
  <1>2. PICK d \in scheduled :
           /\ scheduled' = scheduled \ {d}
           /\ Moves(w) /\ pc[w] = "free" /\ pc'[w] = "process" /\ loc'[w].context = d
    BY RunTaskEffect
  <1>3. CASE ~Parallel
    <2>1. scheduled \subseteq {Done}
      BY <1>3 DEF NodeInv, ContextsInv, DefaultOnly
    <2>2. ~Running(w)' /\ scheduled' \subseteq {Done}
      BY <1>2, <2>1 DEF Running
    <2> QED
      BY <1>0, <1>1, <1>2, <1>3, <2>2, DefaultKept
  <1>4. CASE Parallel
    <2>1. /\ ActiveInv
          /\ active_contexts \subseteq Timestamps /\ scheduled \subseteq Timestamps
          /\ completed_input_timestamps \subseteq Timestamps
          /\ \A c \in active_contexts \cup completed_input_timestamps : IsAllowedInStream(c)
      BY <1>4, ActiveFacts
    <2>2. \A u \in Threads, c \in Timestamps :
             Claims(u, c) => c \in active_contexts \ (scheduled \cup completed_input_timestamps)
      BY <2>1 DEF ActiveInv
    <2>3. \A c \in Timestamps : Claims(w, c)' => c = d /\ d # Done
      BY <1>2 DEF Claims
    <2>4. d # Done => d \in active_contexts \ (scheduled' \cup completed_input_timestamps)
      BY <1>2, <2>1 DEF ActiveInv
    <2>5. \A c \in Timestamps : Claims(w, c)' =>
             /\ c \in active_contexts' \ (scheduled' \cup completed_input_timestamps')
             /\ \A u \in Threads \ {w} : ~Claims(u, c)
      BY <1>1, <1>2, <2>2, <2>3, <2>4
    <2>6. \A u \in Threads \ {w}, c \in Timestamps : Claims(u, c) =>
             c \in active_contexts' \ (scheduled' \cup completed_input_timestamps')
      BY <1>1, <1>2, <2>2
    <2>7. \A c \in completed_input_timestamps' :
             c \in active_contexts' \/ \E u \in Threads : pc'[u] = "propagated" /\ loc'[u].context = c
      <3>1. \A u \in Threads : pc[u] = "propagated" => pc'[u] = pc[u] /\ loc'[u] = loc[u]
        BY <1>2 DEF Moves
      <3> QED
        BY <1>1, <2>1, <3>1 DEF ActiveInv
    <2>8. \A u \in Threads : PropagatesFirst(u)'
      <3>1. \A u \in Threads \ {w} : pc'[u] = pc[u] /\ loc'[u] = loc[u] /\ PropagatesFirst(u)
        BY <1>2, <2>1 DEF Moves, ActiveInv
      <3> QED
        BY <1>1, <1>2, <3>1 DEF PropagatesFirst
    <2>9. Over' \/ \A c \in active_contexts' \cup completed_input_timestamps' : c <= last_processed_ts'
      BY <1>1, <2>1 DEF ActiveInv
    <2>10. /\ scheduled' \ {Done} \subseteq active_contexts'
           /\ completed_input_timestamps' \cap scheduled' = {}
      BY <1>1, <1>2, <2>1 DEF ActiveInv
    <2>11. /\ active_contexts' \subseteq Timestamps /\ scheduled' \subseteq Timestamps
           /\ completed_input_timestamps' \subseteq Timestamps
           /\ \A c \in active_contexts' \cup completed_input_timestamps' : IsAllowedInStream(c)
      BY <1>1, <1>2, <2>1
    <2> QED
      BY <1>0, <1>1, <1>2, <1>4, <2>5, <2>6, <2>7, <2>8, <2>9, <2>10, <2>11, ContextsOf
  <1> QED
    BY <1>3, <1>4

\* The context that is recycled is the one that was propagated, and the only
\* one gone.
LEMMA RecycleContexts ==
    ASSUME NodeInv, NEW t \in Threads, UNCHANGED configVars, RecycleContext(t), Over => Over'
    PROVE  ContextsInv'
  <1>1. /\ pc[t] = "recycle" /\ Parallel' = Parallel
        /\ UNCHANGED <<scheduled, completed_input_timestamps, last_processed_ts>>
    BY DEF RecycleContext, schedVars, inputVars, propVars, configVars, Parallel
  <1>2. Moves(t) /\ loc' = loc /\ pc'[t] = "propagated"
    BY <1>1, GoesEffect DEF OnlyGoes, Leads
  <1>3. pc[t] \in PropLabels /\ Placed(t)
    BY <1>1, NodeTypes, ThreadFacts DEF PropLabels, PacketLabels
  <1>4. Parallel
    BY <1>3 DEF Placed
  <1>5. /\ ActiveInv
        /\ active_contexts \subseteq Timestamps /\ scheduled \subseteq Timestamps
        /\ completed_input_timestamps \subseteq Timestamps
        /\ \A c \in active_contexts \cup completed_input_timestamps : IsAllowedInStream(c)
    BY <1>4, ActiveFacts
  <1>6. PICK d : d = loc[t].context
    OBVIOUS
  <1>7. /\ d \in active_contexts /\ d \in completed_input_timestamps
        /\ \A c \in active_contexts : d <= c
    BY <1>1, <1>5, <1>6 DEF ActiveInv, PropagatesFirst
  <1>8. \A c \in Timestamps : c \in Int
    BY SpecialTimestamps
  <1>9. Earliest(active_contexts) = d
    <2>1. PICK e : e = Earliest(active_contexts)
      OBVIOUS
    <2>2. e \in active_contexts /\ \A c \in active_contexts : e <= c
      BY <1>5, <1>7, <2>1, EarliestOfSome
    <2>3. e <= d /\ d <= e /\ e \in Int /\ d \in Int
      BY <1>5, <1>7, <1>8, <2>2
    <2> QED
      BY <2>1, <2>3
  <1>10. active_contexts' = active_contexts \ {d}
    BY <1>9 DEF RecycleContext, RecycledContext
  <1>11. \A c \in active_contexts' : d < c
    <2> SUFFICES ASSUME NEW c \in active_contexts' PROVE d < c
      OBVIOUS
    <2>1. d <= c /\ d # c /\ c \in Int /\ d \in Int
      BY <1>5, <1>7, <1>8, <1>10
    <2> QED
      BY <2>1
  <1>12. PropagatesFirst(t)'
    BY <1>1, <1>2, <1>6, <1>7, <1>10, <1>11 DEF PropagatesFirst
  <1>13. \A u \in Threads : PropagatesFirst(u)'
    BY <1>2, <1>3, <1>12, PropagatesAlone
  <1>14. \A c \in completed_input_timestamps' :
            c \in active_contexts' \/ \E u \in Threads : pc'[u] = "propagated" /\ loc'[u].context = c
    <2>1. \A u \in Threads \ {t} : pc[u] # "propagated"
      BY <1>2, <1>3, PropagatesAlone DEF PropLabels, PacketLabels
    <2> QED
      BY <1>1, <1>2, <1>5, <1>6, <1>10, <2>1 DEF ActiveInv
  <1>15. \A u \in Threads \ {t}, c \in Timestamps : Claims(u, c) =>
            c \in active_contexts' \ (scheduled' \cup completed_input_timestamps')
    BY <1>1, <1>5, <1>7, <1>10 DEF ActiveInv
  <1>16. ~Running(t)' /\ \A c \in Timestamps : ~Claims(t, c)'
    BY <1>2 DEF Running, Claims
  <1>17. Over' \/ \A c \in active_contexts' \cup completed_input_timestamps' : c <= last_processed_ts'
    BY <1>1, <1>5, <1>10 DEF ActiveInv
  <1>18. /\ scheduled' \ {Done} \subseteq active_contexts'
         /\ completed_input_timestamps' \cap scheduled' = {}
    BY <1>1, <1>5, <1>7, <1>10 DEF ActiveInv
  <1>19. /\ active_contexts' \subseteq Timestamps /\ scheduled' \subseteq Timestamps
         /\ completed_input_timestamps' \subseteq Timestamps
         /\ \A c \in active_contexts' \cup completed_input_timestamps' : IsAllowedInStream(c)
    BY <1>1, <1>5, <1>10
  <1> QED
    BY <1>1, <1>2, <1>4, <1>13, <1>14, <1>15, <1>16, <1>17, <1>18, <1>19, ContextsOf

\* A thread that goes on propagating claims no context.
LEMMA PropagationUnclaims ==
    ASSUME NodeInv, NEW t \in Threads, Propagates(t), PropagationGoes(t)
    PROVE  ~Running(t)' /\ \A c \in Timestamps : ~Claims(t, c)'
  BY PropagationLabels DEF Running, Claims

\* The timestamp that is no longer completed is the one that was propagated.
LEMMA PacketsContexts ==
    ASSUME NodeInv, NEW t \in Threads, UNCHANGED configVars, PacketsPropagated(t), Moves(t), Over => Over'
    PROVE  ContextsInv'
  <1>1. /\ pc[t] = "propagated" /\ Parallel' = Parallel
        /\ UNCHANGED <<active_contexts, scheduled, last_processed_ts>>
        /\ completed_input_timestamps' = StillCompleted
    BY DEF PacketsPropagated, StillCompleted, schedVars, inputVars, contextVars, configVars, Parallel
  <1>2. /\ Parallel /\ loc[t].context \in completed_input_timestamps
        /\ StillCompleted \subseteq active_contexts
        /\ StillCompleted \subseteq completed_input_timestamps
    BY <1>1, EarliestIsPropagated DEF StillCompleted
  <1>3. pc[t] \in PropLabels /\ Propagates(t) /\ task_timestamp_bound \in Timestamps
    BY <1>1, WhoPropagates, NodeTypes DEF PropLabels, PacketLabels
  <1>4. \/ FinishPropagation(t)
        \/ FrontIsCompleted(StillCompleted) /\ StartPackets(t)
        \/ StartBound(t, task_timestamp_bound)
    BY DEF PacketsPropagated, StillCompleted
  <1>5. ~Running(t)' /\ \A c \in Timestamps : ~Claims(t, c)'
    BY <1>3, <1>4, PropagationUnclaims DEF PropagationGoes
  <1>6. /\ ActiveInv
        /\ active_contexts \subseteq Timestamps /\ scheduled \subseteq Timestamps
        /\ completed_input_timestamps \subseteq Timestamps
        /\ \A c \in active_contexts \cup completed_input_timestamps : IsAllowedInStream(c)
    BY <1>2, ActiveFacts
  <1>7. PropagatesFirst(t)'
    <2>1. CASE FrontIsCompleted(StillCompleted) /\ StartPackets(t)
      <3>1. active_contexts # {}
        BY <1>2, <2>1 DEF FrontIsCompleted
      <3>2. StillCompleted \subseteq Timestamps
        BY <1>2, <1>6
      <3>3. FrontIsCompleted(completed_input_timestamps')
        BY <1>1, <2>1 DEF FrontIsCompleted
      <3> QED
        BY <1>1, <2>1, <3>1, <3>2, <3>3, FrontIsFirst
    <2>2. CASE FinishPropagation(t)
      <3>1. pc'[t] = loc[t].caller /\ loc[t].caller \in {"recheck", "end"}
        BY <1>3, <2>2, FinishEffect DEF Propagates
      <3> QED
        BY <3>1 DEF PropagatesFirst
    <2>3. CASE StartBound(t, task_timestamp_bound)
      <3>1. pc'[t] = "try_bound"
        BY <1>3, <2>3, StartBoundEffect
      <3> QED
        BY <3>1 DEF PropagatesFirst
    <2> QED
      BY <1>4, <2>1, <2>2, <2>3
  <1>8. \A u \in Threads : PropagatesFirst(u)'
    BY <1>3, <1>7, PropagatesAlone
  <1>9. \A u \in Threads \ {t}, c \in Timestamps : Claims(u, c) =>
           c \in active_contexts' \ (scheduled' \cup completed_input_timestamps')
    BY <1>1, <1>2, <1>6 DEF ActiveInv
  <1>10. Over' \/ \A c \in active_contexts' \cup completed_input_timestamps' : c <= last_processed_ts'
    BY <1>1, <1>2, <1>6 DEF ActiveInv
  <1>11. /\ scheduled' \ {Done} \subseteq active_contexts'
         /\ completed_input_timestamps' \cap scheduled' = {}
         /\ completed_input_timestamps' \subseteq active_contexts'
    BY <1>1, <1>2, <1>6 DEF ActiveInv
  <1>12. /\ active_contexts' \subseteq Timestamps /\ scheduled' \subseteq Timestamps
         /\ completed_input_timestamps' \subseteq Timestamps
         /\ \A c \in active_contexts' \cup completed_input_timestamps' : IsAllowedInStream(c)
    BY <1>1, <1>2, <1>6
  <1> QED
    BY <1>1, <1>2, <1>5, <1>8, <1>9, <1>10, <1>11, <1>12, ContextsOf

\* A parallel invocation that is done runs an active context.
LEMMA PostFacts ==
    ASSUME NodeInv, NEW w \in Workers, pc[w] = "post", Parallel
    PROVE  /\ w \in Threads /\ Propagates(w)
           /\ loc[w].timestamp = loc[w].context
           /\ Claims(w, loc[w].context) /\ loc[w].context \in Timestamps
           /\ loc[w].context \in active_contexts \ (scheduled \cup completed_input_timestamps)
  <1>1. w \in Threads /\ loc[w].context \in Timestamps /\ PlacesInv
    BY NodeTypes
  <1>2. loc[w].context # Done
    BY DEF NodeInv, BatchInv, RunsBatch
  <1>3. Running(w) /\ Claims(w, loc[w].context)
    BY <1>2 DEF Running, Claims
  <1> QED
    BY <1>1, <1>3, ActiveFacts, WhoPropagates DEF ActiveInv

\* A finished parallel invocation passes its context to the completed ones.
LEMMA PostContexts ==
    ASSUME NodeInv, NEW w \in Workers, UNCHANGED configVars, PostProcess(w), Parallel, Moves(w),
           Over => Over'
    PROVE  ContextsInv'
  <1>1. /\ pc[w] = "post" /\ Parallel' = Parallel
        /\ UNCHANGED <<active_contexts, scheduled, last_processed_ts>>
    BY DEF PostProcess, schedVars, inputVars, configVars, Parallel
  <1>2. PICK d : d = loc[w].context
    OBVIOUS
  <1>3. /\ w \in Threads /\ Propagates(w) /\ loc[w].timestamp = d /\ Claims(w, d) /\ d \in Timestamps
        /\ d \in active_contexts \ (scheduled \cup completed_input_timestamps)
        /\ task_timestamp_bound \in Timestamps
    BY <1>1, <1>2, PostFacts, NodeTypes
  <1>4. /\ completed_input_timestamps' = completed_input_timestamps \cup {d}
        /\ JoinPropagation(w, completed_input_timestamps \cup {d}, task_timestamp_bound)
    BY <1>3 DEF PostProcess
  <1>5. \/ FinishPropagation(w)
        \/ active_contexts # {} /\ FrontIsCompleted(completed_input_timestamps') /\ StartPackets(w)
        \/ StartBound(w, task_timestamp_bound)
        \/ LeavesPropagation(w)
    BY <1>4 DEF JoinPropagation, LeavesPropagation
  <1>6. ~Running(w)' /\ \A c \in Timestamps : ~Claims(w, c)'
    BY <1>3, <1>5, PropagationUnclaims DEF PropagationGoes, LeavesPropagation
  <1>7. /\ ActiveInv
        /\ active_contexts \subseteq Timestamps /\ scheduled \subseteq Timestamps
        /\ completed_input_timestamps \subseteq Timestamps
        /\ \A c \in active_contexts \cup completed_input_timestamps : IsAllowedInStream(c)
    BY ActiveFacts
  <1>8. PropagatesFirst(w)'
    <2>1. CASE active_contexts # {} /\ FrontIsCompleted(completed_input_timestamps') /\ StartPackets(w)
      <3>1. completed_input_timestamps' \subseteq Timestamps
        BY <1>3, <1>4, <1>7
      <3> QED
        BY <1>1, <1>3, <2>1, <3>1, FrontIsFirst
    <2>2. CASE FinishPropagation(w) \/ LeavesPropagation(w)
      <3>1. pc'[w] = loc[w].caller /\ loc[w].caller \in {"recheck", "end"}
        BY <1>3, <2>2, FinishEffect, LeavesEffect DEF Propagates
      <3> QED
        BY <3>1 DEF PropagatesFirst
    <2>3. CASE StartBound(w, task_timestamp_bound)
      <3>1. pc'[w] = "try_bound"
        BY <1>3, <2>3, StartBoundEffect
      <3> QED
        BY <3>1 DEF PropagatesFirst
    <2> QED
      BY <1>5, <2>1, <2>2, <2>3
  <1>9. \A u \in Threads : PropagatesFirst(u)'
    <2>1. \A u \in Threads \ {w} : pc'[u] = pc[u] /\ loc'[u] = loc[u] /\ PropagatesFirst(u)
      BY <1>7 DEF Moves, ActiveInv
    <2>2. \A u \in Threads \ {w} : PropagatesFirst(u)'
      BY <1>1, <1>4, <2>1 DEF PropagatesFirst
    <2> QED
      BY <1>8, <2>2
  <1>10. \A u \in Threads \ {w}, c \in Timestamps : Claims(u, c) =>
            c \in active_contexts' \ (scheduled' \cup completed_input_timestamps')
    BY <1>1, <1>3, <1>4, <1>7 DEF ActiveInv
  <1>11. \A c \in completed_input_timestamps' :
            c \in active_contexts' \/ \E u \in Threads : pc'[u] = "propagated" /\ loc'[u].context = c
    <2>1. \A u \in Threads : pc[u] = "propagated" => pc'[u] = pc[u] /\ loc'[u] = loc[u]
      BY <1>1 DEF Moves
    <2> QED
      BY <1>1, <1>3, <1>4, <1>7, <2>1 DEF ActiveInv
  <1>12. Over' \/ \A c \in active_contexts' \cup completed_input_timestamps' : c <= last_processed_ts'
    BY <1>1, <1>3, <1>4, <1>7 DEF ActiveInv
  <1>13. /\ scheduled' \ {Done} \subseteq active_contexts'
         /\ completed_input_timestamps' \cap scheduled' = {}
    BY <1>1, <1>3, <1>4, <1>7 DEF ActiveInv
  <1>14. /\ active_contexts' \subseteq Timestamps /\ scheduled' \subseteq Timestamps
         /\ completed_input_timestamps' \subseteq Timestamps
         /\ \A c \in active_contexts' \cup completed_input_timestamps' : IsAllowedInStream(c)
    BY <1>1, <1>3, <1>4, <1>7
  <1> QED
    BY <1>1, <1>3, <1>6, <1>9, <1>10, <1>11, <1>12, <1>13, <1>14, ContextsOf

\* Every step keeps what is known of the contexts.
LEMMA NodeContexts ==
    ASSUME NodeInv, NEW t \in Threads, UNCHANGED configVars, StepOf(t)
    PROVE  ContextsInv'
  <1>0. Moves(t) /\ (Over => Over')
    BY NodePlaces, OverStays DEF StepOf
  <1>1. CASE Unburdens(t)
    BY <1>0, <1>1, UnburdensContexts
  <1>2. CASE Decide(t) \/ FillStream(t) \/ Schedule(t)
    BY <1>0, <1>2, DecideContexts, FillContexts, ScheduleContexts
  <1>3. CASE UpdateTaskTimestampBound(t) \/ BoundPropagated(t)
    BY <1>0, <1>3, UpdateContexts, BoundContexts
  <1>4. CASE PropagatePackets(t) \/ RecycleContext(t) \/ PacketsPropagated(t)
    BY <1>0, <1>4, PropagateContexts, RecycleContexts, PacketsContexts
  <1>5. CASE t \in Workers /\ (RunTask(t) \/ Process(t) \/ PostProcess(t))
    BY <1>0, <1>5, RunContexts, ProcessContexts, TurnContexts, PostContexts
  <1> QED
    BY <1>1, <1>2, <1>3, <1>4, <1>5, StepKinds DEF Elsewhere, Unburdens

-----------------------------------------------------------------------------
(* A pending propagation.                                                  *)

\* A propagation that was pending still has something to do, if the bound or
\* the contexts only grow.
LEMMA PendingOf ==
    ASSUME NodeInv, NEW t \in Threads, Moves(t), PlacesInv',
           task_timestamp_bound' \in Timestamps, task_timestamp_bound <= task_timestamp_bound',
           \/ active_contexts \subseteq active_contexts'
           \/ pc[t] \in PropLabels,
           propagation_state' = propagation_state \/ ~(\E u \in Threads \ {t} : pc[u] \in BoundLabels)
           \/ active_contexts # {} \/ task_timestamp_bound < task_timestamp_bound',
           pc'[t] \in BoundLabels =>
              /\ loc'[t].timestamp <= task_timestamp_bound'
              /\ propagation_state' = "PropagationPending" =>
                    active_contexts' # {} \/ loc'[t].timestamp < task_timestamp_bound'
    PROVE  PendingInv'
  <1>1. ASSUME NEW u \in Threads, pc'[u] \in BoundLabels
        PROVE  /\ loc'[u].timestamp <= task_timestamp_bound'
               /\ propagation_state' = "PropagationPending" =>
                     active_contexts' # {} \/ loc'[u].timestamp < task_timestamp_bound'
    <2>1. CASE u = t
      BY <1>1, <2>1
    <2>2. CASE u # t
      <3>1. pc'[u] = pc[u] /\ loc'[u] = loc[u] /\ pc[u] \in BoundLabels
        BY <1>1, <2>2 DEF Moves
      <3>2. /\ loc[u].timestamp \in Int /\ task_timestamp_bound \in Int
            /\ task_timestamp_bound' \in Int
        BY NodeTypes, SpecialTimestamps
      <3>3. /\ loc[u].timestamp <= task_timestamp_bound
            /\ propagation_state = "PropagationPending" =>
                  active_contexts # {} \/ loc[u].timestamp < task_timestamp_bound
        BY <3>1 DEF NodeInv, PendingInv
      <3>4. pc[t] \notin PropLabels
        BY <2>2, <3>1
           DEF NodeInv, PlacesInv, LoopsExclusive, InPropagation, PropLabels, PacketLabels, BoundLabels
      <3>5. active_contexts # {} => active_contexts' # {}
        BY <3>4
      <3> QED
        BY <2>2, <3>1, <3>2, <3>3, <3>5
    <2> QED
      BY <2>1, <2>2
  <1> QED
    BY <1>1 DEF PendingInv

\* A thread enters the propagation loop only with a change of its state.
LEMMA StaysOut ==
    ASSUME NodeInv, NEW t \in Threads, Moves(t), PlacesInv', propagation_state' = propagation_state,
           pc[t] \notin PropLabels
    PROVE  pc'[t] \notin PropLabels
  <1>1. \A u \in Threads : /\ InPropagation(u) <=> pc[u] \in PropLabels
                           /\ InPropagation(u)' <=> pc'[u] \in PropLabels
    BY DEF InPropagation, PropLabels, PacketLabels, BoundLabels
  <1>2. propagation_state # "Idle" <=> \E u \in Threads : InPropagation(u)
    BY DEF NodeInv, PlacesInv, LoopsExclusive
  <1>3. /\ \A u, v \in Threads : InPropagation(u)' /\ InPropagation(v)' => u = v
        /\ propagation_state' # "Idle" <=> \E u \in Threads : InPropagation(u)'
    BY DEF PlacesInv, LoopsExclusive
  <1>4. \A u \in Threads \ {t} : pc'[u] = pc[u]
    BY DEF Moves
  <1> QED
    BY <1>1, <1>2, <1>3, <1>4

\* The actions that have nothing to do with the propagation.
OutsidePropagation(t) ==
    /\ pc[t] \notin PropLabels /\ UNCHANGED propVars /\ active_contexts \subseteq active_contexts'

\* Actions that have nothing to do with the propagation keep what is
\* pending.
LEMMA OutsidePending ==
    ASSUME NodeInv, NEW t \in Threads, Moves(t), PlacesInv', OutsidePropagation(t)
    PROVE  PendingInv'
  <1>0. task_timestamp_bound \in Timestamps /\ task_timestamp_bound \in Int
    BY NodeTypes, SpecialTimestamps
  <1>1. /\ task_timestamp_bound' = task_timestamp_bound /\ propagation_state' = propagation_state
        /\ task_timestamp_bound \in Timestamps /\ task_timestamp_bound <= task_timestamp_bound
        /\ pc[t] \notin PropLabels /\ active_contexts \subseteq active_contexts'
    BY <1>0 DEF OutsidePropagation, propVars
  <1>2. pc'[t] \notin BoundLabels
    BY <1>1, StaysOut DEF PropLabels
  <1> QED
    BY <1>1, <1>2, PendingOf

\* The actions of the scheduling loop have nothing to do with it.
LEMMA LoopOutside ==
    ASSUME NodeInv, NEW t \in Threads,
           CheckIfBecameReady(t) \/ BeginLoop(t) \/ ScanStream(t) \/ Decide(t) \/ FillStream(t)
           \/ Schedule(t) \/ Recheck(t)
    PROVE  OutsidePropagation(t)
  <1>0. PropLabels = {"propagate", "recycle", "propagated", "try_bound", "send_bound", "bound_tried"}
    BY DEF PropLabels, PacketLabels, BoundLabels
  <1>1. CASE CheckIfBecameReady(t) \/ BeginLoop(t) \/ Recheck(t)
    BY <1>0, <1>1 DEF CheckIfBecameReady, BeginLoop, Recheck, OutsidePropagation, contextVars
  <1>2. CASE ScanStream(t)
    BY <1>0, <1>2 DEF ScanStream, OutsidePropagation, contextVars
  <1>3. CASE Decide(t)
    <2>1. active_contexts \subseteq active_contexts'
      BY <1>3 DEF Decide, NotReady, PrepareContext, PrepareClose
    <2> QED
      BY <1>0, <1>3, <2>1 DEF Decide, OutsidePropagation
  <1>4. CASE FillStream(t)
    BY <1>0, <1>4 DEF FillStream, OutsidePropagation, contextVars
  <1>5. CASE Schedule(t)
    BY <1>0, <1>5 DEF Schedule, OutsidePropagation, contextVars
  <1> QED
    BY <1>1, <1>2, <1>3, <1>4, <1>5

\* Nor have those of the upstream threads and of the tasks.
LEMMA TaskOutside ==
    ASSUME NodeInv, NEW t \in Threads,
           \/ t \in Streams /\ (Produce(t) \/ EndStream(t))
           \/ t \in Workers /\ (\/ OpenNode(t) \/ RunTask(t) \/ Process(t) \/ EndScheduling(t)
                                \/ CloseInputStream(t) \/ CloseOutputStreams(t) \/ NodeClosed(t)
                                \/ (~Parallel /\ PostProcess(t)))
    PROVE  OutsidePropagation(t)
  <1>0. PropLabels = {"propagate", "recycle", "propagated", "try_bound", "send_bound", "bound_tried"}
    BY DEF PropLabels, PacketLabels, BoundLabels
  <1>1. CASE Produce(t) \/ EndStream(t)
    BY <1>0, <1>1 DEF Produce, EndStream, OutsidePropagation, contextVars
  <1>2. CASE OpenNode(t) \/ RunTask(t) \/ EndScheduling(t) \/ NodeClosed(t)
    BY <1>0, <1>2 DEF OpenNode, RunTask, EndScheduling, NodeClosed, OutsidePropagation, contextVars
  <1>3. CASE Process(t)
    BY <1>0, <1>3 DEF Process, OutsidePropagation
  <1>4. CASE CloseInputStream(t) \/ CloseOutputStreams(t)
    BY <1>0, <1>4 DEF CloseInputStream, CloseOutputStreams, OutsidePropagation, contextVars
  <1>5. CASE ~Parallel /\ PostProcess(t)
    BY <1>0, <1>5 DEF PostProcess, OutsidePropagation
  <1> QED
    BY <1>1, <1>2, <1>3, <1>4, <1>5

\* A step of the propagation that leaves the bound alone.
LEMMA GoesPending ==
    ASSUME NodeInv, NEW t \in Threads, UNCHANGED configVars, PlacesInv',
           PropagatePackets(t) \/ RecycleContext(t) \/ TryBound(t) \/ SendBound(t)
    PROVE  PendingInv'
  <1>1. Moves(t) /\ loc' = loc /\ Leads(t, pc[t], pc'[t])
    BY GoesEffect DEF OnlyGoes
  <1>2. UNCHANGED propVars /\ pc[t] \in {"propagate", "recycle", "try_bound", "send_bound"}
    BY DEF PropagatePackets, RecycleContext, TryBound, SendBound
  <1>0. task_timestamp_bound \in Timestamps /\ task_timestamp_bound \in Int
    BY NodeTypes, SpecialTimestamps
  <1>3. /\ task_timestamp_bound' = task_timestamp_bound /\ propagation_state' = propagation_state
        /\ task_timestamp_bound \in Timestamps /\ task_timestamp_bound <= task_timestamp_bound
        /\ pc[t] \in PropLabels
    BY <1>0, <1>2 DEF propVars, PropLabels, PacketLabels, BoundLabels
  <1>4. pc'[t] \in BoundLabels => pc[t] \in BoundLabels /\ (TryBound(t) \/ SendBound(t))
    BY <1>1, <1>2 DEF Leads, BoundLabels, PropagatePackets, RecycleContext, TryBound, SendBound
  <1>5. TryBound(t) \/ SendBound(t) => active_contexts' = active_contexts
    BY DEF TryBound, SendBound, contextVars
  <1>6. pc'[t] \in BoundLabels =>
           /\ loc'[t].timestamp <= task_timestamp_bound'
           /\ propagation_state' = "PropagationPending" =>
                 active_contexts' # {} \/ loc'[t].timestamp < task_timestamp_bound'
    BY <1>1, <1>3, <1>4, <1>5 DEF NodeInv, PendingInv
  <1> QED
    BY <1>1, <1>3, <1>6, PendingOf

\* Joining the propagation, leaving it or going on with it.
LEMMA PropagationPends ==
    ASSUME NodeInv, NEW t \in Threads, Moves(t), PlacesInv', Propagates(t),
           task_timestamp_bound' \in Timestamps, task_timestamp_bound <= task_timestamp_bound',
           active_contexts' = active_contexts,
           \/ /\ propagation_state = "Idle" \/ InPropagation(t)
              /\ \/ FinishPropagation(t)
                 \/ active_contexts # {} /\ StartPackets(t)
                 \/ \E bound \in Timestamps : bound <= task_timestamp_bound' /\ StartBound(t, bound)
           \/ /\ active_contexts # {} \/ task_timestamp_bound < task_timestamp_bound'
              /\ LeavesPropagation(t)
    PROVE  PendingInv'
  <1>1. \A u \in Threads : InPropagation(u) <=> pc[u] \in PropLabels
    BY DEF InPropagation, PropLabels, PacketLabels, BoundLabels
  <1>2. propagation_state = "Idle" \/ InPropagation(t) => \A u \in Threads \ {t} : pc[u] \notin BoundLabels
    BY <1>1 DEF NodeInv, PlacesInv, LoopsExclusive, PropLabels
  <1>3. CASE FinishPropagation(t) \/ LeavesPropagation(t)
    <2>1. pc'[t] = loc[t].caller /\ loc[t].caller \in {"recheck", "end"}
      BY <1>3, FinishEffect, LeavesEffect DEF Propagates
    <2>2. pc'[t] \notin BoundLabels
      BY <2>1 DEF BoundLabels
    <2>3. \/ ~(\E u \in Threads \ {t} : pc[u] \in BoundLabels)
          \/ active_contexts # {} \/ task_timestamp_bound < task_timestamp_bound'
          \/ propagation_state' = propagation_state
      BY <1>2, <1>3, <2>1 DEF FinishPropagation
    <2> QED
      BY <2>2, <2>3, PendingOf
  <1>4. CASE (propagation_state = "Idle" \/ InPropagation(t)) /\ active_contexts # {} /\ StartPackets(t)
    <2>1. pc'[t] = "propagate"
      BY <1>4, StartPacketsEffect
    <2>2. pc'[t] \notin BoundLabels
      BY <2>1 DEF BoundLabels
    <2> QED
      BY <1>2, <1>4, <2>2, PendingOf
  <1>5. CASE (propagation_state = "Idle" \/ InPropagation(t))
             /\ \E bound \in Timestamps : bound <= task_timestamp_bound' /\ StartBound(t, bound)
    <2>1. PICK bound \in Timestamps : bound <= task_timestamp_bound' /\ StartBound(t, bound)
      BY <1>5
    <2>2. loc'[t].timestamp = bound /\ propagation_state' = "PropagatingBound"
      BY <2>1, StartBoundEffect
    <2> QED
      BY <1>2, <1>5, <2>1, <2>2, PendingOf
  <1> QED
    BY <1>3, <1>4, <1>5

\* Who joins the propagation after an update leaves it something to do.
LEMMA JoinPending ==
    ASSUME NodeInv, NEW t \in Threads, Moves(t), PlacesInv', pc[t] \in {"bound", "post"},
           NEW completed, NEW bound \in Timestamps, JoinPropagation(t, completed, bound),
           task_timestamp_bound' = bound, task_timestamp_bound <= bound,
           active_contexts # {} \/ task_timestamp_bound < bound,
           active_contexts' = active_contexts
    PROVE  PendingInv'
  <1>1. Propagates(t) /\ bound \in Int
    BY WhoPropagates, NodeTypes, SpecialTimestamps
  <1>2. CASE propagation_state = "Idle"
    <2>1. \/ FinishPropagation(t)
          \/ active_contexts # {} /\ StartPackets(t)
          \/ bound <= task_timestamp_bound' /\ StartBound(t, bound)
      BY <1>1, <1>2 DEF JoinPropagation
    <2>2. \/ FinishPropagation(t)
          \/ active_contexts # {} /\ StartPackets(t)
          \/ \E b \in Timestamps : b <= task_timestamp_bound' /\ StartBound(t, b)
      BY <2>1
    <2> QED
      BY <1>1, <1>2, <2>2, PropagationPends
  <1>3. CASE propagation_state # "Idle"
    <2>1. LeavesPropagation(t)
      BY <1>3 DEF JoinPropagation, LeavesPropagation
    <2> QED
      BY <1>1, <2>1, PropagationPends
  <1> QED
    BY <1>2, <1>3

\* Announcing a bound leaves the propagation something to do.
LEMMA UpdatePending ==
    ASSUME NodeInv, NEW t \in Threads, UNCHANGED configVars, UpdateTaskTimestampBound(t),
           Moves(t), PlacesInv'
    PROVE  PendingInv'
  <1>1. pc[t] = "bound" /\ active_contexts' = active_contexts
    BY DEF UpdateTaskTimestampBound, contextVars
  <1>2. PICK bound : bound = loc[t].timestamp
    OBVIOUS
  <1>3. CASE Parallel /\ task_timestamp_bound # bound
    <2>1. /\ JoinPropagation(t, completed_input_timestamps, bound)
          /\ task_timestamp_bound' = bound
      BY <1>2, <1>3 DEF UpdateTaskTimestampBound
    <2>2. task_timestamp_bound <= bound
      BY <1>1, <1>2, <1>3 DEF NodeInv, InputsInv, KnowsInputs
    <2>3. bound \in Timestamps /\ bound \in Int /\ task_timestamp_bound \in Int
      BY <1>2, NodeTypes, SpecialTimestamps
    <2>4. task_timestamp_bound < bound
      BY <1>3, <2>2, <2>3
    <2> QED
      BY <1>1, <2>1, <2>2, <2>3, <2>4, JoinPending
  <1>4. CASE ~(Parallel /\ task_timestamp_bound # bound)
    <2>1. UNCHANGED propVars
      BY <1>2, <1>4 DEF UpdateTaskTimestampBound
    <2>2. OutsidePropagation(t)
      BY <1>1, <2>1 DEF OutsidePropagation, PropLabels, PacketLabels, BoundLabels
    <2> QED
      BY <2>2, OutsidePending
  <1> QED
    BY <1>3, <1>4

\* A finished parallel invocation leaves the propagation something to do.
LEMMA PostPending ==
    ASSUME NodeInv, NEW w \in Workers, PostProcess(w), Parallel, Moves(w), PlacesInv'
    PROVE  PendingInv'
  <1>1. /\ pc[w] = "post" /\ active_contexts' = active_contexts
        /\ task_timestamp_bound' = task_timestamp_bound
        /\ JoinPropagation(w, completed_input_timestamps \cup {loc[w].timestamp}, task_timestamp_bound)
    BY DEF PostProcess
  <1>2. w \in Threads /\ active_contexts # {}
    BY <1>1, PostFacts
  <1>3. task_timestamp_bound \in Timestamps /\ task_timestamp_bound \in Int
    BY NodeTypes, SpecialTimestamps
  <1>4. task_timestamp_bound <= task_timestamp_bound
    BY <1>3
  <1> QED
    BY <1>1, <1>2, <1>3, <1>4, JoinPending

\* Going on with the propagation takes up what is pending.
LEMMA GoesOnPending ==
    ASSUME NodeInv, NEW t \in Threads, PacketsPropagated(t) \/ BoundPropagated(t),
           Moves(t), PlacesInv'
    PROVE  PendingInv'
  <1>1. /\ pc[t] \in {"propagated", "bound_tried"} /\ active_contexts' = active_contexts
        /\ task_timestamp_bound' = task_timestamp_bound
    BY DEF PacketsPropagated, BoundPropagated, contextVars
  <1>2. pc[t] \in PropLabels
    BY <1>1 DEF PropLabels, PacketLabels, BoundLabels
  <1>3. Propagates(t) /\ InPropagation(t)
    BY <1>2, WhoPropagates, NodeTypes DEF Propagates
  <1>4. task_timestamp_bound \in Timestamps /\ task_timestamp_bound \in Int
    BY NodeTypes, SpecialTimestamps
  <1>5. \/ FinishPropagation(t)
        \/ active_contexts # {} /\ StartPackets(t)
        \/ StartBound(t, task_timestamp_bound)
    <2>1. CASE PacketsPropagated(t)
      <3>1. StillCompleted \subseteq active_contexts
        BY <2>1, EarliestIsPropagated DEF PacketsPropagated
      <3> QED
        BY <2>1, <3>1 DEF PacketsPropagated, StillCompleted, FrontIsCompleted
    <2>2. CASE BoundPropagated(t)
      BY <2>2 DEF BoundPropagated
    <2> QED
      BY <2>1, <2>2
  <1>6. task_timestamp_bound <= task_timestamp_bound'
    BY <1>1, <1>4
  <1>7. \/ FinishPropagation(t)
        \/ active_contexts # {} /\ StartPackets(t)
        \/ \E b \in Timestamps : b <= task_timestamp_bound' /\ StartBound(t, b)
    BY <1>4, <1>5, <1>6
  <1> QED
    BY <1>1, <1>3, <1>4, <1>6, <1>7, PropagationPends

\* Every step leaves a pending propagation something to do.
LEMMA NodePending ==
    ASSUME NodeInv, NEW t \in Threads, UNCHANGED configVars, StepOf(t)
    PROVE  PendingInv'
  <1>0. Moves(t) /\ PlacesInv'
    BY NodePlaces DEF StepOf
  <1>1. CASE CheckIfBecameReady(t) \/ BeginLoop(t) \/ ScanStream(t) \/ Decide(t) \/ FillStream(t)
             \/ Schedule(t) \/ Recheck(t)
    BY <1>0, <1>1, LoopOutside, OutsidePending
  <1>2. CASE \/ t \in Streams /\ (Produce(t) \/ EndStream(t))
             \/ t \in Workers /\ (\/ OpenNode(t) \/ RunTask(t) \/ Process(t) \/ EndScheduling(t)
                                  \/ CloseInputStream(t) \/ CloseOutputStreams(t) \/ NodeClosed(t)
                                  \/ (~Parallel /\ PostProcess(t)))
    BY <1>0, <1>2, TaskOutside, OutsidePending
  <1>3. CASE PropagatePackets(t) \/ RecycleContext(t) \/ TryBound(t) \/ SendBound(t)
    BY <1>0, <1>3, GoesPending
  <1>4. CASE UpdateTaskTimestampBound(t)
    BY <1>0, <1>4, UpdatePending
  <1>5. CASE t \in Workers /\ Parallel /\ PostProcess(t)
    BY <1>0, <1>5, PostPending
  <1>6. CASE PacketsPropagated(t) \/ BoundPropagated(t)
    BY <1>0, <1>6, GoesOnPending
  <1> QED
    BY <1>1, <1>2, <1>3, <1>4, <1>5, <1>6, StepKinds DEF Elsewhere

-----------------------------------------------------------------------------
(* Counting the invocations.                                               *)

OutsideLabels == {"produce", "free", "notify"} \cup LoopLabels

\* Where a thread is says whether it has a task.
LEMMA WhoHasTask ==
    ASSUME PlacesInv, NEW t \in Threads
    PROVE  /\ pc[t] \in OutsideLabels => ~InTask(t)
           /\ pc[t] \in TaskLabels => InTask(t)
           /\ pc[t] \in PropLabels => (InTask(t) <=> loc[t].caller = "end")
           /\ pc[t] \in TaskLabels \ {"end"} => loc[t].caller = "end"
           /\ pc[t] \in OutsideLabels \cup TaskLabels \cup PropLabels
  <1>1. CallerFits(pc[t], loc[t].caller) /\ pc[t] \in Labels
    BY ThreadFacts DEF Placed
  <1>2. InTask(t) <=> pc[t] \in TaskLabels \/ loc[t].caller = "end"
    BY DEF InTask, TaskLabels
  <1>3. pc[t] \in OutsideLabels \cup TaskLabels \cup PropLabels
    BY <1>1 DEF Labels, OutsideLabels
  <1>4. pc[t] \in OutsideLabels => ~InTask(t)
    <2>1. pc[t] \in OutsideLabels => pc[t] \notin TaskLabels /\ loc[t].caller # "end"
      BY <1>1 DEF CallerFits, OutsideLabels, LoopLabels, TaskLabels
    <2> QED
      BY <1>2, <2>1
  <1>5. pc[t] \in PropLabels => pc[t] \notin TaskLabels
    BY LabelSets
  <1>6. pc[t] \in TaskLabels \ {"end"} => loc[t].caller = "end"
    BY <1>1 DEF CallerFits, TaskLabels
  <1> QED
    BY <1>2, <1>3, <1>4, <1>5, <1>6

\* The others keep their tasks when one thread moves.
LEMMA OthersTasks ==
    ASSUME NEW t \in Threads, Moves(t), NEW u \in Threads \ {t}
    PROVE  InTask(u)' <=> InTask(u)
  BY DEF Moves, InTask

\* How the step of a thread changes the set of those who have a task.
LEMMA TasksChange ==
    ASSUME NEW t \in Threads, Moves(t)
    PROVE  /\ (InTask(t)' <=> InTask(t)) => Tasks' = Tasks
           /\ t \in Workers /\ InTask(t)' /\ ~InTask(t) => t \notin Tasks /\ Tasks' = Tasks \cup {t}
           /\ t \in Workers /\ ~InTask(t)' /\ InTask(t) => t \in Tasks /\ Tasks' = Tasks \ {t}
  <1>1. \A w \in Workers \ {t} : InTask(w)' <=> InTask(w)
    BY OthersTasks DEF Threads
  <1>2. Tasks' = {w \in Workers : InTask(w)'}
    BY DEF Tasks
  <1> QED
    BY <1>1, <1>2 DEF Tasks

\* A worker busy with the only invocation there may be: nobody schedules one.
LEMMA SequentialAlone ==
    ASSUME NodeInv, ~Parallel, NEW w \in Workers, pc[w] \in TaskLabels \ {"end"}
    PROVE  /\ status # "Closed" /\ scheduled = {} /\ Tasks = {w}
           /\ current_in_flight = 1
           /\ \A u \in Workers \ {w} : ~InTask(u)
           /\ \A t \in Threads : pc[t] \notin {"scan", "fill", "schedule"}
  <1>1. CountInv /\ PlacesInv /\ w \in Threads /\ max_in_flight \in Nat /\ ~(max_in_flight > 1)
    BY NodeTypes DEF NodeInv, ConfigInv, Parallel
  <1>2. status # "Closed"
    BY <1>1 DEF CountInv
  <1>3. w \in Tasks
    BY <1>1, WhoHasTask DEF Tasks
  <1>4. /\ IsFiniteSet(scheduled) /\ IsFiniteSet(Tasks)
        /\ current_in_flight \in Nat /\ current_in_flight <= max_in_flight
        /\ current_in_flight = Cardinality(scheduled) + Cardinality(Tasks)
    BY <1>1, <1>2 DEF CountInv
  <1>5. Cardinality(scheduled) \in Nat /\ Cardinality(Tasks) \in Nat
    BY <1>4, FS_CardinalityType
  <1>6. /\ IsFiniteSet(Tasks \ {w}) /\ Cardinality(Tasks \ {w}) = Cardinality(Tasks) - 1
        /\ Cardinality(Tasks \ {w}) \in Nat
    BY <1>3, <1>4, FS_RemoveElement, FS_CardinalityType
  <1>7. Cardinality(scheduled) = 0 /\ Cardinality(Tasks \ {w}) = 0 /\ current_in_flight = 1
    BY <1>1, <1>4, <1>5, <1>6
  <1>8. scheduled = {} /\ Tasks \ {w} = {}
    BY <1>4, <1>6, <1>7, FS_EmptySet
  <1>9. ASSUME NEW t \in Threads PROVE pc[t] \notin {"scan", "fill", "schedule"}
    <2>1. loc[t].left \in Int
      BY NodeTypes
    <2>2. pc[t] \in {"scan", "fill", "schedule"} =>
             loc[t].left > 0 /\ current_in_flight + loc[t].left <= max_in_flight
      BY <1>1 DEF CountInv
    <2> QED
      BY <1>1, <1>7, <2>1, <2>2
  <1>10. Tasks = {w} /\ \A u \in Workers \ {w} : ~InTask(u)
    BY <1>3, <1>8 DEF Tasks
  <1> QED
    BY <1>2, <1>7, <1>8, <1>9, <1>10

\* A step that neither schedules an invocation nor takes or ends one.
LEMMA CountKept ==
    ASSUME NodeInv, NEW t \in Threads, Moves(t), max_in_flight' = max_in_flight,
           InTask(t)' <=> InTask(t),
           UNCHANGED <<scheduled, current_in_flight>>,
           status' = status \/ (status = "Prepared" /\ status' = "Opened"),
           scheduling_state' = scheduling_state \/ status # "Prepared",
           pc'[t] \in {"scan", "fill", "schedule"} =>
              loc'[t].left > 0 /\ current_in_flight + loc'[t].left <= max_in_flight,
           ~Parallel /\ pc'[t] = "bound" => current_in_flight = 0,
           pc'[t] \in TaskLabels \ {"end"} => pc[t] \in TaskLabels \ {"end"}
    PROVE  CountInv'
  <1>1. CountInv
    BY DEF NodeInv
  <1>2. Tasks' = Tasks
    BY TasksChange
  <1>3. Parallel' = Parallel
    BY DEF Parallel
  <1>4. \A u \in Threads \ {t} : pc'[u] = pc[u] /\ loc'[u] = loc[u]
    BY DEF Moves
  <1>5. ASSUME NEW u \in Threads
        PROVE  /\ pc'[u] \in {"scan", "fill", "schedule"} =>
                     loc'[u].left > 0 /\ current_in_flight' + loc'[u].left <= max_in_flight'
               /\ ~Parallel' /\ pc'[u] = "bound" => current_in_flight' = 0
    <2>1. CASE u = t
      BY <1>3, <2>1
    <2>2. CASE u # t
      BY <1>1, <1>3, <1>4, <2>2 DEF CountInv
    <2> QED
      BY <2>1, <2>2
  <1>6. ~Parallel' /\ status' = "Closed" =>
           scheduled' = {} /\ \A w \in Workers : pc'[w] \notin TaskLabels \ {"end"}
    <2> SUFFICES ASSUME ~Parallel', status' = "Closed"
                 PROVE  scheduled' = {} /\ \A w \in Workers : pc'[w] \notin TaskLabels \ {"end"}
      OBVIOUS
    <2>1. scheduled = {} /\ \A w \in Workers : pc[w] \notin TaskLabels \ {"end"}
      BY <1>1, <1>3 DEF CountInv
    <2>2. \A w \in Workers : w \in Threads
      BY DEF Threads
    <2> QED
      BY <1>4, <2>1, <2>2
  <1>7. status' = "Prepared" => current_in_flight' = 0 /\ scheduling_state' = "Idle"
    BY <1>1 DEF CountInv
  <1>8. status' # "Closed" => current_in_flight' = Cardinality(scheduled') + Cardinality(Tasks')
    BY <1>1, <1>2 DEF CountInv
  <1>9. /\ IsFiniteSet(scheduled') /\ IsFiniteSet(Tasks')
        /\ current_in_flight' \in Nat /\ current_in_flight' <= max_in_flight'
    BY <1>1, <1>2 DEF CountInv
  <1> QED
    BY <1>5, <1>6, <1>7, <1>8, <1>9 DEF CountInv

\* The same after a step.
LEMMA WhoWillHaveTask ==
    ASSUME PlacesInv', NEW t \in Threads
    PROVE  /\ pc'[t] \in OutsideLabels => ~InTask(t)'
           /\ pc'[t] \in TaskLabels => InTask(t)'
  <1>1. CallerFits(pc'[t], loc'[t].caller)
    BY DEF PlacesInv, Placed
  <1>2. InTask(t)' <=> pc'[t] \in TaskLabels \/ loc'[t].caller = "end"
    BY DEF InTask, TaskLabels
  <1>3. pc'[t] \in OutsideLabels => pc'[t] \notin TaskLabels /\ loc'[t].caller # "end"
    BY <1>1 DEF CallerFits, OutsideLabels, LoopLabels, TaskLabels
  <1> QED
    BY <1>2, <1>3

\* Actions that only lead to another label keep the count.
LEMMA GoesCount ==
    ASSUME NodeInv, NEW t \in Threads, max_in_flight' = max_in_flight,
           \/ t \in Streams /\ (Produce(t) \/ EndStream(t))
           \/ t \in Workers /\ (OpenNode(t) \/ CloseOutputStreams(t))
           \/ PropagatePackets(t) \/ RecycleContext(t) \/ TryBound(t) \/ SendBound(t)
    PROVE  CountInv'
  <1>1. Moves(t) /\ loc' = loc /\ Leads(t, pc[t], pc'[t]) /\ scheduling_state' = scheduling_state
    BY GoesEffect DEF OnlyGoes
  <1>2. /\ UNCHANGED <<scheduled, current_in_flight>>
        /\ status' = status \/ (status = "Prepared" /\ status' = "Opened")
    BY DEF Produce, EndStream, OpenNode, CloseOutputStreams, PropagatePackets, RecycleContext,
           TryBound, SendBound, schedVars
  <1>3. pc[t] # "closed"
    BY DEF Produce, EndStream, OpenNode, CloseOutputStreams, PropagatePackets, RecycleContext,
           TryBound, SendBound
  <1>4. InTask(t)' <=> InTask(t)
    BY <1>1, <1>3 DEF InTask, Leads
  <1>5. /\ pc'[t] \notin {"scan", "fill", "schedule", "bound"}
        /\ pc'[t] \in TaskLabels \ {"end"} => pc[t] \in TaskLabels \ {"end"}
    BY <1>1, <1>3 DEF Leads, TaskLabels
  <1> QED
    BY <1>1, <1>2, <1>4, <1>5, CountKept

\* The steps of the scheduling loop that schedule nothing.
LEMMA LoopCount ==
    ASSUME NodeInv, NEW t \in Threads, Moves(t), PlacesInv', max_in_flight' = max_in_flight,
           pc[t] \in OutsideLabels, pc'[t] \in OutsideLabels,
           UNCHANGED <<status, scheduled, current_in_flight>>,
           scheduling_state' = scheduling_state \/ status # "Prepared",
           pc'[t] \in {"scan", "fill", "schedule"} =>
              loc'[t].left > 0 /\ current_in_flight + loc'[t].left <= max_in_flight,
           ~Parallel /\ pc'[t] = "bound" => current_in_flight = 0
    PROVE  CountInv'
  <1>1. ~InTask(t) /\ ~InTask(t)'
    BY WhoHasTask, WhoWillHaveTask, NodeTypes
  <1>2. pc'[t] \notin TaskLabels
    BY DEF OutsideLabels, LoopLabels, TaskLabels
  <1> QED
    BY <1>1, <1>2, CountKept

\* The room for another invocation.
LEMMA RoomForNext ==
    ASSUME NodeInv, NEW t \in Threads, NEW left \in Int, NextInvocation(t, left),
           current_in_flight + left <= max_in_flight
    PROVE  /\ pc'[t] \in {"scan", "recheck"}
           /\ pc'[t] = "scan" => loc'[t].left > 0 /\ current_in_flight + loc'[t].left <= max_in_flight
  <1>1. pc'[t] = IF left > 0 THEN "scan" ELSE "recheck"
    BY NextInvocationEffect, NodeTypes
  <1>2. loc'[t].left = left
    BY NextInvocationEffect, NodeTypes
  <1> QED
    BY <1>1, <1>2

\* A thread that prepares an invocation has room for it, and with one
\* invocation at a time no other is under way.
LEMMA RoomNow ==
    ASSUME NodeInv, NEW t \in Threads, pc[t] \in {"scan", "fill", "schedule"}
    PROVE  /\ loc[t].left \in Int /\ loc[t].left > 0
           /\ current_in_flight \in Int /\ max_in_flight \in Int
           /\ current_in_flight + loc[t].left <= max_in_flight
           /\ current_in_flight < max_in_flight
           /\ ~Parallel => current_in_flight = 0
           /\ InLoop(t)
  <1>1. /\ loc[t].left \in Int /\ current_in_flight \in Nat /\ max_in_flight \in Nat
        /\ loc[t].left > 0 /\ current_in_flight + loc[t].left <= max_in_flight
    BY NodeTypes DEF NodeInv, CountInv, ConfigInv
  <1>2. ~Parallel => max_in_flight <= 1
    BY <1>1 DEF Parallel
  <1>3. current_in_flight < max_in_flight /\ (~Parallel => current_in_flight = 0)
    BY <1>1, <1>2
  <1> QED
    BY <1>1, <1>3 DEF InLoop

\* Entering the loop and going on in it keep the count.
LEMMA NotifyCount ==
    ASSUME NodeInv, NEW t \in Threads, UNCHANGED configVars,
           CheckIfBecameReady(t) \/ BeginLoop(t) \/ Recheck(t), Moves(t), PlacesInv'
    PROVE  CountInv'
  <1>0. /\ PlacesInv /\ pc \in [Threads -> Labels] /\ Home(t) \in {"produce", "free"}
        /\ max_in_flight' = max_in_flight
        /\ current_in_flight \in Int /\ max_in_flight \in Int
    BY NodeTypes, ThreadFacts DEF configVars
  <1>1. UNCHANGED <<status, scheduled, current_in_flight>>
    BY DEF CheckIfBecameReady, BeginLoop, Recheck
  <1>2. CASE CheckIfBecameReady(t)
    <2>1. /\ pc[t] = "notify" /\ (Return(t) \/ Goto(t, "begin"))
          /\ scheduling_state' = scheduling_state \/ status # "Prepared"
      BY <1>2 DEF CheckIfBecameReady
    <2>2. pc'[t] \in {"produce", "free", "begin"}
      BY <1>0, <2>1, ReturnEffect DEF Goto
    <2> QED
      BY <1>0, <1>1, <2>1, <2>2, LoopCount DEF OutsideLabels, LoopLabels
  <1>3. CASE BeginLoop(t) \/ Recheck(t)
    <2>1. pc[t] \in {"begin", "recheck"} /\ (Return(t) \/ NextInvocation(t, Allowance))
      BY <1>3 DEF BeginLoop, Recheck
    <2>2. status # "Prepared"
      <3>1. InLoop(t)
        BY <2>1 DEF InLoop
      <3>2. scheduling_state # "Idle"
        BY <1>0, <3>1, ThreadFacts
      <3> QED
        BY <3>2 DEF NodeInv, CountInv
    <2>3. PICK left : left = Allowance
      OBVIOUS
    <2>4. left \in Int /\ current_in_flight + left <= max_in_flight
      BY <1>0, <2>3 DEF Allowance
    <2>5. /\ pc'[t] \in {"produce", "free", "scan", "recheck"}
          /\ pc'[t] = "scan" =>
                loc'[t].left > 0 /\ current_in_flight + loc'[t].left <= max_in_flight
      BY <1>0, <2>1, <2>3, <2>4, ReturnEffect, RoomForNext
    <2> QED
      BY <1>0, <1>1, <2>1, <2>2, <2>5, LoopCount DEF OutsideLabels, LoopLabels
  <1> QED
    BY <1>2, <1>3

\* So do the scan, its outcome and the input sets.
LEMMA ScanCount ==
    ASSUME NodeInv, NEW t \in Threads, UNCHANGED configVars,
           ScanStream(t) \/ Decide(t) \/ FillStream(t), Moves(t), PlacesInv'
    PROVE  CountInv'
  <1>0. max_in_flight' = max_in_flight
    BY DEF configVars
  <1>1. pc[t] \in {"scan", "fill"} /\ UNCHANGED <<status, scheduled, current_in_flight, scheduling_state>>
    BY DEF ScanStream, Decide, FillStream, schedVars
  <1>2. /\ loc[t].left \in Int /\ loc[t].left > 0
        /\ current_in_flight + loc[t].left <= max_in_flight
        /\ ~Parallel => current_in_flight = 0
    BY <1>1, RoomNow
  <1>3. /\ pc'[t] \in {"scan", "fill", "schedule", "recheck", "bound"}
        /\ pc'[t] \in {"scan", "fill", "schedule"} =>
              loc'[t].left > 0 /\ current_in_flight + loc'[t].left <= max_in_flight
    <2>1. CASE ScanStream(t)
      BY <1>1, <1>2, <2>1, ScanEffect DEF OtherFields
    <2>2. CASE Decide(t)
      <3>1. CASE NotReady(t)
        BY <3>1, NotReadyEffect
      <3>2. CASE PrepareContext(t)
        BY <1>2, <3>2, PrepareContextEffect DEF OtherFields
      <3>3. CASE PrepareClose(t)
        BY <1>2, <3>3, PrepareCloseEffect DEF OtherFields
      <3> QED
        BY <2>2, <3>1, <3>2, <3>3 DEF Decide
    <2>3. CASE FillStream(t)
      <3>1. CASE pc'[t] \in {"fill", "schedule"} /\ loc'[t].left = loc[t].left
        BY <1>2, <3>1
      <3>2. CASE NextInvocation(t, loc[t].left)
        BY <1>2, <3>2, RoomForNext
      <3> QED
        BY <2>3, <3>1, <3>2, FillEffect DEF FilledMove, OtherFields
    <2> QED
      BY <2>1, <2>2, <2>3
  <1> QED
    BY <1>0, <1>1, <1>2, <1>3, LoopCount DEF OutsideLabels, LoopLabels

\* A thread that propagates, or joins those who do, keeps its task.
LEMMA PropagationKeepsTask ==
    ASSUME NodeInv, NEW t \in Threads, Propagates(t),
           \/ FinishPropagation(t) \/ LeavesPropagation(t)
           \/ active_contexts # {} /\ StartPackets(t)
           \/ \E bound \in Timestamps : StartBound(t, bound)
    PROVE  /\ InTask(t)' <=> InTask(t)
           /\ pc'[t] \notin {"scan", "fill", "schedule", "bound"} \cup (TaskLabels \ {"end"})
  <1>1. PlacesInv /\ Placed(t)
    BY NodeTypes, ThreadFacts
  <1>2. loc[t].caller \in {"recheck", "end"} /\ pc[t] \in {"bound", "post"} \cup PropLabels
    BY DEF Propagates
  <1>3. InTask(t) <=> loc[t].caller = "end"
    BY <1>1, <1>2, WhoHasTask DEF Placed, CallerFits, OutsideLabels, LoopLabels, TaskLabels
  <1>4. CASE FinishPropagation(t) \/ LeavesPropagation(t)
    <2>1. pc'[t] = loc[t].caller /\ loc'[t].caller = "none"
      BY <1>4, FinishEffect, LeavesEffect, NoLocalsType
    <2>2. InTask(t)' <=> loc[t].caller = "end"
      BY <1>2, <2>1 DEF InTask
    <2> QED
      BY <1>2, <1>3, <2>1, <2>2 DEF TaskLabels
  <1>5. CASE \/ active_contexts # {} /\ StartPackets(t)
             \/ \E bound \in Timestamps : StartBound(t, bound)
    <2>1. pc'[t] \in {"propagate", "try_bound"} /\ loc'[t].caller = loc[t].caller
      BY <1>5, StartPacketsEffect, StartBoundEffect DEF OtherFields
    <2>2. InTask(t)' <=> loc[t].caller = "end"
      BY <2>1 DEF InTask
    <2> QED
      BY <1>3, <2>1, <2>2 DEF TaskLabels
  <1> QED
    BY <1>4, <1>5

\* So does a step of the propagation.
LEMMA PropagationCount ==
    ASSUME NodeInv, NEW t \in Threads, UNCHANGED configVars, UNCHANGED schedVars, Moves(t),
           Propagates(t),
           \/ FinishPropagation(t) \/ LeavesPropagation(t)
           \/ active_contexts # {} /\ StartPackets(t)
           \/ \E bound \in Timestamps : StartBound(t, bound)
    PROVE  CountInv'
  <1>1. /\ max_in_flight' = max_in_flight
        /\ UNCHANGED <<scheduled, current_in_flight, status, scheduling_state>>
    BY DEF configVars, schedVars
  <1> QED
    BY <1>1, PropagationKeepsTask, CountKept

\* So do announced bounds and finished parallel invocations.
LEMMA OutputCount ==
    ASSUME NodeInv, NEW t \in Threads, UNCHANGED configVars, Moves(t), PlacesInv',
           \/ UpdateTaskTimestampBound(t) \/ PacketsPropagated(t) \/ BoundPropagated(t)
           \/ t \in Workers /\ Parallel /\ PostProcess(t)
    PROVE  CountInv'
  <1>0. UNCHANGED schedVars
    BY DEF UpdateTaskTimestampBound, PacketsPropagated, BoundPropagated, PostProcess
  <1>t. task_timestamp_bound \in Timestamps /\ loc[t].timestamp \in Timestamps /\ PlacesInv
    BY NodeTypes
  <1>1. CASE UpdateTaskTimestampBound(t) /\ Parallel /\ task_timestamp_bound # loc[t].timestamp
    <2>1. /\ pc[t] = "bound"
          /\ JoinPropagation(t, completed_input_timestamps, loc[t].timestamp)
      BY <1>1 DEF UpdateTaskTimestampBound
    <2>2. Propagates(t)
      BY <1>t, <2>1, WhoPropagates
    <2>3. \/ FinishPropagation(t) \/ LeavesPropagation(t)
          \/ active_contexts # {} /\ StartPackets(t)
          \/ StartBound(t, loc[t].timestamp)
      BY <2>1 DEF JoinPropagation, LeavesPropagation
    <2> QED
      BY <1>0, <1>t, <2>2, <2>3, PropagationCount
  <1>2. CASE UpdateTaskTimestampBound(t) /\ ~(Parallel /\ task_timestamp_bound # loc[t].timestamp)
    <2>1. pc[t] = "bound" /\ Goto(t, "recheck") /\ pc \in [Threads -> Labels]
      BY <1>2, <1>t, ThreadFacts DEF UpdateTaskTimestampBound
    <2>2. pc'[t] = "recheck"
      BY <2>1 DEF Goto
    <2>3. /\ max_in_flight' = max_in_flight
          /\ UNCHANGED <<scheduled, current_in_flight, status, scheduling_state>>
      BY <1>0 DEF configVars, schedVars
    <2> QED
      BY <2>1, <2>2, <2>3, LoopCount DEF OutsideLabels, LoopLabels
  <1>3. CASE PacketsPropagated(t)
    <2>1. pc[t] = "propagated" /\ StillCompleted \subseteq active_contexts
      BY <1>3, EarliestIsPropagated DEF PacketsPropagated
    <2>2. Propagates(t)
      BY <1>t, <2>1, WhoPropagates DEF PropLabels, PacketLabels
    <2>3. \/ FinishPropagation(t)
          \/ active_contexts # {} /\ StartPackets(t)
          \/ StartBound(t, task_timestamp_bound)
      BY <1>3, <2>1 DEF PacketsPropagated, StillCompleted, FrontIsCompleted
    <2> QED
      BY <1>0, <1>t, <2>2, <2>3, PropagationCount
  <1>4. CASE BoundPropagated(t)
    <2>1. pc[t] = "bound_tried"
      BY <1>4 DEF BoundPropagated
    <2>2. Propagates(t)
      BY <1>t, <2>1, WhoPropagates DEF PropLabels, BoundLabels
    <2>3. \/ FinishPropagation(t)
          \/ active_contexts # {} /\ StartPackets(t)
          \/ StartBound(t, task_timestamp_bound)
      BY <1>4 DEF BoundPropagated
    <2> QED
      BY <1>0, <1>t, <2>2, <2>3, PropagationCount
  <1>5. CASE t \in Workers /\ Parallel /\ PostProcess(t)
    <2>1. pc[t] = "post"
          /\ JoinPropagation(t, completed_input_timestamps \cup {loc[t].timestamp}, task_timestamp_bound)
      BY <1>5 DEF PostProcess
    <2>2. Propagates(t)
      BY <1>t, <2>1, WhoPropagates
    <2>3. \/ FinishPropagation(t) \/ LeavesPropagation(t)
          \/ active_contexts # {} /\ StartPackets(t)
          \/ StartBound(t, task_timestamp_bound)
      BY <2>1 DEF JoinPropagation, LeavesPropagation
    <2> QED
      BY <1>0, <1>t, <2>2, <2>3, PropagationCount
  <1> QED
    BY <1>1, <1>2, <1>3, <1>4, <1>5

\* The steps of a task but for its beginning and its end.
LEMMA TaskCount ==
    ASSUME NodeInv, NEW w \in Workers, UNCHANGED configVars, Moves(w), PlacesInv',
           Process(w) \/ CloseInputStream(w) \/ (~Parallel /\ PostProcess(w))
    PROVE  CountInv'
  <1>1. /\ max_in_flight' = max_in_flight /\ w \in Threads /\ PlacesInv
        /\ UNCHANGED <<scheduled, current_in_flight, status, scheduling_state>>
    BY NodeTypes DEF configVars, schedVars, Process, CloseInputStream, PostProcess
  <1>2. /\ pc[w] \in TaskLabels \ {"end"} /\ pc'[w] \in TaskLabels
    <2>1. CASE Process(w)
      BY <2>1, ProcessEffect DEF TaskLabels
    <2>2. CASE CloseInputStream(w)
      BY <2>2, CloseEffect DEF TaskLabels
    <2>3. CASE ~Parallel /\ PostProcess(w)
      <3>1. pc[w] = "post" /\ TakesTurn(w)
        BY <2>3 DEF PostProcess, TakesTurn
      <3> QED
        BY <3>1, TurnEffect DEF TaskLabels
    <2> QED
      BY <2>1, <2>2, <2>3
  <1>3. InTask(w) /\ InTask(w)'
    BY <1>1, <1>2, WhoHasTask, WhoWillHaveTask
  <1>4. pc'[w] \notin {"scan", "fill", "schedule", "bound"}
    BY <1>2 DEF TaskLabels
  <1> QED
    BY <1>1, <1>2, <1>3, <1>4, CountKept

\* The context that is scheduled next is not in the queue of the scheduler, and
\* a node that runs one invocation at a time is not closed.
LEMMA ScheduledIsNew ==
    ASSUME NodeInv, NEW t \in Threads, pc[t] = "schedule",
           NEW context, context = IF Parallel THEN loc[t].timestamp ELSE Default
    PROVE  context \notin scheduled /\ status # "Closed" /\ ~prepared_context_for_close
  <1>1. InputsInv /\ CountInv /\ BatchInv /\ ClosingInv /\ PlacesInv
    BY DEF NodeInv
  <1>2. ~prepared_context_for_close
    BY <1>1 DEF InputsInv
  <1>3. status # "Closed"
    BY <1>1, <1>2 DEF ClosingInv
  <1>4. CASE ~Parallel
    <2>1. current_in_flight = 0
      BY <1>4, RoomNow
    <2>2. /\ IsFiniteSet(scheduled) /\ IsFiniteSet(Tasks)
          /\ 0 = Cardinality(scheduled) + Cardinality(Tasks)
      BY <1>1, <1>3, <2>1 DEF CountInv
    <2>3. Cardinality(scheduled) = 0
      BY <2>2, FS_CardinalityType
    <2>4. scheduled = {}
      BY <2>2, <2>3, FS_EmptySet
    <2> QED
      BY <1>2, <1>3, <2>4
  <1>5. CASE Parallel
    <2>1. context = loc[t].timestamp /\ context \in Timestamps
      BY <1>5, NodeTypes
    <2>2. CASE context = Done
      BY <1>1, <1>2, <1>3, <1>5, <2>2 DEF BatchInv, AtClose, LoadsBatch
    <2>3. CASE context # Done
      <3>1. Claims(t, context)
        BY <2>1, <2>3 DEF Claims
      <3> QED
        BY <1>2, <1>3, <1>5, <2>1, <3>1, ActiveFacts DEF ActiveInv
    <2> QED
      BY <2>2, <2>3
  <1> QED
    BY <1>4, <1>5

\* Scheduling a context counts one more.
LEMMA ScheduleCount ==
    ASSUME NodeInv, NEW t \in Threads, UNCHANGED configVars, Schedule(t), Moves(t), PlacesInv'
    PROVE  CountInv'
  <1>1. /\ pc[t] = "schedule" /\ max_in_flight' = max_in_flight
        /\ UNCHANGED <<status, scheduling_state>>
        /\ current_in_flight' = current_in_flight + 1
        /\ CountInv /\ PlacesInv /\ Parallel' = Parallel
    BY DEF Schedule, configVars, NodeInv, Parallel
  <1>2. PICK context : /\ context = IF Parallel THEN loc[t].timestamp ELSE Default
                       /\ scheduled' = scheduled \cup {context}
    BY DEF Schedule
  <1>3. context \notin scheduled /\ status # "Closed"
    BY <1>1, <1>2, ScheduledIsNew
  <1>4. /\ loc[t].left \in Int /\ loc[t].left > 0 /\ current_in_flight \in Nat /\ max_in_flight \in Int
        /\ current_in_flight + loc[t].left <= max_in_flight
        /\ InLoop(t)
    BY <1>1, RoomNow DEF CountInv
  <1>5. status # "Prepared"
    <2>1. scheduling_state # "Idle"
      BY <1>1, <1>4, ThreadFacts
    <2> QED
      BY <1>1, <2>1 DEF CountInv
  <1>6. /\ pc'[t] \in {"scan", "recheck"}
        /\ pc'[t] = "scan" => loc'[t].left > 0 /\ current_in_flight' + loc'[t].left <= max_in_flight
    <2>1. CASE loc[t].timestamp = Done
      BY <2>1, ScheduleEffect
    <2>2. CASE loc[t].timestamp # Done
      <3>1. PICK left : left = loc[t].left - 1
        OBVIOUS
      <3>2. left \in Int /\ NextInvocation(t, left) /\ current_in_flight' + left <= max_in_flight
        BY <1>1, <1>4, <2>2, <3>1, ScheduleEffect
      <3>3. pc'[t] = (IF left > 0 THEN "scan" ELSE "recheck") /\ loc'[t].left = left
        BY <1>1, <3>2, NextInvocationEffect
      <3> QED
        BY <3>2, <3>3
    <2> QED
      BY <2>1, <2>2
  <1>7. Tasks' = Tasks
    <2>1. ~InTask(t) /\ ~InTask(t)'
      BY <1>1, <1>6, WhoHasTask, WhoWillHaveTask DEF OutsideLabels, LoopLabels
    <2> QED
      BY <2>1, TasksChange
  <1>8. /\ IsFiniteSet(scheduled') /\ Cardinality(scheduled') = Cardinality(scheduled) + 1
        /\ Cardinality(scheduled) \in Nat /\ Cardinality(Tasks) \in Nat
        /\ IsFiniteSet(Tasks)
        /\ current_in_flight = Cardinality(scheduled) + Cardinality(Tasks)
    BY <1>1, <1>2, <1>3, FS_AddElement, FS_CardinalityType DEF CountInv
  <1>9. current_in_flight' = Cardinality(scheduled') + Cardinality(Tasks')
    BY <1>1, <1>7, <1>8
  <1>10. current_in_flight' \in Nat /\ current_in_flight' <= max_in_flight'
    BY <1>1, <1>4
  <1>11. ASSUME NEW u \in Threads
         PROVE  /\ pc'[u] \in {"scan", "fill", "schedule"} =>
                      loc'[u].left > 0 /\ current_in_flight' + loc'[u].left <= max_in_flight'
                /\ ~Parallel' /\ pc'[u] = "bound" => current_in_flight' = 0
    <2>1. CASE u = t
      BY <1>1, <1>6, <2>1
    <2>2. CASE u # t
      <3>1. pc[u] \notin LoopLabels
        BY <1>1, <2>2, OthersOutside DEF LoopLabels
      <3> QED
        BY <2>2, <3>1 DEF Moves, LoopLabels
    <2> QED
      BY <2>1, <2>2
  <1>12. IsFiniteSet(Tasks')
    BY <1>7, <1>8
  <1>13. status' # "Closed" /\ status' # "Prepared"
    BY <1>1, <1>3, <1>5
  <1> QED
    BY <1>8, <1>9, <1>10, <1>11, <1>12, <1>13 DEF CountInv

\* A context that is taken from the queue becomes a task.
LEMMA RunCount ==
    ASSUME NodeInv, NEW w \in Workers, UNCHANGED configVars, RunTask(w), PlacesInv'
    PROVE  CountInv'
  <1>1. /\ w \in Threads /\ max_in_flight' = max_in_flight /\ Parallel' = Parallel
        /\ UNCHANGED <<status, scheduling_state, current_in_flight>>
        /\ CountInv /\ PlacesInv
    BY NodeTypes DEF RunTask, configVars, NodeInv, Parallel
  <1>2. PICK c \in scheduled :
           scheduled' = scheduled \ {c} /\ Moves(w) /\ pc[w] = "free" /\ pc'[w] = "process"
    BY RunTaskEffect
  <1>3. /\ IsFiniteSet(scheduled) /\ IsFiniteSet(Tasks)
        /\ current_in_flight \in Nat /\ current_in_flight <= max_in_flight
    BY <1>1 DEF CountInv
  <1>4. w \notin Tasks /\ Tasks' = Tasks \cup {w}
    <2>1. ~InTask(w) /\ InTask(w)'
      BY <1>1, <1>2, WhoHasTask, WhoWillHaveTask DEF OutsideLabels, TaskLabels
    <2> QED
      BY <1>1, <1>2, <2>1, TasksChange
  <1>5. /\ IsFiniteSet(scheduled') /\ Cardinality(scheduled') = Cardinality(scheduled) - 1
        /\ IsFiniteSet(Tasks') /\ Cardinality(Tasks') = Cardinality(Tasks) + 1
        /\ Cardinality(scheduled) \in Nat /\ Cardinality(Tasks) \in Nat
    BY <1>2, <1>3, <1>4, FS_AddElement, FS_RemoveElement, FS_CardinalityType
  <1>6. status' # "Closed" => current_in_flight' = Cardinality(scheduled') + Cardinality(Tasks')
    BY <1>1, <1>5 DEF CountInv
  <1>7. \A u \in Threads :
           /\ pc'[u] \in {"scan", "fill", "schedule"} =>
                 loc'[u].left > 0 /\ current_in_flight' + loc'[u].left <= max_in_flight'
           /\ ~Parallel' /\ pc'[u] = "bound" => current_in_flight' = 0
    BY <1>1, <1>2 DEF CountInv, Moves
  <1>8. ~(~Parallel /\ status = "Closed")
    BY <1>1, <1>2 DEF CountInv
  <1>9. status' = "Prepared" => current_in_flight' = 0 /\ scheduling_state' = "Idle"
    BY <1>1 DEF CountInv
  <1> QED
    BY <1>1, <1>3, <1>5, <1>6, <1>7, <1>8, <1>9 DEF CountInv

\* A worker with a task is counted.
LEMMA TaskIsCounted ==
    ASSUME NodeInv, NEW w \in Workers, InTask(w)
    PROVE  /\ status # "Prepared" /\ w \in Tasks
           /\ status # "Closed" =>
                 /\ current_in_flight \in Nat /\ current_in_flight > 0
                 /\ current_in_flight - 1 = Cardinality(scheduled) + Cardinality(Tasks \ {w})
           /\ IsFiniteSet(Tasks \ {w})
  <1>1. CountInv /\ w \in Tasks
    BY DEF NodeInv, Tasks
  <1>2. /\ IsFiniteSet(scheduled) /\ IsFiniteSet(Tasks) /\ current_in_flight \in Nat
    BY <1>1 DEF CountInv
  <1>3. /\ IsFiniteSet(Tasks \ {w}) /\ Cardinality(Tasks \ {w}) = Cardinality(Tasks) - 1
        /\ Cardinality(Tasks \ {w}) \in Nat /\ Cardinality(Tasks) \in Nat
        /\ Cardinality(scheduled) \in Nat
    BY <1>1, <1>2, FS_RemoveElement, FS_CardinalityType
  <1>4. status # "Closed" =>
           /\ current_in_flight \in Nat /\ current_in_flight > 0
           /\ current_in_flight - 1 = Cardinality(scheduled) + Cardinality(Tasks \ {w})
    <2> SUFFICES ASSUME status # "Closed"
                 PROVE  /\ current_in_flight \in Nat /\ current_in_flight > 0
                        /\ current_in_flight - 1 = Cardinality(scheduled) + Cardinality(Tasks \ {w})
      OBVIOUS
    <2>1. current_in_flight = Cardinality(scheduled) + Cardinality(Tasks)
      BY <1>1 DEF CountInv
    <2> QED
      BY <1>2, <1>3, <2>1
  <1>5. status # "Prepared"
    <2>1. status = "Prepared" => current_in_flight = 0 /\ status # "Closed"
      BY <1>1 DEF CountInv
    <2> QED
      BY <1>4, <2>1
  <1> QED
    BY <1>1, <1>3, <1>4, <1>5

\* A task that ends is counted no more.
LEMMA EndCount ==
    ASSUME NodeInv, NEW w \in Workers, UNCHANGED configVars, EndScheduling(w), Moves(w), PlacesInv'
    PROVE  CountInv'
  <1>1. /\ w \in Threads /\ max_in_flight' = max_in_flight /\ Parallel' = Parallel
        /\ UNCHANGED <<status, scheduled>> /\ pc[w] = "end"
        /\ CountInv /\ PlacesInv /\ Home(w) \in {"produce", "free"}
    BY NodeTypes, ThreadFacts DEF EndScheduling, configVars, NodeInv, Parallel
  <1>2. pc'[w] \in {"produce", "free", "begin"}
    <2>1. (Return(w) \/ Goto(w, "begin")) /\ pc \in [Threads -> Labels]
      BY <1>1, ThreadFacts DEF EndScheduling
    <2> QED
      BY <1>1, <2>1, ReturnEffect DEF Goto
  <1>3. InTask(w) /\ ~InTask(w)'
    BY <1>1, <1>2, WhoHasTask, WhoWillHaveTask DEF OutsideLabels, LoopLabels, TaskLabels
  <1>4. Tasks' = Tasks \ {w}
    BY <1>1, <1>3, TasksChange
  <1>5. /\ status # "Prepared"
        /\ status # "Closed" =>
              /\ current_in_flight > 0
              /\ current_in_flight - 1 = Cardinality(scheduled) + Cardinality(Tasks')
        /\ IsFiniteSet(Tasks') /\ IsFiniteSet(scheduled)
        /\ current_in_flight \in Nat /\ current_in_flight <= max_in_flight /\ max_in_flight \in Int
    BY <1>1, <1>3, <1>4, TaskIsCounted, NodeTypes DEF CountInv
  <1>6. current_in_flight' = IF status = "Opened" THEN current_in_flight - 1 ELSE current_in_flight
    BY DEF EndScheduling, OneLessInFlight
  <1>7. status \in Statuses
    BY <1>1, ThreadFacts
  <1>8. /\ current_in_flight' \in Nat /\ current_in_flight' <= current_in_flight
        /\ current_in_flight' <= max_in_flight'
        /\ status' # "Closed" => current_in_flight' = Cardinality(scheduled') + Cardinality(Tasks')
    BY <1>1, <1>5, <1>6, <1>7 DEF Statuses
  <1>9. ASSUME NEW u \in Threads
        PROVE  /\ pc'[u] \in {"scan", "fill", "schedule"} =>
                     loc'[u].left > 0 /\ current_in_flight' + loc'[u].left <= max_in_flight'
               /\ ~Parallel' /\ pc'[u] = "bound" => current_in_flight' = 0
    <2>1. CASE u = w
      BY <1>2, <2>1
    <2>2. CASE u # w
      <3>1. pc'[u] = pc[u] /\ loc'[u] = loc[u] /\ loc[u].left \in Int
        BY <2>2, NodeTypes DEF Moves
      <3>2. /\ pc[u] \in {"scan", "fill", "schedule"} =>
                  loc[u].left > 0 /\ current_in_flight + loc[u].left <= max_in_flight
            /\ ~Parallel /\ pc[u] = "bound" => current_in_flight = 0
        BY <1>1 DEF CountInv
      <3> QED
        BY <1>1, <1>5, <1>8, <3>1, <3>2
    <2> QED
      BY <2>1, <2>2
  <1>10. ~Parallel' /\ status' = "Closed" =>
            scheduled' = {} /\ \A u \in Workers : pc'[u] \notin TaskLabels \ {"end"}
    BY <1>1, <1>2 DEF CountInv, Moves, TaskLabels, Threads
  <1>11. status' # "Prepared" /\ IsFiniteSet(scheduled')
    BY <1>1, <1>5
  <1> QED
    BY <1>5, <1>8, <1>9, <1>10, <1>11 DEF CountInv

\* When the node is closed nothing else is under way unless it is parallel.
LEMMA ClosedCount ==
    ASSUME NodeInv, NEW w \in Workers, UNCHANGED configVars, NodeClosed(w), Moves(w), PlacesInv'
    PROVE  CountInv'
  <1>1. /\ w \in Threads /\ max_in_flight' = max_in_flight /\ Parallel' = Parallel
        /\ UNCHANGED <<current_in_flight, scheduled>> /\ pc[w] = "closed" /\ status' = "Closed"
        /\ CountInv /\ PlacesInv
    BY NodeTypes DEF NodeClosed, configVars, NodeInv, Parallel
  <1>2. pc'[w] = "end"
    BY <1>1, ThreadFacts DEF NodeClosed, Goto
  <1>3. InTask(w) /\ InTask(w)'
    BY <1>1, <1>2, WhoHasTask, WhoWillHaveTask DEF TaskLabels
  <1>4. Tasks' = Tasks
    BY <1>1, <1>3, TasksChange
  <1>5. ~Parallel => scheduled' = {} /\ \A u \in Workers : pc'[u] \notin TaskLabels \ {"end"}
    <2> SUFFICES ASSUME ~Parallel
                 PROVE  scheduled' = {} /\ \A u \in Workers : pc'[u] \notin TaskLabels \ {"end"}
      OBVIOUS
    <2>1. scheduled = {} /\ \A u \in Workers \ {w} : ~InTask(u)
      BY <1>1, SequentialAlone DEF TaskLabels
    <2>2. \A u \in Workers \ {w} : pc[u] \notin TaskLabels /\ pc'[u] = pc[u]
      BY <2>1 DEF InTask, TaskLabels, Moves, Threads
    <2> QED
      BY <1>1, <1>2, <2>1, <2>2
  <1>6. \A u \in Threads :
           /\ pc'[u] \in {"scan", "fill", "schedule"} =>
                 loc'[u].left > 0 /\ current_in_flight' + loc'[u].left <= max_in_flight'
           /\ ~Parallel' /\ pc'[u] = "bound" => current_in_flight' = 0
    BY <1>1, <1>2 DEF CountInv, Moves
  <1> QED
    BY <1>1, <1>4, <1>5, <1>6 DEF CountInv

\* Every step keeps the count.
LEMMA NodeCount ==
    ASSUME NodeInv, NEW t \in Threads, UNCHANGED configVars, StepOf(t)
    PROVE  CountInv'
  <1>0. Moves(t) /\ PlacesInv' /\ max_in_flight' = max_in_flight
    BY NodePlaces DEF StepOf, configVars
  <1>1. CASE \/ t \in Streams /\ (Produce(t) \/ EndStream(t))
             \/ t \in Workers /\ (OpenNode(t) \/ CloseOutputStreams(t))
             \/ PropagatePackets(t) \/ RecycleContext(t) \/ TryBound(t) \/ SendBound(t)
    BY <1>0, <1>1, GoesCount
  <1>2. CASE CheckIfBecameReady(t) \/ BeginLoop(t) \/ Recheck(t)
    BY <1>0, <1>2, NotifyCount
  <1>3. CASE ScanStream(t) \/ Decide(t) \/ FillStream(t)
    BY <1>0, <1>3, ScanCount
  <1>4. CASE \/ UpdateTaskTimestampBound(t) \/ PacketsPropagated(t) \/ BoundPropagated(t)
             \/ t \in Workers /\ Parallel /\ PostProcess(t)
    BY <1>0, <1>4, OutputCount
  <1>5. CASE t \in Workers /\ (Process(t) \/ CloseInputStream(t) \/ (~Parallel /\ PostProcess(t)))
    BY <1>0, <1>5, TaskCount
  <1>6. CASE Schedule(t)
    BY <1>0, <1>6, ScheduleCount
  <1>7. CASE t \in Workers /\ (RunTask(t) \/ EndScheduling(t) \/ NodeClosed(t))
    BY <1>0, <1>7, RunCount, EndCount, ClosedCount
  <1> QED
    BY <1>1, <1>2, <1>3, <1>4, <1>5, <1>6, <1>7, StepKinds DEF Elsewhere

-----------------------------------------------------------------------------
(* The batch of the default context.                                       *)

BatchLabels == {"fill", "schedule", "process", "post", "close", "close_outputs", "closed"}

\* Outside these labels a thread says nothing of the batch.
LEMMA NoBatch ==
    ASSUME NEW t, pc'[t] \notin BatchLabels
    PROVE  LoadsBatch(t)' /\ RunsBatch(t)'
  BY DEF LoadsBatch, RunsBatch, AtClose, BatchLabels

\* The others keep what they say of a batch that stays.
LEMMA OthersBatch ==
    ASSUME NEW t \in Threads, Moves(t), NEW u \in Threads \ {t}, batch' = batch,
           Parallel' = Parallel
    PROVE  /\ AtClose(u)' <=> AtClose(u)
           /\ LoadsBatch(u) => LoadsBatch(u)'
           /\ RunsBatch(u) /\ (prepared_context_for_close => prepared_context_for_close') => RunsBatch(u)'
  <1>1. pc'[u] = pc[u] /\ loc'[u] = loc[u]
    BY DEF Moves
  <1> QED
    BY <1>1 DEF AtClose, LoadsBatch, RunsBatch

\* A step that leaves the batch alone.
KeepsBatch(t) ==
    /\ batch' = batch
    /\ prepared_context_for_close => prepared_context_for_close'
    /\ Done \in scheduled' =>
          Done \in scheduled \/ (batch # <<>> /\ (Parallel => prepared_context_for_close'))
    /\ AtClose(t) => AtClose(t)' \/ prepared_context_for_close'
    /\ LoadsBatch(t)'
    /\ t \in Workers => RunsBatch(t)'

\* A step that keeps the batch keeps what is known of it.
LEMMA BatchKept ==
    ASSUME NodeInv, NEW t \in Threads, Moves(t), Parallel' = Parallel, KeepsBatch(t)
    PROVE  BatchInv'
  <1>0. /\ batch' = batch
        /\ prepared_context_for_close => prepared_context_for_close'
        /\ Done \in scheduled' =>
              Done \in scheduled \/ (batch # <<>> /\ (Parallel => prepared_context_for_close'))
        /\ AtClose(t) => AtClose(t)' \/ prepared_context_for_close'
        /\ LoadsBatch(t)'
        /\ t \in Workers => RunsBatch(t)'
    BY DEF KeepsBatch
  <1>1. BatchInv
    BY DEF NodeInv
  <1>2. \A u \in Threads : LoadsBatch(u)'
    BY <1>0, <1>1, OthersBatch DEF BatchInv
  <1>3. \A w \in Workers : RunsBatch(w)'
    BY <1>0, <1>1, OthersBatch DEF BatchInv, Threads
  <1>4. (\E u \in Threads : AtClose(u)) => prepared_context_for_close' \/ \E u \in Threads : AtClose(u)'
    BY <1>0, OthersBatch
  <1>5. DoneIsLast'
    BY <1>0, <1>1, <1>4 DEF BatchInv, DoneIsLast
  <1>6. Done \in scheduled' => batch' # <<>> /\ (Parallel' => prepared_context_for_close')
    BY <1>0, <1>1 DEF BatchInv
  <1> QED
    BY <1>0, <1>1, <1>2, <1>3, <1>5, <1>6 DEF BatchInv

\* The steps that have nothing to do with the batch.
LeavesBatch(t) ==
    /\ UNCHANGED <<batch, scheduled, prepared_context_for_close>>
    /\ pc[t] # "schedule" /\ pc'[t] \notin BatchLabels

\* Such a step keeps what is known of the batch.
LEMMA BatchLeft ==
    ASSUME NodeInv, NEW t \in Threads, Moves(t), Parallel' = Parallel, LeavesBatch(t)
    PROVE  BatchInv'
  <1>1. LoadsBatch(t)' /\ RunsBatch(t)' /\ ~AtClose(t)
    BY NoBatch DEF LeavesBatch, AtClose
  <1>2. UNCHANGED <<batch, scheduled, prepared_context_for_close>>
    BY DEF LeavesBatch
  <1>3. KeepsBatch(t)
    BY <1>1, <1>2 DEF KeepsBatch
  <1> QED
    BY <1>1, <1>3, BatchKept

\* Actions that only lead to another label leave the batch alone.
LEMMA GoesLeave ==
    ASSUME NodeInv, NEW t \in Threads, UNCHANGED configVars,
           \/ t \in Streams /\ (Produce(t) \/ EndStream(t))
           \/ t \in Workers /\ OpenNode(t)
           \/ PropagatePackets(t) \/ RecycleContext(t) \/ TryBound(t) \/ SendBound(t)
    PROVE  LeavesBatch(t)
  <1>1. Moves(t) /\ Leads(t, pc[t], pc'[t]) /\ Parallel' = Parallel
    BY GoesEffect DEF OnlyGoes, configVars, Parallel
  <1>2. UNCHANGED <<batch, scheduled, prepared_context_for_close>>
    BY DEF Produce, EndStream, OpenNode, PropagatePackets, RecycleContext, TryBound, SendBound,
           contextVars, schedVars, inputVars
  <1>3. pc[t] \in {"produce", "free", "propagate", "recycle", "try_bound", "send_bound"}
    BY DEF Produce, EndStream, OpenNode, PropagatePackets, RecycleContext, TryBound, SendBound
  <1>4. pc[t] # "schedule" /\ pc'[t] \notin BatchLabels
    BY <1>1, <1>3 DEF Leads, BatchLabels
  <1> QED
    BY <1>1, <1>2, <1>4 DEF LeavesBatch

\* The beginning, the scan and the end of the scheduling loop leave the
\* batch alone.
LEMMA LoopLeaves ==
    ASSUME NodeInv, NEW t \in Threads, UNCHANGED configVars, Moves(t),
           \/ CheckIfBecameReady(t) \/ BeginLoop(t) \/ Recheck(t)
           \/ t \in Workers /\ EndScheduling(t)
           \/ ScanStream(t)
    PROVE  LeavesBatch(t)
  <1>1. /\ PlacesInv /\ Home(t) \in {"produce", "free"} /\ Allowance \in Int
        /\ Parallel' = Parallel /\ pc \in [Threads -> Labels]
    BY NodeTypes, ThreadFacts DEF configVars, Parallel
  <1>2. /\ UNCHANGED <<batch, scheduled, prepared_context_for_close>>
        /\ pc[t] \in {"notify", "begin", "recheck", "end", "scan"}
    BY DEF CheckIfBecameReady, BeginLoop, Recheck, EndScheduling, ScanStream,
           contextVars, schedVars, inputVars
  <1>3. CASE CheckIfBecameReady(t) \/ (t \in Workers /\ EndScheduling(t))
    <2>1. Return(t) \/ Goto(t, "begin")
      BY <1>3 DEF CheckIfBecameReady, EndScheduling
    <2>2. pc'[t] \in {"produce", "free", "begin"}
      BY <1>1, <2>1 DEF Return, Goto
    <2> QED
      BY <1>1, <1>2, <2>2 DEF LeavesBatch, BatchLabels
  <1>4. CASE BeginLoop(t) \/ Recheck(t)
    <2>1. Return(t) \/ NextInvocation(t, Allowance)
      BY <1>4 DEF BeginLoop, Recheck
    <2>2. pc'[t] \in {"produce", "free", "scan", "recheck"}
      BY <1>1, <2>1 DEF Return, NextInvocation, Goto
    <2> QED
      BY <1>1, <1>2, <2>2 DEF LeavesBatch, BatchLabels
  <1>5. CASE ScanStream(t)
    <2>1. pc'[t] = "scan" /\ pc[t] = "scan"
      BY <1>5 DEF ScanStream
    <2> QED
      BY <1>1, <1>2, <2>1 DEF LeavesBatch, BatchLabels
  <1> QED
    BY <1>3, <1>4, <1>5

\* The steps that propagate leave the batch alone.
LEMMA OutputLeaves ==
    ASSUME NodeInv, NEW t \in Threads, UNCHANGED configVars, Moves(t),
           \/ UpdateTaskTimestampBound(t) \/ PacketsPropagated(t) \/ BoundPropagated(t)
           \/ t \in Workers /\ Parallel /\ PostProcess(t)
    PROVE  LeavesBatch(t)
  <1>1. /\ UNCHANGED <<batch, scheduled, prepared_context_for_close>>
        /\ pc[t] \in {"bound", "propagated", "bound_tried", "post"}
    BY DEF UpdateTaskTimestampBound, PacketsPropagated, BoundPropagated, PostProcess,
           contextVars, schedVars, inputVars
  <1>2. Parallel' = Parallel /\ PlacesInv
    BY NodeTypes DEF configVars, Parallel
  <1>3. pc'[t] \in {"propagate", "try_bound", "recheck", "end"}
    <2>1. CASE UpdateTaskTimestampBound(t)
      BY <2>1, UpdateLabels
    <2>2. CASE PacketsPropagated(t) \/ BoundPropagated(t) \/ (t \in Workers /\ Parallel /\ PostProcess(t))
      <3>1. Propagates(t)
        BY <1>2, <2>2, WhoPropagates DEF PacketsPropagated, BoundPropagated, PostProcess, PropLabels,
              PacketLabels, BoundLabels
      <3>2. task_timestamp_bound \in Timestamps
        BY NodeTypes
      <3>3. PropagationGoes(t)
        BY <2>2, <3>2 DEF PacketsPropagated, BoundPropagated, PostProcess, JoinPropagation, PropagationGoes
      <3> QED
        BY <3>1, <3>3, PropagationLabels
    <2> QED
      BY <2>1, <2>2
  <1>4. pc[t] # "schedule" /\ pc'[t] \notin BatchLabels
    BY <1>1, <1>3 DEF BatchLabels
  <1> QED
    BY <1>1, <1>2, <1>4 DEF LeavesBatch

\* What a batch looks like before an input timestamp, or Done, is added to it:
\* nobody runs it, and the last input timestamp is not in it.
LEMMA BatchOpen ==
    ASSUME NodeInv, NEW t \in Threads, pc[t] = "scan", ~prepared_context_for_close
    PROVE  /\ \A i \in 1 .. Len(batch) : batch[i] # Done
           /\ Parallel => batch = <<>>
           /\ \A w \in Workers : pc[w] \in {"process", "post"} => loc[w].context # Done
           /\ \A w \in Workers : pc[w] \notin {"close", "close_outputs", "closed"}
           /\ \A u \in Threads \ {t} : pc[u] \notin {"fill", "schedule"}
  <1>1. BatchInv /\ ContextsInv
    BY DEF NodeInv
  <1>2. pc[t] \in LoopLabels
    BY DEF LoopLabels
  <1>3. \A u \in Threads \ {t} : pc[u] \notin LoopLabels
    BY <1>2, OthersOutside
  <1>4. \A u \in Threads : ~AtClose(u)
    BY <1>3 DEF AtClose, LoopLabels
  <1>5. \A i \in 1 .. Len(batch) : batch[i] # Done
    BY <1>1, <1>4 DEF BatchInv, DoneIsLast
  <1>6. Parallel => batch = <<>>
    <2>1. Len(<<Done>>) = 1 /\ <<Done>>[1] = Done
      OBVIOUS
    <2> QED
      BY <1>1, <1>5, <2>1 DEF BatchInv
  <1>7. ASSUME NEW w \in Workers
        PROVE  /\ pc[w] \in {"process", "post"} => loc[w].context # Done
               /\ pc[w] \notin {"close", "close_outputs", "closed"}
    <2>1. RunsBatch(w)
      BY <1>1 DEF BatchInv
    <2>2. CASE Parallel
      BY <2>1, <2>2 DEF RunsBatch
    <2>3. CASE ~Parallel
      <3>1. pc[w] \notin TaskLabels \ {"end"}
        BY <2>3, SequentialAlone
      <3> QED
        BY <3>1 DEF TaskLabels
    <2> QED
      BY <2>2, <2>3
  <1>8. \A u \in Threads \ {t} : pc[u] \notin {"fill", "schedule"}
    BY <1>3 DEF LoopLabels
  <1> QED
    BY <1>5, <1>6, <1>7, <1>8

\* Finding the node not ready leaves the batch alone.
LEMMA NotReadyBatch ==
    ASSUME NodeInv, NEW t \in Threads, UNCHANGED configVars, NotReady(t), pc[t] = "scan",
           scheduled' = scheduled
    PROVE  BatchInv'
  <1>1. Moves(t) /\ pc'[t] = "bound" /\ Parallel' = Parallel
    BY NotReadyEffect DEF configVars, Parallel
  <1> QED
    BY <1>1, BatchLeft DEF NotReady, LeavesBatch, BatchLabels, inputVars

\* An input timestamp is added to a batch nobody runs and that is not
\* closed.
LEMMA PrepareContextBatch ==
    ASSUME NodeInv, NEW t \in Threads, UNCHANGED configVars, PrepareContext(t), pc[t] = "scan",
           loc[t].i \notin Streams, scheduled' = scheduled
    PROVE  BatchInv'
  <1>1. Moves(t) /\ pc'[t] = "fill" /\ Parallel' = Parallel /\ t \in Threads
    BY PrepareContextEffect DEF configVars, Parallel
  <1>2. PICK time : time = InputTimestamp(loc[t].min_packet, loc[t].min_bound)
    OBVIOUS
  <1>3. time \in Timestamps /\ IsAllowedInStream(time) /\ ~Over
    BY <1>2, ReadyTimestamp DEF PrepareContext
  <1>4. ~prepared_context_for_close /\ ~prepared_context_for_close'
    BY <1>3 DEF NodeInv, InputsInv, PrepareContext
  <1>5. time # Done /\ ~AtClose(t)' /\ ~AtClose(t)
    BY <1>1, <1>3, SpecialTimestamps DEF AtClose, IsAllowedInStream
  <1>6. CASE Parallel
    <2>1. batch' = batch /\ LoadsBatch(t)' /\ RunsBatch(t)'
      BY <1>1, <1>5, <1>6 DEF PrepareContext, LoadsBatch, RunsBatch
    <2>2. KeepsBatch(t)
      BY <1>4, <1>5, <2>1 DEF KeepsBatch
    <2> QED
      BY <1>1, <2>2, BatchKept
  <1>7. CASE ~Parallel
    <2>1. batch' = Append(batch, time) /\ batch \in Seq(Timestamps)
      BY <1>2, <1>7, NodeTypes DEF PrepareContext
    <2>2. /\ batch' \in Seq(Timestamps) /\ batch' # <<>>
          /\ \A i \in 1 .. Len(batch') : (i \in 1 .. Len(batch) /\ batch'[i] = batch[i]) \/ batch'[i] = time
      BY <1>3, <2>1
    <2>3. DoneIsLast'
      BY <1>4, <1>5, <2>2, BatchOpen DEF DoneIsLast
    <2>4. \A w \in Workers : RunsBatch(w)'
      <3> SUFFICES ASSUME NEW w \in Workers PROVE RunsBatch(w)'
        OBVIOUS
      <3>1. pc'[w] \notin {"process", "post", "close", "close_outputs", "closed"}
        <4>1. CASE w = t
          BY <1>1, <4>1
        <4>2. CASE w # t
          <5>1. pc[w] \notin TaskLabels \ {"end"}
            BY <1>7, SequentialAlone
          <5>2. pc'[w] = pc[w]
            BY <1>1, <4>2 DEF Moves, Threads
          <5> QED
            BY <5>1, <5>2 DEF TaskLabels
        <4> QED
          BY <4>1, <4>2
      <3> QED
        BY <3>1 DEF RunsBatch
    <2>5. \A u \in Threads : LoadsBatch(u)'
      <3> SUFFICES ASSUME NEW u \in Threads PROVE LoadsBatch(u)'
        OBVIOUS
      <3>1. ~AtClose(u)'
        <4>1. u # t => pc'[u] = pc[u] /\ pc[u] \notin {"fill", "schedule"}
          BY <1>1, <1>4, BatchOpen DEF Moves
        <4> QED
          BY <1>5, <4>1 DEF AtClose
      <3> QED
        BY <2>2, <3>1 DEF LoadsBatch
    <2> QED
      BY <1>1, <1>7, <2>2, <2>3, <2>4, <2>5 DEF BatchInv
  <1> QED
    BY <1>6, <1>7

\* Done is added once, and last.
LEMMA PrepareCloseBatch ==
    ASSUME NodeInv, NEW t \in Threads, UNCHANGED configVars, PrepareClose(t), pc[t] = "scan",
           scheduled' = scheduled
    PROVE  BatchInv'
  <1>1. Moves(t) /\ Parallel' = Parallel /\ prepared_context_for_close' = prepared_context_for_close
    BY PrepareCloseEffect DEF configVars, Parallel, PrepareClose
  <1>2. CASE ~MayPrepareClose
    <2>1. pc'[t] = "recheck" /\ batch' = batch
      BY <1>2, PrepareCloseEffect DEF PrepareClose
    <2> QED
      BY <1>1, <2>1, BatchLeft DEF LeavesBatch, BatchLabels
  <1>3. CASE MayPrepareClose
    <2>1. /\ batch' = Append(batch, Done) /\ batch \in Seq(Timestamps)
          /\ pc'[t] = "schedule" /\ loc'[t].timestamp = Done /\ ~prepared_context_for_close
          /\ Done \in Timestamps
      BY <1>3, NodeTypes, PrepareCloseEffect, SpecialTimestamps DEF PrepareClose, MayPrepareClose
    <2>2. /\ batch' \in Seq(Timestamps) /\ batch' # <<>> /\ Len(batch') = Len(batch) + 1
          /\ \A i \in 1 .. Len(batch) : batch'[i] = batch[i]
          /\ \A i \in 1 .. Len(batch') : i \in 1 .. Len(batch) \/ i = Len(batch')
          /\ batch'[Len(batch')] = Done
      BY <2>1
    <2>3. AtClose(t)'
      BY <2>1 DEF AtClose
    <2>4. DoneIsLast'
      <3>1. \A i \in 1 .. Len(batch) : batch[i] # Done
        BY <2>1, BatchOpen
      <3> QED
        BY <2>2, <2>3, <3>1 DEF DoneIsLast
    <2>5. Parallel => batch' = <<Done>>
      <3>1. Parallel => batch = <<>>
        BY <2>1, BatchOpen
      <3> QED
        BY <2>1, <3>1
    <2>6. \A w \in Workers : RunsBatch(w)'
      <3> SUFFICES ASSUME NEW w \in Workers PROVE RunsBatch(w)'
        OBVIOUS
      <3>1. CASE w = t
        BY <2>1, <3>1 DEF RunsBatch
      <3>2. CASE w # t
        <4>1. pc'[w] = pc[w] /\ loc'[w] = loc[w]
          BY <1>1, <3>2 DEF Moves, Threads
        <4> QED
          BY <2>1, <4>1, BatchOpen DEF RunsBatch
      <3> QED
        BY <3>1, <3>2
    <2>7. \A u \in Threads : LoadsBatch(u)'
      BY <2>2 DEF LoadsBatch
    <2>8. Done \in scheduled' => (Parallel' => prepared_context_for_close')
      BY <1>1 DEF NodeInv, BatchInv
    <2> QED
      BY <1>1, <2>2, <2>4, <2>5, <2>6, <2>7, <2>8 DEF BatchInv
  <1> QED
    BY <1>2, <1>3

\* Filling an input set leaves the batch alone.
LEMMA FillBatch ==
    ASSUME NodeInv, NEW t \in Threads, UNCHANGED configVars, FillStream(t)
    PROVE  BatchInv'
  <1>1. /\ Moves(t) /\ FilledMove(t) /\ pc[t] = "fill" /\ Parallel' = Parallel
        /\ UNCHANGED <<batch, scheduled, prepared_context_for_close>>
        /\ PlacesInv
    BY FillEffect, NodeTypes DEF FillStream, configVars, Parallel, contextVars, schedVars, inputVars
  <1>2. loc[t].timestamp # Done /\ ~AtClose(t)
    BY <1>1, FillFacts DEF AtClose
  <1>3. CASE pc'[t] \in {"fill", "schedule"}
    <2>1. loc'[t].timestamp = loc[t].timestamp
      <3>1. loc[t].left \in Int
        BY NodeTypes
      <3>2. CASE NextInvocation(t, loc[t].left)
        BY <1>1, <1>3, <3>1, <3>2, NextInvocationEffect
      <3> QED
        BY <1>1, <3>2 DEF FilledMove, OtherFields
    <2>2. ~AtClose(t)' /\ (~Parallel => batch # <<>>)
      BY <1>1, <1>2, <2>1 DEF AtClose, NodeInv, BatchInv, LoadsBatch
    <2>3. LoadsBatch(t)' /\ RunsBatch(t)'
      BY <1>1, <1>3, <2>2 DEF LoadsBatch, RunsBatch
    <2>4. KeepsBatch(t)
      BY <1>1, <1>2, <2>3 DEF KeepsBatch
    <2> QED
      BY <1>1, <2>4, BatchKept
  <1>4. CASE pc'[t] \notin {"fill", "schedule"}
    <2>1. NextInvocation(t, loc[t].left) /\ loc[t].left \in Int
      BY <1>1, <1>4, NodeTypes DEF FilledMove
    <2>2. pc'[t] \in {"scan", "recheck"}
      BY <1>1, <2>1, NextInvocationEffect
    <2> QED
      BY <1>1, <2>2, BatchLeft DEF LeavesBatch, BatchLabels
  <1> QED
    BY <1>3, <1>4

\* A default context is scheduled with something in its batch.
LEMMA ScheduleBatch ==
    ASSUME NodeInv, NEW t \in Threads, UNCHANGED configVars, Schedule(t)
    PROVE  BatchInv'
  <1>1. /\ Moves(t) /\ pc'[t] \in {"scan", "recheck"} /\ Parallel' = Parallel
        /\ batch' = batch /\ pc[t] = "schedule" /\ LoadsBatch(t)
    BY ScheduleEffect DEF Schedule, configVars, Parallel, contextVars, NodeInv, BatchInv
  <1>2. LoadsBatch(t)' /\ RunsBatch(t)'
    BY <1>1, NoBatch DEF BatchLabels
  <1>3. /\ loc[t].timestamp = Done => prepared_context_for_close'
        /\ loc[t].timestamp # Done => prepared_context_for_close' = prepared_context_for_close
        /\ scheduled' = scheduled \cup {IF Parallel THEN loc[t].timestamp ELSE Default}
    BY DEF Schedule
  <1>4. ~prepared_context_for_close
    BY <1>1, ScheduledIsNew
  <1>5. CASE loc[t].timestamp = Done
    <2>1. AtClose(t) /\ batch # <<>>
      BY <1>1, <1>5 DEF AtClose, LoadsBatch
    <2> QED
      BY <1>1, <1>2, <1>3, <1>4, <1>5, <2>1, BatchKept DEF KeepsBatch
  <1>6. CASE loc[t].timestamp # Done
    <2>1. ~AtClose(t) /\ (~Parallel => batch # <<>>)
      BY <1>1, <1>6 DEF AtClose, LoadsBatch
    <2>2. Done \in scheduled' => Done \in scheduled \/ ~Parallel
      BY <1>3, <1>6
    <2> QED
      BY <1>1, <1>2, <1>3, <1>4, <2>1, <2>2, BatchKept DEF KeepsBatch
  <1> QED
    BY <1>5, <1>6

\* The task that takes the default context has the invocations of its batch.
LEMMA RunBatch ==
    ASSUME NodeInv, NEW w \in Workers, UNCHANGED configVars, RunTask(w)
    PROVE  BatchInv'
  <1>1. PICK c \in scheduled :
           /\ scheduled' = scheduled \ {c} /\ Moves(w) /\ pc[w] = "free" /\ pc'[w] = "process"
           /\ loc'[w].context = c
           /\ loc'[w].invocations = IF c = Done THEN Len(batch) ELSE 1
    BY RunTaskEffect
  <1>2. /\ Parallel' = Parallel /\ UNCHANGED <<batch, prepared_context_for_close>> /\ w \in Threads
        /\ BatchInv
    BY NodeTypes DEF RunTask, configVars, Parallel, contextVars, inputVars, NodeInv
  <1>3. ~AtClose(w) /\ LoadsBatch(w)'
    BY <1>1 DEF AtClose, LoadsBatch
  <1>4. RunsBatch(w)'
    <2>1. c = Done => batch # <<>> /\ (Parallel => prepared_context_for_close)
      BY <1>2, <1>1 DEF BatchInv
    <2> QED
      BY <1>1, <1>2, <2>1 DEF RunsBatch
  <1>5. KeepsBatch(w)
    BY <1>1, <1>2, <1>3, <1>4 DEF KeepsBatch
  <1> QED
    BY <1>1, <1>2, <1>5, BatchKept

\* The turn of a task at which the node is closed: Done is all that is left of the
\* batch, and nobody else closes the node.
LEMMA ClosingTurn ==
    ASSUME NodeInv, NEW w \in Workers, pc[w] = "process", TurnTimestamp(w) = Done
    PROVE  loc[w].context = Done /\ batch = <<Done>> /\ Len(batch) = 1 /\ prepared_context_for_close
  <1>1. BatchInv /\ batch \in Seq(Timestamps) /\ w \in Threads
    BY NodeTypes DEF NodeInv
  <1>2. loc[w].context = Done
    BY DEF TurnTimestamp
  <1>3. batch # <<>> /\ batch[1] = Done /\ (Parallel => prepared_context_for_close)
    BY <1>1, <1>2, TurnIsTimestamp DEF BatchInv, RunsBatch, TurnTimestamp
  <1>4. 1 \in 1 .. Len(batch) /\ Len(batch) \in Nat
    BY <1>1, <1>3
  <1>5. /\ Len(batch) = 1
        /\ prepared_context_for_close \/ \E t \in Threads : AtClose(t)
    BY <1>1, <1>3, <1>4 DEF BatchInv, DoneIsLast
  <1>6. batch = <<Done>>
    BY <1>1, <1>3, <1>5
  <1>7. prepared_context_for_close
    <2>1. CASE Parallel
      BY <1>3, <2>1
    <2>2. CASE ~Parallel
      <3>1. pc[w] \in TaskLabels \ {"end"}
        BY DEF TaskLabels
      <3>2. \A t \in Threads : ~AtClose(t)
        BY <2>2, <3>1, SequentialAlone DEF AtClose
      <3> QED
        BY <1>5, <3>2
    <2> QED
      BY <2>1, <2>2
  <1> QED
    BY <1>2, <1>5, <1>6, <1>7

\* A turn that takes an input timestamp from the batch is that of a node that runs
\* one invocation at a time.
LEMMA TakingTurn ==
    ASSUME NodeInv, NEW w \in Workers, pc[w] = "process", TurnTimestamp(w) # Done,
           loc[w].context = Done
    PROVE  ~Parallel /\ batch # <<>> /\ loc[w].invocations = Len(batch)
  <1>1. BatchInv
    BY DEF NodeInv
  <1>2. batch # <<>> /\ loc[w].invocations = Len(batch)
    BY <1>1 DEF BatchInv, RunsBatch
  <1>3. Parallel => batch = <<Done>>
    BY <1>1, <1>2 DEF BatchInv
  <1>4. Head(<<Done>>) = Done
    OBVIOUS
  <1> QED
    BY <1>2, <1>3, <1>4 DEF TurnTimestamp

\* A turn takes the first input timestamp from the batch, and leaves Done in
\* it.
LEMMA ProcessBatch ==
    ASSUME NodeInv, NEW w \in Workers, UNCHANGED configVars, Process(w)
    PROVE  BatchInv'
  <1>1. /\ pc[w] = "process" /\ Moves(w) /\ w \in Threads /\ Parallel' = Parallel
        /\ UNCHANGED <<scheduled, prepared_context_for_close>> /\ batch \in Seq(Timestamps)
        /\ BatchInv
    BY ProcessEffect, NodeTypes DEF Process, configVars, Parallel, schedVars, inputVars, NodeInv
  <1>2. /\ TurnTimestamp(w) = Done => batch' = batch
        /\ TurnTimestamp(w) # Done => batch' = IF loc[w].context = Done THEN Tail(batch) ELSE batch
    BY DEF Process, TurnTimestamp, Default
  <1>3. ~AtClose(w)
    BY <1>1 DEF AtClose
  <1>4. CASE TurnTimestamp(w) = Done
    <2>1. pc'[w] = "close" /\ loc'[w].i = 1 /\ 1 \in Streams
      BY <1>4, ProcessEffect, StreamNumbers
    <2>2. LoadsBatch(w)' /\ RunsBatch(w)'
      BY <1>1, <1>2, <1>4, <2>1, ClosingTurn DEF LoadsBatch, RunsBatch, AtClose
    <2>3. KeepsBatch(w)
      BY <1>1, <1>2, <1>3, <1>4, <2>2 DEF KeepsBatch
    <2> QED
      BY <1>1, <2>3, BatchKept
  <1>5. CASE TurnTimestamp(w) # Done /\ loc[w].context # Done
    <2>1. pc'[w] = "post" /\ loc'[w].context # Done
      BY <1>5, ProcessEffect DEF OtherFields
    <2>2. LoadsBatch(w)' /\ RunsBatch(w)'
      BY <2>1 DEF LoadsBatch, RunsBatch, AtClose
    <2>3. KeepsBatch(w)
      BY <1>1, <1>2, <1>3, <1>5, <2>2 DEF KeepsBatch
    <2> QED
      BY <1>1, <2>3, BatchKept
  <1>6. CASE TurnTimestamp(w) # Done /\ loc[w].context = Done
    <2>1. /\ ~Parallel /\ batch # <<>> /\ loc[w].invocations = Len(batch) /\ batch' = Tail(batch)
      BY <1>1, <1>2, <1>6, TakingTurn
    <2>2. /\ batch' \in Seq(Timestamps) /\ Len(batch') \in Nat /\ Len(batch) = Len(batch') + 1
          /\ \A i \in 1 .. Len(batch') : i + 1 \in 1 .. Len(batch) /\ batch'[i] = batch[i + 1]
      BY <1>1, <2>1
    <2>3. /\ pc'[w] = "post" /\ loc'[w].timestamp # Done /\ loc'[w].invocations = loc[w].invocations
      BY <1>6, ProcessEffect DEF OtherFields
    <2>4. /\ scheduled = {}
          /\ \A u \in Workers \ {w} : ~InTask(u)
          /\ \A t \in Threads : pc[t] \notin {"scan", "fill", "schedule"}
      BY <1>1, <2>1, SequentialAlone DEF TaskLabels
    <2>5. \A t \in Threads : ~AtClose(t)
      BY <2>4 DEF AtClose
    <2>6. DoneIsLast'
      <3> SUFFICES ASSUME NEW i \in 1 .. Len(batch'), batch'[i] = Done
                   PROVE  i = Len(batch') /\ prepared_context_for_close'
        BY DEF DoneIsLast
      <3>1. i + 1 \in 1 .. Len(batch) /\ batch[i + 1] = Done
        BY <2>2
      <3>2. i + 1 = Len(batch) /\ prepared_context_for_close
        BY <1>1, <2>5, <3>1 DEF BatchInv, DoneIsLast
      <3> QED
        BY <1>1, <2>2, <3>2
    <2>7. \A t \in Threads : pc'[t] \notin {"fill", "schedule"}
      BY <1>1, <2>3, <2>4 DEF Moves
    <2>8. \A t \in Threads : LoadsBatch(t)'
      BY <2>7 DEF LoadsBatch, AtClose
    <2>9. RunsBatch(w)'
      BY <1>1, <2>1, <2>2, <2>3 DEF RunsBatch
    <2>10. ASSUME NEW u \in Workers \ {w} PROVE RunsBatch(u)'
      <3>1. pc'[u] \notin TaskLabels
        BY <1>1, <2>4 DEF Moves, Threads, InTask, TaskLabels
      <3> QED
        BY <3>1 DEF RunsBatch, TaskLabels
    <2> QED
      BY <1>1, <2>1, <2>2, <2>4, <2>6, <2>8, <2>9, <2>10 DEF BatchInv
  <1> QED
    BY <1>4, <1>5, <1>6

\* After a turn the invocations left are those of the batch.
LEMMA TurnBatch ==
    ASSUME NodeInv, NEW w \in Workers, UNCHANGED configVars, PostProcess(w), ~Parallel
    PROVE  BatchInv'
  <1>1. /\ TakesTurn(w) /\ pc[w] = "post" /\ w \in Threads /\ Parallel' = Parallel
        /\ UNCHANGED <<batch, scheduled, prepared_context_for_close>> /\ batch \in Seq(Timestamps)
    BY NodeTypes DEF PostProcess, TakesTurn, configVars, Parallel, schedVars, inputVars
  <1>2. /\ Moves(w) /\ pc'[w] = IF loc[w].invocations > 1 THEN "process" ELSE "end"
        /\ loc'[w].invocations = loc[w].invocations - 1
    BY <1>1, TurnEffect
  <1>3. RunsBatch(w) /\ loc[w].context = Done
    BY <1>1 DEF NodeInv, BatchInv, ContextsInv, DefaultOnly, Running
  <1>4. loc[w].invocations = Len(batch) + 1 /\ Len(batch) \in Nat
    BY <1>1, <1>3 DEF RunsBatch
  <1>5. pc'[w] = "process" => batch # <<>> /\ loc'[w].invocations = Len(batch)
    BY <1>1, <1>2, <1>4
  <1>6. LoadsBatch(w)' /\ RunsBatch(w)' /\ ~AtClose(w)
    BY <1>1, <1>2, <1>5 DEF LoadsBatch, RunsBatch, AtClose
  <1>7. KeepsBatch(w)
    BY <1>1, <1>6 DEF KeepsBatch
  <1> QED
    BY <1>1, <1>2, <1>7, BatchKept

\* Closing the node leaves Done in the batch.
LEMMA CloseBatch ==
    ASSUME NodeInv, NEW w \in Workers, UNCHANGED configVars,
           CloseInputStream(w) \/ CloseOutputStreams(w) \/ NodeClosed(w)
    PROVE  BatchInv'
  <1>1. /\ UNCHANGED <<batch, scheduled, prepared_context_for_close>>
        /\ pc[w] \in {"close", "close_outputs", "closed"} /\ w \in Threads /\ Parallel' = Parallel
        /\ PlacesInv /\ pc \in [Threads -> Labels]
    BY NodeTypes, ThreadFacts
       DEF CloseInputStream, CloseOutputStreams, NodeClosed, configVars, Parallel, contextVars,
           schedVars, inputVars
  <1>2. /\ pc'[w] \in {"close", "close_outputs", "closed", "end"} /\ Moves(w)
        /\ pc'[w] = "close" => loc'[w].i \in Streams
    <2>1. CASE CloseInputStream(w)
      BY <2>1, CloseEffect
    <2>2. CASE CloseOutputStreams(w)
      <3>1. Goto(w, "closed") /\ UNCHANGED loc /\ "closed" \in Labels
        BY <2>2 DEF CloseOutputStreams, Labels, TaskLabels
      <3> QED
        BY <1>1, <3>1, GotoEffect
    <2>3. CASE NodeClosed(w)
      <3>1. Goto(w, "end") /\ UNCHANGED loc /\ "end" \in Labels
        BY <2>3 DEF NodeClosed, Labels, TaskLabels
      <3> QED
        BY <1>1, <3>1, GotoEffect
    <2> QED
      BY <2>1, <2>2, <2>3
  <1>3. batch = <<Done>> /\ prepared_context_for_close
    BY <1>1 DEF NodeInv, BatchInv, RunsBatch
  <1>4. LoadsBatch(w)' /\ RunsBatch(w)' /\ ~AtClose(w)
    BY <1>1, <1>2, <1>3 DEF LoadsBatch, RunsBatch, AtClose
  <1>5. KeepsBatch(w)
    BY <1>1, <1>4 DEF KeepsBatch
  <1> QED
    BY <1>1, <1>2, <1>5, BatchKept

\* Every step keeps what is known of the batch.
LEMMA NodeBatch ==
    ASSUME NodeInv, NEW t \in Threads, UNCHANGED configVars, StepOf(t)
    PROVE  BatchInv'
  <1>0. Moves(t) /\ Parallel' = Parallel
    BY NodePlaces DEF StepOf, configVars, Parallel
  <1>1. CASE \/ t \in Streams /\ (Produce(t) \/ EndStream(t))
             \/ t \in Workers /\ OpenNode(t)
             \/ PropagatePackets(t) \/ RecycleContext(t) \/ TryBound(t) \/ SendBound(t)
    BY <1>0, <1>1, GoesLeave, BatchLeft
  <1>2. CASE CheckIfBecameReady(t) \/ BeginLoop(t) \/ Recheck(t)
             \/ (t \in Workers /\ EndScheduling(t)) \/ ScanStream(t)
    BY <1>0, <1>2, LoopLeaves, BatchLeft
  <1>3. CASE Decide(t)
    <2>1. pc[t] = "scan" /\ loc[t].i \notin Streams /\ scheduled' = scheduled
      BY <1>3 DEF Decide, schedVars
    <2> QED
      BY <1>3, <2>1, NotReadyBatch, PrepareContextBatch, PrepareCloseBatch DEF Decide
  <1>4. CASE FillStream(t) \/ Schedule(t)
    BY <1>4, FillBatch, ScheduleBatch
  <1>5. CASE \/ UpdateTaskTimestampBound(t) \/ PacketsPropagated(t) \/ BoundPropagated(t)
             \/ t \in Workers /\ Parallel /\ PostProcess(t)
    BY <1>0, <1>5, OutputLeaves, BatchLeft
  <1>6. CASE t \in Workers /\ (RunTask(t) \/ Process(t) \/ (~Parallel /\ PostProcess(t)))
    BY <1>6, RunBatch, ProcessBatch, TurnBatch
  <1>7. CASE t \in Workers /\ (CloseInputStream(t) \/ CloseOutputStreams(t) \/ NodeClosed(t))
    BY <1>7, CloseBatch
  <1> QED
    BY <1>1, <1>2, <1>3, <1>4, <1>5, <1>6, <1>7, StepKinds DEF Elsewhere

-----------------------------------------------------------------------------
(* One task closes the node.                                               *)

\* A step that neither schedules nor takes the task that closes the node, nor
\* ends it.
LEMMA ClosingKept ==
    ASSUME NodeInv, NEW t \in Threads, Moves(t), Parallel' = Parallel,
           prepared_context_for_close' = prepared_context_for_close,
           Parallel /\ Done \in scheduled' => Done \in scheduled,
           status' = "Closed" => status = "Closed",
           Parallel /\ Closing(t)' => Closing(t)
    PROVE  ClosingInv'
  <1>1. ClosingInv
    BY DEF NodeInv
  <1>2. \A w \in Workers : Parallel /\ Closing(w)' => Closing(w)
    <2> SUFFICES ASSUME NEW w \in Workers, Parallel, Closing(w)' PROVE Closing(w)
      OBVIOUS
    <2>1. w # t => pc'[w] = pc[w] /\ loc'[w] = loc[w]
      BY DEF Moves, Threads
    <2> QED
      BY <2>1 DEF Closing
  <1>3. status' = "Closed" => prepared_context_for_close'
    BY <1>1 DEF ClosingInv
  <1>4. Parallel' /\ prepared_context_for_close' =>
           /\ Done \in scheduled' => \A w \in Workers : ~Closing(w)'
           /\ \A w, u \in Workers : Closing(w)' /\ Closing(u)' => w = u
           /\ status' = "Closed" => Done \notin scheduled' /\ \A w \in Workers : ~Closing(w)'
    <2> SUFFICES ASSUME Parallel, prepared_context_for_close
                 PROVE  /\ Done \in scheduled' => \A w \in Workers : ~Closing(w)'
                        /\ \A w, u \in Workers : Closing(w)' /\ Closing(u)' => w = u
                        /\ status' = "Closed" => Done \notin scheduled' /\ \A w \in Workers : ~Closing(w)'
      OBVIOUS
    <2>1. /\ Done \in scheduled => \A w \in Workers : ~Closing(w)
          /\ \A w, u \in Workers : Closing(w) /\ Closing(u) => w = u
          /\ status = "Closed" => Done \notin scheduled /\ \A w \in Workers : ~Closing(w)
      BY <1>1 DEF ClosingInv
    <2> QED
      BY <1>2, <2>1
  <1> QED
    BY <1>3, <1>4 DEF ClosingInv

\* Outside these labels a thread does not close the node.
LEMMA NotClosing ==
    ASSUME NEW t, pc'[t] \notin {"process", "close", "close_outputs", "closed"}
    PROVE  ~Closing(t)'
  BY DEF Closing

\* A step that leaves the batch alone keeps one task at most that closes the
\* node.
LEMMA LeavesClosing ==
    ASSUME NodeInv, NEW t \in Threads, Moves(t), Parallel' = Parallel, LeavesBatch(t),
           status' = "Closed" => status = "Closed"
    PROVE  ClosingInv'
  <1>1. /\ prepared_context_for_close' = prepared_context_for_close /\ scheduled' = scheduled
        /\ ~Closing(t)'
    BY NotClosing DEF LeavesBatch, BatchLabels
  <1> QED
    BY <1>1, ClosingKept

\* The outcome of a scan, and filling an input set, schedule no close yet.
LEMMA PrepareClosing ==
    ASSUME NodeInv, NEW t \in Threads, UNCHANGED configVars, Decide(t) \/ FillStream(t)
    PROVE  ClosingInv'
  <1>1. Moves(t) /\ Parallel' = Parallel /\ loc[t].left \in Int /\ PlacesInv
    BY SchedulingPlaces, NodeTypes DEF configVars, Parallel
  <1>2. UNCHANGED <<prepared_context_for_close, scheduled, status>>
    BY DEF Decide, FillStream, NotReady, PrepareContext, PrepareClose, inputVars, schedVars
  <1>3. pc'[t] \in {"bound", "fill", "schedule", "recheck", "scan"}
    <2>1. CASE Decide(t)
      BY <2>1, NotReadyEffect, PrepareContextEffect, PrepareCloseEffect DEF Decide
    <2>2. CASE FillStream(t)
      <3>1. FilledMove(t)
        BY <2>2, FillEffect
      <3>2. CASE NextInvocation(t, loc[t].left)
        BY <1>1, <3>2, NextInvocationEffect
      <3> QED
        BY <3>1, <3>2 DEF FilledMove
    <2> QED
      BY <2>1, <2>2
  <1>4. ~Closing(t)'
    BY <1>3, NotClosing
  <1> QED
    BY <1>1, <1>2, <1>4, ClosingKept

\* Done is scheduled when nobody closes the node.
LEMMA ScheduleClosing ==
    ASSUME NodeInv, NEW t \in Threads, UNCHANGED configVars, Schedule(t)
    PROVE  ClosingInv'
  <1>1. /\ Moves(t) /\ pc'[t] \in {"scan", "recheck"} /\ Parallel' = Parallel
        /\ pc[t] = "schedule" /\ status' = status /\ BatchInv
    BY ScheduleEffect DEF Schedule, configVars, Parallel, NodeInv
  <1>2. /\ loc[t].timestamp # Done => prepared_context_for_close' = prepared_context_for_close
        /\ Parallel => scheduled' = scheduled \cup {loc[t].timestamp}
    BY DEF Schedule
  <1>3. ~prepared_context_for_close /\ status # "Closed"
    BY <1>1, ScheduledIsNew
  <1>4. ~Closing(t)'
    BY <1>1, NotClosing
  <1>5. CASE loc[t].timestamp # Done
    <2>1. Parallel /\ Done \in scheduled' => Done \in scheduled
      BY <1>2, <1>5
    <2> QED
      BY <1>1, <1>2, <1>4, <1>5, <2>1, ClosingKept
  <1>6. CASE loc[t].timestamp = Done
    <2>1. ASSUME Parallel, NEW w \in Workers PROVE ~Closing(w)'
      <3>1. ~Closing(w)
        BY <1>1, <1>3, <2>1 DEF BatchInv, RunsBatch, Closing
      <3>2. w # t => pc'[w] = pc[w] /\ loc'[w] = loc[w]
        BY <1>1 DEF Moves, Threads
      <3> QED
        BY <1>4, <3>1, <3>2 DEF Closing
    <2> QED
      BY <1>1, <1>3, <2>1 DEF ClosingInv
  <1> QED
    BY <1>5, <1>6

\* Who takes Done from the queue is the only one to close the node.
LEMMA RunClosing ==
    ASSUME NodeInv, NEW w \in Workers, UNCHANGED configVars, RunTask(w)
    PROVE  ClosingInv'
  <1>1. PICK c \in scheduled :
           /\ scheduled' = scheduled \ {c} /\ Moves(w) /\ pc'[w] = "process"
           /\ loc'[w].context = c
    BY RunTaskEffect
  <1>2. /\ Parallel' = Parallel /\ UNCHANGED <<status, prepared_context_for_close>> /\ w \in Threads
        /\ ClosingInv
    BY NodeTypes DEF RunTask, configVars, Parallel, inputVars, NodeInv
  <1>3. CASE c # Done
    <2>1. ~Closing(w)'
      BY <1>1, <1>3 DEF Closing
    <2> QED
      BY <1>1, <1>2, <2>1, ClosingKept
  <1>4. CASE c = Done
    <2>1. ASSUME Parallel, prepared_context_for_close
          PROVE  status # "Closed" /\ \A u \in Workers : Closing(u)' => u = w
      <3>1. status # "Closed" /\ \A u \in Workers : ~Closing(u)
        BY <1>1, <1>2, <1>4, <2>1 DEF ClosingInv
      <3>2. \A u \in Workers \ {w} : pc'[u] = pc[u] /\ loc'[u] = loc[u]
        BY <1>1 DEF Moves, Threads
      <3>3. \A u \in Workers \ {w} : ~Closing(u)'
        BY <3>1, <3>2 DEF Closing
      <3> QED
        BY <3>1, <3>3
    <2>2. Done \notin scheduled'
      BY <1>1, <1>4
    <2>3. status' = "Closed" => prepared_context_for_close'
      BY <1>2 DEF ClosingInv
    <2> QED
      BY <1>2, <2>1, <2>2, <2>3 DEF ClosingInv
  <1> QED
    BY <1>3, <1>4

\* A turn closes the node only as the task that runs Done.
LEMMA TaskClosing ==
    ASSUME NodeInv, NEW w \in Workers, UNCHANGED configVars, Moves(w),
           Process(w) \/ CloseInputStream(w) \/ CloseOutputStreams(w) \/ (~Parallel /\ PostProcess(w))
    PROVE  ClosingInv'
  <1>1. /\ Parallel' = Parallel /\ w \in Threads
        /\ UNCHANGED <<status, scheduled, prepared_context_for_close>>
    BY NodeTypes DEF Process, CloseInputStream, CloseOutputStreams, PostProcess, configVars, Parallel,
                     schedVars, inputVars
  <1>2. Parallel /\ Closing(w)' => Closing(w)
    <2>1. CASE Process(w)
      <3>1. pc[w] = "process"
        BY <2>1 DEF Process
      <3>2. CASE TurnTimestamp(w) = Done
        BY <3>1, <3>2, ClosingTurn DEF Closing
      <3>3. CASE TurnTimestamp(w) # Done
        <4>1. pc'[w] = "post"
          BY <2>1, <3>3, ProcessEffect
        <4> QED
          BY <4>1, NotClosing
      <3> QED
        BY <3>2, <3>3
    <2>2. CASE CloseInputStream(w) \/ CloseOutputStreams(w)
      BY <2>2 DEF CloseInputStream, CloseOutputStreams, Closing
    <2> QED
      BY <2>1, <2>2
  <1> QED
    BY <1>1, <1>2, ClosingKept

\* Once the node is closed nobody closes it again.
LEMMA ClosedClosing ==
    ASSUME NodeInv, NEW w \in Workers, UNCHANGED configVars, Moves(w), NodeClosed(w)
    PROVE  ClosingInv'
  <1>1. /\ Parallel' = Parallel /\ w \in Threads /\ pc[w] = "closed"
        /\ UNCHANGED <<scheduled, prepared_context_for_close>>
        /\ ClosingInv /\ BatchInv /\ PlacesInv
    BY NodeTypes DEF NodeClosed, configVars, Parallel, inputVars, NodeInv
  <1>2. pc'[w] = "end" /\ ~Closing(w)'
    <2>1. pc'[w] = "end"
      BY <1>1, ThreadFacts DEF NodeClosed, Goto
    <2> QED
      BY <2>1, NotClosing
  <1>3. prepared_context_for_close /\ Closing(w)
    BY <1>1 DEF BatchInv, RunsBatch, Closing
  <1>4. ASSUME Parallel PROVE Done \notin scheduled /\ \A u \in Workers : ~Closing(u)'
    <2>1. /\ Done \notin scheduled
          /\ \A u \in Workers : Closing(u) => u = w
      BY <1>1, <1>3, <1>4 DEF ClosingInv
    <2>2. \A u \in Workers \ {w} : pc'[u] = pc[u] /\ loc'[u] = loc[u]
      BY DEF Moves, Threads
    <2>3. \A u \in Workers \ {w} : ~Closing(u)'
      BY <2>1, <2>2 DEF Closing
    <2> QED
      BY <1>2, <2>1, <2>3
  <1> QED
    BY <1>1, <1>3, <1>4 DEF ClosingInv

\* Every step keeps one task at most that closes the node.
LEMMA NodeClosing ==
    ASSUME NodeInv, NEW t \in Threads, UNCHANGED configVars, StepOf(t)
    PROVE  ClosingInv'
  <1>0. Moves(t) /\ Parallel' = Parallel
    BY NodePlaces DEF StepOf, configVars, Parallel
  <1>1. CASE \/ t \in Streams /\ (Produce(t) \/ EndStream(t))
             \/ t \in Workers /\ OpenNode(t)
             \/ PropagatePackets(t) \/ RecycleContext(t) \/ TryBound(t) \/ SendBound(t)
    <2>1. status' = "Closed" => status = "Closed"
      BY <1>1 DEF Produce, EndStream, OpenNode, PropagatePackets, RecycleContext, TryBound, SendBound,
                  schedVars
    <2> QED
      BY <1>0, <1>1, <2>1, GoesLeave, LeavesClosing
  <1>2. CASE CheckIfBecameReady(t) \/ BeginLoop(t) \/ Recheck(t)
             \/ (t \in Workers /\ EndScheduling(t)) \/ ScanStream(t)
    <2>1. status' = status
      BY <1>2 DEF CheckIfBecameReady, BeginLoop, Recheck, EndScheduling, ScanStream, schedVars
    <2> QED
      BY <1>0, <1>2, <2>1, LoopLeaves, LeavesClosing
  <1>3. CASE Decide(t) \/ FillStream(t)
    BY <1>3, PrepareClosing
  <1>4. CASE Schedule(t) \/ (t \in Workers /\ RunTask(t))
    BY <1>4, ScheduleClosing, RunClosing
  <1>5. CASE \/ UpdateTaskTimestampBound(t) \/ PacketsPropagated(t) \/ BoundPropagated(t)
             \/ t \in Workers /\ Parallel /\ PostProcess(t)
    <2>1. status' = status
      BY <1>5 DEF UpdateTaskTimestampBound, PacketsPropagated, BoundPropagated, PostProcess, schedVars
    <2> QED
      BY <1>0, <1>5, <2>1, OutputLeaves, LeavesClosing
  <1>6. CASE t \in Workers /\ (\/ Process(t) \/ CloseInputStream(t) \/ CloseOutputStreams(t)
                               \/ (~Parallel /\ PostProcess(t)))
    BY <1>0, <1>6, TaskClosing
  <1>7. CASE t \in Workers /\ NodeClosed(t)
    BY <1>0, <1>7, ClosedClosing
  <1> QED
    BY <1>1, <1>2, <1>3, <1>4, <1>5, <1>6, <1>7, StepKinds DEF Elsewhere

-----------------------------------------------------------------------------
(* No CHECK fails.                                                         *)

\* A CHECK whose condition holds leaves no trace.
LEMMA CheckPasses ==
    ASSUME NoCheckFails, NEW name, NEW condition, condition, Check(name, condition)
    PROVE  NoCheckFails'
  BY DEF Check, NoCheckFails

\* The actions that check nothing.
ChecksNothing(t) ==
    \/ t \in Streams /\ (Produce(t) \/ EndStream(t))
    \/ CheckIfBecameReady(t) \/ BeginLoop(t) \/ Recheck(t) \/ ScanStream(t)
    \/ PropagatePackets(t) \/ RecycleContext(t) \/ TryBound(t) \/ SendBound(t) \/ PacketsPropagated(t)
    \/ t \in Workers /\ (\/ OpenNode(t) \/ RunTask(t) \/ PostProcess(t) \/ CloseInputStream(t)
                         \/ CloseOutputStreams(t) \/ NodeClosed(t))

\* These actions record no failure.
LEMMA NothingChecked ==
    ASSUME NoCheckFails, NEW t \in Threads, ChecksNothing(t)
    PROVE  NoCheckFails'
  <1>1. failed' = failed
    BY DEF ChecksNothing, Produce, EndStream, CheckIfBecameReady, BeginLoop, Recheck, ScanStream,
           PropagatePackets, RecycleContext, TryBound, SendBound, PacketsPropagated, OpenNode, RunTask,
           PostProcess, CloseInputStream, CloseOutputStreams, NodeClosed
  <1> QED
    BY <1>1 DEF NoCheckFails

\* A context is new, the inputs are selected in order and none is dropped,
\* and there is room for a context that is scheduled.
LEMMA LoopChecks ==
    ASSUME NodeInv, NEW t \in Threads, UNCHANGED configVars,
           Decide(t) \/ FillStream(t) \/ Schedule(t)
    PROVE  NoCheckFails'
  <1>0. NoCheckFails
    BY DEF NodeInv
  <1>1. CASE Decide(t)
    <2>1. pc[t] = "scan" /\ loc[t].i \notin Streams
      BY <1>1 DEF Decide
    <2>2. CASE NotReady(t) \/ PrepareClose(t)
      BY <1>0, <2>2 DEF NotReady, PrepareClose, NoCheckFails
    <2>3. CASE PrepareContext(t)
      <3>1. PICK time : time = InputTimestamp(loc[t].min_packet, loc[t].min_bound)
        OBVIOUS
      <3>2. /\ ReadyForProcess(loc[t].min_packet, loc[t].min_bound)
            /\ Check("context is new", ~Parallel \/ time \notin active_contexts)
        BY <2>3, <3>1 DEF PrepareContext
      <3>3. ~Parallel \/ time \notin active_contexts
        BY <2>1, <3>1, <3>2, ContextIsNew
      <3> QED
        BY <1>0, <3>2, <3>3, CheckPasses
    <2> QED
      BY <1>1, <2>2, <2>3 DEF Decide
  <1>2. CASE FillStream(t)
    <2>1. /\ pc[t] = "fill"
          /\ Check("selected in order, nothing dropped",
                   /\ IsAllowedInStream(loc[t].timestamp)
                   /\ last_select_timestamp[loc[t].i] <= loc[t].timestamp
                   /\ ~DropsPackets(loc[t].i, loc[t].timestamp))
      BY <1>2 DEF FillStream
    <2>2. /\ IsAllowedInStream(loc[t].timestamp)
          /\ last_select_timestamp[loc[t].i] <= loc[t].timestamp
          /\ ~DropsPackets(loc[t].i, loc[t].timestamp)
      BY <1>2, <2>1, FillFacts, FillInputs
    <2> QED
      BY <1>0, <2>1, <2>2, CheckPasses
  <1>3. CASE Schedule(t)
    <2>1. /\ pc[t] = "schedule"
          /\ Check("context is committed to be scheduled", current_in_flight < max_in_flight)
      BY <1>3 DEF Schedule
    <2>2. current_in_flight < max_in_flight
      BY <2>1, RoomNow
    <2> QED
      BY <1>0, <2>1, <2>2, CheckPasses
  <1> QED
    BY <1>1, <1>2, <1>3

\* The bound of the task grows, and a pending propagation has something to
\* do.
LEMMA OutputChecks ==
    ASSUME NodeInv, NEW t \in Threads, UNCHANGED configVars,
           UpdateTaskTimestampBound(t) \/ BoundPropagated(t)
    PROVE  NoCheckFails'
  <1>0. NoCheckFails
    BY DEF NodeInv
  <1>1. CASE UpdateTaskTimestampBound(t)
    <2>1. pc[t] = "bound"
      BY <1>1 DEF UpdateTaskTimestampBound
    <2>2. CASE ~Parallel \/ task_timestamp_bound = loc[t].timestamp
      BY <1>0, <1>1, <2>2 DEF UpdateTaskTimestampBound, NoCheckFails
    <2>3. CASE Parallel /\ task_timestamp_bound # loc[t].timestamp
      <3>1. Check("task bound grows", loc[t].timestamp > task_timestamp_bound)
        BY <1>1, <2>3 DEF UpdateTaskTimestampBound
      <3>2. task_timestamp_bound <= loc[t].timestamp
        BY <2>1, <2>3 DEF NodeInv, InputsInv, KnowsInputs
      <3>3. task_timestamp_bound \in Int /\ loc[t].timestamp \in Int
        BY NodeTypes, SpecialTimestamps
      <3>4. loc[t].timestamp > task_timestamp_bound
        BY <2>3, <3>2, <3>3
      <3> QED
        BY <1>0, <3>1, <3>4, CheckPasses
    <2> QED
      BY <2>2, <2>3
  <1>2. CASE BoundPropagated(t)
    <2>1. pc[t] = "bound_tried"
      BY <1>2 DEF BoundPropagated
    <2>2. CASE propagation_state = "PropagatingBound"
      BY <1>0, <1>2, <2>2 DEF BoundPropagated, NoCheckFails
    <2>3. CASE propagation_state # "PropagatingBound"
      <3>1. Check("propagation is pending",
                  /\ propagation_state = "PropagationPending"
                  /\ active_contexts = {} => loc[t].timestamp < task_timestamp_bound)
        BY <1>2, <2>3 DEF BoundPropagated
      <3>2. PlacesInv /\ PendingInv
        BY DEF NodeInv
      <3>3. pc[t] \in BoundLabels
        BY <2>1 DEF BoundLabels
      <3>4. propagation_state = "PropagationPending"
        BY <2>3, <3>2, <3>3, ThreadFacts DEF Placed, StateFits
      <3>5. active_contexts = {} => loc[t].timestamp < task_timestamp_bound
        BY <3>2, <3>3, <3>4 DEF PendingInv
      <3> QED
        BY <1>0, <3>1, <3>4, <3>5, CheckPasses
    <2> QED
      BY <2>2, <2>3
  <1> QED
    BY <1>1, <1>2

\* No input follows Done, and an invocation that ends was counted.
LEMMA TaskChecks ==
    ASSUME NodeInv, NEW w \in Workers, UNCHANGED configVars, Process(w) \/ EndScheduling(w)
    PROVE  NoCheckFails'
  <1>0. NoCheckFails
    BY DEF NodeInv
  <1>1. CASE Process(w)
    <2>1. pc[w] = "process"
      BY <1>1 DEF Process
    <2>2. CASE TurnTimestamp(w) = Done
      <3>1. Check("no input after the last", Len(batch) = 1)
        BY <1>1, <2>2 DEF Process, TurnTimestamp, Default
      <3>2. Len(batch) = 1
        BY <2>1, <2>2, ClosingTurn
      <3> QED
        BY <1>0, <3>1, <3>2, CheckPasses
    <2>3. CASE TurnTimestamp(w) # Done
      BY <1>0, <1>1, <2>3 DEF Process, TurnTimestamp, Default, NoCheckFails
    <2> QED
      BY <2>2, <2>3
  <1>2. CASE EndScheduling(w)
    <2>1. CASE status # "Opened"
      BY <1>0, <1>2, <2>1 DEF EndScheduling, NoCheckFails
    <2>2. CASE status = "Opened"
      <3>1. pc[w] = "end" /\ Check("in flight", current_in_flight > 0)
        BY <1>2, <2>2 DEF EndScheduling
      <3>2. InTask(w) /\ status # "Closed"
        BY <2>2, <3>1 DEF InTask
      <3>3. current_in_flight > 0
        BY <3>2, TaskIsCounted
      <3> QED
        BY <1>0, <3>1, <3>3, CheckPasses
    <2> QED
      BY <2>1, <2>2
  <1> QED
    BY <1>1, <1>2

\* No CHECK fails.
LEMMA NodeChecks ==
    ASSUME NodeInv, NEW t \in Threads, UNCHANGED configVars, StepOf(t)
    PROVE  NoCheckFails'
  <1>0. NoCheckFails
    BY DEF NodeInv
  <1>1. CASE ChecksNothing(t)
    BY <1>0, <1>1, NothingChecked
  <1>2. CASE Decide(t) \/ FillStream(t) \/ Schedule(t)
    BY <1>2, LoopChecks
  <1>3. CASE UpdateTaskTimestampBound(t) \/ BoundPropagated(t)
    BY <1>3, OutputChecks
  <1>4. CASE t \in Workers /\ (Process(t) \/ EndScheduling(t))
    BY <1>4, TaskChecks
  <1> QED
    BY <1>1, <1>2, <1>3, <1>4, StepKinds DEF Elsewhere, ChecksNothing

-----------------------------------------------------------------------------
(* The invariant.                                                          *)

\* Every step keeps the invariant.
LEMMA NodeInvStep ==
    ASSUME NodeInv, Next
    PROVE  NodeInv'
  <1>1. UNCHANGED configVars
    BY DEF Next
  <1>2. PICK t \in Threads : StepOf(t)
    BY DEF Next, StepOf, Threads
  <1>3. ConfigInv'
    BY <1>1 DEF NodeInv, ConfigInv, configVars, Parallel
  <1>4. PlacesInv'
    BY <1>1, <1>2, NodePlaces DEF StepOf
  <1>5. InputsInv' /\ ContextsInv'
    BY <1>1, <1>2, NodeInputs, NodeContexts
  <1>6. PendingInv' /\ CountInv'
    BY <1>1, <1>2, NodePending, NodeCount
  <1>7. BatchInv' /\ ClosingInv' /\ NoCheckFails'
    BY <1>1, <1>2, NodeBatch, NodeClosing, NodeChecks
  <1> QED
    BY <1>3, <1>4, <1>5, <1>6, <1>7 DEF NodeInv

\* A step that changes nothing.
LEMMA NodeInvStutter ==
    ASSUME NodeInv, UNCHANGED vars
    PROVE  NodeInv'
  <1>1. /\ UNCHANGED <<streamVars, configVars, schedVars, inputVars, contextVars, propVars>>
        /\ UNCHANGED <<failed, pc, loc>>
    BY DEF vars, nodeVars
  <1>2. /\ UNCHANGED <<status, scheduling_state, current_in_flight, scheduled>>
        /\ UNCHANGED <<last_processed_ts, prepared_context_for_close, active_contexts, batch>>
        /\ UNCHANGED <<completed_input_timestamps, task_timestamp_bound, propagation_state>>
        /\ UNCHANGED <<max_in_flight, batch_size, process_timestamps, enable_timestamps>>
        /\ UNCHANGED <<queue, next_timestamp_bound, last_select_timestamp, closed>>
    BY <1>1 DEF streamVars, queueVars, boundVars, configVars, schedVars, inputVars, contextVars, propVars
  <1>3. ConfigInv'
    BY <1>2 DEF NodeInv, ConfigInv, Parallel
  <1>4. PlacesInv'
    BY <1>1, <1>2 DEF NodeInv, PlacesInv, Placed, CallerFits, StateFits, LoopsExclusive, InLoop,
                      InPropagation, Parallel
  <1>5. InputsInv'
    <2>1. StreamsOffer
      BY <1>1, SameStreams
    <2>2. \A t \in Threads : KnowsInputs(t)'
      BY <1>1, <1>2 DEF NodeInv, InputsInv, KnowsInputs, Scanned, Filling, MinTimestampOrBound, Parallel
    <2>3. (Over' <=> Over) /\ (Selected' <=> Selected) /\ \A t \in Threads : AtClose(t)' <=> AtClose(t)
      BY <1>1, <1>2 DEF Over, Ended, KnowsEnd, Selected, AtClose
    <2>4. \A s \in Streams : MinTimestampOrBound(s)' = MinTimestampOrBound(s)
      BY <1>2 DEF MinTimestampOrBound
    <2> QED
      BY <1>1, <1>2, <2>1, <2>2, <2>3, <2>4 DEF NodeInv, InputsInv, StreamsOffer
  <1>6. ContextsInv'
    BY <1>1, <1>2 DEF NodeInv, ContextsInv, ActiveInv, DefaultOnly, Claims, Running, PropagatesFirst,
                      Parallel, Over, Ended, KnowsEnd
  <1>7. PendingInv'
    BY <1>1, <1>2 DEF NodeInv, PendingInv
  <1>8. CountInv'
    BY <1>1, <1>2 DEF NodeInv, CountInv, Tasks, InTask, Parallel
  <1>9. BatchInv'
    BY <1>1, <1>2 DEF NodeInv, BatchInv, DoneIsLast, LoadsBatch, RunsBatch, AtClose, Parallel
  <1>10. ClosingInv'
    BY <1>1, <1>2 DEF NodeInv, ClosingInv, Closing, Parallel
  <1>11. NoCheckFails'
    BY <1>1 DEF NodeInv, NoCheckFails
  <1> QED
    BY <1>3, <1>4, <1>5, <1>6, <1>7, <1>8, <1>9, <1>10, <1>11 DEF NodeInv

\* The invariant holds at first.
LEMMA NodeInvInit ==
    ASSUME Init
    PROVE  NodeInv
  <1>1. /\ status = "Prepared" /\ scheduling_state = "Idle" /\ current_in_flight = 0
        /\ last_processed_ts = Unset /\ prepared_context_for_close = FALSE
        /\ active_contexts = {} /\ batch = <<>> /\ scheduled = {}
        /\ completed_input_timestamps = {} /\ task_timestamp_bound = Unset
        /\ propagation_state = "Idle" /\ failed = {}
    BY DEF Init
  <1>2. \A t \in Threads : pc[t] = Home(t) /\ pc[t] \in {"produce", "free"} /\ loc[t] = NoLocals
    BY DEF Init, Home
  <1>3. \A t \in Threads : loc[t].caller = "none"
    BY <1>2, NoLocalsType
  <1>4. ConfigInv
    <2>1. max_in_flight \in MaxInFlights /\ max_in_flight \in Nat \ {0}
      BY NodeAssumption DEF Init
    <2>2. batch_size \in (IF Parallel THEN {1} ELSE BatchSizes)
      BY DEF Init
    <2>3. /\ batch_size \in Nat \ {0} /\ batch_size \in BatchSizes \cup {1}
          /\ Parallel => batch_size = 1
      BY <2>2, NodeAssumption
    <2>4. process_timestamps \in ProcessTimestamps /\ process_timestamps \in BOOLEAN
      BY NodeAssumption DEF Init
    <2>5. enable_timestamps = [s \in Streams |-> TRUE]
      BY DEF Init
    <2> QED
      BY <2>1, <2>3, <2>4, <2>5 DEF ConfigInv
  <1>5. PlacesInv
    <2>1. pc \in [Threads -> Labels] /\ loc \in [Threads -> Locals]
      <3>1. \A t \in Threads : Home(t) \in Labels
        BY DEF Home, Labels
      <3> QED
        BY <3>1, NoLocalsType DEF Init
    <2>2. \A t \in Threads : ~InLoop(t) /\ ~InPropagation(t)
      BY <1>2, <1>3 DEF InLoop, InPropagation
    <2>3. \A t \in Threads : Placed(t)
      <3> SUFFICES ASSUME NEW t \in Threads PROVE Placed(t)
        OBVIOUS
      <3>1. pc[t] \in {"produce", "free"} /\ loc[t].caller = "none"
        BY <1>2, <1>3
      <3>2. pc[t] \notin TaskLabels /\ pc[t] \notin PropLabels
        BY <3>1 DEF TaskLabels, PropLabels, PacketLabels, BoundLabels
      <3> QED
        BY <3>1, <3>2 DEF Placed, CallerFits, StateFits, PropLabels, LoopLabels
    <2>4. LoopsExclusive
      BY <1>1, <2>2 DEF LoopsExclusive
    <2> QED
      BY <1>1, <2>1, <2>3, <2>4 DEF PlacesInv, Statuses, SchedulingStates, PropagationStates
  <1>6. InputsInv
    <2>1. StreamInv
      BY StreamInvInit DEF Init
    <2>2. \A s \in Streams : /\ queue[s] = <<>> /\ ~closed[s] /\ next_timestamp_bound[s] = PreStream
                             /\ last_select_timestamp[s] = Unstarted
      BY DEF Init, StreamInit
    <2>3. \A s \in Streams : MinTimestampOrBound(s) = PreStream
      BY <2>2 DEF MinTimestampOrBound
    <2>4. QueuesAllowed
      BY <2>2 DEF QueuesAllowed
    <2>5. \A t \in Threads : KnowsInputs(t)
      BY <1>2 DEF KnowsInputs
    <2>6. Selected
      BY <1>1, <2>2, SpecialTimestamps DEF Selected, Later
    <2>7. \A t \in Threads : ~AtClose(t) /\ pc[t] # "schedule"
      BY <1>2 DEF AtClose
    <2>8. \A s \in Streams : task_timestamp_bound <= MinTimestampOrBound(s)
      BY <1>1, <2>3, SpecialTimestamps
    <2>9. last_processed_ts \in Timestamps /\ task_timestamp_bound \in Timestamps
      BY <1>1, NoLocalsType
    <2> QED
      BY <1>1, <2>1, <2>2, <2>4, <2>5, <2>6, <2>7, <2>8, <2>9 DEF InputsInv
  <1>7. ContextsInv
    <2>1. \A t \in Threads : ~Running(t) /\ PropagatesFirst(t) /\ \A c \in Timestamps : ~Claims(t, c)
      BY <1>2 DEF Running, PropagatesFirst, Claims
    <2> QED
      BY <1>1, <2>1 DEF ContextsInv, ActiveInv, DefaultOnly
  <1>8. PendingInv
    BY <1>2 DEF PendingInv, BoundLabels
  <1>9. CountInv
    <2>1. Tasks = {}
      BY <1>2, <1>3 DEF Tasks, InTask, Threads
    <2>2. IsFiniteSet({}) /\ Cardinality({}) = 0
      BY FS_EmptySet
    <2>3. max_in_flight \in Nat
      BY <1>4 DEF ConfigInv
    <2> QED
      BY <1>1, <1>2, <2>1, <2>2, <2>3 DEF CountInv
  <1>10. BatchInv
    <2>1. \A t \in Threads : LoadsBatch(t)
      BY <1>2 DEF LoadsBatch, AtClose
    <2>2. \A w \in Workers : RunsBatch(w)
      BY <1>2 DEF RunsBatch, Threads
    <2>3. DoneIsLast
      BY <1>1 DEF DoneIsLast
    <2> QED
      BY <1>1, <2>1, <2>2, <2>3 DEF BatchInv
  <1>11. ClosingInv
    BY <1>1 DEF ClosingInv
  <1> QED
    BY <1>1, <1>4, <1>5, <1>6, <1>7, <1>8, <1>9, <1>10, <1>11 DEF NodeInv, NoCheckFails

\* The inductive invariant holds throughout.
LEMMA NodeInvHolds == Spec => []NodeInv
  <1>1. Init => NodeInv
    BY NodeInvInit
  <1>2. NodeInv /\ [Next]_vars => NodeInv'
    BY NodeInvStep, NodeInvStutter
  <1> QED
    BY <1>1, <1>2, PTL DEF Spec

-----------------------------------------------------------------------------

\* One thread at a time runs SchedulingLoop() and one PropagationLoop(), and the
\* state variables of the node say whether one does.
THEOREM OneThreadPerLoop == Spec => []LoopsExclusive
  <1>1. NodeInv => LoopsExclusive
    BY DEF NodeInv, PlacesInv
  <1> QED
    BY <1>1, NodeInvHolds, PTL

\* current_in_flight_ is the number of invocations that are queued or run.
THEOREM InvocationsAreCounted == Spec => []InFlightExact
  <1>1. NodeInv => InFlightExact
    BY DEF NodeInv, CountInv, InFlightExact, Tasks
  <1> QED
    BY <1>1, NodeInvHolds, PTL

\* What is completed is active, or was recycled a moment ago.
THEOREM CompletedTimestampsAreKnown == Spec => []CompletedAreActive
  <1>1. NodeInv => CompletedAreActive
    BY DEF NodeInv, ContextsInv, ActiveInv, DefaultOnly, CompletedAreActive
  <1> QED
    BY <1>1, NodeInvHolds, PTL

\* No CHECK of the node and of its handlers ever fails.
THEOREM ChecksHold == Spec => []NoCheckFails
  <1>1. NodeInv => NoCheckFails
    BY DEF NodeInv
  <1> QED
    BY <1>1, NodeInvHolds, PTL

\* The accounting of a node that is fed and run by several threads is right in
\* every state: the four together are what the run of the node checks.
THEOREM NodeIsSound == Spec => []NodeSound
  <1>1. LoopsExclusive /\ InFlightExact /\ CompletedAreActive /\ NoCheckFails
         => NodeSound
    BY DEF NodeSound
  <1> QED
    BY <1>1, OneThreadPerLoop, InvocationsAreCounted,
       CompletedTimestampsAreKnown, ChecksHold, PTL
=============================================================================
