------------------------- MODULE InputStreamManager -------------------------
(***************************************************************************)
(* The input streams of a node (input_stream_manager.cc): the queue of     *)
(* packets that have arrived and the bound on the next timestamp.          *)
(*                                                                         *)
(* A packet is its timestamp.  Every method holds stream_mutex_ while it   *)
(* changes the stream, so a method is one action; the callback about a     *)
(* queue that became full or not full is made after the mutex is released  *)
(* and is an action of its own.  Packet type validation is not modelled.   *)
(***************************************************************************)
EXTENDS Timestamp, Sequences, FiniteSets

CONSTANTS Streams,     \* the input streams
          MaxQueueSizes, \* the values given to SetMaxQueueSize(), -1 for none
          MaxList,     \* bound: packets added in one call
          MaxAdded,    \* bound: packets added to a stream
          MaxDue       \* bound: callbacks about a stream that are under way

ASSUME StreamAssumption ==
    /\ MaxQueueSizes \subseteq {-1} \cup (Nat \ {0})
    /\ MaxList \in Nat \ {0} /\ MaxAdded \in Nat /\ MaxDue \in Nat \ {0}

VARIABLES enable_timestamps,     \* FALSE after DisableTimestamps()
          queue,                 \* queue_: the timestamps of the packets
          next_timestamp_bound,
          last_select_timestamp,
          closed,
          num_packets_added,
          max_queue_size,
          last_reported_full,    \* last_reported_stream_full_
          due,                   \* callbacks decided on and not yet made
          refused                \* a call failed: error_callback_ ends the run

queueVars  == <<queue, num_packets_added>>
sizeVars   == <<max_queue_size, last_reported_full, due>>
boundVars  == <<next_timestamp_bound, last_select_timestamp, closed>>
streamVars == <<enable_timestamps, queueVars, sizeVars, boundVars, refused>>

Timed == {s \in Streams : enable_timestamps[s]}

PacketLists == UNION {[1 .. n -> Timestamps] : n \in 1 .. MaxList}

-----------------------------------------------------------------------------

\* PrepareForRun(); DisableTimestamps() and the queue sizes are older.
StreamInit ==
    /\ enable_timestamps \in [Streams -> BOOLEAN]
    /\ queue = [s \in Streams |-> <<>>]
    /\ next_timestamp_bound = [s \in Streams |-> PreStream]
    /\ last_select_timestamp = [s \in Streams |-> Unstarted]
    /\ closed = [s \in Streams |-> FALSE]
    /\ num_packets_added = [s \in Streams |-> 0]
    /\ max_queue_size \in [Streams -> MaxQueueSizes]
    /\ last_reported_full = [s \in Streams |-> FALSE]
    /\ due = [s \in Streams |-> 0]
    /\ refused = [s \in Streams |-> FALSE]

Full(length, max) == max # -1 /\ length >= max

IsFull(s) == Full(Len(queue[s]), max_queue_size[s])

\* A method that leaves the queue of s at this length owes a callback when
\* that makes the queue full or not full any more.
OweCallback(s, length, max) ==
    due' = IF Full(length, max) # IsFull(s) THEN [due EXCEPT ![s] = @ + 1] ELSE due

MinTimestampOrBound(s) ==
    IF queue[s] = <<>> THEN next_timestamp_bound[s] ELSE Head(queue[s])

-----------------------------------------------------------------------------

\* The tests a packet of a list passes before it is queued.  Each packet moves
\* the bound past itself, so the packets before it have to be earlier, too.
AcceptsPacket(s, packets, i) ==
    /\ IsAllowedInStream(packets[i])
    /\ enable_timestamps[s] =>
          /\ packets[i] = PostStream => num_packets_added[s] + i - 1 = 0
          /\ packets[i] >= next_timestamp_bound[s]
          /\ \A j \in 1 .. i - 1 : packets[i] >= NextAllowedInStream(packets[j])

\* The first n packets are queued; the packet after them is refused, which
\* ends the call with an error and without a callback or a notification.
QueuePackets(s, packets, n) ==
    /\ \A i \in 1 .. n : AcceptsPacket(s, packets, i)
    /\ n < Len(packets) => ~AcceptsPacket(s, packets, n + 1)
    /\ queue' = [queue EXCEPT ![s] = @ \o SubSeq(packets, 1, n)]
    /\ num_packets_added' = [num_packets_added EXCEPT ![s] = @ + n]
    /\ next_timestamp_bound' =
          IF n = 0 THEN next_timestamp_bound
          ELSE [next_timestamp_bound EXCEPT ![s] = NextAllowedInStream(packets[n])]

AddPackets(s, packets) ==
    /\ UNCHANGED <<last_select_timestamp, closed, max_queue_size, last_reported_full>>
    /\ \/ closed[s] /\ UNCHANGED <<queueVars, next_timestamp_bound, due, refused>>
       \/ /\ ~closed[s]
          /\ \E n \in 0 .. Len(packets) :
                /\ QueuePackets(s, packets, n)
                /\ IF n = Len(packets)
                   THEN /\ OweCallback(s, Len(queue[s]) + n, max_queue_size[s])
                        /\ UNCHANGED refused
                   ELSE /\ refused' = [refused EXCEPT ![s] = TRUE]
                        /\ UNCHANGED due

\* *notify of a call that accepts all packets
AddPacketsNotifies(s) == ~closed[s] /\ queue[s] = <<>>

\* Seeded fault: an earlier bound is reported and set all the same.
SetAnyBound(s, bound) ==
    /\ next_timestamp_bound' =
          [next_timestamp_bound EXCEPT ![s] = IF ~closed[s] THEN bound ELSE @]
    /\ UNCHANGED <<queueVars, sizeVars, last_select_timestamp, closed, refused>>

SetNextTimestampBound(s, bound) ==
    /\ next_timestamp_bound' =
          [next_timestamp_bound EXCEPT ![s] =
             IF ~closed[s] /\ bound > @ THEN bound ELSE @]
    /\ refused' =
          [refused EXCEPT ![s] =
             @ \/ (~closed[s] /\ enable_timestamps[s] /\ bound < next_timestamp_bound[s])]
    /\ UNCHANGED <<queueVars, sizeVars, last_select_timestamp, closed>>

\* *notify of the call
SetBoundNotifies(s, bound) ==
    ~closed[s] /\ bound > next_timestamp_bound[s] /\ queue[s] = <<>>

Close(s) ==
    /\ closed' = [closed EXCEPT ![s] = TRUE]
    /\ next_timestamp_bound' = [next_timestamp_bound EXCEPT ![s] = Done]
    /\ last_select_timestamp' = [last_select_timestamp EXCEPT ![s] = Done]
    /\ UNCHANGED <<queueVars, sizeVars, refused>>

-----------------------------------------------------------------------------

\* while (!queue_.empty() && <the front is out>) queue_.pop_front()
PopWhile(s, Out(_), k) ==
    /\ \A i \in 1 .. k : Out(queue[s][i])
    /\ k < Len(queue[s]) => ~Out(queue[s][k + 1])
    /\ queue' = [queue EXCEPT ![s] = SubSeq(@, k + 1, Len(@))]
    /\ OweCallback(s, Len(queue[s]) - k, max_queue_size[s])

\* The caller is told of a dropped packet (*num_packets_dropped): one of the
\* packets popped is not the one at the timestamp asked for.
DropsPackets(s, timestamp) ==
    \E k \in 1 .. Len(queue[s]) :
       /\ \A i \in 1 .. k : queue[s][i] <= timestamp
       /\ queue[s][k] < timestamp \/ k > 1

\* Seeded fault: the bound stays when the selection passes it.
PopWithoutBound(s, timestamp) ==
    /\ last_select_timestamp' = [last_select_timestamp EXCEPT ![s] = timestamp]
    /\ \E k \in 0 .. Len(queue[s]) :
          LET Out(t) == t <= timestamp IN PopWhile(s, Out, k)
    /\ UNCHANGED <<next_timestamp_bound, num_packets_added, closed, max_queue_size,
                   last_reported_full, refused>>

\* The caller guarantees that time does not run backwards (CHECK_LE).
PopPacketAtTimestamp(s, timestamp) ==
    /\ last_select_timestamp' = [last_select_timestamp EXCEPT ![s] = timestamp]
    /\ next_timestamp_bound' =
          [next_timestamp_bound EXCEPT ![s] =
             IF @ <= timestamp THEN NextAllowedInStream(timestamp) ELSE @]
    /\ \E k \in 0 .. Len(queue[s]) :
          LET Out(t) == t <= timestamp IN PopWhile(s, Out, k)
    /\ UNCHANGED <<num_packets_added, closed, max_queue_size, last_reported_full, refused>>

PopQueueHead(s) ==
    /\ IF queue[s] = <<>>
       THEN UNCHANGED <<queue, due>>
       ELSE /\ queue' = [queue EXCEPT ![s] = Tail(@)]
            /\ OweCallback(s, Len(queue[s]) - 1, max_queue_size[s])
    /\ UNCHANGED <<boundVars, num_packets_added, max_queue_size, last_reported_full, refused>>

ErasePacketsEarlierThan(s, timestamp) ==
    /\ \E k \in 0 .. Len(queue[s]) :
          LET Out(t) == t < timestamp IN PopWhile(s, Out, k)
    /\ UNCHANGED <<boundVars, num_packets_added, max_queue_size, last_reported_full, refused>>

SetMaxQueueSize(s, size) ==
    /\ max_queue_size' = [max_queue_size EXCEPT ![s] = size]
    /\ OweCallback(s, Len(queue[s]), size)
    /\ UNCHANGED <<queueVars, boundVars, last_reported_full, refused>>

\* becomes_full_callback_ and becomes_not_full_callback_ are both
\* UpdateThrottledNodes, which asks the stream again.
QueueSizeCallback(s) ==
    /\ due[s] > 0
    /\ due' = [due EXCEPT ![s] = @ - 1]
    /\ last_reported_full' = [last_reported_full EXCEPT ![s] = IsFull(s)]
    /\ UNCHANGED <<queueVars, boundVars, max_queue_size, refused>>

-----------------------------------------------------------------------------

\* The calls a stream may get.  The upstream node adds packets and raises the
\* bound with any arguments; the handler of a timed stream pops at allowed
\* timestamps that do not decrease, that of an untimed one pops the head.
StreamStep(s) ==
    \/ \E packets \in PacketLists :
          /\ num_packets_added[s] + Len(packets) <= MaxAdded
          /\ due[s] < MaxDue
          /\ AddPackets(s, packets)
    \/ \E bound \in Timestamps : SetNextTimestampBound(s, bound)
    \/ Close(s)
    \/ \E timestamp \in Timestamps :
          /\ enable_timestamps[s] /\ IsAllowedInStream(timestamp)
          /\ last_select_timestamp[s] <= timestamp
          /\ due[s] < MaxDue
          /\ PopPacketAtTimestamp(s, timestamp)
    \/ ~enable_timestamps[s] /\ due[s] < MaxDue /\ PopQueueHead(s)
    \/ \E timestamp \in Timestamps :
          due[s] < MaxDue /\ ErasePacketsEarlierThan(s, timestamp)
    \/ \E size \in MaxQueueSizes : due[s] < MaxDue /\ SetMaxQueueSize(s, size)
    \/ QueueSizeCallback(s)

StreamNext == UNCHANGED enable_timestamps /\ \E s \in Streams : StreamStep(s)

StreamSpec == StreamInit /\ [][StreamNext]_streamVars

-----------------------------------------------------------------------------

\* Type invariant.
StreamTypeOK ==
    /\ enable_timestamps \in [Streams -> BOOLEAN]
    /\ queue \in [Streams -> Seq(Timestamps)]
    /\ next_timestamp_bound \in [Streams -> Timestamps]
    /\ last_select_timestamp \in [Streams -> Timestamps]
    /\ closed \in [Streams -> BOOLEAN]
    /\ num_packets_added \in [Streams -> Nat]
    /\ max_queue_size \in [Streams -> {-1} \cup Nat]
    /\ last_reported_full \in [Streams -> BOOLEAN]
    /\ due \in [Streams -> Nat]
    /\ refused \in [Streams -> BOOLEAN]

\* The packets of a timed stream wait in the order of their timestamps, all
\* of them earlier than the bound, and none of them at or before the last
\* timestamp the node has selected: a packet can neither be overtaken nor
\* arrive after its input set was made (AddOrMovePacketsInternal and
\* PopPacketAtTimestamp together).
QueueInOrder ==
    \A s \in Timed :
       /\ \A i, j \in 1 .. Len(queue[s]) : i < j => queue[s][i] < queue[s][j]
       /\ \A i \in 1 .. Len(queue[s]) :
             /\ queue[s][i] < next_timestamp_bound[s]
             /\ ~closed[s] => last_select_timestamp[s] < queue[s][i]

\* "If a packet has the timestamp Timestamp::PreStream() or
\* Timestamp::PostStream(), the packet must be the only packet in the stream"
\* (input_stream_manager.h:86): while one waits, nothing else was ever added.
SpecialPacketsAlone ==
    \A s \in Timed :
       \A i \in 1 .. Len(queue[s]) :
          queue[s][i] \in {PreStream, PostStream} => num_packets_added[s] = 1

\* The bound a downstream node relies on is never taken back on a timed
\* stream, whatever is added, announced, selected or closed.
BoundNeverDecreases ==
    [][\A s \in Timed :
          next_timestamp_bound'[s] >= next_timestamp_bound[s]]_streamVars

\* Callbacks are made without a lock and may overtake each other; when none is
\* under way, the throttling logic has the right idea of every stream whose
\* calls have all succeeded.
FullnessReported ==
    \A s \in Streams :
       due[s] = 0 /\ ~refused[s] => last_reported_full[s] = IsFull(s)

\* A stream between its producers, its node and the throttling logic: packets
\* in order and below the bound, special timestamps alone, fullness reported.
StreamQueueSound == StreamTypeOK /\ QueueInOrder /\ SpecialPacketsAlone /\ FullnessReported
=============================================================================
