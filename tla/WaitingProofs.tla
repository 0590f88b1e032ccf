---------------------------- MODULE WaitingProofs ----------------------------
(***************************************************************************)
(* Proofs about the components somebody waits on: for every number of      *)
(* producers and every range of timestamps what the application gets is    *)
(* the stream, in order and without gaps, and what is reported as settled  *)
(* stays settled; and for every number of workers, clocks, threads and     *)
(* contexts the pool leaves no task, time does not go back or pass a task  *)
(* that runs, and a sync point covers the commands before it.              *)
(***************************************************************************)
EXTENDS MCWaiting, InputStreamProofs, SequenceTheorems, FiniteSetTheorems, NumberLemmas

\* A thread is in the loop of OutputStreamObserver::Notify().
InLoop(p) == at[p] \in {"loop", "pop", "settle", "check"}

WatchersTypeOK ==
    /\ observe_timestamp_bounds \in BOOLEAN
    /\ at \in [Producers -> {"idle", Observer, Poller, "loop", "pop", "settle", "check"}]
    /\ min_timestamp \in [Producers -> Timestamps]
    /\ notifying \in BOOLEAN
    /\ last_processed_ts \in Timestamps /\ Unstarted <= last_processed_ts
    /\ polling \in {"out", "waiting", "pop", "done"}
    /\ output_timestamp \in Timestamps
    /\ graph_has_error \in BOOLEAN
    /\ emitted \in [Streams -> Seq(Timestamps)]
    /\ received \in [Streams -> Seq(Timestamps)]
    /\ settledTimes \in Seq(Timestamps)

\* The mirrors are timed, open, and hold packets of the producers.
MirrorsInv ==
    /\ StreamInv
    /\ \A s \in Streams :
          /\ enable_timestamps[s] /\ ~closed[s]
          /\ \A i \in 1 .. Len(queue[s]) :
                queue[s][i] \in MirrorTimes /\ IsAllowedInStream(queue[s][i])

\* What was emitted was received or waits.
NothingLost == \A s \in Streams : emitted[s] = received[s] \o queue[s]

\* One thread is in the loop of the observer, and it knows the next packet;
\* a failed callback leaves it with notifying_ set for ever.
ObserverInv ==
    /\ \A p, q \in Producers : InLoop(p) /\ InLoop(q) => p = q
    /\ \A p \in Producers : InLoop(p) => Observer \in Streams /\ notifying /\ ~graph_has_error
    /\ \A p \in Producers : at[p] = Observer => Observer \in Streams
    /\ \A p \in Producers : at[p] = "pop" =>
          queue[Observer] # <<>> /\ Head(queue[Observer]) = min_timestamp[p]
    /\ graph_has_error => notifying

\* So does the application in Next().
PollerInv ==
    polling = "pop" =>
       Poller \in Streams /\ queue[Poller] # <<>> /\ Head(queue[Poller]) = output_timestamp

WatchInv == WatchersTypeOK /\ MirrorsInv /\ NothingLost /\ ObserverInv /\ PollerInv

-----------------------------------------------------------------------------
\* The timestamp before another is earlier, unless there is none.
LEMMA PreviousIsEarlier ==
    ASSUME NEW t \in Timestamps
    PROVE  /\ PreviousAllowedInStream(t) \in Timestamps
           /\ Unstarted < PreviousAllowedInStream(t) => PreviousAllowedInStream(t) < t
  BY RangeAssumption
     DEF PreviousAllowedInStream, Plus, Timestamps, Unset, Unstarted, PreStream, PostStream,
         OneOverPostStream, Done

\* A packet of a list of one.
LEMMA OnlyPacket ==
    ASSUME NEW t
    PROVE  SubSeq(<<t>>, 1, 1) = <<t>>
  <1> DEFINE v == <<t>>
             u == SubSeq(v, 1, 1)
  <1>1. v \in Seq({t}) /\ Len(v) = 1 /\ \A i \in 1 .. 1 : v[i] = t
    OBVIOUS
  <1> HIDE DEF v
  <1>2. u \in Seq({t}) /\ Len(u) = 1
    BY <1>1, SubSeqProperties
  <1>3. \A i \in 1 .. 1 : u[i] = t
    BY <1>2
  <1> HIDE DEF u
  <1>4. u = v
    BY <1>1, <1>2, <1>3, SeqEqual
  <1> QED
    BY <1>4 DEF u, v

\* What is received and what waits, when a packet comes and when one is taken.
LEMMA PacketJoins ==
    ASSUME NEW S, NEW r \in Seq(S), NEW q \in Seq(S), NEW t \in S
    PROVE  r \o Append(q, t) = Append(r \o q, t)
  OBVIOUS

LEMMA PacketLeaves ==
    ASSUME NEW S, NEW r \in Seq(S), NEW q \in Seq(S), q # <<>>
    PROVE  /\ Append(r, Head(q)) \o Tail(q) = r \o q
           /\ Len(r) < Len(r \o q) /\ (r \o q)[Len(r) + 1] = Head(q)
  <1> DEFINE a == Append(r, Head(q)) \o Tail(q)
             b == r \o q
  <1>1. /\ Head(q) \in S /\ Tail(q) \in Seq(S) /\ Len(Tail(q)) = Len(q) - 1
        /\ \A i \in 1 .. Len(q) - 1 : Tail(q)[i] = q[i + 1]
        /\ Head(q) = q[1] /\ Len(q) \in Nat \ {0} /\ Len(r) \in Nat
    OBVIOUS
  <1>2. /\ Append(r, Head(q)) \in Seq(S) /\ Len(Append(r, Head(q))) = Len(r) + 1
        /\ \A i \in 1 .. Len(r) : Append(r, Head(q))[i] = r[i]
        /\ Append(r, Head(q))[Len(r) + 1] = Head(q)
    BY <1>1
  <1>3. /\ b \in Seq(S) /\ Len(b) = Len(r) + Len(q)
        /\ \A i \in 1 .. Len(r) + Len(q) : b[i] = IF i <= Len(r) THEN r[i] ELSE q[i - Len(r)]
    BY ConcatProperties
  <1>4. /\ a \in Seq(S) /\ Len(a) = Len(r) + Len(q)
        /\ \A i \in 1 .. Len(r) + Len(q) :
              a[i] = IF i <= Len(r) + 1 THEN Append(r, Head(q))[i] ELSE Tail(q)[i - (Len(r) + 1)]
    <2>1. a \in Seq(S) /\ Len(a) = (Len(r) + 1) + (Len(q) - 1)
      BY <1>1, <1>2, ConcatProperties
    <2>2. \A i \in 1 .. (Len(r) + 1) + (Len(q) - 1) :
            a[i] = IF i <= Len(r) + 1 THEN Append(r, Head(q))[i] ELSE Tail(q)[i - (Len(r) + 1)]
      BY <1>1, <1>2, ConcatProperties
    <2>3. (Len(r) + 1) + (Len(q) - 1) = Len(r) + Len(q)
      BY <1>1
    <2> QED
      BY <2>1, <2>2, <2>3
  <1>5. ASSUME NEW i \in 1 .. Len(r) + Len(q) PROVE a[i] = b[i]
    <2>1. CASE i <= Len(r)
      BY <2>1, <1>1, <1>2, <1>3, <1>4
    <2>2. CASE i = Len(r) + 1
      BY <2>2, <1>1, <1>2, <1>3, <1>4
    <2>3. CASE i > Len(r) + 1
      <3>1. a[i] = Tail(q)[i - (Len(r) + 1)]
        BY <2>3, <1>1, <1>4
      <3>2. i - (Len(r) + 1) \in 1 .. Len(q) - 1 /\ (i - (Len(r) + 1)) + 1 = i - Len(r)
        BY <2>3, <1>1
      <3>3. b[i] = q[i - Len(r)]
        BY <2>3, <1>1, <1>3
      <3> QED
        BY <1>1, <3>1, <3>2, <3>3
    <2> QED
      BY <1>1, <2>1, <2>2, <2>3
  <1>6. a = b
    <2> HIDE DEF a, b
    <2> QED
      BY <1>3, <1>4, <1>5, SeqEqual
  <1>7. Len(r) < Len(b) /\ b[Len(r) + 1] = Head(q)
    <2>1. Len(r) + 1 \in 1 .. Len(r) + Len(q) /\ (Len(r) + 1) - Len(r) = 1
      BY <1>1
    <2> QED
      BY <1>1, <1>3, <2>1
  <1> QED
    BY <1>6, <1>7

\* A packet that is accepted joins its mirror.
LEMMA EmitStep ==
    ASSUME WatchInv, NEW s \in Streams, NEW t \in MirrorTimes, AcceptsPacket(s, <<t>>, 1),
           AddPackets(s, <<t>>), UNCHANGED enable_timestamps
    PROVE  /\ MirrorsInv'
           /\ queue' = [queue EXCEPT ![s] = Append(@, t)]
           /\ t \in Timestamps /\ IsAllowedInStream(t) /\ next_timestamp_bound[s] <= t
           /\ t < next_timestamp_bound'[s]
           /\ \A r \in Streams \ {s} : next_timestamp_bound'[r] = next_timestamp_bound[r]
  <1> DEFINE packets == <<t>>
  <1>1. StreamInv /\ StreamTypeOK /\ enable_timestamps[s] /\ ~closed[s]
    BY DEF WatchInv, MirrorsInv, StreamInv
  <1>2. t \in Timestamps /\ t \in Int
    BY MirrorAssumption, SpecialTimestamps
  <1>3. packets \in PacketLists /\ packets \in Seq(Timestamps) /\ Len(packets) = 1 /\ packets[1] = t
    <2>1. packets \in [1 .. 1 -> Timestamps]
      BY <1>2
    <2>2. 1 \in 1 .. MaxList
      BY StreamAssumption
    <2> QED
      BY <1>2, <2>1, <2>2 DEF PacketLists
  <1>4. QueuePackets(s, packets, 1)
    <2>1. PICK n \in 0 .. 1 : QueuePackets(s, packets, n)
      BY <1>1, <1>3 DEF AddPackets
    <2>2. n # 0
      BY <1>3, <2>1 DEF QueuePackets
    <2> QED
      BY <2>1, <2>2
  <1>5. SubSeq(packets, 1, 1) = <<t>>
    BY OnlyPacket
  <1>6. queue' = [queue EXCEPT ![s] = @ \o <<t>>]
    BY <1>4, <1>5 DEF QueuePackets
  <1>7. next_timestamp_bound' = [next_timestamp_bound EXCEPT ![s] = NextAllowedInStream(t)]
    BY <1>3, <1>4 DEF QueuePackets
  <1>8. queue[s] \in Seq(Timestamps) /\ queue[s] \o <<t>> = Append(queue[s], t)
    BY <1>1, <1>2 DEF StreamTypeOK
  <1>9. IsAllowedInStream(t) /\ next_timestamp_bound[s] <= t /\ next_timestamp_bound[s] \in Int
    BY <1>1, <1>2, <1>3, SpecialTimestamps DEF AcceptsPacket, StreamTypeOK
  <1>10. t < NextAllowedInStream(t)
    BY <1>2, <1>9, NextIsLater DEF IsAllowedInStream
  <1>11. StreamInv'
    BY <1>1, <1>3, AddPacketsStep
  <1>12. MirrorsInv'
    <2>1. \A r \in Streams : enable_timestamps'[r] /\ ~closed'[r]
      BY DEF WatchInv, MirrorsInv, AddPackets
    <2>2. ASSUME NEW r \in Streams, NEW i \in 1 .. Len(queue'[r])
          PROVE  queue'[r][i] \in MirrorTimes /\ IsAllowedInStream(queue'[r][i])
      <3>1. CASE r = s
        <4>1. queue'[s] = Append(queue[s], t)
          BY <1>1, <1>6, <1>8 DEF StreamTypeOK
        <4>2. \/ i \in 1 .. Len(queue[s]) /\ queue'[s][i] = queue[s][i]
              \/ queue'[s][i] = t
          BY <1>8, <2>2, <3>1, <4>1
        <4> QED
          BY <1>9, <3>1, <4>2 DEF WatchInv, MirrorsInv
      <3>2. CASE r # s
        <4>1. queue'[r] = queue[r]
          BY <1>1, <1>6, <3>2 DEF StreamTypeOK
        <4> QED
          BY <2>2, <4>1 DEF WatchInv, MirrorsInv
      <3> QED
        BY <3>1, <3>2
    <2> QED
      BY <1>11, <2>1, <2>2 DEF MirrorsInv
  <1> QED
    BY <1>1, <1>2, <1>6, <1>7, <1>8, <1>9, <1>10, <1>12 DEF StreamTypeOK

\* Announcing a bound leaves the packets alone.
LEMMA BoundStep ==
    ASSUME WatchInv, NEW s \in Streams, NEW bound \in Timestamps,
           SetNextTimestampBound(s, bound), UNCHANGED enable_timestamps
    PROVE  /\ MirrorsInv' /\ queue' = queue
           /\ \A r \in Streams : next_timestamp_bound[r] <= next_timestamp_bound'[r]
  <1>1. StreamInv' /\ BoundsKept
    BY SetBoundStep DEF WatchInv, MirrorsInv
  <1>2. queue' = queue /\ closed' = closed
    BY DEF SetNextTimestampBound, queueVars
  <1>3. Timed = Streams
    BY DEF WatchInv, MirrorsInv, Timed
  <1>4. \A r \in Streams : next_timestamp_bound[r] \in Int /\ next_timestamp_bound'[r] \in Int
    BY <1>1, SpecialTimestamps DEF WatchInv, MirrorsInv, StreamInv, StreamTypeOK
  <1> QED
    BY <1>1, <1>2, <1>3, <1>4 DEF WatchInv, MirrorsInv, BoundsKept

\* The next packet, and it alone, is popped at its timestamp.
LEMMA PopNextStep ==
    ASSUME WatchInv, NEW s \in Streams, queue[s] # <<>>, NEW t, t = Head(queue[s]),
           PopPacketAtTimestamp(s, t), UNCHANGED enable_timestamps
    PROVE  /\ MirrorsInv'
           /\ queue' = [queue EXCEPT ![s] = Tail(@)]
           /\ UNCHANGED next_timestamp_bound
           /\ t \in MirrorTimes /\ t \in Timestamps /\ t < next_timestamp_bound[s]
           /\ \A i \in 1 .. Len(queue'[s]) : t < queue'[s][i]
  <1> DEFINE q == queue[s]
  <1>1. /\ StreamInv /\ StreamTypeOK /\ s \in Timed /\ TimedInv(s)
        /\ q \in Seq(Timestamps) /\ Len(q) \in Nat \ {0} /\ t = q[1] /\ 1 \in 1 .. Len(q)
    BY DEF WatchInv, MirrorsInv, StreamInv, StreamTypeOK, Timed
  <1>2. t \in MirrorTimes /\ t \in Timestamps /\ IsAllowedInStream(t) /\ t \in Int
    BY <1>1, MirrorAssumption, SpecialTimestamps DEF WatchInv, MirrorsInv
  <1>3. StreamInv'
    BY <1>1, <1>2, SelectStep
  <1>4. /\ \A i \in 2 .. Len(q) : t < q[i]
        /\ t < next_timestamp_bound[s]
    BY <1>1 DEF TimedInv, OrderInv
  <1>5. PICK k \in 0 .. Len(q) :
          /\ \A i \in 1 .. k : q[i] <= t
          /\ k < Len(q) => ~(q[k + 1] <= t)
          /\ queue' = [queue EXCEPT ![s] = SubSeq(@, k + 1, Len(@))]
    BY DEF PopPacketAtTimestamp, PopWhile
  <1>6. k = 1
    <2>1. k # 0
      BY <1>1, <1>2, <1>5
    <2>2. ASSUME k > 1 PROVE FALSE
      <3>1. 2 \in 1 .. k /\ 2 \in 2 .. Len(q)
        BY <1>1, <1>5, <2>2
      <3>2. q[2] <= t /\ t < q[2]
        BY <1>4, <1>5, <3>1
      <3>3. q[2] \in Timestamps /\ q[2] \in Int
        <4>1. q[2] \in Timestamps
          BY <1>1, <3>1
        <4> QED
          BY <4>1, SpecialTimestamps
      <3> QED
        BY <1>2, <3>2, <3>3
    <2> QED
      BY <1>5, <2>1, <2>2
  <1>7. SubSeq(q, 2, Len(q)) = Tail(q)
    BY <1>1
  <1>8. queue' = [queue EXCEPT ![s] = Tail(@)] /\ queue'[s] = Tail(q)
    <2>1. queue' = [queue EXCEPT ![s] = SubSeq(queue[s], 2, Len(queue[s]))]
      BY <1>5, <1>6
    <2>2. queue' = [queue EXCEPT ![s] = Tail(queue[s])]
      BY <1>7, <2>1
    <2> QED
      BY <1>1, <2>2 DEF StreamTypeOK
  <1>9. \A i \in 1 .. Len(Tail(q)) : i + 1 \in 2 .. Len(q) /\ Tail(q)[i] = q[i + 1]
    BY <1>1
  <1>10. \A i \in 1 .. Len(queue'[s]) : t < queue'[s][i]
    BY <1>4, <1>8, <1>9
  <1>11. UNCHANGED next_timestamp_bound
    <2>1. ~(next_timestamp_bound[s] <= t)
      <3>1. next_timestamp_bound[s] \in Int
        BY <1>1, SpecialTimestamps DEF StreamTypeOK
      <3> QED
        BY <1>2, <1>4, <3>1
    <2> QED
      BY <1>1, <2>1 DEF PopPacketAtTimestamp, StreamTypeOK
  <1>12. MirrorsInv'
    <2>1. \A r \in Streams : enable_timestamps'[r] /\ ~closed'[r]
      BY DEF WatchInv, MirrorsInv, PopPacketAtTimestamp
    <2>2. ASSUME NEW r \in Streams, NEW i \in 1 .. Len(queue'[r])
          PROVE  \E j \in 1 .. Len(queue[r]) : queue'[r][i] = queue[r][j]
      <3>1. CASE r = s
        BY <1>1, <1>8, <1>9, <2>2, <3>1
      <3>2. CASE r # s
        <4>1. queue'[r] = queue[r]
          BY <1>1, <1>8, <3>2 DEF StreamTypeOK
        <4> QED
          BY <2>2, <4>1
      <3> QED
        BY <3>1, <3>2
    <2>3. \A r \in Streams : \A j \in 1 .. Len(queue[r]) :
             queue[r][j] \in MirrorTimes /\ IsAllowedInStream(queue[r][j])
      BY DEF WatchInv, MirrorsInv
    <2>4. ASSUME NEW r \in Streams, NEW i \in 1 .. Len(queue'[r])
          PROVE  queue'[r][i] \in MirrorTimes /\ IsAllowedInStream(queue'[r][i])
      <3>1. PICK j \in 1 .. Len(queue[r]) : queue'[r][i] = queue[r][j]
        BY <2>2
      <3> QED
        BY <2>3, <3>1
    <2> QED
      BY <1>3, <2>1, <2>4 DEF MirrorsInv
  <1> QED
    BY <1>2, <1>4, <1>8, <1>10, <1>11, <1>12

-----------------------------------------------------------------------------
\* What the two views of the application need to know of a step.
LEMMA NoStreamStep ==
    ASSUME WatchInv, UNCHANGED streamVars
    PROVE  MirrorsInv'
  BY DEF WatchInv, MirrorsInv, StreamInv, StreamTypeOK, Timed, TimedInv, BoundsInv, OrderInv,
         SpecialInv, streamVars, queueVars, boundVars, sizeVars, IsAllowedInStream

LEMMA Waiting ==
    ASSUME WatchInv, NEW s \in Streams
    PROVE  /\ queue[s] \in Seq(Timestamps) /\ received[s] \in Seq(Timestamps)
           /\ emitted[s] \in Seq(Timestamps)
           /\ queue \in [Streams -> Seq(Timestamps)]
           /\ next_timestamp_bound[s] \in Timestamps
           /\ MinTimestampOrBound(s) \in Timestamps
  <1>1. queue[s] \in Seq(Timestamps) /\ next_timestamp_bound[s] \in Timestamps
        /\ queue \in [Streams -> Seq(Timestamps)]
    BY DEF WatchInv, MirrorsInv, StreamInv, StreamTypeOK
  <1>2. queue[s] # <<>> => Head(queue[s]) \in Timestamps
    BY <1>1
  <1> QED
    BY <1>1, <1>2 DEF WatchInv, WatchersTypeOK, MinTimestampOrBound

LEMMA EmitPacketKeepsInv ==
    ASSUME WatchInv, NEW p \in Producers, NEW s \in Streams, NEW t \in MirrorTimes,
           EmitPacket(p, s, t)
    PROVE  WatchInv'
  <1>1. /\ MirrorsInv' /\ queue' = [queue EXCEPT ![s] = Append(@, t)] /\ t \in Timestamps
    BY EmitStep DEF EmitPacket
  <1>2. /\ emitted' = [emitted EXCEPT ![s] = Append(@, t)]
        /\ at[p] = "idle"
        /\ at' = [at EXCEPT ![p] = s] \/ at' = [at EXCEPT ![p] = "idle"]
        /\ UNCHANGED <<observe_timestamp_bounds, observerVars, pollerVars, received>>
    BY DEF EmitPacket
  <1>3. s \in {Observer, Poller}
    BY MirrorAssumption
  <1>4. WatchersTypeOK'
    <2>1. emitted' \in [Streams -> Seq(Timestamps)]
      BY <1>1, <1>2 DEF WatchInv, WatchersTypeOK
    <2> QED
      BY <1>2, <1>3, <2>1 DEF WatchInv, WatchersTypeOK, observerVars, pollerVars
  <1>5. NothingLost'
    <2> SUFFICES ASSUME NEW r \in Streams PROVE emitted'[r] = received'[r] \o queue'[r]
      BY DEF NothingLost
    <2>1. CASE r = s
      <3>1. emitted'[s] = Append(emitted[s], t) /\ queue'[s] = Append(queue[s], t)
        BY <1>1, <1>2, Waiting DEF WatchInv, WatchersTypeOK
      <3>2. emitted[s] = received[s] \o queue[s]
        BY DEF WatchInv, NothingLost
      <3>3. received[s] \o Append(queue[s], t) = Append(received[s] \o queue[s], t)
        <4>1. received[s] \in Seq(Timestamps) /\ queue[s] \in Seq(Timestamps)
          BY Waiting
        <4>2. PICK old \in Seq(Timestamps) : old = received[s]
          BY <4>1
        <4>3. PICK q \in Seq(Timestamps) : q = queue[s]
          BY <4>1
        <4>4. old \o Append(q, t) = Append(old \o q, t)
          BY <1>1, PacketJoins
        <4> QED
          BY <4>2, <4>3, <4>4
      <3> QED
        BY <1>2, <2>1, <3>1, <3>2, <3>3
    <2>2. CASE r # s
      <3>1. emitted'[r] = emitted[r] /\ queue'[r] = queue[r] /\ received'[r] = received[r]
        BY <1>1, <1>2, <2>2, Waiting DEF WatchInv, WatchersTypeOK
      <3> QED
        BY <3>1 DEF WatchInv, NothingLost
    <2> QED
      BY <2>1, <2>2
  <1>6. \A r \in Streams : queue[r] # <<>> =>
           queue'[r] # <<>> /\ Head(queue'[r]) = Head(queue[r])
    <2> SUFFICES ASSUME NEW r \in Streams, queue[r] # <<>>
                 PROVE  queue'[r] # <<>> /\ Head(queue'[r]) = Head(queue[r])
      OBVIOUS
    <2>1. queue[r] \in Seq(Timestamps) /\ queue \in [Streams -> Seq(Timestamps)]
      BY Waiting
    <2>2. queue'[r] = IF r = s THEN Append(queue[r], t) ELSE queue[r]
      BY <1>1, <2>1
    <2>3. Append(queue[r], t) # <<>> /\ Head(Append(queue[r], t)) = Head(queue[r])
      BY <1>1, <2>1
    <2> QED
      BY <2>2, <2>3
  <1>7. ObserverInv'
    <2>1. \A q \in Producers : q # p => at'[q] = at[q]
      BY <1>2 DEF WatchInv, WatchersTypeOK
    <2>2. at'[p] \in {s, "idle"} /\ ~InLoop(p) /\ ~InLoop(p)'
      BY <1>2, <1>3 DEF WatchInv, WatchersTypeOK, InLoop, Observer, Poller
    <2>3. \A q \in Producers : at'[q] = "pop" => at[q] = "pop" /\ Observer \in Streams
      BY <2>1, <2>2 DEF WatchInv, ObserverInv, InLoop
    <2>4. \A q \in Producers : InLoop(q)' => InLoop(q)
      BY <2>1, <2>2 DEF InLoop
    <2>5. \A q \in Producers : at'[q] = Observer => Observer \in Streams
      BY <2>1, <2>2 DEF WatchInv, ObserverInv, Observer
    <2> QED
      BY <1>2, <1>6, <2>3, <2>4, <2>5
         DEF WatchInv, ObserverInv, observerVars, pollerVars
  <1>8. PollerInv'
    BY <1>2, <1>6 DEF WatchInv, PollerInv, pollerVars
  <1> QED
    BY <1>1, <1>4, <1>5, <1>7, <1>8 DEF WatchInv

\* Steps that leave the queues alone.
LEMMA SameQueues ==
    ASSUME WatchInv, UNCHANGED <<queue, emitted, received>>, MirrorsInv', WatchersTypeOK',
           ObserverInv', PollerInv'
    PROVE  WatchInv'
  BY DEF WatchInv, NothingLost

LEMMA EmitBoundKeepsInv ==
    ASSUME WatchInv, NEW p \in Producers, NEW s \in Streams, NEW b \in MirrorBounds,
           EmitBound(p, s, b)
    PROVE  WatchInv'
  <1>1. MirrorsInv' /\ queue' = queue
    BY BoundStep, MirrorAssumption DEF EmitBound
  <1>2. /\ at[p] = "idle"
        /\ at' = [at EXCEPT ![p] = s] \/ at' = [at EXCEPT ![p] = "idle"]
        /\ UNCHANGED <<observe_timestamp_bounds, observerVars, pollerVars, emitted, received>>
    BY DEF EmitBound
  <1>3. s \in {Observer, Poller}
    BY MirrorAssumption
  <1>4. WatchersTypeOK'
    BY <1>2, <1>3 DEF WatchInv, WatchersTypeOK, observerVars, pollerVars
  <1>5. ObserverInv'
    <2>1. \A q \in Producers : q # p => at'[q] = at[q]
      BY <1>2 DEF WatchInv, WatchersTypeOK
    <2>2. at'[p] \in {s, "idle"} /\ ~InLoop(p)'
      BY <1>2, <1>3 DEF WatchInv, WatchersTypeOK, InLoop, Observer, Poller
    <2>3. \A q \in Producers : at'[q] = "pop" => at[q] = "pop"
      BY <2>1, <2>2 DEF InLoop
    <2>4. \A q \in Producers : InLoop(q)' => InLoop(q)
      BY <2>1, <2>2 DEF InLoop
    <2>5. \A q \in Producers : at'[q] = Observer => Observer \in Streams
      BY <2>1, <2>2 DEF WatchInv, ObserverInv, Observer
    <2> QED
      BY <1>1, <1>2, <2>3, <2>4, <2>5 DEF WatchInv, ObserverInv, observerVars, pollerVars
  <1>6. PollerInv'
    BY <1>1, <1>2 DEF WatchInv, PollerInv, pollerVars
  <1> QED
    BY <1>1, <1>2, <1>4, <1>5, <1>6, SameQueues

\* The steps of the observer's loop that pop nothing, and the poller's wakeup.
LEMMA NotifyKeepsInv ==
    ASSUME WatchInv, NEW p \in Producers,
           \/ NotifyObserver(p) \/ ReadStream(p) \/ ObserveBound(p) \/ LastCheck(p)
           \/ NotifyPoller(p)
    PROVE  WatchInv'
  <1>0. UNCHANGED <<streamVars, observe_timestamp_bounds, emitted, received>>
    BY DEF NotifyObserver, ReadStream, ObserveBound, LastCheck, NotifyPoller
  <1>1. MirrorsInv' /\ queue' = queue /\ UNCHANGED <<emitted, received>>
    BY <1>0, NoStreamStep DEF streamVars, queueVars
  <1>2. PICK place \in {"idle", "loop", "pop", "settle", "check"} : at' = [at EXCEPT ![p] = place]
    BY DEF NotifyObserver, ReadStream, ObserveBound, LastCheck, NotifyPoller, Goes, CallbackFails
  <1>3. at'[p] = place /\ \A q \in Producers : q # p => at'[q] = at[q]
    BY <1>2 DEF WatchInv, WatchersTypeOK
  <1>4. at' \in [Producers -> {"idle", Observer, Poller, "loop", "pop", "settle", "check"}]
    BY <1>2 DEF WatchInv, WatchersTypeOK
  <1>5. \A q \in Producers : at'[q] = Observer => Observer \in Streams
    BY <1>3 DEF WatchInv, ObserverInv, Observer
  <1>6. CASE NotifyObserver(p)
    <2>1. WatchersTypeOK'
      BY <1>0, <1>4, <1>6 DEF NotifyObserver, WatchInv, WatchersTypeOK, pollerVars
    <2>2. PollerInv'
      BY <1>1, <1>6 DEF NotifyObserver, WatchInv, PollerInv, pollerVars
    <2>3. place = IF notifying THEN "idle" ELSE "loop"
      BY <1>3, <1>6 DEF NotifyObserver, Goes, WatchInv, WatchersTypeOK
    <2>4. /\ Observer \in Streams /\ notifying' /\ ~InLoop(p)
          /\ graph_has_error' = graph_has_error /\ min_timestamp' = min_timestamp
      BY <1>6 DEF NotifyObserver, WatchInv, ObserverInv, InLoop, Observer, pollerVars
    <2>5. ObserverInv'
      <3>1. CASE notifying
        BY <1>1, <1>3, <1>5, <2>3, <2>4, <3>1 DEF WatchInv, ObserverInv, InLoop
      <3>2. CASE ~notifying
        <4>1. ~graph_has_error /\ \A q \in Producers : ~InLoop(q)
          BY <3>2 DEF WatchInv, ObserverInv
        <4> QED
          BY <1>1, <1>3, <1>5, <2>3, <2>4, <3>2, <4>1 DEF ObserverInv, InLoop
      <3> QED
        BY <3>1, <3>2
    <2> QED
      BY <1>1, <2>1, <2>2, <2>5, SameQueues
  <1>7. CASE NotifyPoller(p)
    <2>1. place = "idle" /\ polling' \in {"out", polling} /\ min_timestamp' = min_timestamp
          /\ UNCHANGED <<observerVars, output_timestamp, graph_has_error>>
      BY <1>3, <1>7 DEF NotifyPoller, Goes, Woken, observerVars, WatchInv, WatchersTypeOK
    <2>2. WatchersTypeOK'
      BY <1>0, <1>4, <2>1 DEF observerVars, WatchInv, WatchersTypeOK
    <2>3. PollerInv'
      BY <1>1, <2>1 DEF WatchInv, PollerInv
    <2>4. ObserverInv'
      BY <1>1, <1>3, <1>5, <2>1 DEF WatchInv, ObserverInv, InLoop, observerVars
    <2> QED
      BY <1>1, <2>2, <2>3, <2>4, SameQueues
  <1>8. CASE ReadStream(p)
    <2>1. /\ InLoop(p) /\ Observer \in Streams
          /\ \A q \in Producers : q # p => ~InLoop(q)
      BY <1>8 DEF ReadStream, InLoop, WatchInv, ObserverInv
    <2>2. MinTimestampOrBound(Observer) \in Timestamps
      BY <2>1, Waiting
    <2>3. /\ min_timestamp' \in [Producers -> Timestamps]
          /\ min_timestamp'[p] = MinTimestampOrBound(Observer)
          /\ place = IF queue[Observer] = <<>> THEN "settle" ELSE "pop"
          /\ UNCHANGED <<notifying, last_processed_ts, settledTimes, pollerVars>>
      BY <1>3, <1>8, <2>2 DEF ReadStream, Goes, WatchInv, WatchersTypeOK
    <2>4. WatchersTypeOK'
      BY <1>0, <1>4, <2>3 DEF WatchInv, WatchersTypeOK, pollerVars
    <2>5. PollerInv'
      BY <1>1, <2>3 DEF WatchInv, PollerInv, pollerVars
    <2>6. ObserverInv'
      BY <1>1, <1>3, <1>5, <2>1, <2>3
         DEF WatchInv, ObserverInv, InLoop, pollerVars, MinTimestampOrBound
    <2> QED
      BY <1>1, <2>4, <2>5, <2>6, SameQueues
  <1>9. CASE ObserveBound(p)
    <2>1. /\ InLoop(p) /\ Observer \in Streams
          /\ \A q \in Producers : q # p => ~InLoop(q)
      BY <1>9 DEF ObserveBound, InLoop, WatchInv, ObserverInv
    <2>2. min_timestamp[p] \in Timestamps /\ last_processed_ts \in Int
      BY SpecialTimestamps DEF WatchInv, WatchersTypeOK
    <2>3. Settled(min_timestamp[p]) \in Timestamps
      <3>1. PostStream \in Timestamps
        BY RangeAssumption DEF PostStream, Timestamps, Unset, Done
      <3> QED
        BY <2>2, <3>1, PreviousIsEarlier DEF Settled
    <2>4. /\ notifying' = notifying /\ min_timestamp' = min_timestamp
          /\ UNCHANGED output_timestamp
          /\ polling' \in {"out", polling}
          /\ settledTimes' \in Seq(Timestamps)
      <3>1. \/ settledTimes' = settledTimes
            \/ settledTimes' = Append(settledTimes, Settled(min_timestamp[p]))
        BY <1>9 DEF ObserveBound
      <3>2. settledTimes' \in Seq(Timestamps)
        <4>1. settledTimes \in Seq(Timestamps)
          BY DEF WatchInv, WatchersTypeOK
        <4>2. PICK x \in Timestamps : x = Settled(min_timestamp[p])
          BY <2>3
        <4>3. Append(settledTimes, x) \in Seq(Timestamps)
          BY <4>1
        <4> QED
          BY <3>1, <4>1, <4>2, <4>3
      <3>3. notifying' = notifying /\ min_timestamp' = min_timestamp
        BY <1>9 DEF ObserveBound
      <3>4. UNCHANGED output_timestamp /\ polling' \in {"out", polling}
        BY <1>9 DEF ObserveBound, CallbackFails, pollerVars
      <3> QED
        BY <3>2, <3>3, <3>4
    <2>5. last_processed_ts' \in Timestamps /\ Unstarted <= last_processed_ts'
      <3>1. \/ last_processed_ts' = last_processed_ts
            \/ /\ last_processed_ts' = Settled(min_timestamp[p])
               /\ last_processed_ts < Settled(min_timestamp[p])
        BY <1>9 DEF ObserveBound, CallbackFails
      <3>2. Settled(min_timestamp[p]) \in Int /\ Unstarted \in Int
        BY <2>3, SpecialTimestamps
      <3> QED
        BY <2>2, <2>3, <3>1, <3>2 DEF WatchInv, WatchersTypeOK
    <2>6. \/ graph_has_error' = TRUE /\ at' = [at EXCEPT ![p] = "idle"]
          \/ graph_has_error' = graph_has_error /\ at' = [at EXCEPT ![p] = "check"]
      BY <1>9 DEF ObserveBound, CallbackFails, pollerVars, Goes
    <2>7. WatchersTypeOK'
      BY <1>0, <1>4, <2>4, <2>5, <2>6 DEF WatchInv, WatchersTypeOK
    <2>8. PollerInv'
      BY <1>1, <2>4 DEF WatchInv, PollerInv
    <2>9. notifying /\ ~graph_has_error
      BY <2>1 DEF WatchInv, ObserverInv
    <2>10. ObserverInv'
      <3>1. CASE graph_has_error' = TRUE /\ at' = [at EXCEPT ![p] = "idle"]
        <4>1. at'[p] = "idle"
          BY <3>1 DEF WatchInv, WatchersTypeOK
        <4> QED
          BY <1>1, <1>3, <1>5, <2>1, <2>4, <2>9, <3>1, <4>1 DEF ObserverInv, InLoop
      <3>2. CASE graph_has_error' = graph_has_error /\ at' = [at EXCEPT ![p] = "check"]
        <4>1. at'[p] = "check"
          BY <3>2 DEF WatchInv, WatchersTypeOK
        <4> QED
          BY <1>1, <1>3, <1>5, <2>1, <2>4, <2>9, <3>2, <4>1 DEF ObserverInv, InLoop
      <3> QED
        BY <2>6, <3>1, <3>2
    <2> QED
      BY <1>1, <2>7, <2>8, <2>10, SameQueues
  <1>10. CASE LastCheck(p)
    <2>1. /\ InLoop(p) /\ Observer \in Streams /\ notifying /\ ~graph_has_error
          /\ \A q \in Producers : q # p => ~InLoop(q)
      BY <1>10 DEF LastCheck, InLoop, WatchInv, ObserverInv
    <2>2. /\ min_timestamp' = min_timestamp /\ UNCHANGED <<last_processed_ts, settledTimes, pollerVars>>
          /\ \/ notifying' = FALSE /\ place = "idle"
             \/ notifying' = TRUE /\ place = "loop"
      BY <1>3, <1>10 DEF LastCheck, Goes, Unmoved, WatchInv, WatchersTypeOK
    <2>3. WatchersTypeOK'
      BY <1>0, <1>4, <2>2 DEF WatchInv, WatchersTypeOK, pollerVars
    <2>4. PollerInv'
      BY <1>1, <2>2 DEF WatchInv, PollerInv, pollerVars
    <2>5. ObserverInv'
      BY <1>1, <1>3, <1>5, <2>1, <2>2 DEF ObserverInv, InLoop, pollerVars
    <2> QED
      BY <1>1, <2>3, <2>4, <2>5, SameQueues
  <1> QED
    BY <1>6, <1>7, <1>8, <1>9, <1>10

\* A packet that is taken leaves its mirror and is received.
LEMMA TakenIsReceived ==
    ASSUME WatchInv, NEW s \in Streams, queue[s] # <<>>,
           queue' = [queue EXCEPT ![s] = Tail(@)],
           received' = [received EXCEPT ![s] = Append(@, Head(queue[s]))],
           emitted' = emitted
    PROVE  /\ NothingLost'
           /\ received' \in [Streams -> Seq(Timestamps)]
           /\ \A r \in Streams \ {s} : queue'[r] = queue[r]
           /\ Len(received[s]) < Len(emitted[s])
           /\ emitted[s][Len(received[s]) + 1] = Head(queue[s])
  <1>1. PICK r \in Seq(Timestamps) : r = received[s]
    BY Waiting
  <1>2. PICK q \in Seq(Timestamps) : q = queue[s]
    BY Waiting
  <1>3. /\ Append(r, Head(q)) \o Tail(q) = r \o q
        /\ Len(r) < Len(r \o q) /\ (r \o q)[Len(r) + 1] = Head(q)
    BY <1>2, PacketLeaves
  <1>4. emitted[s] = r \o q
    BY <1>1, <1>2 DEF WatchInv, NothingLost
  <1>5. Append(r, Head(q)) \in Seq(Timestamps)
    BY <1>2
  <1>6. received'[s] = Append(r, Head(q)) /\ queue'[s] = Tail(q)
    BY <1>1, <1>2, Waiting DEF WatchInv, WatchersTypeOK
  <1>7. \A x \in Streams \ {s} : queue'[x] = queue[x] /\ received'[x] = received[x]
    BY Waiting DEF WatchInv, WatchersTypeOK
  <1>8. NothingLost'
    <2> SUFFICES ASSUME NEW x \in Streams PROVE emitted'[x] = received'[x] \o queue'[x]
      BY DEF NothingLost
    <2>1. CASE x = s
      BY <1>3, <1>4, <1>6, <2>1
    <2>2. CASE x # s
      BY <1>7, <2>2 DEF WatchInv, NothingLost
    <2> QED
      BY <2>1, <2>2
  <1>9. received' \in [Streams -> Seq(Timestamps)]
    BY <1>1, <1>2, <1>5 DEF WatchInv, WatchersTypeOK
  <1> QED
    BY <1>1, <1>2, <1>3, <1>4, <1>7, <1>8, <1>9

LEMMA PopForObserverStep ==
    ASSUME WatchInv, NEW p \in Producers, PopForObserver(p)
    PROVE  /\ WatchInv'
           /\ Observer \in Streams /\ queue[Observer] # <<>>
           /\ Head(queue[Observer]) = min_timestamp[p]
           /\ queue' = [queue EXCEPT ![Observer] = Tail(@)]
           /\ UNCHANGED next_timestamp_bound
           /\ min_timestamp[p] < next_timestamp_bound[Observer]
           /\ \A i \in 1 .. Len(queue'[Observer]) : min_timestamp[p] < queue'[Observer][i]
           /\ min_timestamp[p] \in MirrorTimes
           /\ ~graph_has_error
  <1>1. /\ InLoop(p) /\ Observer \in Streams /\ notifying /\ ~graph_has_error
        /\ queue[Observer] # <<>> /\ Head(queue[Observer]) = min_timestamp[p]
        /\ \A q \in Producers : q # p => ~InLoop(q)
    BY DEF PopForObserver, InLoop, WatchInv, ObserverInv
  <1>2. /\ MirrorsInv' /\ queue' = [queue EXCEPT ![Observer] = Tail(@)]
        /\ UNCHANGED next_timestamp_bound
        /\ min_timestamp[p] \in MirrorTimes /\ min_timestamp[p] \in Timestamps
        /\ min_timestamp[p] < next_timestamp_bound[Observer]
        /\ \A i \in 1 .. Len(queue'[Observer]) : min_timestamp[p] < queue'[Observer][i]
    BY <1>1, PopNextStep DEF PopForObserver
  <1>3. /\ NothingLost' /\ received' \in [Streams -> Seq(Timestamps)]
        /\ \A r \in Streams \ {Observer} : queue'[r] = queue[r]
    BY <1>1, <1>2, TakenIsReceived DEF PopForObserver
  <1>4. PICK place \in {"idle", "loop"} :
          /\ at' = [at EXCEPT ![p] = place]
          /\ \/ place = "idle" /\ graph_has_error' = TRUE
             \/ place = "loop" /\ graph_has_error' = graph_has_error
    <2>1. CASE CallbackFails(p)
      BY <2>1 DEF CallbackFails, Goes
    <2>2. CASE Goes(p, "loop") /\ UNCHANGED pollerVars
      BY <2>2 DEF Goes, pollerVars
    <2> QED
      BY <2>1, <2>2 DEF PopForObserver
  <1>5. /\ last_processed_ts' \in {last_processed_ts, min_timestamp[p]}
        /\ polling' \in {"out", polling}
        /\ UNCHANGED <<output_timestamp, observe_timestamp_bounds, min_timestamp, notifying, emitted>>
    BY DEF PopForObserver, CallbackFails, pollerVars
  <1>6. settledTimes' \in Seq(Timestamps)
    <2>1. PICK x \in Timestamps : x = Head(queue[Observer])
      BY <1>1, <1>2
    <2>2. settledTimes \in Seq(Timestamps) /\ Append(settledTimes, x) \in Seq(Timestamps)
      BY DEF WatchInv, WatchersTypeOK
    <2> QED
      BY <2>1, <2>2 DEF PopForObserver
  <1>7. Unstarted <= min_timestamp[p]
    <2>1. IsAllowedInStream(min_timestamp[p])
      <3>1. PICK q \in Seq(Timestamps) : q = queue[Observer]
        BY <1>1, Waiting
      <3>2. Head(q) = q[1] /\ 1 \in 1 .. Len(q)
        BY <1>1, <3>1
      <3> QED
        BY <1>1, <3>1, <3>2 DEF WatchInv, MirrorsInv
    <2> QED
      <3>1. PICK x \in Int : x = min_timestamp[p]
        BY <1>2, SpecialTimestamps
      <3>2. PreStream <= x
        BY <2>1, <3>1 DEF IsAllowedInStream
      <3>3. Unstarted <= x
        BY <3>2, SpecialTimestamps
      <3> QED
        BY <3>1, <3>3
  <1>8. WatchersTypeOK'
    BY <1>2, <1>3, <1>4, <1>5, <1>6, <1>7 DEF WatchInv, WatchersTypeOK
  <1>9. at'[p] = place /\ \A q \in Producers : q # p => at'[q] = at[q]
    BY <1>4 DEF WatchInv, WatchersTypeOK
  <1>10. ObserverInv'
    <2>1. \A q \in Producers : at'[q] = Observer => Observer \in Streams
      BY <1>1
    <2> QED
      BY <1>1, <1>4, <1>5, <1>9, <2>1 DEF ObserverInv, InLoop
  <1>11. PollerInv'
    <2>1. Poller \in Streams => queue'[Poller] = queue[Poller]
      BY <1>3 DEF Observer, Poller
    <2> QED
      BY <1>5, <2>1 DEF WatchInv, PollerInv
  <1>12. WatchInv'
    BY <1>2, <1>3, <1>8, <1>10, <1>11 DEF WatchInv
  <1> QED
    BY <1>1, <1>2, <1>12

LEMMA PollerLooksKeepsInv ==
    ASSUME WatchInv, PollerLooks
    PROVE  WatchInv'
  <1>1. MirrorsInv' /\ queue' = queue
    BY NoStreamStep DEF PollerLooks, streamVars, queueVars
  <1>2. PICK min \in Timestamps : min = MinTimestampOrBound(Poller)
    BY Waiting DEF PollerLooks
  <1>3. PreviousAllowedInStream(min) \in Timestamps
    BY PreviousIsEarlier
  <1>4. /\ polling' \in {"waiting", "done", "out", "pop"}
        /\ output_timestamp' \in {output_timestamp, PreviousAllowedInStream(min), min}
        /\ polling' = "pop" => queue[Poller] # <<>> /\ output_timestamp' = min
        /\ UNCHANGED <<observe_timestamp_bounds, at, observerVars, graph_has_error, emitted, received>>
        /\ Poller \in Streams
    BY <1>2 DEF PollerLooks
  <1>5. WatchersTypeOK'
    BY <1>3, <1>4 DEF WatchInv, WatchersTypeOK, observerVars
  <1>6. ObserverInv'
    BY <1>1, <1>4 DEF WatchInv, ObserverInv, InLoop, observerVars
  <1>7. PollerInv'
    BY <1>1, <1>2, <1>4 DEF PollerInv, MinTimestampOrBound
  <1> QED
    BY <1>1, <1>4, <1>5, <1>6, <1>7, SameQueues

LEMMA PollerPopsStep ==
    ASSUME WatchInv, PollerPops
    PROVE  /\ WatchInv'
           /\ Poller \in Streams /\ queue[Poller] # <<>>
           /\ queue' = [queue EXCEPT ![Poller] = Tail(@)]
           /\ UNCHANGED next_timestamp_bound
  <1>1. /\ Poller \in Streams
        /\ queue[Poller] # <<>> /\ Head(queue[Poller]) = output_timestamp
    BY DEF PollerPops, WatchInv, PollerInv
  <1>2. /\ MirrorsInv' /\ queue' = [queue EXCEPT ![Poller] = Tail(@)]
        /\ UNCHANGED next_timestamp_bound
    BY <1>1, PopNextStep DEF PollerPops
  <1>3. /\ NothingLost' /\ received' \in [Streams -> Seq(Timestamps)]
        /\ \A r \in Streams \ {Poller} : queue'[r] = queue[r]
    BY <1>1, <1>2, TakenIsReceived DEF PollerPops
  <1>4. /\ polling' = "out"
        /\ UNCHANGED <<observe_timestamp_bounds, at, observerVars, output_timestamp,
                       graph_has_error, emitted>>
    BY DEF PollerPops
  <1>5. WatchersTypeOK'
    BY <1>3, <1>4 DEF WatchInv, WatchersTypeOK, observerVars
  <1>6. ObserverInv'
    <2>1. Observer \in Streams => queue'[Observer] = queue[Observer]
      BY <1>3 DEF Observer, Poller
    <2>2. \A q \in Producers : at[q] = "pop" => Observer \in Streams
      BY DEF WatchInv, ObserverInv, InLoop
    <2> QED
      BY <1>4, <2>1, <2>2 DEF WatchInv, ObserverInv, InLoop, observerVars
  <1>7. PollerInv'
    BY <1>4 DEF PollerInv
  <1>8. WatchInv'
    BY <1>2, <1>3, <1>5, <1>6, <1>7 DEF WatchInv
  <1> QED
    BY <1>1, <1>2, <1>8

LEMMA WatchInvInit == MirrorInit => WatchInv
  <1> SUFFICES ASSUME MirrorInit PROVE WatchInv
    OBVIOUS
  <1>1. StreamInv
    BY StreamInvInit DEF MirrorInit
  <1>2. \A s \in Streams : queue[s] = <<>> /\ ~closed[s] /\ enable_timestamps[s]
    BY DEF MirrorInit, StreamInit
  <1>3. MirrorsInv
    BY <1>1, <1>2 DEF MirrorsInv
  <1>4. Unset \in Timestamps /\ Unstarted \in Timestamps /\ RangeMin \in Timestamps
    BY RangeAssumption DEF Timestamps, Unset, Unstarted, Done
  <1>5. WatchersTypeOK
    <2>1. observe_timestamp_bounds \in BOOLEAN
      BY MirrorAssumption DEF MirrorInit, WatchersInit
    <2>2. Unstarted <= Unstarted
      BY SpecialTimestamps
    <2> QED
      <3>1. /\ at \in [Producers -> {"idle", Observer, Poller, "loop", "pop", "settle", "check"}]
            /\ min_timestamp \in [Producers -> Timestamps]
            /\ last_processed_ts \in Timestamps /\ Unstarted <= last_processed_ts
            /\ notifying \in BOOLEAN /\ graph_has_error \in BOOLEAN
            /\ polling \in {"out", "waiting", "pop", "done"} /\ output_timestamp \in Timestamps
        BY <1>4, <2>2 DEF MirrorInit, WatchersInit
      <3>2. <<>> \in Seq(Timestamps)
        OBVIOUS
      <3>3. /\ emitted \in [Streams -> Seq(Timestamps)] /\ received \in [Streams -> Seq(Timestamps)]
            /\ settledTimes \in Seq(Timestamps)
        BY <3>2 DEF MirrorInit, WatchersInit
      <3> QED
        BY <2>1, <3>1, <3>3 DEF WatchersTypeOK
  <1>6. NothingLost
    <2> SUFFICES ASSUME NEW s \in Streams PROVE emitted[s] = received[s] \o queue[s]
      BY DEF NothingLost
    <2>1. emitted[s] = <<>> /\ received[s] = <<>> /\ queue[s] = <<>>
      BY <1>2 DEF MirrorInit, WatchersInit
    <2> QED
      BY <2>1
  <1>7. ObserverInv /\ PollerInv
    BY DEF MirrorInit, WatchersInit, ObserverInv, PollerInv, InLoop, Observer
  <1> QED
    BY <1>3, <1>5, <1>6, <1>7 DEF WatchInv

LEMMA WatchInvNext == WatchInv /\ [MirrorNext]_mirrorVars => WatchInv'
  <1> SUFFICES ASSUME WatchInv, [MirrorNext]_mirrorVars PROVE WatchInv'
    OBVIOUS
  <1>1. ASSUME NEW p \in Producers, NEW s \in Streams, NEW t \in MirrorTimes, EmitPacket(p, s, t)
        PROVE  WatchInv'
    BY <1>1, EmitPacketKeepsInv
  <1>2. ASSUME NEW p \in Producers, NEW s \in Streams, NEW b \in MirrorBounds, EmitBound(p, s, b)
        PROVE  WatchInv'
    BY <1>2, EmitBoundKeepsInv
  <1>3. ASSUME NEW p \in Producers, ProducerNotifies(p)
        PROVE  WatchInv'
    BY <1>3, NotifyKeepsInv, PopForObserverStep DEF ProducerNotifies
  <1>4. CASE PollerLooks
    BY <1>4, PollerLooksKeepsInv
  <1>5. CASE PollerPops
    BY <1>5, PollerPopsStep
  <1>6. CASE UNCHANGED mirrorVars
    <2>1. UNCHANGED streamVars /\ UNCHANGED watcherVars
      BY <1>6 DEF mirrorVars
    <2>2. MirrorsInv' /\ queue' = queue
      BY <2>1, NoStreamStep DEF streamVars, queueVars
    <2>3. WatchersTypeOK' /\ ObserverInv' /\ PollerInv' /\ UNCHANGED <<emitted, received>>
      BY <2>1, <2>2 DEF WatchInv, WatchersTypeOK, ObserverInv, PollerInv, InLoop, watcherVars,
                        observerVars, pollerVars
    <2> QED
      BY <2>2, <2>3, SameQueues
  <1> QED
    BY <1>1, <1>2, <1>3, <1>4, <1>5, <1>6 DEF MirrorNext

LEMMA WatchInvHolds == MirrorSpec => []WatchInv
  BY WatchInvInit, WatchInvNext, PTL DEF MirrorSpec

-----------------------------------------------------------------------------
\* Whether the observer's failure or the end of polling is final.
EndsStay == /\ graph_has_error => graph_has_error'
            /\ polling = "done" => polling' = "done"

\* All that a step can do to what is sent and what is seen.
LEMMA WhatIsSeen ==
    ASSUME WatchInv, MirrorNext
    PROVE  /\ graph_has_error' \in BOOLEAN
           /\ \/ \E s \in Streams, t \in MirrorTimes :
                    /\ emitted' = [emitted EXCEPT ![s] = Append(@, t)]
                    /\ UNCHANGED <<received, graph_has_error, polling>>
              \/ UNCHANGED <<emitted, received>> /\ EndsStay
              \/ \E s \in Streams :
                    /\ received' = [received EXCEPT ![s] = Append(@, emitted[s][Len(@) + 1])]
                    /\ Len(received[s]) < Len(emitted[s])
                    /\ UNCHANGED emitted /\ EndsStay
                    /\ s = Observer => ~graph_has_error /\ (polling' = "done" <=> polling = "done")
                    /\ s = Poller => polling # "done" /\ graph_has_error' = graph_has_error
  <1>0. WatchInv' /\ graph_has_error' \in BOOLEAN
    BY WatchInvNext DEF WatchInv, WatchersTypeOK
  <1>1. ASSUME NEW p \in Producers, NEW s \in Streams, NEW t \in MirrorTimes, EmitPacket(p, s, t)
        PROVE  /\ emitted' = [emitted EXCEPT ![s] = Append(@, t)]
               /\ UNCHANGED <<received, graph_has_error, polling>>
    BY <1>1 DEF EmitPacket, pollerVars
  <1>2. ASSUME NEW p \in Producers, NEW s \in Streams, NEW b \in MirrorBounds, EmitBound(p, s, b)
        PROVE  UNCHANGED <<emitted, received>> /\ EndsStay
    BY <1>2 DEF EmitBound, pollerVars, EndsStay
  <1>3. ASSUME NEW p \in Producers,
               \/ NotifyObserver(p) \/ ReadStream(p) \/ ObserveBound(p) \/ LastCheck(p)
               \/ NotifyPoller(p)
        PROVE  UNCHANGED <<emitted, received>> /\ EndsStay
    BY <1>3 DEF NotifyObserver, ReadStream, ObserveBound, LastCheck, NotifyPoller, CallbackFails,
                Woken, pollerVars, EndsStay
  <1>4. ASSUME NEW p \in Producers, PopForObserver(p)
        PROVE  /\ Observer \in Streams
               /\ received' = [received EXCEPT ![Observer] = Append(@, emitted[Observer][Len(@) + 1])]
               /\ Len(received[Observer]) < Len(emitted[Observer])
               /\ UNCHANGED emitted /\ EndsStay
               /\ ~graph_has_error /\ (polling' = "done" <=> polling = "done")
    <2>1. /\ Observer \in Streams /\ queue[Observer] # <<>> /\ ~graph_has_error
          /\ queue' = [queue EXCEPT ![Observer] = Tail(@)]
      BY <1>4, PopForObserverStep
    <2>2. /\ received' = [received EXCEPT ![Observer] = Append(@, Head(queue[Observer]))]
          /\ emitted' = emitted
      BY <1>4 DEF PopForObserver
    <2>3. /\ Len(received[Observer]) < Len(emitted[Observer])
          /\ emitted[Observer][Len(received[Observer]) + 1] = Head(queue[Observer])
      BY <2>1, <2>2, TakenIsReceived
    <2>4. polling' = polling \/ (polling = "waiting" /\ polling' = "out")
      BY <1>4 DEF PopForObserver, CallbackFails, pollerVars
    <2> QED
      BY <2>1, <2>2, <2>3, <2>4 DEF EndsStay
  <1>5. ASSUME PollerPops
        PROVE  /\ Poller \in Streams
               /\ received' = [received EXCEPT ![Poller] = Append(@, emitted[Poller][Len(@) + 1])]
               /\ Len(received[Poller]) < Len(emitted[Poller])
               /\ UNCHANGED emitted /\ EndsStay
               /\ polling # "done" /\ graph_has_error' = graph_has_error
    <2>1. /\ Poller \in Streams /\ queue[Poller] # <<>>
          /\ queue' = [queue EXCEPT ![Poller] = Tail(@)]
      BY <1>5, PollerPopsStep
    <2>2. /\ received' = [received EXCEPT ![Poller] = Append(@, Head(queue[Poller]))]
          /\ emitted' = emitted /\ polling = "pop" /\ graph_has_error' = graph_has_error
      BY <1>5 DEF PollerPops
    <2>3. /\ Len(received[Poller]) < Len(emitted[Poller])
          /\ emitted[Poller][Len(received[Poller]) + 1] = Head(queue[Poller])
      BY <2>1, <2>2, TakenIsReceived
    <2> QED
      BY <2>1, <2>2, <2>3 DEF EndsStay
  <1>6. ASSUME PollerLooks
        PROVE  UNCHANGED <<emitted, received>> /\ EndsStay
    BY <1>6 DEF PollerLooks, EndsStay
  <1>7. Observer # Poller
    BY DEF Observer, Poller
  <1>8. CASE \E p \in Producers : PopForObserver(p)
    BY <1>0, <1>4, <1>7, <1>8
  <1>9. CASE PollerPops
    BY <1>0, <1>5, <1>7, <1>9
  <1>10. CASE \E p \in Producers, s \in Streams, t \in MirrorTimes : EmitPacket(p, s, t)
    BY <1>0, <1>1, <1>10
  <1> QED
    BY <1>0, <1>2, <1>3, <1>6, <1>8, <1>9, <1>10 DEF MirrorNext, ProducerNotifies

LEMMA ObserverStepImplements ==
    ASSUME WatchInv, [MirrorNext]_mirrorVars
    PROVE  [ObserverView!ObservedNext]_(ObserverView!observedVars)
  <1> USE DEF ObserverView!ObservedNext, ObserverView!See, ObserverView!End, ObserverView!Send,
              ObserverView!observedVars, Carried, Watched
  <1>1. CASE UNCHANGED mirrorVars
    BY <1>1 DEF mirrorVars, watcherVars, pollerVars
  <1>2. CASE UNCHANGED <<emitted, received>> /\ EndsStay /\ graph_has_error' \in BOOLEAN
    BY <1>2 DEF EndsStay, WatchInv, WatchersTypeOK
  <1>3. ASSUME NEW s \in Streams, NEW t \in MirrorTimes,
               emitted' = [emitted EXCEPT ![s] = Append(@, t)],
               UNCHANGED <<received, graph_has_error, polling>>
        PROVE  [ObserverView!ObservedNext]_(ObserverView!observedVars)
    <2>1. CASE s = Observer
      <3>1. emitted'[Observer] = Append(emitted[Observer], t)
        BY <1>3, <2>1 DEF WatchInv, WatchersTypeOK
      <3> QED
        BY <1>3, <2>1, <3>1
    <2>2. CASE s # Observer
      <3>1. Observer \in Streams => emitted'[Observer] = emitted[Observer]
        BY <1>3, <2>2 DEF WatchInv, WatchersTypeOK
      <3> QED
        BY <1>3, <3>1
    <2> QED
      BY <2>1, <2>2
  <1>4. ASSUME NEW s \in Streams, graph_has_error' \in BOOLEAN,
               received' = [received EXCEPT ![s] = Append(@, emitted[s][Len(@) + 1])],
               Len(received[s]) < Len(emitted[s]), UNCHANGED emitted, EndsStay,
               s = Observer => ~graph_has_error,
               s = Poller => graph_has_error' = graph_has_error
        PROVE  [ObserverView!ObservedNext]_(ObserverView!observedVars)
    <2>1. CASE s = Observer
      <3>1. received'[Observer] = Append(received[Observer], emitted[Observer][Len(received[Observer]) + 1])
        BY <1>4, <2>1 DEF WatchInv, WatchersTypeOK
      <3>2. graph_has_error' = graph_has_error \/ graph_has_error' = TRUE
        BY <1>4, <2>1 DEF WatchInv, WatchersTypeOK
      <3> QED
        BY <1>4, <2>1, <3>1, <3>2
    <2>2. CASE s # Observer
      <3>1. Observer \in Streams => received'[Observer] = received[Observer]
        BY <1>4, <2>2 DEF WatchInv, WatchersTypeOK
      <3>2. s = Poller
        BY <2>2, MirrorAssumption
      <3> QED
        BY <1>4, <3>1, <3>2
    <2> QED
      BY <2>1, <2>2
  <1> QED
    BY <1>1, <1>2, <1>3, <1>4, WhatIsSeen

LEMMA PollerStepImplements ==
    ASSUME WatchInv, [MirrorNext]_mirrorVars
    PROVE  [PollerView!ObservedNext]_(PollerView!observedVars)
  <1> USE DEF PollerView!ObservedNext, PollerView!See, PollerView!End, PollerView!Send,
              PollerView!observedVars, Carried, Watched
  <1>1. CASE UNCHANGED mirrorVars
    BY <1>1 DEF mirrorVars, watcherVars, pollerVars
  <1>2. CASE UNCHANGED <<emitted, received>> /\ EndsStay
    <2>1. (polling' = "done") = (polling = "done") \/ (polling' = "done") = TRUE
      BY <1>2 DEF EndsStay
    <2> QED
      BY <1>2, <2>1
  <1>3. ASSUME NEW s \in Streams, NEW t \in MirrorTimes,
               emitted' = [emitted EXCEPT ![s] = Append(@, t)],
               UNCHANGED <<received, graph_has_error, polling>>
        PROVE  [PollerView!ObservedNext]_(PollerView!observedVars)
    <2>1. CASE s = Poller
      <3>1. emitted'[Poller] = Append(emitted[Poller], t)
        BY <1>3, <2>1 DEF WatchInv, WatchersTypeOK
      <3> QED
        BY <1>3, <2>1, <3>1
    <2>2. CASE s # Poller
      <3>1. Poller \in Streams => emitted'[Poller] = emitted[Poller]
        BY <1>3, <2>2 DEF WatchInv, WatchersTypeOK
      <3> QED
        BY <1>3, <3>1
    <2> QED
      BY <2>1, <2>2
  <1>4. ASSUME NEW s \in Streams,
               received' = [received EXCEPT ![s] = Append(@, emitted[s][Len(@) + 1])],
               Len(received[s]) < Len(emitted[s]), UNCHANGED emitted, EndsStay,
               s = Observer => (polling' = "done" <=> polling = "done"),
               s = Poller => polling # "done"
        PROVE  [PollerView!ObservedNext]_(PollerView!observedVars)
    <2>1. CASE s = Poller
      <3>1. received'[Poller] = Append(received[Poller], emitted[Poller][Len(received[Poller]) + 1])
        BY <1>4, <2>1 DEF WatchInv, WatchersTypeOK
      <3>2. ~(polling = "done") /\
            ((polling' = "done") = (polling = "done") \/ (polling' = "done") = TRUE)
        BY <1>4, <2>1
      <3> QED
        BY <1>4, <2>1, <3>1, <3>2
    <2>2. CASE s # Poller
      <3>1. Poller \in Streams => received'[Poller] = received[Poller]
        BY <1>4, <2>2 DEF WatchInv, WatchersTypeOK
      <3>2. s = Observer
        BY <2>2, MirrorAssumption
      <3>3. (polling' = "done") = (polling = "done")
        BY <1>4, <3>2
      <3> QED
        BY <1>4, <3>1, <3>3
    <2> QED
      BY <2>1, <2>2
  <1> QED
    BY <1>1, <1>2, <1>3, <1>4, WhatIsSeen

\* The observer's callback gets the packets of the stream in their order, none
\* twice and none left out, and nothing after an error: one thread at a time
\* hands them over, however many emit (OutputStreamObserver::Notify).
THEOREM ObserverSeesTheStream == MirrorSpec => ObserverView!ObservedSafety
  <1>1. MirrorInit => ObserverView!ObservedInit
    BY DEF MirrorInit, WatchersInit, ObserverView!ObservedInit, Carried, Watched
  <1>2. WatchInv /\ [MirrorNext]_mirrorVars
          => [ObserverView!ObservedNext]_(ObserverView!observedVars)
    BY ObserverStepImplements
  <1> QED
    BY <1>1, <1>2, WatchInvHolds, PTL DEF MirrorSpec, ObserverView!ObservedSafety

\* Next() returns the packets of the stream in their order, none twice and none
\* left out, until it has returned false (OutputStreamPollerImpl::Next).
THEOREM PollerSeesTheStream == MirrorSpec => PollerView!ObservedSafety
  <1>1. MirrorInit => PollerView!ObservedInit
    BY DEF MirrorInit, WatchersInit, PollerView!ObservedInit, Carried, Watched
  <1>2. WatchInv /\ [MirrorNext]_mirrorVars
          => [PollerView!ObservedNext]_(PollerView!observedVars)
    BY PollerStepImplements
  <1> QED
    BY <1>1, <1>2, WatchInvHolds, PTL DEF MirrorSpec, PollerView!ObservedSafety

-----------------------------------------------------------------------------
\* No packet of the observer's stream is, or comes, at t or before it.
Final(t) ==
    /\ t < next_timestamp_bound[Observer] \/ (t = PostStream /\ t <= next_timestamp_bound[Observer])
    /\ \A i \in 1 .. Len(queue[Observer]) : t < queue[Observer][i]

\* None is before t.
Reached(t) ==
    /\ t <= next_timestamp_bound[Observer]
    /\ \A i \in 1 .. Len(queue[Observer]) : t <= queue[Observer][i]

\* What the callback got is final, and none of it is later than
\* last_processed_ts_ unless its failure has ended the observation.
SettledInv ==
    /\ SettledIsFinal
    /\ \A i \in 1 .. Len(settledTimes) :
          /\ Observer \in Streams /\ Final(settledTimes[i])
          /\ (\E p \in Producers : InLoop(p)) \/ ~notifying =>
                settledTimes[i] <= last_processed_ts
    /\ \A p \in Producers : at[p] = "settle" => Reached(min_timestamp[p])

NoPacketAtPostStream == PostStream \notin MirrorTimes

\* The updates of the observer's stream that a step can make.
StreamAdvances ==
    \/ UNCHANGED <<queue, next_timestamp_bound>>
    \/ \E t \in MirrorTimes :
          /\ queue'[Observer] = Append(queue[Observer], t)
          /\ t \in Timestamps /\ IsAllowedInStream(t)
          /\ next_timestamp_bound[Observer] <= t /\ t < next_timestamp_bound'[Observer]
    \/ /\ queue'[Observer] = queue[Observer]
       /\ next_timestamp_bound[Observer] <= next_timestamp_bound'[Observer]
    \/ /\ queue[Observer] # <<>> /\ queue'[Observer] = Tail(queue[Observer])
       /\ next_timestamp_bound'[Observer] = next_timestamp_bound[Observer]

LEMMA StreamOnlyAdvances ==
    ASSUME WatchInv, Observer \in Streams, MirrorNext
    PROVE  StreamAdvances
  <1>0. /\ queue \in [Streams -> Seq(Timestamps)]
        /\ \A s \in Streams : next_timestamp_bound[s] \in Int
    <2>1. \A s \in Streams : next_timestamp_bound[s] \in Timestamps
      BY Waiting
    <2> QED
      BY <2>1, Waiting, SpecialTimestamps
  <1>1. ASSUME NEW p \in Producers, NEW s \in Streams, NEW t \in MirrorTimes, EmitPacket(p, s, t)
        PROVE  StreamAdvances
    <2>1. /\ queue' = [queue EXCEPT ![s] = Append(@, t)]
          /\ t \in Timestamps /\ IsAllowedInStream(t) /\ next_timestamp_bound[s] <= t
          /\ t < next_timestamp_bound'[s]
          /\ \A r \in Streams \ {s} : next_timestamp_bound'[r] = next_timestamp_bound[r]
      BY <1>1, EmitStep DEF EmitPacket
    <2>2. CASE s = Observer
      <3>1. queue'[Observer] = Append(queue[Observer], t)
        BY <1>0, <2>1, <2>2
      <3> QED
        BY <2>1, <2>2, <3>1 DEF StreamAdvances
    <2>3. CASE s # Observer
      <3>1. queue'[Observer] = queue[Observer]
            /\ next_timestamp_bound'[Observer] = next_timestamp_bound[Observer]
        BY <1>0, <2>1, <2>3
      <3> QED
        BY <1>0, <3>1 DEF StreamAdvances
    <2> QED
      BY <2>2, <2>3
  <1>2. ASSUME NEW p \in Producers, NEW s \in Streams, NEW b \in MirrorBounds, EmitBound(p, s, b)
        PROVE  StreamAdvances
    <2>1. queue' = queue /\ next_timestamp_bound[Observer] <= next_timestamp_bound'[Observer]
      BY <1>2, BoundStep, MirrorAssumption DEF EmitBound
    <2> QED
      BY <2>1 DEF StreamAdvances
  <1>3. ASSUME NEW p \in Producers,
               \/ NotifyObserver(p) \/ ReadStream(p) \/ ObserveBound(p) \/ LastCheck(p)
               \/ NotifyPoller(p)
        PROVE  StreamAdvances
    BY <1>3 DEF NotifyObserver, ReadStream, ObserveBound, LastCheck, NotifyPoller, StreamAdvances,
                streamVars, queueVars, boundVars
  <1>4. ASSUME NEW p \in Producers, PopForObserver(p)
        PROVE  StreamAdvances
    <2>1. /\ queue[Observer] # <<>> /\ queue' = [queue EXCEPT ![Observer] = Tail(@)]
          /\ next_timestamp_bound' = next_timestamp_bound
      BY <1>4, PopForObserverStep
    <2>2. queue'[Observer] = Tail(queue[Observer])
      BY <1>0, <2>1
    <2> QED
      BY <2>1, <2>2 DEF StreamAdvances
  <1>5. CASE PollerLooks
    BY <1>5 DEF PollerLooks, StreamAdvances, streamVars, queueVars, boundVars
  <1>6. CASE PollerPops
    <2>1. queue' = [queue EXCEPT ![Poller] = Tail(@)] /\ next_timestamp_bound' = next_timestamp_bound
      BY <1>6, PollerPopsStep
    <2>2. queue'[Observer] = queue[Observer]
      BY <1>0, <2>1 DEF Observer, Poller
    <2> QED
      BY <1>0, <2>1, <2>2 DEF StreamAdvances
  <1> QED
    BY <1>1, <1>2, <1>3, <1>4, <1>5, <1>6 DEF MirrorNext, ProducerNotifies

LEMMA FinalStaysFinal ==
    ASSUME WatchInv, WatchInv', Observer \in Streams, StreamAdvances, NoPacketAtPostStream,
           NEW x \in Timestamps
    PROVE  /\ Final(x) => Final(x)'
           /\ Reached(x) => Reached(x)'
  <1>1. PICK b \in Int : b = next_timestamp_bound[Observer]
    <2>1. next_timestamp_bound[Observer] \in Timestamps
      BY Waiting
    <2> QED
      BY <2>1, SpecialTimestamps
  <1>2. PICK c \in Int : c = next_timestamp_bound'[Observer]
    <2>1. next_timestamp_bound'[Observer] \in Timestamps
      BY DEF WatchInv, MirrorsInv, StreamInv, StreamTypeOK
    <2> QED
      BY <2>1, SpecialTimestamps
  <1>3. PICK q \in Seq(Timestamps) : q = queue[Observer]
    BY Waiting
  <1>4. PICK r : r = queue'[Observer]
    OBVIOUS
  <1>5. x \in Int /\ PostStream \in Int /\ \A i \in 1 .. Len(q) : q[i] \in Int
    <2>1. \A i \in 1 .. Len(q) : q[i] \in Timestamps
      OBVIOUS
    <2> QED
      BY <2>1, SpecialTimestamps
  <1>6. CASE UNCHANGED <<queue, next_timestamp_bound>>
    BY <1>6 DEF Final, Reached
  <1>7. ASSUME NEW t \in MirrorTimes, r = Append(q, t), t \in Timestamps, IsAllowedInStream(t),
               b <= t, t < c
        PROVE  /\ Final(x) => Final(x)'
               /\ Reached(x) => Reached(x)'
    <2>1. t \in Int /\ t < PostStream
      <3>1. t \in Int /\ t <= PostStream /\ t # PostStream
        BY <1>7, SpecialTimestamps DEF NoPacketAtPostStream, IsAllowedInStream
      <3> QED
        BY <3>1, SpecialTimestamps
    <2>2. \A i \in 1 .. Len(r) : r[i] = t \/ (i \in 1 .. Len(q) /\ r[i] = q[i])
      BY <1>7
    <2>3. ASSUME Final(x) PROVE Final(x)'
      <3>1. (x < b \/ (x = PostStream /\ x <= b)) /\ \A i \in 1 .. Len(q) : x < q[i]
        BY <1>1, <1>3, <2>3 DEF Final
      <3>2. x < t /\ x < c
        BY <1>1, <1>2, <1>5, <1>7, <2>1, <3>1
      <3>3. \A i \in 1 .. Len(r) : x < r[i]
        BY <2>2, <3>1, <3>2
      <3> QED
        BY <1>2, <1>4, <3>2, <3>3 DEF Final
    <2>4. ASSUME Reached(x) PROVE Reached(x)'
      <3>1. x <= b /\ \A i \in 1 .. Len(q) : x <= q[i]
        BY <1>1, <1>3, <2>4 DEF Reached
      <3>2. x <= t /\ x <= c
        BY <1>1, <1>2, <1>5, <1>7, <2>1, <3>1
      <3>3. \A i \in 1 .. Len(r) : x <= r[i]
        BY <2>2, <3>1, <3>2
      <3> QED
        BY <1>2, <1>4, <3>2, <3>3 DEF Reached
    <2> QED
      BY <2>3, <2>4
  <1>8. CASE r = q /\ b <= c
    <2>1. Final(x) => Final(x)'
      <3> SUFFICES ASSUME Final(x) PROVE Final(x)'
        OBVIOUS
      <3>1. (x < b \/ (x = PostStream /\ x <= b)) /\ \A i \in 1 .. Len(r) : x < r[i]
        BY <1>1, <1>3, <1>8 DEF Final
      <3>2. x < c \/ (x = PostStream /\ x <= c)
        BY <1>1, <1>2, <1>5, <1>8, <3>1
      <3> QED
        BY <1>2, <1>4, <3>1, <3>2 DEF Final
    <2>2. Reached(x) => Reached(x)'
      <3> SUFFICES ASSUME Reached(x) PROVE Reached(x)'
        OBVIOUS
      <3>1. x <= b /\ \A i \in 1 .. Len(r) : x <= r[i]
        BY <1>1, <1>3, <1>8 DEF Reached
      <3>2. x <= c
        BY <1>1, <1>2, <1>5, <1>8, <3>1
      <3> QED
        BY <1>2, <1>4, <3>1, <3>2 DEF Reached
    <2> QED
      BY <2>1, <2>2
  <1>9. CASE q # <<>> /\ r = Tail(q) /\ c = b
    <2>1. \A i \in 1 .. Len(r) : i + 1 \in 1 .. Len(q) /\ r[i] = q[i + 1]
      BY <1>9
    <2>2. Final(x) => Final(x)'
      BY <1>1, <1>2, <1>3, <1>4, <1>9, <2>1 DEF Final
    <2>3. Reached(x) => Reached(x)'
      BY <1>1, <1>2, <1>3, <1>4, <1>9, <2>1 DEF Reached
    <2> QED
      BY <2>2, <2>3
  <1> QED
    BY <1>1, <1>2, <1>3, <1>4, <1>6, <1>7, <1>8, <1>9 DEF StreamAdvances

Increasing(u) == \A i, j \in 1 .. Len(u) : i < j => u[i] < u[j]

\* A timestamp that is later than all the callback got joins them.
LEMMA LaterJoins ==
    ASSUME NEW u \in Seq(Timestamps), Increasing(u), NEW y \in Timestamps,
           \A i \in 1 .. Len(u) : u[i] < y
    PROVE  /\ Increasing(Append(u, y))
           /\ \A i \in 1 .. Len(Append(u, y)) :
                 Append(u, y)[i] = y \/ (i \in 1 .. Len(u) /\ Append(u, y)[i] = u[i])
  <1>0. Append(u, y) \in Seq(Timestamps)
    OBVIOUS
  <1>1. PICK v \in Seq(Timestamps) : v = Append(u, y)
    BY <1>0
  <1>2. /\ Len(v) = Len(u) + 1 /\ v[Len(u) + 1] = y
        /\ \A i \in 1 .. Len(u) : v[i] = u[i]
    BY <1>1
  <1>3. \A i, j \in 1 .. Len(u) : i < j => u[i] < u[j]
    BY DEF Increasing
  <1>4. ASSUME NEW i \in 1 .. Len(v), NEW j \in 1 .. Len(v), i < j
        PROVE  v[i] < v[j]
    <2>1. i \in 1 .. Len(u) /\ v[i] = u[i]
      BY <1>2, <1>4
    <2>2. CASE j = Len(u) + 1
      BY <1>2, <2>1, <2>2
    <2>3. CASE j # Len(u) + 1
      <3>1. j \in 1 .. Len(u)
        BY <1>2, <2>3
      <3> QED
        BY <1>2, <1>3, <1>4, <2>1, <3>1
    <2> QED
      BY <2>2, <2>3
  <1>5. \A i \in 1 .. Len(v) : v[i] = y \/ (i \in 1 .. Len(u) /\ v[i] = u[i])
    BY <1>2
  <1> QED
    BY <1>1, <1>4, <1>5 DEF Increasing

\* Steps that report nothing and do not touch last_processed_ts_.
LEMMA NothingReported ==
    ASSUME WatchInv, WatchInv', SettledInv, NoPacketAtPostStream, MirrorNext,
           UNCHANGED <<settledTimes, last_processed_ts>>,
           (\E p \in Producers : InLoop(p)') \/ ~notifying' =>
              (\E p \in Producers : InLoop(p)) \/ ~notifying,
           \A p \in Producers : at'[p] = "settle" =>
              \/ at[p] = "settle" /\ min_timestamp'[p] = min_timestamp[p]
              \/ Reached(min_timestamp[p])'
    PROVE  SettledInv'
  <1>1. SettledIsFinal'
    BY DEF SettledInv, SettledIsFinal
  <1>2. ASSUME NEW i \in 1 .. Len(settledTimes')
        PROVE  /\ Observer \in Streams /\ Final(settledTimes[i])'
               /\ (\E p \in Producers : InLoop(p)') \/ ~notifying' =>
                     settledTimes'[i] <= last_processed_ts'
    <2>1. /\ i \in 1 .. Len(settledTimes) /\ Observer \in Streams /\ Final(settledTimes[i])
          /\ (\E p \in Producers : InLoop(p)) \/ ~notifying => settledTimes[i] <= last_processed_ts
      BY DEF SettledInv
    <2>2. PICK x \in Timestamps : x = settledTimes[i]
      BY <2>1 DEF WatchInv, WatchersTypeOK
    <2>3. Final(x)'
      <3>1. Final(x)
        BY <2>1, <2>2
      <3> QED
        BY <2>1, <3>1, FinalStaysFinal, StreamOnlyAdvances
    <2>4. Final(settledTimes[i])'
      BY <2>2, <2>3 DEF Final
    <2> QED
      BY <2>1, <2>4
  <1>3. ASSUME NEW p \in Producers, at'[p] = "settle"
        PROVE  Reached(min_timestamp[p])'
    <2>1. CASE at[p] = "settle" /\ min_timestamp'[p] = min_timestamp[p]
      <3>1. Observer \in Streams
        BY <2>1 DEF WatchInv, ObserverInv, InLoop
      <3>2. PICK x \in Timestamps : x = min_timestamp[p]
        BY DEF WatchInv, WatchersTypeOK
      <3>3. Reached(x)
        BY <2>1, <3>2 DEF SettledInv
      <3>4. Reached(x)'
        BY <3>1, <3>3, FinalStaysFinal, StreamOnlyAdvances
      <3> QED
        BY <2>1, <3>2, <3>4 DEF Reached
    <2> QED
      BY <1>3, <2>1
  <1> QED
    BY <1>1, <1>2, <1>3 DEF SettledInv, InLoop

\* A step that reports y to the callback and moves last_processed_ts_ to it,
\* unless the callback fails.
LEMMA TimeReported ==
    ASSUME WatchInv, WatchInv', SettledInv, NoPacketAtPostStream, MirrorNext,
           NEW p \in Producers, InLoop(p), NEW y \in Timestamps, Final(y)',
           settledTimes' = Append(settledTimes, y),
           \A i \in 1 .. Len(settledTimes) : settledTimes[i] < y,
           UNCHANGED <<notifying, min_timestamp>>,
           NEW place \in {"idle", "loop", "check"}, at' = [at EXCEPT ![p] = place],
           place = "idle" \/ last_processed_ts' = y
    PROVE  SettledInv'
  <1>1. Observer \in Streams /\ notifying /\ \A r \in Producers : r # p => ~InLoop(r)
    BY DEF WatchInv, ObserverInv
  <1>2. at'[p] = place /\ \A r \in Producers : r # p => at'[r] = at[r]
    BY DEF WatchInv, WatchersTypeOK
  <1>3. \A r \in Producers : at'[r] # "settle"
    BY <1>1, <1>2 DEF InLoop
  <1>4. (\E r \in Producers : InLoop(r)') => last_processed_ts' = y
    BY <1>1, <1>2 DEF InLoop
  <1>5. PICK u \in Seq(Timestamps) : u = settledTimes
    BY DEF WatchInv, WatchersTypeOK
  <1>6. PICK v \in Seq(Timestamps) : v = Append(u, y)
    BY <1>5
  <1>7. settledTimes' = v
    BY <1>5, <1>6
  <1>8. Increasing(v) /\ \A i \in 1 .. Len(v) : v[i] = y \/ (i \in 1 .. Len(u) /\ v[i] = u[i])
    <2>1. Increasing(u) /\ \A i \in 1 .. Len(u) : u[i] < y
      BY <1>5 DEF SettledInv, SettledIsFinal, Increasing
    <2> QED
      BY <1>6, <2>1, LaterJoins
  <1>9. SettledIsFinal'
    BY <1>7, <1>8 DEF SettledIsFinal, Increasing
  <1>10. y \in Int
    BY SpecialTimestamps
  <1>11. ASSUME NEW i \in 1 .. Len(v)
         PROVE  Final(v[i])' /\ v[i] <= y
    <2>1. CASE v[i] = y
      BY <1>10, <2>1
    <2>2. CASE i \in 1 .. Len(u) /\ v[i] = u[i]
      <3>1. PICK x \in Timestamps : x = u[i]
        BY <2>2
      <3>2. Final(x) /\ x < y
        BY <1>5, <2>2, <3>1 DEF SettledInv
      <3>3. Final(x)'
        BY <1>1, <3>2, FinalStaysFinal, StreamOnlyAdvances
      <3>4. x <= y
        BY <1>10, <3>2, SpecialTimestamps
      <3> QED
        BY <2>2, <3>1, <3>3, <3>4
    <2> QED
      BY <1>8, <2>1, <2>2
  <1> QED
    BY <1>1, <1>3, <1>4, <1>7, <1>9, <1>11 DEF SettledInv, InLoop, Final

LEMMA SettledInvNext ==
    ASSUME WatchInv, WatchInv', SettledInv, NoPacketAtPostStream, [MirrorNext]_mirrorVars
    PROVE  SettledInv'
  <1>1. CASE UNCHANGED mirrorVars
    BY <1>1 DEF SettledInv, SettledIsFinal, Final, Reached, InLoop, mirrorVars, watcherVars,
                observerVars, streamVars, queueVars, boundVars
  <1>2. ASSUME MirrorNext, UNCHANGED <<at, observerVars>>
        PROVE  SettledInv'
    BY <1>2, NothingReported DEF observerVars, InLoop
  <1>3. ASSUME MirrorNext, NEW p \in Producers, NEW place \in {"idle", Observer, Poller},
               at[p] \in {"idle", Poller}, at' = [at EXCEPT ![p] = place],
               UNCHANGED observerVars
        PROVE  SettledInv'
    <2>1. at'[p] = place /\ \A q \in Producers : q # p => at'[q] = at[q]
      BY <1>3 DEF WatchInv, WatchersTypeOK
    <2>2. \A q \in Producers : /\ InLoop(q)' => InLoop(q)
                               /\ at'[q] = "settle" => at[q] = "settle"
      BY <2>1 DEF InLoop, Observer, Poller
    <2> QED
      BY <1>3, <2>2, NothingReported DEF observerVars
  <1>4. ASSUME NEW p \in Producers, NEW s \in Streams, MirrorNext,
               (\E t \in MirrorTimes : EmitPacket(p, s, t)) \/ (\E b \in MirrorBounds : EmitBound(p, s, b))
        PROVE  SettledInv'
    <2>1. at' = [at EXCEPT ![p] = s] \/ at' = [at EXCEPT ![p] = "idle"]
      BY <1>4 DEF EmitPacket, EmitBound
    <2>2. s \in {Observer, Poller}
      BY MirrorAssumption
    <2>3. at[p] = "idle" /\ UNCHANGED observerVars
      BY <1>4 DEF EmitPacket, EmitBound
    <2> QED
      BY <1>3, <1>4, <2>1, <2>2, <2>3
  <1>5. ASSUME MirrorNext, NEW p \in Producers, NotifyPoller(p)
        PROVE  SettledInv'
    BY <1>3, <1>5 DEF NotifyPoller, Goes
  <1>6. ASSUME MirrorNext, NEW p \in Producers, NotifyObserver(p)
        PROVE  SettledInv'
    <2>1. PICK place \in {"idle", "loop"} : /\ at' = [at EXCEPT ![p] = place]
                                            /\ notifying => place = "idle"
      BY <1>6 DEF NotifyObserver, Goes
    <2>2. at'[p] = place /\ \A q \in Producers : q # p => at'[q] = at[q]
      BY <2>1 DEF WatchInv, WatchersTypeOK
    <2>3. (\E q \in Producers : InLoop(q)') => (\E q \in Producers : InLoop(q)) \/ ~notifying
      BY <2>1, <2>2 DEF InLoop
    <2>4. \A q \in Producers : at'[q] = "settle" => at[q] = "settle"
      BY <2>1, <2>2
    <2>5. notifying' = TRUE /\ UNCHANGED <<settledTimes, last_processed_ts, min_timestamp>>
      BY <1>6 DEF NotifyObserver
    <2> QED
      BY <1>6, <2>3, <2>4, <2>5, NothingReported
  <1>7. ASSUME MirrorNext, NEW p \in Producers, ReadStream(p)
        PROVE  SettledInv'
    <2>1. InLoop(p) /\ Observer \in Streams
      BY <1>7 DEF ReadStream, InLoop, WatchInv, ObserverInv
    <2>2. /\ at' = [at EXCEPT ![p] = IF queue[Observer] = <<>> THEN "settle" ELSE "pop"]
          /\ min_timestamp' = [min_timestamp EXCEPT ![p] = MinTimestampOrBound(Observer)]
          /\ UNCHANGED <<settledTimes, last_processed_ts, notifying, queue, next_timestamp_bound>>
      BY <1>7 DEF ReadStream, Goes, streamVars, queueVars, boundVars
    <2>3. /\ at'[p] = IF queue[Observer] = <<>> THEN "settle" ELSE "pop"
          /\ min_timestamp'[p] = MinTimestampOrBound(Observer)
          /\ \A q \in Producers : q # p => at'[q] = at[q] /\ min_timestamp'[q] = min_timestamp[q]
      BY <2>2 DEF WatchInv, WatchersTypeOK
    <2>4. at'[p] = "settle" => Reached(min_timestamp[p])'
      <3> SUFFICES ASSUME at'[p] = "settle" PROVE Reached(min_timestamp[p])'
        OBVIOUS
      <3>1. queue'[Observer] = <<>> /\ Len(queue'[Observer]) = 0
        BY <2>2, <2>3
      <3>2. next_timestamp_bound[Observer] \in Int
        BY <2>1, Waiting, SpecialTimestamps
      <3>3. min_timestamp'[p] <= next_timestamp_bound'[Observer]
        BY <2>2, <2>3, <3>1, <3>2 DEF MinTimestampOrBound
      <3> QED
        BY <3>1, <3>3 DEF Reached
    <2> QED
      BY <1>7, <2>1, <2>2, <2>3, <2>4, NothingReported
  <1>8. ASSUME MirrorNext, NEW p \in Producers, LastCheck(p)
        PROVE  SettledInv'
    <2>1. InLoop(p) /\ UNCHANGED <<settledTimes, last_processed_ts, min_timestamp>>
      BY <1>8 DEF LastCheck, InLoop
    <2>2. PICK place \in {"idle", "loop"} : at' = [at EXCEPT ![p] = place]
      BY <1>8 DEF LastCheck, Goes
    <2>3. at'[p] = place /\ \A q \in Producers : q # p => at'[q] = at[q]
      BY <2>2 DEF WatchInv, WatchersTypeOK
    <2> QED
      BY <1>8, <2>1, <2>2, <2>3, NothingReported
  <1>9. ASSUME MirrorNext, NEW p \in Producers, PopForObserver(p)
        PROVE  SettledInv'
    <2>1. /\ InLoop(p)
          /\ at' = [at EXCEPT ![p] = "idle"] \/ last_processed_ts' = min_timestamp[p]
          /\ at' = [at EXCEPT ![p] = "idle"] \/ at' = [at EXCEPT ![p] = "loop"]
          /\ UNCHANGED <<notifying, min_timestamp>>
      BY <1>9 DEF PopForObserver, CallbackFails, Goes, InLoop
    <2>2. /\ Observer \in Streams /\ queue[Observer] # <<>>
          /\ Head(queue[Observer]) = min_timestamp[p]
          /\ UNCHANGED next_timestamp_bound
          /\ min_timestamp[p] < next_timestamp_bound[Observer]
          /\ \A i \in 1 .. Len(queue'[Observer]) : min_timestamp[p] < queue'[Observer][i]
      BY <1>9, PopForObserverStep
    <2>3. PICK y \in Timestamps : y = min_timestamp[p]
      BY DEF WatchInv, WatchersTypeOK
    <2>4. settledTimes' = Append(settledTimes, y)
      BY <1>9, <2>2, <2>3 DEF PopForObserver
    <2>5. Final(y)'
      BY <2>2, <2>3 DEF Final
    <2>6. \A i \in 1 .. Len(settledTimes) : settledTimes[i] < y
      <3>1. PICK q \in Seq(Timestamps) : q = queue[Observer]
        BY <2>2, Waiting
      <3>2. y = q[1] /\ 1 \in 1 .. Len(q)
        BY <2>2, <2>3, <3>1
      <3> QED
        BY <3>1, <3>2 DEF SettledInv, Final
    <2>7. at' = [at EXCEPT ![p] = "idle"] \/ last_processed_ts' = y
      BY <2>1, <2>3
    <2> QED
      BY <1>9, <2>1, <2>4, <2>5, <2>6, <2>7, TimeReported
  <1>10. ASSUME MirrorNext, NEW p \in Producers, ObserveBound(p)
         PROVE  SettledInv'
    <2>1. /\ InLoop(p) /\ at[p] = "settle" /\ Observer \in Streams
          /\ UNCHANGED <<notifying, min_timestamp, queue, next_timestamp_bound>>
      BY <1>10 DEF ObserveBound, InLoop, WatchInv, ObserverInv, streamVars, queueVars, boundVars
    <2>2. CASE UNCHANGED <<last_processed_ts, settledTimes>> /\ at' = [at EXCEPT ![p] = "check"]
      <3>1. at'[p] = "check" /\ \A q \in Producers : q # p => at'[q] = at[q]
        BY <2>2 DEF WatchInv, WatchersTypeOK
      <3> QED
        BY <1>10, <2>1, <2>2, <3>1, NothingReported
    <2>3. CASE /\ last_processed_ts < Settled(min_timestamp[p])
               /\ settledTimes' = Append(settledTimes, Settled(min_timestamp[p]))
               /\ \/ at' = [at EXCEPT ![p] = "idle"]
                  \/ at' = [at EXCEPT ![p] = "check"] /\ last_processed_ts' = Settled(min_timestamp[p])
      <3>1. PICK m \in Timestamps : m = min_timestamp[p]
        BY DEF WatchInv, WatchersTypeOK
      <3>2. Settled(m) \in Timestamps
        <4>1. PostStream \in Timestamps
          BY RangeAssumption DEF PostStream, Timestamps, Unset, Done
        <4> QED
          BY <4>1, PreviousIsEarlier DEF Settled
      <3>3. PICK y \in Timestamps : y = Settled(m)
        BY <3>2
      <3>4. PICK b \in Int : b = next_timestamp_bound[Observer]
        <4>1. next_timestamp_bound[Observer] \in Timestamps
          BY <2>1, Waiting
        <4> QED
          BY <4>1, SpecialTimestamps
      <3>5. PICK q \in Seq(Timestamps) : q = queue[Observer]
        BY <2>1, Waiting
      <3>6. m <= b /\ \A i \in 1 .. Len(q) : m <= q[i]
        BY <2>1, <3>1, <3>4, <3>5 DEF SettledInv, Reached
      <3>7. /\ m \in Int /\ y \in Int /\ PostStream \in Int /\ Unstarted \in Int
            /\ last_processed_ts \in Int /\ Unstarted <= last_processed_ts /\ last_processed_ts < y
        BY <2>3, <3>1, <3>3, SpecialTimestamps DEF WatchInv, WatchersTypeOK
      <3>8. y < m \/ (y = PostStream /\ m = PostStream)
        BY <3>3, <3>7, PreviousIsEarlier DEF Settled
      <3>9. \A i \in 1 .. Len(q) : q[i] \in Int /\ q[i] <= PostStream /\ q[i] # PostStream
        <4>1. \A i \in 1 .. Len(q) : q[i] \in MirrorTimes /\ IsAllowedInStream(q[i])
          BY <2>1, <3>5 DEF WatchInv, MirrorsInv
        <4>2. \A i \in 1 .. Len(q) : q[i] \in Timestamps
          OBVIOUS
        <4> QED
          BY <4>1, <4>2, SpecialTimestamps DEF NoPacketAtPostStream, IsAllowedInStream
      <3>10. \A i \in 1 .. Len(q) : y < q[i]
        BY <3>6, <3>7, <3>8, <3>9
      <3>11. y < b \/ (y = PostStream /\ y <= b)
        BY <3>6, <3>7, <3>8
      <3>12. Final(y)'
        BY <2>1, <3>4, <3>5, <3>10, <3>11 DEF Final
      <3>13. \A i \in 1 .. Len(settledTimes) : settledTimes[i] < y
        <4>1. \A i \in 1 .. Len(settledTimes) :
                 settledTimes[i] \in Int /\ settledTimes[i] <= last_processed_ts
          <5>1. \A i \in 1 .. Len(settledTimes) : settledTimes[i] \in Timestamps
            BY DEF WatchInv, WatchersTypeOK
          <5> QED
            BY <2>1, <5>1, SpecialTimestamps DEF SettledInv
        <4> QED
          BY <3>7, <4>1
      <3>14. PICK place \in {"idle", "check"} :
                /\ at' = [at EXCEPT ![p] = place]
                /\ place = "idle" \/ last_processed_ts' = y
        BY <2>3, <3>1, <3>3
      <3>15. settledTimes' = Append(settledTimes, y)
        BY <2>3, <3>1, <3>3
      <3> QED
        BY <1>10, <2>1, <3>12, <3>13, <3>14, <3>15, TimeReported
    <2> QED
      BY <1>10, <2>2, <2>3 DEF ObserveBound, CallbackFails, Goes
  <1>11. CASE PollerLooks
    BY <1>2, <1>11 DEF PollerLooks, MirrorNext
  <1>12. CASE PollerPops
    BY <1>2, <1>12 DEF PollerPops, MirrorNext
  <1> QED
    BY <1>1, <1>4, <1>5, <1>6, <1>7, <1>8, <1>9, <1>10, <1>11, <1>12 DEF MirrorNext, ProducerNotifies

\* When no packet is sent at Timestamp::PostStream(), the timestamps the
\* observer's callback gets, packets and settled bounds together, only grow:
\* what Notify() has reported as settled gets no packet any more, whichever
\* thread sends it.
THEOREM SettledStaysFinal == NoPacketAtPostStream => (MirrorSpec => []SettledIsFinal)
  <1> SUFFICES ASSUME NoPacketAtPostStream PROVE MirrorSpec => []SettledIsFinal
    OBVIOUS
  <1>1. MirrorInit => SettledInv
    BY DEF MirrorInit, WatchersInit, SettledInv, SettledIsFinal
  <1>2. WatchInv /\ WatchInv' /\ SettledInv /\ [MirrorNext]_mirrorVars => SettledInv'
    BY SettledInvNext
  <1>3. SettledInv => SettledIsFinal
    BY DEF SettledInv
  <1> QED
    BY <1>1, <1>2, <1>3, WatchInvHolds, PTL DEF MirrorSpec

-----------------------------------------------------------------------------

\* A worker neither sleeps nor has left.
AwakeAt(place) == place \notin {"wait", "exit"}

PoolTypeOK ==
    /\ threads_ \in Nat /\ Live \subseteq PoolWorkers
    /\ tasks_ \in Seq(PoolTasks)
    /\ stopped_ \in BOOLEAN
    /\ workerAt \in [PoolWorkers -> PoolTasks \cup {"look", "wait", "exit"}]
    /\ destroying \in {"no", "joining", "done"}

\* Tasks wait in a pool that is there and not left yet; the workers leave
\* once it is stopped and nothing waits, and it is gone when all have left.
PoolStages ==
    /\ threads_ = 0 =>
          tasks_ = <<>> /\ destroying = "no" /\ \A w \in PoolWorkers : workerAt[w] = "look"
    /\ stopped_ <=> destroying # "no"
    /\ \A w \in Live : workerAt[w] = "exit" => stopped_ /\ tasks_ = <<>>
    /\ destroying = "done" => \A w \in Live : workerAt[w] = "exit"

PoolInv ==
    /\ PoolTypeOK /\ PoolStages
    /\ tasks_ # <<>> => \E w \in Live : AwakeAt(workerAt[w])

LEMMA PoolInvInit == PoolInit => PoolInv
  <1> SUFFICES ASSUME PoolInit PROVE PoolInv OBVIOUS
  <1>1. Live = {}
    BY DEF PoolInit, Live
  <1>2. <<>> \in Seq(PoolTasks)
    BY EmptySeq
  <1> QED
    BY <1>1, <1>2 DEF PoolInit, PoolInv, PoolTypeOK, PoolStages

\* A sleeper that is signalled looks again; all others stay where they are.
LEMMA SignalWakes ==
  ASSUME PoolTypeOK, Signal, threads_ > 0
  PROVE  /\ workerAt' \in [PoolWorkers -> PoolTasks \cup {"look", "wait", "exit"}]
         /\ \A w \in Live : workerAt'[w] = "exit" => workerAt[w] = "exit"
         /\ \A w \in Live : workerAt'[w] # workerAt[w] => workerAt'[w] = "look"
         /\ (\E w \in Live : workerAt[w] # "exit") => \E w \in Live : AwakeAt(workerAt'[w])
  <1>1. CASE Sleeping = {}
    BY <1>1 DEF Signal, Sleeping, PoolTypeOK, AwakeAt, Live
  <1>2. CASE Sleeping # {}
    <2>1. PICK w \in Sleeping : workerAt' = [workerAt EXCEPT ![w] = "look"]
      BY <1>2 DEF Signal
    <2>2. w \in Live /\ w \in PoolWorkers
      BY <2>1 DEF Sleeping, PoolTypeOK
    <2>3. \A v \in PoolWorkers : workerAt'[v] = IF v = w THEN "look" ELSE workerAt[v]
      BY <2>1, <2>2 DEF PoolTypeOK
    <2> QED
      BY <2>1, <2>2, <2>3 DEF PoolTypeOK, AwakeAt
  <1> QED
    BY <1>1, <1>2

LEMMA CreatePoolStep ==
  ASSUME PoolInv, NEW count \in ThreadCounts, CreatePool(count)
  PROVE  PoolInv'
  <1>1. CASE count = NoCount \/ count <= 0
    BY <1>1 DEF CreatePool, PoolInv, PoolTypeOK, PoolStages, Live
  <1>2. CASE ~(count = NoCount \/ count <= 0)
    <2>1. count \in Nat /\ count > 0 /\ 1 .. count \subseteq PoolWorkers
      BY <1>2, PoolAssumption
    <2>2. threads_' = count /\ threads_ = 0 /\ destroying = "no"
      BY <1>2 DEF CreatePool
    <2>3. tasks_ = <<>>
      BY <2>2 DEF PoolInv, PoolStages
    <2>4. ~stopped_ /\ \A w \in PoolWorkers : workerAt[w] = "look"
      BY <2>2 DEF PoolInv, PoolStages
    <2> QED
      BY <2>1, <2>2, <2>3, <2>4 DEF CreatePool, PoolInv, PoolTypeOK, PoolStages, Live
  <1> QED
    BY <1>1, <1>2

LEMMA PoolScheduleStep ==
  ASSUME PoolInv, NEW t \in PoolTasks, PoolSchedule(t)
  PROVE  PoolInv'
  <1>1. threads_ > 0 /\ destroying = "no" /\ ~stopped_ /\ Live' = Live
    BY DEF PoolSchedule, PoolInv, PoolStages, Live
  <1>2. \A w \in Live : workerAt[w] # "exit"
    BY <1>1 DEF PoolInv, PoolStages
  <1>3. 1 \in Live
    BY <1>1 DEF Live, PoolInv, PoolTypeOK
  <1>4. tasks_' \in Seq(PoolTasks)
    BY DEF PoolSchedule, PoolInv, PoolTypeOK
  <1>5. PoolTypeOK'
    BY <1>1, <1>4, SignalWakes DEF PoolSchedule, PoolInv, PoolTypeOK
  <1>6. \A w \in Live : workerAt'[w] # "exit"
    BY <1>1, <1>2, SignalWakes DEF PoolSchedule, PoolInv
  <1>7. PoolStages'
    BY <1>1, <1>6 DEF PoolSchedule, PoolStages, PoolInv
  <1>8. \E w \in Live' : AwakeAt(workerAt'[w])
    BY <1>1, <1>2, <1>3, SignalWakes DEF PoolSchedule, PoolInv
  <1> QED
    BY <1>5, <1>7, <1>8 DEF PoolInv

\* With the mutex a worker takes a task, and leaves or sleeps without one.
LEMMA RunWorkerStep ==
  ASSUME PoolInv, NEW w \in PoolWorkers, RunWorker(w)
  PROVE  PoolInv'
  <1>1. w \in Live /\ workerAt[w] = "look" /\ Live' = Live
    BY DEF RunWorker, Live
  <1> DEFINE next == IF tasks_ # <<>> THEN Head(tasks_) ELSE IF stopped_ THEN "exit" ELSE "wait"
  <1>2. tasks_ # <<>> => Head(tasks_) \in PoolTasks /\ Tail(tasks_) \in Seq(PoolTasks)
    BY HeadTailProperties DEF PoolInv, PoolTypeOK
  <1>3. \A v \in PoolWorkers : workerAt'[v] = IF v = w THEN next ELSE workerAt[v]
    BY DEF RunWorker, LooksAgain, PoolInv, PoolTypeOK
  <1>4. workerAt' \in [PoolWorkers -> PoolTasks \cup {"look", "wait", "exit"}]
    BY <1>2 DEF RunWorker, LooksAgain, PoolInv, PoolTypeOK
  <1>5. CASE tasks_ # <<>>
    <2>1. workerAt'[w] \in PoolTasks /\ tasks_' = Tail(tasks_)
      BY <1>2, <1>3, <1>5 DEF RunWorker
    <2>2. \A v \in Live : workerAt'[v] # "exit"
      BY <1>3, <1>5, <2>1, PoolAssumption DEF PoolInv, PoolStages, PoolTypeOK
    <2>3. AwakeAt(workerAt'[w])
      BY <2>1, PoolAssumption DEF AwakeAt
    <2>4. destroying # "done"
      BY <1>1 DEF PoolInv, PoolStages
    <2>5. threads_ # 0
      BY <1>1 DEF Live
    <2> QED
      BY <1>1, <1>2, <1>4, <1>5, <2>1, <2>2, <2>3, <2>4, <2>5
         DEF RunWorker, PoolInv, PoolTypeOK, PoolStages
  <1>6. CASE tasks_ = <<>>
    <2>1. workerAt'[w] \notin PoolTasks /\ tasks_' = <<>>
      BY <1>3, <1>6, PoolAssumption DEF RunWorker
    <2>2. workerAt'[w] = "exit" => stopped_
      BY <1>3, <1>6
    <2>3. destroying # "done"
      BY <1>1 DEF PoolInv, PoolStages
    <2>4. threads_ # 0
      BY <1>1 DEF Live
    <2> QED
      BY <1>1, <1>3, <1>4, <1>6, <2>1, <2>2, <2>3, <2>4
         DEF RunWorker, PoolInv, PoolTypeOK, PoolStages
  <1> QED
    BY <1>5, <1>6

LEMMA TaskReturnsStep ==
  ASSUME PoolInv, NEW w \in PoolWorkers, TaskReturns(w)
  PROVE  PoolInv'
  <1>1. w \in Live /\ workerAt[w] \in PoolTasks /\ Live' = Live
    BY DEF TaskReturns, Live
  <1>2. \A v \in PoolWorkers : workerAt'[v] = IF v = w THEN "look" ELSE workerAt[v]
    BY DEF TaskReturns, PoolInv, PoolTypeOK
  <1>3. PoolTypeOK'
    BY <1>1 DEF TaskReturns, PoolInv, PoolTypeOK
  <1>4. destroying # "done"
    BY <1>1, PoolAssumption DEF PoolInv, PoolStages
  <1>5. PoolStages'
    BY <1>1, <1>2, <1>4 DEF TaskReturns, PoolInv, PoolStages, PoolTypeOK
  <1>6. AwakeAt(workerAt'[w])
    BY <1>1, <1>2 DEF AwakeAt
  <1> QED
    BY <1>1, <1>3, <1>5, <1>6 DEF PoolInv

LEMMA StopPoolStep ==
  ASSUME PoolInv, StopPool
  PROVE  PoolInv'
  <1>1. threads_ > 0 /\ destroying = "no" /\ ~stopped_ /\ Live' = Live
    BY DEF StopPool, PoolInv, PoolStages, Live
  <1>2. \A w \in PoolWorkers : workerAt'[w] = IF w \in Sleeping THEN "look" ELSE workerAt[w]
    BY DEF StopPool
  <1>3. \A w \in Live : workerAt'[w] # "exit"
    BY <1>1, <1>2 DEF PoolInv, PoolStages, PoolTypeOK
  <1>4. PoolTypeOK'
    BY <1>1 DEF StopPool, PoolInv, PoolTypeOK
  <1>5. PoolStages'
    BY <1>1, <1>3 DEF StopPool, PoolInv, PoolStages
  <1>6. ASSUME NEW w \in Live, AwakeAt(workerAt[w]) PROVE AwakeAt(workerAt'[w])
    BY <1>2, <1>6 DEF AwakeAt, PoolInv, PoolTypeOK
  <1>7. tasks_' # <<>> => \E w \in Live' : AwakeAt(workerAt'[w])
    BY <1>1, <1>6 DEF StopPool, PoolInv
  <1> QED
    BY <1>4, <1>5, <1>7 DEF PoolInv

LEMMA JoinWorkersStep ==
  ASSUME PoolInv, JoinWorkers
  PROVE  PoolInv'
  BY DEF JoinWorkers, PoolInv, PoolTypeOK, PoolStages, Live

LEMMA PoolInvStep ==
  ASSUME PoolInv, [PoolNext]_poolVars
  PROVE  PoolInv'
  <1>1. CASE \E count \in ThreadCounts : CreatePool(count)
    BY <1>1, CreatePoolStep
  <1>2. CASE \E t \in PoolTasks : PoolSchedule(t)
    BY <1>2, PoolScheduleStep
  <1>3. CASE \E w \in PoolWorkers : PoolWorkerStep(w)
    BY <1>3, RunWorkerStep, TaskReturnsStep DEF PoolWorkerStep
  <1>4. CASE StopPool
    BY <1>4, StopPoolStep
  <1>5. CASE JoinWorkers
    BY <1>5, JoinWorkersStep
  <1>6. CASE UNCHANGED poolVars
    BY <1>6 DEF poolVars, PoolInv, PoolTypeOK, PoolStages, Live
  <1> QED
    BY <1>1, <1>2, <1>3, <1>4, <1>5, <1>6 DEF PoolNext

LEMMA PoolInvIsSound == PoolInv => NoTaskLeftBehind
  <1> SUFFICES ASSUME PoolInv PROVE NoTaskLeftBehind OBVIOUS
  <1>1. ASSUME destroying = "done"
        PROVE  tasks_ = <<>> /\ \A w \in Live : workerAt[w] = "exit"
    <2>1. threads_ # 0
      BY <1>1 DEF PoolInv, PoolStages
    <2>2. 1 \in Live
      BY <2>1 DEF PoolInv, PoolTypeOK, Live
    <2> QED
      BY <1>1, <2>2 DEF PoolInv, PoolStages
  <1> QED
    BY <1>1 DEF PoolInv, NoTaskLeftBehind, AwakeAt

\* The pool returns from its destructor with every task taken, and while tasks
\* wait somebody is awake to take them.
THEOREM PoolLeavesNoTask == PoolSpec => []NoTaskLeftBehind
  <1>1. PoolInv /\ [PoolNext]_poolVars => PoolInv'
    BY PoolInvStep
  <1> QED
    BY PoolInvInit, <1>1, PoolInvIsSound, PTL DEF PoolSpec

-----------------------------------------------------------------------------

MonoTypeOK ==
    /\ maxTime \in Nat /\ returned \in Nat
    /\ instance \in [MonoClocks -> [lastRaw : Nat, corrections : Nat, maxCorrection : Nat]]
    /\ timeCall \in [ClockThreads ->
          [pc : {"idle", "reading", "read"}, clock : MonoClocks \cup {"none"},
           value : Nat, floor : Nat, until : Nat, left : Nat]]

\* A call asks for no more than was returned when it began, nothing that was
\* shown or returned is past max_time, and a time read is between the two.
MonoInv ==
    /\ MonoTypeOK
    /\ returned <= maxTime
    /\ \A c \in MonoClocks : instance[c].lastRaw <= maxTime
    /\ \A t \in ClockThreads :
          /\ timeCall[t].floor <= returned
          /\ timeCall[t].pc # "idle" => timeCall[t].clock \in MonoClocks
          /\ timeCall[t].pc = "read" =>
                timeCall[t].floor <= timeCall[t].value /\ timeCall[t].value <= maxTime

LEMMA MonoInvInit == ClockInit => MonoInv
  BY ClocksAssumption DEF ClockInit, MonoInv, MonoTypeOK

\* What one thread asks, and what one clock counts, changes for it alone.
LEMMA CallClockStep ==
  ASSUME MonoInv, NEW t \in ClockThreads, NEW c \in MonoClocks, NEW u \in 0 .. MaxRaw,
         CallClock(t, c, u)
  PROVE  MonoInv'
  <1> DEFINE call == [pc |-> "reading", clock |-> c, value |-> 0, floor |-> returned,
                      until |-> u, left |-> timeCall[t].left - 1]
  <1>1. timeCall' = [timeCall EXCEPT ![t] = call]
    BY DEF CallClock
  <1>2. call \in [pc : {"idle", "reading", "read"}, clock : MonoClocks \cup {"none"},
                  value : Nat, floor : Nat, until : Nat, left : Nat]
    <2>1. timeCall[t].left - 1 \in Nat
      BY DEF CallClock, MonoInv, MonoTypeOK
    <2>2. u \in Nat
      BY ClocksAssumption
    <2> QED
      BY <2>1, <2>2 DEF MonoInv, MonoTypeOK
  <1>3. call.pc = "reading" /\ call.floor = returned /\ call.clock = c
    OBVIOUS
  <1> HIDE DEF call
  <1>4. \A s \in ClockThreads : timeCall'[s] = IF s = t THEN call ELSE timeCall[s]
    BY <1>1 DEF MonoInv, MonoTypeOK
  <1>5. timeCall' \in [ClockThreads ->
          [pc : {"idle", "reading", "read"}, clock : MonoClocks \cup {"none"},
           value : Nat, floor : Nat, until : Nat, left : Nat]]
    BY <1>1, <1>2 DEF MonoInv, MonoTypeOK
  <1> QED
    BY <1>3, <1>4, <1>5 DEF CallClock, MonoInv, MonoTypeOK

\* The time a thread reads is noted by the clock it asked.
LEMMA TimeNowStep ==
  ASSUME MonoInv, NEW t \in ClockThreads, TimeNow(t)
  PROVE  MonoInv'
  <1> DEFINE c == timeCall[t].clock
             i == instance[c]
  <1>1. timeCall[t].pc = "reading" /\ c \in MonoClocks /\ UNCHANGED returned
    BY DEF TimeNow, MonoInv
  <1>2. PICK raw \in 0 .. MaxRaw :
              \/ /\ raw >= maxTime
                 /\ maxTime' = raw
                 /\ instance' = [instance EXCEPT ![c].lastRaw = raw]
                 /\ timeCall' = [timeCall EXCEPT ![t].pc = "read", ![t].value = raw]
              \/ /\ raw < maxTime /\ raw >= i.lastRaw
                 /\ instance' = [instance EXCEPT ![c].lastRaw = raw]
                 /\ timeCall' = [timeCall EXCEPT ![t].pc = "read", ![t].value = Corrected(raw, c)]
                 /\ UNCHANGED maxTime
              \/ /\ raw < maxTime /\ raw < i.lastRaw /\ i.corrections < MaxCorrections
                 /\ instance' = [instance EXCEPT ![c] =
                       [lastRaw |-> raw, corrections |-> i.corrections + 1,
                        maxCorrection |-> IF maxTime - raw > i.maxCorrection
                                          THEN maxTime - raw ELSE i.maxCorrection]]
                 /\ timeCall' = [timeCall EXCEPT ![t].pc = "read", ![t].value = maxTime]
                 /\ UNCHANGED maxTime
    BY DEF TimeNow
  <1>3. raw \in Nat /\ maxTime \in Nat /\ i.lastRaw \in Nat
    BY <1>1, ClocksAssumption DEF MonoInv, MonoTypeOK
  <1>4. /\ maxTime' \in Nat /\ maxTime <= maxTime' /\ raw <= maxTime'
        /\ timeCall' = [timeCall EXCEPT ![t].pc = "read", ![t].value = maxTime']
    BY <1>2, <1>3 DEF Corrected
  <1>5. /\ instance' \in [MonoClocks -> [lastRaw : Nat, corrections : Nat, maxCorrection : Nat]]
        /\ \A d \in MonoClocks : instance'[d].lastRaw = IF d = c THEN raw ELSE instance[d].lastRaw
    <2>1. CASE instance' = [instance EXCEPT ![c].lastRaw = raw]
      BY <1>1, <1>3, <2>1 DEF MonoInv, MonoTypeOK
    <2>2. CASE /\ raw < maxTime
               /\ instance' = [instance EXCEPT ![c] =
                       [lastRaw |-> raw, corrections |-> i.corrections + 1,
                        maxCorrection |-> IF maxTime - raw > i.maxCorrection
                                          THEN maxTime - raw ELSE i.maxCorrection]]
      <3> DEFINE n == [lastRaw |-> raw, corrections |-> i.corrections + 1,
                       maxCorrection |-> IF maxTime - raw > i.maxCorrection
                                         THEN maxTime - raw ELSE i.maxCorrection]
      <3>1. n \in [lastRaw : Nat, corrections : Nat, maxCorrection : Nat] /\ n.lastRaw = raw
        <4>1. i.corrections + 1 \in Nat /\ i.maxCorrection \in Nat /\ maxTime - raw \in Nat
          BY <1>1, <1>3, <2>2 DEF MonoInv, MonoTypeOK
        <4> QED
          BY <1>3, <4>1
      <3>2. instance' = [instance EXCEPT ![c] = n]
        BY <2>2
      <3> HIDE DEF n
      <3> QED
        BY <1>1, <3>1, <3>2 DEF MonoInv, MonoTypeOK
    <2> QED
      BY <1>2, <2>1, <2>2
  <1>6. /\ timeCall' \in [ClockThreads ->
              [pc : {"idle", "reading", "read"}, clock : MonoClocks \cup {"none"},
               value : Nat, floor : Nat, until : Nat, left : Nat]]
        /\ \A s \in ClockThreads :
              /\ timeCall'[s].floor = timeCall[s].floor
              /\ timeCall'[s].clock = timeCall[s].clock
              /\ timeCall'[s].pc = IF s = t THEN "read" ELSE timeCall[s].pc
              /\ timeCall'[s].value = IF s = t THEN maxTime' ELSE timeCall[s].value
    BY <1>4 DEF MonoInv, MonoTypeOK
  <1>7. \A s \in ClockThreads : timeCall[s].floor \in Nat /\ timeCall[s].value \in Nat
    BY DEF MonoInv, MonoTypeOK
  <1>8. \A d \in MonoClocks : instance[d].lastRaw \in Nat
    BY DEF MonoInv, MonoTypeOK
  <1>9. returned \in Nat
    BY DEF MonoInv, MonoTypeOK
  <1>10. MonoTypeOK'
    BY <1>1, <1>4, <1>5, <1>6, <1>9 DEF MonoTypeOK
  <1>11. \A d \in MonoClocks : instance'[d].lastRaw <= maxTime'
    BY <1>3, <1>4, <1>5, <1>8 DEF MonoInv
  <1>12. ASSUME NEW s \in ClockThreads
         PROVE  /\ timeCall'[s].floor <= returned'
                /\ timeCall'[s].pc # "idle" => timeCall'[s].clock \in MonoClocks
                /\ timeCall'[s].pc = "read" =>
                      timeCall'[s].floor <= timeCall'[s].value /\ timeCall'[s].value <= maxTime'
    BY <1>1, <1>3, <1>4, <1>6, <1>7, <1>9 DEF MonoInv
  <1>13. returned' <= maxTime'
    BY <1>1, <1>3, <1>4, <1>9 DEF MonoInv
  <1> QED
    BY <1>10, <1>11, <1>12, <1>13 DEF MonoInv

LEMMA ReturnTimeStep ==
  ASSUME MonoInv, NEW t \in ClockThreads, ReturnTime(t)
  PROVE  MonoInv'
  <1>1. \A s \in ClockThreads :
           timeCall[s].floor \in Nat /\ timeCall[s].value \in Nat /\ timeCall[s].until \in Nat
    BY DEF MonoInv, MonoTypeOK
  <1>2. timeCall[t].pc = "read" /\ UNCHANGED <<maxTime, instance>>
    BY DEF ReturnTime
  <1>3. maxTime \in Nat /\ returned \in Nat
    BY DEF MonoInv, MonoTypeOK
  <1>4. CASE /\ timeCall' = [timeCall EXCEPT ![t] = [pc |-> "idle", clock |-> "none", value |-> 0,
                                             floor |-> 0, until |-> 0, left |-> @.left]]
             /\ returned' = IF timeCall[t].value > returned THEN timeCall[t].value ELSE returned
    <2>1. /\ timeCall' \in [ClockThreads ->
                [pc : {"idle", "reading", "read"}, clock : MonoClocks \cup {"none"},
                 value : Nat, floor : Nat, until : Nat, left : Nat]]
          /\ \A s \in ClockThreads :
                /\ timeCall'[s].pc = IF s = t THEN "idle" ELSE timeCall[s].pc
                /\ timeCall'[s].floor = IF s = t THEN 0 ELSE timeCall[s].floor
                /\ timeCall'[s].value = IF s = t THEN 0 ELSE timeCall[s].value
                /\ timeCall'[s].clock = IF s = t THEN "none" ELSE timeCall[s].clock
      BY <1>4 DEF MonoInv, MonoTypeOK
    <2>2. returned' \in Nat /\ returned <= returned' /\ returned' <= maxTime
      BY <1>1, <1>2, <1>3, <1>4 DEF MonoInv
    <2>3. MonoTypeOK'
      BY <1>2, <2>1, <2>2 DEF MonoInv, MonoTypeOK
    <2>4. ASSUME NEW s \in ClockThreads
          PROVE  /\ timeCall'[s].floor <= returned'
                 /\ timeCall'[s].pc # "idle" => timeCall'[s].clock \in MonoClocks
                 /\ timeCall'[s].pc = "read" =>
                       timeCall'[s].floor <= timeCall'[s].value /\ timeCall'[s].value <= maxTime'
      <3>1. CASE s = t
        BY <2>1, <2>2, <3>1
      <3>2. CASE s # t
        <4>1. /\ timeCall'[s].pc = timeCall[s].pc /\ timeCall'[s].floor = timeCall[s].floor
              /\ timeCall'[s].value = timeCall[s].value /\ timeCall'[s].clock = timeCall[s].clock
          BY <2>1, <3>2
        <4> QED
          BY <1>1, <1>2, <1>3, <2>2, <4>1 DEF MonoInv
      <3> QED
        BY <3>1, <3>2
    <2> QED
      BY <1>2, <2>2, <2>3, <2>4 DEF MonoInv
  <1>5. CASE timeCall' = [timeCall EXCEPT ![t].pc = "reading"] /\ UNCHANGED returned
    <2>1. /\ timeCall' \in [ClockThreads ->
                [pc : {"idle", "reading", "read"}, clock : MonoClocks \cup {"none"},
                 value : Nat, floor : Nat, until : Nat, left : Nat]]
          /\ \A s \in ClockThreads :
                /\ timeCall'[s].floor = timeCall[s].floor
                /\ timeCall'[s].clock = timeCall[s].clock
                /\ timeCall'[s].value = timeCall[s].value
                /\ timeCall'[s].pc = IF s = t THEN "reading" ELSE timeCall[s].pc
      BY <1>5 DEF MonoInv, MonoTypeOK
    <2>2. MonoTypeOK'
      BY <1>2, <1>5, <2>1 DEF MonoInv, MonoTypeOK
    <2>3. timeCall[t].clock \in MonoClocks
      BY <1>2 DEF MonoInv
    <2> QED
      BY <1>2, <1>5, <2>1, <2>2, <2>3 DEF MonoInv
  <1> QED
    BY <1>4, <1>5 DEF ReturnTime

LEMMA ResetStep ==
  ASSUME MonoInv, NEW c \in MonoClocks, ResetCorrectionMetrics(c)
  PROVE  MonoInv'
  <1>1. /\ instance' \in [MonoClocks -> [lastRaw : Nat, corrections : Nat, maxCorrection : Nat]]
        /\ \A d \in MonoClocks : instance'[d].lastRaw = instance[d].lastRaw
    BY DEF ResetCorrectionMetrics, MonoInv, MonoTypeOK
  <1> QED
    BY <1>1 DEF ResetCorrectionMetrics, MonoInv, MonoTypeOK

LEMMA MonoNextStep ==
  ASSUME MonoInv, MonoNext
  PROVE  MonoInv'
  BY CallClockStep, TimeNowStep, ReturnTimeStep, ResetStep DEF MonoNext, MonoStep

LEMMA MonoInvIsSound == MonoInv => TimeNeverGoesBack
  BY DEF MonoInv, MonoTypeOK, TimeNeverGoesBack

-----------------------------------------------------------------------------

SimPlaces == {"new", "queued", "asleep", "signalled", "awake", "done"}
Waiters == [at : Nat, who : SimThreads]
ThreadStates == [SimThreads -> [pc : SimPlaces, wanted : Nat]]

\* The threads the clock counts as running.
RunningThreads(threads) == {t \in SimThreads : threads[t].pc \in {"awake", "queued"}}

\* Waiters in the order of their times, each of them a sleeper with that wish.
WaitersSorted(waiters) ==
    \A i, j \in 1 .. Len(waiters) :
       i < j => waiters[i].at <= waiters[j].at /\ waiters[i].who # waiters[j].who

WaitersSleep(time, waiters, threads) ==
    \A i \in 1 .. Len(waiters) :
       /\ time <= waiters[i].at
       /\ threads[waiters[i].who].pc = "asleep"
       /\ threads[waiters[i].who].wanted = waiters[i].at

\* Nobody is woken while a thread runs, one thread at a time is woken, and at
\* the time it asked for; before the main thread starts nothing has happened.
OneWoken(time, threads) ==
    /\ \A t \in SimThreads :
          threads[t].pc \in {"queued", "awake", "signalled"} /\ t # Main => threads[t].wanted = time
    /\ \A t, u \in SimThreads :
          threads[t].pc \in {"awake", "signalled"} /\ threads[u].pc \in {"awake", "signalled"} => t = u
    /\ \A t \in SimThreads : threads[t].pc = "signalled" => RunningThreads(threads) = {}
    /\ threads[Main].pc = "new" => \A t \in SimThreads : threads[t].pc = "new"
    /\ threads[Main].pc # "queued"

SimState(time, waiters, running, threads) ==
    /\ time \in Nat /\ running \in Nat /\ waiters \in Seq(Waiters) /\ threads \in ThreadStates
    /\ WaitersSorted(waiters)
    /\ WaitersSleep(time, waiters, threads)
    /\ running = Cardinality(RunningThreads(threads))
    /\ OneWoken(time, threads)

SimInv ==
    /\ sim \in [time : Nat, waiters : Seq(Waiters), running : Nat]
    /\ SimState(sim.time, sim.waiters, sim.running, thread)

LEMMA SimThreadsFinite ==
  /\ IsFiniteSet(SimThreads) /\ Main \in SimThreads
  /\ \A threads : IsFiniteSet(RunningThreads(threads))
                  /\ Cardinality(RunningThreads(threads)) \in Nat
  <1>1. IsFiniteSet(SimThreads)
    BY ClocksAssumption, FS_AddElement DEF SimThreads
  <1>2. ASSUME NEW threads
        PROVE  IsFiniteSet(RunningThreads(threads)) /\ Cardinality(RunningThreads(threads)) \in Nat
    <2>1. RunningThreads(threads) \in SUBSET SimThreads
      BY DEF RunningThreads
    <2>2. IsFiniteSet(RunningThreads(threads))
      BY <1>1, <2>1, FS_Subset
    <2> QED
      BY <2>2, FS_CardinalityType
  <1> QED
    BY <1>1, <1>2 DEF SimThreads

\* w is waiters with a waiter at place k.
IsInsertion(w, waiters, until, t, k) ==
    /\ \A i \in 1 .. k - 1 : waiters[i].at <= until
    /\ \A i \in k .. Len(waiters) : waiters[i].at > until
    /\ \A i \in 1 .. Len(waiters) + 1 :
          w[i] = IF i < k THEN waiters[i]
                 ELSE IF i = k THEN [at |-> until, who |-> t] ELSE waiters[i - 1]

\* A waiter goes after those with the same time or an earlier one.
LEMMA InsertedPlace ==
  ASSUME NEW waiters \in Seq(Waiters), WaitersSorted(waiters), NEW until \in Nat, NEW t \in SimThreads
  PROVE  /\ Inserted(waiters, until, t) \in Seq(Waiters)
         /\ Len(Inserted(waiters, until, t)) = Len(waiters) + 1
         /\ \E k \in 1 .. Len(waiters) + 1 :
               IsInsertion(Inserted(waiters, until, t), waiters, until, t, k)
  <1> DEFINE n == Len(waiters)
             Here(k) == /\ \A i \in 1 .. k - 1 : waiters[i].at <= until
                        /\ \A i \in k .. n : waiters[i].at > until
             T == {k \in 1 .. n + 1 : \A i \in k .. n : waiters[i].at > until}
             place == CHOOSE k \in 1 .. n + 1 : Here(k)
             new == [at |-> until, who |-> t]
  <1>1. n \in Nat /\ \A i \in 1 .. n : waiters[i] \in Waiters /\ waiters[i].at \in Nat
    <2>1. n \in Nat
      BY LenProperties
    <2>2. \A i \in 1 .. n : waiters[i] \in Waiters
      BY ElementOfSeq
    <2> QED
      BY <2>1, <2>2 DEF Waiters
  <1>2. \E k \in 1 .. n + 1 : Here(k)
    <2>1. T \in SUBSET Nat /\ n + 1 \in T
      BY <1>1
    <2>2. PICK k \in T : \A y \in T : k <= y
      <3> HIDE DEF T
      <3> QED
        BY <2>1, LeastNumber
    <2>3. k \in 1 .. n + 1 /\ \A i \in k .. n : waiters[i].at > until
      OBVIOUS
    <2>4. ASSUME NEW i \in 1 .. k - 1, waiters[i].at > until PROVE FALSE
      <3>1. i \in 1 .. n /\ i < k /\ i \in Nat
        BY <1>1, <2>3
      <3>2. \A j \in i .. n : waiters[j].at > until
        <4> TAKE j \in i .. n
        <4>1. j \in 1 .. n /\ (i < j \/ i = j)
          BY <1>1, <3>1
        <4>2. waiters[i].at <= waiters[j].at
          BY <1>1, <3>1, <4>1 DEF WaitersSorted
        <4> QED
          BY <1>1, <2>4, <3>1, <4>1, <4>2
      <3>3. i \in T
        BY <1>1, <3>1, <3>2
      <3> QED
        BY <2>2, <2>3, <3>1, <3>3
    <2>5. \A i \in 1 .. k - 1 : waiters[i].at <= until
      BY <1>1, <2>3, <2>4
    <2>6. Here(k)
      BY <2>3, <2>5
    <2> QED
      BY <2>3, <2>6
  <1>3. place \in 1 .. n + 1 /\ Here(place)
    <2> HIDE DEF Here
    <2> QED
      BY <1>2
  <1>4. Inserted(waiters, until, t) = SubSeq(waiters, 1, place - 1) \o <<new>> \o SubSeq(waiters, place, n)
    BY DEF Inserted, InsertAt
  <1> DEFINE a == SubSeq(waiters, 1, place - 1)
             b == SubSeq(waiters, place, n)
  <1> HIDE DEF place, Here, T
  <1>5. new \in Waiters /\ <<new>> \in Seq(Waiters) /\ Len(<<new>>) = 1 /\ <<new>>[1] = new
    BY DEF Waiters
  <1>6. a \in Seq(Waiters) /\ Len(a) = place - 1 /\ \A i \in 1 .. place - 1 : a[i] = waiters[i]
    <2>1. \A i \in 1 .. place - 1 : waiters[i] \in Waiters
      BY <1>1, <1>3
    <2>2. place - 1 \in Int /\ place - 1 >= 0
      BY <1>1, <1>3
    <2> QED
      BY <2>1, <2>2, SubSeqProperties
  <1>7. b \in Seq(Waiters) /\ Len(b) = n - place + 1 /\ \A i \in 1 .. n - place + 1 : b[i] = waiters[place + i - 1]
    <2>1. \A i \in place .. n : waiters[i] \in Waiters
      BY <1>1, <1>3
    <2>2. place \in Int /\ n \in Int /\ place <= n + 1
      BY <1>1, <1>3
    <2> QED
      BY <2>1, <2>2, SubSeqProperties
  <1> HIDE DEF a, b, new
  <1> DEFINE c == a \o <<new>>
  <1>8. /\ c \in Seq(Waiters) /\ Len(c) = place
        /\ \A i \in 1 .. place : c[i] = IF i < place THEN waiters[i] ELSE new
    <2>1. /\ c \in Seq(Waiters) /\ Len(c) = Len(a) + 1
          /\ \A i \in 1 .. Len(a) + 1 : c[i] = IF i <= Len(a) THEN a[i] ELSE <<new>>[i - Len(a)]
      BY <1>5, <1>6, ConcatProperties
    <2> HIDE DEF c
    <2>2. \A i \in 1 .. place : i > place - 1 => i - (place - 1) = 1
      BY <1>1, <1>3
    <2> QED
      BY <1>1, <1>3, <1>5, <1>6, <2>1, <2>2
  <1> HIDE DEF c
  <1> DEFINE r == c \o b
  <1>9. r = Inserted(waiters, until, t)
    BY <1>4 DEF a, b, c
  <1>10. /\ r \in Seq(Waiters) /\ Len(r) = n + 1
         /\ \A i \in 1 .. n + 1 : r[i] = IF i <= place THEN c[i] ELSE b[i - place]
    <2>1. /\ r \in Seq(Waiters) /\ Len(r) = Len(c) + Len(b)
          /\ \A i \in 1 .. Len(c) + Len(b) : r[i] = IF i <= Len(c) THEN c[i] ELSE b[i - Len(c)]
      BY <1>7, <1>8, ConcatProperties
    <2>2. Len(c) + Len(b) = n + 1
      BY <1>1, <1>3, <1>7, <1>8
    <2> QED
      BY <1>8, <2>1, <2>2
  <1> HIDE DEF r
  <1>11. ASSUME NEW i \in 1 .. n + 1
         PROVE  r[i] = IF i < place THEN waiters[i] ELSE IF i = place THEN new ELSE waiters[i - 1]
    <2>1. CASE i <= place
      BY <1>1, <1>3, <1>8, <1>10, <2>1
    <2>2. CASE i > place
      <3>1. i - place \in 1 .. n - place + 1 /\ place + (i - place) - 1 = i - 1
        BY <1>1, <1>3, <2>2
      <3>2. b[i - place] = waiters[i - 1]
        BY <1>7, <3>1
      <3> QED
        BY <1>1, <1>3, <1>10, <2>2, <3>2
    <2> QED
      BY <1>1, <1>3, <2>1, <2>2
  <1>12. IsInsertion(r, waiters, until, t, place)
    BY <1>3, <1>11 DEF Here, new, IsInsertion
  <1> QED
    BY <1>3, <1>9, <1>10, <1>12

\* A running thread that goes to sleep runs no longer and is among the waiters.
LEMMA FallsAsleep ==
  ASSUME NEW time, NEW waiters, NEW running, NEW threads, SimState(time, waiters, running, threads),
         NEW t \in RunningThreads(threads), NEW until \in Nat, time <= until
  PROVE  LET next == [threads EXCEPT ![t] = [pc |-> "asleep", wanted |-> until]]
         IN  /\ SimState(time, Inserted(waiters, until, t), running - 1, next)
             /\ \A u \in SimThreads : next[u].pc # "signalled"
  <1> DEFINE next == [threads EXCEPT ![t] = [pc |-> "asleep", wanted |-> until]]
             w == Inserted(waiters, until, t)
  <1>1. t \in SimThreads /\ threads[t].pc \in {"awake", "queued"} /\ Main \in SimThreads
    BY SimThreadsFinite DEF RunningThreads
  <1>2. /\ next \in ThreadStates
        /\ \A u \in SimThreads : next[u].pc = IF u = t THEN "asleep" ELSE threads[u].pc
        /\ \A u \in SimThreads : next[u].wanted = IF u = t THEN until ELSE threads[u].wanted
    BY <1>1 DEF SimState, ThreadStates, SimPlaces
  <1>3. threads[Main].pc # "new"
    BY <1>1 DEF SimState, OneWoken
  <1>4. \A u \in SimThreads : threads[u].pc # "signalled"
    BY <1>1 DEF SimState, OneWoken
  <1>5. waiters \in Seq(Waiters) /\ WaitersSorted(waiters) /\ Len(waiters) \in Nat
    BY LenProperties DEF SimState
  <1>6. PICK k \in 1 .. Len(waiters) + 1 :
               /\ \A i \in 1 .. k - 1 : waiters[i].at <= until
               /\ \A i \in k .. Len(waiters) : waiters[i].at > until
               /\ \A i \in 1 .. Len(waiters) + 1 :
                     w[i] = IF i < k THEN waiters[i]
                        ELSE IF i = k THEN [at |-> until, who |-> t] ELSE waiters[i - 1]
    <2> HIDE DEF w
    <2>1. \E k \in 1 .. Len(waiters) + 1 : IsInsertion(Inserted(waiters, until, t), waiters, until, t, k)
      BY <1>1, <1>5, InsertedPlace
    <2>2. w = Inserted(waiters, until, t)
      BY DEF w
    <2>3. PICK k \in 1 .. Len(waiters) + 1 : IsInsertion(w, waiters, until, t, k)
      BY <2>1, <2>2
    <2> QED
      BY <2>3 DEF IsInsertion
  <1>7. w \in Seq(Waiters) /\ Len(w) = Len(waiters) + 1
    BY <1>1, <1>5, InsertedPlace
  <1> HIDE DEF next, w
  <1>8. \A i \in 1 .. Len(waiters) :
           /\ time <= waiters[i].at /\ waiters[i].at \in Nat /\ waiters[i].who \in SimThreads
           /\ waiters[i].who # t
           /\ threads[waiters[i].who].pc = "asleep" /\ threads[waiters[i].who].wanted = waiters[i].at
    <2>1. \A i \in 1 .. Len(waiters) : waiters[i] \in Waiters
      BY <1>5, ElementOfSeq
    <2> QED
      BY <1>1, <2>1 DEF SimState, WaitersSleep, Waiters
  <1>9. ASSUME NEW i \in 1 .. Len(waiters) + 1
        PROVE  \/ i < k /\ i \in 1 .. Len(waiters) /\ w[i] = waiters[i]
               \/ i = k /\ w[i].at = until /\ w[i].who = t
               \/ i > k /\ i - 1 \in 1 .. Len(waiters) /\ i - 1 \in k .. Len(waiters) /\ w[i] = waiters[i - 1]
    BY <1>5, <1>6
  <1>10. WaitersSorted(w)
    <2> SUFFICES ASSUME NEW i \in 1 .. Len(waiters) + 1, NEW j \in 1 .. Len(waiters) + 1, i < j
                 PROVE  w[i].at <= w[j].at /\ w[i].who # w[j].who
      BY <1>7 DEF WaitersSorted
    <2>1. \A a, b \in 1 .. Len(waiters) :
             a < b => waiters[a].at <= waiters[b].at /\ waiters[a].who # waiters[b].who
      BY <1>5 DEF WaitersSorted
    <2>2. CASE j < k
      <3>1. w[i] = waiters[i] /\ w[j] = waiters[j] /\ i \in 1 .. Len(waiters) /\ j \in 1 .. Len(waiters)
        BY <1>9, <2>2, <1>6, <1>5
      <3> QED
        BY <2>1, <3>1
    <2>3. CASE j = k
      <3>1. w[i] = waiters[i] /\ w[j].at = until /\ w[j].who = t /\ i \in 1 .. k - 1 /\ i \in 1 .. Len(waiters)
        BY <1>9, <2>3, <1>6, <1>5
      <3> QED
        BY <1>6, <1>8, <3>1
    <2>4. CASE j > k /\ i < k
      <3>1. w[i] = waiters[i] /\ w[j] = waiters[j - 1] /\ i \in 1 .. Len(waiters)
            /\ j - 1 \in 1 .. Len(waiters) /\ i < j - 1
        BY <1>9, <2>4, <1>6, <1>5
      <3> QED
        BY <2>1, <3>1
    <2>5. CASE i = k
      <3>1. w[i].at = until /\ w[i].who = t /\ w[j] = waiters[j - 1] /\ j - 1 \in k .. Len(waiters)
            /\ j - 1 \in 1 .. Len(waiters)
        BY <1>9, <2>5, <1>6, <1>5
      <3>2. waiters[j - 1].at > until
        BY <1>6, <3>1
      <3> QED
        BY <1>8, <3>1, <3>2
    <2>6. CASE i > k
      <3>1. w[i] = waiters[i - 1] /\ w[j] = waiters[j - 1] /\ i - 1 \in 1 .. Len(waiters)
            /\ j - 1 \in 1 .. Len(waiters) /\ i - 1 < j - 1
        BY <1>9, <2>6, <1>6, <1>5
      <3> QED
        BY <2>1, <3>1
    <2> QED
      BY <2>2, <2>3, <2>4, <2>5, <2>6, <1>6, <1>5
  <1>11. WaitersSleep(time, w, next)
    <2> SUFFICES ASSUME NEW i \in 1 .. Len(waiters) + 1
                 PROVE  time <= w[i].at /\ next[w[i].who].pc = "asleep" /\ next[w[i].who].wanted = w[i].at
      BY <1>7 DEF WaitersSleep
    <2>1. CASE i = k
      BY <1>1, <1>2, <1>9, <2>1, <1>6, <1>5
    <2>2. CASE i # k
      <3>1. PICK j \in 1 .. Len(waiters) : w[i] = waiters[j]
        BY <1>9, <2>2
      <3> QED
        BY <1>2, <1>8, <3>1
    <2> QED
      BY <2>1, <2>2
  <1>12. RunningThreads(next) = RunningThreads(threads) \ {t}
    BY <1>1, <1>2 DEF RunningThreads
  <1>13. running - 1 \in Nat /\ running - 1 = Cardinality(RunningThreads(next))
    <2>1. Cardinality(RunningThreads(next)) = Cardinality(RunningThreads(threads)) - 1
      BY <1>12, SimThreadsFinite, FS_RemoveElement
    <2> QED
      BY <2>1, SimThreadsFinite DEF SimState
  <1>14. OneWoken(time, next)
    BY <1>1, <1>2, <1>3, <1>4 DEF SimState, OneWoken
  <1>15. \A u \in SimThreads : next[u].pc # "signalled"
    BY <1>2, <1>4
  <1>16. SimState(time, w, running - 1, next)
    BY <1>2, <1>7, <1>10, <1>11, <1>13, <1>14 DEF SimState
  <1> QED
    BY <1>15, <1>16 DEF next, w

\* A clock with these three parts, and these threads, keeps the invariant.
LEMMA SimInvOf ==
  ASSUME NEW time, NEW waiters, NEW running, NEW threads,
         SimState(time, waiters, running, threads),
         sim' = [time |-> time, waiters |-> waiters, running |-> running], thread' = threads
  PROVE  SimInv'
  <1>1. sim'.time = time /\ sim'.waiters = waiters /\ sim'.running = running
    OBVIOUS
  <1>2. sim' \in [time : Nat, waiters : Seq(Waiters), running : Nat]
    <2>1. time \in Nat /\ waiters \in Seq(Waiters) /\ running \in Nat
      BY DEF SimState
    <2> QED
      BY <2>1
  <1>3. SimState(sim'.time, sim'.waiters, sim'.running, thread')
    BY <1>1
  <1> QED
    BY <1>2, <1>3 DEF SimInv

\* With nobody running the first of the waiters is woken, at its time.
LEMMA TimeAdvances ==
  ASSUME NEW time, NEW waiters, NEW running, NEW threads,
         SimState(time, waiters, running, threads),
         \A t \in SimThreads : threads[t].pc # "signalled",
         running = 0, waiters # <<>>
  PROVE  SimState(Head(waiters).at, Tail(waiters), 0,
                  [threads EXCEPT ![Head(waiters).who].pc = "signalled"])
  <1> DEFINE first == Head(waiters)
             next == [threads EXCEPT ![first.who].pc = "signalled"]
             rest == Tail(waiters)
  <1>1. /\ waiters \in Seq(Waiters) /\ Len(waiters) \in Nat /\ Len(waiters) > 0
        /\ \A i \in 1 .. Len(waiters) : waiters[i] \in Waiters
    <2>1. waiters \in Seq(Waiters)
      BY DEF SimState
    <2> QED
      BY <2>1, EmptySeq, ElementOfSeq, LenProperties
  <1>2. first = waiters[1] /\ first.at \in Nat /\ first.who \in SimThreads
    BY <1>1 DEF Waiters
  <1>3. rest \in Seq(Waiters) /\ Len(rest) = Len(waiters) - 1
        /\ \A i \in 1 .. Len(rest) : rest[i] = waiters[i + 1]
    BY <1>1, HeadTailProperties
  <1>4. time <= first.at /\ threads[first.who].pc = "asleep" /\ threads[first.who].wanted = first.at
    BY <1>1, <1>2 DEF SimState, WaitersSleep
  <1>5. /\ next \in ThreadStates
        /\ \A u \in SimThreads : next[u].pc = IF u = first.who THEN "signalled" ELSE threads[u].pc
        /\ \A u \in SimThreads : next[u].wanted = threads[u].wanted
    BY <1>2 DEF SimState, ThreadStates, SimPlaces
  <1>6. RunningThreads(threads) = {}
    BY SimThreadsFinite, FS_EmptySet DEF SimState
  <1> HIDE DEF first, next, rest
  <1>7. RunningThreads(next) = {}
    BY <1>5, <1>6 DEF RunningThreads
  <1>8. Cardinality(RunningThreads(next)) = 0
    BY <1>7, FS_EmptySet
  <1>9. ASSUME NEW i \in 1 .. Len(rest)
        PROVE  /\ i + 1 \in 1 .. Len(waiters) /\ rest[i] = waiters[i + 1]
               /\ first.at <= rest[i].at /\ first.who # rest[i].who
               /\ rest[i].who \in SimThreads
    <2>1. i + 1 \in 1 .. Len(waiters) /\ 1 \in 1 .. Len(waiters) /\ 1 < i + 1
      BY <1>1, <1>3
    <2> QED
      BY <1>1, <1>2, <1>3, <2>1 DEF SimState, WaitersSorted, Waiters
  <1>10. WaitersSorted(rest)
    <2> SUFFICES ASSUME NEW i \in 1 .. Len(rest), NEW j \in 1 .. Len(rest), i < j
                 PROVE  rest[i].at <= rest[j].at /\ rest[i].who # rest[j].who
      BY DEF WaitersSorted
    <2>1. i + 1 < j + 1
      BY <1>1, <1>3
    <2> QED
      BY <1>9, <2>1 DEF SimState, WaitersSorted
  <1>11. WaitersSleep(first.at, rest, next)
    <2> SUFFICES ASSUME NEW i \in 1 .. Len(rest)
                 PROVE  /\ first.at <= rest[i].at /\ next[rest[i].who].pc = "asleep"
                        /\ next[rest[i].who].wanted = rest[i].at
      BY DEF WaitersSleep
    <2>1. /\ threads[waiters[i + 1].who].pc = "asleep"
          /\ threads[waiters[i + 1].who].wanted = waiters[i + 1].at
      BY <1>9 DEF SimState, WaitersSleep
    <2> QED
      BY <1>5, <1>9, <2>1
  <1>12. threads[Main].pc # "new"
    BY <1>2, <1>4 DEF SimState, OneWoken
  <1>13. OneWoken(first.at, next)
    <2>1. \A u \in SimThreads : next[u].pc \in {"queued", "awake", "signalled"} => u = first.who
      BY <1>5, <1>7 DEF RunningThreads
    <2>2. next[first.who].wanted = first.at
      BY <1>2, <1>4, <1>5
    <2>3. next[Main].pc # "new" /\ next[Main].pc # "queued"
      BY <1>5, <1>12, SimThreadsFinite DEF SimState, OneWoken
    <2> QED
      BY <1>7, <2>1, <2>2, <2>3 DEF OneWoken
  <1>14. SimState(first.at, rest, 0, next)
    BY <1>2, <1>3, <1>5, <1>8, <1>10, <1>11, <1>13 DEF SimState
  <1> QED
    BY <1>14 DEF first, next, rest

LEMMA TryAdvanceStep ==
  ASSUME NEW time, NEW waiters, NEW running, NEW threads,
         SimState(time, waiters, running, threads),
         \A t \in SimThreads : threads[t].pc # "signalled",
         TryAdvanceTime(time, waiters, running, threads)
  PROVE  SimInv'
  <1>1. CASE running = 0 /\ waiters # <<>>
    <2>1. SimState(Head(waiters).at, Tail(waiters), 0,
                   [threads EXCEPT ![Head(waiters).who].pc = "signalled"])
      BY <1>1, TimeAdvances
    <2>2. /\ sim' = [time |-> Head(waiters).at, waiters |-> Tail(waiters), running |-> 0]
          /\ thread' = [threads EXCEPT ![Head(waiters).who].pc = "signalled"]
      BY <1>1 DEF TryAdvanceTime
    <2> QED
      BY <2>1, <2>2, SimInvOf
  <1>2. CASE ~(running = 0 /\ waiters # <<>>)
    <2>1. sim' = [time |-> time, waiters |-> waiters, running |-> running] /\ thread' = threads
      BY <1>2 DEF TryAdvanceTime
    <2> QED
      BY <2>1, SimInvOf
  <1> QED
    BY <1>1, <1>2

LEMMA SimInvInit == ClockInit => SimInv
  <1> SUFFICES ASSUME ClockInit PROVE SimInv OBVIOUS
  <1>1. /\ sim = [time |-> 0, waiters |-> <<>>, running |-> 0]
        /\ thread = [t \in SimThreads |-> [pc |-> "new", wanted |-> 0]]
    BY DEF ClockInit
  <1>2. \A t \in SimThreads : thread[t].pc = "new"
    BY <1>1
  <1>3. RunningThreads(thread) = {} /\ Cardinality(RunningThreads(thread)) = 0
    BY <1>2, FS_EmptySet DEF RunningThreads
  <1>4. thread \in ThreadStates
    BY <1>1 DEF ThreadStates, SimPlaces
  <1>5. OneWoken(0, thread)
    BY <1>2, SimThreadsFinite DEF OneWoken
  <1>6. <<>> \in Seq(Waiters) /\ Len(<<>>) = 0
    BY EmptySeq
  <1>7. SimState(0, <<>>, 0, thread)
    BY <1>3, <1>4, <1>5, <1>6 DEF SimState, WaitersSorted, WaitersSleep
  <1> QED
    BY <1>1, <1>6, <1>7 DEF SimInv

\* What is changed of the record is the count alone.
LEMMA RunningChanged ==
  ASSUME SimInv, NEW n \in Nat, NEW threads, sim' = [sim EXCEPT !.running = n], thread' = threads,
         SimState(sim.time, sim.waiters, n, threads)
  PROVE  SimInv'
  <1>1. sim' \in [time : Nat, waiters : Seq(Waiters), running : Nat]
        /\ sim'.time = sim.time /\ sim'.waiters = sim.waiters /\ sim'.running = n
    BY DEF SimInv
  <1> QED
    BY <1>1 DEF SimInv

\* A thread that begins to run, at the present time, with no other woken.
LEMMA BeginsToRun ==
  ASSUME SimInv, NEW t \in SimThreads, NEW pc \in {"awake", "queued"}, NEW wanted \in Nat,
         thread[t].pc \notin {"awake", "queued", "asleep"},
         t # Main => wanted = sim.time,
         \A u \in SimThreads \ {t} : thread[u].pc # "signalled",
         pc = "awake" => \A u \in SimThreads \ {t} : thread[u].pc # "awake",
         pc = "queued" => t # Main, t # Main => thread[Main].pc # "new",
         thread' = [thread EXCEPT ![t] = [pc |-> pc, wanted |-> wanted]],
         sim' = [sim EXCEPT !.running = sim.running + 1]
  PROVE  SimInv'
  <1> DEFINE next == [thread EXCEPT ![t] = [pc |-> pc, wanted |-> wanted]]
  <1>1. SimState(sim.time, sim.waiters, sim.running, thread) /\ Main \in SimThreads
    BY SimThreadsFinite DEF SimInv
  <1>2. /\ next \in ThreadStates
        /\ \A u \in SimThreads : next[u].pc = IF u = t THEN pc ELSE thread[u].pc
        /\ \A u \in SimThreads : next[u].wanted = IF u = t THEN wanted ELSE thread[u].wanted
    BY <1>1 DEF SimState, ThreadStates, SimPlaces
  <1> HIDE DEF next
  <1>3. RunningThreads(next) = RunningThreads(thread) \cup {t} /\ t \notin RunningThreads(thread)
    BY <1>2 DEF RunningThreads
  <1>4. sim.running + 1 \in Nat /\ sim.running + 1 = Cardinality(RunningThreads(next))
    <2>1. Cardinality(RunningThreads(next)) = Cardinality(RunningThreads(thread)) + 1
      BY <1>3, SimThreadsFinite, FS_AddElement
    <2> QED
      BY <1>1, <2>1 DEF SimState
  <1>5. WaitersSleep(sim.time, sim.waiters, next)
    <2>1. \A i \in 1 .. Len(sim.waiters) : sim.waiters[i].who \in SimThreads
      <3>1. \A i \in 1 .. Len(sim.waiters) : sim.waiters[i] \in Waiters
        BY <1>1, ElementOfSeq DEF SimState
      <3> QED
        BY <3>1 DEF Waiters
    <2> QED
      BY <1>1, <1>2, <2>1 DEF SimState, WaitersSleep
  <1>6. OneWoken(sim.time, next)
    <2>1. \A u \in SimThreads : next[u].pc # "signalled"
      BY <1>2
    <2>2. \A u \in SimThreads : next[u].pc \in {"queued", "awake"} /\ u # Main => next[u].wanted = sim.time
      BY <1>1, <1>2 DEF SimState, OneWoken
    <2>3. \A u, v \in SimThreads : next[u].pc = "awake" /\ next[v].pc = "awake" => u = v
      <3>1. CASE pc = "awake"
        BY <1>2, <3>1
      <3>2. CASE pc # "awake"
        BY <1>1, <1>2, <3>2 DEF SimState, OneWoken
      <3> QED
        BY <3>1, <3>2
    <2>4. next[Main].pc # "queued" /\ next[Main].pc # "new"
      BY <1>1, <1>2 DEF SimState, OneWoken
    <2> QED
      BY <2>1, <2>2, <2>3, <2>4 DEF OneWoken
  <1>7. SimState(sim.time, sim.waiters, sim.running + 1, next)
    BY <1>1, <1>2, <1>4, <1>5, <1>6 DEF SimState
  <1> QED
    BY <1>4, <1>7, RunningChanged DEF next

LEMMA WakeStep ==
  ASSUME SimInv, NEW t \in SimThreads, Wake(t)
  PROVE  SimInv'
  <1>1. thread[t].pc = "signalled" /\ SimState(sim.time, sim.waiters, sim.running, thread)
    BY DEF Wake, SimInv
  <1>2. thread[t].wanted \in Nat
    BY <1>1 DEF SimState, ThreadStates
  <1>3. thread' = [thread EXCEPT ![t] = [pc |-> "awake", wanted |-> thread[t].wanted]]
    BY DEF Wake
  <1>4. sim' = [sim EXCEPT !.running = sim.running + 1]
    BY DEF Wake
  <1>5. \A u \in SimThreads \ {t} : thread[u].pc \notin {"signalled", "awake"}
    BY <1>1 DEF SimState, OneWoken
  <1>6. t # Main => thread[t].wanted = sim.time /\ thread[Main].pc # "new"
    BY <1>1 DEF SimState, OneWoken
  <1> QED
    BY <1>1, <1>2, <1>3, <1>4, <1>5, <1>6, BeginsToRun

LEMMA MainStartsStep ==
  ASSUME SimInv, MainStarts
  PROVE  SimInv'
  <1>1. thread[Main].pc = "new" /\ \A u \in SimThreads : thread[u].pc = "new"
    BY DEF MainStarts, SimInv, SimState, OneWoken
  <1>2. /\ thread' = [thread EXCEPT ![Main] = [pc |-> "awake", wanted |-> 0]]
        /\ sim' = [sim EXCEPT !.running = sim.running + 1]
    BY DEF MainStarts
  <1> QED
    BY <1>1, <1>2, SimThreadsFinite, BeginsToRun

LEMMA ScheduleStep ==
  ASSUME SimInv, NEW t \in SimThreads, NEW task \in SimTasks, Schedule(t, task)
  PROVE  SimInv'
  <1>1. /\ thread[t].pc = "awake" /\ thread[task].pc = "new" /\ task \in SimThreads
        /\ SimState(sim.time, sim.waiters, sim.running, thread)
    BY DEF Schedule, SimInv, SimThreads
  <1>2. thread[Main].pc # "new" /\ task # Main
    BY <1>1 DEF SimState, OneWoken
  <1>3. \A u \in SimThreads : thread[u].pc # "signalled"
    <2>1. t \in RunningThreads(thread)
      BY <1>1 DEF RunningThreads
    <2> QED
      BY <1>1, <2>1 DEF SimState, OneWoken
  <1>4. /\ thread' = [thread EXCEPT ![task] = [pc |-> "queued", wanted |-> sim.time]]
        /\ sim' = [sim EXCEPT !.running = sim.running + 1]
    BY DEF Schedule, ThreadStart
  <1>5. sim.time \in Nat
    BY <1>1 DEF SimState
  <1> QED
    BY <1>1, <1>2, <1>3, <1>4, <1>5, BeginsToRun

LEMMA SleepInternalStep ==
  ASSUME SimInv, NEW t \in RunningThreads(thread), NEW until \in Nat, sim.time <= until,
         SleepInternal(t, until)
  PROVE  SimInv'
  <1>1. SimState(sim.time, sim.waiters, sim.running, thread)
    BY DEF SimInv
  <1> DEFINE next == [thread EXCEPT ![t] = [pc |-> "asleep", wanted |-> until]]
  <1>2. /\ SimState(sim.time, Inserted(sim.waiters, until, t), sim.running - 1, next)
        /\ \A u \in SimThreads : next[u].pc # "signalled"
    BY <1>1, FallsAsleep
  <1>3. TryAdvanceTime(sim.time, Inserted(sim.waiters, until, t), sim.running - 1, next)
    BY DEF SleepInternal
  <1> HIDE DEF next
  <1> QED
    BY <1>2, <1>3, TryAdvanceStep

LEMMA ThreadFinishStep ==
  ASSUME SimInv, NEW t \in SimThreads, ThreadFinish(t)
  PROVE  SimInv'
  <1> DEFINE next == [thread EXCEPT ![t] = [pc |-> "done", wanted |-> 0]]
  <1>1. thread[t].pc = "awake" /\ SimState(sim.time, sim.waiters, sim.running, thread)
    BY DEF ThreadFinish, SimInv
  <1>2. /\ next \in ThreadStates
        /\ \A u \in SimThreads : next[u].pc = IF u = t THEN "done" ELSE thread[u].pc
        /\ \A u \in SimThreads : u # t => next[u].wanted = thread[u].wanted
    BY <1>1 DEF SimState, ThreadStates, SimPlaces
  <1>3. TryAdvanceTime(sim.time, sim.waiters, sim.running - 1, next)
    BY DEF ThreadFinish
  <1> HIDE DEF next
  <1>4. \A u \in SimThreads : thread[u].pc # "signalled"
    <2>1. t \in RunningThreads(thread)
      BY <1>1 DEF RunningThreads
    <2> QED
      BY <1>1, <2>1 DEF SimState, OneWoken
  <1>5. RunningThreads(next) = RunningThreads(thread) \ {t} /\ t \in RunningThreads(thread)
    BY <1>1, <1>2 DEF RunningThreads
  <1>6. sim.running - 1 \in Nat /\ sim.running - 1 = Cardinality(RunningThreads(next))
    <2>1. Cardinality(RunningThreads(next)) = Cardinality(RunningThreads(thread)) - 1
      BY <1>5, SimThreadsFinite, FS_RemoveElement
    <2> QED
      BY <1>1, <2>1, SimThreadsFinite DEF SimState
  <1>7. WaitersSleep(sim.time, sim.waiters, next)
    <2>1. \A i \in 1 .. Len(sim.waiters) : sim.waiters[i].who \in SimThreads
      <3>1. \A i \in 1 .. Len(sim.waiters) : sim.waiters[i] \in Waiters
        BY <1>1, ElementOfSeq DEF SimState
      <3> QED
        BY <3>1 DEF Waiters
    <2> QED
      BY <1>1, <1>2, <2>1 DEF SimState, WaitersSleep
  <1>8. OneWoken(sim.time, next)
    <2>1. \A u \in SimThreads : next[u].pc # "signalled"
      BY <1>2, <1>4
    <2>2. \A u \in SimThreads :
             next[u].pc \in {"queued", "awake"} => next[u].pc = thread[u].pc /\ next[u].wanted = thread[u].wanted
      BY <1>2
    <2>3. next[Main].pc # "queued" /\ next[Main].pc # "new"
      BY <1>1, <1>2, SimThreadsFinite DEF SimState, OneWoken
    <2> QED
      BY <1>1, <2>1, <2>2, <2>3 DEF SimState, OneWoken
  <1>9. SimState(sim.time, sim.waiters, sim.running - 1, next)
    BY <1>1, <1>2, <1>6, <1>7, <1>8 DEF SimState
  <1>10. \A u \in SimThreads : next[u].pc # "signalled"
    BY <1>2, <1>4
  <1> QED
    BY <1>3, <1>9, <1>10, TryAdvanceStep

LEMMA SimNextStep ==
  ASSUME SimInv, SimNext
  PROVE  SimInv'
  <1>1. sim.time \in Nat /\ \A d \in Durations : d \in Nat
    BY ClocksAssumption DEF SimInv
  <1>2. CASE MainStarts
    BY <1>2, MainStartsStep
  <1>3. ASSUME NEW t \in SimTasks, BeginTask(t) PROVE SimInv'
    <2>1. t \in RunningThreads(thread) /\ SleepInternal(t, sim.time)
      BY <1>3 DEF BeginTask, RunningThreads, SimThreads
    <2> QED
      BY <1>1, <2>1, SleepInternalStep
  <1>4. ASSUME NEW t \in SimThreads, NEW d \in Durations, Sleep(t, d) PROVE SimInv'
    <2>1. t \in RunningThreads(thread) /\ SleepInternal(t, sim.time + d)
      BY <1>4 DEF Sleep, RunningThreads
    <2>2. sim.time + d \in Nat /\ sim.time <= sim.time + d
      BY <1>1
    <2> QED
      BY <2>1, <2>2, SleepInternalStep
  <1>5. ASSUME NEW t \in SimThreads, SimStep(t) PROVE SimInv'
    BY <1>3, <1>5, WakeStep, ThreadFinishStep DEF SimStep
  <1>6. ASSUME NEW t \in SimThreads, NEW task \in SimTasks, Schedule(t, task) PROVE SimInv'
    BY <1>6, ScheduleStep
  <1> QED
    BY <1>2, <1>4, <1>5, <1>6 DEF SimNext

LEMMA SimInvIsSound == SimInv => OneAtATime
  <1> SUFFICES ASSUME SimInv PROVE OneAtATime OBVIOUS
  <1>1. SimState(sim.time, sim.waiters, sim.running, thread)
    BY DEF SimInv
  <1> DEFINE A == {t \in SimThreads : thread[t].pc \in {"awake", "signalled"}}
  <1>2. Cardinality(A) <= 1
    <2>1. CASE A = {}
      BY <2>1, FS_EmptySet
    <2>2. CASE A # {}
      <3>1. PICK x \in A : TRUE
        BY <2>2
      <3>2. A = {x}
        BY <1>1, <3>1 DEF SimState, OneWoken
      <3> HIDE DEF A
      <3> QED
        BY <3>2, FS_Singleton
    <2> QED
      BY <2>1, <2>2
  <1>3. DOMAIN sim.waiters = 1 .. Len(sim.waiters)
    BY <1>1, LenProperties DEF SimState
  <1>4. \A i \in DOMAIN sim.waiters : sim.waiters[i].at >= sim.time
    BY <1>1, <1>3 DEF SimState, WaitersSleep
  <1>5. \A t \in SimThreads :
           thread[t].pc \in {"awake", "signalled", "queued"} /\ t # Main => sim.time = thread[t].wanted
    BY <1>1 DEF SimState, OneWoken
  <1> QED
    BY <1>2, <1>4, <1>5 DEF OneAtATime

\* The threads of one clock leave the other alone.
LEMMA ClocksStutter ==
  /\ MonoInv /\ UNCHANGED monoVars => MonoInv'
  /\ SimInv /\ UNCHANGED simVars => SimInv'
  <1>1. MonoInv /\ UNCHANGED monoVars => MonoInv'
    BY DEF monoVars, MonoInv, MonoTypeOK
  <1>2. ASSUME SimInv, UNCHANGED simVars PROVE SimInv'
    <2>1. sim' = sim /\ thread' = thread
      BY <1>2 DEF simVars
    <2> QED
      BY <1>2, <2>1 DEF SimInv
  <1> QED
    BY <1>1, <1>2

LEMMA MonoLeavesSim == MonoNext => UNCHANGED simVars
  BY DEF MonoNext, MonoStep, CallClock, TimeNow, ReturnTime, ResetCorrectionMetrics

LEMMA SimLeavesMono == SimNext => UNCHANGED monoVars
  BY DEF SimNext, SimStep, MainStarts, BeginTask, Wake, ThreadFinish, Schedule, Sleep

\* A call of a MonotonicClock gives no time earlier than one returned before it
\* began, and in simulated time one task runs at a time, at the time it asked
\* to be woken (MonotonicClockImpl::TimeNow, SimulationClock::TryAdvanceTime).
THEOREM ClocksKeepOrder == ClockSpec => [](TimeNeverGoesBack /\ OneAtATime)
  <1>1. ClockInit => MonoInv /\ SimInv
    BY MonoInvInit, SimInvInit
  <1>2. ASSUME MonoInv, SimInv, [ClockNext]_clockVars PROVE MonoInv' /\ SimInv'
    <2>1. CASE MonoNext
      BY <1>2, <2>1, MonoNextStep, MonoLeavesSim, ClocksStutter
    <2>2. CASE SimNext
      BY <1>2, <2>2, SimNextStep, SimLeavesMono, ClocksStutter
    <2>3. CASE UNCHANGED clockVars
      BY <1>2, <2>3, ClocksStutter DEF clockVars, monoVars, simVars
    <2> QED
      BY <1>2, <2>1, <2>2, <2>3 DEF ClockNext
  <1>3. MonoInv /\ SimInv /\ [ClockNext]_clockVars => MonoInv' /\ SimInv'
    BY <1>2
  <1> QED
    BY <1>1, <1>3, MonoInvIsSound, SimInvIsSound, PTL DEF ClockSpec

-----------------------------------------------------------------------------

\* The places of a thread that waits for a sync point.
WaitOps == {"ask", "note", "loop", "clear", "serve", "served", "dozing", "asleep", "direct", "fence"}
Waits(r) == r \in [op : WaitOps, token : tokens]

GlTypeOK ==
    /\ issued \in [Contexts -> Nat] /\ executed \in [Contexts -> Nat]
    /\ finish_count \in [Contexts -> Nat]
    /\ doing = [t \in GlThreads |-> doing[t]]
    /\ \A k \in tokens : k.on \in Contexts /\ k.past \in Nat /\ k.mark \in Nat

\* A sync point covers commands issued before it was made, and a glFinish()
\* counted after it was made has seen them executed.
CountsCover ==
    /\ \A c \in Contexts : executed[c] <= issued[c]
    /\ \A k \in tokens :
          /\ k.mark <= issued[k.on]
          /\ finish_count[k.on] > k.past => k.mark <= executed[k.on]

\* Between glFinish() and GlFinishCalled() a context issues nothing, and a
\* wait that is over has seen the count pass.
ThreadOK(t) ==
    /\ doing[t] = Idle \/ doing[t].op = "finished" \/ Waits(doing[t])
    /\ t \in Contexts /\ doing[t].op \in {"served", "finished"} => executed[t] = issued[t]
    /\ doing[t].op = "clear" => finish_count[doing[t].token.on] > doing[t].token.past

GlInv ==
    /\ GlTypeOK /\ CountsCover /\ ~early
    /\ \A t \in GlThreads : ThreadOK(t)

LEMMA GlInvInit == GlInit => GlInv
  <1> SUFFICES ASSUME GlInit PROVE GlInv OBVIOUS
  <1>1. \A t \in GlThreads : doing[t] = Idle /\ doing[t].op = "idle"
    BY DEF GlInit, Idle
  <1>2. doing = [t \in GlThreads |-> doing[t]]
    BY DEF GlInit
  <1> QED
    BY <1>1, <1>2 DEF GlInit, GlInv, GlTypeOK, CountsCover, ThreadOK

\* Another place in the same wait
LEMMA StepOfWait ==
  ASSUME NEW t, Waits(doing[t]), NEW op \in WaitOps
  PROVE  Waits(Step(t, op)) /\ Step(t, op).op = op /\ Step(t, op).token = doing[t].token
  BY DEF Waits, Step

LEMMA WaitPlace ==
  ASSUME NEW t \in GlThreads, ThreadOK(t), doing[t].op \in WaitOps
  PROVE  Waits(doing[t]) /\ doing[t].token \in tokens
  <1>1. doing[t] # Idle
    BY DEF Idle, WaitOps
  <1>2. Waits(doing[t])
    BY <1>1 DEF ThreadOK, WaitOps
  <1> QED
    BY <1>2 DEF Waits

\* Waking threads moves sleepers on and nobody else.
LEMMA WokenOnes ==
  ASSUME GlInv, NEW cs
  PROVE  /\ WokenThreads(cs) = [t \in GlThreads |-> WokenThreads(cs)[t]]
         /\ \A t \in GlThreads :
               \/ WokenThreads(cs)[t] = doing[t]
               \/ Waits(WokenThreads(cs)[t]) /\ WokenThreads(cs)[t].op = "loop"
  <1>1. WokenThreads(cs) = [t \in GlThreads |-> WokenThreads(cs)[t]]
    BY DEF WokenThreads
  <1>2. ASSUME NEW t \in GlThreads
        PROVE  \/ WokenThreads(cs)[t] = doing[t]
               \/ Waits(WokenThreads(cs)[t]) /\ WokenThreads(cs)[t].op = "loop"
    <2>1. CASE doing[t].op = "asleep" /\ doing[t].token.on \in cs
      <3>1. Waits(doing[t])
        BY <2>1, WaitPlace DEF GlInv, WaitOps
      <3>2. Waits(Step(t, "loop")) /\ Step(t, "loop").op = "loop"
        BY <3>1, StepOfWait DEF WaitOps
      <3>3. WokenThreads(cs)[t] = Step(t, "loop")
        BY <2>1 DEF WokenThreads
      <3> QED
        BY <3>2, <3>3
    <2>2. CASE ~(doing[t].op = "asleep" /\ doing[t].token.on \in cs)
      BY <2>2 DEF WokenThreads
    <2> QED
      BY <2>1, <2>2
  <1> QED
    BY <1>1, <1>2

\* What a thread may be doing next while no command and no glFinish() moves.
MayDo(t, r) ==
    \/ r = doing[t] \/ r = Idle
    \/ /\ Waits(r) /\ r.op # "served"
       /\ r.op = "clear" => finish_count[r.token.on] > r.token.past

LEMMA CalmStep ==
  ASSUME GlInv, UNCHANGED <<issued, executed, finish_count, tokens>>, ~early',
         doing' = [t \in GlThreads |-> doing'[t]], \A t \in GlThreads : MayDo(t, doing'[t])
  PROVE  GlInv'
  <1>1. GlTypeOK' /\ CountsCover'
    BY DEF GlInv, GlTypeOK, CountsCover
  <1>2. ASSUME NEW t \in GlThreads PROVE ThreadOK(t)'
    <2>1. CASE doing'[t] = doing[t]
      BY <2>1 DEF GlInv, ThreadOK, Waits
    <2>2. CASE doing'[t] = Idle
      BY <2>2 DEF ThreadOK, Idle
    <2>3. CASE /\ Waits(doing'[t]) /\ doing'[t].op # "served"
               /\ doing'[t].op = "clear" => finish_count[doing'[t].token.on] > doing'[t].token.past
      <3>1. doing'[t].op \in WaitOps
        BY <2>3 DEF Waits
      <3>2. doing'[t].op \notin {"served", "finished"}
        BY <2>3, <3>1 DEF WaitOps
      <3>3. Waits(doing[t])'
        BY <2>3 DEF Waits
      <3> QED
        BY <2>3, <3>2, <3>3 DEF ThreadOK
    <2> QED
      BY <2>1, <2>2, <2>3 DEF MayDo
  <1> QED
    BY <1>1, <1>2 DEF GlInv

\* One thread alone does something else.
LEMMA OneMoves ==
  ASSUME GlInv, NEW t \in GlThreads, NEW r, doing' = [doing EXCEPT ![t] = r]
  PROVE  /\ doing' = [u \in GlThreads |-> doing'[u]]
         /\ \A u \in GlThreads : doing'[u] = IF u = t THEN r ELSE doing[u]
  BY DEF GlInv, GlTypeOK

LEMMA IssueStep ==
  ASSUME GlInv, NEW c \in Contexts, IssueAndMark(c)
  PROVE  GlInv'
  <1> DEFINE new == [on |-> c, past |-> finish_count[c], mark |-> issued[c] + 1, fence |-> fences[c]]
  <1>1. /\ doing[c] = Idle /\ issued' = [issued EXCEPT ![c] = @ + 1] /\ tokens' = tokens \cup {new}
        /\ UNCHANGED <<doing, executed, finish_count, early>>
    BY DEF IssueAndMark, syncVars
  <1>2. new.on = c /\ new.past = finish_count[c] /\ new.mark = issued[c] + 1
    OBVIOUS
  <1> HIDE DEF new
  <1>3. /\ issued' \in [Contexts -> Nat] /\ \A d \in Contexts : issued[d] <= issued'[d]
        /\ issued'[c] = issued[c] + 1 /\ \A d \in Contexts \ {c} : issued'[d] = issued[d]
    BY <1>1 DEF GlInv, GlTypeOK
  <1>4. GlTypeOK'
    BY <1>1, <1>2, <1>3 DEF GlInv, GlTypeOK
  <1>5. CountsCover'
    BY <1>1, <1>2, <1>3 DEF GlInv, GlTypeOK, CountsCover
  <1>6. ASSUME NEW t \in GlThreads PROVE ThreadOK(t)'
    <2>1. Waits(doing[t]) => Waits(doing[t])'
      BY <1>1 DEF Waits
    <2>2. t = c => doing[t].op = "idle"
      BY <1>1 DEF Idle
    <2> QED
      BY <1>1, <1>3, <2>1, <2>2 DEF GlInv, ThreadOK
  <1> QED
    BY <1>1, <1>4, <1>5, <1>6 DEF GlInv

LEMMA ExecuteStep ==
  ASSUME GlInv, NEW c \in Contexts, GpuExecutes(c)
  PROVE  GlInv'
  <1>1. /\ executed[c] < issued[c] /\ executed' = [executed EXCEPT ![c] = @ + 1]
        /\ UNCHANGED <<doing, issued, tokens, finish_count, early>>
    BY DEF GpuExecutes, syncVars
  <1>2. /\ executed' \in [Contexts -> Nat] /\ \A d \in Contexts : executed[d] <= executed'[d]
        /\ executed'[c] <= issued[c] /\ \A d \in Contexts \ {c} : executed'[d] = executed[d]
    BY <1>1 DEF GlInv, GlTypeOK
  <1>3. GlTypeOK'
    BY <1>1, <1>2 DEF GlInv, GlTypeOK
  <1>4. CountsCover'
    BY <1>1, <1>2 DEF GlInv, GlTypeOK, CountsCover
  <1>5. ASSUME NEW t \in GlThreads PROVE ThreadOK(t)'
    <2>1. Waits(doing[t]) => Waits(doing[t])'
      BY <1>1 DEF Waits
    <2>2. t = c => executed[t] # issued[t]
      BY <1>1 DEF GlInv, GlTypeOK
    <2> QED
      BY <1>1, <1>2, <2>1, <2>2 DEF GlInv, ThreadOK
  <1> QED
    BY <1>1, <1>3, <1>4, <1>5 DEF GlInv

LEMMA BeginFinishWaitStep ==
  ASSUME GlInv, NEW t \in GlThreads, NEW token \in tokens, BeginFinishWait(t, token)
  PROVE  GlInv'
  <1> DEFINE r == IF finish_count[token.on] > token.past THEN Idle
                  ELSE [op |-> "ask", token |-> token]
  <1>1. /\ doing' = [doing EXCEPT ![t] = r]
        /\ early' = (early \/ (doing'[t] = Idle /\ executed[token.on] < token.mark))
        /\ UNCHANGED <<issued, executed, finish_count, tokens>>
    BY DEF BeginFinishWait, syncVars
  <1>2. [op |-> "ask", token |-> token] # Idle /\ [op |-> "ask", token |-> token].op = "ask"
    BY DEF Idle
  <1>3. Waits([op |-> "ask", token |-> token])
    BY DEF Waits, WaitOps
  <1>4. MayDo(t, r)
    BY <1>2, <1>3 DEF MayDo
  <1>5. r = Idle => token.mark <= executed[token.on]
    BY <1>2 DEF GlInv, CountsCover
  <1> HIDE DEF r
  <1>6. /\ doing' = [u \in GlThreads |-> doing'[u]]
        /\ \A u \in GlThreads : doing'[u] = IF u = t THEN r ELSE doing[u]
    BY <1>1, OneMoves
  <1>7. ~early'
    <2>1. token.mark \in Nat /\ executed[token.on] \in Nat
      BY DEF GlInv, GlTypeOK
    <2> QED
      <3>1. ~(doing'[t] = Idle /\ executed[token.on] < token.mark)
        BY <1>5, <1>6, <2>1
      <3>2. ~early
        BY DEF GlInv
      <3> QED
        BY <1>1, <3>1, <3>2, Zenon
  <1>8. \A u \in GlThreads : MayDo(u, doing'[u])
    BY <1>4, <1>6 DEF MayDo
  <1> QED
    BY <1>1, <1>6, <1>7, <1>8, CalmStep

LEMMA WaitFenceStep ==
  ASSUME GlInv, NEW t \in GlThreads, NEW token \in tokens, WaitFence(t, token)
  PROVE  GlInv'
  <1> DEFINE r == [op |-> "fence", token |-> token]
  <1>1. doing' = [doing EXCEPT ![t] = r] /\ UNCHANGED <<issued, executed, finish_count, tokens, early>>
    BY DEF WaitFence, syncVars
  <1>2. Waits(r) /\ r.op = "fence"
    BY DEF Waits, WaitOps
  <1> HIDE DEF r
  <1>3. /\ doing' = [u \in GlThreads |-> doing'[u]]
        /\ \A u \in GlThreads : doing'[u] = IF u = t THEN r ELSE doing[u]
    BY <1>1, OneMoves
  <1>4. \A u \in GlThreads : MayDo(u, doing'[u])
    BY <1>2, <1>3 DEF MayDo
  <1> QED
    BY <1>1, <1>3, <1>4, CalmStep DEF GlInv

\* A waiting thread goes on to another place of its wait.
LEMMA WaitGoesOn ==
  ASSUME GlInv, NEW t \in GlThreads, doing[t].op \in WaitOps, NEW op \in WaitOps \ {"served"},
         op = "clear" => finish_count[doing[t].token.on] > doing[t].token.past,
         doing' = [doing EXCEPT ![t] = Step(t, op)],
         UNCHANGED <<issued, executed, finish_count, tokens, early>>
  PROVE  GlInv'
  <1>1. Waits(doing[t])
    BY WaitPlace DEF GlInv
  <1>2. Waits(Step(t, op)) /\ Step(t, op).op = op /\ Step(t, op).token = doing[t].token
    BY <1>1, StepOfWait
  <1>3. /\ doing' = [u \in GlThreads |-> doing'[u]]
        /\ \A u \in GlThreads : doing'[u] = IF u = t THEN Step(t, op) ELSE doing[u]
    BY OneMoves
  <1>4. \A u \in GlThreads : MayDo(u, doing'[u])
    BY <1>2, <1>3 DEF MayDo
  <1> QED
    BY <1>3, <1>4, CalmStep DEF GlInv

LEMMA AskStep ==
  ASSUME GlInv, NEW t \in GlThreads, AskForFinish(t)
  PROVE  GlInv'
  <1> DEFINE cs == {doing[t].token.on, waiting_on[doing[t].token.on]}
             op == IF Current(t) = doing[t].token.on THEN "direct" ELSE "note"
  <1>1. /\ doing[t].op = "ask" /\ doing' = [WokenThreads(cs) EXCEPT ![t] = Step(t, op)]
        /\ UNCHANGED <<issued, executed, finish_count, tokens, early>>
    BY DEF AskForFinish
  <1>2. op \in {"direct", "note"}
    OBVIOUS
  <1> HIDE DEF cs, op
  <1>3. Waits(Step(t, op)) /\ Step(t, op).op = op
    <2>1. Waits(doing[t])
      BY <1>1, WaitPlace DEF GlInv, WaitOps
    <2> QED
      BY <1>2, <2>1, StepOfWait DEF WaitOps
  <1>4. /\ WokenThreads(cs) = [u \in GlThreads |-> WokenThreads(cs)[u]]
        /\ \A u \in GlThreads :
               \/ WokenThreads(cs)[u] = doing[u]
               \/ Waits(WokenThreads(cs)[u]) /\ WokenThreads(cs)[u].op = "loop"
    BY WokenOnes
  <1>5. /\ doing' = [u \in GlThreads |-> doing'[u]]
        /\ \A u \in GlThreads : doing'[u] = IF u = t THEN Step(t, op) ELSE WokenThreads(cs)[u]
    BY <1>1, <1>4
  <1>6. \A u \in GlThreads : MayDo(u, doing'[u])
    BY <1>2, <1>3, <1>4, <1>5 DEF MayDo
  <1> QED
    BY <1>1, <1>5, <1>6, CalmStep DEF GlInv

LEMMA WaitLoopStep ==
  ASSUME GlInv, NEW t \in GlThreads, WaitLoop(t)
  PROVE  GlInv'
  <1> DEFINE op == IF finish_count[doing[t].token.on] > doing[t].token.past THEN "clear"
                   ELSE IF MustServe(t) THEN "serve" ELSE "dozing"
  <1>1. /\ doing[t].op = "loop" /\ doing' = [doing EXCEPT ![t] = Step(t, op)]
        /\ UNCHANGED <<issued, executed, finish_count, tokens, early>>
    BY DEF WaitLoop, syncVars
  <1>2. op \in WaitOps \ {"served"} /\ "loop" \in WaitOps
    BY DEF WaitOps
  <1>3. op = "clear" => finish_count[doing[t].token.on] > doing[t].token.past
    OBVIOUS
  <1> HIDE DEF op
  <1> QED
    BY <1>1, <1>2, <1>3, WaitGoesOn

LEMMA NoteStep ==
  ASSUME GlInv, NEW t \in GlThreads, NoteAndPost(t)
  PROVE  GlInv'
  BY WaitGoesOn DEF NoteAndPost, WaitOps

LEMMA FallAsleepStep ==
  ASSUME GlInv, NEW t \in GlThreads, FallAsleep(t)
  PROVE  GlInv'
  BY WaitGoesOn DEF FallAsleep, WaitOps, syncVars

\* A wait returns when its commands have been executed.
LEMMA ReturnsStep ==
  ASSUME GlInv, NEW t \in GlThreads, doing[t].op \in WaitOps, Returns(t),
         doing[t].token.mark <= executed[doing[t].token.on],
         UNCHANGED <<issued, executed, finish_count, tokens>>
  PROVE  GlInv'
  <1>1. doing[t].token \in tokens
    BY WaitPlace DEF GlInv
  <1>2. doing[t].token.mark \in Nat /\ executed[doing[t].token.on] \in Nat
    BY <1>1 DEF GlInv, GlTypeOK
  <1>3. ~early'
    <2>1. ~(executed[doing[t].token.on] < doing[t].token.mark)
      BY <1>2
    <2>2. ~early
      BY DEF GlInv
    <2>3. early' = (early \/ executed[doing[t].token.on] < doing[t].token.mark)
      BY DEF Returns
    <2> QED
      BY <2>1, <2>2, <2>3, Zenon
  <1>4. /\ doing' = [u \in GlThreads |-> doing'[u]]
        /\ \A u \in GlThreads : doing'[u] = IF u = t THEN Idle ELSE doing[u]
    BY OneMoves DEF Returns
  <1>5. \A u \in GlThreads : MayDo(u, doing'[u])
    BY <1>4 DEF MayDo
  <1> QED
    BY <1>3, <1>4, <1>5, CalmStep

LEMMA EndWaitStep ==
  ASSUME GlInv, NEW t \in GlThreads, EndWait(t)
  PROVE  GlInv'
  <1>1. /\ doing[t].op = "clear" /\ "clear" \in WaitOps /\ Returns(t)
        /\ UNCHANGED <<issued, executed, finish_count, tokens>>
    BY DEF EndWait, WaitOps
  <1>2. doing[t].token \in tokens /\ finish_count[doing[t].token.on] > doing[t].token.past
    BY <1>1, WaitPlace DEF GlInv, ThreadOK
  <1>3. doing[t].token.mark <= executed[doing[t].token.on]
    BY <1>2 DEF GlInv, CountsCover
  <1> QED
    BY <1>1, <1>3, ReturnsStep

LEMMA FenceReachedStep ==
  ASSUME GlInv, NEW t \in GlThreads, FenceReached(t)
  PROVE  GlInv'
  <1>1. /\ doing[t].op = "fence" /\ "fence" \in WaitOps /\ Returns(t)
        /\ executed[doing[t].token.on] >= doing[t].token.mark
        /\ UNCHANGED <<issued, executed, finish_count, tokens>>
    BY DEF FenceReached, WaitOps, syncVars
  <1>2. doing[t].token \in tokens
    BY <1>1, WaitPlace DEF GlInv
  <1>3. doing[t].token.mark <= executed[doing[t].token.on]
    BY <1>1, <1>2 DEF GlInv, GlTypeOK
  <1> QED
    BY <1>1, <1>3, ReturnsStep

\* glFinish() executes what was issued on the context, and the thread keeps to that.
LEMMA FinishKeepsCounts ==
  ASSUME GlInv, NEW c \in Contexts, Finish(c), UNCHANGED <<issued, finish_count, tokens>>
  PROVE  /\ executed' \in [Contexts -> Nat] /\ CountsCover' /\ executed'[c] = issued'[c]
         /\ \A d \in Contexts \ {c} : executed'[d] = executed[d]
  <1>1. /\ executed' \in [Contexts -> Nat] /\ executed'[c] = issued[c]
        /\ \A d \in Contexts \ {c} : executed'[d] = executed[d]
    BY DEF Finish, GlInv, GlTypeOK
  <1>2. \A d \in Contexts : executed[d] <= executed'[d] /\ executed'[d] <= issued[d]
    BY <1>1 DEF GlInv, GlTypeOK, CountsCover
  <1>3. CountsCover'
    BY <1>1, <1>2 DEF GlInv, GlTypeOK, CountsCover
  <1> QED
    BY <1>1, <1>3

\* The context c is at r, the others where they were, after a glFinish() of c.
LEMMA FinishStep ==
  ASSUME GlInv, NEW c \in Contexts, Finish(c), NEW r, doing' = [doing EXCEPT ![c] = r],
         r.op = "finished" \/ (Waits(r) /\ r.op = "served"),
         UNCHANGED <<issued, finish_count, tokens, early>>
  PROVE  GlInv'
  <1>1. /\ executed' \in [Contexts -> Nat] /\ CountsCover' /\ executed'[c] = issued'[c]
        /\ \A d \in Contexts \ {c} : executed'[d] = executed[d]
    BY FinishKeepsCounts
  <1>2. c \in GlThreads
    BY DEF GlThreads
  <1>3. /\ doing' = [u \in GlThreads |-> doing'[u]]
        /\ \A u \in GlThreads : doing'[u] = IF u = c THEN r ELSE doing[u]
    BY <1>2, OneMoves
  <1>4. GlTypeOK'
    BY <1>1, <1>3 DEF GlInv, GlTypeOK
  <1>5. ASSUME NEW u \in GlThreads PROVE ThreadOK(u)'
    <2>1. CASE u = c
      <3>1. doing'[u] = r
        BY <1>3, <2>1
      <3>2. Waits(r) => Waits(doing[u])'
        BY <3>1 DEF Waits
      <3> QED
        BY <1>1, <2>1, <3>1, <3>2 DEF ThreadOK
    <2>2. CASE u # c
      <3>1. doing'[u] = doing[u]
        BY <1>3, <2>2
      <3>2. Waits(doing[u]) => Waits(doing[u])'
        BY <3>1 DEF Waits
      <3> QED
        BY <1>1, <2>2, <3>1, <3>2 DEF GlInv, ThreadOK
    <2> QED
      BY <2>1, <2>2
  <1> QED
    BY <1>1, <1>4, <1>5 DEF GlInv

LEMMA ServeStep ==
  ASSUME GlInv, NEW t \in Contexts, Serve(t)
  PROVE  GlInv'
  <1>1. /\ doing[t].op = "serve" /\ Finish(t) /\ doing' = [doing EXCEPT ![t] = Step(t, "served")]
        /\ UNCHANGED <<issued, finish_count, tokens, early>> /\ t \in GlThreads
    BY DEF Serve, syncVars, GlThreads
  <1>2. Waits(doing[t])
    BY <1>1, WaitPlace DEF GlInv, WaitOps
  <1>3. Waits(Step(t, "served")) /\ Step(t, "served").op = "served"
    BY <1>2, StepOfWait DEF WaitOps
  <1> QED
    BY <1>1, <1>3, FinishStep

LEMMA RunFinishTaskStep ==
  ASSUME GlInv, NEW c \in Contexts, RunFinishTask(c)
  PROVE  GlInv'
  <1>1. c \in GlThreads
    BY DEF GlThreads
  <1> DEFINE token == IF doing[c] = Idle THEN Head(jobs[c]) ELSE doing[c].token
             out == finish_count[c] = token.past
             direct == doing[c].op = "direct"
  <1>2. /\ IF out THEN Finish(c) ELSE UNCHANGED executed
        /\ doing' = [doing EXCEPT ![c] =
               IF out THEN [op |-> "finished", token |-> token, direct |-> direct] ELSE Idle]
        /\ UNCHANGED <<issued, finish_count, tokens, early>>
    BY DEF RunFinishTask, syncVars
  <1> HIDE DEF token, out, direct
  <1>3. CASE out
    <2> DEFINE r == [op |-> "finished", token |-> token, direct |-> direct]
    <2>1. r.op = "finished" /\ doing' = [doing EXCEPT ![c] = r] /\ Finish(c)
      BY <1>2, <1>3
    <2> HIDE DEF r
    <2> QED
      BY <1>2, <2>1, FinishStep
  <1>4. CASE ~out
    <2>1. doing' = [doing EXCEPT ![c] = Idle] /\ UNCHANGED executed
      BY <1>2, <1>4
    <2>2. /\ doing' = [u \in GlThreads |-> doing'[u]]
          /\ \A u \in GlThreads : doing'[u] = IF u = c THEN Idle ELSE doing[u]
      BY <1>1, <2>1, OneMoves
    <2>3. \A u \in GlThreads : MayDo(u, doing'[u])
      BY <2>2 DEF MayDo
    <2> QED
      BY <1>2, <2>1, <2>2, <2>3, CalmStep DEF GlInv
  <1> QED
    BY <1>3, <1>4

\* The count is raised while all commands of the context are executed.
LEMMA FinishCalledStep ==
  ASSUME GlInv, NEW c \in Contexts, doing[c].op \in {"served", "finished"}, NEW next,
         GlFinishCalled(c, c, next),
         next = Idle \/ (Waits(next) /\ next.op = "loop")
  PROVE  GlInv'
  <1>1. c \in GlThreads /\ executed[c] = issued[c]
    BY DEF GlInv, ThreadOK, GlThreads
  <1>2. /\ finish_count' = [finish_count EXCEPT ![c] = @ + 1]
        /\ doing' = [WokenThreads({c}) EXCEPT ![c] = next]
        /\ UNCHANGED <<issued, executed, tokens, early>>
    BY DEF GlFinishCalled
  <1>3. /\ finish_count' \in [Contexts -> Nat]
        /\ \A d \in Contexts : finish_count[d] <= finish_count'[d]
        /\ \A d \in Contexts \ {c} : finish_count'[d] = finish_count[d]
    BY <1>2 DEF GlInv, GlTypeOK
  <1>4. /\ WokenThreads({c}) = [u \in GlThreads |-> WokenThreads({c})[u]]
        /\ \A u \in GlThreads :
               \/ WokenThreads({c})[u] = doing[u]
               \/ Waits(WokenThreads({c})[u]) /\ WokenThreads({c})[u].op = "loop"
    BY WokenOnes
  <1>5. /\ doing' = [u \in GlThreads |-> doing'[u]]
        /\ \A u \in GlThreads : doing'[u] = IF u = c THEN next ELSE WokenThreads({c})[u]
    BY <1>1, <1>2, <1>4
  <1>6. GlTypeOK'
    BY <1>2, <1>3, <1>5 DEF GlInv, GlTypeOK
  <1>7. CountsCover'
    <2>1. \A k \in tokens : k.on \in Contexts
      BY DEF GlInv, GlTypeOK
    <2> QED
      BY <1>1, <1>2, <1>3, <2>1 DEF GlInv, CountsCover
  <1>8. ASSUME NEW u \in GlThreads PROVE ThreadOK(u)'
    <2>1. CASE doing'[u] = Idle
      BY <2>1 DEF ThreadOK, Idle
    <2>2. CASE Waits(doing'[u]) /\ doing'[u].op = "loop"
      <3>1. Waits(doing[u])'
        BY <1>2, <2>2 DEF Waits
      <3> QED
        BY <2>2, <3>1 DEF ThreadOK
    <2>3. CASE doing'[u] = doing[u]
      <3>1. Waits(doing[u]) => Waits(doing[u])'
        BY <1>2, <2>3 DEF Waits
      <3>2. doing[u].op = "clear" => finish_count'[doing[u].token.on] > doing[u].token.past
        <4> SUFFICES ASSUME doing[u].op = "clear"
                     PROVE  finish_count'[doing[u].token.on] > doing[u].token.past
          OBVIOUS
        <4>1. doing[u].token \in tokens
          BY WaitPlace DEF GlInv, WaitOps
        <4> QED
          BY <1>3, <4>1 DEF GlInv, GlTypeOK, ThreadOK
      <3> QED
        BY <1>2, <2>3, <3>1, <3>2 DEF GlInv, ThreadOK
    <2> QED
      BY <1>4, <1>5, <2>1, <2>2, <2>3
  <1> QED
    BY <1>2, <1>6, <1>7, <1>8 DEF GlInv

LEMMA ServedStep ==
  ASSUME GlInv, NEW t \in Contexts, Served(t)
  PROVE  GlInv'
  <1>1. doing[t].op = "served" /\ GlFinishCalled(t, t, Step(t, "loop")) /\ t \in GlThreads
    BY DEF Served, GlThreads
  <1>2. Waits(doing[t])
    BY <1>1, WaitPlace DEF GlInv, WaitOps
  <1>3. Waits(Step(t, "loop")) /\ Step(t, "loop").op = "loop"
    BY <1>2, StepOfWait DEF WaitOps
  <1> QED
    BY <1>1, <1>3, FinishCalledStep

LEMMA GlInvStep ==
  ASSUME GlInv, [GlNext]_glVars
  PROVE  GlInv'
  <1>1. ASSUME NEW t \in GlThreads, ThreadStep(t) PROVE GlInv'
    <2>1. CASE AskForFinish(t) \/ NoteAndPost(t) \/ WaitLoop(t) \/ FallAsleep(t)
      BY <2>1, AskStep, NoteStep, WaitLoopStep, FallAsleepStep
    <2>2. CASE EndWait(t) \/ FenceReached(t)
      BY <2>2, EndWaitStep, FenceReachedStep
    <2>3. CASE t \in Contexts /\ (Serve(t) \/ Served(t))
      BY <2>3, ServeStep, ServedStep
    <2>4. CASE t \in Contexts /\ RunFinishTask(t)
      BY <2>4, RunFinishTaskStep
    <2>5. CASE t \in Contexts /\ FinishTaskDone(t)
      BY <2>5, FinishCalledStep DEF FinishTaskDone
    <2> QED
      BY <1>1, <2>1, <2>2, <2>3, <2>4, <2>5 DEF ThreadStep
  <1>2. ASSUME NEW c \in Contexts, IssueAndMark(c) \/ GpuExecutes(c) PROVE GlInv'
    BY <1>2, IssueStep, ExecuteStep
  <1>3. ASSUME NEW t \in GlThreads, NEW token \in tokens, BeginFinishWait(t, token) \/ WaitFence(t, token)
        PROVE  GlInv'
    BY <1>3, BeginFinishWaitStep, WaitFenceStep
  <1>4. CASE UNCHANGED glVars
    <2>1. GlTypeOK' /\ CountsCover' /\ ~early'
      BY <1>4 DEF glVars, syncVars, GlInv, GlTypeOK, CountsCover
    <2>2. \A t \in GlThreads : ThreadOK(t)'
      BY <1>4 DEF glVars, syncVars, GlInv, ThreadOK, Waits
    <2> QED
      BY <2>1, <2>2 DEF GlInv
  <1> QED
    BY <1>1, <1>2, <1>3, <1>4 DEF GlNext

\* A wait for a sync point returns only when the commands issued before it
\* have been executed, whichever thread called glFinish() for it.
THEOREM WaitsCoverCommands == GlSpec => []WaitCoversCommands
  <1>1. GlInv /\ [GlNext]_glVars => GlInv'
    BY GlInvStep
  <1>2. GlInv => WaitCoversCommands
    BY DEF GlInv, WaitCoversCommands
  <1> QED
    BY GlInvInit, <1>1, <1>2, PTL DEF GlSpec

-----------------------------------------------------------------------------

\* A behaviour is one of a single part, and leaves the others' state alone.
LEMMA PartsStep ==
  ASSUME PoolInv, MonoInv, SimInv, GlInv, [WaitingNext]_waitingVars
  PROVE  PoolInv' /\ MonoInv' /\ SimInv' /\ GlInv'
  <1>1. [PoolNext]_poolVars /\ [GlNext]_glVars
    BY DEF WaitingNext, StreamPart, MirrorPart, PoolPart, MonoPart, SimPart, GlPart, waitingVars
  <1>2. \/ MonoNext /\ UNCHANGED simVars
        \/ SimNext /\ UNCHANGED monoVars
        \/ UNCHANGED monoVars /\ UNCHANGED simVars
    <2>1. CASE StreamPart \/ MirrorPart \/ PoolPart \/ GlPart \/ UNCHANGED waitingVars
      <3>1. UNCHANGED clockVars
        BY <2>1 DEF StreamPart, MirrorPart, PoolPart, GlPart, waitingVars
      <3> QED
        BY <3>1 DEF clockVars, monoVars, simVars
    <2>2. CASE MonoPart
      BY <2>2 DEF MonoPart
    <2>3. CASE SimPart
      BY <2>3 DEF SimPart
    <2> QED
      BY <2>1, <2>2, <2>3 DEF WaitingNext
  <1>3. MonoInv' /\ SimInv'
    BY <1>2, MonoNextStep, SimNextStep, ClocksStutter
  <1> QED
    BY <1>1, <1>3, PoolInvStep, GlInvStep

\* Whoever waits on the pool, a clock or a sync point may rely on it.
THEOREM WaitingIsSound == WaitingSpec => []WaitsSound
  <1> DEFINE Inv == PoolInv /\ MonoInv /\ SimInv /\ GlInv
  <1>1. WaitingInit => Inv
    BY PoolInvInit, MonoInvInit, SimInvInit, GlInvInit DEF WaitingInit
  <1>2. Inv /\ [WaitingNext]_waitingVars => Inv'
    BY PartsStep
  <1>3. Inv => WaitsSound
    BY PoolInvIsSound, MonoInvIsSound, SimInvIsSound DEF WaitsSound, WaitCoversCommands, GlInv
  <1> QED
    BY <1>1, <1>2, <1>3, PTL DEF WaitingSpec
=============================================================================
