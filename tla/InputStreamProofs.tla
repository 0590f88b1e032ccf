-------------------------- MODULE InputStreamProofs --------------------------
(***************************************************************************)
(* What holds of an input stream for every range of timestamps, every      *)
(* number of streams and every bound of the model.                         *)
(***************************************************************************)
EXTENDS InputStreamManager, TLAPS

\* What has to be known of a timed stream besides the properties themselves:
\* the bound is past the last selection, it is past PreStream() once a packet
\* was added and past everything once a PreStream() packet was.
BoundsInv(s) ==
    /\ closed[s] => next_timestamp_bound[s] = Done
    /\ ~closed[s] => last_select_timestamp[s] < next_timestamp_bound[s]
    /\ num_packets_added[s] > 0 => next_timestamp_bound[s] > PreStream
    /\ Len(queue[s]) <= num_packets_added[s]
    /\ \A i \in 1 .. Len(queue[s]) :
          queue[s][i] = PreStream => next_timestamp_bound[s] >= OneOverPostStream

\* QueueInOrder of one stream
OrderInv(s) ==
    /\ \A i, j \in 1 .. Len(queue[s]) : i < j => queue[s][i] < queue[s][j]
    /\ \A i \in 1 .. Len(queue[s]) :
          /\ queue[s][i] < next_timestamp_bound[s]
          /\ ~closed[s] => last_select_timestamp[s] < queue[s][i]

\* SpecialPacketsAlone of one stream
SpecialInv(s) ==
    \A i \in 1 .. Len(queue[s]) :
       queue[s][i] \in {PreStream, PostStream} => num_packets_added[s] = 1

TimedInv(s) == BoundsInv(s) /\ OrderInv(s) /\ SpecialInv(s)

\* The inductive invariant.
StreamInv == StreamTypeOK /\ \A s \in Timed : TimedInv(s)

\* What a step that concerns another stream leaves alone.
StreamSame(s) ==
    /\ queue'[s] = queue[s]
    /\ next_timestamp_bound'[s] = next_timestamp_bound[s]
    /\ last_select_timestamp'[s] = last_select_timestamp[s]
    /\ closed'[s] = closed[s]
    /\ num_packets_added'[s] = num_packets_added[s]

-----------------------------------------------------------------------------

\* The next timestamp after an allowed one is later, past PreStream(), and past
\* everything after PreStream() or PostStream(); it is a timestamp.
LEMMA NextIsLater ==
    ASSUME NEW t \in Int
    PROVE  /\ NextAllowedInStream(t) \in Int
           /\ RangeMin <= NextAllowedInStream(t) /\ NextAllowedInStream(t) <= OneOverPostStream
           /\ NextAllowedInStream(t) \in Timestamps
           /\ t <= PostStream => t < NextAllowedInStream(t)
           /\ t \in {PreStream, PostStream} => NextAllowedInStream(t) = OneOverPostStream
  BY RangeAssumption
     DEF NextAllowedInStream, Plus, Timestamps, Unset, PreStream, PostStream,
         OneOverPostStream, Done

\* The order and the kinds of the special timestamps.
LEMMA SpecialTimestamps ==
    /\ Unstarted \in Timestamps /\ PreStream \in Timestamps /\ Done \in Timestamps
    /\ RangeMin \in Int /\ RangeMax \in Int /\ Unset \in Int /\ Unstarted \in Int
    /\ PreStream \in Int /\ PostStream \in Int /\ OneOverPostStream \in Int /\ Done \in Int
    /\ Unset < Unstarted /\ Unstarted < PreStream /\ PreStream < RangeMin /\ RangeMin < RangeMax
    /\ RangeMax < PostStream /\ PostStream < OneOverPostStream /\ OneOverPostStream < Done
    /\ \A t \in Timestamps : t \in Int /\ t <= Done
  BY RangeAssumption
     DEF Timestamps, Unset, Unstarted, PreStream, PostStream, OneOverPostStream, Done

\* A queue that lost its first k packets is what follows them.
LEMMA QueueSuffix ==
    ASSUME NEW q \in Seq(Timestamps), NEW k \in 0 .. Len(q)
    PROVE  LET r == SubSeq(q, k + 1, Len(q))
           IN  /\ r \in Seq(Timestamps)
               /\ Len(r) = Len(q) - k
               /\ \A i \in 1 .. Len(r) : i + k \in 1 .. Len(q) /\ r[i] = q[i + k]
  OBVIOUS

\* A queue that got the first n packets of a list.
LEMMA QueueExtended ==
    ASSUME NEW q \in Seq(Timestamps), NEW p \in Seq(Timestamps), NEW n \in 0 .. Len(p)
    PROVE  LET r == q \o SubSeq(p, 1, n)
           IN  /\ r \in Seq(Timestamps)
               /\ Len(r) = Len(q) + n
               /\ \A i \in 1 .. Len(r) :
                     \/ i \in 1 .. Len(q) /\ r[i] = q[i]
                     \/ i - Len(q) \in 1 .. n /\ r[i] = p[i - Len(q)]
  OBVIOUS

\* The lists of packets are sequences.
LEMMA ListsAreSequences ==
    ASSUME NEW packets \in PacketLists
    PROVE  packets \in Seq(Timestamps) /\ Len(packets) \in Nat \ {0}
  BY StreamAssumption DEF PacketLists

\* A stream that a step leaves alone keeps what is known of it.
LEMMA SameStreamKeepsInv ==
    ASSUME NEW s, TimedInv(s), StreamSame(s)
    PROVE  TimedInv(s)'
  BY DEF TimedInv, BoundsInv, OrderInv, SpecialInv, StreamSame

\* The first n packets of a list are accepted by a timed stream: each is at or
\* after the bound, they increase, and a special one is alone.
LEMMA AcceptedPackets ==
    ASSUME StreamInv, NEW s \in Timed, NEW packets \in PacketLists,
           NEW n \in 1 .. Len(packets),
           \A i \in 1 .. n : AcceptsPacket(s, packets, i)
    PROVE  /\ \A i \in 1 .. n : packets[i] \in Timestamps /\ packets[i] <= PostStream
           /\ \A i \in 1 .. n : packets[i] >= next_timestamp_bound[s]
           /\ \A i, j \in 1 .. n : i < j => packets[i] < packets[j]
           /\ \A i \in 1 .. n :
                 packets[i] \in {PreStream, PostStream} => n = 1 /\ num_packets_added[s] = 0
  <1>1. packets \in Seq(Timestamps) /\ Len(packets) \in Nat
    BY ListsAreSequences
  <1>a. \A i \in 1 .. n : packets[i] \in Timestamps
    <2> TAKE i \in 1 .. n
    <2>1. i \in 1 .. Len(packets)
      BY <1>1
    <2> QED
      BY <1>1, <2>1
  <1>2. \A i \in 1 .. n : packets[i] \in Timestamps /\ packets[i] \in Int
    BY <1>a, SpecialTimestamps
  <1>3. s \in Streams /\ enable_timestamps[s] /\ TimedInv(s)
    BY DEF Timed, StreamInv
  <1>4. /\ next_timestamp_bound[s] \in Int /\ num_packets_added[s] \in Nat
    BY <1>3, SpecialTimestamps DEF StreamInv, StreamTypeOK
  <1>5. \A i \in 1 .. n : packets[i] <= PostStream /\ packets[i] >= next_timestamp_bound[s]
    BY <1>3 DEF AcceptsPacket, IsAllowedInStream
  <1>6. \A i, j \in 1 .. n : i < j => packets[j] >= NextAllowedInStream(packets[i])
    BY <1>3 DEF AcceptsPacket
  <1>7. \A i, j \in 1 .. n : i < j => packets[i] < packets[j]
    <2> SUFFICES ASSUME NEW i \in 1 .. n, NEW j \in 1 .. n, i < j
                 PROVE  packets[i] < packets[j]
      OBVIOUS
    <2>1. NextAllowedInStream(packets[i]) \in Int /\ packets[i] < NextAllowedInStream(packets[i])
      BY <1>2, <1>5, NextIsLater, SpecialTimestamps
    <2> QED
      BY <2>1, <1>2, <1>6
  <1>8. ASSUME NEW i \in 1 .. n, packets[i] \in {PreStream, PostStream}
        PROVE  n = 1 /\ num_packets_added[s] = 0
    <2>1. i = 1
      <3> SUFFICES ASSUME i > 1 PROVE FALSE
        OBVIOUS
      <3>1. packets[i] = PreStream
        BY <1>3, <1>4, <1>8 DEF AcceptsPacket
      <3>2. 1 \in 1 .. n /\ packets[1] \in Int
        BY <1>2
      <3>3. packets[i] >= NextAllowedInStream(packets[1])
        BY <1>6, <3>2
      <3>4. NextAllowedInStream(packets[1]) \in Int /\ NextAllowedInStream(packets[1]) >= RangeMin
        BY <3>2, NextIsLater, SpecialTimestamps
      <3> QED
        BY <3>1, <3>3, <3>4, SpecialTimestamps
    <2>2. n = 1
      <3> SUFFICES ASSUME n > 1 PROVE FALSE
        OBVIOUS
      <3>1. 1 \in 1 .. n /\ 2 \in 1 .. n /\ packets[1] \in Int /\ packets[2] \in Int
        BY <1>2
      <3>2. packets[2] >= NextAllowedInStream(packets[1]) /\ packets[2] <= PostStream
        BY <1>5, <1>6, <3>1
      <3>3. NextAllowedInStream(packets[1]) = OneOverPostStream
        BY <1>8, <2>1, <3>1, NextIsLater
      <3> QED
        BY <3>1, <3>2, <3>3, SpecialTimestamps
    <2>3. num_packets_added[s] = 0
      <3>1. CASE packets[i] = PostStream
        BY <3>1, <2>1, <1>3, <1>4 DEF AcceptsPacket
      <3>2. CASE packets[i] = PreStream
        BY <3>2, <1>3, <1>4, <1>5, SpecialTimestamps DEF TimedInv, BoundsInv
      <3> QED
        BY <3>1, <3>2, <1>8
    <2> QED
      BY <2>2, <2>3
  <1> QED
    BY <1>2, <1>5, <1>7, <1>8
-----------------------------------------------------------------------------

\* What every step shall have done to the bounds.
BoundsKept == \A r \in Timed : next_timestamp_bound'[r] >= next_timestamp_bound[r]

\* It is enough to look at the stream a step concerns.
LEMMA OneStreamSteps ==
    ASSUME StreamInv, enable_timestamps' = enable_timestamps, StreamTypeOK',
           NEW s \in Streams,
           \A r \in Streams \ {s} : StreamSame(r),
           s \in Timed => TimedInv(s)' /\ next_timestamp_bound'[s] >= next_timestamp_bound[s]
    PROVE  StreamInv' /\ BoundsKept
  <1>1. Timed' = Timed
    BY DEF Timed
  <1>2. ASSUME NEW r \in Timed
        PROVE  TimedInv(r)' /\ next_timestamp_bound'[r] >= next_timestamp_bound[r]
    <2>1. CASE r = s
      BY <2>1, <1>2
    <2>2. CASE r # s
      <3>1. r \in Streams \ {s} /\ TimedInv(r) /\ StreamSame(r)
        BY <2>2, <1>2 DEF Timed, StreamInv
      <3>2. TimedInv(r)'
        BY <3>1, SameStreamKeepsInv
      <3>3. next_timestamp_bound[r] \in Int /\ next_timestamp_bound'[r] = next_timestamp_bound[r]
        BY <3>1, SpecialTimestamps DEF StreamInv, StreamTypeOK, StreamSame
      <3> QED
        BY <3>2, <3>3
    <2> QED
      BY <2>1, <2>2
  <1> QED
    BY <1>1, <1>2 DEF StreamInv, BoundsKept

\* The callbacks owed stay a number.
LEMMA DueIsNatural ==
    ASSUME StreamTypeOK, NEW s \in Streams, NEW length, NEW max, OweCallback(s, length, max)
    PROVE  due' \in [Streams -> Nat]
  BY DEF StreamTypeOK, OweCallback

\* Adding packets.
LEMMA AddPacketsStep ==
    ASSUME StreamInv, enable_timestamps' = enable_timestamps, NEW s \in Streams,
           NEW packets \in PacketLists, AddPackets(s, packets)
    PROVE  StreamInv' /\ BoundsKept
  <1> DEFINE q == queue[s]
  <1>1. StreamTypeOK /\ q \in Seq(Timestamps) /\ Len(q) \in Nat
    BY DEF StreamInv, StreamTypeOK
  <1>2. packets \in Seq(Timestamps) /\ Len(packets) \in Nat
    BY ListsAreSequences
  <1>3. CASE closed[s] /\ UNCHANGED <<queueVars, next_timestamp_bound, due, refused>>
    <2>1. StreamTypeOK'
      BY <1>1, <1>3 DEF AddPackets, StreamTypeOK, queueVars
    <2>2. \A r \in Streams : StreamSame(r)
      BY <1>3 DEF AddPackets, StreamSame, queueVars
    <2>3. s \in Timed => TimedInv(s)' /\ next_timestamp_bound'[s] >= next_timestamp_bound[s]
      <3>1. next_timestamp_bound[s] \in Int
        BY <1>1, SpecialTimestamps DEF StreamTypeOK
      <3> QED
        BY <3>1, <2>2, SameStreamKeepsInv DEF StreamInv, StreamSame
    <2> QED
      BY <2>1, <2>2, <2>3, OneStreamSteps
  <1>4. ASSUME NEW n \in 0 .. Len(packets), ~closed[s], QueuePackets(s, packets, n),
               \/ /\ OweCallback(s, Len(queue[s]) + n, max_queue_size[s])
                  /\ UNCHANGED refused
               \/ /\ refused' = [refused EXCEPT ![s] = TRUE]
                  /\ UNCHANGED due
        PROVE  StreamInv' /\ BoundsKept
    <2> DEFINE new == q \o SubSeq(packets, 1, n)
    <2>1. /\ new \in Seq(Timestamps)
          /\ Len(new) = Len(q) + n
          /\ \A i \in 1 .. Len(new) :
                \/ i \in 1 .. Len(q) /\ new[i] = q[i]
                \/ i - Len(q) \in 1 .. n /\ new[i] = packets[i - Len(q)]
      BY <1>1, <1>2, QueueExtended
    <2>2. /\ queue' = [queue EXCEPT ![s] = new]
          /\ num_packets_added' = [num_packets_added EXCEPT ![s] = @ + n]
          /\ n = 0 => next_timestamp_bound' = next_timestamp_bound
          /\ n > 0 => next_timestamp_bound' =
                        [next_timestamp_bound EXCEPT ![s] = NextAllowedInStream(packets[n])]
      BY <1>4 DEF QueuePackets
    <2> HIDE DEF new
    <2>3. n > 0 => /\ packets[n] \in Timestamps /\ packets[n] \in Int
                   /\ NextAllowedInStream(packets[n]) \in Timestamps
      <3> SUFFICES ASSUME n > 0
                   PROVE  /\ packets[n] \in Timestamps /\ packets[n] \in Int
                          /\ NextAllowedInStream(packets[n]) \in Timestamps
        OBVIOUS
      <3>1. n \in 1 .. Len(packets)
        BY <1>2
      <3>2. packets[n] \in Timestamps
        BY <1>2, <3>1
      <3> QED
        BY <3>2, NextIsLater, SpecialTimestamps
    <2>4. StreamTypeOK'
      <3>1. queue' \in [Streams -> Seq(Timestamps)]
        BY <1>1, <2>1, <2>2 DEF StreamTypeOK
      <3>2. next_timestamp_bound' \in [Streams -> Timestamps]
        <4>1. CASE n = 0
          BY <1>1, <2>2, <4>1 DEF StreamTypeOK
        <4>2. CASE n > 0
          BY <1>1, <2>2, <2>3, <4>2 DEF StreamTypeOK
        <4> QED
          BY <4>1, <4>2
      <3>3. num_packets_added' \in [Streams -> Nat]
        BY <1>1, <2>2 DEF StreamTypeOK
      <3>4. due' \in [Streams -> Nat] /\ refused' \in [Streams -> BOOLEAN]
        BY <1>1, <1>4, DueIsNatural DEF StreamTypeOK
      <3> QED
        BY <1>1, <3>1, <3>2, <3>3, <3>4 DEF AddPackets, StreamTypeOK
    <2>5. \A r \in Streams \ {s} : StreamSame(r)
      BY <1>1, <2>2 DEF AddPackets, StreamSame, StreamTypeOK
    <2>6. ASSUME s \in Timed
          PROVE  TimedInv(s)' /\ next_timestamp_bound'[s] >= next_timestamp_bound[s]
      <3>1. CASE n = 0
        <4>1. new = q
          BY <1>1, <1>2, <3>1 DEF new
        <4>2. StreamSame(s)
          BY <1>1, <2>2, <3>1, <4>1 DEF AddPackets, StreamSame, StreamTypeOK
        <4>3. next_timestamp_bound[s] \in Int
          BY <1>1, SpecialTimestamps DEF StreamTypeOK
        <4> QED
          BY <4>2, <4>3, <2>6, SameStreamKeepsInv DEF StreamInv, StreamSame
      <3>2. CASE n > 0
        <4>1. n \in 1 .. Len(packets) /\ n \in 1 .. n
          BY <1>2, <3>2
        <4>2. /\ \A i \in 1 .. n : packets[i] \in Timestamps /\ packets[i] <= PostStream
              /\ \A i \in 1 .. n : packets[i] >= next_timestamp_bound[s]
              /\ \A i, j \in 1 .. n : i < j => packets[i] < packets[j]
              /\ \A i \in 1 .. n :
                    packets[i] \in {PreStream, PostStream} => n = 1 /\ num_packets_added[s] = 0
          BY <4>1, <2>6, <1>4, AcceptedPackets DEF QueuePackets
        <4>3. \A i \in 1 .. n : packets[i] \in Int
          BY <4>2, SpecialTimestamps
        <4> DEFINE b == next_timestamp_bound[s]  nb == NextAllowedInStream(packets[n])
                   added == num_packets_added[s]  last == last_select_timestamp[s]
        <4>4. /\ queue'[s] = new /\ next_timestamp_bound'[s] = nb
              /\ num_packets_added'[s] = added + n
              /\ last_select_timestamp'[s] = last /\ closed'[s] = FALSE
          BY <1>1, <1>4, <2>2, <3>2 DEF AddPackets, StreamTypeOK
        <4>5. /\ b \in Int /\ last \in Int /\ added \in Nat
              /\ \A i \in 1 .. Len(q) : q[i] \in Int
          <5>1. \A i \in 1 .. Len(q) : q[i] \in Timestamps
            BY <1>1
          <5> QED
            BY <1>1, <5>1, SpecialTimestamps DEF StreamTypeOK
        <4>6. /\ nb \in Int /\ packets[n] < nb /\ PreStream < nb
              /\ packets[n] \in {PreStream, PostStream} => nb = OneOverPostStream
          <5>1. packets[n] \in Int /\ packets[n] <= PostStream
            BY <4>1, <4>2, <4>3
          <5>2. /\ nb \in Int /\ packets[n] < nb /\ RangeMin <= nb
                /\ packets[n] \in {PreStream, PostStream} => nb = OneOverPostStream
            BY <5>1, NextIsLater
          <5> QED
            BY <5>2, SpecialTimestamps
        <4>7. TimedInv(s) /\ ~closed[s]
          BY <2>6, <1>4 DEF StreamInv
        <4>8. /\ last < b /\ Len(q) <= added
              /\ \A i, j \in 1 .. Len(q) : i < j => q[i] < q[j]
              /\ \A i \in 1 .. Len(q) : q[i] < b /\ last < q[i]
          BY <4>7 DEF TimedInv, BoundsInv, OrderInv
        <4>9. b <= packets[n] /\ b < nb
          BY <4>1, <4>2, <4>3, <4>5, <4>6
        <4>10. \A i \in 1 .. n : packets[i] < nb /\ last < packets[i]
          <5> TAKE i \in 1 .. n
          <5>1. packets[i] <= packets[n]
            BY <4>1, <4>2, <4>3
          <5> QED
            BY <5>1, <4>1, <4>2, <4>3, <4>5, <4>6, <4>8
        <4>11. \A i \in 1 .. Len(q) : q[i] \notin {PreStream, PostStream}
          <5> SUFFICES ASSUME NEW i \in 1 .. Len(q), q[i] \in {PreStream, PostStream}
                       PROVE  FALSE
            OBVIOUS
          <5>1. b > PostStream
            <6>1. CASE q[i] = PreStream
              BY <6>1, <4>5, <4>7, SpecialTimestamps DEF TimedInv, BoundsInv
            <6>2. CASE q[i] = PostStream
              BY <6>2, <4>8
            <6> QED
              BY <6>1, <6>2
          <5> QED
            BY <5>1, <4>1, <4>2, <4>3, <4>5, <4>9, SpecialTimestamps
        <4> HIDE DEF q, b, nb, added, last
        <4>12. OrderInv(s)'
          <5>1. \A i, j \in 1 .. Len(new) : i < j => new[i] < new[j]
            <6> SUFFICES ASSUME NEW i \in 1 .. Len(new), NEW j \in 1 .. Len(new), i < j
                         PROVE  new[i] < new[j]
              OBVIOUS
            <6>1. CASE j \in 1 .. Len(q)
              <7>1. i \in 1 .. Len(q) /\ new[i] = q[i] /\ new[j] = q[j]
                BY <6>1, <2>1, <1>1
              <7> QED
                BY <7>1, <6>1, <4>8
            <6>2. CASE j \notin 1 .. Len(q)
              <7>1. j - Len(q) \in 1 .. n /\ new[j] = packets[j - Len(q)]
                BY <6>2, <2>1
              <7>2. CASE i \in 1 .. Len(q) /\ new[i] = q[i]
                <8>1. q[i] < b /\ q[i] \in Int /\ b \in Int
                  BY <7>2, <4>5, <4>8
                <8>2. packets[j - Len(q)] >= b /\ packets[j - Len(q)] \in Int
                  BY <7>1, <4>2, <4>3 DEF b
                <8> QED
                  BY <7>1, <7>2, <8>1, <8>2
              <7>3. CASE i - Len(q) \in 1 .. n /\ new[i] = packets[i - Len(q)]
                BY <7>1, <7>3, <4>2, <1>1
              <7> QED
                BY <7>2, <7>3, <2>1
            <6> QED
              BY <6>1, <6>2
          <5>2. \A i \in 1 .. Len(new) : new[i] < nb /\ last < new[i]
            <6> TAKE i \in 1 .. Len(new)
            <6>1. CASE i \in 1 .. Len(q) /\ new[i] = q[i]
              BY <6>1, <4>5, <4>6, <4>8, <4>9
            <6>2. CASE i - Len(q) \in 1 .. n /\ new[i] = packets[i - Len(q)]
              BY <6>2, <4>10
            <6> QED
              BY <6>1, <6>2, <2>1
          <5> QED
            BY <5>1, <5>2, <4>4 DEF OrderInv
        <4>13. BoundsInv(s)'
          <5>1. \A i \in 1 .. Len(new) : new[i] = PreStream => nb >= OneOverPostStream
            <6> TAKE i \in 1 .. Len(new)
            <6>1. CASE i \in 1 .. Len(q) /\ new[i] = q[i]
              BY <6>1, <4>11
            <6>2. CASE i - Len(q) \in 1 .. n /\ new[i] = packets[i - Len(q)]
              <7>1. new[i] = PreStream => n = 1 /\ packets[n] = PreStream
                <8> SUFFICES ASSUME new[i] = PreStream
                             PROVE  n = 1 /\ packets[n] = PreStream
                  OBVIOUS
                <8>1. n = 1
                  BY <6>2, <4>2
                <8>2. i - Len(q) = n
                  BY <6>2, <8>1, <1>1
                <8> QED
                  BY <6>2, <8>1, <8>2
              <7> QED
                BY <7>1, <4>6, SpecialTimestamps
            <6> QED
              BY <6>1, <6>2, <2>1
          <5>2. last < nb /\ added + n > 0 /\ nb > PreStream /\ Len(new) <= added + n
            BY <2>1, <1>1, <3>2, <4>5, <4>6, <4>8, <4>9, SpecialTimestamps
          <5> QED
            BY <5>1, <5>2, <4>4 DEF BoundsInv
        <4>14. SpecialInv(s)'
          <5>1. \A i \in 1 .. Len(new) :
                   new[i] \in {PreStream, PostStream} => added + n = 1
            <6> TAKE i \in 1 .. Len(new)
            <6>1. CASE i \in 1 .. Len(q) /\ new[i] = q[i]
              BY <6>1, <4>11
            <6>2. CASE i - Len(q) \in 1 .. n /\ new[i] = packets[i - Len(q)]
              BY <6>2, <4>2 DEF added
            <6> QED
              BY <6>1, <6>2, <2>1
          <5> QED
            BY <5>1, <4>4 DEF SpecialInv
        <4> QED
          BY <4>4, <4>5, <4>6, <4>9, <4>12, <4>13, <4>14 DEF TimedInv, b
      <3> QED
        BY <3>1, <3>2
    <2> QED
      BY <2>4, <2>5, <2>6, OneStreamSteps
  <1> QED
    BY <1>3, <1>4 DEF AddPackets

\* Announcing a bound.
LEMMA SetBoundStep ==
    ASSUME StreamInv, enable_timestamps' = enable_timestamps, NEW s \in Streams,
           NEW bound \in Timestamps, SetNextTimestampBound(s, bound)
    PROVE  StreamInv' /\ BoundsKept
  <1> DEFINE b == next_timestamp_bound[s]  nb == next_timestamp_bound'[s]
  <1>1. StreamTypeOK /\ b \in Timestamps
    BY DEF StreamInv, StreamTypeOK
  <1>0. b \in Int /\ bound \in Int
    BY <1>1, SpecialTimestamps
  <1>a. nb = IF ~closed[s] /\ bound > b THEN bound ELSE b
    BY <1>1 DEF SetNextTimestampBound, StreamTypeOK
  <1>2. nb \in Int /\ b <= nb /\ (closed[s] => nb = b)
    BY <1>0, <1>a
  <1>3. StreamTypeOK'
    BY <1>1 DEF SetNextTimestampBound, StreamTypeOK, queueVars, sizeVars
  <1>4. \A r \in Streams \ {s} : StreamSame(r)
    BY <1>1 DEF SetNextTimestampBound, StreamTypeOK, queueVars, sizeVars, StreamSame
  <1>5. ASSUME s \in Timed PROVE TimedInv(s)'
    <2>1. /\ queue'[s] = queue[s] /\ closed'[s] = closed[s]
          /\ last_select_timestamp'[s] = last_select_timestamp[s]
          /\ num_packets_added'[s] = num_packets_added[s]
      BY DEF SetNextTimestampBound, queueVars
    <2>2. TimedInv(s)
      BY <1>5 DEF StreamInv
    <2>3. /\ last_select_timestamp[s] \in Int
          /\ \A i \in 1 .. Len(queue[s]) : queue[s][i] \in Int
      <3>1. queue[s] \in Seq(Timestamps)
        BY <1>1 DEF StreamTypeOK
      <3>2. \A i \in 1 .. Len(queue[s]) : queue[s][i] \in Timestamps
        BY <3>1
      <3> QED
        BY <1>1, <3>2, SpecialTimestamps DEF StreamTypeOK
    <2> HIDE DEF nb
    <2>4. BoundsInv(s)'
      <3> USE DEF nb
      <3> QED
        BY <1>0, <1>2, <2>1, <2>2, <2>3, SpecialTimestamps DEF TimedInv, BoundsInv
    <2>5. OrderInv(s)'
      <3>1. \A i \in 1 .. Len(queue[s]) : queue[s][i] < nb
        BY <1>0, <1>2, <2>2, <2>3 DEF TimedInv, OrderInv
      <3> QED
        BY <3>1, <2>1, <2>2 DEF TimedInv, OrderInv, nb
    <2>6. SpecialInv(s)'
      BY <2>1, <2>2 DEF TimedInv, SpecialInv
    <2> QED
      BY <2>4, <2>5, <2>6 DEF TimedInv
  <1>6. nb >= b
    BY <1>2
  <1> QED
    BY <1>3, <1>4, <1>5, <1>6, OneStreamSteps

\* Closing.
LEMMA CloseStep ==
    ASSUME StreamInv, enable_timestamps' = enable_timestamps, NEW s \in Streams, Close(s)
    PROVE  StreamInv' /\ BoundsKept
  <1>1. StreamTypeOK /\ next_timestamp_bound[s] \in Timestamps /\ Done \in Timestamps
    BY SpecialTimestamps DEF StreamInv, StreamTypeOK
  <1>2. StreamTypeOK'
    BY <1>1 DEF Close, StreamTypeOK, queueVars, sizeVars
  <1>3. \A r \in Streams \ {s} : StreamSame(r)
    BY <1>1 DEF Close, StreamTypeOK, queueVars, StreamSame
  <1>4. next_timestamp_bound'[s] = Done /\ Done >= next_timestamp_bound[s]
    BY <1>1, SpecialTimestamps DEF Close, StreamTypeOK
  <1>5. ASSUME s \in Timed PROVE TimedInv(s)'
    <2>1. /\ queue'[s] = queue[s] /\ closed'[s] = TRUE
          /\ num_packets_added'[s] = num_packets_added[s]
      BY <1>1 DEF Close, queueVars, StreamTypeOK
    <2>2. TimedInv(s)
      BY <1>5 DEF StreamInv
    <2>3. \A i \in 1 .. Len(queue[s]) : queue[s][i] \in Int
      <3>1. queue[s] \in Seq(Timestamps)
        BY <1>1 DEF StreamTypeOK
      <3>2. \A i \in 1 .. Len(queue[s]) : queue[s][i] \in Timestamps
        BY <3>1
      <3> QED
        BY <3>2, SpecialTimestamps
    <2>4. BoundsInv(s)'
      <3>1. Done > PreStream /\ Done >= OneOverPostStream
        BY SpecialTimestamps
      <3>2. Len(queue[s]) <= num_packets_added[s]
        BY <2>2 DEF TimedInv, BoundsInv
      <3> QED
        BY <3>1, <3>2, <1>4, <2>1 DEF BoundsInv
    <2>5. OrderInv(s)'
      <3>1. next_timestamp_bound[s] \in Int /\ Done \in Int
        BY <1>1, SpecialTimestamps
      <3> QED
        BY <1>4, <2>1, <2>2, <2>3, <3>1 DEF TimedInv, OrderInv
    <2>6. SpecialInv(s)'
      BY <2>1, <2>2 DEF TimedInv, SpecialInv
    <2> QED
      BY <2>4, <2>5, <2>6 DEF TimedInv
  <1> QED
    BY <1>2, <1>3, <1>4, <1>5, OneStreamSteps

\* Popping the first k packets, when the bound does not fall and what remains
\* is later than the new selection.
LEMMA PopStep ==
    ASSUME StreamInv, enable_timestamps' = enable_timestamps, StreamTypeOK',
           NEW s \in Streams, NEW k \in 0 .. Len(queue[s]),
           queue' = [queue EXCEPT ![s] = SubSeq(@, k + 1, Len(@))],
           num_packets_added' = num_packets_added, closed' = closed,
           \A r \in Streams \ {s} :
              /\ next_timestamp_bound'[r] = next_timestamp_bound[r]
              /\ last_select_timestamp'[r] = last_select_timestamp[r],
           next_timestamp_bound'[s] >= next_timestamp_bound[s],
           closed[s] => next_timestamp_bound'[s] = next_timestamp_bound[s],
           s \in Timed /\ ~closed[s] =>
              /\ last_select_timestamp'[s] < next_timestamp_bound'[s]
              /\ \A i \in 1 .. Len(queue[s]) :
                    i > k => last_select_timestamp'[s] < queue[s][i]
    PROVE  StreamInv' /\ BoundsKept
  <1> DEFINE q == queue[s]
             r == SubSeq(q, k + 1, Len(q))
             b == next_timestamp_bound[s]
             nb == next_timestamp_bound'[s]
  <1>1. StreamTypeOK /\ q \in Seq(Timestamps) /\ Len(q) \in Nat
    BY DEF StreamInv, StreamTypeOK
  <1>2. queue'[s] = r /\ \A x \in Streams \ {s} : queue'[x] = queue[x]
    BY <1>1 DEF StreamTypeOK
  <1>3. /\ Len(r) = Len(q) - k
        /\ \A i \in 1 .. Len(r) : i + k \in 1 .. Len(q) /\ r[i] = q[i + k]
    BY <1>1, QueueSuffix
  <1> HIDE DEF r
  <1>4. /\ b \in Int /\ nb \in Int /\ num_packets_added[s] \in Nat
        /\ \A i \in 1 .. Len(q) : q[i] \in Int
    <2>1. \A i \in 1 .. Len(q) : q[i] \in Timestamps
      BY <1>1
    <2>2. b \in Timestamps /\ nb \in Timestamps /\ num_packets_added[s] \in Nat
      BY <1>1 DEF StreamTypeOK
    <2> QED
      BY <2>1, <2>2, SpecialTimestamps
  <1>5. \A x \in Streams \ {s} : StreamSame(x)
    BY <1>2 DEF StreamSame
  <1>6. ASSUME s \in Timed PROVE TimedInv(s)'
    <2>1. TimedInv(s)
      BY <1>6 DEF StreamInv
    <2>2. \A i \in 1 .. Len(r) : i + k \in 1 .. Len(q) /\ i + k > k /\ r[i] = q[i + k]
      BY <1>3, <1>1
    <2>3. BoundsInv(s)'
      <3>1. Len(r) <= num_packets_added[s]
        BY <2>1, <1>1, <1>3, <1>4 DEF TimedInv, BoundsInv
      <3>2. \A i \in 1 .. Len(r) : r[i] = PreStream => nb >= OneOverPostStream
        <4>1. \A i \in 1 .. Len(r) : r[i] = PreStream => b >= OneOverPostStream
          BY <2>1, <2>2 DEF TimedInv, BoundsInv
        <4> QED
          BY <4>1, <1>4, SpecialTimestamps
      <3>3. num_packets_added[s] > 0 => nb > PreStream
        BY <2>1, <1>4, SpecialTimestamps DEF TimedInv, BoundsInv
      <3>4. /\ closed[s] => nb = Done
            /\ ~closed[s] => last_select_timestamp'[s] < nb
        BY <2>1, <1>6 DEF TimedInv, BoundsInv
      <3> QED
        BY <1>2, <3>1, <3>2, <3>3, <3>4 DEF BoundsInv
    <2>4. OrderInv(s)'
      <3>1. \A i, j \in 1 .. Len(r) : i < j => r[i] < r[j]
        <4> SUFFICES ASSUME NEW i \in 1 .. Len(r), NEW j \in 1 .. Len(r), i < j
                     PROVE  r[i] < r[j]
          OBVIOUS
        <4>1. i + k < j + k
          OBVIOUS
        <4> QED
          BY <4>1, <2>1, <2>2 DEF TimedInv, OrderInv
      <3>2. \A i \in 1 .. Len(r) : r[i] < nb
        <4> TAKE i \in 1 .. Len(r)
        <4>1. q[i + k] < b /\ q[i + k] \in Int /\ r[i] = q[i + k]
          BY <2>1, <2>2, <1>4 DEF TimedInv, OrderInv
        <4> QED
          BY <4>1, <1>4
      <3>3. \A i \in 1 .. Len(r) : ~closed[s] => last_select_timestamp'[s] < r[i]
        BY <2>2, <1>6
      <3> QED
        BY <1>2, <3>1, <3>2, <3>3 DEF OrderInv
    <2>5. SpecialInv(s)'
      BY <1>2, <2>1, <2>2 DEF TimedInv, SpecialInv
    <2> QED
      BY <2>3, <2>4, <2>5 DEF TimedInv
  <1> QED
    BY <1>5, <1>6, OneStreamSteps

\* Selecting at an allowed timestamp that is not earlier than the last.
LEMMA SelectStep ==
    ASSUME StreamInv, enable_timestamps' = enable_timestamps, NEW s \in Streams,
           NEW timestamp \in Timestamps, IsAllowedInStream(timestamp),
           PopPacketAtTimestamp(s, timestamp)
    PROVE  StreamInv' /\ BoundsKept
  <1> DEFINE b == next_timestamp_bound[s]  nb == next_timestamp_bound'[s]
  <1>1. StreamTypeOK /\ b \in Timestamps
    BY DEF StreamInv, StreamTypeOK
  <1>2. b \in Int /\ timestamp \in Int /\ timestamp < NextAllowedInStream(timestamp)
        /\ NextAllowedInStream(timestamp) \in Timestamps
        /\ NextAllowedInStream(timestamp) \in Int
    BY <1>1, NextIsLater, SpecialTimestamps DEF IsAllowedInStream
  <1>3. nb = IF b <= timestamp THEN NextAllowedInStream(timestamp) ELSE b
    BY <1>1 DEF PopPacketAtTimestamp, StreamTypeOK
  <1>4. last_select_timestamp'[s] = timestamp /\ timestamp < nb /\ nb >= b
    BY <1>1, <1>2, <1>3 DEF PopPacketAtTimestamp, StreamTypeOK
  <1>5. PICK k \in 0 .. Len(queue[s]) :
           /\ k < Len(queue[s]) => ~(queue[s][k + 1] <= timestamp)
           /\ queue' = [queue EXCEPT ![s] = SubSeq(@, k + 1, Len(@))]
           /\ OweCallback(s, Len(queue[s]) - k, max_queue_size[s])
    BY DEF PopPacketAtTimestamp, PopWhile
  <1>6. StreamTypeOK'
    <2>1. queue[s] \in Seq(Timestamps)
      BY <1>1 DEF StreamTypeOK
    <2>2. SubSeq(queue[s], k + 1, Len(queue[s])) \in Seq(Timestamps)
      BY <2>1, QueueSuffix
    <2>3. queue' \in [Streams -> Seq(Timestamps)]
      BY <1>1, <1>5, <2>2 DEF StreamTypeOK
    <2>4. due' \in [Streams -> Nat]
      BY <1>1, <1>5, DueIsNatural
    <2>5. /\ next_timestamp_bound' \in [Streams -> Timestamps]
          /\ last_select_timestamp' \in [Streams -> Timestamps]
      BY <1>1, <1>2 DEF PopPacketAtTimestamp, StreamTypeOK
    <2> QED
      BY <1>1, <2>3, <2>4, <2>5 DEF PopPacketAtTimestamp, StreamTypeOK
  <1>7. \A r \in Streams \ {s} :
           /\ next_timestamp_bound'[r] = next_timestamp_bound[r]
           /\ last_select_timestamp'[r] = last_select_timestamp[r]
    BY <1>1 DEF PopPacketAtTimestamp, StreamTypeOK
  <1>8. ASSUME s \in Timed
        PROVE  /\ closed[s] => nb = b
               /\ \A i \in 1 .. Len(queue[s]) : i > k => timestamp < queue[s][i]
    <2>1. TimedInv(s) /\ queue[s] \in Seq(Timestamps) /\ Len(queue[s]) \in Nat
      BY <1>1, <1>8 DEF StreamInv, StreamTypeOK
    <2>2. closed[s] => nb = b
      BY <1>2, <1>3, <2>1, SpecialTimestamps DEF TimedInv, BoundsInv, IsAllowedInStream
    <2>3. ASSUME NEW i \in 1 .. Len(queue[s]), i > k PROVE timestamp < queue[s][i]
      <3>1. k + 1 \in 1 .. Len(queue[s]) /\ k < Len(queue[s]) /\ (k + 1 = i \/ k + 1 < i)
        BY <2>1, <2>3
      <3>2. queue[s][k + 1] \in Int /\ queue[s][i] \in Int
        <4>1. queue[s][k + 1] \in Timestamps /\ queue[s][i] \in Timestamps
          BY <2>1, <3>1
        <4> QED
          BY <4>1, SpecialTimestamps
      <3>3. queue[s][k + 1] <= queue[s][i]
        BY <2>1, <3>1, <3>2 DEF TimedInv, OrderInv
      <3>4. timestamp < queue[s][k + 1]
        BY <1>2, <1>5, <3>1, <3>2
      <3> QED
        BY <1>2, <3>2, <3>3, <3>4
    <2> QED
      BY <2>2, <2>3
  <1>9. s \notin Timed => StreamInv' /\ BoundsKept
    <2>1. num_packets_added' = num_packets_added /\ closed' = closed
      BY DEF PopPacketAtTimestamp
    <2>2. \A r \in Streams \ {s} : StreamSame(r)
      BY <1>1, <1>5, <1>7, <2>1 DEF StreamSame, StreamTypeOK
    <2> QED
      BY <1>6, <2>2, OneStreamSteps
  <1>10. num_packets_added' = num_packets_added /\ closed' = closed
    BY DEF PopPacketAtTimestamp
  <1>11. s \in Timed => StreamInv' /\ BoundsKept
    BY <1>4, <1>5, <1>6, <1>7, <1>8, <1>10, PopStep
  <1> QED
    BY <1>9, <1>11

\* Popping the head of an untimed stream.
LEMMA PopHeadStep ==
    ASSUME StreamInv, enable_timestamps' = enable_timestamps, NEW s \in Streams,
           ~enable_timestamps[s], PopQueueHead(s)
    PROVE  StreamInv' /\ BoundsKept
  <1>1. StreamTypeOK /\ queue[s] \in Seq(Timestamps) /\ s \notin Timed
    BY DEF StreamInv, StreamTypeOK, Timed
  <1>2. queue' \in [Streams -> Seq(Timestamps)] /\ due' \in [Streams -> Nat]
    <2>1. CASE queue[s] = <<>>
      BY <1>1, <2>1 DEF PopQueueHead, StreamTypeOK
    <2>2. CASE queue[s] # <<>>
      <3>1. Tail(queue[s]) \in Seq(Timestamps)
        BY <1>1, <2>2
      <3>2. queue' \in [Streams -> Seq(Timestamps)]
        BY <1>1, <2>2, <3>1 DEF PopQueueHead, StreamTypeOK
      <3>3. OweCallback(s, Len(queue[s]) - 1, max_queue_size[s])
        BY <2>2 DEF PopQueueHead
      <3> QED
        BY <1>1, <3>2, <3>3, DueIsNatural
    <2> QED
      BY <2>1, <2>2
  <1>3. StreamTypeOK'
    BY <1>1, <1>2 DEF PopQueueHead, StreamTypeOK, boundVars
  <1>4. \A r \in Streams \ {s} : StreamSame(r)
    BY <1>1 DEF PopQueueHead, StreamSame, StreamTypeOK, boundVars
  <1> QED
    BY <1>1, <1>3, <1>4, OneStreamSteps

\* Erasing early packets.
LEMMA EraseStep ==
    ASSUME StreamInv, enable_timestamps' = enable_timestamps, NEW s \in Streams,
           NEW timestamp \in Timestamps, ErasePacketsEarlierThan(s, timestamp)
    PROVE  StreamInv' /\ BoundsKept
  <1>1. StreamTypeOK /\ queue[s] \in Seq(Timestamps)
    BY DEF StreamInv, StreamTypeOK
  <1>2. PICK k \in 0 .. Len(queue[s]) :
           /\ queue' = [queue EXCEPT ![s] = SubSeq(@, k + 1, Len(@))]
           /\ OweCallback(s, Len(queue[s]) - k, max_queue_size[s])
    BY DEF ErasePacketsEarlierThan, PopWhile
  <1>3. /\ num_packets_added' = num_packets_added /\ closed' = closed
        /\ next_timestamp_bound' = next_timestamp_bound
        /\ last_select_timestamp' = last_select_timestamp
    BY DEF ErasePacketsEarlierThan, boundVars
  <1>4. StreamTypeOK'
    <2>1. SubSeq(queue[s], k + 1, Len(queue[s])) \in Seq(Timestamps)
      BY <1>1, QueueSuffix
    <2>2. queue' \in [Streams -> Seq(Timestamps)]
      BY <1>1, <1>2, <2>1 DEF StreamTypeOK
    <2>3. due' \in [Streams -> Nat]
      BY <1>1, <1>2, DueIsNatural
    <2> QED
      BY <1>1, <1>3, <2>2, <2>3 DEF ErasePacketsEarlierThan, StreamTypeOK
  <1>5. next_timestamp_bound[s] \in Int
    BY <1>1, SpecialTimestamps DEF StreamTypeOK
  <1>6. s \in Timed /\ ~closed[s] =>
           /\ last_select_timestamp[s] < next_timestamp_bound[s]
           /\ \A i \in 1 .. Len(queue[s]) : last_select_timestamp[s] < queue[s][i]
    BY DEF StreamInv, TimedInv, BoundsInv, OrderInv
  <1>7. next_timestamp_bound'[s] >= next_timestamp_bound[s]
    BY <1>3, <1>5
  <1> QED
    BY <1>2, <1>3, <1>4, <1>6, <1>7, PopStep

\* What concerns the size of a queue leaves its packets alone.
LEMMA SizeStep ==
    ASSUME StreamInv, enable_timestamps' = enable_timestamps, NEW s \in Streams,
           \/ \E size \in MaxQueueSizes : SetMaxQueueSize(s, size)
           \/ QueueSizeCallback(s)
    PROVE  StreamInv' /\ BoundsKept
  <1>1. StreamTypeOK
    BY DEF StreamInv
  <1>2. UNCHANGED <<queueVars, boundVars, refused>>
    BY DEF SetMaxQueueSize, QueueSizeCallback
  <1>3. StreamTypeOK'
    <2>1. CASE \E size \in MaxQueueSizes : SetMaxQueueSize(s, size)
      <3>1. PICK size \in MaxQueueSizes : SetMaxQueueSize(s, size)
        BY <2>1
      <3>2. due' \in [Streams -> Nat]
        BY <1>1, <3>1, DueIsNatural DEF SetMaxQueueSize
      <3>3. size \in {-1} \cup Nat
        BY StreamAssumption
      <3>4. max_queue_size' \in [Streams -> {-1} \cup Nat]
        BY <1>1, <3>1, <3>3 DEF SetMaxQueueSize, StreamTypeOK
      <3> QED
        BY <1>1, <1>2, <3>1, <3>2, <3>4
           DEF SetMaxQueueSize, StreamTypeOK, queueVars, boundVars
    <2>2. CASE QueueSizeCallback(s)
      <3>1. due' \in [Streams -> Nat]
        BY <1>1, <2>2 DEF QueueSizeCallback, StreamTypeOK
      <3>2. last_reported_full' \in [Streams -> BOOLEAN]
        BY <1>1, <2>2 DEF QueueSizeCallback, StreamTypeOK, IsFull, Full
      <3> QED
        BY <1>1, <1>2, <2>2, <3>1, <3>2
           DEF QueueSizeCallback, StreamTypeOK, queueVars, boundVars
    <2> QED
      BY <2>1, <2>2
  <1>4. \A r \in Streams : StreamSame(r)
    BY <1>2 DEF StreamSame, queueVars, boundVars
  <1>5. next_timestamp_bound[s] \in Int /\ next_timestamp_bound'[s] = next_timestamp_bound[s]
    BY <1>1, <1>2, SpecialTimestamps DEF StreamTypeOK, boundVars
  <1>6. s \in Timed => TimedInv(s)'
    BY <1>4, SameStreamKeepsInv DEF StreamInv
  <1> QED
    BY <1>3, <1>4, <1>5, <1>6, OneStreamSteps

-----------------------------------------------------------------------------

\* The invariant holds at first.
LEMMA StreamInvInit ==
    ASSUME StreamInit
    PROVE  StreamInv
  <1>1. StreamTypeOK
    <2>1. max_queue_size \in [Streams -> {-1} \cup Nat]
      BY StreamAssumption DEF StreamInit
    <2> QED
      BY <2>1, SpecialTimestamps DEF StreamInit, StreamTypeOK
  <1>2. ASSUME NEW s \in Timed PROVE TimedInv(s)
    <2>1. /\ queue[s] = <<>> /\ ~closed[s] /\ num_packets_added[s] = 0
          /\ next_timestamp_bound[s] = PreStream /\ last_select_timestamp[s] = Unstarted
      BY <1>2 DEF StreamInit, Timed
    <2> QED
      BY <2>1, SpecialTimestamps DEF TimedInv, BoundsInv, OrderInv, SpecialInv
  <1> QED
    BY <1>1, <1>2 DEF StreamInv

\* Every step keeps it, and no step takes a bound back.
LEMMA StreamInvStep ==
    ASSUME StreamInv, StreamNext
    PROVE  StreamInv' /\ BoundsKept
  <1>1. PICK s \in Streams : StreamStep(s)
    BY DEF StreamNext
  <1>2. enable_timestamps' = enable_timestamps
    BY DEF StreamNext
  <1>3. CASE \E packets \in PacketLists : AddPackets(s, packets)
    BY <1>2, <1>3, AddPacketsStep
  <1>4. CASE \E bound \in Timestamps : SetNextTimestampBound(s, bound)
    BY <1>2, <1>4, SetBoundStep
  <1>5. CASE Close(s)
    BY <1>2, <1>5, CloseStep
  <1>6. CASE \E timestamp \in Timestamps :
                IsAllowedInStream(timestamp) /\ PopPacketAtTimestamp(s, timestamp)
    BY <1>2, <1>6, SelectStep
  <1>7. CASE ~enable_timestamps[s] /\ PopQueueHead(s)
    BY <1>2, <1>7, PopHeadStep
  <1>8. CASE \E timestamp \in Timestamps : ErasePacketsEarlierThan(s, timestamp)
    BY <1>2, <1>8, EraseStep
  <1>9. CASE (\E size \in MaxQueueSizes : SetMaxQueueSize(s, size)) \/ QueueSizeCallback(s)
    BY <1>2, <1>9, SizeStep
  <1> QED
    BY <1>1, <1>3, <1>4, <1>5, <1>6, <1>7, <1>8, <1>9 DEF StreamStep

\* The inductive invariant holds throughout.
LEMMA StreamInvHolds == StreamSpec => []StreamInv
  <1>1. StreamInit => StreamInv
    BY StreamInvInit
  <1>2. StreamInv /\ [StreamNext]_streamVars => StreamInv'
    <2>1. ASSUME StreamInv, UNCHANGED streamVars PROVE StreamInv'
      BY <2>1 DEF StreamInv, StreamTypeOK, Timed, TimedInv, BoundsInv, OrderInv, SpecialInv,
                  streamVars, queueVars, boundVars, sizeVars
    <2> QED
      BY <2>1, StreamInvStep
  <1> QED
    BY <1>1, <1>2, PTL DEF StreamSpec

\* Packets wait in the order of their timestamps, before the bound and after
\* the last selection, on every timed stream (AddOrMovePacketsInternal,
\* PopPacketAtTimestamp and ErasePacketsEarlierThan together).
THEOREM PacketsInOrder == StreamSpec => []QueueInOrder
  <1>1. StreamInv => QueueInOrder
    BY DEF StreamInv, TimedInv, OrderInv, QueueInOrder
  <1> QED
    BY <1>1, StreamInvHolds, PTL

\* A packet at PreStream() or PostStream() is the only one its stream ever got
\* (the tests of AddOrMovePacketsInternal).
THEOREM SpecialPacketIsAlone == StreamSpec => []SpecialPacketsAlone
  <1>1. StreamInv => SpecialPacketsAlone
    BY DEF StreamInv, TimedInv, SpecialInv, SpecialPacketsAlone
  <1> QED
    BY <1>1, StreamInvHolds, PTL

\* No call takes back a bound on a timed stream (next_timestamp_bound_).
THEOREM BoundsOnlyGrow == StreamSpec => BoundNeverDecreases
  <1>1. StreamInv /\ [StreamNext]_streamVars =>
           [\A s \in Timed : next_timestamp_bound'[s] >= next_timestamp_bound[s]]_streamVars
    BY StreamInvStep DEF BoundsKept
  <1> QED
    BY <1>1, StreamInvHolds, PTL DEF StreamSpec, BoundNeverDecreases

-----------------------------------------------------------------------------

\* A call that owes a callback when fullness changes keeps the report right.
LEMMA OwingKeepsReport ==
    ASSUME StreamTypeOK, FullnessReported, NEW s \in Streams, NEW length, NEW max,
           OweCallback(s, length, max),
           Len(queue'[s]) = length, max_queue_size'[s] = max,
           \A r \in Streams \ {s} :
              queue'[r] = queue[r] /\ max_queue_size'[r] = max_queue_size[r],
           UNCHANGED <<last_reported_full, refused>>
    PROVE  FullnessReported'
  <1> SUFFICES ASSUME NEW r \in Streams, due'[r] = 0, ~refused'[r]
               PROVE  last_reported_full'[r] = IsFull(r)'
    BY DEF FullnessReported
  <1>1. CASE r = s
    <2>1. IsFull(s)' = Full(length, max)
      BY DEF IsFull
    <2>2. CASE Full(length, max) # IsFull(s)
      BY <1>1, <2>2 DEF OweCallback, StreamTypeOK
    <2>3. CASE Full(length, max) = IsFull(s)
      <3>1. due' = due
        BY <2>3 DEF OweCallback
      <3> QED
        BY <1>1, <2>1, <2>3, <3>1 DEF FullnessReported
    <2> QED
      BY <2>2, <2>3
  <1>2. CASE r # s
    <2>1. due'[r] = due[r]
      BY <1>2 DEF OweCallback, StreamTypeOK
    <2>2. IsFull(r)' = IsFull(r)
      BY <1>2 DEF IsFull
    <2> QED
      BY <2>1, <2>2 DEF FullnessReported
  <1> QED
    BY <1>1, <1>2

\* Every step keeps the report right.
LEMMA ReportStep ==
    ASSUME StreamInv, FullnessReported, StreamNext
    PROVE  FullnessReported'
  <1>1. PICK s \in Streams : StreamStep(s)
    BY DEF StreamNext
  <1>2. StreamTypeOK /\ queue[s] \in Seq(Timestamps) /\ Len(queue[s]) \in Nat
    BY DEF StreamInv, StreamTypeOK
  <1>3. ASSUME NEW k \in 0 .. Len(queue[s]),
               queue' = [queue EXCEPT ![s] = SubSeq(@, k + 1, Len(@))],
               OweCallback(s, Len(queue[s]) - k, max_queue_size[s]),
               UNCHANGED <<max_queue_size, last_reported_full, refused>>
        PROVE  FullnessReported'
    <2>1. queue'[s] = SubSeq(queue[s], k + 1, Len(queue[s]))
      BY <1>2, <1>3 DEF StreamTypeOK
    <2>2. Len(queue'[s]) = Len(queue[s]) - k
      BY <1>2, <2>1, QueueSuffix
    <2>3. \A r \in Streams \ {s} : queue'[r] = queue[r]
      BY <1>2, <1>3 DEF StreamTypeOK
    <2> QED
      BY <1>2, <1>3, <2>2, <2>3, OwingKeepsReport
  <1>4. ASSUME UNCHANGED <<queue, max_queue_size, last_reported_full, due>>,
               \A r \in Streams : refused[r] => refused'[r]
        PROVE  FullnessReported'
    BY <1>4 DEF FullnessReported, IsFull
  <1>5. ASSUME NEW packets \in PacketLists, AddPackets(s, packets)
        PROVE  FullnessReported'
    <2>1. CASE closed[s] /\ UNCHANGED <<queueVars, next_timestamp_bound, due, refused>>
      BY <1>4, <1>5, <2>1 DEF AddPackets, queueVars
    <2>2. ASSUME NEW n \in 0 .. Len(packets), QueuePackets(s, packets, n),
                 OweCallback(s, Len(queue[s]) + n, max_queue_size[s]), UNCHANGED refused
          PROVE  FullnessReported'
      <3>1. packets \in Seq(Timestamps)
        BY ListsAreSequences
      <3>2. queue'[s] = queue[s] \o SubSeq(packets, 1, n)
        BY <1>2, <2>2 DEF QueuePackets, StreamTypeOK
      <3>3. Len(queue'[s]) = Len(queue[s]) + n
        BY <1>2, <3>1, <3>2, QueueExtended
      <3>4. \A r \in Streams \ {s} : queue'[r] = queue[r]
        BY <1>2, <2>2 DEF QueuePackets, StreamTypeOK
      <3>5. UNCHANGED <<max_queue_size, last_reported_full>>
        BY <1>5 DEF AddPackets
      <3> QED
        BY <1>2, <2>2, <3>3, <3>4, <3>5, OwingKeepsReport
    <2>3. ASSUME NEW n \in 0 .. Len(packets), QueuePackets(s, packets, n),
                 refused' = [refused EXCEPT ![s] = TRUE], UNCHANGED due
          PROVE  FullnessReported'
      <3>1. refused'[s] /\ \A r \in Streams \ {s} :
               refused'[r] = refused[r] /\ queue'[r] = queue[r]
        BY <1>2, <2>3 DEF QueuePackets, StreamTypeOK
      <3>2. UNCHANGED <<max_queue_size, last_reported_full>>
        BY <1>5 DEF AddPackets
      <3> QED
        BY <2>3, <3>1, <3>2 DEF FullnessReported, IsFull
    <2> QED
      BY <1>5, <2>1, <2>2, <2>3 DEF AddPackets
  <1>6. ASSUME NEW bound \in Timestamps, SetNextTimestampBound(s, bound)
        PROVE  FullnessReported'
    <2>1. \A r \in Streams : refused[r] => refused'[r]
      BY <1>2, <1>6 DEF SetNextTimestampBound, StreamTypeOK
    <2> QED
      BY <1>4, <1>6, <2>1 DEF SetNextTimestampBound, queueVars, sizeVars
  <1>7. ASSUME Close(s) PROVE FullnessReported'
    BY <1>4, <1>7 DEF Close, queueVars, sizeVars
  <1>8. ASSUME NEW timestamp \in Timestamps,
               PopPacketAtTimestamp(s, timestamp) \/ ErasePacketsEarlierThan(s, timestamp)
        PROVE  FullnessReported'
    BY <1>3, <1>8 DEF PopPacketAtTimestamp, ErasePacketsEarlierThan, PopWhile
  <1>9. ASSUME PopQueueHead(s) PROVE FullnessReported'
    <2>1. CASE queue[s] = <<>>
      BY <1>4, <1>9, <2>1 DEF PopQueueHead
    <2>2. CASE queue[s] # <<>>
      <3>1. queue'[s] = Tail(queue[s]) /\ \A r \in Streams \ {s} : queue'[r] = queue[r]
        BY <1>2, <1>9, <2>2 DEF PopQueueHead, StreamTypeOK
      <3>2. Len(queue'[s]) = Len(queue[s]) - 1
        BY <1>2, <2>2, <3>1
      <3>3. OweCallback(s, Len(queue[s]) - 1, max_queue_size[s])
            /\ UNCHANGED <<max_queue_size, last_reported_full, refused>>
        BY <1>9, <2>2 DEF PopQueueHead
      <3> QED
        BY <1>2, <3>1, <3>2, <3>3, OwingKeepsReport
    <2> QED
      BY <2>1, <2>2
  <1>10. ASSUME NEW size \in MaxQueueSizes, SetMaxQueueSize(s, size)
         PROVE  FullnessReported'
    <2>1. /\ max_queue_size'[s] = size
          /\ \A r \in Streams \ {s} : max_queue_size'[r] = max_queue_size[r]
          /\ queue' = queue /\ UNCHANGED <<last_reported_full, refused>>
          /\ OweCallback(s, Len(queue[s]), size)
      BY <1>2, <1>10 DEF SetMaxQueueSize, StreamTypeOK, queueVars
    <2> QED
      BY <1>2, <2>1, OwingKeepsReport
  <1>11. ASSUME QueueSizeCallback(s) PROVE FullnessReported'
    <2>1. /\ last_reported_full'[s] = IsFull(s)
          /\ queue' = queue /\ max_queue_size' = max_queue_size /\ refused' = refused
          /\ \A r \in Streams \ {s} :
                last_reported_full'[r] = last_reported_full[r] /\ due'[r] = due[r]
      BY <1>2, <1>11 DEF QueueSizeCallback, StreamTypeOK, queueVars
    <2> QED
      BY <2>1 DEF FullnessReported, IsFull
  <1> QED
    BY <1>1, <1>5, <1>6, <1>7, <1>8, <1>9, <1>10, <1>11 DEF StreamStep

\* The throttling logic knows which streams are full whenever no callback is
\* under way, however the callbacks overtook each other (becomes_full_callback_,
\* becomes_not_full_callback_, UpdateThrottledNodes).
THEOREM ThrottlingIsInformed == StreamSpec => []FullnessReported
  <1>1. StreamInit => FullnessReported
    <2> SUFFICES ASSUME StreamInit, NEW s \in Streams
                 PROVE  last_reported_full[s] = IsFull(s)
      BY DEF FullnessReported
    <2>1. Len(queue[s]) = 0 /\ last_reported_full[s] = FALSE
      BY DEF StreamInit
    <2>2. max_queue_size[s] \in {-1} \cup (Nat \ {0})
      BY StreamAssumption DEF StreamInit
    <2>3. ~Full(0, max_queue_size[s])
      <3>1. max_queue_size[s] # -1 => max_queue_size[s] > 0
        BY <2>2
      <3> QED
        BY <3>1, <2>2 DEF Full
    <2>4. IsFull(s) = FALSE
      BY <2>1, <2>3 DEF IsFull, Full
    <2> QED
      BY <2>1, <2>4
  <1>2. StreamInv /\ FullnessReported /\ [StreamNext]_streamVars => FullnessReported'
    <2>1. ASSUME FullnessReported, UNCHANGED streamVars PROVE FullnessReported'
      BY <2>1 DEF FullnessReported, IsFull, streamVars, queueVars, sizeVars
    <2> QED
      BY <2>1, ReportStep
  <1> QED
    BY <1>1, <1>2, StreamInvHolds, PTL DEF StreamSpec

\* A stream between its producers, its node and the throttling logic, as a
\* whole: typed, its packets in order and below the bound, special timestamps
\* alone, its fullness reported (InputStreamManager, input_stream_manager.cc).
THEOREM StreamIsSound == StreamSpec => []StreamQueueSound
  <1>1. StreamInv => StreamTypeOK
    BY DEF StreamInv
  <1>2. StreamTypeOK /\ QueueInOrder /\ SpecialPacketsAlone /\ FullnessReported
          => StreamQueueSound
    BY DEF StreamQueueSound
  <1> QED
    BY <1>1, <1>2, StreamInvHolds, PacketsInOrder, SpecialPacketIsAlone,
       ThrottlingIsInformed, PTL
=============================================================================
