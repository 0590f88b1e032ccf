--------------------------- MODULE StreamLatency ---------------------------
(***************************************************************************)
(* The timing half of GraphProfiler: every Process() call leaves a sample  *)
(* in its node's histograms and in those of the node's input streams and,  *)
(* for each packet it puts out, when the packet was made and when the      *)
(* source call it goes back to began.                                      *)
(*   src/mediapipe/framework/profiler/graph_profiler.cc                    *)
(*                                                                         *)
(* A node runs one call at a time; ~Scope() records the call before the    *)
(* node hands its packets on (calculator_node.cc ProcessNode).  Packets    *)
(* are timestamps on streams; a histogram keeps its counts and its total.  *)
(***************************************************************************)
EXTENDS Integers, Sequences, FiniteSets, FiniteSetsExt, SequencesExt

CONSTANTS LatencyNodes, GraphInput,  \* the nodes and the stream the application feeds
          InputsOf, BackEdgesOf, OutputOf, \* node -> streams, streams, stream
          RecentCount,               \* kPacketInfoRecentCount, 400 in the code
          IntervalSize, NumIntervals,\* the histograms
          MaxLatencyPackets, MaxLatencyTime \* bounds

LatencyStreams == {GraphInput} \cup {OutputOf[n] : n \in LatencyNodes}
PacketTimes == 1..MaxLatencyPackets

VARIABLES use_packet_timestamp, \* use_packet_timestamp_for_added_packet, of ProfilerConfig
          usec,            \* the profiler clock
          profiling,       \* is_profiling_
          always,          \* profiling has never been paused
          packetsInfo,     \* stream -> list of [ts, production, source], oldest first
          runtime, inputLatency, outputLatency,  \* node -> histogram
          streamLatency,   \* node -> input stream -> histogram
          process,         \* node -> [ts, start], the call that is running
          processed,       \* node -> packets it has processed
          delivered,       \* stream -> packets its consumers may see
          origin,          \* stream -> ts -> when the source call of the packet began,
                           \*   or when the application says that it made the packet
          copied           \* a CaptureProfile call has copied the profiles

histogramVars == <<runtime, inputLatency, outputLatency, streamLatency>>
latencyVars == <<use_packet_timestamp, usec, profiling, always, packetsInfo, histogramVars, process, processed, delivered,
                 origin, copied>>

NoProcess == [ts |-> 0, start |-> 0]

\* InitializeTimeHistogram.
EmptyHistogram == [total |-> 0, count |-> [i \in 0..(NumIntervals - 1) |-> 0]]

\* Initialize: one profile per node, with one of each of its input streams.
LatencyInit ==
  /\ use_packet_timestamp \in BOOLEAN
  /\ usec = 0 /\ profiling = TRUE /\ always = TRUE
  /\ packetsInfo = [s \in LatencyStreams |-> <<>>]
  /\ runtime = [n \in LatencyNodes |-> EmptyHistogram]
  /\ inputLatency = runtime /\ outputLatency = runtime
  /\ streamLatency = [n \in LatencyNodes |-> [s \in InputsOf[n] |-> EmptyHistogram]]
  /\ process = [n \in LatencyNodes |-> NoProcess] /\ processed = [n \in LatencyNodes |-> {}]
  /\ delivered = [s \in LatencyStreams |-> {}]
  /\ origin = [s \in LatencyStreams |-> [t \in PacketTimes |-> -1]]
  /\ copied = FALSE

\* The interval a sample is counted in: the last one takes what is longer.
IntervalOf(time) == Min({time \div IntervalSize, NumIntervals - 1})

\* AddTimeSample: a sample that ends before it starts is refused.
AddTimeSample(h, start, end) ==
  IF end < start THEN h
  ELSE LET i == IntervalOf(end - start) IN
       [total |-> h.total + end - start,
        count |-> [j \in DOMAIN h.count \cup {i} |->
                     IF j = i THEN (IF j \in DOMAIN h.count THEN h.count[j] ELSE 0) + 1 ELSE h.count[j]]]

\* InsertPacketInfo: the list of a stream keeps its most recent entries.
InsertPacketInfo(list, info) ==
  LET longer == Append(list, info)
  IN  SubSeq(longer, Max({1, Len(longer) - RecentCount + 1}), Len(longer))

\* GetPacketInfo: the entries of the packet, the newest of which is used.
GetPacketInfo(s, ts) == SelectSeq(packetsInfo[s], LAMBDA e : e.ts = ts)

\* Seeded fault: the packet counts from its own production.
FromProduction(infos, start) == Min({start} \cup {e.production : e \in infos})

\* AddInputStreamTimeSamples: the earliest source start among the inputs.
MinSourceProcessStart(infos, start) == Min({start} \cup {e.source : e \in infos})

\* The inputs whose infos are looked up: those that hold a packet of the call's
\* timestamp and are no back edges; and those of them that are still known.
Looked(n) == InputsOf[n] \ BackEdgesOf[n]
KnownInputs(n, ts) == {s \in Looked(n) : GetPacketInfo(s, ts) # <<>>}
InfoOf(s, ts) == Last(GetPacketInfo(s, ts))

\* Seeded fault: the ends of a sample are swapped.
AddSwappedSamples(n, ts, start) ==
  [s \in InputsOf[n] |-> IF s \in KnownInputs(n, ts)
                         THEN AddTimeSample(streamLatency[n][s], start, InfoOf(s, ts).production)
                         ELSE streamLatency[n][s]]

\* Each known input leaves a sample of how long its packet waited for the call.
AddInputStreamTimeSamples(n, ts, start) ==
  [s \in InputsOf[n] |-> IF s \in KnownInputs(n, ts)
                         THEN AddTimeSample(streamLatency[n][s], InfoOf(s, ts).production, start)
                         ELSE streamLatency[n][s]]

-----------------------------------------------------------------------------
\* The application adds a packet (LogEvent with node_id -1, then AddPacketInfo).  It
\* was made at its own timestamp, if so configured, which may lie ahead of the clock.
AddPacketInfo(ts) ==
  LET made == IF use_packet_timestamp THEN ts ELSE usec IN
  /\ ts \notin delivered[GraphInput] /\ \A u \in PacketTimes : u < ts => u \in delivered[GraphInput]
  /\ packetsInfo' = IF ~profiling THEN packetsInfo
                    ELSE [packetsInfo EXCEPT ![GraphInput] =
                            InsertPacketInfo(@, [ts |-> ts, production |-> made, source |-> made])]
  /\ origin' = [origin EXCEPT ![GraphInput][ts] = made]
  /\ delivered' = [delivered EXCEPT ![GraphInput] = @ \cup {ts}]
  /\ UNCHANGED <<use_packet_timestamp, usec, profiling, always, histogramVars, process, processed, copied>>

\* Scope(): a node whose inputs have arrived begins a call.  A back edge holds
\* the packet of the call before; a node without inputs is a source.
BeginScope(n, ts) ==
  /\ process[n] = NoProcess /\ ts \notin processed[n] /\ \A u \in PacketTimes : u < ts => u \in processed[n]
  /\ \A s \in Looked(n) : ts \in delivered[s]
  /\ \A s \in BackEdgesOf[n] : ts > 1 => (ts - 1) \in delivered[s]
  /\ process' = [process EXCEPT ![n] = [ts |-> ts, start |-> usec]]
  /\ UNCHANGED <<use_packet_timestamp, usec, profiling, always, packetsInfo, histogramVars, processed, delivered, origin, copied>>

\* ~Scope(): AddProcessSample with AddStreamLatencies, under the reader lock,
\* then the node hands on its packet.
EndScope(n) ==
  LET ts == process[n].ts
      start == process[n].start
      infos == {InfoOf(s, ts) : s \in KnownInputs(n, ts)}
      source == MinSourceProcessStart(infos, start)
      out == OutputOf[n] IN
  /\ process[n] # NoProcess
  /\ IF profiling
     THEN /\ runtime' = [runtime EXCEPT ![n] = AddTimeSample(@, start, usec)]
          /\ inputLatency' = [inputLatency EXCEPT ![n] = AddTimeSample(@, source, start)]
          /\ outputLatency' = [outputLatency EXCEPT ![n] = AddTimeSample(@, source, usec)]
          /\ streamLatency' = [streamLatency EXCEPT ![n] = AddInputStreamTimeSamples(n, ts, start)]
          /\ packetsInfo' = [packetsInfo EXCEPT ![out] =
                               InsertPacketInfo(@, [ts |-> ts, production |-> usec, source |-> source])]
     ELSE UNCHANGED <<histogramVars, packetsInfo>>
  /\ origin' = [origin EXCEPT ![out][ts] =
                  Min({start} \cup {origin[s][ts] : s \in Looked(n)})]
  /\ process' = [process EXCEPT ![n] = NoProcess]
  /\ processed' = [processed EXCEPT ![n] = @ \cup {ts}]
  /\ delivered' = [delivered EXCEPT ![out] = @ \cup {ts}]
  /\ UNCHANGED <<use_packet_timestamp, usec, profiling, always, copied>>

\* CaptureProfile: the profiles are copied under the reader lock ...
CopyProfiles ==
  /\ ~copied /\ copied' = TRUE
  /\ UNCHANGED <<use_packet_timestamp, usec, profiling, always, packetsInfo, histogramVars, process, processed, delivered, origin>>

\* ... and Reset() clears them under the writer lock afterwards.
Reset ==
  /\ copied /\ copied' = FALSE
  /\ runtime' = [n \in LatencyNodes |-> EmptyHistogram]
  /\ inputLatency' = runtime' /\ outputLatency' = runtime'
  /\ streamLatency' = [n \in LatencyNodes |-> [s \in InputsOf[n] |-> EmptyHistogram]]
  /\ UNCHANGED <<use_packet_timestamp, usec, profiling, always, packetsInfo, process, processed, delivered, origin>>

PauseProfiling == /\ profiling' = ~profiling /\ always' = FALSE
                  /\ UNCHANGED <<use_packet_timestamp, usec, packetsInfo, histogramVars, process, processed, delivered, origin, copied>>

LatencyTick == /\ usec < MaxLatencyTime /\ usec' = usec + 1
               /\ UNCHANGED <<use_packet_timestamp, profiling, always, packetsInfo, histogramVars, process, processed, delivered, origin, copied>>

LatencyNext == \/ \E ts \in PacketTimes : AddPacketInfo(ts) \/ \E n \in LatencyNodes : BeginScope(n, ts)
               \/ \E n \in LatencyNodes : EndScope(n)
               \/ CopyProfiles \/ Reset \/ PauseProfiling \/ LatencyTick
-----------------------------------------------------------------------------
(***************************************************************************)
(* A latency is measured from the source: what the profiler believes of a  *)
(* packet's source call is never before the call the packet really goes    *)
(* back to, never after the packet was made, and exact while profiling was *)
(* never paused and no entry was dropped.  So every call leaves a sample   *)
(* in its node's histograms, none of them refused, and the latency of what *)
(* it puts out is that of what it took in and its own runtime.  A packet   *)
(* waits in an input stream no longer than since its source; it leaves a   *)
(* sample there unless its entry is gone or the application has stamped it *)
(* later than the call that takes it, which AddTimeSample refuses: a       *)
(* stream between two nodes refuses none.                                  *)
(***************************************************************************)
Samples(h) == FoldFunction(LAMBDA c, sum : c + sum, 0, h.count)
NothingDropped == always /\ MaxLatencyPackets <= RecentCount

LatencyFromSource ==
  /\ \A s \in LatencyStreams : \A i \in DOMAIN packetsInfo[s] :
       LET e == packetsInfo[s][i] IN
       /\ origin[s][e.ts] <= e.source /\ e.source <= e.production
       /\ NothingDropped => e.source = origin[s][e.ts]
  /\ \A n \in LatencyNodes :
       /\ \A h \in {runtime[n], inputLatency[n], outputLatency[n]} :
            DOMAIN h.count = 0..(NumIntervals - 1) /\ Samples(h) = Samples(runtime[n])
       /\ outputLatency[n].total = inputLatency[n].total + runtime[n].total
       /\ \A s \in InputsOf[n] :
            /\ streamLatency[n][s].total <= inputLatency[n].total
            /\ Samples(streamLatency[n][s]) <= Samples(runtime[n])
            /\ NothingDropped /\ s \in Looked(n) /\ (use_packet_timestamp => s # GraphInput)
                 => Samples(streamLatency[n][s]) = Samples(runtime[n])
=============================================================================
