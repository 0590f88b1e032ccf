------------------------------ MODULE MCShared ------------------------------
(***************************************************************************)
(* What threads share while a graph runs: the scheduler's queues, the      *)
(* buffers and packets the data lives in, the profiler's logs, and the     *)
(* input policies and calculators data passes through.  They do not call   *)
(* each other, so a behaviour is one of a single part, chosen at the       *)
(* start, while the others stay in their initial states.                   *)
(***************************************************************************)
EXTENDS SchedulerQueue, TextureBuffers, Tensor, GpuBuffers, Packets, TraceLog,
        TraceBuilder, StreamLatency, InputPolicies, CoreCalculators, TLC

CONSTANT Parts   \* the parts to check
VARIABLE part

sharedVars == <<part, queueVars, textureVars, tensorVars, bufferVars, packetVars,
                traceVars, builderTraceVars, latencyVars, policyVars, coreVars>>

-----------------------------------------------------------------------------
\* Two queues: the default queue q1 has a source and a non-source node to run
\* and q2 a node to open, so that items of every kind compete.
CONSTANTS q1, q2, src, sink, opening
CONSTANTS w2,      \* a thread that writes traces
          v1, x2   \* a thread without a device, and a tensor

MCInfo ==
  [i \in {src, sink, opening} |->
     [open   |-> i = opening,
      source |-> i = src,
      layer  |-> 0,
      order  |-> 0,
      id     |-> IF i = src THEN 0 ELSE IF i = sink THEN 1 ELSE 2,
      queue  |-> IF i = opening THEN q2 ELSE q1]]

\* Textures are registered for CPU frames, and converted either way.
Registered(from, to) == [from |-> from, to |-> to]
MCRegistrations == <<Registered("", "texture"), Registered("", "frame"),
                     Registered("texture", "frame"), Registered("frame", "texture")>>

MCDataType == [o \in Objects |-> "T"]

\* A detector that feeds a tracker whose tracks come back to it.
MCLatencyInputs == "detect" :> {"in"} @@ "track" :> {"boxes", "tracks"}
MCBackEdges     == "detect" :> {} @@ "track" :> {"tracks"}
MCLatencyOutput == "detect" :> "boxes" @@ "track" :> "tracks"

\* A source of two streams, and a node that reads one of them.
MCTracedNodes == <<[ins |-> <<>>, outs |-> <<"a", "b">>], [ins |-> <<"b">>, outs |-> <<"c">>]>>

-----------------------------------------------------------------------------
\* Every input policy, with the sync sets it makes of three streams.
Policy(kind, bounds, sets) == [kind |-> kind, bounds |-> bounds, sets |-> sets]
Together3 == <<{1, 2, 3}>>
MCPolicies ==
    {Policy(k, FALSE, Together3) : k \in {"default", "fixed", "fixed_min"}}
      \cup {Policy("default", TRUE, Together3), Policy("sync_set", FALSE, <<{1, 3}, {2}>>)}
      \cup {Policy("immediate", b, <<{1}, {2}, {3}>>) : b \in BOOLEAN}
      \cup {Policy(k, FALSE, <<>>) : k \in {"barrier", "early_close", "mux", "align"}}
MCSelected == [t \in {3, 4, 5, 10} |-> IF t = 3 THEN 1 ELSE 2]

\* Counting sources: one that ends, one in batches, one in steps of two, one
\* that fails, and one without a limit.
CountingSource(max, errors, batch, initial, increment) ==
    [max |-> max, errors |-> errors, batch |-> batch, initial |-> initial,
     increment |-> increment, failOpen |-> FALSE]
MCSources == {CountingSource(3, -1, 1, 0, 1), CountingSource(1, -1, 3, 0, 1),
              CountingSource(2, -1, 1, 0, 2), CountingSource(3, 2, 1, 1, 1),
              CountingSource(-1, -1, 1, 0, 1)}
AllowGate == [by |-> "allow", decision |-> TRUE, emptyAllows |-> FALSE]
MCGates == {AllowGate,
            [by |-> "disallow", decision |-> TRUE, emptyAllows |-> TRUE],
            [by |-> "side packet", decision |-> FALSE, emptyAllows |-> FALSE],
            [by |-> "option", decision |-> TRUE, emptyAllows |-> FALSE]}
WaitingForNone == [waitForAll |-> FALSE, boundsBefore |-> FALSE]
MCCloners == {WaitingForNone,
              [waitForAll |-> TRUE, boundsBefore |-> FALSE],
              [waitForAll |-> TRUE, boundsBefore |-> TRUE]}

-----------------------------------------------------------------------------
Chosen(name, choice, fixed) == part = name \/ choice = fixed

SharedInit ==
    /\ part \in Parts
    /\ QueueInit /\ TextureInit /\ BufferInit /\ PacketInit /\ TraceInit
    /\ LatencyInit /\ Chosen("latency", use_packet_timestamp, FALSE)
    /\ TraceBuilderInit /\ Chosen("traces", instant, FALSE)
    /\ TensorInit /\ Chosen("tensor", use_ahwb, FALSE)
    /\ PolicyInit /\ Chosen("policies", policy, Policy("default", FALSE, Together3))
    \* The gates run with one packet cloner, and the cloners with one gate.
    /\ CoreInit /\ (options.gate = AllowGate \/ options.cloner = WaitingForNone)
       /\ Chosen("core", options, [source |-> CountingSource(3, -1, 1, 0, 1),
                                   gate |-> AllowGate, cloner |-> WaitingForNone])

QueuePart   == part = "queue" /\ QueueNext
               /\ UNCHANGED <<part, textureVars, tensorVars, bufferVars,
                              packetVars, traceVars, latencyVars, policyVars, coreVars, builderTraceVars>>
TexturePart == part = "texture" /\ TextureNext
               /\ UNCHANGED <<part, queueVars, tensorVars, bufferVars,
                              packetVars, traceVars, latencyVars, policyVars, coreVars, builderTraceVars>>
\* At most two uses of hardware buffers go on at a time, and one of the tensors has
\* no views with them: its values come and go by assignment.  A view whose values a
\* write in between cannot take away is had at once: waiting for it changes nothing.
\* One thread has a device; both have a GL context.
TensorPart  == part = "tensor" /\ TensorNext
               /\ MapThenSumSet(LAMBDA x : Cardinality(using'[x]), Tensors)
                    + MapThenSumSet(LAMBDA e : Cardinality(e.uses), toRelease') <= 2
               /\ (\A t \in TensorThreads :
                      view[t].pc = "begun" /\ (use_ahwb \/ view[t].res = "cpu") => view'[t].pc = "read")
               /\ (use_ahwb => \A t \in TensorThreads : view'[t].tensor # x2)
               /\ view'[v1].res # "ahwb"
               /\ UNCHANGED <<part, queueVars, textureVars, bufferVars,
                              packetVars, traceVars, latencyVars, policyVars, coreVars, builderTraceVars>>
BufferPart  == part = "buffers" /\ BufferNext
               /\ UNCHANGED <<part, queueVars, textureVars, tensorVars,
                              packetVars, traceVars, latencyVars, policyVars, coreVars, builderTraceVars>>
PacketPart  == part = "packets" /\ PacketNext
               /\ UNCHANGED <<part, queueVars, textureVars, tensorVars, bufferVars,
                              traceVars, latencyVars, policyVars, coreVars, builderTraceVars>>
\* One of the threads is not caught by a Resume(), and has nothing left to log
\* when Stop() is called.
TracePart   == part = "trace" /\ TraceNext
               /\ writer'[w2].pc \notin {"late", "guessed"}
               /\ (stops' > 0 => writer'[w2] = IdleWriter)
               /\ UNCHANGED <<part, queueVars, textureVars, tensorVars, bufferVars,
                              packetVars, latencyVars, policyVars, coreVars, builderTraceVars>>
\* A profile is captured only where packets are timed by the clock.
LatencyPart == part = "latency" /\ LatencyNext
               /\ (use_packet_timestamp => ~copied')
               /\ UNCHANGED <<part, queueVars, textureVars, tensorVars, bufferVars,
                              packetVars, traceVars, policyVars, coreVars, builderTraceVars>>
\* The immediate policy treats its streams alike: two of them carry packets.
PolicyPart  == part = "policies" /\ PolicyNext
               /\ (policy.kind = "immediate" => accepted'[3] = <<>>)
               /\ UNCHANGED <<part, queueVars, textureVars, tensorVars, bufferVars,
                              packetVars, traceVars, latencyVars, coreVars, builderTraceVars>>
CorePart    == part = "core" /\ CoreNext
               /\ UNCHANGED <<part, queueVars, textureVars, tensorVars, bufferVars,
                              packetVars, traceVars, latencyVars, policyVars, builderTraceVars>>
\* The scheduler has something to tell of one node, once.
BuilderPart == part = "traces" /\ TraceBuilderNext
               /\ (\A i, j \in DOMAIN logged' : logged'[i].type = "NOT_READY" =>
                      logged'[i].node = 1 /\ (logged'[j].type = "NOT_READY" => i = j))
               /\ UNCHANGED <<part, queueVars, textureVars, tensorVars, bufferVars, packetVars, traceVars,
                              latencyVars, policyVars, coreVars>>

SharedNext ==
    \/ QueuePart \/ TexturePart \/ TensorPart \/ BufferPart \/ PacketPart
    \/ TracePart \/ BuilderPart \/ LatencyPart \/ PolicyPart \/ CorePart

SharedSpec == SharedInit /\ [][SharedNext]_sharedVars

-----------------------------------------------------------------------------
\* What the profiler reports, of latencies and in traces, is what happened.
ProfilesSound == LatencyFromSource /\ TracesTell
=============================================================================
