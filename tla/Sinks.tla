-------------------------------- MODULE Sinks --------------------------------
(***************************************************************************)
(* The sinks and sources of framework/tool (sink.cc, source.cc): adding to *)
(* a graph config the nodes that dump a stream or a side packet, and what  *)
(* those nodes do when the graph runs.                                     *)
(*                                                                         *)
(* A name is a tuple <<base, number>>: GetUnusedNodeName and               *)
(* GetUnusedSidePacketName add a number to the base until the name is      *)
(* free, and number 1 is the base itself.  A base is the tuple of its      *)
(* parts.                                                                  *)
(***************************************************************************)
EXTENDS Integers, Sequences, SequencesExt, FiniteSets

CONSTANTS
    GraphNodes,     \* the graphs sinks are added to: sequences of nodes
    StreamNames,    \* the streams that are dumped
    SideNames,      \* the side packets that are dumped
    MaxSinks,       \* bound: sinks added
    Timelines,      \* what the dumped streams carry: sequences of timestamps
    PostStream,     \* Timestamp::PostStream()
    HeaderRuns      \* [header, sets]: inputs of a CallbackWithHeaderCalculator

VARIABLES
    sinkGraph,     \* the nodes of the graph
    given,      \* the graph's nodes before any sink: those the user wrote
    requested,  \* the sinks asked for: [kind, of, ptr]
    provided,   \* side packets the caller must give to the run: name -> callback
    headerRun   \* one run of a CallbackWithHeaderCalculator

sinkVars == <<sinkGraph, given, requested, provided, headerRun>>

SinkNode(name, calculator, ins, sideIns, outs, sideOuts, pointer) ==
    [name |-> name, calculator |-> calculator, ins |-> ins, sideIns |-> sideIns,
     outs |-> outs, sideOuts |-> sideOuts, pointer |-> pointer]

SinksOf(g, h) ==
    /\ given = g
    /\ sinkGraph = g
    /\ requested = <<>>
    /\ provided = {}
    /\ headerRun = h
SinkInit == \E g \in GraphNodes, h \in HeaderRuns : SinksOf(g, h)

-----------------------------------------------------------------------------
FirstFree(base, used) ==
    <<base, CHOOSE n \in 1 .. Cardinality(used) + 1 :
               /\ <<base, n>> \notin used
               /\ \A k \in 1 .. n - 1 : <<base, k>> \in used>>

\* GetUnusedNodeName: no node has it.
GetUnusedNodeName(nodes, base) == FirstFree(base, {nodes[i].name : i \in DOMAIN nodes})

\* GetUnusedSidePacketName: no node takes it as an input; the side packets that
\* nodes produce are not looked at.
GetUnusedSidePacketName(nodes, base) ==
    FirstFree(base, UNION {{x.name : x \in nodes[i].sideIns} : i \in DOMAIN nodes})

\* AddCallbackCalculator: a node on the stream, called back through a side
\* packet of a free name.
CallbackNode(nodes, stream) ==
    SinkNode(GetUnusedNodeName(nodes, <<"callback_calculator", stream>>), "Callback",
             <<stream>>,
             {[tag |-> "CALLBACK",
               name |-> GetUnusedSidePacketName(nodes, <<stream, "callback">>)]},
             {}, {}, 0)

\* The node that makes the callback, from the pointer in its options.
CallbackPacketNode(nodes, sidePacket, type, ptr) ==
    SinkNode(GetUnusedNodeName(nodes, <<"callback_packet_calculator", sidePacket>>), type,
             <<>>, {}, {}, {sidePacket}, ptr)

\* AddVectorSink and AddPostStreamPacketSink: both nodes.
AddDump(nodes, stream, type, ptr) ==
    LET sink == CallbackNode(nodes, stream)
        side == (CHOOSE x \in sink.sideIns : TRUE).name
        more == Append(nodes, sink)
    IN  Append(more, CallbackPacketNode(more, side, type, ptr))

Ptr == Len(requested) + 1

AddVectorSink(stream) ==
    /\ sinkGraph' = AddDump(sinkGraph, stream, "DumpToVector", Ptr)
    /\ requested' = Append(requested, [kind |-> "vector", of |-> {stream}])
    /\ UNCHANGED <<given, provided, headerRun>>

AddPostStreamPacketSink(stream) ==
    /\ sinkGraph' = AddDump(sinkGraph, stream, "DumpPostStreamPacket", Ptr)
    /\ requested' = Append(requested, [kind |-> "post stream", of |-> {stream}])
    /\ UNCHANGED <<given, provided, headerRun>>

\* AddSidePacketSink: a node that sends the side packet on a stream, at
\* PostStream, and a sink of that stream.  The side packet's name goes through
\* GetUnusedSidePacketName too.
AddSidePacketSink(side) ==
    LET name == GetUnusedNodeName(sinkGraph, <<"converts_side_packet", side>>)
        stream == <<"output_stream", name>>
        nodes == Append(sinkGraph,
                   SinkNode(name, "SidePacketToPacketStream", <<>>,
                            {[tag |-> "", name |-> GetUnusedSidePacketName(sinkGraph, side)]},
                            {stream}, {}, 0))
    IN  /\ sinkGraph' = AddDump(nodes, stream, "DumpPostStreamPacket", Ptr)
        /\ requested' = Append(requested, [kind |-> "side packet", of |-> {<<side, 1>>}])
        /\ UNCHANGED <<given, provided, headerRun>>

\* AddMultiStreamCallback: the side packets with the callback, and with TRUE to
\* observe bounds, are handed to the caller; one of them is there already only
\* if its name is not new.
AddMultiStreamCallback(streams, observe) ==
    LET name == GetUnusedNodeName(sinkGraph, <<"multi_callback", streams>>)
        bounds == GetUnusedSidePacketName(sinkGraph, <<"multi", name, "observe_ts_bounds">>)
        callback == GetUnusedSidePacketName(sinkGraph, <<"multi", name, "callback">>)
        insert == {x \in {[name |-> bounds, value |-> 0] : o \in {observe} \cap {TRUE}}
                         \cup {[name |-> callback, value |-> Ptr]} :
                     \A p \in provided : p.name # x.name}
    IN  /\ sinkGraph' = Append(sinkGraph, SinkNode(name, "Callback", SetToSeq(streams),
               {[tag |-> "VECTOR_CALLBACK", name |-> callback]}
               \cup {[tag |-> "OBSERVE_TIMESTAMP_BOUNDS", name |-> bounds] :
                        o \in {observe} \cap {TRUE}},
               {}, {}, 0))
        /\ provided' = provided \cup insert
        /\ requested' = Append(requested, [kind |-> "multi", of |-> streams])
        /\ UNCHANGED <<given, headerRun>>

SinkNext ==
    /\ Len(requested) < MaxSinks
    /\ \/ \E s \in StreamNames : AddVectorSink(s) \/ AddPostStreamPacketSink(s)
       \/ \E s \in SideNames : AddSidePacketSink(s)
       \/ \E s \in SUBSET StreamNames \ {{}}, o \in BOOLEAN : AddMultiStreamCallback(s, o)

-----------------------------------------------------------------------------
\* The running graph.  DumpToVector keeps every packet, DumpPostStreamPacket
\* the one at PostStream.
Keeps(type, t) == type = "DumpToVector" \/ t = PostStream

\* CallbackCalculator::Process hands each packet of its stream to the callback.
Dumped(type, packets) == SelectSeq(packets, LAMBDA t : Keeps(type, t))

\* SidePacketToPacketStream::Open: the side packet at PostStream, then Close.
SidePacketStream == <<PostStream>>

\* CallbackWithHeaderCalculator::Process: the first packet of HEADER is kept.
KeptHeader(header, set) == IF header = 0 /\ set.header # 0 THEN set.header ELSE header

\* CallbackWithHeaderCalculator::Open takes the header of the INPUT stream if
\* it has one; Process fails for a packet that comes before any header, and one
\* at the same timestamp comes too late.
WithHeader(run) ==
    FoldSeq(LAMBDA set, state :
                IF state.failed \/ (set.input # 0 /\ state.header = 0)
                THEN [state EXCEPT !.failed = TRUE]
                ELSE LET header == KeptHeader(state.header, set)
                     IN  [state EXCEPT !.header = header,
                            !.calls = IF set.input # 0
                                      THEN Append(@, <<set.input, header>>) ELSE @],
            [header |-> run.header, calls |-> <<>>, failed |-> FALSE],
            Reverse(run.sets))

-----------------------------------------------------------------------------
\* What the sink with this pointer gets: through its callback packet, the one
\* callback calculator that takes it, and that one's stream.
Makers(ptr) == {i \in DOMAIN sinkGraph : sinkGraph[i].pointer = ptr}
Takers(side) == {i \in DOMAIN sinkGraph : \E x \in sinkGraph[i].sideIns :
                    x.tag = "CALLBACK" /\ x.name = side}
Reaches(ptr, stream) ==
    \E i \in Makers(ptr), j \in DOMAIN sinkGraph :
        \E side \in sinkGraph[i].sideOuts :
            Takers(side) = {j} /\ sinkGraph[j].ins = <<stream>>

\* A sink of a stream gets exactly the packets of that stream, a PostStream
\* sink the one at PostStream, and a callback of several streams is called with
\* those streams, whatever sinks of the same names were added before it: every
\* node has a name of its own, every callback reaches one node, and the caller
\* is handed every side packet that nothing in the graph produces.  The
\* callback with a header is called for every packet, with the first header,
\* unless a packet came before it.
SinksConnected ==
    /\ \A i, j \in DOMAIN sinkGraph : sinkGraph[i].name = sinkGraph[j].name => i = j
    /\ \A p \in DOMAIN requested :
         CASE requested[p].kind \in {"vector", "post stream"} ->
                 \A s \in requested[p].of : /\ Reaches(p, s)
                    /\ \A packets \in Timelines :
                          LET node == sinkGraph[CHOOSE i \in Makers(p) : TRUE]
                          IN  Dumped(node.calculator, packets) =
                                IF requested[p].kind = "vector" THEN packets
                                ELSE IF PostStream \in ToSet(packets) THEN <<PostStream>> ELSE <<>>
           [] requested[p].kind = "multi" ->
                 \E x \in provided, i \in DOMAIN sinkGraph :
                    /\ x.value = p
                    /\ [tag |-> "VECTOR_CALLBACK", name |-> x.name] \in sinkGraph[i].sideIns
                    /\ ToSet(sinkGraph[i].ins) = requested[p].of
           [] requested[p].kind = "side packet" ->
                 /\ \E i \in DOMAIN sinkGraph : \E s \in sinkGraph[i].outs : Reaches(p, s)
                 /\ Dumped("DumpPostStreamPacket", SidePacketStream) = <<PostStream>>
    /\ LET sent == SelectSeq(headerRun.sets, LAMBDA s : s.input # 0)
           run == WithHeader(headerRun)
       IN  ~run.failed => /\ Len(run.calls) = Len(sent)
                          /\ \A i, j \in DOMAIN run.calls :
                                run.calls[i][1] = sent[i].input /\ run.calls[i][2] = run.calls[j][2]

==============================================================================
