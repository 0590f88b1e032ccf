---------------------------- MODULE GraphOpening ----------------------------
(***************************************************************************)
(* How a CalculatorGraph is put together and how its nodes come to be      *)
(* opened.  Initialize lays the streams of all nodes out in flat arrays,   *)
(* gives each node its part of them and registers the input streams as     *)
(* mirrors of the streams they read.  A run opens a node once every header *)
(* and every side packet it waits for has been announced; opening it       *)
(* announces its own.  Several threads open nodes at once.                 *)
(*                                                                         *)
(* A graph is given by a record: inputs, the graph input streams; given,   *)
(* the side packets given to the run; headers, the streams whose producer  *)
(* sets a header; maxQueue and the override of the inputs; and nodes, each *)
(* with ins ([name, back]), outs, sideIns, sideOuts and its buffer hint.   *)
(***************************************************************************)
EXTENDS Naturals, Integers, Sequences, SequencesExt, FiniteSets

CONSTANTS
    OpenGraphs,     \* the graphs
    Openers,        \* threads of the executors
    DefaultQueue,   \* the queue size when the graph gives none
    MaxOpenings         \* bound: runs of the graph

App == "app"    \* the thread that calls StartRun

VARIABLES
    wiring,     \* the graph
    phase,      \* Initialize and StartRun, in order
    mirrors,    \* per output stream, by its flat index: the <<node, id>>s
    sideMirrors,\* per output side packet, by its flat index
    openings,       \* runs begun
    state,      \* per node: status_, the counts and the flags of this run
    header,     \* per <<node, id>>: the header, 0 for an empty one
    side,       \* per <<node, id>>: the side packet, 0 when missing
    limit,      \* per <<node, id>>: the maximum queue size
    queued,     \* per node: how often it is queued to be opened
    opener,     \* per thread [node, todo, then]: what it has yet to announce
    seen        \* per node: the headers and the side packets its Open found

openingVars == <<wiring, phase, mirrors, sideMirrors, openings, state, header, side,
                 limit, queued, opener, seen>>
wiredVars == <<mirrors, sideMirrors>>

Nodes == DOMAIN wiring.nodes
Ins(n) == wiring.nodes[n].ins
SideIns(n) == wiring.nodes[n].sideIns
InPorts == UNION {{<<n, i>> : i \in DOMAIN Ins(n)} : n \in Nodes}
SideInPorts == UNION {{<<n, i>> : i \in DOMAIN SideIns(n)} : n \in Nodes}

Stopped == [status |-> "uninitialized", unset |-> 0, missing |-> 0, headersReady |-> FALSE,
            sidesReady |-> FALSE, headersCalled |-> FALSE, sidesCalled |-> FALSE]
Nothing == <<"none", 0>>
Resting == [node |-> 0, todo |-> <<>>, then |-> Nothing]

OpeningOf(g) ==
    /\ wiring = g
    /\ phase = "streams"
    /\ mirrors = <<>> /\ sideMirrors = <<>>
    /\ openings = 0
    /\ state = [n \in Nodes |-> Stopped]
    /\ header = [p \in InPorts |-> 0] /\ side = [p \in SideInPorts |-> 0]
    /\ limit = [p \in InPorts |-> 0]
    /\ queued = [n \in Nodes |-> 0]
    /\ opener = [t \in Openers \cup {App} |-> Resting]
    /\ seen = [n \in Nodes |-> <<>>]
OpeningInit == \E g \in OpenGraphs : OpeningOf(g)

-----------------------------------------------------------------------------
\* The flat arrays of the validated graph: OutputStreamInfos begins with the
\* graph input streams, then come the streams of every node.
OutputStreamInfos == FlattenSeq(<<wiring.inputs>> \o [n \in Nodes |-> wiring.nodes[n].outs])
InputStreamInfos == FlattenSeq([n \in Nodes |-> [i \in DOMAIN Ins(n) |-> Ins(n)[i].name]])
OutputSideInfos == FlattenSeq([n \in Nodes |-> wiring.nodes[n].sideOuts])
InputSideInfos == FlattenSeq([n \in Nodes |-> SideIns(n)])

\* The index of a name, and the EdgeInfo's upstream: -1 when nothing produces it.
Upstream(infos, name) ==
    IF name \in ToSet(infos) THEN CHOOSE o \in DOMAIN infos : infos[o] = name ELSE -1

LenBefore(n, lens) == FoldLeft(+, 0, SubSeq(lens, 1, n - 1))

\* NodeTypeInfo::InputStreamBaseIndex and OutputStreamBaseIndex.
InputStreamBaseIndex(n) == LenBefore(n, [k \in Nodes |-> Len(Ins(k))])

OutputStreamBaseIndex(n) ==
    Len(wiring.inputs) + LenBefore(n, [k \in Nodes |-> Len(wiring.nodes[k].outs)])
InputSidePacketBaseIndex(n) == LenBefore(n, [k \in Nodes |-> Len(SideIns(k))])
OutputSidePacketBaseIndex(n) == LenBefore(n, [k \in Nodes |-> Len(wiring.nodes[k].sideOuts)])

\* InitializeStreams: the managers, with no mirrors yet.
InitializeStreams ==
    /\ phase = "streams"
    /\ mirrors' = [o \in DOMAIN OutputStreamInfos |-> <<>>]
    /\ sideMirrors' = [o \in DOMAIN OutputSideInfos |-> <<>>]
    /\ phase' = "nodes"
    /\ UNCHANGED <<wiring, openings, state, header, side, limit, queued, opener, seen>>

\* AddMirror of the node's inputs in turn.  A side packet nothing produces is
\* given to the run and has no mirror.
AddMirrors(lists, n, count, base, infos, outs) ==
    FoldLeft(LAMBDA acc, i :
               LET o == Upstream(outs, infos[base + i])
               IN  IF o < 0 THEN acc ELSE [acc EXCEPT ![o] = Append(@, <<n, i>>)],
             lists, [i \in 1 .. count |-> i])

\* CalculatorNode::Initialize: the node's part of the flat arrays, the mirrors of
\* its input side packets, then those of its input streams.
InitializeNode(lists, n) ==
    [sides |-> AddMirrors(lists.sides, n, Len(SideIns(n)), InputSidePacketBaseIndex(n),
                          InputSideInfos, OutputSideInfos),
     streams |-> AddMirrors(lists.streams, n, Len(Ins(n)), InputStreamBaseIndex(n),
                            InputStreamInfos, OutputStreamInfos)]

\* InitializeCalculatorNodes: the nodes in order.
InitializeCalculatorNodes ==
    LET lists == FoldLeft(InitializeNode, [streams |-> mirrors, sides |-> sideMirrors],
                          [n \in Nodes |-> n])
    IN  /\ phase = "nodes"
        /\ mirrors' = lists.streams
        /\ sideMirrors' = lists.sides
        /\ phase' = "initialized"
        /\ UNCHANGED <<wiring, openings, state, header, side, limit, queued, opener, seen>>

-----------------------------------------------------------------------------
\* The headers InputStreamHandler::PrepareForRun counts.
UnsetHeaderCount(n) == Cardinality({i \in DOMAIN Ins(n) : ~Ins(n)[i].back})

MissingInputSidePacketCount(n) ==
    Cardinality({i \in DOMAIN SideIns(n) : SideIns(n)[i] \notin wiring.given})

\* max_queue_size_: the graph's, or the default, and no less than a node's hint.
MaxQueueSize ==
    LET config == IF wiring.maxQueue = 0 THEN DefaultQueue ELSE wiring.maxQueue
        sizes == {config} \cup {wiring.nodes[n].hint : n \in Nodes}
    IN  CHOOSE s \in sizes : \A r \in sizes : r <= s

\* SetInputStreamMaxQueueSize of a graph input stream reaches its mirrors.
Overridden == UNION {ToSet(mirrors[o]) : o \in DOMAIN wiring.inputs}
LimitOf(p) == IF wiring.override > 0 /\ p \in Overridden THEN wiring.override ELSE MaxQueueSize

\* What the producer of a stream announces in this run: its header, or none.
HeaderOf(name) == IF name \in wiring.headers THEN openings' ELSE 0
\* PropagateHeader of the output streams from .. to, one mirror after another.
HeaderEvents(from, to) ==
    FlattenSeq([k \in 1 .. to - from + 1 |->
        [j \in DOMAIN mirrors[from + k - 1] |->
            [kind |-> "header", port |-> mirrors[from + k - 1][j],
             value |-> HeaderOf(OutputStreamInfos[from + k - 1])]]])
\* OutputSidePacketImpl::Set of the side packets from .. to.
SideEvents(from, to) ==
    FlattenSeq([k \in 1 .. to - from + 1 |->
        [j \in DOMAIN sideMirrors[from + k - 1] |->
            [kind |-> "side", port |-> sideMirrors[from + k - 1][j], value |-> openings']]])

\* CalculatorNode::PrepareForRun.
Prepared(n) == [Stopped EXCEPT !.status = "prepared",
                               !.unset = UnsetHeaderCount(n),
                               !.missing = MissingInputSidePacketCount(n),
                               !.headersReady = UnsetHeaderCount(n) = 0,
                               !.sidesReady = MissingInputSidePacketCount(n) = 0]
ReadyForOpen(s) == s.headersReady /\ s.sidesReady

\* CalculatorGraph::PrepareForRun: the nodes, the queue sizes, the nodes that
\* are ready at once; then this thread announces the headers of the graph input
\* streams, which may make more of them ready.
PrepareForRun ==
    /\ phase = "initialized" /\ openings < MaxOpenings
    /\ openings' = openings + 1
    /\ state' = [n \in Nodes |-> Prepared(n)]
    /\ header' = [p \in InPorts |-> 0]
    /\ side' = [p \in SideInPorts |-> IF SideIns(p[1])[p[2]] \in wiring.given THEN openings' ELSE 0]
    /\ limit' = [p \in InPorts |-> LimitOf(p)]
    /\ queued' = [n \in Nodes |-> IF ReadyForOpen(Prepared(n)) THEN 1 ELSE 0]
    /\ opener' = [opener EXCEPT ![App].todo = HeaderEvents(1, Len(wiring.inputs))]
    /\ seen' = [n \in Nodes |-> <<>>]
    /\ phase' = "starting"
    /\ UNCHANGED <<wiring, wiredVars>>

\* Scheduler::Start, when StartRun is through with the headers.
StartScheduler ==
    /\ phase = "starting" /\ opener[App].todo = <<>> /\ opener[App].then = Nothing
    /\ phase' = "running"
    /\ UNCHANGED <<wiring, wiredVars, openings, state, header, side, limit, queued, opener, seen>>

-----------------------------------------------------------------------------
\* The first mirror on the list of the thread gets its header: InputStreamHandler::
\* SetHeader, which calls headers_ready_callback_ for the last one it waits for.
SetHeader(t) ==
    /\ opener[t].then = Nothing /\ opener[t].todo # <<>>
    /\ LET e == Head(opener[t].todo)
           n == e.port[1]
           counts == ~Ins(n)[e.port[2]].back
       IN  /\ e.kind = "header"
           /\ header' = [header EXCEPT ![e.port] = e.value]
           /\ state' = IF counts THEN [state EXCEPT ![n].unset = @ - 1] ELSE state
           /\ opener' = [opener EXCEPT ![t].todo = Tail(@), ![t].then =
                           IF counts /\ state[n].unset = 1 THEN <<"headers", n>> ELSE Nothing]
    /\ UNCHANGED <<wiring, phase, wiredVars, openings, side, limit, queued, seen>>

\* Or its side packet: InputSidePacketHandler::SetInternal.
SetSidePacket(t) ==
    /\ opener[t].then = Nothing /\ opener[t].todo # <<>>
    /\ LET e == Head(opener[t].todo)
           n == e.port[1]
       IN  /\ e.kind = "side"
           /\ IF state[n].missing = 0 \/ side[e.port] # 0
              THEN opener' = [opener EXCEPT ![t].todo = Tail(@)] /\ UNCHANGED <<side, state>>
              ELSE /\ side' = [side EXCEPT ![e.port] = e.value]
                   /\ state' = [state EXCEPT ![n].missing = @ - 1]
                   /\ opener' = [opener EXCEPT ![t].todo = Tail(@), ![t].then =
                                   IF state[n].missing = 1 THEN <<"sides", n>> ELSE Nothing]
    /\ UNCHANGED <<wiring, phase, wiredVars, openings, header, limit, queued, seen>>

\* Seeded fault: the node is scheduled whether or not the other kind is ready.
ReadyAlone(other) == TRUE
\* ready_for_open of InputStreamHeadersReady and of InputSidePacketsReady.
BothReady(other) == other

\* InputStreamHeadersReady, InputSidePacketsReady: under the status lock.
Ready(t) ==
    LET n == opener[t].then[2]
        headers == opener[t].then[1] = "headers"
    IN  /\ opener[t].then # Nothing /\ opener[t].then[1] # "open"
        /\ state' = IF headers
                    THEN [state EXCEPT ![n].headersReady = TRUE, ![n].headersCalled = TRUE]
                    ELSE [state EXCEPT ![n].sidesReady = TRUE, ![n].sidesCalled = TRUE]
        /\ opener' = [opener EXCEPT ![t].then =
                        IF BothReady(IF headers THEN state[n].sidesReady ELSE state[n].headersReady)
                        THEN <<"open", n>> ELSE Nothing]
        /\ UNCHANGED <<wiring, phase, wiredVars, openings, header, side, limit, queued, seen>>

\* ready_for_open_callback_: Scheduler::ScheduleNodeForOpen.
ScheduleNodeForOpen(t) ==
    /\ opener[t].then # Nothing /\ opener[t].then[1] = "open"
    /\ queued' = [queued EXCEPT ![opener[t].then[2]] = @ + 1]
    /\ opener' = [opener EXCEPT ![t].then = Nothing]
    /\ UNCHANGED <<wiring, phase, wiredVars, openings, state, header, side, limit, seen>>

\* A thread takes the node from the queue and opens it.  Open finds the headers
\* and side packets there are, sets the side packets of the node and returns;
\* an Open that fails has set some of them and the node announces no header.
OpenNode(t, n) ==
    LET base == OutputStreamBaseIndex(n)
        sideBase == OutputSidePacketBaseIndex(n)
        sides == SideEvents(sideBase + 1, sideBase + Len(wiring.nodes[n].sideOuts))
        headers == HeaderEvents(base + 1, base + Len(wiring.nodes[n].outs))
    IN  /\ phase = "running" /\ opener[t] = Resting /\ queued[n] > 0
        /\ queued' = [queued EXCEPT ![n] = @ - 1]
        /\ seen' = [seen EXCEPT ![n] = Append(@,
                      [headers |-> [i \in DOMAIN Ins(n) |-> header[<<n, i>>]],
                       sides |-> [i \in DOMAIN SideIns(n) |-> side[<<n, i>>]]])]
        /\ openings' = openings
        /\ \/ /\ opener' = [opener EXCEPT ![t] = [node |-> n, todo |-> sides \o headers,
                                                  then |-> Nothing]]
              /\ UNCHANGED state
           \/ \E k \in 0 .. Len(sides) :
                 /\ opener' = [opener EXCEPT ![t] = [node |-> n, todo |-> SubSeq(sides, 1, k),
                                                     then |-> Nothing]]
                 /\ state' = [state EXCEPT ![n].status = "failed"]
        /\ UNCHANGED <<wiring, phase, wiredVars, header, side, limit>>

\* The node is open when everything is announced.
NodeOpened(t) ==
    LET n == opener[t].node
    IN  /\ n # 0 /\ opener[t].todo = <<>> /\ opener[t].then = Nothing
        /\ state' = IF state[n].status = "failed" THEN state
                    ELSE [state EXCEPT ![n].status = "opened"]
        /\ opener' = [opener EXCEPT ![t] = Resting]
        /\ UNCHANGED <<wiring, phase, wiredVars, openings, header, side, limit, queued, seen>>

Quiet == phase = "running" /\ (\A t \in Openers : opener[t] = Resting) /\ (\A n \in Nodes : queued[n] = 0)

\* CleanupAfterRun, once nothing is left to open: the graph may be run again.
EndRun ==
    /\ Quiet /\ openings < MaxOpenings
    /\ state' = [n \in Nodes |-> Stopped]
    /\ phase' = "initialized"
    /\ UNCHANGED <<wiring, wiredVars, openings, header, side, limit, queued, opener, seen>>

OpeningNext ==
    \/ InitializeStreams \/ InitializeCalculatorNodes
    \/ PrepareForRun \/ StartScheduler \/ EndRun
    \/ \E t \in Openers \cup {App} : \/ SetHeader(t) \/ SetSidePacket(t)
                                     \/ Ready(t) \/ ScheduleNodeForOpen(t)
    \/ \E t \in Openers : NodeOpened(t) \/ \E n \in Nodes : OpenNode(t, n)

OpeningSpec == OpeningInit /\ [][OpeningNext]_openingVars

-----------------------------------------------------------------------------
\* The graph that is put together is the graph that was written: a stream is
\* mirrored by exactly the input streams of its name, each of them once, the
\* part of the flat array a node gets holds the streams it names, and a queue
\* limit set for a graph input stream reaches its readers and nobody else.
WiredAsNamed ==
    phase \notin {"streams", "nodes"} =>
    /\ \A o \in DOMAIN mirrors :
         /\ ToSet(mirrors[o]) = {p \in InPorts : Ins(p[1])[p[2]].name = OutputStreamInfos[o]}
         /\ IsInjective(mirrors[o])
    /\ \A o \in DOMAIN sideMirrors :
         /\ ToSet(sideMirrors[o]) = {p \in SideInPorts : SideIns(p[1])[p[2]] = OutputSideInfos[o]}
         /\ IsInjective(sideMirrors[o])
    /\ \A n \in Nodes : \A i \in DOMAIN wiring.nodes[n].outs :
         OutputStreamInfos[OutputStreamBaseIndex(n) + i] = wiring.nodes[n].outs[i]
    /\ phase = "running" => \A p \in InPorts :
         limit[p] = IF wiring.override > 0 /\ Ins(p[1])[p[2]].name \in ToSet(wiring.inputs)
                    THEN wiring.override ELSE MaxQueueSize

\* A node is opened once in a run, and not before its inputs are there: Open
\* finds the header each producer set in this run, except on back edges, and
\* every side packet of this run.  The CHECKs of the two callbacks hold: each
\* comes once, and to a node that has not been opened.
OpenedOnceWithInputs ==
    /\ \A n \in Nodes :
         /\ Len(seen[n]) + queued[n] <= 1
         /\ \A k \in DOMAIN seen[n] :
              /\ \A i \in DOMAIN Ins(n) : ~Ins(n)[i].back =>
                    seen[n][k].headers[i] = IF Ins(n)[i].name \in wiring.headers THEN openings ELSE 0
              /\ \A i \in DOMAIN SideIns(n) : seen[n][k].sides[i] = openings
    /\ \A t \in Openers \cup {App} : opener[t].then # Nothing =>
         LET s == state[opener[t].then[2]]
         IN  CASE opener[t].then[1] = "headers" -> s.status = "prepared" /\ ~s.headersCalled
               [] opener[t].then[1] = "sides" -> s.status = "prepared" /\ ~s.sidesCalled
               [] opener[t].then[1] = "open" -> s.status = "prepared"

\* Every node is opened, whatever the order: when nothing is left to do, only a
\* failed Open has kept a node from it.  Back edges do not close the circle.
AllNodesOpen ==
    Quiet /\ (\A n \in Nodes : state[n].status # "failed")
        => \A n \in Nodes : state[n].status = "opened"

\* A graph is wired by name and opened once: whatever order nodes are opened
\* in, each has its headers and side packets and every node gets its turn.
OpeningSound == WiredAsNamed /\ OpenedOnceWithInputs /\ AllNodesOpen
=============================================================================
