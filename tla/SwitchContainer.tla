-------------------------- MODULE SwitchContainer --------------------------
(***************************************************************************)
(* The graph that a SwitchContainer node stands for: a demux, a mux, the   *)
(* contained nodes between them and a sequencer for the selection, joined  *)
(* by stream and side packet names that are made up here.                  *)
(*   src/mediapipe/framework/tool/switch_container.cc, container_util.cc,  *)
(*   name_util.cc, and Open of the demux and the mux for side packets      *)
(*                                                                         *)
(* An entry "TAG:index:name" is a record; index -1 for an entry without a  *)
(* tag.  A name is a sequence: <<"x">> is "x" and <<"x", 2>> is "x_2", and *)
(* so is a tag: <<1, "A">> is "C1__A".                                     *)
(***************************************************************************)
EXTENDS Integers, Sequences, FiniteSets, SequencesExt

CONSTANTS Containers,     \* container nodes: in, out, sideIn, sideOut, options
          ContainedNodes  \* how many nodes each contains

VARIABLES container, switchConfig, demuxGiven, muxGiven, containerStep

containerVars == <<container, switchConfig, demuxGiven, muxGiven, containerStep>>

Entry(tag, index, name) == [tag |-> tag, index |-> index, name |-> name]
Port(e) == <<e.tag, e.index>>
ContainerChannels == 0 .. ContainedNodes - 1
NoPort == -1                      \* no option, no packet
Select == <<"SELECT">>
Enable == <<"ENABLE">>

-----------------------------------------------------------------------------
\* An unused name similar to a specified name: "name", "name_2", "name_3", ...
UniqueName(name, names) ==
  IF name \notin names THEN name
  ELSE Append(name, CHOOSE k \in 2 .. Cardinality(names) + 2 :
         Append(name, k) \notin names /\ \A j \in 2 .. k - 1 : Append(name, j) \in names)

\* The tags and indices of a list of streams, with names that differ; an entry
\* without a tag takes the next index.
ParseTags(streams) ==
  LET Parse(acc, e) ==
        LET name == UniqueName(e.name, acc.names)
            index == IF e.index = -1 THEN acc.used + 1 ELSE e.index IN
        [names |-> acc.names \cup {name}, used |-> IF e.index = -1 THEN index ELSE acc.used,
         tags |-> acc.tags \cup {Entry(e.tag, index, name)}] IN
  FoldLeft(Parse, [names |-> {}, used |-> -1, tags |-> {}], streams).tags

HasTag(streams, tag) == \E e \in ParseTags(streams) : Port(e) = <<tag, 0>>

EraseTag(tag, streams) == SelectSeq(streams, LAMBDA e : Port(e) # <<tag, 0>>)

\* The tag of a stream of one of the channels.
ChannelTag(tag, channel) == <<channel>> \o tag
ChannelName(name, channel) == <<"c", channel>> \o name

GetContainerNodeStreams(node) ==
  [node EXCEPT !.in = EraseTag(Enable, EraseTag(Select, @)), !.sideIn = EraseTag(Enable, EraseTag(Select, @))]

ValidateContract(node) ==
  /\ node.enable = NoPort \/ node.select = NoPort
  /\ ~(HasTag(node.in, Select) /\ HasTag(node.in, Enable))
  /\ ~(HasTag(node.sideIn, Select) /\ HasTag(node.sideIn, Enable))

-----------------------------------------------------------------------------
\* GetSwitchConfig, part by part: t holds the parsed tags of the container's streams.
Tags(node) == LET s == GetContainerNodeStreams(node) IN
  [in |-> ParseTags(s.in), out |-> ParseTags(s.out), sideIn |-> ParseTags(s.sideIn), sideOut |-> ParseTags(s.sideOut)]

Selectors == {Select, Enable}
Gate(tag) == IF tag = Select THEN <<"gate_select">> ELSE <<"gate_enable">>
Timed(tag) == Append(Gate(tag), "timed")

\* The stream by which the demux and the mux learn of the selection.
SelectStream(node, tag) == Entry(tag, 0, IF HasTag(node.in, tag) THEN Timed(tag) ELSE Gate(tag))

\* A PacketSequencerCalculator that stamps the selection with the ticks' timestamps.
BuildTimestampNode(node, t, tag) ==
  LET ticks == SetToSeq({e \in t.in : node.tick = <<>> \/ \E i \in DOMAIN node.tick : node.tick[i] = Port(e)}) IN
  [in |-> {Entry(<<"INPUT">>, 0, Gate(tag))} \cup {Entry(<<"TICK">>, i - 1, ticks[i].name) : i \in DOMAIN ticks},
   out |-> {Entry(<<"OUTPUT">>, 0, Timed(tag))}, sideIn |-> {}, sideOut |-> {}]

OfChannels(entries) ==
  UNION {{Entry(ChannelTag(e.tag, c), e.index, ChannelName(e.name, c)) : e \in entries} : c \in ContainerChannels}

BuildDemuxNode(node, t) ==
  [in |-> {SelectStream(node, tag) : tag \in Selectors} \cup t.in, out |-> OfChannels(t.in),
   sideIn |-> {Entry(tag, 0, Gate(tag)) : tag \in Selectors} \cup t.sideIn, sideOut |-> OfChannels(t.sideIn)]

BuildMuxNode(node, t) ==
  [in |-> {SelectStream(node, tag) : tag \in Selectors} \cup OfChannels(t.out), out |-> t.out,
   sideIn |-> {Entry(tag, 0, Gate(tag)) : tag \in Selectors} \cup OfChannels(t.sideOut), sideOut |-> t.sideOut]

\* A contained node connected to the demux and the mux.
Subnode(t, c) ==
  LET Own(entries) == {[e EXCEPT !.name = ChannelName(@, c)] : e \in entries} IN
  [in |-> Own(t.in), out |-> Own(t.out), sideIn |-> Own(t.sideIn), sideOut |-> Own(t.sideOut)]

GraphPorts(t) ==
  [in |-> {Entry(tag, 0, Gate(tag)) : tag \in Selectors} \cup t.in, out |-> t.out,
   sideIn |-> {Entry(tag, 0, Gate(tag)) : tag \in Selectors} \cup t.sideIn, sideOut |-> t.sideOut]

GetSwitchConfig ==
  /\ containerStep = "given" /\ containerStep' = IF ValidateContract(container) THEN "built" ELSE "refused"
  /\ switchConfig' = LET t == Tags(container) IN
       [graph |-> GraphPorts(t), demux |-> BuildDemuxNode(container, t), mux |-> BuildMuxNode(container, t),
        sub |-> [c \in ContainerChannels |-> Subnode(t, c)],
        timed |-> [tag \in {s \in Selectors : HasTag(container.in, s)} |-> BuildTimestampNode(container, t, tag)]]
  /\ UNCHANGED <<container, demuxGiven, muxGiven>>

-----------------------------------------------------------------------------
\* The channel at Open: the options, then the side packets, SELECT over ENABLE.
GetChannelIndex(node, previous) ==
  LET Side(tag) == {i \in DOMAIN node.sideIn : Port(node.sideIn[i]) = <<tag, 0>>} IN
  IF Side(Select) # {} THEN node.selectPacket
  ELSE IF Side(Enable) # {} THEN IF node.enablePacket THEN 1 ELSE 0
  ELSE IF node.select # NoPort THEN node.select
  ELSE IF node.enable # NoPort THEN node.enable ELSE previous

\* Within the expanded graph a side packet goes by its name; demuxGiven: what each side output of
\* the demux is given; muxGiven: the contained node and port behind each of the mux's.
EntriesNamed(entries, name) == {e \in entries : e.name = name}

\* The demux relays its side packets to all channels.
OpenDemux ==
  /\ containerStep = "built" /\ containerStep' = "demux"
  /\ demuxGiven' = [e \in switchConfig.demux.sideOut |-> {Port(i) : i \in {j \in switchConfig.demux.sideIn :
                 Tail(e.tag) = j.tag /\ e.index = j.index}}]
  /\ UNCHANGED <<container, switchConfig, muxGiven>>

\* The mux relays side packets only from the channel selected at Open.  A channel
\* that is given nowhere is what the memory holds.
OpenMux ==
  /\ containerStep = "demux" /\ containerStep' = "open"
  /\ \E previous \in ContainerChannels : muxGiven' =
       LET channel == GetChannelIndex(container, previous) IN
       [e \in switchConfig.mux.sideOut |-> UNION {{<<c, Port(o)>> : o \in EntriesNamed(switchConfig.sub[c].sideOut, i.name)} :
          c \in ContainerChannels, i \in {j \in switchConfig.mux.sideIn : j.tag = ChannelTag(e.tag, channel) /\ j.index = e.index}}]
  /\ UNCHANGED <<container, switchConfig, demuxGiven>>

ExpandingContainer(c) ==
  /\ container = c /\ switchConfig = <<>> /\ demuxGiven = <<>> /\ muxGiven = <<>> /\ containerStep = "given"
ContainerInit == \E c \in Containers : ExpandingContainer(c)

ContainerNext == GetSwitchConfig \/ OpenDemux \/ OpenMux
-----------------------------------------------------------------------------
\* The ports that produce a stream of the graph.
StreamProducers(name) ==
  {<<"graph", Port(e)>> : e \in EntriesNamed(switchConfig.graph.in, name)} \cup {<<"demux", Port(e)>> : e \in EntriesNamed(switchConfig.demux.out, name)}
  \cup {<<"mux", Port(e)>> : e \in EntriesNamed(switchConfig.mux.out, name)}
  \cup UNION {{<<"sub", c, Port(e)>> : e \in EntriesNamed(switchConfig.sub[c].out, name)} : c \in ContainerChannels}
  \cup UNION {{<<"timed", tag>> : e \in EntriesNamed(switchConfig.timed[tag].out, name)} : tag \in DOMAIN switchConfig.timed}

Unselected(entries) == {e \in entries : e.tag \notin Selectors}

(***************************************************************************)
(* Each stream of the container reaches the stream of the same tag and     *)
(* index of each contained node and comes back from it, although one outer *)
(* stream may be given under several tags; the selection comes from the    *)
(* sequencer; and the side packets, that are joined by name before any     *)
(* packet flows, reach every contained node, and return from the selected  *)
(* one.                                                                    *)
(***************************************************************************)
WiredThrough ==
  containerStep = "open" =>
    /\ \A e \in Unselected(switchConfig.demux.in) : StreamProducers(e.name) = {<<"graph", Port(e)>>}
    /\ \A c \in ContainerChannels : \A e \in switchConfig.sub[c].in :
         StreamProducers(e.name) = {<<"demux", <<ChannelTag(e.tag, c), e.index>>>>}
    /\ \A e \in {i \in switchConfig.mux.in : i.tag \notin Selectors} :
         StreamProducers(e.name) = {<<"sub", Head(e.tag), <<Tail(e.tag), e.index>>>>}
    /\ \A tag \in DOMAIN switchConfig.timed, node \in {switchConfig.demux, switchConfig.mux} : \A e \in node.in :
         e.tag = tag => StreamProducers(e.name) = {<<"timed", tag>>}
    /\ \A c \in ContainerChannels : \A e \in switchConfig.sub[c].sideIn :
         UNION {demuxGiven[d] : d \in EntriesNamed(switchConfig.demux.sideOut, e.name)} = {Port(e)}
    /\ \A e \in switchConfig.mux.sideOut : \E c \in ContainerChannels : muxGiven[e] = {<<c, Port(e)>>}
    /\ container.select # NoPort /\ ~HasTag(container.sideIn, Enable) /\ ~HasTag(container.sideIn, Select) =>
         \A e \in switchConfig.mux.sideOut : muxGiven[e] = {<<container.select, Port(e)>>}
=============================================================================
