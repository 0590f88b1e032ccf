---------------------------- MODULE GraphBuilder ----------------------------
(***************************************************************************)
(* The builder by which a program puts a graph together: ports come into   *)
(* being when they are first named, are connected one by one, and are      *)
(* turned into the entries "TAG:index:name" of a CalculatorGraphConfig.    *)
(*   src/mediapipe/framework/api2/builder.h                                *)
(*                                                                         *)
(* A port is <<node, side, tag, index>>; node 0 is the boundary of the     *)
(* graph, whose sources are the graph's inputs.  A name is a sequence, <<>> *)
(* before a source has one.                                                *)
(***************************************************************************)
EXTENDS Integers, Sequences, FiniteSets, SequencesExt

CONSTANTS PortKeys,   \* ports that are named: <<side, tag, index>>
          BuilderTags,   \* all tags in the order of the map, <<"", ...>>
          MaxNodes,   \* bound: nodes and packet generators
          MaxBuilderPorts,   \* bound: sources, and destinations
          MaxConfigs, \* bound: calls of GetConfig
          UserNames   \* names a program gives

VARIABLES kinds,      \* the nodes_ and packet_gens_ in the order they are added
          sourcesOf,    \* source port -> name
          dests,      \* destination port -> source port, or Unconnected
          builtConfig,\* what GetConfig has just returned
          configs     \* calls of GetConfig

builderVars == <<kinds, sourcesOf, dests, builtConfig, configs>>

Unconnected == <<>>
NotBuilt == <<>>
NodeIds == 0 .. Len(kinds)

BuilderInit ==
  /\ kinds = <<>> /\ sourcesOf = <<>> /\ dests = <<>> /\ builtConfig = NotBuilt /\ configs = 0

AddNode(kind) ==
  /\ Len(kinds) < MaxNodes /\ kinds' = Append(kinds, kind)
  /\ builtConfig' = NotBuilt /\ UNCHANGED <<sourcesOf, dests, configs>>

\* GetWithAutoGrow, for index 0 when a port is named and for the index asked for;
\* the vector's entries between them stay null.
Grown(ports, n, key, new) ==
  LET named == {<<n, key[1], key[2], 0>>, <<n, key[1], key[2], key[3]>>} IN
  [p \in DOMAIN ports \cup named |-> IF p \in DOMAIN ports THEN ports[p] ELSE new]

\* A packet generator has side packets only.
SideOnly(n, key) == n # 0 /\ kinds[n] = "generator" => key[1]

\* Out, SideOut of a node or In, SideIn of the graph.
Out(n, key) ==
  /\ n \in NodeIds /\ SideOnly(n, key)
  /\ sourcesOf' = Grown(sourcesOf, n, key, <<>>) /\ Cardinality(DOMAIN sourcesOf') <= MaxBuilderPorts
  /\ builtConfig' = NotBuilt /\ UNCHANGED <<kinds, dests, configs>>

In(n, key) ==
  /\ n \in NodeIds /\ SideOnly(n, key)
  /\ dests' = Grown(dests, n, key, Unconnected) /\ Cardinality(DOMAIN dests') <= MaxBuilderPorts
  /\ builtConfig' = NotBuilt /\ UNCHANGED <<kinds, sourcesOf, configs>>

\* A destination has at most one source: the code checks it.
ConnectTo(s, d) ==
  /\ s \in DOMAIN sourcesOf /\ d \in DOMAIN dests /\ s[2] = d[2] /\ dests[d] = Unconnected
  /\ dests' = [dests EXCEPT ![d] = s]
  /\ builtConfig' = NotBuilt /\ UNCHANGED <<kinds, sourcesOf, configs>>

SetName(s, name) ==
  /\ s \in DOMAIN sourcesOf /\ sourcesOf' = [sourcesOf EXCEPT ![s] = name]
  /\ builtConfig' = NotBuilt /\ UNCHANGED <<kinds, dests, configs>>

-----------------------------------------------------------------------------
TagRank(tag) == CHOOSE i \in DOMAIN BuilderTags : BuilderTags[i] = tag

\* Visit: by tag, then by index.
Precedes(p, q) == TagRank(p[3]) < TagRank(q[3]) \/ (p[3] = q[3] /\ p[4] < q[4])
Visit(ports, n, side) == SetToSortSeq({p \in DOMAIN ports : p[1] = n /\ p[2] = side}, Precedes)

\* The boundary, the nodes and the packet generators.
NodesInOrder ==
  LET OfKind(kind) == SelectSeq([i \in DOMAIN kinds |-> i], LAMBDA i : kinds[i] = kind) IN
  <<0>> \o OfKind("node") \o OfKind("generator")

\* FixUnnamedConnections: one count for streams and side packets, from 0 each time.
FixUnnamedConnections(ports) ==
  LET order == FlattenSeq([i \in DOMAIN NodesInOrder |->
                 Visit(ports, NodesInOrder[i], FALSE) \o Visit(ports, NodesInOrder[i], TRUE)])
      unnamed == SelectSeq(order, LAMBDA p : ports[p] = <<>>)
      Count(p) == (CHOOSE i \in DOMAIN unnamed : unnamed[i] = p) - 1 IN
  [p \in DOMAIN ports |-> IF ports[p] # <<>> THEN ports[p]
                          ELSE <<IF p[2] THEN "__side_packet_" ELSE "__stream_", Count(p)>>]

\* Seeded fault: the index is left out.
TagOnly(p, count) == <<p[3], -1>>

\* What is written before the name: no index without a tag, or for an only entry.
TaggedName(p, count) == <<p[3], IF p[3] = "" \/ count <= 1 THEN -1 ELSE p[4]>>

\* The entries of a node for its sources or destinations.
UpdateNodeConfig(ports, n, side, names) ==
  LET visited == Visit(ports, n, side)
      Count(p) == Cardinality({q \in DOMAIN ports : q[1] = n /\ q[2] = side /\ q[3] = p[3]}) IN
  [i \in DOMAIN visited |-> [port |-> TaggedName(visited[i], Count(visited[i])), name |-> names[visited[i]]]]

\* Every entry of a vector exists and every destination has a source: otherwise
\* the program stops.
NoHoles(ports) == \A p \in DOMAIN ports : \A i \in 0 .. p[4] : <<p[1], p[2], p[3], i>> \in DOMAIN ports

GetConfig ==
  /\ configs < MaxConfigs /\ configs' = configs + 1
  /\ NoHoles(sourcesOf) /\ NoHoles(dests) /\ \A d \in DOMAIN dests : dests[d] # Unconnected
  /\ sourcesOf' = FixUnnamedConnections(sourcesOf)
  /\ LET used == [d \in DOMAIN dests |-> sourcesOf'[dests[d]]] IN
     builtConfig' = [out |-> [n \in NodeIds, side \in BOOLEAN |-> UpdateNodeConfig(sourcesOf, n, side, sourcesOf')],
                     in |-> [n \in NodeIds, side \in BOOLEAN |-> UpdateNodeConfig(dests, n, side, used)]]
  /\ UNCHANGED <<kinds, dests>>

BuilderNext ==
  \/ \E kind \in {"node", "generator"} : AddNode(kind)
  \/ \E n \in NodeIds, key \in PortKeys : Out(n, key) \/ In(n, key)
  \/ \E s \in DOMAIN sourcesOf, d \in DOMAIN dests : ConnectTo(s, d)
  \/ \E s \in DOMAIN sourcesOf, name \in UserNames : SetName(s, name)
  \/ GetConfig
-----------------------------------------------------------------------------
\* The port an entry of a list stands for, as a TagMap reads it.
PortOf(entries, i) ==
  LET port == entries[i].port
      before == {j \in 1 .. i - 1 : entries[j].port[1] = ""} IN
  <<port[1], IF port[1] = "" THEN Cardinality(before) ELSE IF port[2] = -1 THEN 0 ELSE port[2]>>

\* The ports of a side that a list of entries names.
Naming(lists, side, name) ==
  {<<n, side, PortOf(lists[n, side], i)[1], PortOf(lists[n, side], i)[2]>> :
    <<n, i>> \in {<<m, j>> \in NodeIds \X (1 .. MaxBuilderPorts) :
                    j \in DOMAIN lists[m, side] /\ lists[m, side][j].name = name}}

\* The program gave no name twice.
NamesDiffer ==
  \A s, t \in DOMAIN sourcesOf : s # t /\ s[2] = t[2] /\ sourcesOf[s] \in UserNames => sourcesOf[s] # sourcesOf[t]

(***************************************************************************)
(* The config connects what the program connected: each destination's      *)
(* entry has the name of the entry of its source and of no other, although *)
(* the ports were named in any order, some have no tag and some an index,  *)
(* and most sources get a made up name.                                    *)
(***************************************************************************)
BuiltAsConnected ==
  builtConfig # NotBuilt /\ NamesDiffer =>
    \A d \in DOMAIN dests :
      {Naming(builtConfig.out, d[2], name) :
         name \in {sourcesOf[s] : s \in {t \in DOMAIN sourcesOf : d \in Naming(builtConfig.in, d[2], sourcesOf[t])}}} = {{dests[d]}}
=============================================================================
