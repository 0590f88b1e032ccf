------------------------ MODULE ValidatedGraphConfig ------------------------
(***************************************************************************)
(* validated_graph_config.cc and packet_type.cc: a config, its subgraphs   *)
(* already expanded, is checked and put in order.  The edges are collected *)
(* in the order of the nodes; when one is used before it is produced the   *)
(* nodes are sorted and the edges collected again; types are resolved      *)
(* along the edges and compared; every calculator gets its sources.        *)
(*                                                                         *)
(* A node is [id, kind, ins, infos, outs, sins, souts, ty, exec]: kind is  *)
(* "gen", "calc" or "handler"; ins, outs, sins and souts are names; infos  *)
(* lists input_stream_info as [at, back], at being the input it parses to  *)
(* or 0 for none; ty gives the type of the ports of each list.             *)
(***************************************************************************)
EXTENDS Integers, Sequences, FiniteSets, SequencesExt

CONSTANTS Configs       \* configs: [nodes, inputs, executors, numThreads]

VARIABLES config, calculators, generators, statusHandlers,
          sortedNodes,  \* generators and calculators in the order they are used
          inputStreams, outputStreams, inputSides, outputSides, \* edges
          requiredSides,\* side packets nothing before their use produced
          typeOf,       \* port -> its PacketType
          sources,      \* calculator -> AncestorSources
          validation    \* the step Initialize is at, or how it failed

graphVars == <<calculators, generators, statusHandlers, sortedNodes, inputStreams,
               outputStreams, inputSides, outputSides, requiredSides>>
configVars == <<config, graphVars, typeOf, sources, validation>>

Fails(why) == validation' = why /\ UNCHANGED <<graphVars, typeOf, sources>>

-----------------------------------------------------------------------------
(* Packet types.  A type is [k, types, as]: "unset", "any", "none",        *)
(* "exact", "oneof" or "same", which points at another port's.             *)

\* The root of the union-find tree: pointers are followed, never shortened.
GetSameAs(ty, p) ==
    LET R[n \in 0..Cardinality(DOMAIN ty)] ==
          IF n = 0 THEN p
          ELSE LET q == R[n - 1] IN IF ty[q].k = "same" THEN ty[q].as ELSE q
    IN R[Cardinality(DOMAIN ty)]

AnyType == [k |-> "any", types |-> {}, as |-> <<>>]

\* A port that would become the same as itself accepts anything.
SetSameAs(ty, p, q) ==
    [ty EXCEPT ![p] = IF GetSameAs(ty, q) = p THEN AnyType
                      ELSE [k |-> "same", types |-> {}, as |-> GetSameAs(ty, q)]]

HaveCommonType(a, b) == a.types \cap b.types # {}

IsConsistentWith(ty, p, q) ==
    LET a == ty[GetSameAs(ty, p)]
        b == ty[GetSameAs(ty, q)]
    IN IF a.types # {} /\ b.types # {} THEN HaveCommonType(a, b)
       ELSE \/ a.k = "any" \/ (a.k # "none" /\ b.k = "any")
            \/ a.k = "none" /\ b.k \in {"any", "none"}

-----------------------------------------------------------------------------
(* Edges.  An edge is [node, name, port, back, up]: node is the place of   *)
(* its node in sortedNodes, 0 for a graph input stream; up is the place of *)
(* the producing edge, 0 when it is not known.                             *)

PortsOf(n, i, list) ==
    LET names == CASE list = "in" -> n.ins [] list = "out" -> n.outs
                   [] list = "sin" -> n.sins [] OTHER -> n.souts
    IN [k \in DOMAIN names |->
          [node |-> i, name |-> names[k], port |-> <<n.id, list, k>>, up |-> 0,
           back |-> list = "in" /\ \E j \in DOMAIN n.infos : n.infos[j] = [at |-> k, back |-> TRUE]]]

EdgesOf(nodes, list) == FlattenSeq([i \in DOMAIN nodes |-> PortsOf(nodes[i], i, list)])

GraphInputs == [k \in DOMAIN config.inputs |->
    [node |-> 0, name |-> config.inputs[k], port |-> <<0, "out", k>>, up |-> 0, back |-> FALSE]]

Producers(name, outs) == {o \in DOMAIN outs : outs[o].name = name}

\* InsertIfNotPresent fails for an output of a name that is there already.
DefinedTwice(outs) == \E o \in DOMAIN outs : Cardinality(Producers(outs[o].name, outs)) > 1

\* The producing edge, when its node comes before edge e's node.
UpstreamOf(e, outs) ==
    LET before == {o \in Producers(e.name, outs) : outs[o].node < e.node}
    IN IF before = {} \/ e.back THEN 0 ELSE CHOOSE o \in before : TRUE

\* AddInputStreamsForNode for every calculator: an input that is no back edge
\* and has no producer so far needs sorting, or is an error the second time.
AddInputStreams(nodes, outs) ==
    LET ins == EdgesOf(nodes, "in")
    IN [e \in DOMAIN ins |-> [ins[e] EXCEPT !.up = UpstreamOf(ins[e], outs)]]

AddOutputStreams(nodes) == GraphInputs \o EdgesOf(nodes, "out")

AddInputSides(nodes, handlers, outs) ==
    LET ins == EdgesOf(nodes, "sin")
                 \o FlattenSeq([h \in DOMAIN handlers |-> PortsOf(handlers[h], Len(nodes) + h, "sin")])
    IN [e \in DOMAIN ins |-> [ins[e] EXCEPT !.up = UpstreamOf(ins[e], outs)]]

\* Seeded fault: the producer of a back edge is asked for, too.
AllUnsorted(ins) == \E e \in DOMAIN ins : ins[e].up = 0

StreamsUnsorted(ins) == \E e \in DOMAIN ins : ins[e].up = 0 /\ ~ins[e].back

\* An output side packet whose name was required by this or an earlier node.
SidesUnsorted(nodes, outs) ==
    \E e \in DOMAIN EdgesOf(nodes, "sin"), o \in DOMAIN outs :
       /\ outs[o].name = EdgesOf(nodes, "sin")[e].name
       /\ outs[o].node >= EdgesOf(nodes, "sin")[e].node

Required(ins) == {ins[e].name : e \in {f \in DOMAIN ins : ins[f].up = 0}}

-----------------------------------------------------------------------------
(* The steps of Initialize.                                                *)

ValidationOf(c) ==
    /\ config = c
    /\ calculators = SelectSeq(config.nodes, LAMBDA n : n.kind = "calc")
    /\ generators = SelectSeq(config.nodes, LAMBDA n : n.kind = "gen")
    /\ statusHandlers = SelectSeq(config.nodes, LAMBDA n : n.kind = "handler")
    /\ sortedNodes = <<>>
    /\ inputStreams = <<>> /\ outputStreams = <<>> /\ inputSides = <<>> /\ outputSides = <<>>
    /\ requiredSides = {} /\ typeOf = <<>> /\ sources = <<>>
    /\ validation = "transforms"
ConfigInit == \E c \in Configs : ValidationOf(c)

\* A default executor may come from the config or from num_threads, not both.
AddPredefinedExecutorConfigs(c) ==
    IF "" \in Range(c.executors) THEN c
    ELSE [c EXCEPT !.executors = Append(@, ""), !.numThreads = 0]

PerformBasicTransforms ==
    /\ validation = "transforms"
    /\ \/ /\ "" \in Range(config.executors) /\ config.numThreads # 0
          /\ Fails("bad executors") /\ UNCHANGED config
       \/ /\ ~("" \in Range(config.executors) /\ config.numThreads # 0)
          /\ config' = AddPredefinedExecutorConfigs(config)
          /\ validation' = "nodes"
          /\ UNCHANGED <<graphVars, typeOf, sources>>

\* NodeTypeInfo::Initialize: every input_stream_info names an input, none
\* twice, and the contract gave every port a type.
ContractOk(n) ==
    /\ \A j \in DOMAIN n.infos : n.infos[j].at # 0
    /\ \A i, j \in DOMAIN n.infos : n.infos[i].at = n.infos[j].at => i = j
    /\ \A l \in {"in", "out", "sin", "sout"} : PortsOf(n, 0, l) # <<>> => n.ty[l].k # "unset"

\* The ports with the types their contracts gave them.  An output may be
\* declared the same as the first input.
ContractTypes ==
    LET all == config.nodes
        ports(l) == UNION {{e.port : e \in Range(PortsOf(all[i], 0, l))} : i \in DOMAIN all}
        NodeOf(id) == CHOOSE n \in Range(all) : n.id = id
    IN [p \in UNION {ports(l) : l \in {"in", "out", "sin", "sout"}}
               \union {e.port : e \in Range(GraphInputs)} |->
          IF p[1] = 0 THEN AnyType
          ELSE LET t == NodeOf(p[1]).ty[p[2]]
               IN IF t.k = "same" THEN [t EXCEPT !.as = <<p[1], "in", 1>>] ELSE t]

InitializeNodeInfo ==
    /\ validation = "nodes"
    /\ \/ /\ \E i \in DOMAIN config.nodes : ~ContractOk(config.nodes[i])
          /\ Fails("bad contract")
       \/ /\ \A i \in DOMAIN config.nodes : ContractOk(config.nodes[i])
          /\ typeOf' = ContractTypes
          /\ sortedNodes' = generators \o calculators
          /\ validation' = "unsorted"
          /\ UNCHANGED <<calculators, generators, statusHandlers, inputStreams,
                         outputStreams, inputSides, outputSides, requiredSides, sources>>
    /\ UNCHANGED config

\* InitializeSidePacketInfo and InitializeStreamInfo.  Unsorted, a use before
\* production asks for sorting; sorted, it is an error.
CollectEdges ==
    /\ validation \in {"unsorted", "sorted"}
    /\ LET outs  == AddOutputStreams(sortedNodes)
           souts == EdgesOf(sortedNodes, "sout")
           ins   == AddInputStreams(sortedNodes, outs)
           sins  == AddInputSides(sortedNodes, statusHandlers, souts)
           needSorting == StreamsUnsorted(ins) \/ SidesUnsorted(sortedNodes, souts)
       IN \/ /\ DefinedTwice(outs) \/ DefinedTwice(souts)
             /\ Fails("defined twice")
          \/ /\ ~DefinedTwice(outs) /\ ~DefinedTwice(souts)
             /\ needSorting /\ validation = "sorted"
             /\ Fails("not produced")
          \/ /\ ~DefinedTwice(outs) /\ ~DefinedTwice(souts)
             /\ ~(needSorting /\ validation = "sorted")
             /\ inputStreams' = ins /\ outputStreams' = outs
             /\ inputSides' = sins /\ outputSides' = souts
             /\ requiredSides' = Required(sins)
             /\ validation' = IF needSorting THEN "sorting" ELSE "back edges"
             /\ UNCHANGED <<calculators, generators, statusHandlers, sortedNodes, typeOf, sources>>
    /\ UNCHANGED config

\* What the sorter is given: streams that are no back edges and do not come
\* from outside, and the side packets of generators and calculators.
SorterEdges ==
    {<<outputStreams[o].node, inputStreams[e].node>> :
        <<o, e>> \in {<<o, e>> \in (DOMAIN outputStreams) \X (DOMAIN inputStreams) :
            /\ outputStreams[o].name = inputStreams[e].name
            /\ outputStreams[o].node # 0 /\ ~inputStreams[e].back}}
    \union
    {<<outputSides[o].node, inputSides[e].node>> :
        <<o, e>> \in {<<o, e>> \in (DOMAIN outputSides) \X (DOMAIN inputSides) :
            /\ outputSides[o].name = inputSides[e].name
            /\ inputSides[e].node <= Len(sortedNodes)}}

\* What TopologicalSorter hands out: the least node with nothing before it,
\* again and again.
HandOut(n, edgeSet) ==
    LET S[k \in 0..n] ==
          IF k = 0 THEN <<>>
          ELSE LET out == S[k - 1]
                   ready == {i \in 1..n \ Range(out) :
                               \A j \in 1..n : <<j, i>> \in edgeSet => j \in Range(out)}
               IN IF ready = {} THEN out
                  ELSE Append(out, CHOOSE i \in ready : \A j \in ready : i <= j)
    IN S[n]

TopologicalSortNodes ==
    /\ validation = "sorting"
    /\ LET order == HandOut(Len(sortedNodes), SorterEdges)
           nodes == [i \in DOMAIN order |-> sortedNodes[order[i]]]
       IN \/ /\ Len(order) < Len(sortedNodes)
             /\ Fails("cyclic")
          \/ /\ Len(order) = Len(sortedNodes)
             /\ sortedNodes' = nodes
             /\ generators' = SelectSeq(nodes, LAMBDA n : n.kind = "gen")
             /\ calculators' = SelectSeq(nodes, LAMBDA n : n.kind = "calc")
             /\ validation' = "sorted"
             /\ UNCHANGED <<statusHandlers, inputStreams, outputStreams, inputSides,
                            outputSides, requiredSides, typeOf, sources>>
    /\ UNCHANGED config

FillUpstreamFieldForBackEdges ==
    /\ validation = "back edges"
    /\ \/ /\ \E e \in DOMAIN inputStreams : /\ inputStreams[e].back
                                            /\ Producers(inputStreams[e].name, outputStreams) = {}
          /\ Fails("back edge without producer")
       \/ /\ \A e \in DOMAIN inputStreams :
                inputStreams[e].back => Producers(inputStreams[e].name, outputStreams) # {}
          /\ inputStreams' = [e \in DOMAIN inputStreams |->
               IF inputStreams[e].back
               THEN [inputStreams[e] EXCEPT !.up =
                       CHOOSE o \in Producers(inputStreams[e].name, outputStreams) : TRUE]
               ELSE inputStreams[e]]
          /\ validation' = "types"
          /\ UNCHANGED <<calculators, generators, statusHandlers, sortedNodes, outputStreams,
                         inputSides, outputSides, requiredSides, typeOf, sources>>
    /\ UNCHANGED config

\* One edge: the side that accepts anything becomes the same as the other.
ResolveAny(ty, p, q) ==
    CASE ty[GetSameAs(ty, p)].k = "any" -> SetSameAs(ty, GetSameAs(ty, p), q)
      [] ty[GetSameAs(ty, p)].k # "any" /\ ty[GetSameAs(ty, q)].k = "any"
           -> SetSameAs(ty, GetSameAs(ty, q), p)
      [] OTHER -> ty

\* One edge: a choice of types is narrowed to the one type of the other side.
ResolveOneOf(ty, p, q) ==
    LET a == GetSameAs(ty, p)
        b == GetSameAs(ty, q)
    IN CASE IsConsistentWith(ty, a, b) /\ ty[a].k = "oneof" /\ ty[b].k = "exact"
              -> SetSameAs(ty, a, q)
         [] IsConsistentWith(ty, a, b) /\ ty[b].k = "oneof" /\ ty[a].k = "exact"
              -> SetSameAs(ty, b, p)
         [] OTHER -> ty

Connected(ins) == SelectSeq(ins, LAMBDA e : e.up # 0)

ResolveAnyTypes(ty, ins, outs) ==
    FoldLeft(LAMBDA t, e : ResolveAny(t, e.port, outs[e.up].port), ty, Connected(ins))

ResolveOneOfTypes(ty, ins, outs) ==
    FoldLeft(LAMBDA t, e : ResolveOneOf(t, e.port, outs[e.up].port), ty, Connected(ins))

ResolveTypes ==
    /\ validation = "types"
    /\ typeOf' = ResolveOneOfTypes(
                   ResolveAnyTypes(
                     ResolveOneOfTypes(
                       ResolveAnyTypes(typeOf, inputStreams, outputStreams),
                       inputStreams, outputStreams),
                     inputSides, outputSides),
                   inputSides, outputSides)
    /\ validation' = "validate"
    /\ UNCHANGED <<config, graphVars, sources>>

EdgeTypesAgree(ins, outs) ==
    \A e \in Range(Connected(ins)) : IsConsistentWith(typeOf, e.port, outs[e.up].port)

\* Names that are kept for the framework.
IsReservedExecutorName(name) == name \in {"default", "gpu", "__x"}

ValidateExecutors ==
    /\ \A i \in DOMAIN config.executors : ~IsReservedExecutorName(config.executors[i])
    /\ \A i, j \in DOMAIN config.executors : config.executors[i] = config.executors[j] => i = j
    /\ \A n \in Range(calculators) : n.exec # "" =>
         ~IsReservedExecutorName(n.exec) /\ n.exec \in Range(config.executors)

\* Calculators in order: one without inputs is a source, the others take the
\* sources of the nodes they read from, as far as those are known by then.
ComputeSourceDependence ==
    LET Reads(i) == {e \in Range(inputStreams) : e.node = i}
        S[i \in 0..Len(sortedNodes)] ==
          IF i = 0 THEN <<>>
          ELSE LET known == S[i - 1] IN
               Append(known,
                 IF sortedNodes[i].kind = "calc" /\ sortedNodes[i].ins = <<>> THEN {i}
                 ELSE UNION {LET o == outputStreams[e.up]
                             IN IF o.node = 0 THEN {-e.up}
                                ELSE IF o.node < i THEN known[o.node] ELSE {} : e \in Reads(i)})
    IN S[Len(sortedNodes)]

Validate ==
    /\ validation = "validate"
    /\ \/ /\ ~EdgeTypesAgree(inputSides, outputSides) \/ ~EdgeTypesAgree(inputStreams, outputStreams)
          /\ Fails("bad types")
       \/ /\ EdgeTypesAgree(inputSides, outputSides) /\ EdgeTypesAgree(inputStreams, outputStreams)
          /\ ~ValidateExecutors
          /\ sources' = ComputeSourceDependence
          /\ validation' = "bad executors"
          /\ UNCHANGED <<graphVars, typeOf>>
       \/ /\ EdgeTypesAgree(inputSides, outputSides) /\ EdgeTypesAgree(inputStreams, outputStreams)
          /\ ValidateExecutors
          /\ sources' = ComputeSourceDependence
          /\ validation' = "initialized"
          /\ UNCHANGED <<graphVars, typeOf>>
    /\ UNCHANGED config

ConfigNext == \/ PerformBasicTransforms \/ InitializeNodeInfo \/ CollectEdges
              \/ TopologicalSortNodes \/ FillUpstreamFieldForBackEdges
              \/ ResolveTypes \/ Validate

-----------------------------------------------------------------------------
(* What a good config is, stated on the config as it was written.          *)

Units == {n \in Range(config.nodes) : n.kind # "handler"}

IsBack(n, k) == \E j \in DOMAIN n.infos : n.infos[j] = [at |-> k, back |-> TRUE]

ProducesFor(m, n) ==
    \/ \E k \in DOMAIN n.ins : ~IsBack(n, k) /\ n.ins[k] \in Range(m.outs)
    \/ Range(m.souts) \cap Range(n.sins) # {}

\* The pairs joined by a path of at least one of the given pairs.
Paths(pairs, n) ==
    LET P[k \in 0..n] ==
          IF k = 0 THEN pairs
          ELSE LET p == P[k - 1]
               IN p \union {<<x[1], y[2]>> : <<x, y>> \in {z \in p \X pairs : z[1][2] = z[2][1]}}
    IN P[n]

Acyclic ==
    LET needs == {<<m, n>> \in Units \X Units : ProducesFor(m, n)}
    IN \A n \in Units : <<n, n>> \notin Paths(needs, Cardinality(Units))

ProducedOnce(Of(_), outside) ==
    /\ \A m, n \in Units : m # n => Range(Of(m)) \cap Range(Of(n)) = {}
    /\ \A n \in Units : Cardinality(Range(Of(n))) = Len(Of(n)) /\ Range(Of(n)) \cap outside = {}

WellConnected ==
    /\ ProducedOnce(LAMBDA n : n.outs, Range(config.inputs))
    /\ ProducedOnce(LAMBDA n : n.souts, {})
    /\ \A n \in Units : Range(n.ins) \subseteq Range(config.inputs) \union UNION {Range(m.outs) : m \in Units}
    /\ Acyclic

\* Initialize refuses a graph for its connections exactly when they are wrong:
\* a name produced twice, an input nobody produces, or a cycle not broken by a
\* back edge, whatever the order the nodes were written in
\* (ValidatedGraphConfig::Initialize with its two passes over the edges).
ConnectionsJudgedRight ==
    /\ validation \in {"defined twice", "not produced", "cyclic", "back edge without producer"}
         => ~WellConnected
    /\ validation \in {"types", "validate", "initialized", "bad types"} => WellConnected

\* In an accepted graph every node comes after the nodes it needs, generators
\* included, and the edges found in that order are the ones written: an input
\* is connected to the output of its name, and only a side packet that nothing
\* produces is required from outside.
AcceptedGraphInOrder ==
    validation = "initialized" =>
      /\ \A i, j \in DOMAIN sortedNodes : ProducesFor(sortedNodes[i], sortedNodes[j]) => i < j
      /\ \A e \in Range(inputStreams) : outputStreams[e.up].name = e.name
      /\ requiredSides = UNION {Range(n.sins) : n \in Range(config.nodes)}
                           \ UNION {Range(n.souts) : n \in Units}
      /\ Range(sortedNodes) = Units /\ Len(sortedNodes) = Cardinality(Units)

\* Ports joined by an edge or by a same-as declaration, neither side offering
\* a choice of types.
Joined(types) ==
    LET fixed == {p \in DOMAIN types : types[p].k # "oneof"}
        links == {<<e.port, outputStreams[e.up].port>> : e \in Range(inputStreams)}
                   \union {<<p, types[p].as>> : p \in {q \in fixed : types[q].k = "same"}}
        both == {<<p, q>> \in fixed \X fixed : <<p, q>> \in links \/ <<q, p>> \in links}
    IN Paths(both, Cardinality(fixed))

\* In an accepted graph no two ports that declare one type each, different
\* ones, are joined through nodes that pass on what they receive: a packet can
\* not change its type on the way (ResolveAnyTypes over PacketType::SetSameAs).
AcceptedTypesAgree ==
    validation = "initialized" =>
      LET types == ContractTypes
      IN \A x \in Joined(types) :
           types[x[1]].k = "exact" /\ types[x[2]].k = "exact" => types[x[1]].types = types[x[2]].types

\* A config is accepted exactly when it can run, and what is accepted is in an
\* order its nodes can be opened in, with types that agree.
ValidationSound == ConnectionsJudgedRight /\ AcceptedGraphInOrder /\ AcceptedTypesAgree
=============================================================================
