------------------------- MODULE SubgraphExpansion -------------------------
(***************************************************************************)
(* tool/subgraph_expansion.cc: nodes whose calculator is registered as a   *)
(* subgraph are replaced by the nodes of that subgraph, its names prefixed *)
(* with the name of the node and its ports wired to the node's streams,    *)
(* until no such node is left.                                             *)
(*                                                                         *)
(* A name is a sequence of pieces of text; a list of ports is a function   *)
(* from <<tag, index>> to a name, which is what a TagMap makes of it.      *)
(***************************************************************************)
EXTENDS Integers, Sequences, FiniteSets, SequencesExt

CONSTANTS Registry,     \* calculator -> the config of a registered subgraph
          TopConfigs,   \* the configs given to the graph
          LowerCase,    \* piece of text -> its lower-case form
          NumberText    \* number -> its text

VARIABLES units,        \* the config's nodes, generators and status handlers
          original,     \* the config that was given
          expansion     \* "expanding", "done" or "failed"

expansionVars == <<units, original, expansion>>

\* A unit is [kind, calc, name, in, out, sin, sout, calcOnly, path]: calcOnly says a
\* field is set that only a calculator may have; path, which the code does not
\* keep, is where the unit was written: its place in the given config, then
\* in the subgraph there, and so on.
IsRegistered(u) == u.kind = "node" /\ u.calc \in DOMAIN Registry

OwnName(u) == IF u.name = <<>> THEN <<u.calc>> ELSE u.name

\* A name that several nodes of the config have is told apart by a number.
CanonicalNodeName(nodes, i) ==
    LET same == {j \in DOMAIN nodes : OwnName(nodes[j]) = OwnName(nodes[i])}
    IN IF Cardinality(same) <= 1 THEN OwnName(nodes[i])
       ELSE OwnName(nodes[i]) \o <<"_", NumberText[Cardinality(same \cap 1..i)]>>

NodesOf(us) == SelectSeq(us, LAMBDA u : u.kind = "node")

TransformStreamNames(portMap, Transform(_)) == [p \in DOMAIN portMap |-> Transform(portMap[p])]

\* The names of the ports of the subgraph that the node does not use.
FindIgnoredStreams(src, dst) == {src[p] : p \in DOMAIN src \ DOMAIN dst}

RemoveIgnoredStreams(portMap, ignored) ==
    [p \in {p \in DOMAIN portMap : portMap[p] \notin ignored} |-> portMap[p]]

\* Each kind of unit has its streams and side packets renamed; nodes get the
\* names they are told apart by.
TransformNames(config, Transform(_)) ==
    LET T(portMap) == TransformStreamNames(portMap, Transform)
        nodes == NodesOf(config.units)
        NodeName(i) == CanonicalNodeName(nodes, Cardinality(
                          {j \in 1..i : config.units[j].kind = "node"}))
    IN [config EXCEPT
          !.in = T(@), !.out = T(@), !.sin = T(@), !.sout = T(@),
          !.units = [i \in DOMAIN @ |->
             [@[i] EXCEPT !.in = T(@), !.out = T(@), !.sin = T(@), !.sout = T(@),
                          !.name = IF config.units[i].kind = "node"
                                   THEN Transform(NodeName(i)) ELSE @]]]

\* Seeded fault: names inside a subgraph are left as they were written.
NoPrefix(prefix, config) == TransformNames(config, LAMBDA n : n)

PrefixNames(prefix, config) ==
    TransformNames(config, LAMBDA n :
        [i \in DOMAIN prefix |-> LowerCase[prefix[i]]] \o <<"__">> \o n)

\* Every port the node uses must be one of the subgraph.  Names of ports are
\* entered in order, and a later one replaces an earlier one.
FindCorrespondingStreams(map, src, dst) ==
    [n \in DOMAIN map \union {src[p] : p \in DOMAIN dst} |->
       IF \E p \in DOMAIN dst : src[p] = n
       THEN dst[CHOOSE p \in DOMAIN dst : src[p] = n] ELSE map[n]]

Corresponds(src, dst) == DOMAIN dst \subseteq DOMAIN src

ValidateSubgraphFields(node) == ~node.calcOnly

CanConnect(node, config) ==
    /\ ValidateSubgraphFields(node)
    /\ Corresponds(config.in, node.in) /\ Corresponds(config.out, node.out)
    /\ Corresponds(config.sin, node.sin) /\ Corresponds(config.sout, node.sout)

\* The units of the subgraph with its port names replaced by the node's, and
\* without the inputs the node does not give.  A status handler's side packets
\* are not replaced.
ConnectSubgraphStreams(node, config) ==
    LET streamMap == FindCorrespondingStreams(
            FindCorrespondingStreams(<<>>, config.in, node.in), config.out, node.out)
        sideMap == FindCorrespondingStreams(
            FindCorrespondingStreams(<<>>, config.sin, node.sin), config.sout, node.sout)
        Streams(n) == IF n \in DOMAIN streamMap THEN streamMap[n] ELSE n
        Sides(n) == IF n \in DOMAIN sideMap THEN sideMap[n] ELSE n
    IN [i \in DOMAIN config.units |->
          LET u == config.units[i] IN
          IF u.kind = "handler" THEN u
          ELSE [u EXCEPT
                  !.in = RemoveIgnoredStreams(TransformStreamNames(@, Streams),
                                              FindIgnoredStreams(config.in, node.in)),
                  !.out = TransformStreamNames(@, Streams),
                  !.sin = RemoveIgnoredStreams(TransformStreamNames(@, Sides),
                                               FindIgnoredStreams(config.sin, node.sin)),
                  !.sout = TransformStreamNames(@, Sides)]]

\* GraphRegistry::CreateByName: the registered config, its units remembering
\* where they were written.
CreateByName(node) ==
    LET c == Registry[node.calc]
    IN [c EXCEPT !.units = [i \in DOMAIN @ |-> [@[i] EXCEPT !.path = Append(node.path, i)]]]

ExpandNode(nodes, i) ==
    ConnectSubgraphStreams(nodes[i],
        PrefixNames(CanonicalNodeName(nodes, i), CreateByName(nodes[i])))

\* One turn of the loop.  stable_partition puts the subgraph nodes last, then
\* all of them are replaced.
ExpandSubgraphs ==
    /\ expansion = "expanding"
    /\ LET nodes == NodesOf(units)
           parted == SelectSeq(nodes, LAMBDA u : ~IsRegistered(u))
                       \o SelectSeq(nodes, IsRegistered)
           subs == {i \in DOMAIN parted : IsRegistered(parted[i])}
           first == Len(parted) - Cardinality(subs)
           others == SelectSeq(units, LAMBDA u : u.kind # "node")
           added == FlattenSeq([k \in 1..Cardinality(subs) |->
                                  ExpandNode(parted, first + k)])
       IN \/ /\ subs = {}
             /\ expansion' = "done"
             /\ UNCHANGED units
          \/ /\ \E i \in subs : ~CanConnect(parted[i], CreateByName(parted[i]))
             /\ expansion' = "failed"
             /\ UNCHANGED units
          \/ /\ subs # {}
             /\ \A i \in subs : CanConnect(parted[i], CreateByName(parted[i]))
             /\ units' = SubSeq(parted, 1, first) \o others \o added
             /\ UNCHANGED expansion
    /\ UNCHANGED original

ExpansionOf(c) == /\ original = c
                  /\ units = [i \in DOMAIN c |-> [c[i] EXCEPT !.path = <<i>>]]
                  /\ expansion = "expanding"
ExpansionInit == \E c \in TopConfigs : ExpansionOf(c)

-----------------------------------------------------------------------------
(* What the streams of a nested config are, stated on the config as it was *)
(* written: the stream a port of the unit at path names is the one its     *)
(* scope declares, or, for a port of the subgraph, the stream of the       *)
(* enclosing scope that the subgraph node gives it.                        *)

UnitAt(path) ==
    LET U[k \in 1..Len(path)] ==
          IF k = 1 THEN original[path[1]] ELSE Registry[U[k - 1].calc].units[path[k]]
    IN U[Len(path)]

\* The ports of the subgraph at scope that are called n.
OuterPorts(scope, n, lists) ==
    LET CalledSo(c) == UNION {{<<l, p>> : p \in {q \in DOMAIN c[l] : c[l][q] = n}} : l \in lists}
    IN CalledSo(Registry[UnitAt(scope).calc])

\* A name known as the port o of the subgraph at scope is, outside of it, what
\* the subgraph node gives that port: nothing (level -1) where an input is not
\* given.
Given(scope, o, known) ==
    LET By(names) == CASE o[2] \in DOMAIN names -> [level |-> Len(scope) - 1, name |-> names[o[2]]]
                       [] o[2] \notin DOMAIN names /\ o[1] \in {"in", "sin"} -> [level |-> -1, name |-> known.name]
                       [] OTHER -> known
    IN By(UnitAt(scope)[o[1]])

Outward(scope, known, lists) ==
    LET Through(outer) == IF outer = {} THEN known ELSE Given(scope, CHOOSE o \in outer : TRUE, known)
    IN Through(IF known.level = Len(scope) THEN OuterPorts(scope, known.name, lists) ELSE {})

\* What name n stands for in a scope: the name of an enclosing scope, or an
\* input that nobody gives.  Id[k] is what is known after looking at k scopes,
\* from the inside out.
Identity(scope, n, lists) ==
    LET Id[k \in 0..Len(scope)] ==
          IF k = 0 THEN [level |-> Len(scope), name |-> n]
          ELSE Outward(SubSeq(scope, 1, Len(scope) - k + 1), Id[k - 1], lists)
        StandsFor(id) == IF id.level = -1 THEN <<"ignored", <<>>, <<>>>>
                         ELSE <<"stream", SubSeq(scope, 1, id.level), id.name>>
    IN StandsFor(Id[Len(scope)])

\* The ports of one list of a unit and what their names stood for.
Written(u, list, lists) ==
    LET Kept(id) == [p \in {q \in DOMAIN id : ~(list \in {"in", "sin"} /\ id[q][1] = "ignored")} |-> id[p]]
        Meaning(w) == [p \in DOMAIN w |-> Identity(Front(u.path), w[p], lists)]
    IN Kept(Meaning(UnitAt(u.path)[list]))

\* The ends of all streams, or of all side packets: the name each end has
\* after expansion and what it stood for in the config as written.
Ends(lists) ==
    LET Named(names, w) == {<<names[p], w[p]>> : p \in DOMAIN w}
    IN UNION {UNION {Named(units[i][l], Written(units[i], l, lists)) : l \in lists}
                : i \in {j \in DOMAIN units : units[j].kind # "handler"}}

\* Expanding subgraphs changes no connection: when it is done, every unit has
\* exactly the ports that were written for it and that somebody gives, and two
\* ports have the same name exactly when they stand for the same stream of the
\* nested config, so a stream inside a subgraph is never caught by one of the
\* same name outside or in another copy.
ExpansionKeepsWiring ==
    expansion = "done" =>
      \A lists \in {{"in", "out"}, {"sin", "sout"}} :
        /\ \A i \in DOMAIN units : units[i].kind # "handler" =>
             \A l \in lists : DOMAIN units[i][l] = DOMAIN Written(units[i], l, lists)
        /\ LET ends == Ends(lists)
           IN \A e, f \in ends : e[1] = f[1] <=> e[2] = f[2]
=============================================================================
