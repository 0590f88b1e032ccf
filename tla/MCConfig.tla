------------------------------ MODULE MCConfig ------------------------------
(***************************************************************************)
(* What happens to a graph before it runs: its text is read, its templates *)
(* expanded, its config built, expanded, given sinks and options, sorted   *)
(* and validated, its side packets generated, its nodes opened, its        *)
(* containers wired.  A behaviour is one of a single part, chosen at the   *)
(* start, while the others stay in their initial states.                   *)
(***************************************************************************)
EXTENDS TagMap, SubgraphExpansion, TopologicalSorter, ValidatedGraphConfig, GraphBuilder,
        Sinks, SwitchContainer, SwitchRouting, GraphRun, GraphOpening,
        TextFormat, Templates, GraphOptions, ProtoWire, TLC

CONSTANT Parts   \* the parts to check
VARIABLE part

configPartVars ==
  <<part, ports, expansionVars, sorterVars, configVars, textVars, templateVars, optionsVars,
    builderVars, sinkVars, containerVars, switchVars, runVars, openingVars, wireVars>>

-----------------------------------------------------------------------------
(* The configs, subgraphs, containers and packets given to what builds,    *)
(* expands, validates, wires and opens a graph.                            *)

MCNumberValue == ("0" :> 0) @@ ("1" :> 1)
MCTagOrder == <<"", "T", "U">>

-----------------------------------------------------------------------------
\* Subgraphs: S of calculators and a generator, N of two S and a calculator.
NoneConnected == [x \in {} |-> <<>>]
OnlyPort(n) == [p \in {<<"", 0>>} |-> <<n>>]
PortA(n) == [p \in {<<"A", 0>>} |-> <<n>>]
PortB(n) == [p \in {<<"B", 0>>} |-> <<n>>]
PortsAB(n, m) == [p \in {<<"A", 0>>, <<"B", 0>>} |-> IF p[1] = "A" THEN <<n>> ELSE <<m>>]
Unit(k, c, nm, i, o, si, so) ==
    [kind |-> k, calc |-> c, name |-> nm, in |-> i, out |-> o, sin |-> si, sout |-> so,
     calcOnly |-> FALSE, path |-> <<>>]
MCRegistry ==
    ("S" :> [in |-> PortsAB("i", "x"), out |-> OnlyPort("o"), sin |-> PortA("s"), sout |-> NoneConnected,
             units |-> <<Unit("node", "C", <<>>, PortsAB("i", "x"), OnlyPort("m"), PortA("s"), NoneConnected),
                         Unit("node", "C", <<>>, OnlyPort("m"), OnlyPort("o"), OnlyPort("g"), NoneConnected),
                         Unit("gen", "G", <<>>, NoneConnected, NoneConnected, PortA("s"), OnlyPort("g"))>>])
    @@ ("N" :> [in |-> PortA("i"), out |-> OnlyPort("o"), sin |-> PortA("s"), sout |-> NoneConnected,
                units |-> <<Unit("node", "S", <<>>, PortsAB("i", "m"), OnlyPort("x"), PortA("s"), NoneConnected),
                            Unit("node", "S", <<"n">>, PortA("x"), OnlyPort("o"), NoneConnected, NoneConnected),
                            Unit("node", "C", <<>>, NoneConnected, OnlyPort("m"), PortA("s"), NoneConnected)>>])
LeafUnits == {Unit("node", "C", <<>>, i, o, NoneConnected, NoneConnected) :
                i \in {NoneConnected, PortA("x")}, o \in {OnlyPort("y"), OnlyPort("m")}}
SubgraphUnits ==
    {Unit("node", "S", nm, i, o, s, NoneConnected) :
       nm \in {<<>>, <<"n">>}, i \in {NoneConnected, PortsAB("x", "y")}, o \in {NoneConnected, OnlyPort("m")},
       s \in {NoneConnected, PortA("g")}}
    \cup {Unit("node", "N", <<>>, PortA("x"), OnlyPort("y"), PortA("s"), NoneConnected),
          Unit("node", "N", <<>>, PortB("x"), NoneConnected, NoneConnected, NoneConnected),
          [Unit("node", "S", <<>>, PortA("x"), NoneConnected, NoneConnected, NoneConnected) EXCEPT !.calcOnly = TRUE]}
SomeTopConfig == <<Unit("node", "S", <<>>, NoneConnected, NoneConnected, NoneConnected, NoneConnected),
                   Unit("node", "S", <<>>, NoneConnected, NoneConnected, NoneConnected, NoneConnected)>>
MCTopConfigs == {SomeTopConfig}
                  \cup {<<u, v>> : u \in LeafUnits \cup SubgraphUnits, v \in SubgraphUnits}
                  \cup {<<u, v, w>> : u \in LeafUnits, v, w \in SubgraphUnits}
MCLowerCase == [a \in {"S", "N", "C", "n", "_", "1", "2", "3", "__", "s", "c", "k"} |->
                  CASE a = "S" -> "s" [] a = "N" -> "k" [] a = "C" -> "c" [] OTHER -> a]
MCNumberText == <<"1", "2", "3">>

-----------------------------------------------------------------------------
\* Graphs to validate.  Types of packets, as a contract may state them.
TypeOf(k, ts) == [k |-> k, types |-> ts, as |-> <<>>]
FreeType == TypeOf("any", {})
IntType == TypeOf("exact", {"int"})
StrType == TypeOf("exact", {"str"})
EitherType == TypeOf("oneof", {"int", "str"})
SameType == TypeOf("same", {})
PortTypes(i, o) == [in |-> i, out |-> o, sin |-> FreeType, sout |-> FreeType]
ConfigNode(id, k, ins, infos, outs, sins, souts, ty, ex) ==
    [id |-> id, kind |-> k, ins |-> ins, infos |-> infos, outs |-> outs, sins |-> sins,
     souts |-> souts, ty |-> ty, exec |-> ex]
TypedNode(id, ins, infos, outs, ti, to) == ConfigNode(id, "calc", ins, infos, outs, <<>>, <<>>, PortTypes(ti, to), "")
StreamNode(id, ins, infos, outs) == TypedNode(id, ins, infos, outs, FreeType, FreeType)
SideNode(id, k, s, o) == ConfigNode(id, k, <<>>, <<>>, <<>>, s, o, PortTypes(FreeType, FreeType), "")
ConfigOf(ns, inp) == [nodes |-> ns, inputs |-> inp, executors |-> <<>>, numThreads |-> 0]
BackEdge(k) == [at |-> k, back |-> TRUE]

\* Two or three nodes wired by streams in every way, back edges included.
StreamNodes(id) ==
    UNION {{StreamNode(id, i, f, o) :
              f \in {<<>>} \cup {<<BackEdge(k)>> : k \in DOMAIN i}, o \in {<<>>, <<"a">>, <<"b">>}} :
           i \in {<<>>, <<"a">>, <<"b">>, <<"a", "b">>}}
StreamGraphs ==
    {ConfigOf(<<x, y>>, i) : x \in StreamNodes(1), y \in StreamNodes(2), i \in {<<>>, <<"a">>}}
      \cup {ConfigOf(<<x, y, StreamNode(3, i, <<>>, <<"c">>)>>, <<>>) :
              x \in StreamNodes(1), y \in StreamNodes(2), i \in {<<>>, <<"b">>}}
\* Generators, calculators and status handlers wired by side packets.
Sides == {<<>>, <<"p">>, <<"q">>}
SideGraphs ==
    {ConfigOf(<<SideNode(1, "gen", a, b), SideNode(2, k, c, d), SideNode(3, h, e, <<>>)>>, <<>>) :
       a, b, c, d, e \in Sides, k \in {"gen", "calc"}, h \in {"calc", "handler"}}
\* A loop of three nodes with contracts of every kind.
Exacts == {FreeType, IntType, StrType, EitherType}
TypedGraphs ==
    {ConfigOf(<<TypedNode(1, <<>>, <<>>, <<"a">>, FreeType, t1),
                TypedNode(2, <<"a", "c">>, <<BackEdge(2)>>, <<"b">>, t2, t3),
                TypedNode(3, <<"b">>, <<>>, <<"c">>, t4, t5)>>, <<>>) :
       t1, t2, t4 \in Exacts, t3 \in {SameType, IntType, FreeType, EitherType},
       t5 \in {SameType, StrType, IntType, EitherType}}
      \cup {ConfigOf(<<TypedNode(1, <<>>, <<>>, <<"a">>, FreeType, TypeOf("unset", {}))>>, <<>>)}
\* Executors, good and bad, and an input stream info that names no stream.
ExecutorGraphs ==
    {[nodes |-> <<[StreamNode(1, <<>>, f, <<>>) EXCEPT !.exec = x]>>, inputs |-> <<>>,
      executors |-> es, numThreads |-> n] :
       f \in {<<>>, <<[at |-> 0, back |-> FALSE]>>}, x \in {"", "e", "gpu"},
       es \in {<<>>, <<"">>, <<"e">>, <<"e", "e">>, <<"gpu">>}, n \in {0, 2}}
SomeConfig == ConfigOf(<<StreamNode(1, <<>>, <<>>, <<>>), StreamNode(2, <<>>, <<>>, <<>>)>>, <<>>)
MCConfigs == {SomeConfig} \cup StreamGraphs \cup SideGraphs \cup TypedGraphs \cup ExecutorGraphs

-----------------------------------------------------------------------------
MCPortKeys == {<<FALSE, "", 1>>, <<FALSE, "A", 1>>, <<FALSE, "A", 0>>, <<TRUE, "A", 0>>}
MCBuilderTags == <<"", "A">>
MCUserNames == {<<"n">>}

-----------------------------------------------------------------------------
\* Graphs sinks are added to, the last of which has one already.
UserNode(name, sides, makes) ==
    SinkNode(<<name, 1>>, "User", <<>>, {[tag |-> "", name |-> s] : s \in sides}, {}, makes, 0)
SomeNodes == <<>>
MCGraphNodes ==
    {SomeNodes, <<UserNode(<<"a">>, {}, {<<<<"p">>, 1>>}), UserNode(<<"b">>, {<<<<"p">>, 1>>}, {})>>,
     <<UserNode(<<"callback_calculator", <<"s">>>>, {<<<<<<"s">>, "callback">>, 1>>}, {})>>}
MCTimelines == {<<>>, <<0, 1>>, <<0, 9>>}
MCStreamNames == {<<"s">>, <<"t">>}
MCSides == {<<"p">>}
HeaderSet(i, h) == [input |-> i, header |-> h]
HeaderSets == {HeaderSet(0, 7), HeaderSet(0, 8), HeaderSet(1, 0), HeaderSet(2, 8)}
SomeHeaderRun == [header |-> 0, sets |-> <<HeaderSet(0, 7), HeaderSet(1, 0), HeaderSet(1, 0)>>]
MCHeaderRuns == [header : {0, 6}, sets : {<<a, b, c>> : a \in {HeaderSet(0, 7), HeaderSet(1, 0)}, b, c \in HeaderSets}]

-----------------------------------------------------------------------------
\* Containers of two nodes, by the streams and side packets of their config.
E(t, i, n) == Entry(<<t>>, i, n)
ContainerIns ==
    {<<>>, <<E("", -1, <<"x">>), E("", -1, <<"x">>)>>,
     <<E("A", 0, <<"x">>), E("B", 0, <<"x">>), E("B", 1, <<"x", 2>>)>>,
     <<E("SELECT", 0, <<"s">>), E("A", 0, <<"x">>)>>,
     <<E("A", 0, <<"x">>), E("ENABLE", 0, <<"s">>), E("", -1, <<"x">>)>>,
     <<E("SELECT", 0, <<"s">>), E("ENABLE", 0, <<"s">>)>>}
ContainerOuts == {<<>>, <<E("A", 0, <<"y">>)>>, <<E("", -1, <<"y">>), E("B", 0, <<"z">>)>>}
ContainerSideIns ==
    {<<>>, <<E("A", 0, <<"p">>), E("B", 0, <<"p">>)>>, <<E("SELECT", 0, <<"q">>), E("A", 0, <<"p">>)>>,
     <<E("ENABLE", 0, <<"q">>), E("", -1, <<"p">>)>>}
ContainerSideOuts == {<<>>, <<E("A", 0, <<"r">>), E("", -1, <<"t">>)>>}
ContainerOf(i, o, a, b, s, n, k, p) ==
    [in |-> i, out |-> o, sideIn |-> a, sideOut |-> b, select |-> s, enable |-> n, tick |-> k,
     selectPacket |-> 1, enablePacket |-> p]
SomeContainer == ContainerOf(<<>>, <<>>, <<>>, <<>>, NoPort, NoPort, <<>>, TRUE)
MCContainers ==
    {SomeContainer} \cup
    {ContainerOf(i, o, a, b, s, n, k, p) :
       i \in ContainerIns, o \in ContainerOuts, a \in ContainerSideIns, b \in ContainerSideOuts,
       s \in {NoPort, 1}, n \in {NoPort, 0, 1}, k \in {<<>>, <<<<<<"A">>, 0>>>>}, p \in BOOLEAN}

-----------------------------------------------------------------------------
\* Runs: three generators, one of which fails and one of which waits for the
\* packet of a node, and the packets and executors an application may give.
MCGenerators == <<"G1", "G2", "G3">>
SidePorts(i, o) == [ins |-> i, outs |-> o]
MCPorts == ("G1" :> SidePorts({"a"}, {"g"})) @@ ("G2" :> SidePorts({"g"}, {"h"}))
           @@ ("G3" :> SidePorts({"o"}, {"w"})) @@ ("N1" :> SidePorts({"g"}, {"o"}))
           @@ ("N2" :> SidePorts({"w", "b"}, {"z"}))
ByUser(x) == [by |-> x, from |-> <<>>]
MCInitPackets == {<<>>, "a" :> ByUser("v1"), "a" :> ByUser("bad"), "g" :> ByUser("v1")}
MCRunPackets == {<<>>, "a" :> ByUser("v1"), "a" :> ByUser("v2"),
                 "a" :> ByUser("v1") @@ ("b" :> ByUser("v1")), "a" :> ByUser("bad")}
MCRequests == {[service |-> "s", optional |-> TRUE, creatable |-> FALSE],
               [service |-> "t", optional |-> FALSE, creatable |-> TRUE]}
MCStatusHandlers == ("H1" :> {}) @@ ("H2" :> {"a"})
ExecutorOf(n, t) == [name |-> n, type |-> t]
MCExecutorSets == {<<>>, <<ExecutorOf("", "app")>>, <<ExecutorOf("x", "")>>}

-----------------------------------------------------------------------------
\* Graphs to open: shared streams and headers, a back edge, sources.
FromStream(x) == [name |-> x, back |-> FALSE]
FromBackEdge(x) == [name |-> x, back |-> TRUE]
NodeToOpen(i, o, si, so, h) == [ins |-> i, outs |-> o, sideIns |-> si, sideOuts |-> so, hint |-> h]
SomeOpening ==
    [inputs |-> <<>>, given |-> {}, headers |-> {"s"}, maxQueue |-> 2, override |-> 0,
     nodes |-> <<NodeToOpen(<<>>, <<"s">>, <<>>, <<"p", "q">>, 0),
                 NodeToOpen(<<FromStream("s"), FromStream("s")>>, <<>>, <<"q", "p", "q">>, <<>>, 3)>>]
MCOpenGraphs == {
    SomeOpening,
    [inputs |-> <<"x", "y">>, given |-> {"g"}, headers |-> {"y", "a"}, maxQueue |-> 0, override |-> 1,
     nodes |-> <<NodeToOpen(<<FromStream("x")>>, <<"a", "b">>, <<"g">>, <<"p">>, 0),
                 NodeToOpen(<<FromStream("b"), FromStream("y"), FromStream("b")>>, <<"c">>, <<"p">>, <<>>, 7),
                 NodeToOpen(<<FromStream("a")>>, <<>>, <<"p", "q">>, <<>>, 0),
                 NodeToOpen(<<>>, <<"s">>, <<>>, <<"q">>, 0)>>],
    [inputs |-> <<"x">>, given |-> {}, headers |-> {"x", "f"}, maxQueue |-> 9, override |-> 0,
     nodes |-> <<NodeToOpen(<<FromStream("x"), FromBackEdge("f")>>, <<"a">>, <<>>, <<>>, 0),
                 NodeToOpen(<<FromStream("a")>>, <<"b">>, <<"p">>, <<>>, 0),
                 NodeToOpen(<<FromStream("a"), FromStream("b")>>, <<"f">>, <<>>, <<>>, 0),
                 NodeToOpen(<<>>, <<>>, <<>>, <<"p">>, 0)>>]}

-----------------------------------------------------------------------------
(* The texts, templates and options given to the parsers and the option    *)
(* syntax tree.                                                            *)

\* Tokens, as the tokenizer delivers them.
Word(t, lower) == [EndToken EXCEPT !.kind = "identifier", !.text = t, !.lower = lower]
W(t) == Word(t, t)
Digits(n, b, t) == [EndToken EXCEPT !.kind = "integer", !.number = n, !.base = b, !.text = t, !.lower = t]
D(n) == Digits(n, "dec", ToString(n))
Quoted(t) == [EndToken EXCEPT !.kind = "string", !.text = t, !.lower = t]
FloatToken == [EndToken EXCEPT !.kind = "float", !.text = "1.5f", !.lower = "1.5f"]

\* A message type with fields of every kind, and the types it refers to.
FieldOf(n, num, cpp, rep) ==
    [name |-> n, lower |-> n, number |-> num, cpp |-> cpp, repeated |-> rep, type |-> "",
     group |-> FALSE, oneof |-> "", path |-> <<>>, enum |-> {}]
Colours == {[name |-> "RED", number |-> 0], [name |-> "BLUE", number |-> 2]}
RootFields ==
    {FieldOf("i", 1, "int32", FALSE), FieldOf("u", 2, "uint32", FALSE),
     [FieldOf("Big", 3, "int64", FALSE) EXCEPT !.lower = "big"],
     FieldOf("d", 4, "double", FALSE), FieldOf("s", 5, "string", FALSE), FieldOf("b", 6, "bool", FALSE),
     [FieldOf("e", 7, "enum", FALSE) EXCEPT !.enum = Colours],
     [FieldOf("m", 8, "message", FALSE) EXCEPT !.type = "Inner"],
     [FieldOf("ms", 9, "message", TRUE) EXCEPT !.type = "Inner"],
     [FieldOf("group", 10, "message", FALSE) EXCEPT !.type = "Group", !.group = TRUE],
     FieldOf("r", 11, "int32", TRUE),
     [FieldOf("x", 12, "int32", FALSE) EXCEPT !.oneof = "xy"],
     [FieldOf("y", 13, "bool", FALSE) EXCEPT !.oneof = "xy"],
     [FieldOf("any", 14, "message", FALSE) EXCEPT !.type = "Any"],
     [FieldOf("ext", 100, "int32", FALSE) EXCEPT !.path = <<"ext">>]}
TypeWith(fs) == [fields |-> fs, reserved |-> {}, reservedNumbers |-> {}, required |-> {},
                 proto3 |-> FALSE, any |-> FALSE]
MCMessageTypes ==
    [Root  |-> [TypeWith(RootFields) EXCEPT !.reserved = {"gone"}, !.reservedNumbers = {20}],
     Inner |-> [TypeWith({FieldOf("k", 1, "int32", FALSE),
                          [FieldOf("e", 7, "enum", FALSE) EXCEPT !.enum = Colours]}) EXCEPT !.proto3 = TRUE],
     Group |-> [TypeWith({FieldOf("k", 1, "int32", FALSE)}) EXCEPT !.required = {"k"}],
     Any   |-> [TypeWith({FieldOf("type_url", 1, "string", FALSE),
                          FieldOf("value", 2, "string", FALSE)}) EXCEPT !.any = TRUE]]
MCPacked == (<<"'12'">> :> <<1, 2>>) @@ (<<"'1'", "'2'">> :> <<3>>)

\* Values, and fields that hold them.
ScalarOf(ts) == [kind |-> "scalar", tokens |-> ts]
Braced(items) == [kind |-> "message", open |-> "{", close |-> "}", items |-> items]
Angled(items) == [kind |-> "message", open |-> "<", close |-> ">", items |-> items]
Torn(items) == [kind |-> "message", open |-> "{", close |-> ">", items |-> items]
ListOf(vs) == [kind |-> "list", elements |-> vs]
Plain(t) == [form |-> "plain", tokens |-> <<t>>]
Item(n, v) == [name |-> n, colon |-> TRUE, value |-> v, separator |-> ""]
NamedItem(n, v) == Item(Plain(W(n)), v)
Ended(item, separator) == [item EXCEPT !.separator = separator]

\* Numbers around the limits of the types, in each base; every other scalar.
Numbers ==
    {<<D(n)>> : n \in {0, 1, 3, 4, 7, 8, 15, 16}} \cup {<<Minus, D(n)>> : n \in {0, 1, 4, 5, 8, 9}}
      \cup {<<Digits(n, "hex", "0x")>> : n \in {3, 4, 7, 8, 15, 16}}
      \cup {<<Minus, Digits(4, "hex", "0x4")>>, <<Digits(2, "oct", "02")>>, <<[D(1) EXCEPT !.bad = TRUE]>>}
Scalars ==
    Numbers
      \cup {<<FloatToken>>, <<Minus, FloatToken>>, <<Word("Inf", "inf")>>, <<Minus, Word("NaN", "nan")>>,
            <<W("infinity")>>, <<W("true")>>, <<W("f")>>, <<Word("RED", "red")>>, <<W("blue")>>,
            <<Minus, W("t")>>, <<Quoted("'a'")>>, <<Quoted("'a'"), Quoted("'b'")>>, <<Quoted("'12'")>>,
            <<Quoted("'1'"), Quoted("'2'")>>, <<Minus, Quoted("'a'")>>, <<Symbol("%")>>}
K(n) == NamedItem("k", ScalarOf(<<D(n)>>))
Kids ==
    {<<>>, <<K(0)>>, <<K(2)>>, <<K(9)>>, <<K(0), Ended(K(2), ",")>>, <<K(2), K(2)>>,
     <<NamedItem("e", ScalarOf(<<D(3)>>))>>, <<Ended(NamedItem("nope", ScalarOf(<<D(3)>>)), ";")>>}
Messages == {Braced(k) : k \in Kids} \cup {Angled(k) : k \in Kids} \cup {Torn(<<>>)}
One == ScalarOf(<<D(1)>>)
Lists == {ListOf(<<>>), ListOf(<<One>>), ListOf(<<One, ScalarOf(<<Minus, D(4)>>)>>),
          ListOf(<<One, ScalarOf(<<D(4)>>)>>), ListOf(<<Braced(<<>>), Angled(<<K(2)>>)>>),
          ListOf(<<ScalarOf(<<Quoted("'12'")>>)>>)}
Values == {ScalarOf(t) : t \in Scalars} \cup Messages \cup Lists

\* Documents of one field, by every name there is, with every value.
FieldNames ==
    {Plain(W(n)) : n \in {"i", "u", "d", "s", "b", "e", "m", "ms", "group", "r", "x", "gone", "nope", "big"}}
      \cup {Plain(Word("Big", "big")), Plain(Word("Group", "group"))}
      \cup {Plain(D(n)) : n \in {1, 9, 20, 100}}
      \cup {[form |-> "extension", tokens |-> <<W(n)>>] : n \in {"ext", "nope"}}
Singles == {<<Item(n, v)>> : n \in FieldNames, v \in Values}

\* Documents of two fields, in every style of writing the first.
Small ==
    {NamedItem("i", One), NamedItem("i", ScalarOf(<<D(3)>>)), NamedItem("x", ScalarOf(<<D(0)>>)),
     NamedItem("y", ScalarOf(<<W("t")>>)), NamedItem("r", ListOf(<<One, ScalarOf(<<D(2)>>)>>)),
     NamedItem("r", ScalarOf(<<Quoted("'12'")>>)), NamedItem("r", ScalarOf(<<D(3)>>)),
     NamedItem("ms", Braced(<<K(2)>>)), NamedItem("gone", ScalarOf(<<Minus, W("inf")>>)), NamedItem("gone", Braced(<<>>))}
Styles(i) == {[i EXCEPT !.separator = p, !.colon = c] : p \in {"", ",", ";"}, c \in BOOLEAN}
Pairs == {<<a, b>> : a \in UNION {Styles(i) : i \in Small}, b \in Small}

\* Expanded Any values, by good and bad urls.
Url(last, type) ==
    [form |-> "any", tokens |-> <<W("type"), Symbol("."), W("googleapis"), Symbol("."), W(last), Symbol("/"), W(type)>>]
Boxed == {<<Item(Url(l, t), Braced(k))>> : l \in {"com", "org"}, t \in {"Inner", "Group", "None"}, k \in Kids}
Held ==
    LET groups == {<<Item(Url("com", "Group"), Braced(k))>> : k \in Kids}
    IN  {<<NamedItem("any", v)>> : v \in {Braced(b) : b \in Boxed} \cup {Angled(b \o c) : b, c \in groups}}

\* The parser reads a skipped field neither when it is an empty list nor when a
\* separator follows it.
Skipped(i) == i.name.tokens[1].text \in {"gone", "20"}
Readable(items) ==
    \A k \in DOMAIN items :
        Skipped(items[k]) => items[k].separator = "" /\ items[k].value # ListOf(<<>>)

Doc(items) == [items |-> items, cut |-> FALSE, second |-> FALSE]
CutOff == {<<NamedItem("m", v)>> : v \in Messages} \cup {<<NamedItem("r", ListOf(<<One>>))>>}
MCDocuments ==
    {Doc(x) : x \in {x \in Held \cup Singles \cup Pairs : Readable(x)}}
      \cup {[Doc(x) EXCEPT !.cut = TRUE] : x \in CutOff}
      \cup {[Doc(<<x>>) EXCEPT !.second = TRUE] : x \in Small}

SomeSettings == [anyCase |-> FALSE, numbers |-> FALSE, partial |-> FALSE]
MCSettings == {SomeSettings, [anyCase |-> TRUE, numbers |-> FALSE, partial |-> TRUE],
               [anyCase |-> FALSE, numbers |-> TRUE, partial |-> FALSE]}

-----------------------------------------------------------------------------
\* Templates: fields and blocks of a node, i being the variable of the loop
\* around it where there is one.
ValueLine(f, v) == [kind |-> "value", field |-> f, value |-> v]
ExprLine(f, s) == [kind |-> "expr", field |-> f, tokens |-> s]
NodeLines(items) == [kind |-> "message", field |-> "node", items |-> items]
IfBlock(e, x) == [kind |-> "block", tokens |-> <<"if", "(">> \o e \o <<")">>, body |-> x]
ForBlock(v, l, x) == [kind |-> "block", tokens |-> <<"for", "(", v, ":", l, ")">>, body |-> x]
ParamLine(s) == [kind |-> "param", tokens |-> s]

MCTemplateArgs == [n |-> Number(2), l |-> [num |-> 0, element |-> <<Number(1), Number(3)>>, err |-> FALSE]]

Within == {ValueLine("stream", 1), ExprLine("stream", <<"i">>), ExprLine("name", <<"i", "+", "n">>),
           ValueLine("name", 2), IfBlock(<<"i", "==", "1">>, ValueLine("stream", 2)),
           IfBlock(<<"i", "!=", "1">>, ValueLine("name", 3)),
           ForBlock("j", "l", ExprLine("stream", <<"i", "*", "j">>)),
           ForBlock("j", "l", IfBlock(<<"j", ">", "i">>, ExprLine("stream", <<"j">>))),
           IfBlock(<<"i", "<", "n">>, IfBlock(<<"1">>, ValueLine("name", 5)))}
Repeatable == {NodeLines(<<x>>) : x \in Within} \cup {NodeLines(<<x, y>>) : x, y \in Within}
Looped == {ForBlock("i", "l", x) : x \in Repeatable}
            \cup {ForBlock("i", "l", IfBlock(<<"i", ">=", "n">>, x)) : x \in Repeatable}
            \cup {IfBlock(<<"n", "==", "2">>, ForBlock("i", "l", x)) : x \in Repeatable}
Around == {NodeLines(<<ValueLine("stream", 1)>>), ExprLine("stream", <<"n">>),
           IfBlock(<<"0">>, NodeLines(<<ValueLine("name", 3)>>)),
           ForBlock("i", "l", NodeLines(<<ExprLine("name", <<"i">>)>>))}

\* Expressions of three operators, with and without brackets, and calls.
Infix == {"*", "-", "<", "==", "&&", "||"}
Expressions ==
    {<<"5", o, b, p, "1", q, d>> : b \in {"2", "3"}, d \in {"2", "0"}, o, p, q \in Infix}
      \cup {<<"5", o, "(", "3", p, "1", q, "2", ")">> : o, p, q \in Infix}
      \cup {<<"min", "(", "5", ",", "3", "-", "1", ")", "*", "2">>, <<"size", "(", "l", ")">>,
            <<"!", "(", "n", ")">>, <<"max", "(", "list", "(", "1", ")", ",", "3", ")">>}
SomeText == <<ExprLine("stream", <<"n">>)>>
MCTexts ==
    {SomeText} \cup {<<x>> : x \in Looped} \cup {<<x, y>> : x \in Looped, y \in Around} \cup {<<y, x>> : x \in Looped, y \in Around}
      \cup {<<ParamLine(<<"param", "i", ":", "n", "+", "1">>), x>> : x \in Repeatable}
      \cup {<<ParamLine(<<"param", "n", ":", "5">>), ParamLine(<<"param", "l">>), x>> : x \in Looped}
      \cup {<<ExprLine("stream", e)>> : e \in Expressions}

-----------------------------------------------------------------------------
\* Options: a graph and a calculator with options of the same shape.
OptionKind(kind, repeated) == [kind |-> kind, repeated |-> repeated]
OptionFields == [x |-> OptionKind("int", FALSE), r |-> OptionKind("int", TRUE), n |-> OptionKind("Nested", FALSE)]
MCOptionTypes ==
    [Options |-> OptionFields, GraphOptions |-> OptionFields, Nested |-> [x |-> OptionKind("int", FALSE)],
     Node  |-> [options |-> OptionKind("CalculatorOptions", FALSE), node_options |-> OptionKind("Any", TRUE)],
     Graph |-> [options |-> OptionKind("CalculatorOptions", FALSE), graph_options |-> OptionKind("Any", TRUE)],
     CalculatorOptions |-> [Options |-> OptionKind("Options", FALSE), GraphOptions |-> OptionKind("GraphOptions", FALSE)],
     Any |-> [any |-> OptionKind("Any", FALSE)]]
MCExtensions == <<"Options", "GraphOptions">>

Nest(n) == Msg("Nested", [x |-> <<Scalar(n)>>])
Contents(k) == {[x |-> <<Scalar(k)>>], [r |-> <<Scalar(k), Scalar(k + 1)>>, n |-> <<Nest(k)>>],
                [x |-> <<Scalar(k)>>, r |-> <<>>, n |-> <<Nest(k)>>]}
InOptions(type, fields) == [options |-> <<Msg("CalculatorOptions", (type :> <<Msg(type, fields)>>))>>]

\* OptionPaths into the options, of fields, an element of a list, and an extension.
PathOf(s) == [i \in DOMAIN s |-> IF s[i] = "0" THEN Token("index", "", 0)
                                 ELSE IF s[i] = "Ext" THEN Token("ext", "Options", 0) ELSE Token("name", s[i], 0)]
OptionPaths == {PathOf(p) : p \in {<<"x">>, <<"options", "x">>, <<"r">>, <<"r", "0">>, <<"n">>, <<"n", "x">>,
                             <<"Ext", "x">>, <<"z">>}}
OfMessage(p) == p[Len(p)].name = "n"
Copies == {d \in [to : OptionPaths, from : OptionPaths] : OfMessage(d.to) = OfMessage(d.from)}
CopiedByName(name) == [to |-> PathOf(<<name>>), from |-> PathOf(<<name>>)]
NodesWith(values) ==
    {[node |-> Msg("Node", InOptions("Options", c)), values |-> values] : c \in Contents(1)}
      \cup {[node |-> Msg("Node", [node_options |-> <<SerializeProtobufAny(Msg("Options", c))>>]),
             values |-> values] : c \in Contents(1)}
GraphWith(options, n) == Msg("Graph", [graph_options |-> options]) @@ [nodes |-> <<n>>]
SomeGraph == GraphWith(<<>>, CHOOSE n \in NodesWith(<<CopiedByName("x")>>) : TRUE)
MCOptionGraphs ==
    {SomeGraph} \cup
    {GraphWith(f, n) :
       f \in {<<SerializeProtobufAny(Msg("GraphOptions", c))>> : c \in Contents(3)} \cup {<<>>},
       n \in UNION {NodesWith(<<d>>) : d \in Copies} \cup NodesWith(<<CopiedByName("x"), CopiedByName("r")>>)}
SomeParent == Msg("Node", [node_options |-> <<>>])
MCParents ==
    {SomeParent} \cup {Msg("Node", InOptions("GraphOptions", c)) : c \in Contents(5)}
      \cup {Msg("Node", [node_options |-> <<SerializeProtobufAny(Msg("GraphOptions", c))>>]) : c \in Contents(5)}
MCOptionPackets ==
    {NotSet, Msg("Options", [x |-> <<Scalar(9)>>]),
     Msg("CalculatorOptions", [Options |-> <<Msg("Options", [r |-> <<Scalar(9)>>])>>])}

-----------------------------------------------------------------------------
\* Serialized messages, packed and not, with and without messages in them, the
\* values of a field apart and after a field nobody asks for.
Tagged(id, wire_type, value) == [id |-> id, wire_type |-> wire_type, value |-> value]
PackedNumbers(ns) == Tagged(LeafField, "len", [num |-> 0, nums |-> ns, msg |-> <<>>])
LeafNumber(type, n) == Tagged(LeafField, WireTypeForFieldType(type), WireValue(n))
Inside(m) == Tagged(MessageField, "len", SubMessage(m))
Unasked == Tagged(3, "varint", WireValue(1))
MCTextValues == {-1, 6}
MCLeafTypes == {"sint64", "int32", "uint64", "double", "string"}
WireMessagesOf(type) ==
    LET one == LeafNumber(type, 1)
        packed == IF WireTypeForFieldType(type) = "len" THEN {} ELSE {PackedNumbers(<<1, 0, 1>>)}
        leaves == {<<>>, <<one>>, <<Unasked, one>>} \cup {<<x, one>> : x \in packed}
    IN  leaves \cup {<<Inside(a)>> \o b : a, b \in leaves} \cup {<<one, Inside(<<x, one>>), Inside(<<one>>)>> : x \in packed}
MCMessagesOnWire == [type \in MCLeafTypes |-> WireMessagesOf(type)]

-----------------------------------------------------------------------------
(* The parts.                                                              *)

ConfigPartsInit ==
    /\ part \in Parts
    /\ TagMapInit /\ SorterInit /\ BuilderInit /\ SwitchInit /\ RunInit
    /\ IF part = "expansion" THEN ExpansionInit ELSE ExpansionOf(SomeTopConfig)
    /\ IF part = "validation" THEN ConfigInit ELSE ValidationOf(SomeConfig)
    /\ IF part = "text" THEN TextInit ELSE ReaderWith(SomeSettings)
    /\ IF part = "templates" THEN TemplateInit ELSE TemplateOf(SomeText)
    /\ IF part = "options" THEN OptionsInit ELSE OptionsWith(SomeGraph, SomeParent)
    /\ IF part = "wire" THEN WireInit ELSE WireOf("string", <<>>)
    /\ IF part = "sinks" THEN SinkInit ELSE SinksOf(SomeNodes, SomeHeaderRun)
    /\ IF part = "container" THEN ContainerInit ELSE ExpandingContainer(SomeContainer)
    /\ IF part = "opening" THEN OpeningInit ELSE OpeningOf(SomeOpening)

TagMapPart ==
    /\ part = "names" /\ TagMapNext
    /\ UNCHANGED <<part, expansionVars, sorterVars, configVars, textVars, templateVars, optionsVars, wireVars,
                   builderVars, sinkVars, containerVars, switchVars, runVars, openingVars>>
ExpansionPart ==
    /\ part = "expansion" /\ ExpandSubgraphs
    /\ UNCHANGED <<part, ports, sorterVars, configVars, textVars, templateVars, optionsVars, wireVars,
                   builderVars, sinkVars, containerVars, switchVars, runVars, openingVars>>
SorterPart ==
    /\ part = "sorter" /\ SorterNext
    /\ UNCHANGED <<part, ports, expansionVars, configVars, textVars, templateVars, optionsVars, wireVars,
                   builderVars, sinkVars, containerVars, switchVars, runVars, openingVars>>
ValidationPart ==
    /\ part = "validation" /\ ConfigNext
    /\ UNCHANGED <<part, ports, expansionVars, sorterVars, textVars, templateVars, optionsVars, wireVars,
                   builderVars, sinkVars, containerVars, switchVars, runVars, openingVars>>
TextPart ==
    /\ part = "text" /\ TextNext
    /\ UNCHANGED <<part, ports, expansionVars, sorterVars, configVars, templateVars, optionsVars, wireVars,
                   builderVars, sinkVars, containerVars, switchVars, runVars, openingVars>>
TemplatePart ==
    /\ part = "templates" /\ TemplateNext
    /\ UNCHANGED <<part, ports, expansionVars, sorterVars, configVars, textVars, optionsVars, wireVars,
                   builderVars, sinkVars, containerVars, switchVars, runVars, openingVars>>
OptionsPart ==
    /\ part = "options" /\ OptionsNext
    /\ UNCHANGED <<part, ports, expansionVars, sorterVars, configVars, textVars, templateVars, wireVars,
                   builderVars, sinkVars, containerVars, switchVars, runVars, openingVars>>
BuilderPart ==
    /\ part = "builder" /\ BuilderNext
    /\ UNCHANGED <<part, ports, expansionVars, sorterVars, configVars, textVars, templateVars,
                   optionsVars, wireVars, sinkVars, containerVars, switchVars, runVars, openingVars>>
SinkPart ==
    /\ part = "sinks" /\ SinkNext
    /\ UNCHANGED <<part, ports, expansionVars, sorterVars, configVars, textVars, templateVars,
                   optionsVars, wireVars, builderVars, containerVars, switchVars, runVars, openingVars>>
ContainerPart ==
    /\ part = "container" /\ ContainerNext
    /\ UNCHANGED <<part, ports, expansionVars, sorterVars, configVars, textVars, templateVars,
                   optionsVars, wireVars, builderVars, sinkVars, switchVars, runVars, openingVars>>
RoutingPart ==
    /\ part = "routing" /\ SwitchNext
    /\ UNCHANGED <<part, ports, expansionVars, sorterVars, configVars, textVars, templateVars,
                   optionsVars, wireVars, builderVars, sinkVars, containerVars, runVars, openingVars>>
RunPart ==
    /\ part = "run" /\ RunNext
    /\ UNCHANGED <<part, ports, expansionVars, sorterVars, configVars, textVars, templateVars,
                   optionsVars, wireVars, builderVars, sinkVars, containerVars, switchVars, openingVars>>
OpeningPart ==
    /\ part = "opening" /\ OpeningNext
    /\ UNCHANGED <<part, ports, expansionVars, sorterVars, configVars, textVars, templateVars,
                   optionsVars, wireVars, builderVars, sinkVars, containerVars, switchVars, runVars>>
WirePart ==
    /\ part = "wire" /\ WireNext
    /\ UNCHANGED <<part, ports, expansionVars, sorterVars, configVars, textVars, templateVars,
                   optionsVars, builderVars, sinkVars, containerVars, switchVars, runVars, openingVars>>

ConfigPartsNext ==
    \/ TagMapPart \/ ExpansionPart \/ SorterPart \/ ValidationPart \/ TextPart \/ TemplatePart \/ OptionsPart
    \/ WirePart \/ BuilderPart \/ SinkPart \/ ContainerPart \/ RoutingPart \/ RunPart \/ OpeningPart

ConfigPartsSpec == ConfigPartsInit /\ [][ConfigPartsNext]_configPartVars

-----------------------------------------------------------------------------
\* Names and their subgraphs: ports are found by the tags and indexes they were
\* written with, and expanding subgraphs changes no connection.
NamesSound == PortsFoundAgain /\ CanonicalTextReadsBack /\ ExpansionKeepsWiring

\* What is judged when a config is validated, the order of its nodes included.
ConfigsSound == SortedOrCycleReported /\ ValidationSound


\* A graph that is built in C++, or given sinks, has the connections asked for.
ConnectionsSound == BuiltAsConnected /\ SinksConnected

\* A switch container routes a packet through the channel selected at its time.
SwitchSound == WiredThrough /\ RoutedAsSelected
=============================================================================
