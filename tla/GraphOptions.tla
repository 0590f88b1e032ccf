---------------------------- MODULE GraphOptions ----------------------------
(***************************************************************************)
(* Options that a node takes from the options of its graph and of the node *)
(* that stands for the graph ("option_value"), and the options a           *)
(* calculator finally reads.                                               *)
(*   src/mediapipe/framework/tool/options_util.cc, options_field_util.cc,  *)
(*   options_syntax_util.cc, options_map.h, options_util.h                 *)
(*                                                                         *)
(* A message is a record of its type and its fields as they are            *)
(* serialized: a field may have several values, of a singular scalar the   *)
(* last counts and those of a singular message are merged.                 *)
(***************************************************************************)
EXTENDS Integers, Sequences, FiniteSets, SequencesExt

CONSTANTS Types,        \* message type -> field -> [kind, repeated]
          Extensions,   \* extension types of CalculatorOptions, as registered
          GraphConfigs, \* graphs with their nodes
          ParentNodes,  \* nodes that stand for a graph
          OptionPackets \* packets for the OPTIONS side packet

VARIABLES graph, parentNode, nodes, optionsStep, read

optionsVars == <<graph, parentNode, nodes, optionsStep, read>>

Msg(type, fields) == [type |-> type, value |-> fields]
Scalar(n) == [type |-> "int", value |-> n]
NotSet == [type |-> "none", value |-> <<>>]
Ok(v) == [ok |-> TRUE, v |-> v]
Failure == [ok |-> FALSE, v |-> <<>>]

Kind(m, field) == Types[m.type][field].kind
FieldValues(m, field) == IF field \in DOMAIN m.value THEN m.value[field] ELSE <<>>
WithField(m, field, values) ==
  [m EXCEPT !.value = [g \in DOMAIN @ \cup {field} |-> IF g = field THEN values ELSE @[g]]]

\* Any: a message together with its type.
ParseProtobufAny(a) == a.value.any[1]
SerializeProtobufAny(m) == Msg("Any", [any |-> <<m>>])

-----------------------------------------------------------------------------
\* A FieldPathEntry: a field, or the type of an extension, and an index or -1.
PathEntry(field, index, extension) == [field |-> field, index |-> index, extension |-> extension]
NoName == ""

FirstIn(s, T) == IF T = {} THEN -1 ELSE (CHOOSE i \in T : \A j \in T : i <= j) - 1

\* The index of an extension type in a repeated Any field, or -1.
FindExtensionIndex(m, e) ==
  IF e.field = NoName \/ Kind(m, e.field) # "Any" THEN -1
  ELSE LET s == FieldValues(m, e.field) IN
       FirstIn(s, {i \in DOMAIN s : e.extension = "*" \/ ParseProtobufAny(s[i]).type = e.extension})

\* The extension field of a message for a type.
FindExtensionField(m, extension) ==
  LET s == IF m.type = "CalculatorOptions" THEN Extensions ELSE <<>>
      fits == {i \in DOMAIN s : s[i] = extension \/ (extension = "*" /\ FieldValues(m, s[i]) # <<>>)} IN
  IF fits = {} THEN NoName ELSE s[FirstIn(s, fits) + 1]

FindExtension(m, e) ==
  LET Found(index, field) ==
        CASE e.extension = NoName -> Ok(e)
          [] e.extension # NoName /\ index # -1 -> Ok([e EXCEPT !.index = index])
          [] e.extension # NoName /\ index = -1 /\ field # NoName -> Ok([e EXCEPT !.field = field, !.index = 0])
          [] OTHER -> Failure
  IN Found(FindExtensionIndex(m, e), FindExtensionField(m, e.extension))

AtLeast0(n) == IF n < 0 THEN 0 ELSE n

RECURSIVE GetFieldValues(_, _)
\* All values of the field at the end of a path, or the one at its index.
GetFieldValues(m, path) ==
  LET last == Len(path) = 1
      Chosen(results, index) ==
        IF Len(results) <= index THEN Failure
        ELSE IF ~last THEN GetFieldValues(results[index + 1], Tail(path))
        ELSE Ok(IF index > -1 THEN <<results[index + 1]>> ELSE results)
      AnysParsed(values, kind) == IF kind = "Any" THEN [i \in DOMAIN values |-> ParseProtobufAny(values[i])] ELSE values
      Within(found) ==
        IF ~found.ok \/ found.v.field = NoName THEN Failure
        ELSE Chosen(AnysParsed(FieldValues(m, found.v.field), Kind(m, found.v.field)),
                    IF last THEN found.v.index ELSE AtLeast0(found.v.index))
  IN IF path = <<>> THEN Ok(<<m>>) ELSE Within(FindExtension(m, Head(path)))

GetField(m, path) ==
  LET First(r) == IF ~r.ok \/ r.v = <<>> THEN Failure ELSE Ok(r.v[1]) IN First(GetFieldValues(m, path))

\* Values stand for the one at an index, or for all values of a field.
SetFieldEntry(m, e, values) ==
  LET old == FieldValues(m, e.field) IN
  IF e.field = NoName \/ e.index >= Len(old) THEN Failure
  ELSE Ok(WithField(m, e.field, IF e.index = -1 THEN values
            ELSE SubSeq(old, 1, e.index) \o values \o SubSeq(old, e.index + 2, Len(old))))

RECURSIVE SetFieldValues(_, _, _)
SetFieldValues(m, path, values) ==
  IF path = <<>> THEN IF values = <<>> THEN Failure ELSE Ok(values[1])
  ELSE LET Put(e, child) ==
             IF ~child.ok THEN Failure
             ELSE SetFieldEntry(m, e, <<IF Kind(m, e.field) = "Any" THEN SerializeProtobufAny(child.v) ELSE child.v>>)
           Below(e) ==
             IF e.field = NoName \/ e.index >= Len(FieldValues(m, e.field)) THEN Failure
             ELSE Put(e, SetFieldValues(FieldValues(m, e.field)[e.index + 1], Tail(path), values))
           Within(found) ==
             IF ~found.ok THEN Failure
             ELSE IF Len(path) = 1 THEN SetFieldEntry(m, found.v, values)
             ELSE Below([found.v EXCEPT !.index = AtLeast0(@)])
       IN Within(FindExtension(m, Head(path)))

-----------------------------------------------------------------------------
\* The serialized fields of both, one after the other.
Concatenated(a, b) ==
  Msg(a.type, [g \in DOMAIN a.value \cup DOMAIN b.value |-> FieldValues(a, g) \o FieldValues(b, g)])

\* Seeded fault: the base overrides.
BaseLast(base, over) ==
  IF over = NotSet THEN Ok(base) ELSE IF base = NotSet THEN Ok(over) ELSE Ok(Concatenated(over, base))

MergeMessages(base, over) ==
  IF over = NotSet THEN Ok(base) ELSE IF base = NotSet THEN Ok(over)
  ELSE IF base.type # over.type THEN Failure ELSE Ok(Concatenated(base, over))

\* For each new field index, any previous value is merged with the new value.
MergeFieldValues(m, path, values) ==
  LET Set(merged) == IF \E i \in DOMAIN merged : ~merged[i].ok THEN Failure
                     ELSE SetFieldValues(m, path, [i \in DOMAIN merged |-> merged[i].v])
      Merge(prevs) == IF ~prevs.ok THEN Failure
                      ELSE Set([i \in DOMAIN values |-> IF values[i].type # "int" /\ i \in DOMAIN prevs.v
                                                         THEN MergeMessages(prevs.v[i], values[i]) ELSE Ok(values[i])])
  IN Merge(GetFieldValues(m, path))

\* The options of a node or a graph: the extension in "options", or else the
\* Any in node_options or graph_options.
GetExtensionPath(extension, field, is_protobuf_any) ==
  IF is_protobuf_any THEN <<PathEntry(field, -1, extension)>>
  ELSE <<PathEntry(field, 0, NoName), PathEntry(NoName, -1, extension)>>

GetOptions(m, extension, any_field) ==
  LET Or(r) == IF r.ok THEN r ELSE GetField(m, GetExtensionPath(extension, any_field, TRUE))
  IN Or(GetField(m, GetExtensionPath(extension, "options", FALSE)))

GetNodeOptions(m, extension) == GetOptions(m, extension, "node_options")
GetGraphOptions(m, extension) == GetOptions(m, extension, "graph_options")

\* Sets the node_options field in a node, and clears the options field.
SetOptionsMessage(node, options) ==
  LET all == FieldValues(node, "node_options")
      same == {i \in DOMAIN all : ParseProtobufAny(all[i]).type = options.type}
      last == CHOOSE i \in same : \A j \in same : j <= i IN
  WithField(WithField(node, "node_options",
    IF same = {} THEN Append(all, SerializeProtobufAny(options))
    ELSE [all EXCEPT ![last] = SerializeProtobufAny(options)]), "options", <<>>)

-----------------------------------------------------------------------------
\* A tag is a sequence of tokens: field names, indices, extension types.
Token(kind, name, index) == [kind |-> kind, name |-> name, index |-> index]
Starts(tag, name) == tag # <<>> /\ tag[1].name = name
Without(tag, name) == IF Starts(tag, name) THEN Tail(tag) ELSE tag

OptionFieldsTag(tag) == <<Token("name", "OPTIONS", 0)>> \o Without(Without(tag, "OPTIONS"), "options")
OptionTagNames(tag) == IF Starts(tag, "OPTIONS") THEN Tail(tag) ELSE Without(tag, "options")

\* The path of a tag below a message type; it ends where the type is not known.
OptionFieldPath(tag, type) ==
  LET Step(acc, t) ==
        CASE t.kind = "index" -> [acc EXCEPT !.path[Len(acc.path)].index = t.index]
          [] t.kind = "ext" -> [path |-> Append(acc.path, PathEntry(NoName, 0, t.name)), type |-> t.name]
          [] OTHER -> IF acc.type \notin DOMAIN Types THEN acc
                      ELSE LET known == t.name \in DOMAIN Types[acc.type] IN
                           [path |-> Append(acc.path, PathEntry(IF known THEN t.name ELSE NoName, -1, NoName)),
                            type |-> IF known THEN Types[acc.type][t.name].kind ELSE "none"] IN
  FoldLeft(Step, [path |-> <<>>, type |-> type], OptionTagNames(tag)).path

\* The type for the root options message, if specified.
ExtensionType(tag) ==
  LET Root(path) == IF path # <<>> /\ path[1].extension # NoName THEN path[1].extension ELSE "*"
  IN Root(OptionFieldPath(tag, "none"))

OrNotSet(r) == IF r.ok THEN r.v ELSE NotSet

\* One option_value of a node: [to, from].
CopyOption(node, def) ==
  LET graph_tag == OptionFieldsTag(def.from)
      node_tag == OptionFieldsTag(def.to)
      Set(merged) == IF merged.ok THEN Ok(SetOptionsMessage(node, merged.v)) ELSE Failure
      Merge(node_options, values) ==
        IF ~values.ok THEN Failure
        ELSE Set(MergeFieldValues(node_options, OptionFieldPath(node_tag, node_options.type), values.v))
      Copy(graph_options, node_options) ==
        CASE ~graph_options.ok \/ ~node_options.ok -> Failure
          [] graph_options.ok /\ node_options.ok /\ graph_options.v = NotSet -> Ok(node)
          [] OTHER -> Merge(node_options.v, GetFieldValues(graph_options.v, OptionFieldPath(graph_tag, graph_options.v.type)))
      Merged(extension) == MergeMessages(OrNotSet(GetGraphOptions(graph, extension)), OrNotSet(GetNodeOptions(parentNode, extension)))
  IN Copy(Merged(ExtensionType(graph_tag)), GetNodeOptions(node, ExtensionType(node_tag)))

\* CopyLiteralOptions: a node's options are copied in order, up to an error.
CopyLiteralOptions ==
  /\ optionsStep = "define"
  /\ LET Copy(acc, def) == IF acc.ok THEN CopyOption(acc.v, def) ELSE Failure
         Outcome(results) ==
           IF \E i \in DOMAIN nodes : ~results[i].ok THEN optionsStep' = "failed" /\ UNCHANGED nodes
           ELSE optionsStep' = "open" /\ nodes' = [i \in DOMAIN nodes |-> [node |-> results[i].v, values |-> <<>>]]
     IN Outcome([i \in DOMAIN nodes |-> FoldLeft(Copy, Ok(nodes[i].node), nodes[i].values)])
  /\ UNCHANGED <<graph, parentNode, read>>

-----------------------------------------------------------------------------
RECURSIVE Parsed(_)
\* A message as a reader parses it: every singular field has one value.
Parsed(m) ==
  LET One(values) == IF values[1].type = "int" THEN <<values[Len(values)]>>
                     ELSE <<Parsed(FoldLeft(Concatenated, values[1], Tail(values)))>>
      All(values) == [i \in DOMAIN values |-> IF values[i].type = "int" THEN values[i] ELSE Parsed(values[i])] IN
  Msg(m.type, [g \in {h \in DOMAIN m.value : m.value[h] # <<>>} |->
                 IF Types[m.type][g].repeated THEN All(m.value[g]) ELSE One(m.value[g])])

\* OptionsMap::Get: from "options" if the node has them, or else the last of its type.
OptionsOf(node, type) ==
  LET anys == SelectSeq(FieldValues(node, "node_options"), LAMBDA a : ParseProtobufAny(a).type = type) IN
  IF FieldValues(node, "options") # <<>>
  THEN LET s == FieldValues(FieldValues(node, "options")[1], type) IN IF s = <<>> THEN Msg(type, <<>>) ELSE Parsed(s[1])
  ELSE IF anys = <<>> THEN Msg(type, <<>>) ELSE Parsed(ParseProtobufAny(Last(anys)))

\* RetrieveOptions: a packet with the options, or with CalculatorOptions, is merged.
RetrieveOptions(base, packet) ==
  CASE packet = NotSet -> base
    [] packet.type = base.type -> Parsed(Concatenated(base, packet))
    [] OTHER -> LET s == FieldValues(packet, base.type) IN IF s = <<>> THEN base ELSE Parsed(Concatenated(base, s[1]))

OpenOptionsNode(i, packet) ==
  /\ optionsStep = "open" /\ optionsStep' = "read" /\ i \in DOMAIN nodes
  /\ read' = [node |-> i, packet |-> packet, options |-> RetrieveOptions(OptionsOf(nodes[i].node, "Options"), packet)]
  /\ UNCHANGED <<graph, parentNode, nodes>>

OptionsWith(g, p) ==
  /\ graph = g /\ parentNode = p /\ nodes = g.nodes
  /\ optionsStep = "define" /\ read = NotSet
OptionsInit == \E g \in GraphConfigs, p \in ParentNodes : OptionsWith(g, p)

OptionsNext == CopyLiteralOptions \/ \E i \in 1 .. 2, packet \in OptionPackets : OpenOptionsNode(i, packet)
-----------------------------------------------------------------------------
\* The options of the graph as a reader would merge them.
MergedOptions(extension) ==
  LET base == OrNotSet(GetGraphOptions(graph, extension))
      over == OrNotSet(GetNodeOptions(parentNode, extension)) IN
  IF over = NotSet THEN base ELSE IF base = NotSet THEN over ELSE Parsed(Concatenated(base, over))

\* A parsed message with the values at one path put at another.
Placed(m, def) ==
  LET options == MergedOptions(ExtensionType(OptionFieldsTag(def.from)))
      values == GetFieldValues(options, OptionFieldPath(OptionFieldsTag(def.from), options.type)).v IN
  IF options.type = "none" THEN m
  ELSE Parsed(MergeFieldValues(m, OptionFieldPath(OptionFieldsTag(def.to), m.type), values).v)

SameAsMeant ==
  LET old == graph.nodes[read.node] IN
  read.options = RetrieveOptions(FoldLeft(Placed, OptionsOf(old.node, "Options"), old.values), read.packet)

\* The graph and its parent node set the same field, which is not the whole of what is copied.
ParentCovers ==
  \E i \in DOMAIN graph.nodes : \E k \in DOMAIN graph.nodes[i].values :
    LET def == graph.nodes[i].values[k]
        path == OptionFieldPath(OptionFieldsTag(def.from), "GraphOptions")
        to == OptionFieldPath(OptionFieldsTag(def.to), "Options")
        Sets(r) == r.ok /\ GetFieldValues(r.v, <<Head(path)>>).ok /\ GetFieldValues(r.v, <<Head(path)>>).v # <<>> IN
    /\ path # <<>> /\ Sets(GetGraphOptions(graph, "*")) /\ Sets(GetNodeOptions(parentNode, "*"))
    /\ Len(path) > 1 \/ (to # <<>> /\ Types["Options"][Head(to).field].repeated /\ ~Types["GraphOptions"][Head(path).field].repeated)

(***************************************************************************)
(* A calculator reads its own options with each option_value in its place: *)
(* the graph's value, or the value the node that stands for the graph      *)
(* overrides it with; the options that are not named stay as they are,     *)
(* whether they were given as an extension or as an Any.  Where a field is *)
(* overridden below a nested message, or copied to a repeated one, the     *)
(* code does something else.                                               *)
(***************************************************************************)
OptionsDerived == optionsStep = "read" /\ ~ParentCovers => SameAsMeant

=============================================================================
