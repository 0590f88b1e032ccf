------------------------------- MODULE TagMap -------------------------------
(***************************************************************************)
(* How a node's ports are named.  A config lists ports as text of the form *)
(* name, TAG:name or TAG:index:name (tool/validate_name.cc); a TagMap      *)
(* (tool/tag_map.cc) groups them by tag, orders them and gives every port  *)
(* a CollectionItemId, its place in one flat array; a Collection           *)
(* (collection.h) is that array.  Here a port's text is the sequence of    *)
(* its fields, the pieces between colons.                                  *)
(***************************************************************************)
EXTENDS Integers, Sequences, FiniteSets, SequencesExt

CONSTANTS NameFields,   \* the fields that read as a name: [a-z_][a-z0-9_]*
          TagFields,    \* the fields that read as a tag:  [A-Z_][A-Z0-9_]*
          NumberValue,  \* field -> number, for (0|[1-9][0-9]*)
          OtherFields,  \* fields that are none of these, such as "01"
          TagOrder      \* the tags in the order of std::map, "" first

BadPorts == [ok |-> FALSE]

ValidateName(f) == f \in NameFields
ValidateTag(f) == f \in TagFields
ValidateNumber(f) == f \in DOMAIN NumberValue

\* A name alone leaves the index open (-1); a tag alone means index 0.
ParseTagIndexName(v) ==
    CASE Len(v) = 1 /\ ValidateName(v[1])
           -> [ok |-> TRUE, tag |-> "", index |-> -1, name |-> v[1]]
      [] Len(v) = 2 /\ ValidateTag(v[1]) /\ ValidateName(v[2])
           -> [ok |-> TRUE, tag |-> v[1], index |-> 0, name |-> v[2]]
      [] Len(v) = 3 /\ ValidateTag(v[1]) /\ ValidateNumber(v[2])
                    /\ ValidateName(v[3])
           -> [ok |-> TRUE, tag |-> v[1], index |-> NumberValue[v[2]],
               name |-> v[3]]
      [] OTHER -> BadPorts

\* One port of the list, [names, count]: names holds what each tag's indexes
\* are called so far (a gap is the empty name), count how many were given.
NoPorts == [ok |-> TRUE, names |-> [t \in Range(TagOrder) |-> <<>>],
            count |-> [t \in Range(TagOrder) |-> 0]]

Size(names, index) == IF Len(names) > index THEN Len(names) ELSE index + 1
NameAt(names, index) == IF index < Len(names) THEN names[index + 1] ELSE ""

Named(acc, p, index) ==
    LET old == acc.names[p.tag]
    IN [ok |-> TRUE,
        names |-> [acc.names EXCEPT ![p.tag] =
                     [i \in 1..Size(old, index) |->
                        IF i = index + 1 THEN p.name ELSE NameAt(old, i - 1)]],
        count |-> [acc.count EXCEPT ![p.tag] = @ + 1]]

AddPort(acc, p) ==
    LET index == IF p.index = -1 THEN acc.count[p.tag] ELSE p.index
    IN IF ~acc.ok \/ ~p.ok THEN BadPorts
       ELSE IF NameAt(acc.names[p.tag], index) # "" THEN BadPorts
       ELSE Named(acc, p, index)

\* The names in the order of the tags, then of the indexes.
InitializeNames(names) ==
    FlattenSeq([i \in 1..Len(TagOrder) |-> names[TagOrder[i]]])

\* mapping_: the tag's first id and its number of indexes.
TagData(count) ==
    [t \in {t \in Range(TagOrder) : count[t] > 0} |->
       [id |-> FoldLeft(LAMBDA sum, u : sum + count[u], 0,
                        SelectSeq(TagOrder, LAMBDA u :
                                    \E i, j \in DOMAIN TagOrder :
                                       TagOrder[i] = u /\ TagOrder[j] = t /\ i < j)),
        count |-> count[t]]]

\* Every tag must have as many ports as its names reach, or an index was left
\* out.
TagMapInitialize(ports) ==
    LET acc == FoldLeft(LAMBDA a, v : AddPort(a, ParseTagIndexName(v)),
                        NoPorts, ports)
    IN IF ~acc.ok \/ (\E t \in DOMAIN acc.count : acc.count[t] # Len(acc.names[t]))
       THEN BadPorts
       ELSE [ok |-> TRUE, mapping |-> TagData(acc.count),
             names |-> InitializeNames(acc.names)]

\* The older form of a list, all tags or none (TagAndNameInfo).
GetTagAndNameInfo(ports) ==
    LET parsed == [i \in DOMAIN ports |-> ParseTagIndexName(ports[i])]
        tagged == {i \in DOMAIN ports : parsed[i].ok /\ parsed[i].tag # ""}
    IN IF (\E i \in DOMAIN ports : ~parsed[i].ok \/ Len(ports[i]) > 2)
          \/ (tagged # {} /\ tagged # DOMAIN ports)
       THEN BadPorts
       ELSE [ok |-> TRUE,
             tags |-> IF tagged = {} THEN <<>>
                      ELSE [i \in DOMAIN ports |-> parsed[i].tag],
             names |-> [i \in DOMAIN ports |-> parsed[i].name]]

\* A tag may be used once there; untagged names keep their order.
InitializeFromInfo(info) ==
    LET With(t) == {i \in DOMAIN info.tags : info.tags[i] = t}
    IN CASE ~info.ok -> BadPorts
         [] info.ok /\ info.tags = <<>> ->
              [ok |-> TRUE, names |-> info.names,
               mapping |-> IF info.names = <<>> THEN <<>>
                           ELSE [t \in {""} |-> [id |-> 0, count |-> Len(info.names)]]]
         [] OTHER ->
              IF \E t \in Range(TagOrder) : Cardinality(With(t)) > 1 THEN BadPorts
              ELSE [ok |-> TRUE,
                    mapping |-> TagData([t \in Range(TagOrder) |-> Cardinality(With(t))]),
                    names |-> InitializeNames([t \in Range(TagOrder) |->
                                 IF With(t) = {} THEN <<>>
                                 ELSE <<info.names[CHOOSE i \in With(t) : TRUE]>>])]

NumEntries(m) == Len(m.names)

\* The place of a port, counted from 0; -1 when there is none.
GetId(m, tag, index) ==
    IF tag \in DOMAIN m.mapping /\ index \in 0..m.mapping[tag].count - 1
    THEN m.mapping[tag].id + index ELSE -1

TagAndIndexFromId(m, id) ==
    IF \E t \in DOMAIN m.mapping :
          id \in m.mapping[t].id..m.mapping[t].id + m.mapping[t].count - 1
    THEN LET t == CHOOSE t \in DOMAIN m.mapping :
                     id \in m.mapping[t].id..m.mapping[t].id + m.mapping[t].count - 1
         IN <<t, id - m.mapping[t].id>>
    ELSE <<"", -1>>

\* Text that reads back as this map: a bare name without a tag, TAG:name for
\* a tag used once, TAG:index:name otherwise.
CanonicalEntry(m, t, i) ==
    LET name == m.names[m.mapping[t].id + i]
    IN CASE t = "" -> <<name>>
         [] t # "" /\ m.mapping[t].count <= 1 -> <<t, name>>
         [] OTHER -> <<t, CHOOSE f \in DOMAIN NumberValue : NumberValue[f] = i - 1, name>>

CanonicalEntries(m) ==
    FlattenSeq([k \in 1..Len(TagOrder) |->
                  IF TagOrder[k] \notin DOMAIN m.mapping THEN <<>>
                  ELSE [i \in 1..m.mapping[TagOrder[k]].count |->
                          CanonicalEntry(m, TagOrder[k], i)]])

-----------------------------------------------------------------------------
(* A list of ports grows one entry at a time.                              *)

CONSTANT MaxPorts       \* bound on the length of a list
VARIABLE ports

PortTexts == {<<f>> : f \in NameFields \union OtherFields}
               \union {<<t, n>> : t \in TagFields \union OtherFields, n \in NameFields}
               \union {<<t, i, n>> : t \in TagFields,
                          i \in DOMAIN NumberValue \union OtherFields, n \in NameFields}

TagMapInit == ports = <<>>
TagMapNext == /\ Len(ports) < MaxPorts
              /\ \E v \in PortTexts : ports' = Append(ports, v)

-----------------------------------------------------------------------------
(* What a well-formed list is, stated without the algorithm.               *)

Claims(t) == {i \in DOMAIN ports : ParseTagIndexName(ports[i]).tag = t}

WellFormed ==
    /\ \A i \in DOMAIN ports : ParseTagIndexName(ports[i]).ok
    /\ \A t \in Range(TagOrder) \ {""} :
         {ParseTagIndexName(ports[i]).index : i \in Claims(t)}
           = 0..Cardinality(Claims(t)) - 1

\* A list is accepted exactly when the indexes given for every tag are 0 to
\* n - 1, each once, in whatever order they were written; and then every port
\* is found under the tag and index it was given, ids being the places
\* 0..NumEntries - 1 with none shared (TagMap::Initialize, GetId and
\* TagAndIndexFromId).
PortsFoundAgain ==
    LET m == TagMapInitialize(ports)
        PlaceOf(i) == LET p == ParseTagIndexName(ports[i])
                      IN GetId(m, p.tag, IF p.index >= 0 THEN p.index
                                         ELSE Cardinality(Claims("") \cap 1..(i - 1)))
    IN /\ m.ok <=> WellFormed
       /\ m.ok =>
            /\ {PlaceOf(i) : i \in DOMAIN ports} = 0..Len(ports) - 1
            /\ NumEntries(m) = Len(ports)
            /\ \A i \in DOMAIN ports :
                 /\ m.names[PlaceOf(i) + 1] = ParseTagIndexName(ports[i]).name
                 /\ LET ti == TagAndIndexFromId(m, PlaceOf(i))
                    IN GetId(m, ti[1], ti[2]) = PlaceOf(i)

\* The canonical text of a map reads back as the same map, and the older way
\* of reading a list agrees with the newer one wherever it accepts it
\* (TagMap::CanonicalEntries, which configs are rewritten with).
CanonicalTextReadsBack ==
    LET m == TagMapInitialize(ports)
        o == InitializeFromInfo(GetTagAndNameInfo(ports))
    IN /\ m.ok => TagMapInitialize(CanonicalEntries(m)) = m
       /\ o.ok => m = o
=============================================================================
