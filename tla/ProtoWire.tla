------------------------------ MODULE ProtoWire ------------------------------
(***************************************************************************)
(* Edits of serialized protobufs without their descriptors: the template   *)
(* expander and the option utilities replace ranges of field values within *)
(* nested messages, in the wire format.                                    *)
(*   src/mediapipe/framework/tool/proto_util_lite.cc                       *)
(*                                                                         *)
(* A serialized message is a sequence of entries [id, wire_type, value]; a *)
(* value holds a number or a text, packed numbers, or a message.  Integers *)
(* have Bits32 and Bits64 bits.                                            *)
(***************************************************************************)
EXTENDS Integers, Sequences, SequencesExt

CONSTANTS Bits32, Bits64,  \* width of the narrow and the wide integers
          WireMessages,    \* the serialized messages of each leaf type
          LeafTypes,       \* types the field LeafField may have
          TextValues,      \* numbers that are written or set
          MaxEdits         \* bound: edits of a message

ASSUME WireAssumption == Bits32 \in Nat \ {0} /\ Bits64 \in Nat /\ Bits64 >= Bits32

VARIABLES wire,      \* the serialized message
          leaf_type, \* the type of LeafField
          meaning,   \* what it means, had it never been serialized
          status,    \* what the last edit returned, and whether its range was there
          edits

wireVars == <<wire, leaf_type, meaning, status, edits>>

\* MessageField holds messages, LeafField values of the leaf type.
MessageField == 1
LeafField == 2

WireValue(n) == [num |-> n, nums |-> <<>>, msg |-> <<>>]
SubMessage(m) == [num |-> 0, nums |-> <<>>, msg |-> m]

-----------------------------------------------------------------------------
(* Types and their encodings.                                              *)

\* ParseValue: what a text of a type may say.
Parsable(type) ==
    LET Signed(bits) == -(2^(bits - 1)) .. 2^(bits - 1) - 1
        Unsigned(bits) == 0 .. 2^bits - 1
    IN  CASE type \in {"int32", "sint32", "sfixed32", "enum"} -> Signed(Bits32)
          [] type \in {"int64", "sint64", "sfixed64"} -> Signed(Bits64)
          [] type \in {"uint32", "fixed32"} -> Unsigned(Bits32)
          [] type \in {"uint64", "fixed64"} -> Unsigned(Bits64)
          [] type = "bool" -> {0, 1}
          [] OTHER -> Int

AsSigned(n, bits) == IF n >= 2^(bits - 1) THEN n - 2^bits ELSE n

\* WireFormatLite: int32 and enum are sign extended, sint32 and sint64 zigzag.
Encoded(type, n) ==
    CASE type \in {"int32", "enum", "int64", "sfixed64"} -> n % 2^Bits64
      [] type = "sfixed32" -> n % 2^Bits32
      [] type \in {"sint32", "sint64"} -> IF n >= 0 THEN 2 * n ELSE -2 * n - 1
      [] OTHER -> n

Decoded(type, w) ==
    CASE type \in {"int32", "enum", "sfixed32"} -> AsSigned(w % 2^Bits32, Bits32)
      [] type \in {"int64", "sfixed64"} -> AsSigned(w, Bits64)
      [] type \in {"sint32", "sint64"} -> IF w % 2 = 0 THEN w \div 2 ELSE -((w + 1) \div 2)
      [] type = "uint32" -> w % 2^Bits32
      [] OTHER -> w

WireTypeForFieldType(type) ==
    CASE type \in {"string", "bytes", "message"} -> "len"
      [] type \in {"fixed32", "sfixed32", "float"} -> "fixed32"
      [] type \in {"fixed64", "sfixed64", "double"} -> "fixed64"
      [] OTHER -> "varint"

-----------------------------------------------------------------------------
(* Access to one field.                                                    *)


\* ReadPackedValues.
ReadPackedValues(value) == [i \in 1 .. Len(value.nums) |-> WireValue(value.nums[i])]

\* The values of the field, packed or not, and the message without them.
GetFieldValuesOf(id, wire_type, message) ==
    LET ValuesOf(e) == IF wire_type # "len" /\ e.wire_type = "len" THEN ReadPackedValues(e.value)
                       ELSE <<e.value>>
        mine == SelectSeq(message, LAMBDA e : e.id = id)
    IN  [rest |-> SelectSeq(message, LAMBDA e : e.id # id),
         values |-> FlattenSeq([i \in 1 .. Len(mine) |-> ValuesOf(mine[i])])]

\* FieldAccess::GetMessage: the values follow the other fields, each with its tag.
SetFieldValuesOf(id, wire_type, access) ==
    access.rest \o [i \in 1 .. Len(access.values) |->
                      [id |-> id, wire_type |-> wire_type, value |-> access.values[i]]]

RECURSIVE ReplaceWireRange(_, _, _, _, _)
\* ReplaceFieldRange: the message, or an error that leaves it alone.
ReplaceWireRange(message, path, length, type, new) ==
    LET id == path[1][1]
        index == path[1][2]
        wire_type == IF Len(path) > 1 THEN "len" ELSE WireTypeForFieldType(type)
        access == GetFieldValuesOf(id, wire_type, message)
        v == access.values
        Failed(m) == [ok |-> FALSE, message |-> m]
        Stored(values) == [ok |-> TRUE, message |->
                             SetFieldValuesOf(id, wire_type, [access EXCEPT !.values = values])]
    IN  IF Len(path) > 1
        THEN IF index \notin 0 .. Len(v) - 1 THEN Failed(message)
             ELSE LET inner == ReplaceWireRange(v[index + 1].msg, Tail(path), length, type, new)
                  IN  IF inner.ok THEN Stored([v EXCEPT ![index + 1] = SubMessage(inner.message)])
                      ELSE Failed(message)
        ELSE IF index \notin 0 .. Len(v) \/ index + length \notin 0 .. Len(v) THEN Failed(message)
             ELSE Stored(SubSeq(v, 1, index) \o new \o SubSeq(v, index + length + 1, Len(v)))

RECURSIVE GetWireRange(_, _, _, _)
\* GetFieldRange.
GetWireRange(message, path, length, type) ==
    LET index == path[1][2]
        v == GetFieldValuesOf(path[1][1], IF Len(path) > 1 THEN "len" ELSE WireTypeForFieldType(type),
                              message).values
        Nothing == [ok |-> FALSE, values |-> <<>>]
    IN  IF Len(path) > 1
        THEN IF index \notin 0 .. Len(v) - 1 THEN Nothing
             ELSE GetWireRange(v[index + 1].msg, Tail(path), length, type)
        ELSE IF index \notin 0 .. Len(v) \/ index + length \notin 0 .. Len(v) THEN Nothing
             ELSE [ok |-> TRUE, values |-> SubSeq(v, index + 1, index + length)]

\* GetFieldCount: the field named last is counted in the message before it.
GetFieldCountOf(message, path, type) ==
    LET parent == IF Len(path) = 1 THEN [ok |-> TRUE, values |-> <<SubMessage(message)>>]
                  ELSE GetWireRange(message, Front(path), 1, "message")
    IN  IF ~parent.ok THEN -1
        ELSE Len(GetFieldValuesOf(Last(path)[1], WireTypeForFieldType(type), parent.values[1].msg).values)

-----------------------------------------------------------------------------
(* Values.                                                                 *)

\* Serialize: nothing when a text does not parse, or is to be a message.
SerializeValue(type, n) == IF type # "message" /\ n \in Parsable(type) THEN <<WireValue(Encoded(type, n))>> ELSE <<>>

\* Deserialize.
DeserializeValue(type, value) == Decoded(type, value.num)

\* The types a FieldData can be written to and read from.
FieldDataTypes == {"int32", "sint32", "int64", "sint64", "uint32", "uint64", "double", "float",
                   "bool", "enum", "string"}

\* WriteValue of a FieldData that holds n in the member of its type; for a double
\* the code writes uint64_value(), which is 0 then.
WriteValue(type, n) ==
    IF type \notin FieldDataTypes THEN <<>>
    ELSE <<WireValue(Encoded(type, IF type = "double" THEN 0 ELSE n))>>

\* ReadValue; a uint64 is read as a uint32.
ReadValue(type, value) == Decoded(IF type = "uint64" THEN "uint32" ELSE type, value.num)

-----------------------------------------------------------------------------
(* What a message means: for each field its values, whatever their order   *)
(* among the other fields and whether they are packed.                     *)

RECURSIVE MeaningOf(_, _)
MeaningOf(type, message) ==
    LET Values(id, wire_type) ==
            FlattenSeq([i \in 1 .. Len(message) |->
               IF message[i].id # id THEN <<>>
               ELSE IF message[i].value.nums = <<>> \/ wire_type = "len" THEN <<message[i].value>>
               ELSE [k \in 1 .. Len(message[i].value.nums) |-> WireValue(message[i].value.nums[k])]])
        leaves == Values(LeafField, WireTypeForFieldType(type))
        parts == Values(MessageField, "len")
    IN  [leaf |-> [i \in 1 .. Len(leaves) |-> Decoded(type, leaves[i].num)],
         sub |-> [i \in 1 .. Len(parts) |-> MeaningOf(type, parts[i].msg)]]

RECURSIVE Edited(_, _, _, _)
\* The meaning after new numbers have replaced a range.
Edited(m, path, length, new) ==
    IF Len(path) > 1 THEN [m EXCEPT !.sub[path[1][2] + 1] = Edited(@, Tail(path), length, new)]
    ELSE [m EXCEPT !.leaf = SubSeq(@, 1, path[1][2]) \o new \o SubSeq(@, path[1][2] + length + 1, Len(@))]

RECURSIVE IsRange(_, _, _)
IsRange(m, path, length) ==
    IF Len(path) > 1 THEN path[1][2] < Len(m.sub) /\ IsRange(m.sub[path[1][2] + 1], Tail(path), length)
    ELSE path[1][2] + length <= Len(m.leaf)

-----------------------------------------------------------------------------
\* Paths to values of the leaf field, of the message or of one within it.
LeafPaths == {<<<<LeafField, i>>>> : i \in 0 .. 2}
                \cup {<<<<MessageField, j>>, <<LeafField, i>>>> : j \in 0 .. 1, i \in 0 .. 1}

WireOf(type, message) ==
    /\ leaf_type = type /\ wire = message
    /\ meaning = MeaningOf(type, message)
    /\ status = [ok |-> TRUE, inRange |-> TRUE] /\ edits = 0
WireInit == \E type \in LeafTypes : \E message \in WireMessages[type] : WireOf(type, message)

Edit(path, length, written, means) ==
    LET result == ReplaceWireRange(wire, path, length, leaf_type, written)
    IN  /\ edits' = edits + 1
        /\ wire' = result.message
        /\ status' = [ok |-> result.ok, inRange |-> IsRange(meaning, path, length)]
        /\ meaning' = IF IsRange(meaning, path, length) THEN Edited(meaning, path, length, means) ELSE meaning
        /\ UNCHANGED leaf_type

\* TemplateExpanderImpl: values are serialized from text, none if one does not parse.
EditByText(path, length, n) ==
    /\ edits < MaxEdits
    /\ LET written == SerializeValue(leaf_type, n)
       IN  written # <<>> /\ Edit(path, length, written, <<n>>)

\* OptionsFieldUtil: values are written from a FieldData.
EditByData(path, length, n) ==
    /\ edits < MaxEdits /\ n \in Parsable(leaf_type)
    /\ LET written == WriteValue(leaf_type, n)
       IN  written # <<>> /\ Edit(path, length, written, <<IF leaf_type = "double" THEN 0 ELSE n>>)

\* A range is removed.
RemoveRange(path, length) == edits < MaxEdits /\ Edit(path, length, <<>>, <<>>)

WireNext ==
    \E path \in LeafPaths, length \in 0 .. 1 :
       \/ \E n \in TextValues : EditByText(path, length, n) \/ EditByData(path, length, n)
       \/ RemoveRange(path, length)

-----------------------------------------------------------------------------
\* Edits of the wire format are edits of the message: after any of them every
\* field has the values it would have had, had the message never been serialized,
\* packed or nested as they may be, and an edit out of range fails and changes nothing.
WireMeansMessage == MeaningOf(leaf_type, wire) = meaning /\ status.ok = status.inRange

\* What was put into a field is found there again, as a text and as a FieldData;
\* a uint64 FieldData keeps its low 32 bits only.
WrittenIsFound ==
    \A path \in LeafPaths : IsRange(meaning, path, 1) =>
       LET found == GetWireRange(wire, path, 1, leaf_type)
           number == DeserializeValue(leaf_type, found.values[1])
       IN  /\ found.ok
           /\ Last(path)[2] < GetFieldCountOf(wire, path, leaf_type)
           /\ number \in Parsable(leaf_type)
           /\ leaf_type \in FieldDataTypes =>
                 ReadValue(leaf_type, found.values[1]) =
                    IF leaf_type = "uint64" THEN number % 2^Bits32 ELSE number

\* Edits of serialized messages do to the message what they say.
WireEditsSound == WireMeansMessage /\ WrittenIsFound
=============================================================================
