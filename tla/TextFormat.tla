----------------------------- MODULE TextFormat -----------------------------
(***************************************************************************)
(* The reader of text-format configs below the template rules (those are   *)
(* in Templates): a recursive-descent parser that turns a token sequence   *)
(* into a message.                                                         *)
(*   src/mediapipe/framework/tool/template_parser.cc                       *)
(*                                                                         *)
(* A token is a record: its kind, its text, the text in lower case, for an *)
(* integer its number and base, and whether the tokenizer reported an      *)
(* error on it.  A message is a function from the names of its fields to   *)
(* sequences of tagged values; a field that is not set has <<>>.           *)
(* Left out: settings nothing can turn on (unknown fields, extensions and  *)
(* enumerators), the recursion limit (the largest int), weak fields, what  *)
(* a message holds after a failure, and locations.                         *)
(***************************************************************************)
EXTENDS Integers, Sequences, FiniteSets, SequencesExt

CONSTANTS MessageTypes, \* type name -> [fields, reserved, required, proto3, any]
          RootType,     \* the type of the message that is read
          Documents,    \* the texts, as trees (see ItemTokens)
          PackedValues, \* string pieces -> the numbers a wire-format string holds
          Settings,     \* the values of the parser's settings
          Int32Max, Int64Max

VARIABLES settings, \* [anyCase, numbers, partial]: the parser's settings
          history,  \* the calls so far: [merge, document]
          message,  \* the output message
          succeeded \* what the last call returned

textVars == <<settings, history, message, succeeded>>

EmptyMessage(type) == [g \in {f.name : f \in MessageTypes[type].fields} |-> <<>>]
Limit(cpp) == CASE cpp \in {"int32", "enum"} -> Int32Max [] cpp = "uint32" -> 2 * Int32Max + 1
                [] cpp = "int64" -> Int64Max [] cpp = "uint64" -> 2 * Int64Max + 1

-----------------------------------------------------------------------------
(* Tokens.  A parser state holds the tokens left, whether all went well,   *)
(* the last thing consumed, and the message being filled with its type.    *)

EndToken == [kind |-> "end", text |-> "", lower |-> "", number |-> 0, base |-> "", bad |-> FALSE]
CurrentToken(s) == IF s.tokens = <<>> THEN EndToken ELSE Head(s.tokens)
LookingAt(s, text) == CurrentToken(s).text = text
LookingAtType(s, kind) == CurrentToken(s).kind = kind
NextToken(s) == [s EXCEPT !.tokens = Tail(s.tokens)]
ReportError(s) == [s EXCEPT !.ok = FALSE]
Yield(s, v) == [s EXCEPT !.out = v]

TryConsume(s, text) == IF s.ok /\ LookingAt(s, text) THEN NextToken(s) ELSE s
Consume(s, text) == IF s.ok /\ LookingAt(s, text) THEN NextToken(s) ELSE ReportError(s)

ConsumeIdentifier(s) ==
  IF s.ok /\ (LookingAtType(s, "identifier") \/ (settings.numbers /\ LookingAtType(s, "integer")))
  THEN Yield(NextToken(s), CurrentToken(s)) ELSE ReportError(s)

RECURSIVE MoreParts(_, _)
MoreParts(s, parts) ==
  LET Part(id) == IF id.ok THEN MoreParts(id, Append(parts, id.out.text)) ELSE id
  IN CASE ~s.ok -> s
       [] s.ok /\ LookingAt(s, ".") -> Part(ConsumeIdentifier(NextToken(s)))
       [] OTHER -> Yield(s, parts)
ConsumeFullTypeName(s) == LET Part(id) == IF id.ok THEN MoreParts(id, <<id.out.text>>) ELSE id IN Part(ConsumeIdentifier(s))

RECURSIVE StringPieces(_, _)
StringPieces(s, pieces) ==
  IF LookingAtType(s, "string") THEN StringPieces(NextToken(s), Append(pieces, CurrentToken(s).text))
  ELSE Yield(s, pieces)
ConsumeString(s) == IF s.ok /\ LookingAtType(s, "string") THEN StringPieces(s, <<>>) ELSE ReportError(s)

ConsumeUnsignedInteger(s, max) ==
  IF s.ok /\ LookingAtType(s, "integer") /\ CurrentToken(s).number <= max
  THEN Yield(NextToken(s), CurrentToken(s).number) ELSE ReportError(s)

\* Reinterprets an unsigned value that needs the sign bit.
Signed(v, max) == IF v > max THEN v - 2 * (max + 1) ELSE v

ConsumeSignedInteger(s, max) ==
  LET wide == IF CurrentToken(s).base = "hex" THEN 2 * max + 1 ELSE max
      Value(digits) == IF ~digits.ok THEN digits
                       ELSE Yield(digits, IF LookingAt(s, "-") THEN -digits.out ELSE Signed(digits.out, max))
  IN Value(ConsumeUnsignedInteger(TryConsume(s, "-"), IF LookingAt(s, "-") THEN wide + 1 ELSE wide))

ConsumeUnsignedDecimalInteger(s, max) ==
  IF CurrentToken(s).base \in {"hex", "oct"} THEN ReportError(s) ELSE ConsumeUnsignedInteger(s, max)

\* A double is its sign and the spelling of its magnitude.
ConsumeDouble(s) ==
  LET Magnitude(t, token) ==
        CASE ~t.ok -> t
          [] t.ok /\ token.kind = "integer" -> Yield(ConsumeUnsignedDecimalInteger(t, Limit("uint64")), token.text)
          [] t.ok /\ token.kind = "float" -> Yield(NextToken(t), token.text)
          [] t.ok /\ token.kind = "identifier" /\ token.lower \in {"inf", "inff", "infinity"} -> Yield(NextToken(t), "inf")
          [] t.ok /\ token.kind = "identifier" /\ token.lower = "nan" -> Yield(NextToken(t), "nan")
          [] OTHER -> ReportError(t)
      Value(magnitude) == IF magnitude.ok THEN Yield(magnitude, <<LookingAt(s, "-"), magnitude.out>>) ELSE magnitude
      After(t) == Value(Magnitude(t, CurrentToken(t)))
  IN After(TryConsume(s, "-"))

-----------------------------------------------------------------------------
(* Fields that are skipped.                                                *)

\* "unknown:" starts a value unless a bracket of a message follows.
StartsValue(s) == LookingAt(s, ":") /\ ~LookingAt(NextToken(s), "{") /\ ~LookingAt(NextToken(s), "<")
OptionalSeparator(s) == IF LookingAt(s, ";") THEN TryConsume(s, ";") ELSE TryConsume(s, ",")

ConsumeMessageDelimiter(s) ==
  IF s.ok /\ LookingAt(s, "<") THEN Yield(NextToken(s), ">") ELSE Yield(Consume(s, "{"), "}")

RECURSIVE ConsumeTypeUrlOrFullTypeName(_)
ConsumeTypeUrlOrFullTypeName(s) ==
  LET Next(id) == IF id.ok /\ (LookingAt(id, ".") \/ LookingAt(id, "/")) THEN ConsumeTypeUrlOrFullTypeName(NextToken(id)) ELSE id
  IN Next(ConsumeIdentifier(s))

RECURSIVE SkipField(_), SkipFieldMessage(_), SkipFieldValue(_), SkipFields(_), SkipElements(_)
SkipField(s) ==
  LET SkipContents(name) == IF StartsValue(name) THEN SkipFieldValue(NextToken(name)) ELSE SkipFieldMessage(TryConsume(name, ":"))
      Skip(name) == IF ~name.ok THEN name ELSE OptionalSeparator(SkipContents(name))
  IN Skip(IF LookingAt(s, "[") THEN Consume(ConsumeTypeUrlOrFullTypeName(NextToken(s)), "]") ELSE ConsumeIdentifier(s))
SkipFields(s) == IF s.ok /\ ~LookingAt(s, ">") /\ ~LookingAt(s, "}") THEN SkipFields(SkipField(s)) ELSE s
SkipFieldMessage(s) ==
  LET Skip(open) == IF open.ok THEN Consume(SkipFields(open), open.out) ELSE open IN Skip(ConsumeMessageDelimiter(s))
SkipElements(s) ==
  LET Next(comma) == IF comma.ok THEN SkipElements(comma) ELSE comma
      After(element) == IF element.ok /\ ~LookingAt(element, "]") THEN Next(Consume(element, ",")) ELSE Consume(element, "]")
  IN After(IF LookingAt(s, "{") \/ LookingAt(s, "<") THEN SkipFieldMessage(s) ELSE SkipFieldValue(s))
SkipFieldValue(s) ==
  LET SkipScalar(t) ==
        IF \/ ~\E k \in {"integer", "float", "identifier"} : LookingAtType(t, k)
           \/ /\ LookingAt(s, "-") /\ LookingAtType(t, "identifier")
              /\ CurrentToken(t).lower \notin {"inf", "inff", "infinity", "nan"}
        THEN ReportError(t) ELSE NextToken(t)
  IN CASE ~s.ok -> s
       [] s.ok /\ LookingAtType(s, "string") -> ConsumeString(s)
       [] s.ok /\ LookingAt(s, "[") -> SkipElements(NextToken(s))
       [] OTHER -> SkipScalar(TryConsume(s, "-"))

-----------------------------------------------------------------------------
(* Fields of a message.                                                    *)

FieldsOf(s) == MessageTypes[s.type].fields
FieldsNamed(s, name) == {f \in FieldsOf(s) : f.name = name /\ f.path = <<>>}

\* The field a name stands for ({} when there is none): a group goes by the
\* name of its type.
FindField(s, token) ==
  LET exact == FieldsNamed(s, token.text)
      lower == {f \in FieldsNamed(s, token.lower) : f.group}
      found == IF exact # {} THEN exact ELSE lower
      byName == {f \in found : f.group => f.type = token.text}
  IN CASE settings.numbers -> {f \in FieldsOf(s) : f.number = token.number}
       [] ~settings.numbers /\ byName = {} /\ settings.anyCase -> {f \in FieldsOf(s) : f.path = <<>> /\ f.lower = token.lower}
       [] OTHER -> byName
FindKnownExtension(s, path) == {f \in FieldsOf(s) : f.path # <<>> /\ f.path = path}
IsReserved(s, token) ==
  IF settings.numbers THEN token.number \in MessageTypes[s.type].reservedNumbers
  ELSE token.text \in MessageTypes[s.type].reserved

\* Whether a field counts as set: in proto3 a scalar at its zero value does not.
HasField(s, f) ==
  /\ s.message[f.name] # <<>>
  /\ (MessageTypes[s.type].proto3 /\ f.oneof = "") =>
       s.message[f.name][1] \notin {<<"int", 0>>, <<"bool", FALSE>>, <<"enum", 0>>, <<"string", <<>>>>, <<"double", <<FALSE, "0">>>>}
Siblings(s, f) == {g \in FieldsOf(s) : f.oneof # "" /\ g.oneof = f.oneof}

\* Add... for a repeated field, Set... for the others (which unsets the
\* other members of its oneof).
SetField(s, f, v) ==
  LET old == s.message
      cleared == {g.name : g \in Siblings(s, f)}
  IN [s EXCEPT !.message = [n \in DOMAIN old |->
        IF n = f.name THEN (IF f.repeated THEN Append(old[n], v) ELSE <<v>>)
        ELSE IF n \in cleared THEN <<>> ELSE old[n]]]

ConsumeBool(s) ==
  IF LookingAtType(s, "integer")
  THEN LET Bit(digit) == IF digit.ok THEN Yield(digit, digit.out = 1) ELSE digit IN Bit(ConsumeUnsignedInteger(s, 1))
  ELSE LET Named(id) == CASE ~id.ok -> id
                          [] id.ok /\ id.out.text \in {"true", "True", "t"} -> Yield(id, TRUE)
                          [] id.ok /\ id.out.text \in {"false", "False", "f"} -> Yield(id, FALSE)
                          [] OTHER -> ReportError(id)
       IN Named(ConsumeIdentifier(s))

\* The number of an enumerator given by name or number; proto3 keeps numbers
\* no enumerator has.
ConsumeEnum(s, f) ==
  IF LookingAtType(s, "identifier")
  THEN LET Named(id) == IF \E e \in f.enum : e.name = id.out.text
                        THEN Yield(id, (CHOOSE e \in f.enum : e.name = id.out.text).number) ELSE ReportError(id)
       IN Named(ConsumeIdentifier(s))
  ELSE LET Numbered(number) == IF number.ok /\ ~MessageTypes[s.type].proto3 /\ ~\E e \in f.enum : e.number = number.out
                               THEN ReportError(number) ELSE number
       IN Numbered(ConsumeSignedInteger(s, Limit("enum")))

ConsumeFieldValue(s, f) ==
  LET tag == IF f.cpp \in {"double", "string", "bool", "enum"} THEN f.cpp ELSE "int"
      Set(read) == IF read.ok THEN SetField(read, f, <<tag, read.out>>) ELSE read
  IN Set(CASE f.cpp \in {"int32", "int64"} -> ConsumeSignedInteger(s, Limit(f.cpp))
           [] f.cpp \in {"uint32", "uint64"} -> ConsumeUnsignedInteger(s, Limit(f.cpp))
           [] f.cpp = "double" -> ConsumeDouble(s)
           [] f.cpp = "string" -> ConsumeString(s)
           [] f.cpp = "bool" -> ConsumeBool(s)
           [] f.cpp = "enum" -> ConsumeEnum(s, f))

\* Numbers of a repeated field printed as one wire-format string.
ConsumePackedFieldAsString(s, f) ==
  LET Unpack(string) ==
        IF string.ok /\ string.out \in DOMAIN PackedValues
        THEN [string EXCEPT !.message[f.name] = @ \o [i \in DOMAIN PackedValues[string.out] |-> <<"int", PackedValues[string.out][i]>>]]
        ELSE ReportError(string)
  IN Unpack(ConsumeString(s))
Packable(f) == f.repeated /\ f.cpp \notin {"string", "message"}

RECURSIVE IsInitialized(_, _)
IsInitialized(type, m) ==
  /\ \A n \in MessageTypes[type].required : m[n] # <<>>
  /\ \A f \in MessageTypes[type].fields : f.cpp = "message" => \A i \in DOMAIN m[f.name] : IsInitialized(f.type, m[f.name][i][2])

RECURSIVE ConsumeField(_), ConsumeFields(_), ConsumeFieldMessage(_, _), ConsumeElements(_, _)
ConsumeFields(s) == IF s.ok /\ ~LookingAt(s, ">") /\ ~LookingAt(s, "}") THEN ConsumeFields(ConsumeField(s)) ELSE s
ConsumeMessage(s, delimiter) == Consume(ConsumeFields(s), delimiter)

ConsumeFieldMessage(s, f) ==
  LET old == IF f.repeated \/ s.message[f.name] = <<>> THEN EmptyMessage(f.type) ELSE s.message[f.name][1][2]
      Set(inner) == SetField([s EXCEPT !.tokens = inner.tokens, !.ok = inner.ok], f, <<"message", inner.message>>)
      Read(open) == IF open.ok THEN Set(ConsumeMessage([open EXCEPT !.message = old, !.type = f.type], open.out)) ELSE open
  IN Read(ConsumeMessageDelimiter(s))

\* The rest of "[a, b]", after the "[".
ConsumeElements(s, f) ==
  LET Next(comma) == IF comma.ok THEN ConsumeElements(comma, f) ELSE comma
      After(element) == IF element.ok /\ ~LookingAt(element, "]") THEN Next(Consume(element, ",")) ELSE Consume(element, "]")
  IN After(IF f.cpp = "message" THEN ConsumeFieldMessage(s, f) ELSE ConsumeFieldValue(s, f))

ConsumeContents(s, f) ==
  LET Elements(t) == IF LookingAt(t, "]") THEN Consume(t, "]") ELSE ConsumeElements(t, f)
      Read(t) == CASE ~t.ok -> t
                   [] t.ok /\ f.repeated /\ LookingAt(t, "[") -> Elements(NextToken(t))
                   [] t.ok /\ f.cpp = "message" /\ ~(f.repeated /\ LookingAt(t, "[")) -> ConsumeFieldMessage(t, f)
                   [] t.ok /\ Packable(f) /\ LookingAtType(t, "string") -> ConsumePackedFieldAsString(t, f)
                   [] OTHER -> ConsumeFieldValue(t, f)
  IN Read(IF f.cpp = "message" THEN TryConsume(s, ":") ELSE Consume(s, ":"))

\* "[prefix/type] { ... }" in a message of type Any.
AnyPrefixes == {<<"type", "googleapis", "com">>, <<"type", "googleprod", "com">>}
ConsumeAnyTypeUrl(s) ==
  LET Url(prefix, name) == IF prefix.ok /\ name.ok THEN Yield(name, <<prefix.out, name.out>>) ELSE ReportError(name)
      After(prefix) == Url(prefix, ConsumeFullTypeName(prefix))
  IN After(Consume(ConsumeFullTypeName(s), "/"))
FindAnyType(url) == {t \in DOMAIN MessageTypes : url[1] \in AnyPrefixes /\ url[2] = <<t>>}
ConsumeAnyValue(s, type) ==
  LET Held(inner) == IF inner.ok /\ ~settings.partial /\ ~IsInitialized(type, inner.message) THEN ReportError(inner)
                     ELSE Yield([s EXCEPT !.tokens = inner.tokens, !.ok = inner.ok], inner.message)
      Read(open) == IF open.ok THEN Held(ConsumeMessage([open EXCEPT !.message = EmptyMessage(type), !.type = type], open.out)) ELSE open
  IN Read(ConsumeMessageDelimiter(s))
ConsumeAny(s) ==
  LET Set(url, value) ==
        IF ~value.ok \/ (~s.overwrite /\ (s.message["type_url"] # <<>> \/ s.message["value"] # <<>>)) THEN ReportError(s)
        ELSE [value EXCEPT !.message = [type_url |-> <<<<"url", url>>>>, value |-> <<<<"serialized", value.out>>>>]]
      After(url) == IF ~url.ok \/ FindAnyType(url.out) = {} THEN ReportError(s)
                    ELSE Set(url.out, ConsumeAnyValue(TryConsume(url, ":"), CHOOSE t \in FindAnyType(url.out) : TRUE))
  IN After(Consume(ConsumeAnyTypeUrl(TryConsume(s, "[")), "]"))

ConsumeField(s) ==
  LET bracket == LookingAt(s, "[")
      Unknown(name) ==
        IF bracket \/ ~IsReserved(name, name.out) THEN ReportError(name)
        ELSE IF StartsValue(name) THEN SkipFieldValue(NextToken(name)) ELSE SkipFieldMessage(TryConsume(name, ":"))
      Known(name, field) ==
        IF /\ ~s.overwrite
           /\ (~field.repeated /\ HasField(name, field)) \/ \E g \in Siblings(name, field) : HasField(name, g)
        THEN ReportError(name) ELSE OptionalSeparator(ConsumeContents(name, field))
      Find(name) == IF bracket THEN FindKnownExtension(name, name.out) ELSE FindField(name, name.out)
      Read(name, found) == CASE ~name.ok -> name
                             [] name.ok /\ found = {} -> Unknown(name)
                             [] OTHER -> Known(name, CHOOSE f \in found : TRUE)
      Named(name) == Read(name, IF name.ok THEN Find(name) ELSE {})
  IN IF bracket /\ MessageTypes[s.type].any THEN ConsumeAny(s)
     ELSE Named(IF bracket THEN Consume(ConsumeFullTypeName(NextToken(s)), "]") ELSE ConsumeIdentifier(s))

-----------------------------------------------------------------------------
(* The calls.                                                              *)

RECURSIVE ReadAll(_)
ReadAll(s) == IF s.ok /\ ~LookingAtType(s, "end") THEN ReadAll(ConsumeField(s)) ELSE s
StateOf(tokens, m, overwrite) ==
  [tokens |-> tokens, ok |-> TRUE, out |-> <<>>, message |-> m, type |-> RootType, overwrite |-> overwrite]

\* An error the tokenizer reports fails the call, but only at its end; a
\* message that is not complete fails it, too.
MergeUsingImpl(tokens, m, overwrite) ==
  LET Result(s) ==
        [ok |-> s.ok /\ (\A i \in DOMAIN tokens : ~tokens[i].bad) /\ (settings.partial \/ IsInitialized(RootType, s.message)),
         message |-> s.message]
  IN Result(ReadAll(StateOf(tokens, m, overwrite)))

\* A document: a sequence of fields [name, colon, value, separator], printed
\* without its last token when "cut" is set.  A name is [form, tokens]; a
\* value is [kind |-> "scalar", tokens], [kind |-> "message", open, close,
\* items] or [kind |-> "list", elements].
Symbol(t) == [EndToken EXCEPT !.kind = "symbol", !.text = t, !.lower = t]
RECURSIVE ItemTokens(_), ValueTokens(_)
JoinAll(ss) == FoldLeft(LAMBDA a, b : a \o b, <<>>, ss)
ValueTokens(v) ==
  CASE v.kind = "scalar" -> v.tokens
    [] v.kind = "message" -> <<Symbol(v.open)>> \o JoinAll([i \in DOMAIN v.items |-> ItemTokens(v.items[i])]) \o <<Symbol(v.close)>>
    [] v.kind = "list" -> <<Symbol("[")>> \o JoinAll([i \in DOMAIN v.elements |->
                             (IF i = 1 THEN <<>> ELSE <<Symbol(",")>>) \o ValueTokens(v.elements[i])]) \o <<Symbol("]")>>
ItemTokens(i) ==
  (IF i.name.form = "plain" THEN i.name.tokens ELSE <<Symbol("[")>> \o i.name.tokens \o <<Symbol("]")>>)
    \o (IF i.colon THEN <<Symbol(":")>> ELSE <<>>) \o ValueTokens(i.value)
    \o (IF i.separator = "" THEN <<>> ELSE <<Symbol(i.separator)>>)
Printed(d) == LET all == JoinAll([i \in DOMAIN d.items |-> ItemTokens(d.items[i])])
              IN IF d.cut THEN SubSeq(all, 1, Len(all) - 1) ELSE all

ReaderWith(s) ==
  /\ settings = s
  /\ history = <<>> /\ message = EmptyMessage(RootType) /\ succeeded = TRUE
TextInit == \E s \in Settings : ReaderWith(s)

\* Parser::Parse clears the message and forbids that a field is set twice;
\* Parser::Merge adds to the message.
ParseOrMerge(merge, d) ==
  LET Outcome(result) == /\ succeeded' = result.ok
                         /\ message' = IF result.ok THEN result.message ELSE EmptyMessage(RootType)
  IN /\ history' = Append(history, [merge |-> merge, document |-> d])
     /\ Outcome(MergeUsingImpl(Printed(d), IF merge THEN message ELSE EmptyMessage(RootType), merge))
     /\ UNCHANGED settings

\* At most one Merge follows a call that succeeded.
TextNext ==
  \/ history = <<>> /\ \E merge \in BOOLEAN, d \in Documents : ParseOrMerge(merge, d)
  \/ /\ Len(history) = 1 /\ succeeded /\ history[1].document.second
     /\ \E d \in Documents : d.second /\ ParseOrMerge(TRUE, d)

-----------------------------------------------------------------------------
(* What a document means, stated over its tree.                            *)

Minus == Symbol("-")
Unsigned(f, ts, top) == {<<"int", v>> : v \in {v \in 0 .. top : Len(ts) = 1 /\ ts[1].kind = "integer" /\ ts[1].number = v}}
SignedNumbers(ts, M) ==
  {v \in -(M + 1) .. M :
     \/ /\ Len(ts) = 1 /\ ts[1].kind = "integer"
        /\ ts[1].number = v \/ (ts[1].base = "hex" /\ v < 0 /\ ts[1].number = v + 2 * (M + 1))
     \/ Len(ts) = 2 /\ ts[1] = Minus /\ ts[2].kind = "integer" /\ ts[2].number = -v}
Magnitudes(t) ==
  CASE t.kind = "float" -> {t.text}
    [] t.kind = "integer" -> {x \in {t.text} : t.base = "dec" /\ t.number <= Limit("uint64")}
    [] t.kind = "identifier" -> {x \in {"inf", "nan"} : t.lower = x \/ (x = "inf" /\ t.lower \in {"inff", "infinity"})}
    [] OTHER -> {}
Doubles(ts) == IF Len(ts) = 2 /\ ts[1] = Minus THEN {<<TRUE, m>> : m \in Magnitudes(ts[2])}
               ELSE IF Len(ts) = 1 THEN {<<FALSE, m>> : m \in Magnitudes(ts[1])} ELSE {}
Strings(ts) == {x \in {[i \in DOMAIN ts |-> ts[i].text]} : ts # <<>> /\ \A i \in DOMAIN ts : ts[i].kind = "string"}
Enumerators(type, f, ts) ==
  {n \in SignedNumbers(ts, Int32Max) : MessageTypes[type].proto3 \/ n \in {e.number : e \in f.enum}}
    \cup {e.number : e \in {e \in f.enum : Len(ts) = 1 /\ ts[1].kind = "identifier" /\ ts[1].text = e.name}}
Booleans(ts) == {b \in BOOLEAN : /\ Len(ts) = 1
                                 /\ \/ ts[1].kind = "integer" /\ ts[1].number = (IF b THEN 1 ELSE 0)
                                    \/ ts[1].kind = "identifier" /\ ts[1].text \in (IF b THEN {"true", "True", "t"} ELSE {"false", "False", "f"})}
ScalarValues(type, f, ts) ==
  CASE f.cpp \in {"int32", "int64"} -> {<<"int", v>> : v \in SignedNumbers(ts, Limit(f.cpp))}
    [] f.cpp \in {"uint32", "uint64"} -> Unsigned(f, ts, Limit(f.cpp))
    [] f.cpp = "double" -> {<<"double", v>> : v \in Doubles(ts)}
    [] f.cpp = "string" -> {<<"string", v>> : v \in Strings(ts)}
    [] f.cpp = "bool" -> {<<"bool", v>> : v \in Booleans(ts)}
    [] f.cpp = "enum" -> {<<"enum", v>> : v \in Enumerators(type, f, ts)}
    [] OTHER -> {}


Matches(v) == <<v.open, v.close>> \in {<<"{", "}">>, <<"<", ">">>}
\* The fields of a type an item names.
NamedBy(type, i) ==
  {f \in MessageTypes[type].fields :
     LET t == i.name.tokens[1] IN
     IF i.name.form = "extension" THEN f.path = <<t.text>>
     ELSE /\ i.name.form = "plain"
          /\ IF settings.numbers THEN t.number = f.number
             ELSE /\ f.path = <<>>
                  /\ t.text = (IF f.group THEN f.type ELSE f.name) \/ (settings.anyCase /\ t.lower = f.lower)}
NameAllowed(i) == i.name.form = "plain" => i.name.tokens[1].kind = "identifier" \/ settings.numbers
Reserves(type, i) == i.name.form = "plain" /\ (IF settings.numbers THEN i.name.tokens[1].number \in MessageTypes[type].reservedNumbers
                                               ELSE i.name.tokens[1].text \in MessageTypes[type].reserved)

RECURSIVE Skippable(_), Meant(_, _, _), MeantAny(_, _), ElementValues(_, _, _, _)
Skippable(v) ==
  CASE v.kind = "scalar" ->
         LET ts == v.tokens IN
         \/ Strings(ts) # {}
         \/ Len(ts) = 1 /\ ts[1].kind \in {"integer", "float", "identifier"}
         \/ Len(ts) = 2 /\ ts[1] = Minus /\ (ts[2].kind = "integer" \/ Magnitudes(ts[2]) # {})
    [] v.kind = "message" -> /\ Matches(v)
                             /\ \A n \in DOMAIN v.items : /\ NameAllowed(v.items[n]) /\ Skippable(v.items[n].value)
                                                          /\ v.items[n].colon \/ v.items[n].value.kind = "message"
    [] v.kind = "list" -> v.elements # <<>> /\ \A n \in DOMAIN v.elements : Skippable(v.elements[n])
ElementValues(type, f, v, overwrite) ==
  CASE v.kind = "message" /\ f.cpp = "message" ->
         {<<"message", inner.message>> : inner \in {m \in {Meant(f.type, v.items, overwrite)} : Matches(v) /\ m.ok}}
    [] v.kind = "scalar" -> ScalarValues(type, f, v.tokens)
    [] OTHER -> {}
\* The values an item adds to its field, as a set with at most one sequence.
ItemValues(type, f, i, overwrite) ==
  LET v == i.value
      Chosen(each) == IF f.repeated /\ \A n \in DOMAIN each : each[n] # {}
                      THEN {[n \in DOMAIN each |-> CHOOSE y \in each[n] : TRUE]} ELSE {}
  IN CASE v.kind = "list" -> Chosen([n \in DOMAIN v.elements |-> ElementValues(type, f, v.elements[n], overwrite)])
       [] v.kind = "scalar" /\ Packable(f) /\ Strings(v.tokens) # {} ->
            {[n \in DOMAIN PackedValues[t] |-> <<"int", PackedValues[t][n]>>] : t \in Strings(v.tokens) \cap DOMAIN PackedValues}
       [] OTHER -> {<<x>> : x \in ElementValues(type, f, v, overwrite)}

\* An Any holds what its last field says; no separator may follow that field.
MeantAny(items, overwrite) ==
  LET url(i) == <<[n \in 1 .. 3 |-> i.name.tokens[2 * n - 1].text], <<i.name.tokens[7].text>>>>
      Known(i) == /\ i.name.form = "any" /\ i.value.kind = "message" /\ i.separator = ""
                  /\ url(i)[1] \in AnyPrefixes /\ i.name.tokens[7].text \in DOMAIN MessageTypes
      Complete(i, inner) == Matches(i.value) /\ inner.ok /\ (settings.partial \/ IsInitialized(i.name.tokens[7].text, inner.message))
      By(held) ==
        LET ok == /\ \A n \in DOMAIN items : Known(items[n]) /\ Complete(items[n], held[n])
                  /\ overwrite \/ Len(items) <= 1
        IN [ok |-> ok,
            message |-> IF ~ok \/ items = <<>> THEN [type_url |-> <<>>, value |-> <<>>]
                        ELSE [type_url |-> <<<<"url", url(Last(items))>>>>, value |-> <<<<"serialized", Last(held).message>>>>]]
  IN By([n \in DOMAIN items |-> IF Known(items[n]) THEN Meant(items[n].name.tokens[7].text, items[n].value.items, overwrite)
                                 ELSE [ok |-> FALSE, message |-> <<>>]])
\* What items mean: field and values are, for each of them, the field it names
\* and what it adds to it.
MeantBy(type, items, overwrite, field, values) ==
  LET The(n) == CHOOSE f \in field[n] : TRUE
      isSet(n) == /\ field[n] # {} /\ values[n] # {}
                  /\ (MessageTypes[type].proto3 /\ The(n).oneof = "") => values[n] \cap {<<<<"int", 0>>>>, <<<<"bool", FALSE>>>>, <<<<"enum", 0>>>>} = {}
      clash(n, m) == isSet(n) /\ field[m] # {} /\ ((field[n] = field[m] /\ ~The(n).repeated) \/ (The(n).oneof # "" /\ The(n).oneof = The(m).oneof))
      onto(f) == SelectSeq([n \in DOMAIN items |-> n], LAMBDA n : field[n] # {} /\ The(n) = f)
      Replaced(f, of) == \E n \in DOMAIN items : /\ field[n] # {} /\ The(n) # f /\ The(n).oneof = f.oneof /\ f.oneof # ""
                                                 /\ \A k \in DOMAIN of : of[k] < n
      Kept(f, all, of) == IF f.repeated \/ all = <<>> THEN all ELSE IF Replaced(f, of) THEN <<>> ELSE <<Last(all)>>
      Total(f, of) == Kept(f, JoinAll([k \in DOMAIN of |-> CHOOSE x \in values[of[k]] : TRUE]), of)
      ok == /\ \A n \in DOMAIN items :
                 /\ NameAllowed(items[n])
                 /\ IF field[n] = {} THEN /\ Reserves(type, items[n]) /\ Skippable(items[n].value)
                                          /\ items[n].colon \/ items[n].value.kind = "message"
                    ELSE values[n] # {} /\ (items[n].colon \/ The(n).cpp = "message")
            /\ ~overwrite => \A n, m \in DOMAIN items : n < m => ~clash(n, m)
  IN [ok |-> ok,
      message |-> IF ~ok THEN EmptyMessage(type)
                  ELSE [g \in DOMAIN EmptyMessage(type) |->
                          LET f == CHOOSE f \in MessageTypes[type].fields : f.name = g IN Total(f, onto(f))]]
\* The documents of the passing instance merge no message into another one.
Meant(type, items, overwrite) ==
  LET ByFields(field) ==
        MeantBy(type, items, overwrite, field,
                [n \in DOMAIN items |-> IF field[n] = {} THEN {} ELSE ItemValues(type, CHOOSE f \in field[n] : TRUE, items[n], overwrite)])
  IN IF MessageTypes[type].any THEN MeantAny(items, overwrite) ELSE ByFields([n \in DOMAIN items |-> NamedBy(type, items[n])])

\* Text that is read means what its fields say, whatever brackets, colons,
\* separators and short lists it is written with: each value lies in the range
\* of its field, a field that may be set once is set once unless the call
\* merges, reserved fields leave no trace, a bracket closes what was opened,
\* and every other text is refused.
ReadAsWritten ==
  history # <<>> =>
    LET last == history[Len(history)]
        items == IF last.merge THEN JoinAll([n \in DOMAIN history |-> history[n].document.items]) ELSE last.document.items
        Clean(tokens) == \A n \in DOMAIN tokens : ~tokens[n].bad
        Right(meant) == meant.ok /\ Clean(Printed(last.document)) /\ ~last.document.cut /\ (settings.partial \/ IsInitialized(RootType, meant.message))
        Agrees(meant) == succeeded = Right(meant) /\ (succeeded => message = meant.message)
    IN Agrees(Meant(RootType, items, last.merge))

=============================================================================
