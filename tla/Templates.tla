------------------------------ MODULE Templates ------------------------------
(***************************************************************************)
(* Graph templates.  The parser turns a template text into a plain config  *)
(* and a list of rules that point into it by field paths; the expander     *)
(* applies the rules to the config again.                                  *)
(*   src/mediapipe/framework/tool/template_parser.cc, template_expander.cc,*)
(*   proto_util_lite.cc                                                    *)
(*                                                                         *)
(* A message has three fields: "node" (repeated, a message), "stream"      *)
(* (repeated, a number) and "name" (not repeated, a number).  A text is a  *)
(* sequence of items: a declaration, a field, or a field within a template *)
(* %for(...)% or %if(...)%.  Expressions are sequences of tokens over      *)
(* numbers; dictionaries, strings and the short form [a, b] of repeated    *)
(* fields are left out.                                                    *)
(***************************************************************************)
EXTENDS Integers, Sequences, FiniteSets, SequencesExt

CONSTANTS Texts,        \* the template texts
          TemplateArgs  \* a function: parameter name -> value

VARIABLES text, parsed, expanded, templateStep

templateVars == <<text, parsed, expanded, templateStep>>

Number(n) == [num |-> n, element |-> <<>>, err |-> FALSE]
Failed == [num |-> 0, element |-> <<>>, err |-> TRUE]
Truth(b) == Number(IF b THEN 1 ELSE 0)
Literals == {"0", "1", "2", "3", "5"}
LiteralValue == [s \in Literals |-> CASE s = "0" -> 0 [] s = "1" -> 1 [] s = "2" -> 2 [] s = "3" -> 3 [] OTHER -> 5]

NoField == [node |-> <<>>, stream |-> <<>>, name |-> <<>>]
Repeated(field) == field # "name"
EmptyFieldValue(field) == IF field = "node" THEN NoField ELSE 1

Expression(op, param, args) == [op |-> op, param |-> param, arg |-> args]
Rule(e) == [expr |-> e, path |-> <<>>, hasPath |-> FALSE, value |-> <<>>]

-----------------------------------------------------------------------------
(* The parser: expressions.                                                *)

InfixPrecedenceOrder == [o \in {"*", "+", "-", ">", "<", ">=", "<=", "==", "!=", "&&", "||"} |->
  CASE o = "*" -> 3 [] o \in {"+", "-"} -> 4 [] o \in {">", "<", ">=", "<="} -> 6
    [] o \in {"==", "!="} -> 7 [] o = "&&" -> 11 [] OTHER -> 12]
IsInfixOperator(token) == token \in DOMAIN InfixPrecedenceOrder
IsFunctionOperator(token) == token \in {"min", "max", "for", "if", "!", "size", "list"}

\* The token at position p; the "%" that ends the expression after the last.
Current(s, p) == IF p <= Len(s) THEN s[p] ELSE "%"

RECURSIVE RightGrouped(_, _, _)
\* Seeded fault: an operator of the same precedence groups to the right.
RightGrouped(lhs, op, rhs) ==
  IF IsInfixOperator(lhs.op) /\ InfixPrecedenceOrder[lhs.op] >= InfixPrecedenceOrder[op]
  THEN Expression(lhs.op, "", <<lhs.arg[1], RightGrouped(lhs.arg[2], op, rhs)>>)
  ELSE Expression(op, "", <<lhs, rhs>>)

RECURSIVE GroupOperator(_, _, _)
GroupOperator(lhs, op, rhs) ==
  IF IsInfixOperator(lhs.op) /\ InfixPrecedenceOrder[lhs.op] > InfixPrecedenceOrder[op]
  THEN Expression(lhs.op, "", <<lhs.arg[1], GroupOperator(lhs.arg[2], op, rhs)>>)
  ELSE Expression(op, "", <<lhs, rhs>>)

RECURSIVE ConsumeTemplateExpression(_, _)
RECURSIVE ConsumeArguments(_, _, _)
RECURSIVE ConsumeInfixExpression(_, _)

\* Each Consume... returns the expression and the position after it.
ConsumeGroupedExpression(s, p) ==
  LET inner == ConsumeTemplateExpression(s, p + 1) IN
  [e |-> Expression("paren", "", <<inner.e>>), p |-> inner.p + 1]

ConsumeArguments(s, p, args) ==
  IF Current(s, p) = ")" THEN [args |-> args, p |-> p + 1]
  ELSE LET next == ConsumeTemplateExpression(s, IF args # <<>> THEN p + 1 ELSE p) IN
       ConsumeArguments(s, next.p, Append(args, next.e))

ConsumeFunctionExpression(s, p) ==
  LET list == ConsumeArguments(s, p + 2, <<>>) IN
  [e |-> Expression(s[p], "", list.args), p |-> list.p]

ConsumeLiteral(s, p) == [e |-> Expression("literal", s[p], <<>>), p |-> p + 1]
ConsumeParameterExpression(s, p) == [e |-> Expression("", s[p], <<>>), p |-> p + 1]

ConsumeParameterDeclaration(s, p) ==
  LET name == Expression("", s[p + 1], <<>>) IN
  IF Current(s, p + 2) = ":"
  THEN LET default == ConsumeTemplateExpression(s, p + 3) IN
       [e |-> Expression("param", "", <<name, default.e>>), p |-> default.p]
  ELSE [e |-> Expression("param", "", <<name>>), p |-> p + 2]

ConsumePrefixExpression(s, p) ==
  CASE Current(s, p) = "(" -> ConsumeGroupedExpression(s, p)
    [] Current(s, p) = "param" -> ConsumeParameterDeclaration(s, p)
    [] IsFunctionOperator(Current(s, p)) -> ConsumeFunctionExpression(s, p)
    [] Current(s, p) \in Literals -> ConsumeLiteral(s, p)
    [] OTHER -> ConsumeParameterExpression(s, p)

ConsumeInfixExpression(s, done) ==
  IF ~IsInfixOperator(Current(s, done.p)) THEN done
  ELSE LET rhs == ConsumePrefixExpression(s, done.p + 1) IN
       ConsumeInfixExpression(s, [e |-> GroupOperator(done.e, s[done.p], rhs.e), p |-> rhs.p])

ConsumeTemplateExpression(s, p) == ConsumeInfixExpression(s, ConsumePrefixExpression(s, p))

-----------------------------------------------------------------------------
(* The parser: fields.  Its state: the rules so far, the message and, for  *)
(* each of its fields, how often it was parsed.                            *)

RECURSIVE RecordFieldPath(_, _, _)
\* The rules at the end that have no path yet target this field.
RecordFieldPath(rules, i, path) ==
  IF i = 0 \/ (i > 0 /\ (rules[i].hasPath \/ rules[i].expr.op = "param")) THEN rules
  ELSE RecordFieldPath([rules EXCEPT ![i].path = path, ![i].hasPath = TRUE], i - 1, path)

Targeted(rules, path) == RecordFieldPath(rules, Len(rules), path)

FreshMessage(rules) ==
  [rules |-> rules, msg |-> NoField, count |-> [node |-> 0, stream |-> 0, name |-> 0], err |-> FALSE]
LastPath(st, path, field) == Append(path, <<field, st.count[field]>>)

\* ReplaceFieldRange: values stand for the `length` values from index on.
ReplaceFieldRange(values, index, length, new) ==
  SubSeq(values, 1, index) \o new \o SubSeq(values, index + length + 1, Len(values))

\* InsertFieldValue puts its value at the front of the field.
InsertFieldValue(msg, field) == [msg EXCEPT ![field] = ReplaceFieldRange(@, 0, 0, <<EmptyFieldValue(field)>>)]

\* StowFieldValue: the value of a field that is not repeated moves to its rule.
StowFieldValue(st, i, field) ==
  IF Repeated(field) THEN st
  ELSE [st EXCEPT !.rules[i].value = st.msg[field], !.msg[field] = <<>>]

RECURSIVE ParseItems(_, _, _)
RECURSIVE ConsumeTemplateField(_, _, _)
RECURSIVE ConsumeFieldTemplate(_, _, _)

\* ConsumeValueTemplate and ConsumeMessageTemplate: the rule is recorded, a dummy
\* stands in the message.
ConsumeValueTemplate(item, path, st) ==
  LET rules == Append(st.rules, Rule(ConsumeTemplateExpression(item.tokens, 1).e)) IN
  [st EXCEPT !.rules = Targeted(rules, LastPath(st, path, item.field)), !.msg = InsertFieldValue(@, item.field)]

ConsumeTemplateMessage(item, path, st) ==
  LET inner == ParseItems(item.items, LastPath(st, path, item.field), FreshMessage(st.rules)) IN
  [st EXCEPT !.rules = inner.rules, !.msg[item.field] = Append(@, inner.msg), !.err = inner.err]

ConsumeTemplateValue(item, st) == [st EXCEPT !.msg[item.field] = Append(@, item.value)]

\* A field that is not repeated must not have a value yet; then EnterField, the
\* value, RecordLocation.
ConsumeTemplateField(item, path, st) ==
  LET again == ~Repeated(item.field) /\ st.msg[item.field] # <<>>
      entered == [st EXCEPT !.rules = Targeted(@, LastPath(st, path, item.field))]
      valued == CASE item.kind = "expr" -> ConsumeValueTemplate(item, path, entered)
                  [] item.kind = "message" -> ConsumeTemplateMessage(item, path, entered)
                  [] OTHER -> ConsumeTemplateValue(item, entered) IN
  IF again THEN [st EXCEPT !.err = TRUE] ELSE [valued EXCEPT !.count[item.field] = @ + 1]

ConsumeFieldTemplate(item, path, st) ==
  LET begun == [st EXCEPT !.rules = Append(@, Rule(ConsumeTemplateExpression(item.tokens, 1).e))]
      i == Len(begun.rules) IN
  IF item.kind = "param" THEN begun
  ELSE IF item.body.kind = "block" THEN ConsumeFieldTemplate(item.body, path, begun)
  ELSE LET st2 == ConsumeTemplateField(item.body, path, begun) IN
       IF st2.err THEN st2 ELSE StowFieldValue(st2, i, item.body.field)

\* Parse and ConsumeMessage.
ParseItems(items, path, st) ==
  IF items = <<>> \/ st.err THEN st
  ELSE LET item == Head(items) IN
       ParseItems(Tail(items), path, IF item.kind \in {"block", "param"} THEN ConsumeFieldTemplate(item, path, st)
                                                                         ELSE ConsumeTemplateField(item, path, st))

-----------------------------------------------------------------------------
(* The expander: expressions.                                              *)

RECURSIVE EvalExpression(_, _)

EvalParam(name, env) == IF name \in DOMAIN env THEN env[name] ELSE Failed
AsBool(v) == v.num # 0
CompareArgs(op, a, b) ==
  CASE op = ">" -> a.num > b.num [] op = "<" -> a.num < b.num [] op = ">=" -> a.num >= b.num
    [] op = "<=" -> a.num <= b.num [] op = "==" -> a.num = b.num [] OTHER -> a.num # b.num

Apply(op, a) ==
  CASE op = "paren" -> a[1]
    [] op = "+" -> Number(a[1].num + a[2].num)
    [] op = "-" -> Number(a[1].num - a[2].num)
    [] op = "*" -> Number(a[1].num * a[2].num)
    [] op \in {">", "<", ">=", "<=", "==", "!="} -> Truth(CompareArgs(op, a[1], a[2]))
    [] op = "&&" -> Truth(AsBool(a[1]) /\ AsBool(a[2]))
    [] op = "||" -> Truth(AsBool(a[1]) \/ AsBool(a[2]))
    [] op = "!" -> Truth(~AsBool(a[1]))
    [] op = "min" -> Number(IF a[1].num <= a[2].num THEN a[1].num ELSE a[2].num)
    [] op = "max" -> Number(IF a[1].num >= a[2].num THEN a[1].num ELSE a[2].num)
    [] op = "size" -> Number(Len(a[1].element))
    [] OTHER -> [num |-> 0, element |-> a, err |-> FALSE]

EvalExpression(e, env) ==
  IF e.op = "literal" THEN Number(LiteralValue[e.param])
  ELSE IF e.param # "" THEN EvalParam(e.param, env)
  ELSE LET args == [k \in DOMAIN e.arg |-> EvalExpression(e.arg[k], env)] IN
       IF \E k \in DOMAIN args : args[k].err THEN Failed ELSE Apply(e.op, args)

-----------------------------------------------------------------------------
(* The expander: rules.  A result is the values, the environment after     *)
(* and whether an error was recorded.                                      *)

RECURSIVE ExpandTemplateRule(_, _, _, _)
RECURSIVE ExpandNestedRules(_, _, _, _, _)
RECURSIVE ExpandIterations(_, _, _, _, _, _)
RECURSIVE ExpandEach(_, _, _, _, _)
RECURSIVE ApplyEdits(_, _, _, _, _)
RECURSIVE FieldAt(_, _)
RECURSIVE ReplacedAt(_, _, _, _)

PutItem(env, name, value) == [n \in (DOMAIN env) \cup {name} |-> IF n = name THEN value ELSE env[n]]
RemoveItem(env, name) == [n \in (DOMAIN env) \ {name} |-> env[n]]

ProtoPathStartsWith(path, prefix) == IsPrefix(prefix, path)
ProtoPathRelative(path, base) == SubSeq(path, Len(base) + 1, Len(path))

\* GetFieldRange: the one value at a path, no value when the index is out of range.
FieldAt(msg, path) ==
  LET field == path[1][1]
      index == path[1][2] IN
  IF index >= Len(msg[field]) THEN <<>>
  ELSE IF Len(path) = 1 THEN <<msg[field][index + 1]>>
  ELSE FieldAt(msg[field][index + 1], Tail(path))

ReplacedAt(msg, path, length, new) ==
  LET field == path[1][1]
      index == path[1][2] IN
  IF Len(path) = 1 THEN [msg EXCEPT ![field] = ReplaceFieldRange(@, index, length, new)]
  ELSE [msg EXCEPT ![field][index + 1] = ReplacedAt(@, Tail(path), length, new)]

\* The innermost message that holds the field of a path.
Parent(msg, path) == IF Len(path) = 1 THEN <<msg>> ELSE FieldAt(msg, Front(path))
FieldCount(msg, path) == IF Parent(msg, path) = <<>> THEN 0 ELSE Len(Parent(msg, path)[1][Last(path)[1]])

GetBaseValue(base_path, rule, output) ==
  IF ~rule.hasPath THEN <<output>>
  ELSE IF rule.value # <<>> THEN rule.value
  ELSE FieldAt(output, ProtoPathRelative(rule.path, base_path))

ReplaceBaseValue(base_path, rule, values, output) ==
  IF ~rule.hasPath THEN [msg |-> values[1], err |-> FALSE]
  ELSE LET path == ProtoPathRelative(rule.path, base_path) IN
       IF rule.value = <<>> THEN [msg |-> ReplacedAt(output, path, 1, values), err |-> FALSE]
       ELSE IF values # <<>> /\ FieldCount(output, path) > 0 THEN [msg |-> output, err |-> TRUE]
       ELSE [msg |-> ReplacedAt(output, Append(Front(path), <<Last(path)[1], 0>>), 0, values), err |-> FALSE]

RECURSIVE NestedFrom(_, _, _, _)
NestedFrom(rules, i, rule_path, prev) ==
  IF i > Len(rules) THEN <<>>
  ELSE IF ~ProtoPathStartsWith(rules[i].path, rule_path) THEN <<>>
  ELSE IF prev = <<>> \/ ~ProtoPathStartsWith(rules[i].path, prev[1])
       THEN <<i>> \o NestedFrom(rules, i + 1, rule_path, <<rules[i].path>>)
       ELSE NestedFrom(rules, i + 1, rule_path, prev)

\* The rules directly nested within a rule.
GetNestedRules(rules, i, rule_path) == NestedFrom(rules, i, rule_path, <<>>)

ExpandPeerRules(rules, i, base, env) ==
  IF i < Len(rules) /\ rules[i + 1].path = rules[i].path THEN ExpandTemplateRule(rules, i + 1, base, env)
  ELSE ExpandNestedRules(rules, i + 1, rules[i].path, base, env)

ExpandIterations(rules, i, base, range, var, sofar) ==
  IF range = <<>> THEN sofar
  ELSE LET one == ExpandPeerRules(rules, i, base, PutItem(sofar.env, var, Head(range))) IN
       ExpandIterations(rules, i, base, Tail(range), var,
                        [values |-> sofar.values \o one.values, env |-> one.env, err |-> sofar.err \/ one.err])

\* shadow_item points into the environment that the loop overwrites: a variable
\* that was set before keeps the last value of the loop.
ExpandIterationRule(rules, i, base, env) ==
  LET var == rules[i].expr.arg[1].param
      range == EvalExpression(rules[i].expr.arg[2], env)
      all == ExpandIterations(rules, i, base, range.element, var, [values |-> <<>>, env |-> env, err |-> range.err]) IN
  IF var \in DOMAIN env THEN all ELSE [all EXCEPT !.env = RemoveItem(@, var)]

ExpandDeclaration(rules, i, base, env) ==
  LET args == rules[i].expr.arg IN
  ExpandPeerRules(rules, i, base, IF Len(args) = 2 /\ args[1].param \notin DOMAIN env
                                  THEN PutItem(env, args[1].param, EvalExpression(args[2], env)) ELSE env)

ExpandConditionalRule(rules, i, base, env) ==
  LET condition == EvalExpression(rules[i].expr.arg[1], env) IN
  IF AsBool(condition) THEN ExpandPeerRules(rules, i, base, env)
                       ELSE [values |-> <<>>, env |-> env, err |-> condition.err]

ExpandExpressionRule(rules, i, env) ==
  LET item == EvalExpression(rules[i].expr, env) IN
  [values |-> <<item.num>>, env |-> env, err |-> item.err]

ExpandTemplateRule(rules, i, base, env) ==
  CASE rules[i].expr.op = "for" -> ExpandIterationRule(rules, i, base, env)
    [] rules[i].expr.op = "if" -> ExpandConditionalRule(rules, i, base, env)
    [] rules[i].expr.op = "param" -> ExpandDeclaration(rules, i, base, env)
    [] OTHER -> ExpandExpressionRule(rules, i, env)

\* The edits of the nested rules, each of which sees the unedited message.
ExpandEach(rules, todo, base_path, output, sofar) ==
  IF todo = <<>> \/ sofar.err THEN sofar
  ELSE LET base == GetBaseValue(base_path, rules[Head(todo)], output) IN
       IF base = <<>> THEN [sofar EXCEPT !.err = TRUE]
       ELSE LET one == ExpandTemplateRule(rules, Head(todo), base[1], sofar.env) IN
            ExpandEach(rules, Tail(todo), base_path, output,
                       [edits |-> Append(sofar.edits, one.values), env |-> one.env, err |-> one.err])

ApplyEdits(rules, todo, edits, base_path, output) ==
  IF todo = <<>> THEN [msg |-> output, err |-> FALSE]
  ELSE LET one == ReplaceBaseValue(base_path, rules[Last(todo)], Last(edits), output) IN
       IF one.err THEN one ELSE ApplyEdits(rules, Front(todo), Front(edits), base_path, one.msg)

\* Edits are applied in reverse order since later indices are invalidated.  (An
\* error is recorded and ends up in the status, whatever is expanded after it.)
ExpandNestedRules(rules, i, base_path, base, env) ==
  LET todo == GetNestedRules(rules, i, base_path)
      each == ExpandEach(rules, todo, base_path, base, [edits |-> <<>>, env |-> env, err |-> FALSE])
      all == ApplyEdits(rules, todo, each.edits, base_path, base) IN
  IF each.err THEN [values |-> <<>>, env |-> each.env, err |-> TRUE]
  ELSE [values |-> <<all.msg>>, env |-> each.env, err |-> all.err]

-----------------------------------------------------------------------------
NotYet == [values |-> <<>>, env |-> TemplateArgs, err |-> FALSE]

TemplateOf(t) ==
  /\ text = t /\ templateStep = "text"
  /\ parsed = FreshMessage(<<>>) /\ expanded = NotYet
TemplateInit == \E t \in Texts : TemplateOf(t)

ParseTemplate ==
  /\ templateStep = "text" /\ templateStep' = "parsed"
  /\ parsed' = ParseItems(text, <<>>, FreshMessage(<<>>))
  /\ UNCHANGED <<text, expanded>>

ExpandTemplates ==
  /\ templateStep = "parsed" /\ ~parsed.err /\ templateStep' = "expanded"
  /\ expanded' = ExpandNestedRules(parsed.rules, 1, <<>>, parsed.msg, TemplateArgs)
  /\ UNCHANGED <<text, parsed>>

TemplateNext == ParseTemplate \/ ExpandTemplates

-----------------------------------------------------------------------------
(* What a text means, read from the text alone.                            *)

RECURSIVE Meaning(_, _)
\* A flat expression: its weakest operator, the last of those, is applied last.
\* Brackets, functions and parameters are as the parser takes them.
Meaning(s, env) ==
  LET Depth(k) == Cardinality({j \in 1..k : s[j] = "("}) - Cardinality({j \in 1..k : s[j] = ")"})
      Outer == {k \in DOMAIN s : IsInfixOperator(s[k]) /\ Depth(k) = 0}
      Weakest == {k \in Outer : \A j \in Outer : InfixPrecedenceOrder[s[j]] <= InfixPrecedenceOrder[s[k]]}
      at == CHOOSE k \in Weakest : \A j \in Weakest : j <= k IN
  IF Outer # {} THEN Apply(s[at], <<Meaning(SubSeq(s, 1, at - 1), env), Meaning(SubSeq(s, at + 1, Len(s)), env)>>)
  ELSE IF s[1] = "(" THEN Meaning(SubSeq(s, 2, Len(s) - 1), env)
  ELSE EvalExpression(ConsumeTemplateExpression(s, 1).e, env)

RECURSIVE WrittenFields(_, _, _)
RECURSIVE WrittenItem(_, _)
\* The values an item of the text stands for.
WrittenItem(item, env) ==
  CASE item.kind = "value" -> <<item.value>>
    [] item.kind = "expr" -> <<Meaning(item.tokens, env).num>>
    [] item.kind = "message" -> <<WrittenFields(item.items, env, NoField)>>
    [] item.kind = "block" /\ item.tokens[1] = "if" ->
         IF AsBool(Meaning(SubSeq(item.tokens, 3, Len(item.tokens) - 1), env)) THEN WrittenItem(item.body, env) ELSE <<>>
    [] OTHER -> LET over == env[item.tokens[5]].element
                    Each(k) == WrittenItem(item.body, PutItem(env, item.tokens[3], over[k]))
                IN FoldLeft(LAMBDA all, k : all \o Each(k), <<>>, [k \in DOMAIN over |-> k])

RECURSIVE Core(_)
\* The field item within the templates around it.
Core(item) == IF item.kind = "block" THEN Core(item.body) ELSE item

WrittenFields(items, env, msg) ==
  IF items = <<>> THEN msg
  ELSE LET item == Head(items) IN
       IF item.kind = "param"
       THEN WrittenFields(Tail(items), IF item.tokens[2] \in DOMAIN env \/ Len(item.tokens) = 2 THEN env
                                 ELSE PutItem(env, item.tokens[2], Meaning(SubSeq(item.tokens, 4, Len(item.tokens)), env)), msg)
       ELSE WrittenFields(Tail(items), env, [msg EXCEPT ![Core(item).field] = @ \o WrittenItem(item, env)])

FieldItems(items) == SelectSeq(items, LAMBDA item : item.kind # "param")

RECURSIVE PlainBeforeTemplate(_)
\* A repeated field has a plain value and, after it, a template value.
PlainBeforeTemplate(items) ==
  LET core == [k \in DOMAIN FieldItems(items) |-> Core(FieldItems(items)[k])] IN
  \/ \E i, j \in DOMAIN core : /\ i < j /\ core[i].field = core[j].field /\ core[i].field = "stream"
                               /\ core[i].kind = "value" /\ core[j].kind = "expr"
  \/ \E i \in DOMAIN core : core[i].kind = "message" /\ PlainBeforeTemplate(core[i].items)

RECURSIVE Contested(_)
\* A field that is not repeated lies within two templates, or gets several values.
Contested(items) ==
  LET fields == FieldItems(items)
      Named == {k \in DOMAIN fields : Core(fields[k]).field = "name"} IN
  \/ \E k \in Named : fields[k].kind = "block" /\ fields[k].body.kind = "block"
  \/ Cardinality(Named) > 1
  \/ \E k \in DOMAIN fields : Core(fields[k]).kind = "message" /\ Contested(Core(fields[k]).items)

(***************************************************************************)
(* A template expands to what is written: parameters, operators by their   *)
(* precedence, one copy of a field for each round of a loop, none where a  *)
(* condition fails, every copy with its own values in the fields within    *)
(* it, although the rules only know paths into a config that the edits     *)
(* keep changing.  (Not claimed where a field that is not repeated is      *)
(* contested, or a plain value comes before a template value.)             *)
(***************************************************************************)
ExpandedAsWritten ==
  ~Contested(text) =>
    /\ ~parsed.err /\ ~expanded.err
    /\ templateStep = "expanded" /\ ~PlainBeforeTemplate(text) =>
         expanded.values = <<WrittenFields(text, TemplateArgs, NoField)>>

=============================================================================
