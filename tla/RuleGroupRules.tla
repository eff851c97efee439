--------------------------- MODULE RuleGroupRules ---------------------------
(***************************************************************************)
(* The pure part of internal/controller/rulegroup: how the rules of a      *)
(* RuleGroup custom resource become the rule group that is sent to Cortex  *)
(* (generateRuleNode and the bodies of Create and Update), and how the     *)
(* group read back is compared with them (isUpToDate).                     *)
(*                                                                         *)
(* A string field is a member of Text.  What the code can tell apart about *)
(* it is how yaml.Unmarshal parses it, which is YamlKind, and the Value of *)
(* the node it yields, which is ScalarValue.  The record for Cortex holds  *)
(* those Values, because they are what a group read back carries.          *)
(***************************************************************************)
EXTENDS FiniteSetsExt, Sequences

CONSTANTS
  Text,           \* contents of the record, alert and expr fields
  YamlKind,       \* [Text -> {"empty", "malformed", "scalar", "structure"}]
  ScalarValue,    \* [Text -> Values]: Value of the parsed node, NoValue unless "scalar"
  Values,         \* the scalar values, the empty string NoValue among them
  NoValue,
  DurationText,   \* contents of the interval and for fields
  ParsedDuration, \* [DurationText -> Durations \cup {BadDuration}]
  Durations,      \* durations, the zero duration ZeroDuration among them
  ZeroDuration,
  BadDuration,    \* model.ParseDuration returned an error
  Extras,         \* a rule's labels and annotations, nil and empty being the same
  Unset           \* a nil pointer: the optional field is not given

ASSUME TextAssumption ==
  /\ YamlKind \in [Text -> {"empty", "malformed", "scalar", "structure"}]
  /\ ScalarValue \in [Text -> Values]
  /\ \A t \in Text : YamlKind[t] # "scalar" => ScalarValue[t] = NoValue
  /\ NoValue \in Values
  /\ Unset \notin Text

ASSUME DurationAssumption ==
  /\ ParsedDuration \in [DurationText -> Durations \cup {BadDuration}]
  /\ ZeroDuration \in Durations
  /\ BadDuration \notin Durations
  /\ Unset \notin DurationText

-----------------------------------------------------------------------------
(***************************************************************************)
(* Data.                                                                   *)
(***************************************************************************)

\* v1alpha1.RuleNode: a rule as the custom resource states it.
SpecRule == [record : Text \cup {Unset}, alert : Text \cup {Unset}, expr : Text,
             for : DurationText \cup {Unset}, extras : Extras]

\* v1alpha1.RuleGroupParameters without the namespace, which is no part of the group.
SpecGroup == [interval : DurationText \cup {Unset}, rules : Seq(SpecRule)]

\* rulefmt.RuleNode, each yaml.Node reduced to its Value (NoValue for a zero node).
Rule == [record : Values, alert : Values, expr : Values, for : Durations, extras : Extras]

\* rwrulefmt.RuleGroup.
Group == [interval : Durations, rules : Seq(Rule)]

-----------------------------------------------------------------------------
(***************************************************************************)
(* generateRuleNode.                                                       *)
(***************************************************************************)

\* The first entry of a sequence of outcomes that is not "ok": the code takes
\* its checks in that order and leaves at the first one that does not pass.
FirstNotOk(outcomes) ==
  IF \A i \in DOMAIN outcomes : outcomes[i] = "ok"
  THEN "ok"
  ELSE IF \E i \in DOMAIN outcomes :
            outcomes[i] = "panic" /\ \A j \in 1..(i - 1) : outcomes[j] = "ok"
  THEN "panic"
  ELSE "error"

\* One yaml.Unmarshal followed by *yn.Content[0]: a text without a document
\* (empty, or a comment) is no error but leaves Content empty, and the index panics.
FieldOutcome(t) ==
  IF t = Unset
  THEN "ok"
  ELSE [empty |-> "panic", malformed |-> "error", scalar |-> "ok", structure |-> "ok"][YamlKind[t]]

\* Faulty: the error of model.ParseDuration is dropped.
DurationOutcomeIgnored(d) == "ok"

\* One model.ParseDuration.
DurationOutcome(d) ==
  IF d = Unset \/ ParsedDuration[d] # BadDuration THEN "ok" ELSE "error"

ValueOf(t)         == IF t = Unset THEN NoValue ELSE ScalarValue[t]
DurationValueOf(d) == IF d = Unset THEN ZeroDuration ELSE ParsedDuration[d]

\* How generateRuleNode(rule) ends: "ok", "error" or "panic".
NodeOutcome(rule) ==
  FirstNotOk(<<FieldOutcome(rule.record), FieldOutcome(rule.alert),
               FieldOutcome(rule.expr), DurationOutcome(rule.for)>>)

\* What it returns when it ends "ok".
NodeOf(rule) ==
  [record |-> ValueOf(rule.record), alert |-> ValueOf(rule.alert), expr |-> ValueOf(rule.expr),
   for |-> DurationValueOf(rule.for), extras |-> rule.extras]

-----------------------------------------------------------------------------
(***************************************************************************)
(* The group that Create and Update send.                                  *)
(***************************************************************************)

\* How building the group ends: every rule in order, then the interval.
BuildOutcome(spec) ==
  FirstNotOk(<<FirstNotOk([i \in DOMAIN spec.rules |-> NodeOutcome(spec.rules[i])]),
               DurationOutcome(spec.interval)>>)

\* Faulty: the interval is left out.
BuiltGroupUntimed(spec) ==
  [interval |-> ZeroDuration,
   rules    |-> [i \in DOMAIN spec.rules |-> NodeOf(spec.rules[i])]]

BuiltGroup(spec) ==
  [interval |-> DurationValueOf(spec.interval),
   rules    |-> [i \in DOMAIN spec.rules |-> NodeOf(spec.rules[i])]]

\* External: the ruler API refuses a group without rules, and a rule that has
\* not exactly one of record and alert, or no expression.
CortexAccepts(group) ==
  /\ group.rules # <<>>
  /\ \A i \in DOMAIN group.rules :
       LET rule == group.rules[i]
       IN  /\ (rule.record = NoValue) # (rule.alert = NoValue)
           /\ rule.expr # NoValue

\* The groups a ruler can hold.
StoredGroup == {g \in Group : CortexAccepts(g)}

-----------------------------------------------------------------------------
(***************************************************************************)
(* isUpToDate.                                                             *)
(***************************************************************************)

\* alertRule.Alert.Value and recordRule.Record.Value: the loop over the observed
\* rules keeps overwriting the two variables, so the last rule of each sort stays.
LastAlert(group) ==
  LET alerts == {i \in DOMAIN group.rules : group.rules[i].alert # NoValue}
  IN  IF alerts = {} THEN NoValue ELSE group.rules[Max(alerts)].alert

LastRecord(group) ==
  LET records == {i \in DOMAIN group.rules : group.rules[i].record # NoValue}
  IN  IF records = {} THEN NoValue ELSE group.rules[Max(records)].record

\* Faulty: a name is looked for among the rules of the other sort as well.
RuleVerdictEitherSort(rule, group) ==
  FirstNotOk(<<NodeOutcome(rule),
               IF rule.alert # Unset /\ ValueOf(rule.alert) \notin {LastAlert(group), LastRecord(group)}
               THEN "error" ELSE "ok",
               IF rule.record # Unset /\ ValueOf(rule.record) # LastRecord(group) THEN "error" ELSE "ok">>)

\* One turn of the loop over the rules of the custom resource.
RuleVerdict(rule, group) ==
  FirstNotOk(<<NodeOutcome(rule),
               IF rule.alert # Unset /\ ValueOf(rule.alert) # LastAlert(group) THEN "error" ELSE "ok",
               IF rule.record # Unset /\ ValueOf(rule.record) # LastRecord(group) THEN "error" ELSE "ok">>)

\* How isUpToDate(cr, group) ends: "ok" for true, "panic", and "error" for false
\* (an interval or a rule that cannot be parsed makes it return false as well).
Verdict(spec, group) ==
  FirstNotOk(<<DurationOutcome(spec.interval),
               IF DurationValueOf(spec.interval) # group.interval THEN "error" ELSE "ok",
               FirstNotOk([i \in DOMAIN spec.rules |-> RuleVerdict(spec.rules[i], group)])>>)

IsUpToDate(spec, group) == Verdict(spec, group) = "ok"
=============================================================================
