-------------------------- MODULE MCRuleComparison --------------------------
(***************************************************************************)
(* Values for RuleComparison: two names, two expressions, one text of each *)
(* other YAML kind; groups of at most two rules.                           *)
(***************************************************************************)
EXTENDS RuleComparison, TLC

MCYamlKind ==
  [n1 |-> "scalar", n2 |-> "scalar", quoted |-> "scalar", e1 |-> "scalar", e2 |-> "scalar",
   empty |-> "empty", colon |-> "malformed", map |-> "structure"]
MCText == DOMAIN MCYamlKind
\* "quoted" is n1 written in quotes: another text, the same value.
MCScalarValue ==
  [t \in MCText |-> CASE t = "quoted" -> "n1"
                      [] MCYamlKind[t] # "scalar" -> ""
                      [] OTHER -> t]
MCValues == {"n1", "n2", "e1", "e2", ""}
MCBadDuration == -1
MCParsedDuration == ("1m" :> 60) @@ ("60s" :> 60) @@ ("2m" :> 120) @@ ("soon" :> MCBadDuration)
MCDurationText == DOMAIN MCParsedDuration

SpecR(r, a, e, f) == [record |-> r, alert |-> a, expr |-> e, for |-> f, extras |-> "none"]

MCSpecRules ==
  {SpecR(n, "unset", "e1", "unset") : n \in {"n1", "n2"}}
    \cup {SpecR("unset", n, "e1", "unset") : n \in {"n1", "n2", "quoted", "map", "empty"}}
    \cup {SpecR("n1", "n2", "e1", "unset"), SpecR("n1", "map", "e1", "unset"),
          SpecR("unset", "unset", "e1", "unset"), SpecR("unset", "n1", "e2", "2m"),
          SpecR("unset", "n1", "e1", "soon"), SpecR("unset", "n1", "colon", "unset"),
          SpecR("n1", "unset", "empty", "unset")}

MCSpecGroups ==
  [interval : {"unset", "1m", "60s", "soon"},
   rules : {<<>>} \cup {<<a>> : a \in MCSpecRules} \cup {<<a, b>> : a, b \in MCSpecRules}]

MCRules ==
  [record : {"n1", "n2"}, alert : {""}, expr : {"e1"}, for : {0}, extras : {"none"}]
    \cup [record : {""}, alert : {"n1", "n2"}, expr : {"e1"}, for : {0}, extras : {"none"}]
    \cup [record : {""}, alert : {"n1"}, expr : {"e2"}, for : {120}, extras : {"none"}]

MCGroups ==
  [interval : {0, 60}, rules : {<<a>> : a \in MCRules} \cup {<<a, b>> : a, b \in MCRules}]
=============================================================================
