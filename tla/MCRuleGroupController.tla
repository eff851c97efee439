----------------------- MODULE MCRuleGroupController -----------------------
(***************************************************************************)
(* Values for RuleGroupController: groups of one alerting rule, with two   *)
(* alert names, and the specifications each run needs.                     *)
(***************************************************************************)
EXTENDS RuleGroupController, TLC

MCYamlKind == [n1 |-> "scalar", n2 |-> "scalar", e1 |-> "scalar", e2 |-> "scalar", empty |-> "empty"]
MCText == DOMAIN MCYamlKind
MCScalarValue == [t \in MCText |-> IF t = "empty" THEN "" ELSE t]
MCValues == {"n1", "n2", "e1", "e2", ""}
MCBadDuration == -1
MCParsedDuration == ("1m" :> 60) @@ ("soon" :> MCBadDuration)
MCDurationText == DOMAIN MCParsedDuration

Stated(ns, interval, alert, expr) ==
  [namespace |-> ns, interval |-> interval,
   rules |-> <<[record |-> "unset", alert |-> alert, expr |-> expr, for |-> "unset", extras |-> "none"]>>]

First    == Stated("ns1", "unset", "n1", "e1")
Second   == Stated("ns1", "unset", "n2", "e1")
Rejected == Stated("ns1", "unset", "unset", "e1")    \* Cortex refuses it
Unparsed == Stated("ns1", "soon", "n1", "e1")        \* the interval is no duration
Poison   == Stated("ns1", "unset", "n1", "empty")    \* building it panics
Revised  == Stated("ns1", "unset", "n1", "e2")       \* First with another expression

Good     == {First, Second}
Various  == {First, Second, Rejected, Unparsed, Poison}
Poisoned == {First, Poison}
Reworded == {First, Revised}

\* Any other specification.
MCEdits(specs) == {e \in specs \X specs : e[1] # e[2]}
GoodEdits     == MCEdits(Good)
VariousEdits  == MCEdits(Various)
PoisonedEdits == MCEdits(Poisoned)
RewordedEdits == MCEdits(Reworded)

\* The group of the second specification with another expression.
MCForeignGroups ==
  {[interval |-> 0, rules |-> <<[record |-> "", alert |-> "n2", expr |-> "e2", for |-> 0, extras |-> "none"]>>]}

\* Where nothing tells the resources apart.
Alike == Permutations(Res)
=============================================================================
