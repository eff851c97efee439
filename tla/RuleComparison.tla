--------------------------- MODULE RuleComparison ---------------------------
(***************************************************************************)
(* One RuleGroup custom resource and the rule group that exists for it in  *)
(* Cortex, polled over and over: each poll compares the two and, when the  *)
(* comparison says they differ, writes the group.  Everything that can     *)
(* happen in between (edits, drift, failures) is left to                   *)
(* RuleGroupController; here any pair is an initial state, so that what is *)
(* asked is what the comparison and the write make of each other.          *)
(***************************************************************************)
EXTENDS RuleGroupRules

CONSTANTS
  SpecGroups,  \* the interval and rules the custom resource may state
  Groups       \* the groups Cortex may hold when the polling starts

ASSUME GroupsAssumption == SpecGroups \subseteq SpecGroup /\ Groups \subseteq StoredGroup

VARIABLES
  spec,        \* cr.Spec.ForProvider
  group        \* the rule group in Cortex

vars == <<spec, group>>

Init == spec \in SpecGroups /\ group \in Groups

\* A poll that changes nothing: the group is up to date, or the process dies in
\* the comparison, or the group cannot be built, or Cortex refuses it.
PollQuietly ==
  /\ \/ Verdict(spec, group) \in {"ok", "panic"}
     \/ BuildOutcome(spec) # "ok"
     \/ ~ CortexAccepts(BuiltGroup(spec))
  /\ UNCHANGED vars

\* A poll that ends in a successful Update.
PollAndWrite ==
  /\ Verdict(spec, group) = "error"
  /\ BuildOutcome(spec) = "ok"
  /\ CortexAccepts(BuiltGroup(spec))
  /\ group' = BuiltGroup(spec)
  /\ UNCHANGED spec

Next == PollQuietly \/ PollAndWrite

Spec == Init /\ [][Next]_vars

-----------------------------------------------------------------------------
(***************************************************************************)
(* Properties.                                                             *)
(***************************************************************************)

\* The custom resource stays what the user wrote, and Cortex only ever holds groups
\* that its own validation lets in: no unparsed duration is sent.
TypeOK == spec \in SpecGroups /\ group \in StoredGroup

\* All alerting rules carry one name, and all recording rules carry one name.
UniformNames(s) ==
  \A i, j \in DOMAIN s.rules :
    LET a == s.rules[i]
        b == s.rules[j]
    IN  /\ a.alert # Unset /\ b.alert # Unset => ValueOf(a.alert) = ValueOf(b.alert)
        /\ a.record # Unset /\ b.record # Unset => ValueOf(a.record) = ValueOf(b.record)

\* Two alerting (or two recording) rules with different names can never be seen as
\* up to date, whatever Cortex holds: isUpToDate remembers only the last observed
\* rule of each sort, so one of the two names always differs from it.
MixedNamesNeverUpToDate == ~ UniformNames(spec) => ~ IsUpToDate(spec, group)

\* When the names are uniform, the group that Update writes is what the next
\* isUpToDate accepts: the resource does not flap.
WriteSettles == [][PollAndWrite /\ UniformNames(spec) => IsUpToDate(spec', group')]_vars
=============================================================================
