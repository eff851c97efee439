------------------------ MODULE RuleComparisonProofs ------------------------
(***************************************************************************)
(* Proofs about the comparison, for rules and groups of any size.          *)
(***************************************************************************)
EXTENDS RuleComparison, WellFoundedInduction, TLAPS

\* Checks that end "ok" all ended "ok".
LEMMA ChecksOk ==
  ASSUME NEW outcomes, FirstNotOk(outcomes) = "ok"
  PROVE  \A i \in DOMAIN outcomes : outcomes[i] = "ok"
  BY DEF FirstNotOk

\* What isUpToDate has found out about a rule when it goes on to the next one.
LEMMA AcceptedRule ==
  ASSUME NEW rule, NEW g, RuleVerdict(rule, g) = "ok"
  PROVE  /\ NodeOutcome(rule) = "ok"
         /\ rule.alert # Unset => ValueOf(rule.alert) = LastAlert(g)
         /\ rule.record # Unset => ValueOf(rule.record) = LastRecord(g)
<1> DEFINE checks ==
      <<NodeOutcome(rule),
        IF rule.alert # Unset /\ ValueOf(rule.alert) # LastAlert(g) THEN "error" ELSE "ok",
        IF rule.record # Unset /\ ValueOf(rule.record) # LastRecord(g) THEN "error" ELSE "ok">>
<1>1. \A i \in DOMAIN checks : checks[i] = "ok"
  BY ChecksOk DEF RuleVerdict
<1>2. checks[1] = "ok" /\ checks[2] = "ok" /\ checks[3] = "ok"
  BY <1>1
<1> QED
  BY <1>2

\* A group that isUpToDate accepts has the interval stated, and every rule passed.
LEMMA AcceptedGroup ==
  ASSUME NEW s, NEW g, IsUpToDate(s, g)
  PROVE  /\ DurationOutcome(s.interval) = "ok"
         /\ DurationValueOf(s.interval) = g.interval
         /\ \A i \in DOMAIN s.rules : RuleVerdict(s.rules[i], g) = "ok"
<1> DEFINE rules == [i \in DOMAIN s.rules |-> RuleVerdict(s.rules[i], g)]
           checks == <<DurationOutcome(s.interval),
                       IF DurationValueOf(s.interval) # g.interval THEN "error" ELSE "ok",
                       FirstNotOk(rules)>>
<1>1. \A i \in DOMAIN checks : checks[i] = "ok"
  BY ChecksOk DEF IsUpToDate, Verdict
<1>2. checks[1] = "ok" /\ checks[2] = "ok" /\ checks[3] = "ok"
  <2> HIDE DEF rules
  <2> QED
    BY <1>1
<1>3. \A i \in DOMAIN rules : rules[i] = "ok"
  BY <1>2, ChecksOk
<1> QED
  BY <1>2, <1>3

\* A group is never accepted for rules of two names of one sort.
LEMMA OneNameOnly ==
  ASSUME NEW s, NEW g, IsUpToDate(s, g)
  PROVE  UniformNames(s)
  BY AcceptedGroup, AcceptedRule DEF UniformNames

\* Whatever the texts, the rules and the group in Cortex are: a custom resource that states
\* two alerting rules, or two recording rules, of different names is never found up to date,
\* so that it is written to Cortex at every poll for as long as it exists.
THEOREM MixedNamesAreNeverAccepted == Spec => []MixedNamesNeverUpToDate
<1>1. MixedNamesNeverUpToDate
  BY OneNameOnly DEF MixedNamesNeverUpToDate
<1> QED
  BY <1>1, PTL

-----------------------------------------------------------------------------
(***************************************************************************)
(* A write settles.                                                        *)
(***************************************************************************)

\* Some rules of a sequence, if there are any, have a last one among them.
LEMMA LastOne ==
  ASSUME NEW n \in Nat, NEW S \in SUBSET (1..n), S # {}
  PROVE  Max(S) \in S
<1> DEFINE fromEnd == {n - i : i \in S}
           less    == OpToRel(<, Nat)
<1>1. fromEnd \in SUBSET Nat
  OBVIOUS
<1>2. fromEnd # {}
  <2>1. PICK i \in S : TRUE
    OBVIOUS
  <2>2. n - i \in fromEnd
    OBVIOUS
  <2> QED
    BY <2>2
<1> HIDE DEF fromEnd
<1>3. PICK d \in fromEnd : \A e \in fromEnd : ~ (<<e, d>> \in less)
  BY <1>1, <1>2, WFMin, NatLessThanWellFounded
<1>4. \A e \in fromEnd : d <= e
  <2>1. TAKE e \in fromEnd
  <2>2. d \in Nat /\ e \in Nat
    BY <1>1
  <2>3. e < d => <<e, d>> \in less
    BY <2>2, <<e, d>>[1] = e, <<e, d>>[2] = d DEF OpToRel
  <2> HIDE DEF less
  <2> QED
    BY <1>3, <2>2, <2>3
<1> USE DEF fromEnd
<1>5. PICK m \in S : d = n - m
  OBVIOUS
<1>6. \A i \in S : m >= i
  <2>1. TAKE i \in S
  <2>2. n - i \in fromEnd
    OBVIOUS
  <2>3. n - m <= n - i
    BY <1>4, <1>5, <2>2
  <2> QED
    BY <2>3
<1> QED
  BY <1>5, <1>6 DEF Max

\* The converse of ChecksOk.
LEMMA AllChecksOk ==
  ASSUME NEW outcomes, \A i \in DOMAIN outcomes : outcomes[i] = "ok"
  PROVE  FirstNotOk(outcomes) = "ok"
  BY DEF FirstNotOk

\* In the group that was built from rules of one alert name, that name is the last one.
LEMMA LastAlertBuilt ==
  ASSUME NEW s, s.rules \in Seq(SpecRule), UniformNames(s),
         NEW i \in DOMAIN s.rules, s.rules[i].alert # Unset
  PROVE  ValueOf(s.rules[i].alert) = LastAlert(BuiltGroup(s))
<1> DEFINE g == BuiltGroup(s)
           alerts == {j \in DOMAIN g.rules : g.rules[j].alert # NoValue}
<1>1. /\ DOMAIN g.rules = DOMAIN s.rules
      /\ \A j \in DOMAIN s.rules : g.rules[j].alert = ValueOf(s.rules[j].alert)
  BY DEF BuiltGroup, NodeOf
<1>2. LastAlert(g) = IF alerts = {} THEN NoValue ELSE g.rules[Max(alerts)].alert
  BY DEF LastAlert
<1>3. CASE alerts = {}
  BY <1>1, <1>2, <1>3
<1>4. CASE alerts # {}
  <2>1. PICK n \in Nat : DOMAIN s.rules = 1..n
    OBVIOUS
  <2> DEFINE last == Max(alerts)
  <2>2. last \in alerts
    <3>1. alerts \in SUBSET (1..n)
      BY <1>1, <2>1
    <3> HIDE DEF alerts
    <3> QED
      BY <1>4, <3>1, LastOne
  <2>3. last \in DOMAIN s.rules /\ ValueOf(s.rules[last].alert) # NoValue
    BY <1>1, <2>2
  <2>4. s.rules[last].alert # Unset
    BY <2>3 DEF ValueOf
  <2>5. ValueOf(s.rules[i].alert) = ValueOf(s.rules[last].alert)
    BY <2>3, <2>4 DEF UniformNames
  <2> QED
    BY <1>1, <1>2, <1>4, <2>3, <2>5
<1> QED
  BY <1>3, <1>4

\* The same for records.
LEMMA LastRecordBuilt ==
  ASSUME NEW s, s.rules \in Seq(SpecRule), UniformNames(s),
         NEW i \in DOMAIN s.rules, s.rules[i].record # Unset
  PROVE  ValueOf(s.rules[i].record) = LastRecord(BuiltGroup(s))
<1> DEFINE g == BuiltGroup(s)
           records == {j \in DOMAIN g.rules : g.rules[j].record # NoValue}
<1>1. /\ DOMAIN g.rules = DOMAIN s.rules
      /\ \A j \in DOMAIN s.rules : g.rules[j].record = ValueOf(s.rules[j].record)
  BY DEF BuiltGroup, NodeOf
<1>2. LastRecord(g) = IF records = {} THEN NoValue ELSE g.rules[Max(records)].record
  BY DEF LastRecord
<1>3. CASE records = {}
  BY <1>1, <1>2, <1>3
<1>4. CASE records # {}
  <2>1. PICK n \in Nat : DOMAIN s.rules = 1..n
    OBVIOUS
  <2> DEFINE last == Max(records)
  <2>2. last \in records
    <3>1. records \in SUBSET (1..n)
      BY <1>1, <2>1
    <3> HIDE DEF records
    <3> QED
      BY <1>4, <3>1, LastOne
  <2>3. last \in DOMAIN s.rules /\ ValueOf(s.rules[last].record) # NoValue
    BY <1>1, <2>2
  <2>4. s.rules[last].record # Unset
    BY <2>3 DEF ValueOf
  <2>5. ValueOf(s.rules[i].record) = ValueOf(s.rules[last].record)
    BY <2>3, <2>4 DEF UniformNames
  <2> QED
    BY <1>1, <1>2, <1>4, <2>3, <2>5
<1> QED
  BY <1>3, <1>4

\* A group built without an error is accepted when the names are uniform.
LEMMA BuiltIsUpToDate ==
  ASSUME NEW s, s.rules \in Seq(SpecRule), UniformNames(s), BuildOutcome(s) = "ok"
  PROVE  IsUpToDate(s, BuiltGroup(s))
<1> DEFINE g == BuiltGroup(s)
           nodes == [i \in DOMAIN s.rules |-> NodeOutcome(s.rules[i])]
           rules == [i \in DOMAIN s.rules |-> RuleVerdict(s.rules[i], g)]
           steps == <<FirstNotOk(nodes), DurationOutcome(s.interval)>>
<1>1. FirstNotOk(nodes) = "ok" /\ DurationOutcome(s.interval) = "ok"
  <2>1. \A i \in DOMAIN steps : steps[i] = "ok"
    BY ChecksOk DEF BuildOutcome
  <2>2. steps[1] = "ok" /\ steps[2] = "ok"
    <3> HIDE DEF nodes
    <3> QED
      BY <2>1
  <2> QED
    BY <2>2
<1>2. \A i \in DOMAIN s.rules : NodeOutcome(s.rules[i]) = "ok"
  <2>1. \A i \in DOMAIN nodes : nodes[i] = "ok"
    BY <1>1, ChecksOk
  <2> QED
    BY <2>1
<1>3. ASSUME NEW i \in DOMAIN s.rules
      PROVE  RuleVerdict(s.rules[i], g) = "ok"
  <2>1. NodeOutcome(s.rules[i]) = "ok"
    BY <1>2
  <2>2. s.rules[i].alert # Unset => ValueOf(s.rules[i].alert) = LastAlert(g)
    BY LastAlertBuilt
  <2>3. s.rules[i].record # Unset => ValueOf(s.rules[i].record) = LastRecord(g)
    BY LastRecordBuilt
  <2> HIDE DEF g
  <2> QED
    BY <2>1, <2>2, <2>3, AllChecksOk DEF RuleVerdict
<1>4. FirstNotOk(rules) = "ok"
  BY <1>3, AllChecksOk
<1>5. DurationValueOf(s.interval) = g.interval
  BY DEF BuiltGroup
<1> HIDE DEF rules
<1>6. Verdict(s, g) = FirstNotOk(<<DurationOutcome(s.interval),
                                  IF DurationValueOf(s.interval) # g.interval THEN "error" ELSE "ok",
                                  FirstNotOk(rules)>>)
  BY DEF Verdict, rules
<1> HIDE DEF g
<1> QED
  BY <1>1, <1>4, <1>5, <1>6, AllChecksOk DEF IsUpToDate, g

\* The custom resource stays one that users may write.
LEMMA SpecStays == Spec => [](spec \in SpecGroups)
<1>1. Init => spec \in SpecGroups
  BY DEF Init
<1>2. spec \in SpecGroups /\ [Next]_vars => (spec \in SpecGroups)'
  BY DEF Next, PollQuietly, PollAndWrite, vars
<1> QED
  BY <1>1, <1>2, PTL DEF Spec

\* Whatever the texts, the rules and the group in Cortex are: when the alerting rules carry
\* one name and the recording rules carry one name, the group that Update writes is one
\* that isUpToDate accepts, so that the next poll leaves it alone.
THEOREM WritesSettle == Spec => WriteSettles
<1> DEFINE Settled == PollAndWrite /\ UniformNames(spec) => IsUpToDate(spec', group')
<1>1. ASSUME spec \in SpecGroups, [Next]_vars
      PROVE  Settled
  <2>1. SUFFICES ASSUME PollAndWrite, UniformNames(spec)
                 PROVE  IsUpToDate(spec', group')
    OBVIOUS
  <2>2. spec' = spec /\ group' = BuiltGroup(spec) /\ BuildOutcome(spec) = "ok"
    BY <2>1 DEF PollAndWrite
  <2>3. spec.rules \in Seq(SpecRule)
    BY <1>1, GroupsAssumption DEF SpecGroup
  <2>4. IsUpToDate(spec, BuiltGroup(spec))
    BY <2>1, <2>2, <2>3, BuiltIsUpToDate
  <2> QED
    BY <2>2, <2>4
<1>2. (spec \in SpecGroups) /\ [Next]_vars => [Settled]_vars
  BY <1>1
<1> HIDE DEF Settled
<1>3. Spec => [][Settled]_vars
  BY <1>2, SpecStays, PTL DEF Spec
<1> QED
  BY <1>3 DEF WriteSettles, Settled

-----------------------------------------------------------------------------
(***************************************************************************)
(* What is sent.                                                           *)
(***************************************************************************)

\* A rule that became a node is a rule of the ruler API.
LEMMA NodeIsRule ==
  ASSUME NEW rule \in SpecRule, NodeOutcome(rule) = "ok"
  PROVE  NodeOf(rule) \in Rule
<1>1. DurationOutcome(rule.for) = "ok"
  BY ChecksOk DEF NodeOutcome
<1>2. DurationValueOf(rule.for) \in Durations
  BY <1>1, DurationAssumption DEF DurationOutcome, DurationValueOf, SpecRule
<1>3. \A t \in Text \cup {Unset} : ValueOf(t) \in Values
  BY TextAssumption DEF ValueOf
<1> QED
  BY <1>2, <1>3 DEF NodeOf, Rule, SpecRule

\* A group that could be built and that Cortex takes is one that a ruler can hold.
LEMMA BuiltIsStored ==
  ASSUME NEW s \in SpecGroup, BuildOutcome(s) = "ok", CortexAccepts(BuiltGroup(s))
  PROVE  BuiltGroup(s) \in StoredGroup
<1> DEFINE nodes == [i \in DOMAIN s.rules |-> NodeOutcome(s.rules[i])]
<1>1. FirstNotOk(nodes) = "ok" /\ DurationOutcome(s.interval) = "ok"
  BY ChecksOk DEF BuildOutcome
<1>2. \A i \in DOMAIN s.rules : NodeOutcome(s.rules[i]) = "ok"
  BY <1>1, ChecksOk
<1>3. s.rules \in Seq(SpecRule) /\ s.interval \in DurationText \cup {Unset}
  BY DEF SpecGroup
<1>4. \A i \in DOMAIN s.rules : NodeOf(s.rules[i]) \in Rule
  BY <1>2, <1>3, NodeIsRule
<1>5. [i \in DOMAIN s.rules |-> NodeOf(s.rules[i])] \in Seq(Rule)
  BY <1>3, <1>4
<1>6. DurationValueOf(s.interval) \in Durations
  BY <1>1, <1>3, DurationAssumption DEF DurationOutcome, DurationValueOf
<1> QED
  BY <1>5, <1>6 DEF BuiltGroup, Group, StoredGroup

\* Whatever users write, only groups are sent that the ruler takes, with durations that
\* were parsed and values that are there.
THEOREM TypeCorrect == Spec => []TypeOK
<1>1. Init => TypeOK
  BY GroupsAssumption DEF Init, TypeOK
<1>2. TypeOK /\ [Next]_vars => TypeOK'
  <2>1. SUFFICES ASSUME TypeOK, PollAndWrite
                 PROVE  TypeOK'
    BY DEF Next, PollQuietly, vars, TypeOK
  <2> QED
    BY <2>1, BuiltIsStored, GroupsAssumption DEF PollAndWrite, TypeOK
<1> QED
  BY <1>1, <1>2, PTL DEF Spec

=============================================================================
