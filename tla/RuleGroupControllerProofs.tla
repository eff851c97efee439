---------------------- MODULE RuleGroupControllerProofs ----------------------
(***************************************************************************)
(* Proofs about RuleGroupController, for any sets of processes, custom     *)
(* resources, specifications, rules and names, and any bounds.             *)
(***************************************************************************)
EXTENDS RuleGroupController, ManagedReconcilerProofs

-----------------------------------------------------------------------------
(***************************************************************************)
(* The group that is sent.                                                 *)
(***************************************************************************)

\* Checks that end "ok" all ended "ok".
LEMMA AllOk ==
  ASSUME NEW outcomes, FirstNotOk(outcomes) = "ok"
  PROVE  \A i \in DOMAIN outcomes : outcomes[i] = "ok"
  BY DEF FirstNotOk

\* A rule that could be turned into a node is a rule of the ruler API: every text has a
\* value and its duration was parsed.
LEMMA NodeType ==
  ASSUME NEW rule \in SpecRule, NodeOutcome(rule) = "ok"
  PROVE  NodeOf(rule) \in Rule
<1>1. DurationOutcome(rule.for) = "ok"
  BY AllOk DEF NodeOutcome
<1>2. DurationValueOf(rule.for) \in Durations
  BY <1>1, DurationAssumption DEF DurationOutcome, DurationValueOf, SpecRule
<1>3. \A t \in Text \cup {Unset} : ValueOf(t) \in Values
  BY TextAssumption DEF ValueOf
<1> QED
  BY <1>2, <1>3 DEF NodeOf, Rule, SpecRule

\* The specifications of custom resources.
LEMMA SpecsType ==
  ASSUME NEW s \in Specs
  PROVE  /\ s.namespace \in Namespaces
         /\ s.interval \in DurationText \cup {Unset}
         /\ s.rules \in Seq(SpecRule)
  BY RuleGroupAssumption

\* What Create and Update send is a group that a ruler can hold.
LEMMA SentGroupType ==
  ASSUME NEW s \in Specs, Sendable(s)
  PROVE  BuiltGroup(s) \in StoredGroup
<1> DEFINE nodes == [i \in DOMAIN s.rules |-> NodeOutcome(s.rules[i])]
<1>1. FirstNotOk(nodes) = "ok" /\ DurationOutcome(s.interval) = "ok"
  BY AllOk DEF Sendable, BuildOutcome
<1>2. \A i \in DOMAIN s.rules : NodeOutcome(s.rules[i]) = "ok"
  BY <1>1, AllOk
<1>3. \A i \in DOMAIN s.rules : NodeOf(s.rules[i]) \in Rule
  BY <1>2, NodeType, SpecsType
<1>4. [i \in DOMAIN s.rules |-> NodeOf(s.rules[i])] \in Seq(Rule)
  BY <1>3, SpecsType
<1>5. DurationValueOf(s.interval) \in Durations
  BY <1>1, DurationAssumption, SpecsType DEF DurationOutcome, DurationValueOf
<1> QED
  BY <1>4, <1>5 DEF BuiltGroup, Group, StoredGroup, Sendable

-----------------------------------------------------------------------------
(***************************************************************************)
(* Type correctness.                                                       *)
(***************************************************************************)

\* The types of the groups are inductive only together with what ManagedReconcilerProofs
\* says of resources and workers.
TypeInv == ManagedInv /\ TypeOK

\* The pieces of TypeInv, for one worker.
LEMMA TypeUse ==
  ASSUME TypeInv, NEW p \in Procs, NEW r \in Res
  PROVE  /\ ManagedInv /\ drifts \in 0..MaxDrifts
         /\ groups \in [Keys -> StoredGroup \cup {Absent}]
         /\ obj \in [Res -> Object \cup {Gone}] /\ wk \in [Procs -> [Res -> Worker \cup {Idle}]]
         /\ wk[p][r].pc # "idle" => wk[p][r] \in Worker
         /\ wk[p][r].fresh => obj[r] \in Object
  BY ManagedUse DEF TypeInv, TypeOK

\* What a step has to keep besides ManagedInv.
LEMMA TypeFrom ==
  ASSUME ManagedInv', groups' \in [Keys -> StoredGroup \cup {Absent}], drifts' \in 0..MaxDrifts
  PROVE  TypeInv'
  BY DEF TypeInv, TypeOK, ManagedInv

\* The calls into the controller, in the words of ManagedReconcilerProofs.
LEMMA ControllerCalls ==
  ASSUME TypeInv, NEW p \in Procs, NEW r \in Res, ControllerStep(p, r)
  PROVE  /\ (wk[p][r].pc = "observe" /\ ObserveAbsent(p, r)) \/ QuietCall(p, r)
         /\ obj' = obj /\ recent' = recent /\ edits' = edits /\ drifts' = drifts
         /\ Fault \/ faults' = faults
         /\ wk[p][r] \in Worker /\ wk[p][r].mg \in Object /\ wk[p][r].mg.spec \in Specs
         /\ Working(wk[p][r]) /\ wk[p][r].pc # "initialize"
<1> DEFINE v == wk[p][r]
<1>1. Working(v) /\ v.pc # "idle" /\ v.pc # "initialize"
  BY DEF ControllerStep, Connect, Observe, Create, Update, Delete, At, Working
<1>2. v \in Worker /\ v.mg \in Object /\ v.mg.spec \in Specs /\ v.mg.ready \in Conditions
  BY <1>1, TypeUse, WorkerUpdates DEF Object, Conditions
<1>3. /\ obj' = obj /\ recent' = recent /\ edits' = edits /\ drifts' = drifts
      /\ Fault \/ faults' = faults
  BY DEF ControllerStep, Connect, Observe, Create, Update, Delete
<1>4. SUFFICES (v.pc = "observe" /\ ObserveAbsent(p, r)) \/ QuietCall(p, r)
  BY <1>1, <1>2, <1>3
<1>5. CASE Connect(p, r)
  BY <1>1, <1>2, <1>5 DEF Connect, QuietCall, At, Fail
<1>6. CASE Observe(p, r)
  <2>1. v.pc = "observe"
    BY <1>6 DEF Observe, At
  <2>2. CASE ObservePresent(p, r)
    <3>1. PICK verdict : Compared(p, r, Available(v.mg), verdict)
      BY <2>2 DEF ObservePresent
    <3> QED
      BY <2>1, <3>1 DEF Compared, Panic, QuietCall
  <2>3. CASE Fail(p, r)
    BY <1>1, <1>2, <2>3 DEF Fail, QuietCall
  <2> QED
    BY <1>6, <2>1, <2>2, <2>3 DEF Observe
<1>7. CASE Create(p, r)
  BY <1>7 DEF Create, QuietCall, At, Panic
<1>8. CASE Update(p, r)
  BY <1>1, <1>2, <1>8 DEF Update, QuietCall, Panic, Fail
<1>9. CASE Delete(p, r)
  BY <1>1, <1>9 DEF Delete, QuietCall, Conditions
<1> QED
  BY <1>5, <1>6, <1>7, <1>8, <1>9 DEF ControllerStep

\* A call into the controller sends nothing, a group that was built, or a deletion.
LEMMA ControllerSends ==
  ASSUME NEW p \in Procs, NEW r \in Res, ControllerStep(p, r)
  PROVE  LET mg == wk[p][r].mg
         IN  \/ groups' = groups
             \/ /\ wk[p][r].pc \in {"create", "update"}
                /\ Sendable(mg.spec) /\ Send(mg, r)
             \/ /\ wk[p][r].pc = "delete"
                /\ groups' = [groups EXCEPT ![ObservedKey(mg)] = Absent]
  BY DEF ControllerStep, Connect, Observe, Create, Update, Delete, At

LEMMA ControllerType ==
  ASSUME TypeInv, NEW p \in Procs, NEW r \in Res, ControllerStep(p, r)
  PROVE  TypeInv'
<1> DEFINE mg == wk[p][r].mg
<1>1. ManagedInv'
  BY ControllerCalls, CallType, TypeUse DEF Call, FindsNone, ObserveAbsent
<1>2. groups' \in [Keys -> StoredGroup \cup {Absent}]
  <2>1. CASE Sendable(mg.spec) /\ Send(mg, r)
    <3>1. BuiltGroup(mg.spec) \in StoredGroup
      BY <2>1, ControllerCalls, SentGroupType
    <3> QED
      BY <2>1, <3>1, TypeUse DEF Send
  <2> QED
    BY <2>1, ControllerSends, TypeUse
<1> QED
  BY <1>1, <1>2, ControllerCalls, TypeUse, TypeFrom

LEMMA DriftType ==
  ASSUME TypeInv, Drift
  PROVE  TypeInv'
<1>1. ManagedInv'
  BY SameType DEF Drift, TypeInv
<1>2. groups' \in [Keys -> StoredGroup \cup {Absent}] /\ drifts' \in 0..MaxDrifts
  BY RuleGroupAssumption DEF Drift, TypeInv, TypeOK
<1> QED
  BY <1>1, <1>2, TypeFrom

LEMMA TypeStep ==
  ASSUME TypeInv, [Next]_vars
  PROVE  TypeInv'
<1>0. ManagedInv /\ groups \in [Keys -> StoredGroup \cup {Absent}] /\ drifts \in 0..MaxDrifts
  BY DEF TypeInv, TypeOK
<1>1. CASE \E p \in Procs, r \in Res : Reconcile(p, r)
  <2>1. PICK p \in Procs, r \in Res : Reconcile(p, r)
    BY <1>1
  <2>2. CASE LibraryStep(p, r) /\ UNCHANGED <<groups, drifts>>
    BY <1>0, <2>2, LibraryType, TypeFrom
  <2> QED
    BY <2>1, <2>2, ControllerType DEF Reconcile
<1>2. CASE \E r \in Res : (UserStep(r) \/ GraceExpires(r)) /\ UNCHANGED <<groups, drifts>>
  BY <1>0, <1>2, UserType, TypeFrom
<1>3. CASE \E p \in Procs : Crash(p) /\ UNCHANGED <<groups, drifts>>
  BY <1>0, <1>3, CrashType, TypeFrom
<1>4. CASE UNCHANGED vars
  BY <1>0, <1>4, SameType, TypeFrom DEF vars
<1> QED
  BY <1>1, <1>2, <1>3, <1>4, DriftType DEF Next

LEMMA TypeStart ==
  ASSUME Init
  PROVE  TypeInv
<1>1. ManagedInv
  BY ManagedStart DEF Init
<1> QED
  BY <1>1, RuleGroupAssumption DEF Init, TypeInv, TypeOK, ManagedInv

LEMMA TypeInvariant == Spec => []TypeInv
  BY TypeStart, TypeStep, PTL DEF Spec

\* Whatever processes, users, faults and drift do, every custom resource, every copy a
\* worker holds, every status and every group in Cortex stays of its type: in particular
\* Cortex never holds a group with an unparsed duration or a rule that it does not accept.
THEOREM TypeCorrect == Spec => []TypeOK
<1>1. TypeInv => TypeOK
  BY DEF TypeInv
<1> QED
  BY <1>1, TypeInvariant, PTL

-----------------------------------------------------------------------------
(***************************************************************************)
(* No group is stranded.                                                   *)
(***************************************************************************)

\* What the deployment and its users must leave alone: one process (or leader election),
\* external names, namespaces, and the Orphan policy.
SingleOwner ==
  /\ SingleProcess
  /\ UserNames = {NoName}
  /\ Policies \subseteq {"Delete"}
  /\ \A e \in Edits : e[1].namespace = e[2].namespace

\* What a resource locks with its finalizer: its group in this namespace.
Home == [s \in Specs |-> s.namespace]

\* The finalizer is only removed while the group is gone.
ReleaseInv ==
  \A p \in Procs, r \in Res :
    wk[p][r].pc = "removeFinalizer" => groups[<<wk[p][r].mg.spec.namespace, r>>] = Absent

\* The custom resource named n has the lock on its group in namespace ns.
Guarded(ns, n) == n \in Res /\ Holder(n) /\ Home[obj[n].spec] = ns

GroupInv == \A ns \in Namespaces, n \in Names : groups[<<ns, n>>] # Absent => Guarded(ns, n)

IInv == TypeInv /\ LockInv(Home) /\ ReleaseInv /\ GroupInv

LEMMA OwnersUndisturbed == SingleOwner => Undisturbed(Home)
<1>1. \A e \in Edits : e[1] \in Specs /\ e[2] \in Specs
  BY ManagedAssumption
<1> QED
  BY <1>1 DEF SingleOwner, Undisturbed, Home

\* What a worker that is at work knows of its copy and of its custom resource.
LEMMA WorkingCopy ==
  ASSUME IInv, NEW p \in Procs, NEW r \in Res, Working(wk[p][r])
  PROVE  /\ wk[p][r] \in Worker /\ wk[p][r].mg \in Object /\ wk[p][r].mg.spec \in Specs
         /\ wk[p][r].mg.spec.namespace \in Namespaces
         /\ wk[p][r].pc # "initialize" => wk[p][r].mg.extName = r
         /\ wk[p][r].pc \in {"pending", "create", "record", "update", "delete", "removeFinalizer"}
              => wk[p][r].mg.finalizer
         /\ wk[p][r].pc \in {"delete", "removeFinalizer"} => wk[p][r].mg.deleting
         /\ wk[p][r].mg.deleting => wk[p][r].mg.finalizer
         /\ wk[p][r].mg.finalizer =>
              /\ obj[r] # Gone /\ obj[r] \in Object /\ obj[r].finalizer /\ obj[r].extName = r
              /\ obj[r].spec.namespace = wk[p][r].mg.spec.namespace
              /\ wk[p][r].mg.deleting => obj[r].deleting
         /\ wk[p][r].fresh =>
              /\ obj[r] # Gone /\ obj[r] \in Object
              /\ obj[r].finalizer = wk[p][r].mg.finalizer
              /\ obj[r].deleting = wk[p][r].mg.deleting
              /\ obj[r].spec.namespace = wk[p][r].mg.spec.namespace
              /\ obj[r].finalizer => obj[r].extName = r
<1> DEFINE v == wk[p][r]
<1>1. /\ v \in Worker /\ v.mg \in Object /\ CopyOK(Home, v, r, obj[r]) /\ v.mg.spec \in Specs
      /\ v.fresh => obj[r] \in Object /\ obj[r] # Gone /\ ObjectOK(obj[r], r)
  BY CopyUse DEF IInv
<1>2. obj[r] # Gone => obj[r] \in Object /\ obj[r].spec \in Specs /\ ObjectOK(obj[r], r)
  BY DEF IInv, LockInv, ObjectInv, ManagedInv, ManagedTypeOK, Object
<1>3. v.mg.finalizer =>
        /\ obj[r] # Gone /\ obj[r].finalizer /\ Home[obj[r].spec] = Home[v.mg.spec]
        /\ v.mg.deleting => obj[r].deleting
  BY <1>1 DEF CopyOK, Holds
<1>4. v.fresh => /\ obj[r].finalizer = v.mg.finalizer /\ obj[r].deleting = v.mg.deleting
                 /\ Home[obj[r].spec] = Home[v.mg.spec]
  BY <1>1 DEF CopyOK
<1>5. \A s \in Specs : Home[s] = s.namespace /\ s.namespace \in Namespaces
  BY SpecsType DEF Home
<1>6. /\ v.pc # "initialize" => v.mg.extName = r
      /\ v.pc \in {"pending", "create", "record", "update", "delete", "removeFinalizer"} => v.mg.finalizer
      /\ v.pc \in {"delete", "removeFinalizer"} => v.mg.deleting
      /\ v.mg.deleting => v.mg.finalizer
  BY <1>1 DEF CopyOK, ObjectOK
<1> QED
  BY <1>1, <1>2, <1>3, <1>4, <1>5, <1>6 DEF ObjectOK

\* The lock in the words of the model.
LEMMA GuardsHolder ==
  ASSUME IInv, NEW r \in Res, NEW k \in Keys
  PROVE  Guards(r, k) <=> k[2] = r /\ Guarded(k[1], r)
<1>1. obj[r] # Gone => obj[r] \in Object /\ obj[r].spec \in Specs /\ ObjectOK(obj[r], r)
  BY DEF IInv, LockInv, ObjectInv, ManagedInv, ManagedTypeOK, Object
<1>2. PICK ns \in Namespaces, n \in Names : k = <<ns, n>>
  BY DEF Keys
<1> QED
  BY <1>1, <1>2 DEF Guards, Guarded, Holder, Home, ObservedKey, ObjectOK

\* What a call into the controller does to the groups on behalf of resource r.
Puts(p, r) ==
  /\ wk[p][r].mg.spec.namespace \in Namespaces
  /\ Guarded(wk[p][r].mg.spec.namespace, r)
  /\ wk[p][r].pc # "removeFinalizer"
  /\ \E g \in StoredGroup : groups' = [groups EXCEPT ![WrittenKey(wk[p][r].mg, r)] = g]

Removes(p, r) ==
  /\ wk[p][r].mg.spec.namespace \in Namespaces
  /\ Guarded(wk[p][r].mg.spec.namespace, r) /\ obj[r].deleting
  /\ groups' = [groups EXCEPT ![WrittenKey(wk[p][r].mg, r)] = Absent]

\* The worker of r has found that its group is not there.
FindsNothing(p, r) ==
  /\ groups' = groups
  /\ groups[<<wk[p][r].mg.spec.namespace, r>>] = Absent
  /\ \A q \in Procs, s \in Res :
       wk'[q][s].pc = "removeFinalizer" =>
         /\ wk'[q][s].mg = wk[q][s].mg
         /\ wk[q][s].pc = "removeFinalizer" \/ (q = p /\ s = r)

\* A call into the controller leaves the finalizers alone and is one of these.
LEMMA ControllerEffect ==
  ASSUME IInv, TypeInv', SingleProcess, NEW p \in Procs, NEW r \in Res, ControllerStep(p, r)
  PROVE  /\ LockInv(Home)' /\ obj' = obj /\ drifts' = drifts
         /\ \/ groups' = groups /\ NoNewRelease
            \/ FindsNothing(p, r)
            \/ NoNewRelease /\ Puts(p, r)
            \/ NoNewRelease /\ Removes(p, r)
<1> DEFINE v == wk[p][r]
<1>0. /\ TypeInv /\ LockInv(Home) /\ ManagedInv' /\ obj' = obj /\ drifts' = drifts
      /\ Working(v) /\ v.pc # "initialize" /\ v.mg \in Object /\ v.mg.spec \in Specs
  BY ControllerCalls DEF IInv, TypeInv
<1>1. v.mg.extName = r /\ v.mg.spec.namespace \in Namespaces
  BY <1>0, WorkingCopy
<1>2. CASE v.pc = "observe" /\ ObserveAbsent(p, r)
  <2>1. groups' = groups
    BY <1>2, ControllerSends
  <2>2. groups[<<v.mg.spec.namespace, r>>] = Absent /\ NotFound(p, r, v.mg)
    BY <1>1, <1>2 DEF ObserveAbsent, ObservedGroup, ObservedKey
  <2>3. /\ LockInv(Home)'
        /\ \A q \in Procs, s \in Res :
             wk'[q][s].pc = "removeFinalizer" =>
               /\ wk'[q][s].mg = wk[q][s].mg
               /\ wk[q][s].pc = "removeFinalizer" \/ (q = p /\ s = r)
    BY <1>0, <1>2, <2>2, LockNotFound
  <2> QED
    BY <1>0, <2>1, <2>2, <2>3 DEF FindsNothing
<1>3. CASE QuietCall(p, r)
  <2>1. LockInv(Home)' /\ NoNewRelease
    BY <1>0, <1>3, LockCall
  <2>2. v.mg.finalizer => Guarded(v.mg.spec.namespace, r)
    <3>1. v.mg.finalizer => /\ obj[r] # Gone /\ obj[r] \in Object /\ obj[r].finalizer
                            /\ obj[r].spec.namespace = v.mg.spec.namespace
      BY <1>0, WorkingCopy
    <3> QED
      BY <3>1 DEF Guarded, Holder, Home, Object
  <2>3. CASE v.pc \in {"create", "update"} /\ Sendable(v.mg.spec) /\ Send(v.mg, r)
    <3>1. v.mg.finalizer
      BY <1>0, <2>3, WorkingCopy
    <3>2. BuiltGroup(v.mg.spec) \in StoredGroup
      BY <1>0, <2>3, SentGroupType
    <3>3. Puts(p, r)
      BY <1>1, <2>2, <2>3, <3>1, <3>2 DEF Puts, Send
    <3> QED
      BY <1>0, <2>1, <3>3
  <2>4. CASE v.pc = "delete" /\ groups' = [groups EXCEPT ![ObservedKey(v.mg)] = Absent]
    <3>1. v.mg.finalizer /\ obj[r].deleting
      BY <1>0, <2>4, WorkingCopy
    <3>2. Removes(p, r)
      BY <1>1, <2>2, <2>4, <3>1 DEF Removes, ObservedKey, WrittenKey
    <3> QED
      BY <1>0, <2>1, <3>2
  <2> QED
    BY <1>0, <2>1, <2>3, <2>4, ControllerSends
<1> QED
  BY <1>0, <1>2, <1>3, ControllerCalls

\* A step after which no more is there, and the locks on what is there are kept.
LEMMA KeptOn ==
  ASSUME IInv, NoNewRelease,
         \A ns \in Namespaces, n \in Names :
           /\ groups'[<<ns, n>>] # Absent => groups[<<ns, n>>] # Absent
           /\ groups'[<<ns, n>>] # Absent => (Guarded(ns, n) => Guarded(ns, n)')
  PROVE  ReleaseInv' /\ GroupInv'
<1>1. \A p \in Procs, r \in Res : wk[p][r].pc = "removeFinalizer" =>
        /\ wk[p][r].mg.spec.namespace \in Namespaces
        /\ groups[<<wk[p][r].mg.spec.namespace, r>>] = Absent
  BY WorkingCopy DEF Working, IInv, ReleaseInv
<1>2. ReleaseInv'
  BY <1>1 DEF NoNewRelease, ReleaseInv, Names
<1>3. GroupInv'
  BY DEF IInv, GroupInv
<1> QED
  BY <1>2, <1>3

\* A step concerning resource r alone takes no lock off a group that is there.
LEMMA StillGuarded ==
  ASSUME IInv, NEW r \in Res, Elsewhere(r), groups' = groups,
         HoldsOn(Home, r) \/ Asked(Home, r) \/ Charged(r) \/ \E p \in Procs : Released(Home, p, r)
  PROVE  \A ns \in Namespaces, n \in Names :
           groups[<<ns, n>>] # Absent => (Guarded(ns, n) => Guarded(ns, n)')
<1>1. SUFFICES ASSUME NEW ns \in Namespaces, NEW n \in Names, groups[<<ns, n>>] # Absent, Guarded(ns, n)
               PROVE  Guarded(ns, n)'
  OBVIOUS
<1>2. CASE n # r
  BY <1>1, <1>2 DEF Guarded, Holder, Elsewhere
<1>3. CASE n = r
  <2>1. Holder(r) /\ Home[obj[r].spec] = ns
    BY <1>1, <1>3 DEF Guarded
  <2>2. ASSUME NEW p \in Procs, Released(Home, p, r)
        PROVE  FALSE
    <3>1. wk[p][r].pc = "removeFinalizer" /\ Home[wk[p][r].mg.spec] = ns
      BY <2>1, <2>2 DEF Released
    <3>2. wk[p][r].mg.spec.namespace = ns
      BY <3>1, WorkingCopy DEF Home, Working
    <3> QED
      BY <1>1, <1>3, <3>1, <3>2 DEF IInv, ReleaseInv
  <2>3. Holder(r)' /\ Home[obj'[r].spec] = ns
    BY <2>1, <2>2 DEF HoldsOn, Asked, Charged
  <2> QED
    BY <1>3, <2>3 DEF Guarded
<1> QED
  BY <1>2, <1>3

\* A call into the controller keeps the locks on the groups.
LEMMA LeavesGuarded ==
  ASSUME IInv, TypeInv', SingleProcess, NEW p \in Procs, NEW r \in Res, ControllerStep(p, r)
  PROVE  ReleaseInv' /\ GroupInv'
<1> DEFINE ns == wk[p][r].mg.spec.namespace
<1>0. groups \in [Keys -> StoredGroup \cup {Absent}]
  BY TypeUse DEF IInv
<1>1. \A m \in Namespaces, n \in Names : Guarded(m, n) => Guarded(m, n)'
  BY ControllerEffect DEF Guarded, Holder
<1>2. CASE groups' = groups /\ NoNewRelease
  BY <1>1, <1>2, KeptOn
<1>3. CASE FindsNothing(p, r)
  <2>1. GroupInv'
    BY <1>1, <1>3 DEF FindsNothing, IInv, GroupInv
  <2>2. ReleaseInv'
    BY <1>3 DEF FindsNothing, IInv, ReleaseInv
  <2> QED
    BY <2>1, <2>2
<1>4. CASE NoNewRelease /\ Puts(p, r)
  <2>1. PICK g \in StoredGroup : groups' = [groups EXCEPT ![<<ns, r>>] = g]
    BY <1>4 DEF Puts, WrittenKey
  <2>2. ns \in Namespaces /\ Guarded(ns, r)
    BY <1>4 DEF Puts
  <2>3. \A m \in Namespaces, n \in Names :
          groups'[<<m, n>>] = IF m = ns /\ n = r THEN g ELSE groups[<<m, n>>]
    <3> HIDE DEF ns
    <3> QED
      BY <1>0, <2>1, <2>2 DEF Keys, Names
  <2>4. GroupInv'
    <3> HIDE DEF ns
    <3> QED
      BY <1>1, <2>2, <2>3 DEF IInv, GroupInv
  <2>5. \A q \in Procs, s \in Res : wk[q][s].pc = "removeFinalizer" =>
          /\ s # r /\ wk[q][s].mg.spec.namespace \in Namespaces
          /\ groups[<<wk[q][s].mg.spec.namespace, s>>] = Absent
    <3>1. TAKE q \in Procs, s \in Res
    <3>2. q = p
      BY DEF SingleProcess
    <3> QED
      BY <1>4, <3>2, WorkingCopy DEF Puts, Working, IInv, ReleaseInv
  <2>6. ReleaseInv'
    <3> HIDE DEF ns
    <3> QED
      BY <1>4, <2>3, <2>5 DEF NoNewRelease, ReleaseInv, Names
  <2> QED
    BY <2>4, <2>6
<1>5. CASE NoNewRelease /\ Removes(p, r)
  <2>1. groups' = [groups EXCEPT ![<<ns, r>>] = Absent] /\ ns \in Namespaces
    BY <1>5 DEF Removes, WrittenKey
  <2>2. \A m \in Namespaces, n \in Names :
          groups'[<<m, n>>] = IF m = ns /\ n = r THEN Absent ELSE groups[<<m, n>>]
    <3> HIDE DEF ns
    <3> QED
      BY <1>0, <2>1 DEF Keys, Names
  <2> HIDE DEF ns
  <2> QED
    BY <1>1, <1>5, <2>2, KeptOn
<1> QED
  BY <1>2, <1>3, <1>4, <1>5, ControllerEffect

\* Somebody else changes only what is there.
LEMMA DriftEffect ==
  ASSUME TypeInv, Drift
  PROVE  /\ obj' = obj /\ wk' = wk /\ drifts' = drifts + 1
         /\ \A k \in Keys : groups'[k] # Absent => groups[k] # Absent
<1>1. obj' = obj /\ wk' = wk /\ drifts' = drifts + 1
  BY DEF Drift, managedVars
<1>2. PICK k \in Keys, g \in ForeignGroups \cup {Absent} :
        groups[k] \notin {Absent, g} /\ groups' = [groups EXCEPT ![k] = g]
  BY DEF Drift
<1> QED
  BY <1>1, <1>2 DEF TypeInv, TypeOK

LEMMA InvStep ==
  ASSUME IInv, SingleOwner, [Next]_vars
  PROVE  IInv'
<1>0. /\ SingleProcess /\ Undisturbed(Home) /\ TypeInv /\ LockInv(Home)
      /\ TypeInv' /\ ManagedInv /\ ManagedInv'
  <2>1. TypeInv'
    BY TypeStep DEF IInv
  <2> QED
    BY <2>1, OwnersUndisturbed DEF SingleOwner, IInv, TypeInv
<1>1. CASE \E p \in Procs, r \in Res : Reconcile(p, r)
  <2>1. PICK p \in Procs, r \in Res : Reconcile(p, r)
    BY <1>1
  <2>2. CASE ControllerStep(p, r)
    BY <1>0, <2>2, ControllerEffect, LeavesGuarded DEF IInv
  <2>3. CASE LibraryStep(p, r) /\ UNCHANGED <<groups, drifts>>
    <3>1. /\ LockInv(Home)' /\ NoNewRelease /\ Elsewhere(r)
          /\ HoldsOn(Home, r) \/ Charged(r) \/ Released(Home, p, r)
      BY <1>0, <2>3, LockLibrary
    <3>2. \A ns \in Namespaces, n \in Names :
            groups[<<ns, n>>] # Absent => (Guarded(ns, n) => Guarded(ns, n)')
      BY <2>3, <3>1, StillGuarded
    <3>3. ReleaseInv' /\ GroupInv'
      BY <2>3, <3>1, <3>2, KeptOn
    <3> QED
      BY <1>0, <3>1, <3>3 DEF IInv
  <2> QED
    BY <2>1, <2>2, <2>3 DEF Reconcile
<1>2. CASE \E r \in Res : (UserStep(r) \/ GraceExpires(r)) /\ UNCHANGED <<groups, drifts>>
  <2>1. PICK r \in Res : (UserStep(r) \/ GraceExpires(r)) /\ UNCHANGED <<groups, drifts>>
    BY <1>2
  <2>2. /\ LockInv(Home)' /\ NoNewRelease /\ Elsewhere(r)
        /\ HoldsOn(Home, r) \/ Asked(Home, r)
    BY <1>0, <2>1, LockUser
  <2>3. \A ns \in Namespaces, n \in Names :
          groups[<<ns, n>>] # Absent => (Guarded(ns, n) => Guarded(ns, n)')
    BY <2>1, <2>2, StillGuarded
  <2>4. ReleaseInv' /\ GroupInv'
    BY <2>1, <2>2, <2>3, KeptOn
  <2> QED
    BY <1>0, <2>2, <2>4 DEF IInv
<1>3. ASSUME obj' = obj, LockInv(Home)', NoNewRelease,
             \A ns \in Namespaces, n \in Names :
               groups'[<<ns, n>>] # Absent => groups[<<ns, n>>] # Absent
      PROVE  IInv'
  <2>1. \A ns \in Namespaces, n \in Names : Guarded(ns, n) => Guarded(ns, n)'
    BY <1>3 DEF Guarded, Holder
  <2>2. ReleaseInv' /\ GroupInv'
    BY <1>3, <2>1, KeptOn
  <2> QED
    BY <1>0, <1>3, <2>2 DEF IInv
<1>4. CASE \E p \in Procs : Crash(p) /\ UNCHANGED <<groups, drifts>>
  <2>1. PICK p \in Procs : Crash(p) /\ UNCHANGED <<groups, drifts>>
    BY <1>4
  <2>2. LockInv(Home)' /\ NoNewRelease /\ obj' = obj
    BY <1>0, <2>1, LockKilled DEF Crash
  <2> QED
    BY <1>3, <2>1, <2>2
<1>5. ASSUME obj' = obj, wk' = wk
      PROVE  LockInv(Home)' /\ NoNewRelease
  BY <1>0, <1>5 DEF LockInv, ObjectInv, CopyInv, NoNewRelease
<1>6. CASE Drift
  <2>1. obj' = obj /\ wk' = wk /\ \A k \in Keys : groups'[k] # Absent => groups[k] # Absent
    BY <1>0, <1>6, DriftEffect
  <2> QED
    BY <1>3, <1>5, <2>1 DEF Keys
<1>7. CASE UNCHANGED vars
  <2>1. obj' = obj /\ wk' = wk /\ groups' = groups
    BY <1>7 DEF vars, managedVars
  <2> QED
    BY <1>3, <1>5, <2>1
<1> QED
  BY <1>1, <1>2, <1>4, <1>6, <1>7 DEF Next

LEMMA InvStart ==
  ASSUME Init
  PROVE  IInv
<1>1. TypeInv /\ LockInv(Home)
  BY TypeStart, LockStart DEF Init
<1>2. \A p \in Procs, r \in Res : wk[p][r].pc = "idle"
  BY DEF Init, ManagedInit, Idle
<1>3. ReleaseInv /\ GroupInv
  BY <1>2 DEF Init, ReleaseInv, GroupInv, Keys
<1> QED
  BY <1>1, <1>3 DEF IInv

LEMMA Invariant == ASSUME SingleOwner PROVE Spec => []IInv
  BY InvStart, InvStep, PTL DEF Spec

\* Given a single process (or leader election), external names and namespaces left alone
\* and the policy Delete: however reconciles, users, failed or lost requests, crashes and
\* changes made past the provider interleave, no rule group is ever left in Cortex without
\* a custom resource whose deletion removes it.
THEOREM NothingStranded == ASSUME SingleOwner PROVE Spec => []NoStrandedGroup
<1>1. IInv => NoStrandedGroup
  <2>1. SUFFICES ASSUME IInv, NEW k \in Keys, groups[k] # Absent
                 PROVE  \E r \in Res : Guards(r, k)
    BY DEF NoStrandedGroup
  <2>2. PICK ns \in Namespaces, n \in Names : k = <<ns, n>>
    BY DEF Keys
  <2>3. Guarded(ns, n) /\ n \in Res
    BY <2>1, <2>2 DEF IInv, GroupInv, Guarded
  <2> QED
    BY <2>1, <2>2, <2>3, GuardsHolder
<1> QED
  BY <1>1, Invariant, PTL

LEMMA OnlyRemoves ==
  ASSUME IInv, SingleOwner, [Next]_vars, NEW k \in Keys,
         groups[k] # Absent, groups'[k] = Absent, drifts' = drifts
  PROVE  \E r \in Res : Guards(r, k) /\ obj[r].deleting
<1>1. ~ Drift
  BY DEF Drift, IInv, TypeInv, TypeOK
<1>2. PICK p \in Procs, r \in Res : ControllerStep(p, r)
  BY <1>1 DEF Next, Reconcile, vars
<1>3. TypeInv' /\ SingleProcess
  BY TypeStep DEF IInv, SingleOwner
<1>4. ~ Puts(p, r)
  BY RuleGroupAssumption DEF Puts, WrittenKey, Keys, IInv, TypeInv, TypeOK
<1>5. Removes(p, r)
  BY <1>2, <1>3, <1>4, ControllerEffect DEF FindsNothing
<1>6. k = <<wk[p][r].mg.spec.namespace, r>>
  BY <1>5 DEF Removes, WrittenKey, Keys, Names, IInv, TypeInv, TypeOK
<1>7. Guards(r, k)
  BY <1>5, <1>6, GuardsHolder DEF Removes
<1> QED
  BY <1>5, <1>7 DEF Removes

\* Under the same conditions no step of the provider removes a group unless the custom
\* resource it belongs to is being deleted at that moment, however old the copy is on which
\* the reconcile acts.
THEOREM OnlyAskedDeletions == ASSUME SingleOwner PROVE Spec => NoUnaskedDeletion
<1>1. IInv /\ [Next]_vars =>
        [\A k \in Keys : groups[k] # Absent /\ groups'[k] = Absent /\ drifts' = drifts
           => \E r \in Res : Guards(r, k) /\ obj[r].deleting]_vars
  BY OnlyRemoves
<1>2. Spec => []IInv
  BY Invariant
<1> QED
  BY <1>1, <1>2, PTL DEF Spec, NoUnaskedDeletion

-----------------------------------------------------------------------------
(***************************************************************************)
(* What is shown as available is there.                                    *)
(***************************************************************************)

\* The group of custom resource o named r is there, under the name it is observed by.
HasGroup(o, r) == o.extName = r /\ groups[<<o.spec.namespace, r>>] # Absent

\* A resource in use that is shown as available has its group.
ObjectShows(o, r) == o # Gone /\ ~ o.deleting /\ o.ready = "available" => HasGroup(o, r)

\* A copy that can still be written does not claim more.
CopyShows(w, o, r) ==
  w.fresh => /\ w.mg.extName = o.extName
             /\ ~ o.deleting /\ w.mg.ready = "available" => HasGroup(o, r)

ShownInv ==
  drifts = 0 =>
    \A r \in Res : ObjectShows(obj[r], r) /\ \A p \in Procs : CopyShows(wk[p][r], obj[r], r)

LEMMA ShownStart ==
  ASSUME Init
  PROVE  ShownInv
  BY DEF Init, ManagedInit, Idle, ShownInv, ObjectShows, CopyShows

\* A step that concerns one custom resource leaves the invariant to be shown for that one.
LEMMA ShownLocal ==
  ASSUME IInv, ShownInv, NEW r \in Res, drifts' = drifts,
         \A s \in Res \ {r} : obj'[s] = obj[s],
         \A q \in Procs, s \in Res \ {r} : wk'[q][s].fresh => wk'[q][s] = wk[q][s],
         \A ns \in Namespaces, n \in Names \ {r} : groups'[<<ns, n>>] = groups[<<ns, n>>],
         drifts = 0 => /\ ObjectShows(obj[r], r)'
                       /\ \A q \in Procs : CopyShows(wk[q][r], obj[r], r)'
  PROVE  ShownInv'
<1> DEFINE Shown(s) == ObjectShows(obj[s], s) /\ \A q \in Procs : CopyShows(wk[q][s], obj[s], s)
<1>1. SUFFICES ASSUME drifts = 0, NEW s \in Res \ {r}
               PROVE  Shown(s)'
  <2>1. drifts = 0 => Shown(r)'
    OBVIOUS
  <2>2. ShownInv' <=> (drifts' = 0 => \A s \in Res : Shown(s)')
    BY DEF ShownInv
  <2> QED
    BY <2>1, <2>2
<1>2. obj[s] # Gone => obj[s].spec.namespace \in Namespaces
  <2>1. obj[s] \in Object \cup {Gone}
    BY DEF IInv, TypeInv, ManagedInv, ManagedTypeOK
  <2> QED
    BY <2>1, SpecsType DEF Object
<1>3. \A q \in Procs : wk[q][s].fresh => obj[s] # Gone
  BY DEF IInv, TypeInv, ManagedInv, FreshCopies
<1>4. obj[s] # Gone => (HasGroup(obj[s], s)' <=> HasGroup(obj[s], s))
  BY <1>2 DEF HasGroup, Names
<1>5. ObjectShows(obj[s], s) /\ \A q \in Procs : CopyShows(wk[q][s], obj[s], s)
  BY <1>1 DEF ShownInv
<1> QED
  BY <1>3, <1>4, <1>5 DEF ObjectShows, CopyShows

\* A worker moves on while its custom resource stays as it is and no group is lost.
LEMMA ShownMove ==
  ASSUME IInv, ShownInv, NEW p \in Procs, NEW r \in Res, NEW w,
         wk' = [wk EXCEPT ![p][r] = w], obj' = obj, drifts' = drifts,
         \A ns \in Namespaces, n \in Names :
           /\ n # r => groups'[<<ns, n>>] = groups[<<ns, n>>]
           /\ groups[<<ns, n>>] # Absent => groups'[<<ns, n>>] # Absent,
         drifts = 0 => CopyShows(w, obj[r], r),
         w.fresh => wk[p][r].fresh \/ obj[r] # Gone
  PROVE  ShownInv'
<1>1. /\ \A q \in Procs, s \in Res : wk'[q][s] = IF q = p /\ s = r THEN w ELSE wk[q][s]
  BY TypeUse DEF IInv
<1>2. obj[r] # Gone => obj[r].spec.namespace \in Namespaces
  <2>1. obj[r] \in Object \cup {Gone}
    BY DEF IInv, TypeInv, ManagedInv, ManagedTypeOK
  <2> QED
    BY <2>1, SpecsType DEF Object
<1>3. \A q \in Procs : wk[q][r].fresh => obj[r] # Gone
  BY DEF IInv, TypeInv, ManagedInv, FreshCopies
<1>4. obj[r] # Gone /\ HasGroup(obj[r], r) => HasGroup(obj[r], r)'
  BY <1>2 DEF HasGroup, Names
<1>5. drifts = 0 => ObjectShows(obj[r], r) /\ \A q \in Procs : CopyShows(wk[q][r], obj[r], r)
  BY DEF ShownInv
<1>6. drifts = 0 => ObjectShows(obj[r], r)'
  BY <1>4, <1>5 DEF ObjectShows
<1>7. drifts = 0 => \A q \in Procs : CopyShows(wk[q][r], obj[r], r)'
  <2>1. SUFFICES ASSUME drifts = 0, NEW q \in Procs, wk'[q][r].fresh
                 PROVE  CopyShows(wk[q][r], obj[r], r)'
    BY DEF CopyShows
  <2>2. CASE q = p
    BY <1>1, <1>3, <1>4, <2>1, <2>2 DEF CopyShows
  <2>3. CASE q # p
    BY <1>1, <1>3, <1>4, <1>5, <2>1, <2>3 DEF CopyShows
  <2> QED
    BY <2>2, <2>3
<1> QED
  BY <1>1, <1>6, <1>7, ShownLocal

\* A custom resource is stored, by a worker that moves on or by a user.
LEMMA ShownStore ==
  ASSUME IInv, ShownInv, NEW r \in Res, NEW o,
         obj' = [obj EXCEPT ![r] = o], groups' = groups, drifts' = drifts,
         drifts = 0 => ObjectShows(o, r),
         \A q \in Procs, s \in Res \ {r} : wk'[q][s].fresh => wk'[q][s] = wk[q][s],
         drifts = 0 => \A q \in Procs : CopyShows(wk'[q][r], o, r)
  PROVE  ShownInv'
<1>1. obj'[r] = o /\ \A s \in Res \ {r} : obj'[s] = obj[s]
  BY DEF IInv, TypeInv, ManagedInv, ManagedTypeOK
<1>2. HasGroup(o, r) => HasGroup(obj[r], r)'
  BY <1>1 DEF HasGroup
<1>3. drifts = 0 => ObjectShows(obj[r], r)'
  BY <1>1, <1>2 DEF ObjectShows
<1>4. drifts = 0 => \A q \in Procs : CopyShows(wk[q][r], obj[r], r)'
  BY <1>1, <1>2 DEF CopyShows
<1> QED
  BY <1>1, <1>3, <1>4, ShownLocal

\* The workers after one of them stored a custom resource and went on as w.
LEMMA StoredWorkers ==
  ASSUME IInv, NEW p \in Procs, NEW r \in Res, NEW w, wk' = [Outdated(r) EXCEPT ![p][r] = w]
  PROVE  /\ wk'[p][r] = w
         /\ \A q \in Procs, s \in Res :
              wk'[q][s].fresh => (s = r /\ q = p) \/ (s # r /\ wk'[q][s] = wk[q][s])
<1>1. Outdated(r) \in [Procs -> [Res -> Worker \cup {Idle}]]
  BY OutdatedType DEF IInv, TypeInv
<1>2. \A q \in Procs, s \in Res :
        /\ Outdated(r)[q][s].fresh => s # r
        /\ s # r => Outdated(r)[q][s] = wk[q][s]
  <2>1. \A q \in Procs, s \in Res : Outdated(r)[q][s].fresh => s # r
    BY OutdatedType DEF IInv, TypeInv
  <2>2. \A q \in Procs, s \in Res \ {r} : Outdated(r)[q][s] = wk[q][s]
    BY TypeUse DEF Outdated, IInv
  <2> QED
    BY <2>1, <2>2
<1>3. \A q \in Procs, s \in Res : wk'[q][s] = IF q = p /\ s = r THEN w ELSE Outdated(r)[q][s]
  BY <1>1
<1> QED
  BY <1>2, <1>3

\* A write by a worker whose copy does not claim too much.
LEMMA ShownWrite ==
  ASSUME IInv, ShownInv, NEW p \in Procs, NEW r \in Res, NEW o, NEW w, NEW c,
         wk[p][r] \in Worker, Write(p, r, o, w, c), groups' = groups, drifts' = drifts,
         c \in {wk[p][r].mg.ready, "creating"},
         wk[p][r].fresh /\ drifts = 0 => ObjectShows(o, r) /\ CopyShows(w, o, r)
  PROVE  ShownInv'
<1> DEFINE failed == [wk[p][r] EXCEPT !.pc = "status", !.mg.ready = c, !.mg.synced = "error"]
           lost   == [failed EXCEPT !.fresh = FALSE]
<1>1. /\ failed.fresh = wk[p][r].fresh /\ lost.fresh = FALSE
      /\ failed.mg.extName = wk[p][r].mg.extName /\ failed.mg.ready = c
  <2>1. \A x \in Worker :
          LET y == [x EXCEPT !.pc = "status", !.mg.ready = c, !.mg.synced = "error"]
              z == [y EXCEPT !.fresh = FALSE]
          IN  /\ y.fresh = x.fresh /\ z.fresh = FALSE
              /\ y.mg.extName = x.mg.extName /\ y.mg.ready = c
    BY DEF Worker, Object
  <2> QED
    BY <2>1
<1>2. drifts = 0 => CopyShows(failed, obj[r], r)
  BY <1>1 DEF ShownInv, CopyShows
<1> HIDE DEF failed
<1>3. CASE wk[p][r].fresh /\ obj' = [obj EXCEPT ![r] = o]
           /\ \E x \in {w, lost} : wk' = [Outdated(r) EXCEPT ![p][r] = x]
  <2>1. PICK x \in {w, lost} : wk' = [Outdated(r) EXCEPT ![p][r] = x]
    BY <1>3
  <2>2. drifts = 0 => ObjectShows(o, r) /\ CopyShows(x, o, r)
    BY <1>1, <1>3 DEF CopyShows
  <2> HIDE DEF lost
  <2>3. /\ \A q \in Procs, s \in Res \ {r} : wk'[q][s].fresh => wk'[q][s] = wk[q][s]
        /\ drifts = 0 => \A q \in Procs : CopyShows(wk'[q][r], o, r)
    <3>1. wk'[p][r] = x /\ \A q \in Procs, s \in Res :
            wk'[q][s].fresh => (s = r /\ q = p) \/ (s # r /\ wk'[q][s] = wk[q][s])
      BY <2>1, StoredWorkers
    <3> QED
      BY <2>2, <3>1 DEF CopyShows
  <2> QED
    BY <1>3, <2>2, <2>3, ShownStore
<1>4. CASE obj' = obj /\ wk' = [wk EXCEPT ![p][r] = failed]
  <2>1. failed.fresh => wk[p][r].fresh
    BY <1>1
  <2> QED
    BY <1>2, <1>4, <2>1, ShownMove
<1> QED
  BY <1>3, <1>4 DEF Write, failed

\* What a worker may claim, and what the stored resource claims.
LEMMA ShownUse ==
  ASSUME ShownInv, drifts = 0, NEW p \in Procs, NEW r \in Res
  PROVE  ObjectShows(obj[r], r) /\ CopyShows(wk[p][r], obj[r], r)
  BY DEF ShownInv

\* A worker that goes on without claiming more.
LEMMA ShownGo ==
  ASSUME IInv, ShownInv, NEW p \in Procs, NEW r \in Res, NEW w,
         wk' = [wk EXCEPT ![p][r] = w], obj' = obj, drifts' = drifts,
         \A ns \in Namespaces, n \in Names :
           /\ n # r => groups'[<<ns, n>>] = groups[<<ns, n>>]
           /\ groups[<<ns, n>>] # Absent => groups'[<<ns, n>>] # Absent,
         w.fresh => /\ wk[p][r].fresh
                    /\ w.mg.extName = wk[p][r].mg.extName
                    /\ w.mg.ready = "available" => wk[p][r].mg.ready = "available"
  PROVE  ShownInv'
<1>1. drifts = 0 => CopyShows(w, obj[r], r)
  BY ShownUse DEF CopyShows
<1> HIDE DEF CopyShows
<1> QED
  BY <1>1, ShownMove

LEMMA ShownFinish ==
  ASSUME IInv, ShownInv, NEW p \in Procs, NEW r \in Res, NEW c, NEW e,
         wk[p][r] \in Worker, Finish(p, r, c, e), obj' = obj, drifts' = drifts,
         c = "available" => wk[p][r].mg.ready = "available",
         \A ns \in Namespaces, n \in Names :
           /\ n # r => groups'[<<ns, n>>] = groups[<<ns, n>>]
           /\ groups[<<ns, n>>] # Absent => groups'[<<ns, n>>] # Absent
  PROVE  ShownInv'
<1> DEFINE m == [wk[p][r].mg EXCEPT !.ready = c, !.synced = e]
           w == [wk[p][r] EXCEPT !.pc = "status", !.mg = m]
<1>1. m.extName = wk[p][r].mg.extName /\ m.ready = c
  BY DEF Worker, Object
<1>2. w.fresh = wk[p][r].fresh /\ w.mg = m
  BY DEF Worker
<1>3. wk' = [wk EXCEPT ![p][r] = w]
  BY TypeUse DEF Finish, Go, IInv
<1> HIDE DEF w, m
<1> QED
  BY <1>1, <1>2, <1>3, ShownGo

LEMMA ShownKilled ==
  ASSUME IInv, ShownInv, NEW p \in Procs, wk' = Killed(p), obj' = obj, groups' = groups, drifts' = drifts
  PROVE  ShownInv'
<1>1. \A q \in Procs, s \in Res : wk'[q][s] \in {wk[q][s], Idle}
  BY DEF Killed, IInv, TypeInv, ManagedInv, ManagedTypeOK
<1>2. Idle.fresh = FALSE
  BY DEF Idle
<1>3. ASSUME NEW s \in Res, drifts = 0
      PROVE  ObjectShows(obj[s], s)' /\ \A q \in Procs : CopyShows(wk[q][s], obj[s], s)'
  <2>1. ObjectShows(obj[s], s)'
    BY <1>3 DEF ShownInv, ObjectShows, HasGroup
  <2>2. ASSUME NEW q \in Procs
        PROVE  CopyShows(wk[q][s], obj[s], s)'
    <3>1. CopyShows(wk[q][s], obj[s], s)
      BY <1>3, ShownUse
    <3> QED
      BY <1>1, <1>2, <3>1 DEF CopyShows, HasGroup
  <2> QED
    BY <2>1, <2>2
<1> QED
  BY <1>3 DEF ShownInv

\* A changed copy that is stored takes over the status, and with it the claim.
LEMMA ShownStored ==
  ASSUME IInv, ShownInv, drifts = 0, NEW p \in Procs, NEW r \in Res,
         wk[p][r].fresh, Working(wk[p][r]), NEW m \in Object,
         m.extName = r, m.deleting = wk[p][r].mg.deleting, m.spec = wk[p][r].mg.spec
  PROVE  LET o == Stored(r, m)
         IN  /\ ObjectShows(o, r)
             /\ \A w : w.mg.extName = r /\ w.mg.ready \in {o.ready, "creating"} => CopyShows(w, o, r)
<1> DEFINE o == Stored(r, m)
<1>1. /\ obj[r] \in Object /\ obj[r] # Gone
      /\ obj[r].deleting = m.deleting /\ obj[r].spec.namespace = m.spec.namespace
  BY WorkingCopy
<1>2. /\ o \in Object /\ o.extName = r /\ o.deleting = m.deleting /\ o.spec = m.spec
      /\ o.ready = obj[r].ready
  <2>1. o \in Object /\ o.spec = m.spec /\ o.extName = m.extName /\ o.deleting = m.deleting
    BY <1>1, StoredFields DEF IInv, TypeInv
  <2>2. o.ready = obj[r].ready
    BY DEF Stored, Object
  <2> QED
    BY <2>1, <2>2
<1>3. ObjectShows(obj[r], r)
  BY ShownUse
<1> HIDE DEF o
<1>4. ObjectShows(o, r)
  BY <1>1, <1>2, <1>3 DEF ObjectShows, HasGroup
<1>5. \A w : w.mg.extName = r /\ w.mg.ready \in {o.ready, "creating"} => CopyShows(w, o, r)
  BY <1>2, <1>4, GoneAssumption DEF ObjectShows, CopyShows
<1> QED
  BY <1>4, <1>5 DEF o

\* The steps of a reconcile that call nothing of the controller.
LEMMA ShownLibrary ==
  ASSUME IInv, ShownInv, SingleOwner, NEW p \in Procs, NEW r \in Res,
         LibraryStep(p, r), UNCHANGED <<groups, drifts>>
  PROVE  ShownInv'
<1> DEFINE v == wk[p][r]
<1>1. CASE Start(p, r)
  <2>1. obj[r] \in Object /\ obj[r] # Gone
    BY <1>1 DEF Start, IInv, TypeInv, ManagedInv, ManagedTypeOK
  <2>2. obj[r].policy # "Orphan"
    BY <2>1 DEF Object, SingleOwner
  <2>3. PICK w : /\ wk' = [wk EXCEPT ![p][r] = w]
                 /\ w = IF obj[r].extName = NoName
                        THEN [pc |-> "initialize", mg |-> obj[r], fresh |-> TRUE, seen |-> "none"]
                        ELSE Started(obj[r])
    BY <1>1, <2>2 DEF Start
  <2>4. w.mg.extName = obj[r].extName /\ w.mg.ready \in {obj[r].ready, "creating"}
    <3>1. LET m == [obj[r] EXCEPT !.ready = "creating", !.synced = "error"]
          IN  m.extName = obj[r].extName /\ m.ready = "creating"
      BY <2>1 DEF Object
    <3> QED
      BY <2>3, <3>1 DEF Started
  <2>5. drifts = 0 => CopyShows(w, obj[r], r)
    BY <2>1, <2>4, ShownUse DEF CopyShows, ObjectShows
  <2>6. obj' = obj /\ groups' = groups /\ drifts' = drifts
    BY <1>1 DEF Start
  <2> QED
    BY <2>1, <2>3, <2>5, <2>6, ShownMove
<1>2. CASE Initialize(p, r)
  <2> DEFINE m == [v.mg EXCEPT !.extName = r]
             o == Stored(r, m)
  <2>1. Working(v) /\ v \in Worker /\ v.mg \in Object
    <3>1. Working(v)
      BY <1>2 DEF Initialize, At, Working
    <3> QED
      BY <3>1, WorkingCopy
  <2>2. m \in Object /\ m.extName = r /\ m.deleting = v.mg.deleting /\ m.spec = v.mg.spec
    BY <2>1 DEF Object, Names
  <2> HIDE DEF m
  <2>3. v.fresh /\ drifts = 0 =>
          /\ ObjectShows(o, r)
          /\ \A w : w.mg.extName = r /\ w.mg.ready \in {o.ready, "creating"} => CopyShows(w, o, r)
    BY <2>1, <2>2, ShownStored
  <2>4. v.fresh => Started(o).mg.extName = r /\ Started(o).mg.ready \in {o.ready, "creating"}
    <3>1. v.fresh => o \in Object /\ o.extName = r
      BY <2>1, <2>2, WorkingCopy, StoredFields DEF IInv, TypeInv
    <3>2. \A x \in Object : LET y == [x EXCEPT !.ready = "creating", !.synced = "error"]
                            IN  y.extName = x.extName /\ y.ready = "creating"
      BY DEF Object
    <3> QED
      BY <3>1, <3>2 DEF Started
  <2>5. Write(p, r, o, Started(o), v.mg.ready)
    BY <1>2 DEF Initialize, m
  <2> HIDE DEF o
  <2> QED
    BY <2>1, <2>3, <2>4, <2>5, ShownWrite
<1>3. CASE AddFinalizer(p, r)
  <2> DEFINE m == [v.mg EXCEPT !.finalizer = TRUE]
             o == Stored(r, m)
             w == Decided(o, v.seen)
  <2>1. Working(v) /\ v \in Worker /\ v.mg \in Object /\ v.mg.extName = r
    <3>1. Working(v) /\ v.pc = "addFinalizer"
      BY <1>3 DEF AddFinalizer, At, Working
    <3> QED
      BY <3>1, WorkingCopy
  <2>2. m \in Object /\ m.extName = r /\ m.deleting = v.mg.deleting /\ m.spec = v.mg.spec
    BY <2>1 DEF Object, Names
  <2> HIDE DEF m
  <2>3. v.fresh /\ drifts = 0 =>
          /\ ObjectShows(o, r)
          /\ \A x : x.mg.extName = r /\ x.mg.ready \in {o.ready, "creating"} => CopyShows(x, o, r)
    BY <2>1, <2>2, ShownStored
  <2>4. v.fresh => w.mg.extName = r /\ w.mg.ready = o.ready
    <3>1. v.fresh => o \in Object /\ o.extName = r
      BY <2>1, <2>2, WorkingCopy, StoredFields DEF IInv, TypeInv
    <3>2. \A x \in Object : LET y == [x EXCEPT !.synced = "success"]
                            IN  y.extName = x.extName /\ y.ready = x.ready
      BY DEF Object
    <3> QED
      BY <3>1, <3>2 DEF Decided
  <2>5. Write(p, r, o, w, v.mg.ready)
    BY <1>3 DEF AddFinalizer, m
  <2> HIDE DEF o, w
  <2> QED
    BY <2>1, <2>3, <2>4, <2>5, ShownWrite
<1>4. CASE SetPending(p, r)
  <2> DEFINE m == [v.mg EXCEPT !.created = "pending"]
             o == Stored(r, m)
             w == [v EXCEPT !.pc = "create", !.mg = o]
  <2>1. Working(v) /\ v \in Worker /\ v.mg \in Object /\ v.mg.extName = r
    <3>1. Working(v) /\ v.pc = "pending"
      BY <1>4 DEF SetPending, At, Working
    <3> QED
      BY <3>1, WorkingCopy
  <2>2. m \in Object /\ m.extName = r /\ m.deleting = v.mg.deleting /\ m.spec = v.mg.spec
    BY <2>1 DEF Object, Names
  <2> HIDE DEF m
  <2>3. v.fresh /\ drifts = 0 =>
          /\ ObjectShows(o, r)
          /\ \A x : x.mg.extName = r /\ x.mg.ready \in {o.ready, "creating"} => CopyShows(x, o, r)
    BY <2>1, <2>2, ShownStored
  <2>4. v.fresh => w.mg.extName = r /\ w.mg.ready = o.ready
    <3>1. v.fresh => o.extName = r
      BY <2>1, <2>2, WorkingCopy, StoredFields DEF IInv, TypeInv
    <3>2. w.mg = o
      BY <2>1 DEF Worker
    <3> QED
      BY <3>1, <3>2
  <2>5. Write(p, r, o, w, "creating")
    BY <1>4 DEF SetPending, m
  <2> HIDE DEF o, w
  <2> QED
    BY <2>1, <2>3, <2>4, <2>5, ShownWrite
<1>5. CASE RecordCreate(p, r)
  <2>1. /\ v \in Worker /\ v.mg \in Object /\ v.mg.extName = r
        /\ obj[r] \in Object /\ obj[r] # Gone
    <3>1. Working(v) /\ v.pc = "record"
      BY <1>5 DEF RecordCreate, At, Working
    <3> QED
      BY <3>1, WorkingCopy
  <2>2. CASE Finish(p, r, "creating", "error") /\ obj' = obj
    BY <2>1, <2>2, ShownFinish
  <2>3. CASE ~ (Finish(p, r, "creating", "error") /\ obj' = obj)
    <3> DEFINE o == [obj[r] EXCEPT !.created = v.mg.created, !.extName = v.mg.extName]
               m == [o EXCEPT !.ready = "creating",
                              !.synced = IF v.mg.created = "succeeded" THEN "success" ELSE "error"]
               w == [pc |-> "status", fresh |-> TRUE, seen |-> "absent", mg |-> m]
    <3>1. obj' = [obj EXCEPT ![r] = o] /\ wk' = [Outdated(r) EXCEPT ![p][r] = w]
      BY <1>5, <2>3 DEF RecordCreate
    <3>2. /\ o \in Object /\ o.extName = r /\ o.deleting = obj[r].deleting
          /\ o.spec = obj[r].spec /\ o.ready = obj[r].ready
      BY <2>1 DEF Object
    <3>3. w.mg.extName = r /\ w.mg.ready = "creating"
      BY <3>2 DEF Object
    <3> HIDE DEF o, w
    <3>4. drifts = 0 => ObjectShows(o, r) /\ CopyShows(w, o, r)
      BY <2>1, <3>2, <3>3, ShownUse DEF ObjectShows, CopyShows, HasGroup
    <3>5. wk'[p][r] = w /\ \A q \in Procs, s \in Res :
            wk'[q][s].fresh => (s = r /\ q = p) \/ (s # r /\ wk'[q][s] = wk[q][s])
      BY <3>1, StoredWorkers
    <3>6. drifts = 0 => \A q \in Procs : CopyShows(wk'[q][r], o, r)
      BY <3>4, <3>5 DEF CopyShows
    <3> QED
      BY <3>1, <3>4, <3>5, <3>6, ShownStore
  <2> QED
    BY <2>2, <2>3
<1>6. CASE WriteStatus(p, r)
  <2> DEFINE o == [obj[r] EXCEPT !.ready = v.mg.ready, !.synced = v.mg.synced]
  <2>1. v \in Worker /\ v.mg \in Object
    BY <1>6, TypeUse, WorkerUpdates DEF WriteStatus, At, IInv
  <2>2. Idle.fresh = FALSE
    BY DEF Idle
  <2>3. CASE obj' = obj /\ wk' = [wk EXCEPT ![p][r] = Idle]
    BY <2>2, <2>3, ShownGo
  <2>4. CASE v.fresh /\ obj' = [obj EXCEPT ![r] = o] /\ wk' = [Outdated(r) EXCEPT ![p][r] = Idle]
    <3>1. obj[r] \in Object /\ obj[r] # Gone
      BY <2>4 DEF IInv, TypeInv, ManagedInv, FreshCopies, ManagedTypeOK
    <3>2. /\ o \in Object /\ o.extName = obj[r].extName /\ o.deleting = obj[r].deleting
          /\ o.spec = obj[r].spec /\ o.ready = v.mg.ready
      BY <2>1, <3>1 DEF Object
    <3> HIDE DEF o
    <3>3. drifts = 0 => ObjectShows(o, r)
      BY <2>4, <3>2, ShownUse DEF ObjectShows, CopyShows, HasGroup
    <3>4. wk'[p][r] = Idle /\ \A q \in Procs, s \in Res :
            wk'[q][s].fresh => (s = r /\ q = p) \/ (s # r /\ wk'[q][s] = wk[q][s])
      BY <2>4, StoredWorkers
    <3>5. drifts = 0 => \A q \in Procs : CopyShows(wk'[q][r], o, r)
      BY <2>2, <3>4 DEF CopyShows
    <3> QED
      BY <2>4, <3>3, <3>4, <3>5, ShownStore
  <2>5. v.fresh /\ o = obj[r] => [obj EXCEPT ![r] = o] = obj
    BY DEF IInv, TypeInv, ManagedInv, ManagedTypeOK
  <2> QED
    BY <1>6, <2>3, <2>4, <2>5 DEF WriteStatus
<1>7. CASE RemoveFinalizer(p, r)
  <2>1. v \in Worker /\ v.mg \in Object
    BY <1>7, TypeUse, WorkerUpdates DEF RemoveFinalizer, At, IInv
  <2> DEFINE lost == [v EXCEPT !.pc = "status", !.fresh = FALSE, !.mg.synced = "error"]
  <2>2. Idle.fresh = FALSE /\ lost.fresh = FALSE
    BY <2>1 DEF Idle, Worker
  <2>3. CASE obj' = obj /\ wk' = [wk EXCEPT ![p][r] = Idle]
    BY <2>2, <2>3, ShownGo
  <2>4. CASE obj' = obj /\ Fail(p, r)
    BY <2>1, <2>4, ShownFinish DEF Fail
  <2> HIDE DEF lost
  <2>5. CASE obj' = [obj EXCEPT ![r] = Gone]
             /\ \E w \in {Idle, lost} : wk' = [Outdated(r) EXCEPT ![p][r] = w]
    <3>1. PICK w : w \in {Idle, lost} /\ wk' = [Outdated(r) EXCEPT ![p][r] = w]
      BY <2>5
    <3>2. wk'[p][r] = w /\ \A q \in Procs, s \in Res :
            wk'[q][s].fresh => (s = r /\ q = p) \/ (s # r /\ wk'[q][s] = wk[q][s])
      <4>1. wk' = [Outdated(r) EXCEPT ![p][r] = w]
        BY <3>1
      <4> QED
        BY <4>1, StoredWorkers, Zenon
    <3>3. PICK o : o = Gone
      OBVIOUS
    <3>4. drifts = 0 => ObjectShows(o, r)
      BY <3>3 DEF ObjectShows
    <3>5. drifts = 0 => \A q \in Procs : CopyShows(wk'[q][r], o, r)
      BY <2>2, <3>1, <3>2 DEF CopyShows
    <3>6. obj' = [obj EXCEPT ![r] = o] /\ groups' = groups /\ drifts' = drifts
      BY <2>5, <3>3
    <3> QED
      BY <3>2, <3>4, <3>5, <3>6, ShownStore
  <2> QED
    BY <1>7, <2>3, <2>4, <2>5 DEF RemoveFinalizer, lost
<1> QED
  BY <1>1, <1>2, <1>3, <1>4, <1>5, <1>6, <1>7 DEF LibraryStep

\* The steps of a reconcile that are calls into the controller.
LEMMA ShownController ==
  ASSUME IInv, ShownInv, SingleOwner, NEW p \in Procs, NEW r \in Res, ControllerStep(p, r)
  PROVE  ShownInv'
<1> DEFINE v == wk[p][r]
           Kept == \A ns \in Namespaces, n \in Names :
                     /\ n # r => groups'[<<ns, n>>] = groups[<<ns, n>>]
                     /\ groups[<<ns, n>>] # Absent => groups'[<<ns, n>>] # Absent
<1>0. /\ Working(v) /\ v \in Worker /\ v.mg \in Object /\ v.mg.extName = r
      /\ v.mg.spec \in Specs /\ v.mg.spec.namespace \in Namespaces /\ obj' = obj /\ drifts' = drifts
  <2>1. TypeInv
    BY DEF IInv
  <2>2. /\ Working(v) /\ v.pc # "initialize" /\ v \in Worker /\ v.mg \in Object /\ v.mg.spec \in Specs
        /\ obj' = obj /\ drifts' = drifts
    BY <2>1, ControllerCalls
  <2> QED
    BY <2>2, WorkingCopy
<1>1. groups' = groups => Kept
  OBVIOUS
<1>2. Send(v.mg, r) /\ Sendable(v.mg.spec) => Kept
  <2>1. SUFFICES ASSUME Send(v.mg, r), Sendable(v.mg.spec)
                 PROVE  Kept
    OBVIOUS
  <2>2. BuiltGroup(v.mg.spec) # Absent
    BY <1>0, <2>1, SentGroupType, RuleGroupAssumption
  <2>3. groups \in [Keys -> StoredGroup \cup {Absent}]
    BY TypeUse DEF IInv
  <2> QED
    BY <2>1, <2>2, <2>3 DEF Send, WrittenKey, Keys
<1> HIDE DEF Kept
<1>3. ASSUME NEW pc, NEW o \in Object, Go(p, r, pc, o), Kept,
             o.extName = v.mg.extName, o.ready = "available" => v.mg.ready = "available"
      PROVE  ShownInv'
  <2> DEFINE w == [v EXCEPT !.pc = pc, !.mg = o]
  <2>1. w.mg = o /\ w.fresh = v.fresh
    BY <1>0 DEF Worker
  <2>2. wk' = [wk EXCEPT ![p][r] = w]
    BY <1>3, TypeUse DEF Go, IInv
  <2> HIDE DEF w
  <2> QED
    BY <1>0, <1>3, <2>1, <2>2, ShownGo DEF Kept
<1>4. ASSUME NEW c, NEW e, Finish(p, r, c, e), Kept, c = "available" => v.mg.ready = "available"
      PROVE  ShownInv'
  BY <1>0, <1>4, ShownFinish DEF Kept
<1>5. CASE Connect(p, r)
  <2>1. Kept
    BY <1>1, <1>5 DEF Connect
  <2> QED
    BY <1>0, <1>3, <1>4, <1>5, <2>1 DEF Connect, Fail
<1>6. CASE Observe(p, r)
  <2>1. groups' = groups
    BY <1>6 DEF Observe
  <2>2. ASSUME NEW w, wk' = [wk EXCEPT ![p][r] = w],
               w.fresh => /\ v.fresh /\ w.mg.extName = v.mg.extName
                          /\ w.mg.ready = "available" =>
                               v.mg.ready = "available" \/ groups[ObservedKey(v.mg)] # Absent
        PROVE  ShownInv'
    <3>1. w.fresh => /\ obj[r] # Gone /\ obj[r].spec.namespace = v.mg.spec.namespace
      BY <1>0, <2>2, WorkingCopy
    <3>2. drifts = 0 => CopyShows(w, obj[r], r)
      BY <1>0, <2>2, <3>1, ShownUse DEF CopyShows, HasGroup, ObservedKey
    <3>3. Kept
      BY <1>1, <2>1
    <3> QED
      BY <1>0, <2>2, <3>1, <3>2, <3>3, ShownMove DEF Kept
  <2>3. ASSUME NEW o \in Object, NEW seen \in {"absent", "stale", "current"},
               o.extName = v.mg.extName,
               o.ready = "available" =>
                 v.mg.ready = "available" \/ groups[ObservedKey(v.mg)] # Absent,
               wk' = [wk EXCEPT ![p][r] = Ensured(v, o, seen)]
        PROVE  ShownInv'
    <3> DEFINE w == Ensured(v, o, seen)
    <3>1. w.fresh = v.fresh /\ w.mg.extName = o.extName /\ w.mg.ready = o.ready
      <4>1. /\ \A x \in Object : LET y == [x EXCEPT !.synced = "success"]
                                 IN  y.extName = x.extName /\ y.ready = x.ready
            /\ \A x \in Worker, f \in BOOLEAN :
                 LET y == [x EXCEPT !.fresh = f] IN y.fresh = f /\ y.mg = x.mg
            /\ \A x \in Worker :
                 LET y == [x EXCEPT !.pc = "addFinalizer", !.mg = o, !.seen = seen]
                 IN  y.mg = o /\ y.fresh = x.fresh
        BY DEF Object, Worker
      <4>2. Decided(o, seen) \in Worker /\ v.fresh \in BOOLEAN
        BY <1>0, DecidedType, WorkerUpdates
      <4>3. Decided(o, seen).mg.extName = o.extName /\ Decided(o, seen).mg.ready = o.ready
        BY <4>1 DEF Decided
      <4> QED
        BY <1>0, <4>1, <4>2, <4>3 DEF Ensured
    <3>2. wk' = [wk EXCEPT ![p][r] = w]
      BY <2>3
    <3> HIDE DEF w
    <3> QED
      BY <2>2, <2>3, <3>1, <3>2
  <2>4. CASE ObserveAbsent(p, r)
    <3>1. CASE wk' = [wk EXCEPT ![p][r] = Idle]
      <4>1. Idle.fresh = FALSE
        BY DEF Idle
      <4> QED
        BY <2>2, <3>1, <4>1
    <3>2. CASE wk' = [wk EXCEPT ![p][r] = [v EXCEPT !.pc = "removeFinalizer"]]
      <4> DEFINE w == [v EXCEPT !.pc = "removeFinalizer"]
      <4>1. w.mg = v.mg /\ w.fresh = v.fresh
        BY <1>0 DEF Worker
      <4>2. wk' = [wk EXCEPT ![p][r] = w]
        BY <3>2
      <4> HIDE DEF w
      <4> QED
        BY <2>2, <4>1, <4>2
    <3>3. CASE wk' = [wk EXCEPT ![p][r] = Ensured(v, v.mg, "absent")]
      BY <1>0, <2>3, <3>3
    <3> QED
      BY <2>4, <3>1, <3>2, <3>3 DEF ObserveAbsent, NotFound
  <2>5. CASE ObservePresent(p, r)
    <3> DEFINE o == [v.mg EXCEPT !.ready = "available"]
    <3>1. o \in Object /\ o.extName = v.mg.extName /\ groups[ObservedKey(v.mg)] # Absent
      BY <1>0, <2>5 DEF Object, ObservePresent, ObservedGroup
    <3>2. PICK verdict : IF verdict = "panic"
              THEN Panic(p)
              ELSE wk' = [wk EXCEPT ![p][r] =
                     IF o.deleting THEN [v EXCEPT !.pc = "delete", !.mg = o]
                     ELSE Ensured(v, o, IF verdict = "ok" THEN "current" ELSE "stale")]
      BY <2>5 DEF ObservePresent, Compared, Found, Available
    <3> HIDE DEF o
    <3>3. CASE Panic(p)
      BY <1>0, <2>1, <3>3, ShownKilled DEF Panic
    <3>4. CASE wk' = [wk EXCEPT ![p][r] = [v EXCEPT !.pc = "delete", !.mg = o]]
      <4> DEFINE w == [v EXCEPT !.pc = "delete", !.mg = o]
      <4>1. w.mg = o /\ w.fresh = v.fresh
        BY <1>0 DEF Worker
      <4>2. wk' = [wk EXCEPT ![p][r] = w]
        BY <3>4
      <4> HIDE DEF w
      <4> QED
        BY <2>2, <3>1, <4>1, <4>2
    <3>5. ASSUME NEW seen \in {"absent", "stale", "current"},
                 wk' = [wk EXCEPT ![p][r] = Ensured(v, o, seen)]
          PROVE  ShownInv'
      BY <2>3, <3>1, <3>5
    <3> QED
      BY <3>2, <3>3, <3>4, <3>5
  <2>6. CASE Fail(p, r)
    <3>1. Kept
      BY <1>1, <2>1
    <3> QED
      BY <1>4, <2>6, <3>1 DEF Fail
  <2> QED
    BY <1>6, <2>4, <2>5, <2>6 DEF Observe
<1>7. CASE Create(p, r)
  <2>1. CASE Panic(p) /\ groups' = groups
    BY <1>0, <2>1, ShownKilled DEF Panic
  <2>2. ASSUME NEW c \in {"succeeded", "failed"}, Created(p, r, c), Kept
        PROVE  ShownInv'
    <3> DEFINE o == [v.mg EXCEPT !.created = c]
    <3>1. o \in Object /\ o.extName = v.mg.extName /\ o.ready = v.mg.ready
      BY <1>0 DEF Object
    <3>2. Go(p, r, "record", o)
      BY <2>2 DEF Created
    <3> HIDE DEF o
    <3> QED
      BY <1>3, <2>2, <3>1, <3>2
  <2>3. (Panic(p) /\ groups' = groups) \/ \E c \in {"succeeded", "failed"} : Created(p, r, c) /\ Kept
    BY <1>1, <1>2, <1>7 DEF Create
  <2> QED
    BY <2>1, <2>2, <2>3
<1>8. CASE Update(p, r)
  <2>1. CASE Panic(p) /\ groups' = groups
    BY <1>0, <2>1, ShownKilled DEF Panic
  <2>2. (Panic(p) /\ groups' = groups)
          \/ \E e \in {"success", "error"} : Finish(p, r, v.mg.ready, e) /\ Kept
    BY <1>1, <1>2, <1>8 DEF Update, Fail
  <2> QED
    BY <1>4, <2>1, <2>2
<1>9. CASE Delete(p, r)
  <2>1. CASE groups' = groups
    <3>1. Kept
      BY <1>1, <2>1
    <3> QED
      BY <1>4, <1>9, <3>1 DEF Delete
  <2>2. CASE groups' = [groups EXCEPT ![ObservedKey(v.mg)] = Absent]
    <3>1. PICK e \in {"success", "error"} : Finish(p, r, "deleting", e)
      BY <1>9 DEF Delete
    <3> DEFINE m == [v.mg EXCEPT !.ready = "deleting", !.synced = e]
               w == [v EXCEPT !.pc = "status", !.mg = m]
    <3>2. w.fresh = v.fresh /\ w.mg.extName = v.mg.extName
      BY <1>0 DEF Worker, Object
    <3>3. wk' = [wk EXCEPT ![p][r] = w]
      BY <3>1, TypeUse DEF Finish, Go, IInv
    <3> HIDE DEF w
    <3>4. /\ \A q \in Procs : wk'[q][r] = w
          /\ \A q \in Procs, s \in Res \ {r} : wk'[q][s] = wk[q][s]
      BY <3>3, TypeUse DEF IInv, SingleOwner, SingleProcess
    <3>5. \A ns \in Namespaces, n \in Names \ {r} : groups'[<<ns, n>>] = groups[<<ns, n>>]
      BY <1>0, <2>2, TypeUse DEF ObservedKey, IInv, Keys, Names
    <3>6. v.mg.deleting /\ v.mg.finalizer
      BY <1>0, <1>9, WorkingCopy DEF Delete, At
    <3>7. obj[r].deleting
      BY <1>0, <3>6, WorkingCopy
    <3>8. drifts = 0 => ObjectShows(obj[r], r)'
      BY <1>0, <3>7 DEF ObjectShows
    <3>9. drifts = 0 => \A q \in Procs : CopyShows(wk[q][r], obj[r], r)'
      BY <1>0, <3>2, <3>4, <3>7, ShownUse DEF CopyShows
    <3> QED
      BY <1>0, <3>4, <3>5, <3>8, <3>9, ShownLocal
  <2> QED
    BY <1>9, <2>1, <2>2 DEF Delete
<1> QED
  BY <1>5, <1>6, <1>7, <1>8, <1>9 DEF ControllerStep

\* Users and time.
LEMMA ShownUser ==
  ASSUME IInv, ShownInv, SingleOwner, NEW r \in Res,
         UserStep(r) \/ GraceExpires(r), UNCHANGED <<groups, drifts>>
  PROVE  ShownInv'
<1>1. ASSUME NEW o \in Object \cup {Gone}, obj' = [obj EXCEPT ![r] = o], wk' = Outdated(r),
             drifts = 0 => ObjectShows(o, r)
      PROVE  ShownInv'
  <2>1. \A q \in Procs, s \in Res : wk'[q][s].fresh => s # r
    BY <1>1, OutdatedType DEF IInv, TypeInv
  <2>2. \A q \in Procs, s \in Res \ {r} : wk'[q][s] = wk[q][s]
    BY <1>1, TypeUse DEF Outdated, IInv
  <2>3. drifts = 0 => \A q \in Procs : CopyShows(wk'[q][r], o, r)
    BY <2>1 DEF CopyShows
  <2> QED
    BY <1>1, <2>2, <2>3, ShownStore
<1>2. CASE UserCreate(r)
  <2>1. PICK s \in Specs, n \in UserNames, d \in Policies :
          obj' = [obj EXCEPT ![r] =
                    [spec |-> s, extName |-> n, policy |-> d, deleting |-> FALSE,
                     finalizer |-> FALSE, created |-> "none", ready |-> "none", synced |-> "none"]]
    BY <1>2 DEF UserCreate
  <2> DEFINE o == [spec |-> s, extName |-> n, policy |-> d, deleting |-> FALSE,
                   finalizer |-> FALSE, created |-> "none", ready |-> "none", synced |-> "none"]
  <2>2. o \in Object /\ o.ready = "none"
    BY DEF Object, Names
  <2>3. ObjectShows(o, r)
    BY <2>2 DEF ObjectShows
  <2>4. obj' = [obj EXCEPT ![r] = o] /\ wk' = Outdated(r)
    BY <1>2, <2>1 DEF UserCreate
  <2> HIDE DEF o
  <2> QED
    BY <1>1, <2>2, <2>3, <2>4
<1>3. CASE UserEdit(r)
  <2>1. obj[r] \in Object
    BY <1>3 DEF UserEdit, IInv, TypeInv, ManagedInv, ManagedTypeOK
  <2>2. PICK s \in Specs, n \in {obj[r].extName} \cup (UserNames \ {NoName}), d \in Policies :
          /\ s # obj[r].spec => <<obj[r].spec, s>> \in Edits
          /\ obj' = [obj EXCEPT ![r].spec = s, ![r].extName = n, ![r].policy = d]
    BY <1>3 DEF UserEdit
  <2> DEFINE o == [obj[r] EXCEPT !.spec = s, !.extName = n, !.policy = d]
  <2>3. n = obj[r].extName
    BY DEF SingleOwner
  <2>4. s.namespace = obj[r].spec.namespace
    <3>1. CASE <<obj[r].spec, s>> \in Edits
      BY <3>1, <<obj[r].spec, s>>[1].namespace = <<obj[r].spec, s>>[2].namespace DEF SingleOwner
    <3> QED
      BY <2>2, <3>1
  <2>5. /\ o \in Object /\ o.extName = obj[r].extName /\ o.deleting = obj[r].deleting
        /\ o.ready = obj[r].ready /\ o.spec.namespace = obj[r].spec.namespace
    BY <2>1, <2>3, <2>4 DEF Object, Names
  <2>6. obj' = [obj EXCEPT ![r] = o]
    BY <2>2 DEF IInv, TypeInv, ManagedInv, ManagedTypeOK
  <2> HIDE DEF o
  <2>7. drifts = 0 => ObjectShows(o, r)
    <3>1. drifts = 0 => ObjectShows(obj[r], r)
      BY DEF ShownInv
    <3> QED
      BY <1>3, <2>5, <3>1 DEF UserEdit, ObjectShows, HasGroup
  <2> QED
    BY <1>1, <1>3, <2>5, <2>6, <2>7 DEF UserEdit
<1>4. CASE UserDelete(r)
  <2>1. obj[r] \in Object
    BY <1>4 DEF UserDelete, IInv, TypeInv, ManagedInv, ManagedTypeOK
  <2> DEFINE o == IF obj[r].finalizer THEN [obj[r] EXCEPT !.deleting = TRUE] ELSE Gone
  <2>2. o \in Object \cup {Gone} /\ (o # Gone => o.deleting)
    BY <2>1 DEF Object
  <2>3. ObjectShows(o, r)
    BY <2>2 DEF ObjectShows
  <2>4. obj' = [obj EXCEPT ![r] = o] /\ wk' = Outdated(r)
    BY <1>4 DEF UserDelete
  <2> HIDE DEF o
  <2> QED
    BY <1>1, <2>2, <2>3, <2>4
<1>5. CASE GraceExpires(r)
  BY <1>5 DEF GraceExpires, ShownInv, ObjectShows, CopyShows, HasGroup
<1> QED
  BY <1>2, <1>3, <1>4, <1>5 DEF UserStep

LEMMA ShownStep ==
  ASSUME IInv, ShownInv, SingleOwner, [Next]_vars
  PROVE  ShownInv'
<1>1. CASE \E p \in Procs, r \in Res : Reconcile(p, r)
  BY <1>1, ShownController, ShownLibrary DEF Reconcile
<1>2. CASE \E r \in Res : (UserStep(r) \/ GraceExpires(r)) /\ UNCHANGED <<groups, drifts>>
  BY <1>2, ShownUser
<1>3. CASE \E p \in Procs : Crash(p) /\ UNCHANGED <<groups, drifts>>
  BY <1>3, ShownKilled DEF Crash
<1>4. CASE Drift
  <2>1. drifts' # 0
    BY <1>4 DEF Drift, IInv, TypeInv, TypeOK
  <2> QED
    BY <2>1 DEF ShownInv
<1>5. CASE UNCHANGED vars
  BY <1>5 DEF vars, managedVars, ShownInv, ObjectShows, CopyShows, HasGroup
<1> QED
  BY <1>1, <1>2, <1>3, <1>4, <1>5 DEF Next

\* Under the same conditions, and as long as nobody interferes in Cortex, the Available
\* condition tells the truth: a resource in use that shows it has its group, although the
\* observation it came from is over and edits, failures, crashes and writes from older
\* copies fall in between.
THEOREM AvailableIsPresent == ASSUME SingleOwner PROVE Spec => []AvailableMeansPresent
<1>1. ShownInv => AvailableMeansPresent
  <2>1. SUFFICES ASSUME ShownInv, NEW r \in Res, drifts = 0, obj[r] # Gone,
                        obj[r].ready = "available", ~ obj[r].deleting
                 PROVE  groups[ObservedKey(obj[r])] # Absent
    BY DEF AvailableMeansPresent
  <2> QED
    BY <2>1 DEF ShownInv, ObjectShows, HasGroup, ObservedKey
<1>2. Spec => []ShownInv
  BY Invariant, ShownStart, ShownStep, PTL DEF Spec
<1> QED
  BY <1>1, <1>2, PTL

-----------------------------------------------------------------------------
(***************************************************************************)
(* Creations.                                                              *)
(***************************************************************************)
LEMMA LifeStep ==
  ASSUME TypeInv, LifeInv, [Next]_vars
  PROVE  LifeInv'
<1>0. ManagedInv'
  BY TypeStep DEF TypeInv
<1>1. CASE \E p \in Procs, r \in Res : Reconcile(p, r)
  <2>1. PICK p \in Procs, r \in Res : Reconcile(p, r)
    BY <1>1
  <2>2. CASE LibraryStep(p, r)
    BY <1>0, <2>2, LifeLibrary
  <2>3. CASE ControllerStep(p, r)
    <3>1. Call(p, r) /\ obj' = obj
      BY <2>3, ControllerCalls DEF Call, FindsNone, ObserveAbsent
    <3> QED
      BY <1>0, <3>1, LifeCall
  <2> QED
    BY <2>1, <2>2, <2>3 DEF Reconcile
<1>2. CASE \E r \in Res : (UserStep(r) \/ GraceExpires(r)) /\ UNCHANGED <<groups, drifts>>
  BY <1>0, <1>2, LifeUser
<1>3. CASE \E p \in Procs : Crash(p) /\ UNCHANGED <<groups, drifts>>
  BY <1>0, <1>3, LifeKilled DEF Crash
<1>4. CASE Drift \/ UNCHANGED vars
  BY <1>4, LifeSame DEF Drift, vars
<1> QED
  BY <1>1, <1>2, <1>3, <1>4 DEF Next

LEMMA LifeInvariant == Spec => [](TypeInv /\ LifeInv)
<1>1. Init => TypeInv /\ LifeInv
  BY TypeStart, LifeStart DEF Init
<1>2. TypeInv /\ LifeInv /\ [Next]_vars => (TypeInv /\ LifeInv)'
  BY TypeStep, LifeStep
<1> QED
  BY <1>1, <1>2, PTL DEF Spec

\* Without the Orphan policy, and with any number of processes, as during an upgrade: an
\* announced creation stays with the worker that announced it, and no second one is tried
\* beside it, whatever users edit, fails or crashes in between.
THEOREM OneCreation == ASSUME NoOrphans PROVE Spec => []CreatesAlone
<1>1. TypeInv /\ LifeInv => CreatesAlone
  BY AloneAnnounced
<1> QED
  BY <1>1, LifeInvariant, PTL

-----------------------------------------------------------------------------
(***************************************************************************)
(* The Delete policy.                                                      *)
(***************************************************************************)

\* A worker about to take a finalizer off does so by the Orphan policy, or the group that
\* would be written for its copy is not there.
KeptInv ==
  \A p \in Procs, r \in Res :
    wk[p][r].pc = "removeFinalizer" /\ wk[p][r].mg.policy # "Orphan"
      => groups[WrittenKey(wk[p][r].mg, r)] = Absent

\* Nothing of what a worker counts on appears while no worker is newly let go.
LEMMA KeptOrphans ==
  ASSUME KeptInv, OnlyOrphansGo,
         \A p \in Procs, r \in Res :
           wk[p][r].pc = "removeFinalizer" /\ groups[WrittenKey(wk[p][r].mg, r)] = Absent
             => (wk'[p][r].pc = "removeFinalizer"
                   => groups'[WrittenKey(wk[p][r].mg, r)] = Absent)
  PROVE  KeptInv'
  BY DEF KeptInv, OnlyOrphansGo

\* The key of a working copy.
LEMMA KeyUse ==
  ASSUME TypeInv, NEW p \in Procs, NEW r \in Res, wk[p][r].pc # "idle"
  PROVE  WrittenKey(wk[p][r].mg, r) \in Keys
<1>1. wk[p][r].mg.spec \in Specs
  BY TypeUse, WorkerUpdates DEF Object
<1> QED
  BY <1>1, SpecsType DEF WrittenKey, Keys, Names

LEMMA KeptController ==
  ASSUME TypeInv, LifeInv, KeptInv, SingleProcess, NamesLeft,
         NEW p \in Procs, NEW r \in Res, ControllerStep(p, r)
  PROVE  KeptInv'
<1> DEFINE v == wk[p][r]
<1>1. /\ (v.pc = "observe" /\ ObserveAbsent(p, r)) \/ QuietCall(p, r)
      /\ Working(v) /\ v.pc # "initialize" /\ v.mg.spec \in Specs
  BY ControllerCalls
<1>2. CASE v.pc = "observe" /\ ObserveAbsent(p, r)
  <2>1. v.mg.extName = r
    BY <1>2, LifeUse DEF Steady, NameOK
  <2>2. groups' = groups /\ groups[WrittenKey(v.mg, r)] = Absent
    BY <1>2, <2>1, ControllerSends DEF ObserveAbsent, ObservedGroup, ObservedKey, WrittenKey
  <2>3. \A q \in Procs, s \in Res :
          wk'[q][s].pc = "removeFinalizer" =>
            /\ wk'[q][s].mg = wk[q][s].mg
            /\ wk[q][s].pc = "removeFinalizer" \/ (q = p /\ s = r)
    BY <1>2, TypeUse, OrphansNotFound DEF FindsNone, ObserveAbsent
  <2> QED
    BY <2>2, <2>3 DEF KeptInv
<1>3. CASE QuietCall(p, r)
  <2>1. OnlyOrphansGo
    BY <1>3, TypeUse, OrphansQuiet
  <2>2. CASE groups' = groups
    BY <2>1, <2>2, KeptOrphans
  <2>3. CASE \E g : groups' = [groups EXCEPT ![WrittenKey(v.mg, r)] = g]
             /\ v.pc # "removeFinalizer"
    <3>1. ASSUME NEW q \in Procs, NEW s \in Res, wk[q][s].pc = "removeFinalizer"
          PROVE  groups'[WrittenKey(wk[q][s].mg, s)] = groups[WrittenKey(wk[q][s].mg, s)]
      <4>1. s # r
        BY <2>3, <3>1 DEF SingleProcess
      <4>2. WrittenKey(wk[q][s].mg, s) \in Keys /\ WrittenKey(wk[q][s].mg, s) # WrittenKey(v.mg, r)
        BY <3>1, <4>1, KeyUse DEF WrittenKey
      <4> QED
        BY <2>3, <4>2, TypeUse
    <3> QED
      BY <2>1, <3>1, KeptOrphans
  <2>4. CASE v.pc = "delete" /\ groups' = [groups EXCEPT ![ObservedKey(v.mg)] = Absent]
    <3>1. v.mg.extName = r
      BY <2>4, LifeUse DEF Steady, NameOK
    <3> QED
      BY <2>3, <2>4, <3>1 DEF ObservedKey, WrittenKey
  <2> QED
    BY <2>2, <2>3, <2>4, ControllerSends DEF Send
<1> QED
  BY <1>1, <1>2, <1>3

LEMMA KeptStep ==
  ASSUME TypeInv, LifeInv, KeptInv, SingleProcess, NamesLeft, [Next]_vars
  PROVE  KeptInv'
<1>0. ManagedInv
  BY DEF TypeInv
<1>1. CASE OnlyOrphansGo /\ groups' = groups
  BY <1>1, KeptOrphans
<1>2. CASE \E p \in Procs, r \in Res : Reconcile(p, r)
  BY <1>0, <1>1, <1>2, KeptController, OrphansLibrary DEF Reconcile
<1>3. CASE \E r \in Res : (UserStep(r) \/ GraceExpires(r)) /\ UNCHANGED <<groups, drifts>>
  BY <1>0, <1>1, <1>3, OrphansUser
<1>4. CASE \E p \in Procs : Crash(p) /\ UNCHANGED <<groups, drifts>>
  BY <1>0, <1>1, <1>4, OrphansKilled DEF Crash
<1>5. ASSUME wk' = wk
      PROVE  OnlyOrphansGo
  BY <1>5 DEF OnlyOrphansGo
<1>6. CASE Drift
  <2>1. wk' = wk /\ \A k \in Keys : groups'[k] # Absent => groups[k] # Absent
    BY <1>6, DriftEffect
  <2>2. \A p \in Procs, r \in Res :
          wk[p][r].pc = "removeFinalizer" => WrittenKey(wk[p][r].mg, r) \in Keys
    BY KeyUse
  <2> QED
    BY <1>5, <2>1, <2>2, KeptOrphans
<1>7. CASE UNCHANGED vars
  BY <1>1, <1>5, <1>7 DEF vars, managedVars
<1> QED
  BY <1>2, <1>3, <1>4, <1>6, <1>7 DEF Next

\* A resource with a finalizer is let go by a worker that has it as it is stored.
LEMMA KeptLeaves ==
  ASSUME TypeInv, LifeInv, KeptInv, [Next]_vars, NEW r \in Res,
         obj[r] # Gone, obj'[r] = Gone, obj[r].finalizer, obj[r].policy = "Delete"
  PROVE  groups[WrittenKey(obj[r], r)] = Absent
<1>0. ManagedInv
  BY DEF TypeInv
<1>1. PICK p \in Procs, s \in Res : LibraryStep(p, s)
  <2>1. ~ \E s \in Res : UserStep(s) \/ GraceExpires(s)
    BY <1>0, GoesUser
  <2>2. ~ Drift /\ ~ (\E p \in Procs : Crash(p)) /\ ~ UNCHANGED vars
    BY DEF Drift, Crash, vars, managedVars
  <2>3. \A p \in Procs, s \in Res : ~ ControllerStep(p, s)
    BY ControllerCalls
  <2> QED
    BY <2>1, <2>2, <2>3 DEF Next, Reconcile
<1>2. s = r /\ wk[p][r].pc = "removeFinalizer" /\ wk[p][r].fresh
  BY <1>0, <1>1, GoesLibrary
<1>3. wk[p][r].mg.policy = "Delete" /\ WrittenKey(wk[p][r].mg, r) = WrittenKey(obj[r], r)
  BY <1>2, LifeUse DEF Steady, Agrees, WrittenKey
<1> QED
  BY <1>2, <1>3 DEF KeptInv

\* Given a single process and external names left to the provider, whatever policies and
\* namespaces users switch between: a custom resource whose policy is Delete when it goes
\* leaves no group behind under the key it would write it to.
THEOREM DeleteKeepsWord == ASSUME SingleProcess, NamesLeft PROVE Spec => DeletePolicyKept
<1>1. Init => KeptInv
  BY DEF Init, ManagedInit, Idle, KeptInv
<1>2. TypeInv /\ LifeInv /\ KeptInv /\ [Next]_vars => KeptInv'
  BY KeptStep
<1>3. TypeInv /\ LifeInv /\ KeptInv /\ [Next]_vars =>
        [\A r \in Res :
           obj[r] # Gone /\ obj'[r] = Gone /\ obj[r].finalizer /\ obj[r].policy = "Delete"
             => groups[WrittenKey(obj[r], r)] = Absent]_vars
  BY KeptLeaves
<1> QED
  BY <1>1, <1>2, <1>3, LifeInvariant, PTL DEF Spec, DeletePolicyKept
=============================================================================
