------------------------ MODULE RuleGroupController ------------------------
(***************************************************************************)
(* internal/controller/rulegroup: the four calls of the RuleGroup          *)
(* controller, composed with the reconciler that makes them and with the   *)
(* rule groups that Cortex holds for the tenant of the ProviderConfig.     *)
(***************************************************************************)
EXTENDS ManagedReconciler, RuleGroupRules

CONSTANTS
  Namespaces,     \* namespaces of rule groups in Cortex
  ForeignGroups,  \* what somebody else may turn a group into
  Absent,         \* Cortex has no such group
  MaxDrifts       \* bound on changes made by somebody else

ASSUME RuleGroupAssumption ==
  /\ Specs \subseteq [namespace : Namespaces, interval : DurationText \cup {Unset}, rules : Seq(SpecRule)]
  /\ ForeignGroups \subseteq StoredGroup
  /\ Absent \notin StoredGroup
  /\ MaxDrifts \in Nat

VARIABLES
  groups,  \* the rule groups in Cortex, by namespace and name
  drifts   \* what somebody else did to them so far

vars == <<managedVars, groups, drifts>>

Keys == Namespaces \X Names

TypeOK ==
  /\ ManagedTypeOK
  /\ groups \in [Keys -> StoredGroup \cup {Absent}]
  /\ drifts \in 0..MaxDrifts

Init ==
  /\ ManagedInit
  /\ groups = [k \in Keys |-> Absent]
  /\ drifts = 0

\* Observe and Delete look the group up by the external name, Create and Update write
\* it under the name of the custom resource.
ObservedKey(mg)   == <<mg.spec.namespace, mg.extName>>
WrittenKey(mg, r) == <<mg.spec.namespace, r>>

-----------------------------------------------------------------------------
(***************************************************************************)
(* The steps of a reconcile that are calls into the controller.            *)
(***************************************************************************)

\* A panic anywhere in a reconcile takes the whole process down.
Panic(p) == wk' = Killed(p)

\* Tracking the use of the ProviderConfig, reading it and building a client for its
\* address and tenant either works or fails.
Connect(p, r) ==
  /\ At(p, r, "connect")
  /\ \/ Go(p, r, "observe", wk[p][r].mg) /\ UNCHANGED faults
     \/ Fail(p, r) /\ Fault
  /\ UNCHANGED <<obj, recent, edits, groups, drifts>>

\* Observe has compared copy o with the group.
Compared(p, r, o, verdict) ==
  IF verdict = "panic"
  THEN Panic(p)
  ELSE Found(p, r, o, verdict = "ok")

ObservedGroup(p, r) == groups[ObservedKey(wk[p][r].mg)]

\* Faulty: the condition is set before the answer is looked at.
ObserveAbsentAvailable(p, r) ==
  ObservedGroup(p, r) = Absent /\ NotFound(p, r, Available(wk[p][r].mg))

ObserveAbsent(p, r) == ObservedGroup(p, r) = Absent /\ NotFound(p, r, wk[p][r].mg)

\* Faulty: the condition is not set.
ObservePresentSilently(p, r) ==
  /\ ObservedGroup(p, r) # Absent
  /\ \E verdict \in {Verdict(wk[p][r].mg.spec, ObservedGroup(p, r))} :
       Compared(p, r, wk[p][r].mg, verdict)

\* Faulty: a panic is recovered from, and Observe returns its zero values.
ObservePresentRecovered(p, r) ==
  /\ ObservedGroup(p, r) # Absent
  /\ \E verdict \in {Verdict(wk[p][r].mg.spec, ObservedGroup(p, r))} :
       IF verdict = "panic" THEN NotFound(p, r, wk[p][r].mg)
       ELSE Compared(p, r, Available(wk[p][r].mg), verdict)

\* The comparison is made whether or not the resource is deleted.
ObservePresent(p, r) ==
  /\ ObservedGroup(p, r) # Absent
  /\ \E verdict \in {Verdict(wk[p][r].mg.spec, ObservedGroup(p, r))} :
       Compared(p, r, Available(wk[p][r].mg), verdict)

\* Faulty: every error counts as not found.
ObserveErrorAsAbsent(p, r) ==
  /\ At(p, r, "observe")
  /\ \/ (ObserveAbsent(p, r) \/ ObservePresent(p, r)) /\ UNCHANGED faults
     \/ NotFound(p, r, wk[p][r].mg) /\ Fault
  /\ UNCHANGED <<obj, recent, edits, groups, drifts>>

Observe(p, r) ==
  /\ At(p, r, "observe")
  /\ \/ (ObserveAbsent(p, r) \/ ObservePresent(p, r)) /\ UNCHANGED faults
     \/ Fail(p, r) /\ Fault
  /\ UNCHANGED <<obj, recent, edits, groups, drifts>>

\* The group can be built and Cortex takes it.
Sendable(spec) == BuildOutcome(spec) = "ok" /\ CortexAccepts(BuiltGroup(spec))

\* CreateRuleGroup, which replaces a group that is there.
Send(mg, r) == groups' = [groups EXCEPT ![WrittenKey(mg, r)] = BuiltGroup(mg.spec)]

Create(p, r) ==
  LET mg == wk[p][r].mg
  IN  /\ At(p, r, "create")
      /\ \/ BuildOutcome(mg.spec) = "panic" /\ Panic(p) /\ UNCHANGED <<faults, groups>>
         \/ BuildOutcome(mg.spec) # "panic" /\ ~ Sendable(mg.spec)
              /\ Created(p, r, "failed") /\ UNCHANGED <<faults, groups>>
         \/ Sendable(mg.spec) /\ Send(mg, r) /\ Created(p, r, "succeeded") /\ UNCHANGED faults
         \/ Sendable(mg.spec) /\ Fault /\ Created(p, r, "failed") /\ (Send(mg, r) \/ UNCHANGED groups)
      /\ UNCHANGED <<obj, recent, edits, drifts>>

\* Faulty: the group is built and not sent.
UpdateUnsent(p, r) ==
  /\ At(p, r, "update")
  /\ Finish(p, r, wk[p][r].mg.ready, "success")
  /\ UNCHANGED <<obj, recent, edits, faults, groups, drifts>>

Update(p, r) ==
  LET mg == wk[p][r].mg
  IN  /\ At(p, r, "update")
      /\ \/ BuildOutcome(mg.spec) = "panic" /\ Panic(p) /\ UNCHANGED <<faults, groups>>
         \/ BuildOutcome(mg.spec) # "panic" /\ ~ Sendable(mg.spec)
              /\ Fail(p, r) /\ UNCHANGED <<faults, groups>>
         \/ Sendable(mg.spec) /\ Send(mg, r) /\ Finish(p, r, mg.ready, "success") /\ UNCHANGED faults
         \/ Sendable(mg.spec) /\ Fault /\ Fail(p, r) /\ (Send(mg, r) \/ UNCHANGED groups)
      /\ UNCHANGED <<obj, recent, edits, drifts>>

\* Faulty: the namespace is deleted instead of the group.
DeleteNamespace(p, r) ==
  /\ At(p, r, "delete")
  /\ groups' = [k \in Keys |-> IF k[1] = wk[p][r].mg.spec.namespace THEN Absent ELSE groups[k]]
  /\ Finish(p, r, "deleting", "success")
  /\ UNCHANGED <<obj, recent, edits, faults, drifts>>

\* Faulty: nothing is sent to Cortex.
DeleteUnsent(p, r) ==
  /\ At(p, r, "delete")
  /\ Finish(p, r, "deleting", "success")
  /\ UNCHANGED <<obj, recent, edits, faults, groups, drifts>>

\* A group that is no longer there is an error to Cortex, and Delete passes it on.
Delete(p, r) ==
  LET key     == ObservedKey(wk[p][r].mg)
      removed == groups' = [groups EXCEPT ![key] = Absent]
  IN  /\ At(p, r, "delete")
      /\ \/ groups[key] # Absent /\ removed
              /\ Finish(p, r, "deleting", "success") /\ UNCHANGED faults
         \/ groups[key] = Absent
              /\ Finish(p, r, "deleting", "error") /\ UNCHANGED <<faults, groups>>
         \/ Fault /\ Finish(p, r, "deleting", "error") /\ (removed \/ UNCHANGED groups)
      /\ UNCHANGED <<obj, recent, edits, drifts>>

-----------------------------------------------------------------------------
(***************************************************************************)
(* The system.                                                             *)
(***************************************************************************)

\* Somebody changes or deletes a group past the provider.
Drift ==
  /\ drifts < MaxDrifts
  /\ drifts' = drifts + 1
  /\ \E k \in Keys, g \in ForeignGroups \cup {Absent} :
       /\ groups[k] \notin {Absent, g}
       /\ groups' = [groups EXCEPT ![k] = g]
  /\ UNCHANGED managedVars

ControllerStep(p, r) ==
  Connect(p, r) \/ Observe(p, r) \/ Create(p, r) \/ Update(p, r) \/ Delete(p, r)

Reconcile(p, r) == ControllerStep(p, r) \/ (LibraryStep(p, r) /\ UNCHANGED <<groups, drifts>>)

Next ==
  \/ \E p \in Procs, r \in Res : Reconcile(p, r)
  \/ \E r \in Res : (UserStep(r) \/ GraceExpires(r)) /\ UNCHANGED <<groups, drifts>>
  \/ \E p \in Procs : Crash(p) /\ UNCHANGED <<groups, drifts>>
  \/ Drift

Spec == Init /\ [][Next]_vars

\* The work queue brings every resource up again and again, and time passes.  Users,
\* faults and drift are under no obligation.
Fairness ==
  /\ \A p \in Procs, r \in Res : WF_vars(Reconcile(p, r))
  /\ \A r \in Res : WF_vars(GraceExpires(r) /\ UNCHANGED <<groups, drifts>>)

FairSpec == Spec /\ Fairness

-----------------------------------------------------------------------------
(***************************************************************************)
(* Safety.                                                                 *)
(***************************************************************************)

\* A custom resource that stands guard over a group: it cannot go before a reconcile of
\* it has found the group gone.
Guards(r, k) == obj[r] # Gone /\ obj[r].finalizer /\ ObservedKey(obj[r]) = k

\* Every group in Cortex has a custom resource that will remove it, whatever fails,
\* crashes or is edited in between.  It takes one process, external names left to the
\* provider, namespaces left alone, and no Orphan policy.
NoStrandedGroup ==
  \A k \in Keys : groups[k] # Absent => \E r \in Res : Guards(r, k)

\* The provider removes a group only on behalf of a custom resource that is being deleted
\* at that moment: no late or repeated Delete hits the group of a resource in use.
NoUnaskedDeletion ==
  [][\A k \in Keys : groups[k] # Absent /\ groups'[k] = Absent /\ drifts' = drifts
       => \E r \in Res : Guards(r, k) /\ obj[r].deleting]_vars

\* The controller as a guard of resources: the places are the names of groups.
Promise == INSTANCE GuardedResources WITH
  charge  <- {g \in Res \X Keys : Guards(g[1], g[2])},
  leaving <- {g \in Res \X Keys : Guards(g[1], g[2]) /\ obj[g[1]].deleting},
  present <- {k \in Keys : groups[k] # Absent}

\* Every behaviour of the controller, with its copies, lost answers, panics and crashes, is
\* one that GuardedResources allows: a group is written only while a resource with a
\* finalizer is in charge of it, and that resource is released only once the group is gone.
PromiseKept == Promise!Spec

\* A custom resource with policy Delete that the provider has taken charge of goes only once
\* the group written for it is gone, also when the policy was Orphan until just before.
DeletePolicyKept ==
  [][\A r \in Res :
       obj[r] # Gone /\ obj'[r] = Gone /\ obj[r].finalizer /\ obj[r].policy = "Delete"
         => groups[WrittenKey(obj[r], r)] = Absent]_vars

\* Unless somebody else interferes, a custom resource in use that is shown as available
\* has its group in Cortex, although the condition is an earlier observation.
AvailableMeansPresent ==
  \A r \in Res : drifts = 0 /\ obj[r] # Gone
    => (obj[r].ready = "available" /\ ~ obj[r].deleting => groups[ObservedKey(obj[r])] # Absent)

-----------------------------------------------------------------------------
(***************************************************************************)
(* Liveness.                                                               *)
(***************************************************************************)

\* The group can be sent, and what is sent compares as up to date.
Deliverable(spec) == Sendable(spec) /\ IsUpToDate(spec, BuiltGroup(spec))

\* The reconciler has given up on a resource whose creation it cannot account for.
GivenUp(r) == obj[r] # Gone /\ obj[r].created = "pending"

InSync(r) ==
  LET group == groups[ObservedKey(obj[r])]
  IN  /\ obj[r].ready = "available"
      /\ obj[r].synced = "success"
      /\ group # Absent
      /\ IsUpToDate(obj[r].spec, group)

\* Once users, faults and drift stop, every custom resource that states a deliverable
\* group settles: it is shown available and synced, and Cortex holds a group that matches.
Converges ==
  \A r \in Res :
    <>[](obj[r] = Gone \/ GivenUp(r) \/ (Deliverable(obj[r].spec) => InSync(r)))

\* main.go:51-52: each poll checks a resource for drift from the desired state, so that
\* the group Cortex ends up with is the one that the custom resource states.
ReachesDesired ==
  \A r \in Res :
    <>[](obj[r] = Gone \/ GivenUp(r)
           \/ (Deliverable(obj[r].spec) => groups[ObservedKey(obj[r])] = BuiltGroup(obj[r].spec)))

\* A deleted custom resource goes in the end, unless its creation was left unaccounted for.
DeletionCompletes ==
  \A r \in Res : (obj[r] # Gone /\ obj[r].deleting) ~> (obj[r] = Gone \/ GivenUp(r))
=============================================================================
