----------------------- MODULE AlertManagerController -----------------------
(***************************************************************************)
(* internal/controller/alertmanager: the four calls of the                 *)
(* AlertManagerConfiguration controller, composed with the reconciler that *)
(* makes them and with the configuration that Cortex holds for each        *)
(* tenant.  A tenant has one configuration, without a name: custom         *)
(* resources whose ProviderConfig names the same tenant share it.          *)
(***************************************************************************)
EXTENDS ManagedReconciler, FiniteSets

CONSTANTS
  Tenants,         \* tenants of the ProviderConfigs that resources refer to
  Texts,           \* texts of configurations and of template files
  NoText,          \* the empty text
  Refused,         \* texts that Cortex refuses as a configuration
  TemplateNames,   \* names of template files
  ForeignConfigs,  \* what somebody else may turn a configuration into
  Absent,          \* Cortex has no configuration for the tenant
  MaxDrifts        \* bound on changes made by somebody else

\* Some template files by name.
Templates == UNION {[names -> Texts] : names \in SUBSET TemplateNames}

Configuration == [config : Texts, templates : Templates]

\* The tenant is that of the ProviderConfig the resource refers to.
ASSUME ConfigurationAssumption ==
  /\ IsFiniteSet(TemplateNames)
  /\ NoText \in Refused
  /\ Specs \subseteq [tenant : Tenants, config : Texts, templates : Templates]
  /\ ForeignConfigs \subseteq Configuration
  /\ Absent \notin Configuration
  /\ MaxDrifts \in Nat

VARIABLES
  stored,  \* the configurations in Cortex, by tenant
  drifts   \* what somebody else did to them so far

vars == <<managedVars, stored, drifts>>

TypeOK ==
  /\ ManagedTypeOK
  /\ stored \in [Tenants -> Configuration \cup {Absent}]
  /\ drifts \in 0..MaxDrifts

Init ==
  /\ ManagedInit
  /\ stored = [t \in Tenants |-> Absent]
  /\ drifts = 0

-----------------------------------------------------------------------------
(***************************************************************************)
(* The comparison.                                                         *)
(***************************************************************************)

\* Indexing a Go map with a key it does not have yields the empty text.
FileOf(templates, name) == IF name \in DOMAIN templates THEN templates[name] ELSE NoText

\* Faulty: the numbers of template files are not compared.
IsUpToDateUncounted(spec, c) ==
  /\ c.config # NoText
  /\ spec.config = c.config
  /\ \A name \in DOMAIN c.templates : c.templates[name] = FileOf(spec.templates, name)

\* As many template files, and every file that Cortex holds reads the same in the resource.
IsUpToDate(spec, c) ==
  /\ c.config # NoText
  /\ spec.config = c.config
  /\ Cardinality(DOMAIN c.templates) = Cardinality(DOMAIN spec.templates)
  /\ \A name \in DOMAIN c.templates : c.templates[name] = FileOf(spec.templates, name)

\* Faulty: all parameters are sent.
StatedWhole(spec) == spec

\* What Create and Update send, and what the specification asks for.
Stated(spec) == [config |-> spec.config, templates |-> spec.templates]

Accepted(spec) == spec.config \notin Refused

\* A configuration without a text counts as none.
Held(t) == stored[t] # Absent /\ stored[t].config # NoText

-----------------------------------------------------------------------------
(***************************************************************************)
(* The steps of a reconcile that are calls into the controller.            *)
(***************************************************************************)

\* Tracking the use of the ProviderConfig, reading it and building a client for its
\* address and tenant either works or fails (ProviderConfigs has the steps).
Connect(p, r) ==
  /\ At(p, r, "connect")
  /\ \/ Go(p, r, "observe", wk[p][r].mg) /\ UNCHANGED faults
     \/ Fail(p, r) /\ Fault
  /\ UNCHANGED <<obj, recent, edits, stored, drifts>>

TenantOf(p, r) == wk[p][r].mg.spec.tenant

ObserveAbsent(p, r) == ~ Held(TenantOf(p, r)) /\ NotFound(p, r, wk[p][r].mg)

\* Faulty: the condition is not set.
ObservePresentSilently(p, r) ==
  /\ Held(TenantOf(p, r))
  /\ Found(p, r, wk[p][r].mg, IsUpToDate(wk[p][r].mg.spec, stored[TenantOf(p, r)]))

ObservePresent(p, r) ==
  /\ Held(TenantOf(p, r))
  /\ Found(p, r, Available(wk[p][r].mg), IsUpToDate(wk[p][r].mg.spec, stored[TenantOf(p, r)]))

\* Faulty: every error counts as not found.
ObserveErrorAsAbsent(p, r) ==
  /\ At(p, r, "observe")
  /\ \/ (ObserveAbsent(p, r) \/ ObservePresent(p, r)) /\ UNCHANGED faults
     \/ NotFound(p, r, wk[p][r].mg) /\ Fault
  /\ UNCHANGED <<obj, recent, edits, stored, drifts>>

Observe(p, r) ==
  /\ At(p, r, "observe")
  /\ \/ (ObserveAbsent(p, r) \/ ObservePresent(p, r)) /\ UNCHANGED faults
     \/ Fail(p, r) /\ Fault
  /\ UNCHANGED <<obj, recent, edits, stored, drifts>>

\* CreateAlertmanagerConfig, which replaces the configuration that is there.
Send(mg) == stored' = [stored EXCEPT ![mg.spec.tenant] = Stated(mg.spec)]

Create(p, r) ==
  LET mg == wk[p][r].mg
  IN  /\ At(p, r, "create")
      /\ \/ ~ Accepted(mg.spec) /\ Created(p, r, "failed") /\ UNCHANGED <<faults, stored>>
         \/ Accepted(mg.spec) /\ Send(mg) /\ Created(p, r, "succeeded") /\ UNCHANGED faults
         \/ Accepted(mg.spec) /\ Fault /\ Created(p, r, "failed") /\ (Send(mg) \/ UNCHANGED stored)
      /\ UNCHANGED <<obj, recent, edits, drifts>>

\* Faulty: the configuration is removed before it is written anew.
UpdateByReplacing(p, r) ==
  LET mg == wk[p][r].mg
  IN  /\ At(p, r, "update")
      /\ \/ ~ Accepted(mg.spec) /\ Fail(p, r) /\ UNCHANGED <<faults, stored>>
         \/ Accepted(mg.spec) /\ Send(mg) /\ Finish(p, r, mg.ready, "success") /\ UNCHANGED faults
         \/ Accepted(mg.spec) /\ Fault /\ Fail(p, r) /\ stored' = [stored EXCEPT ![mg.spec.tenant] = Absent]
      /\ UNCHANGED <<obj, recent, edits, drifts>>

Update(p, r) ==
  LET mg == wk[p][r].mg
  IN  /\ At(p, r, "update")
      /\ \/ ~ Accepted(mg.spec) /\ Fail(p, r) /\ UNCHANGED <<faults, stored>>
         \/ Accepted(mg.spec) /\ Send(mg) /\ Finish(p, r, mg.ready, "success") /\ UNCHANGED faults
         \/ Accepted(mg.spec) /\ Fault /\ Fail(p, r) /\ (Send(mg) \/ UNCHANGED stored)
      /\ UNCHANGED <<obj, recent, edits, drifts>>

\* Faulty: nothing is sent to Cortex.
DeleteUnsent(p, r) ==
  /\ At(p, r, "delete")
  /\ Finish(p, r, "deleting", "success")
  /\ UNCHANGED <<obj, recent, edits, faults, stored, drifts>>

\* Cortex has no objection to deleting a configuration that is not there.
Delete(p, r) ==
  LET removed == stored' = [stored EXCEPT ![TenantOf(p, r)] = Absent]
  IN  /\ At(p, r, "delete")
      /\ \/ removed /\ Finish(p, r, "deleting", "success") /\ UNCHANGED faults
         \/ Fault /\ Finish(p, r, "deleting", "error") /\ (removed \/ UNCHANGED stored)
      /\ UNCHANGED <<obj, recent, edits, drifts>>

-----------------------------------------------------------------------------
(***************************************************************************)
(* The system.                                                             *)
(***************************************************************************)

\* Somebody changes or deletes a configuration past the provider.
Drift ==
  /\ drifts < MaxDrifts
  /\ drifts' = drifts + 1
  /\ \E t \in Tenants, c \in ForeignConfigs \cup {Absent} :
       Held(t) /\ c # stored[t] /\ stored' = [stored EXCEPT ![t] = c]
  /\ UNCHANGED managedVars

ControllerStep(p, r) ==
  Connect(p, r) \/ Observe(p, r) \/ Create(p, r) \/ Update(p, r) \/ Delete(p, r)

Reconcile(p, r) == ControllerStep(p, r) \/ (LibraryStep(p, r) /\ UNCHANGED <<stored, drifts>>)

Next ==
  \/ \E p \in Procs, r \in Res : Reconcile(p, r)
  \/ \E r \in Res : (UserStep(r) \/ GraceExpires(r)) /\ UNCHANGED <<stored, drifts>>
  \/ \E p \in Procs : Crash(p) /\ UNCHANGED <<stored, drifts>>
  \/ Drift

Spec == Init /\ [][Next]_vars

\* The work queue brings every resource up again and again, and time passes.  Users,
\* faults and drift are under no obligation.
Fairness ==
  /\ \A p \in Procs, r \in Res : WF_vars(Reconcile(p, r))
  /\ \A r \in Res : WF_vars(GraceExpires(r) /\ UNCHANGED <<stored, drifts>>)

FairSpec == Spec /\ Fairness

-----------------------------------------------------------------------------
(***************************************************************************)
(* Safety.                                                                 *)
(***************************************************************************)

\* A custom resource that stands guard over the configuration of tenant t: it cannot go
\* before a reconcile of it has found the configuration gone.
Guards(r, t) == obj[r] # Gone /\ obj[r].finalizer /\ obj[r].spec.tenant = t

\* Every configuration in Cortex has a custom resource that will remove it, also while
\* several resources share the tenant, take turns at deleting and writing, and fail.  It
\* takes one process, resources that stay with their tenant, and no Orphan policy.
NoStrandedConfiguration ==
  \A t \in Tenants : Held(t) => \E r \in Res : Guards(r, t)

\* The provider removes a configuration only on behalf of a custom resource of that tenant
\* that is being deleted at that moment.
NoUnaskedDeletion ==
  [][\A t \in Tenants : Held(t) /\ ~ Held(t)' /\ drifts' = drifts
       => \E r \in Res : Guards(r, t) /\ obj[r].deleting]_vars

\* The controller as a guard of resources.
Promise == INSTANCE GuardedResources WITH
  Keys    <- Tenants,
  charge  <- {g \in Res \X Tenants : Guards(g[1], g[2])},
  leaving <- {g \in Res \X Tenants : Guards(g[1], g[2]) /\ obj[g[1]].deleting},
  present <- {t \in Tenants : Held(t)}

\* Every behaviour of the controller, with its copies, lost answers and crashes, is one that
\* GuardedResources allows: a resource is released only once its tenant's configuration is
\* gone or another resource is in charge of it.
PromiseKept == Promise!Spec

-----------------------------------------------------------------------------
(***************************************************************************)
(* Liveness.                                                               *)
(***************************************************************************)

\* The reconciler has given up on a resource whose creation it cannot account for.
GivenUp(r) == obj[r] # Gone /\ obj[r].created = "pending"

\* A custom resource that some reconcile will still write for, or delete for.
Writes(r)  == obj[r] # Gone /\ ~ obj[r].deleting /\ ~ GivenUp(r) /\ Accepted(obj[r].spec)
Deletes(r) == obj[r] # Gone /\ obj[r].deleting /\ ~ GivenUp(r)

Sharing(t) == {r \in Res : obj[r] # Gone /\ obj[r].spec.tenant = t}

\* configuration.go:165-167 and main.go:52: each poll checks whether Cortex holds what the
\* resource states and writes it if not, so that in the end it does, and says so.
ReachesDesired ==
  \A r \in Res :
    <>[](Writes(r) => /\ stored[obj[r].spec.tenant] = Stated(obj[r].spec)
                      /\ obj[r].ready = "available" /\ obj[r].synced = "success")

\* Resources that share a tenant take turns, but what Cortex holds in the end is always the
\* configuration of one of them, never none and never one that nobody asks for any more.
SomeOwnerWins ==
  \A t \in Tenants :
    <>[]((\E r \in Sharing(t) : Writes(r)) /\ (\A r \in Sharing(t) : ~ Deletes(r))
           => \E r \in Sharing(t) : Writes(r) /\ stored[t] = Stated(obj[r].spec))

\* A deleted custom resource goes in the end, unless its creation was left unaccounted for or
\* another resource keeps writing the configuration anew.
DeletionCompletes ==
  \A r \in Res :
    (obj[r] # Gone /\ obj[r].deleting)
      ~> (~ Deletes(r) \/ \E s \in Res \ {r} : Writes(s) /\ obj[s].spec.tenant = obj[r].spec.tenant)
=============================================================================
