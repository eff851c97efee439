------------------------- MODULE AlertManagerProofs -------------------------
(***************************************************************************)
(* What AlertManagerController promises, for any sets of custom resources, *)
(* tenants, texts and template files and any bounds.                       *)
(***************************************************************************)
EXTENDS AlertManagerController, ManagedReconcilerProofs, FiniteSetTheorems

-----------------------------------------------------------------------------
(***************************************************************************)
(* Type correctness.                                                       *)
(***************************************************************************)

TypeInv == ManagedInv /\ TypeOK

LEMMA TypeUse ==
  ASSUME TypeInv
  PROVE  /\ ManagedInv
         /\ stored \in [Tenants -> Configuration \cup {Absent}]
         /\ drifts \in 0..MaxDrifts
  BY DEF TypeInv, TypeOK

\* What a step has to keep besides ManagedInv.
LEMMA TypeFrom ==
  ASSUME ManagedInv', stored' \in [Tenants -> Configuration \cup {Absent}], drifts' \in 0..MaxDrifts
  PROVE  TypeInv'
  BY DEF TypeInv, TypeOK, ManagedInv

\* What is sent for a resource is a configuration, and of the resource's tenant.
LEMMA StatedType ==
  ASSUME NEW s \in Specs
  PROVE  s.tenant \in Tenants /\ Stated(s) \in Configuration /\ Stated(s).config = s.config
<1>1. s \in [tenant : Tenants, config : Texts, templates : Templates]
  BY ConfigurationAssumption
<1> QED
  BY <1>1 DEF Stated, Configuration

LEMMA ControllerType ==
  ASSUME TypeInv, NEW p \in Procs, NEW r \in Res, ControllerStep(p, r)
  PROVE  TypeInv'
<1> DEFINE v == wk[p][r]
<1>0. /\ ManagedInv /\ v \in Worker /\ v.mg \in Object /\ v.mg.spec \in Specs
      /\ v.mg.ready \in Conditions
      /\ obj' = obj /\ recent' \subseteq Res /\ edits' = edits /\ drifts' = drifts
  <2>1. v.pc # "idle"
    BY DEF ControllerStep, Connect, Observe, Create, Update, Delete, At
  <2>2. v \in Worker /\ v.mg \in Object /\ recent \subseteq Res
    BY <2>1, TypeUse, ManagedUse, WorkerUpdates
  <2>3. v.mg.spec \in Specs /\ v.mg.ready \in Conditions
    BY <2>2 DEF Object, Conditions
  <2>4. obj' = obj /\ recent' = recent /\ edits' = edits /\ drifts' = drifts
    BY DEF ControllerStep, Connect, Observe, Create, Update, Delete
  <2> QED
    BY <2>2, <2>3, <2>4, TypeUse
<1>1. faults' \in 0..MaxFaults
  BY <1>0, FaultType DEF ControllerStep, Connect, Observe, Create, Update, Delete
<1>2. stored' \in [Tenants -> Configuration \cup {Absent}]
  <2>1. CASE stored' = stored
    BY <2>1, TypeUse
  <2>2. CASE Send(v.mg)
    BY <1>0, <2>2, TypeUse, StatedType DEF Send
  <2>3. CASE stored' = [stored EXCEPT ![TenantOf(p, r)] = Absent]
    BY <2>3, TypeUse
  <2> QED
    BY <2>1, <2>2, <2>3 DEF ControllerStep, Connect, Observe, Create, Update, Delete
<1>3. CASE Connect(p, r)
  <2>1. ManagedInv'
    BY <1>0, <1>1, <1>3, GoType, FailType DEF Connect
  <2> QED
    BY <1>0, <1>2, <2>1, TypeUse, TypeFrom
<1>4. CASE Observe(p, r)
  <2>1. ManagedInv'
    BY <1>0, <1>1, <1>4, FoundType, NotFoundType, FailType DEF Observe, ObserveAbsent, ObservePresent
  <2> QED
    BY <1>0, <1>2, <2>1, TypeUse, TypeFrom
<1>5. CASE Create(p, r)
  <2>1. ManagedInv'
    BY <1>0, <1>1, <1>5, CreatedType DEF Create
  <2> QED
    BY <1>0, <1>2, <2>1, TypeUse, TypeFrom
<1>6. CASE Update(p, r)
  <2>1. ManagedInv'
    BY <1>0, <1>1, <1>6, FinishType, FailType DEF Update
  <2> QED
    BY <1>0, <1>2, <2>1, TypeUse, TypeFrom
<1>7. CASE Delete(p, r)
  <2>1. ManagedInv'
    BY <1>0, <1>1, <1>7, FinishType DEF Delete, Conditions
  <2> QED
    BY <1>0, <1>2, <2>1, TypeUse, TypeFrom
<1> QED
  BY <1>3, <1>4, <1>5, <1>6, <1>7 DEF ControllerStep

LEMMA DriftType ==
  ASSUME TypeInv, Drift
  PROVE  TypeInv'
<1>1. ManagedInv'
  BY TypeUse, SameType DEF Drift
<1>2. stored' \in [Tenants -> Configuration \cup {Absent}]
  BY TypeUse, ConfigurationAssumption DEF Drift
<1>3. drifts' \in 0..MaxDrifts
  BY TypeUse, ConfigurationAssumption DEF Drift
<1> QED
  BY <1>1, <1>2, <1>3, TypeFrom

LEMMA TypeStep ==
  ASSUME TypeInv, [Next]_vars
  PROVE  TypeInv'
<1>1. CASE \E p \in Procs, r \in Res : Reconcile(p, r)
  <2>1. PICK p \in Procs, r \in Res : Reconcile(p, r)
    BY <1>1
  <2>2. CASE LibraryStep(p, r) /\ UNCHANGED <<stored, drifts>>
    BY <2>2, TypeUse, LibraryType, TypeFrom
  <2> QED
    BY <2>1, <2>2, ControllerType DEF Reconcile
<1>2. CASE \E r \in Res : (UserStep(r) \/ GraceExpires(r)) /\ UNCHANGED <<stored, drifts>>
  BY <1>2, TypeUse, UserType, TypeFrom
<1>3. CASE \E p \in Procs : Crash(p) /\ UNCHANGED <<stored, drifts>>
  BY <1>3, TypeUse, CrashType, TypeFrom
<1>4. CASE UNCHANGED vars
  BY <1>4, TypeUse, SameType, TypeFrom DEF vars
<1> QED
  BY <1>1, <1>2, <1>3, <1>4, DriftType DEF Next

LEMMA TypeStart ==
  ASSUME Init
  PROVE  TypeInv
<1>1. ManagedInv
  BY ManagedStart DEF Init
<1> QED
  BY <1>1, ConfigurationAssumption DEF Init, TypeInv, TypeOK, ManagedInv

LEMMA TypeInvariant == Spec => []TypeInv
  BY TypeStart, TypeStep, PTL DEF Spec

\* Whatever any number of processes, users, faults and drift do, every custom resource, every
\* copy a worker holds and every configuration in Cortex stays of its type.
THEOREM TypeCorrect == Spec => []TypeOK
<1>1. TypeInv => TypeOK
  BY DEF TypeInv
<1> QED
  BY <1>1, TypeInvariant, PTL

-----------------------------------------------------------------------------
(***************************************************************************)
(* No configuration is stranded.                                           *)
(***************************************************************************)

\* What the deployment and its users have to leave alone: one process (or leader election),
\* external names, tenants, and the Orphan policy.
SingleOwner ==
  /\ SingleProcess
  /\ UserNames = {NoName}
  /\ Policies \subseteq {"Delete"}
  /\ \A e \in Edits : e[1].tenant = e[2].tenant

\* What a resource locks with its finalizer: the configuration of its tenant.
Tenant == [s \in Specs |-> s.tenant]

\* Custom resource r has the lock on the configuration of tenant t, and no reconcile is
\* about to give it up.
Keeps(r, t) == Guards(r, t) /\ \A p \in Procs : wk[p][r].pc # "removeFinalizer"

\* A resource that is about to be released never is the last one to know of a
\* configuration: whoever wrote since it found nothing has the lock as well.
KeptInv == \A t \in Tenants : Held(t) => \E r \in Res : Keeps(r, t)

IInv == TypeInv /\ LockInv(Tenant) /\ KeptInv

LEMMA OwnersUndisturbed == SingleOwner => Undisturbed(Tenant)
<1>1. \A e \in Edits : e[1] \in Specs /\ e[2] \in Specs
  BY ManagedAssumption
<1> QED
  BY <1>1 DEF SingleOwner, Undisturbed, Tenant

\* The lock in the words of ManagedReconcilerProofs.
LEMMA GuardsHolder ==
  ASSUME ManagedInv, ManagedInv', NEW r \in Res, NEW t
  PROVE  /\ Guards(r, t) <=> Holder(r) /\ Tenant[obj[r].spec] = t
         /\ Guards(r, t)' <=> Holder(r)' /\ Tenant[obj'[r].spec] = t
<1>1. /\ obj[r] # Gone => obj[r].spec \in Specs
      /\ obj'[r] # Gone => obj'[r].spec \in Specs
  <2>1. obj[r] \in Object \cup {Gone} /\ obj'[r] \in Object \cup {Gone}
    BY DEF ManagedInv, ManagedTypeOK
  <2> QED
    BY <2>1 DEF Object
<1> QED
  BY <1>1 DEF Guards, Holder, Tenant

\* A worker with the finalizer on its copy acts for a resource with the lock.
LEMMA ActsWithLock ==
  ASSUME IInv, NEW p \in Procs, NEW r \in Res, Working(wk[p][r]), wk[p][r].mg.finalizer
  PROVE  /\ Guards(r, wk[p][r].mg.spec.tenant) /\ wk[p][r].mg.spec.tenant \in Tenants
         /\ wk[p][r].mg.deleting => obj[r].deleting
<1> DEFINE v == wk[p][r]
<1>1. v.mg.spec \in Specs /\ Holds(Tenant, obj[r], v.mg)
  BY CopyUse DEF IInv, CopyOK
<1>2. obj[r].spec \in Specs
  BY <1>1 DEF Holds, IInv, LockInv, ManagedInv, ManagedTypeOK, Object
<1> QED
  BY <1>1, <1>2, StatedType DEF Holds, Guards, Tenant

\* What a call into the controller does to the configuration of tenant t on behalf of r.
Puts(r, t) ==
  /\ Guards(r, t) /\ Held(t)'
  /\ \A u \in Tenants \ {t} : stored'[u] = stored[u]
  /\ \A q \in Procs : wk[q][r].pc # "removeFinalizer"

Removes(r, t) ==
  /\ Guards(r, t) /\ obj[r].deleting
  /\ stored' = [stored EXCEPT ![t] = Absent]

\* The worker of r has found that tenant t has no configuration.
FindsNothing(r, t) ==
  /\ stored' = stored /\ ~ Held(t)
  /\ \A q \in Procs, s \in Res :
       wk'[q][s].pc = "removeFinalizer" =>
         /\ wk[q][s].pc = "removeFinalizer" \/ s = r
         /\ s = r => Guards(r, t)

LEMMA SendPuts ==
  ASSUME IInv, SingleProcess, NEW p \in Procs, NEW r \in Res, wk[p][r].pc \in {"create", "update"},
         Accepted(wk[p][r].mg.spec), Send(wk[p][r].mg)
  PROVE  \E t \in Tenants : Puts(r, t)
<1> DEFINE v == wk[p][r]
<1>1. Working(v) /\ v.mg.finalizer /\ v.mg.spec \in Specs
  <2>1. Working(v)
    BY DEF Working
  <2> QED
    BY <2>1, CopyUse DEF IInv, CopyOK
<1>2. PICK t \in Tenants : t = v.mg.spec.tenant /\ Guards(r, t)
  BY <1>1, ActsWithLock
<1>3. stored' = [stored EXCEPT ![t] = Stated(v.mg.spec)]
  BY <1>2 DEF Send
<1>4. /\ Stated(v.mg.spec) \in Configuration /\ Stated(v.mg.spec) # Absent
      /\ Stated(v.mg.spec).config # NoText
  BY <1>1, StatedType, ConfigurationAssumption DEF Accepted
<1>5. \A u \in Tenants : stored'[u] = IF u = t THEN Stated(v.mg.spec) ELSE stored[u]
  BY <1>3, TypeUse DEF IInv
<1>6. Held(t)'
  BY <1>4, <1>5 DEF Held
<1>7. \A q \in Procs : wk[q][r].pc # "removeFinalizer"
  BY DEF SingleProcess
<1> QED
  BY <1>2, <1>5, <1>6, <1>7 DEF Puts

\* A call into the controller leaves the finalizers alone and is one of these.
LEMMA ControllerEffect ==
  ASSUME IInv, TypeInv', SingleProcess, NEW p \in Procs, NEW r \in Res, ControllerStep(p, r)
  PROVE  /\ LockInv(Tenant)' /\ obj' = obj /\ drifts' = drifts
         /\ \/ stored' = stored /\ NoNewRelease
            \/ \E t \in Tenants : FindsNothing(r, t)
            \/ NoNewRelease /\ \E t \in Tenants : Puts(r, t)
            \/ NoNewRelease /\ \E t \in Tenants : Removes(r, t)
<1> DEFINE v == wk[p][r]
<1>0. /\ LockInv(Tenant) /\ ManagedInv' /\ obj' = obj /\ drifts' = drifts
  BY DEF ControllerStep, Connect, Observe, Create, Update, Delete, IInv, TypeInv
<1>1. v \in Worker
  <2>1. v.pc # "idle"
    BY DEF ControllerStep, Connect, Observe, Create, Update, Delete, At
  <2> QED
    BY <1>0, <2>1, ManagedUse DEF LockInv
<1>2. ASSUME NEW c, NEW e, Finish(p, r, c, e)
      PROVE  LockInv(Tenant)' /\ NoNewRelease
  BY <1>0, <1>1, <1>2, LockFinish
<1>3. Fail(p, r) => LockInv(Tenant)' /\ NoNewRelease
  BY <1>2 DEF Fail
<1>4. CASE Connect(p, r)
  <2>1. v.pc = "connect" /\ stored' = stored
    BY <1>4 DEF Connect, At
  <2>2. Go(p, r, "observe", v.mg) => LockInv(Tenant)' /\ NoNewRelease
    BY <1>0, <2>1, LockGo
  <2> QED
    BY <1>0, <1>3, <1>4, <2>1, <2>2 DEF Connect
<1>5. CASE Observe(p, r)
  <2>1. v.pc = "observe" /\ stored' = stored
    BY <1>5 DEF Observe, At
  <2>2. CASE ObservePresent(p, r)
    <3>1. LockInv(Tenant)' /\ NoNewRelease
      BY <1>0, <2>1, <2>2, LockFound DEF ObservePresent
    <3> QED
      BY <1>0, <2>1, <3>1
  <2>3. CASE ObserveAbsent(p, r)
    <3> DEFINE t == TenantOf(p, r)
    <3>1. /\ LockInv(Tenant)'
          /\ \A q \in Procs, s \in Res :
               wk'[q][s].pc = "removeFinalizer" =>
                 /\ wk'[q][s].mg = wk[q][s].mg
                 /\ wk[q][s].pc = "removeFinalizer" \/ (q = p /\ s = r)
      BY <1>0, <2>1, <2>3, LockNotFound DEF ObserveAbsent
    <3>2. v.mg.spec \in Specs /\ t \in Tenants
      BY <1>0, <2>1, ObserveUse, StatedType DEF TenantOf
    <3>3. ASSUME NEW q \in Procs, wk'[q][r].pc = "removeFinalizer"
          PROVE  Guards(r, t)
      <4>1. q = p
        BY DEF SingleProcess
      <4>2. CopyOK(Tenant, wk'[q][r], r, obj'[r])
        BY <3>1, <3>3 DEF LockInv, CopyInv, Working
      <4>3. v.mg.finalizer
        BY <3>1, <3>3, <4>1, <4>2 DEF CopyOK
      <4>4. Working(v)
        BY <2>1 DEF Working
      <4> QED
        BY <4>3, <4>4, ActsWithLock DEF TenantOf
    <3>4. FindsNothing(r, t)
      BY <2>1, <2>3, <3>1, <3>3 DEF FindsNothing, ObserveAbsent
    <3> QED
      BY <1>0, <3>1, <3>2, <3>4
  <2>4. CASE Fail(p, r)
    BY <1>0, <1>3, <2>1, <2>4
  <2> QED
    BY <1>5, <2>2, <2>3, <2>4 DEF Observe
<1>6. ASSUME v.pc \in {"create", "update"}, Accepted(v.mg.spec), Send(v.mg), NoNewRelease
      PROVE  NoNewRelease /\ \E t \in Tenants : Puts(r, t)
  BY <1>6, SendPuts
<1>7. CASE Create(p, r)
  <2>1. v.pc = "create"
    BY <1>7 DEF Create, At
  <2>2. ASSUME NEW c \in {"succeeded", "failed"}, Created(p, r, c)
        PROVE  LockInv(Tenant)' /\ NoNewRelease
    <3> DEFINE o == [v.mg EXCEPT !.created = c]
    <3>1. Working(v)
      BY <2>1 DEF Working
    <3>2. v.mg \in Object /\ v.mg.finalizer
      BY <1>0, <2>1, <3>1, CopyUse DEF CopyOK
    <3>3. /\ o.extName = v.mg.extName /\ o.finalizer = v.mg.finalizer
          /\ o.deleting = v.mg.deleting /\ o.spec = v.mg.spec
      BY <3>2 DEF Object
    <3>4. Go(p, r, "record", o)
      BY <2>2 DEF Created
    <3> HIDE DEF o
    <3> QED
      BY <1>0, <2>1, <3>2, <3>3, <3>4, LockGo
  <2>3. LockInv(Tenant)' /\ NoNewRelease
    BY <1>7, <2>2 DEF Create
  <2>4. stored' = stored \/ (Accepted(v.mg.spec) /\ Send(v.mg))
    BY <1>7 DEF Create
  <2> QED
    BY <1>0, <1>6, <2>1, <2>3, <2>4
<1>8. CASE Update(p, r)
  <2>1. v.pc = "update"
    BY <1>8 DEF Update, At
  <2>2. LockInv(Tenant)' /\ NoNewRelease
    BY <1>2, <1>3, <1>8 DEF Update
  <2>3. stored' = stored \/ (Accepted(v.mg.spec) /\ Send(v.mg))
    BY <1>8 DEF Update
  <2> QED
    BY <1>0, <1>6, <2>1, <2>2, <2>3
<1>9. CASE Delete(p, r)
  <2> DEFINE t == TenantOf(p, r)
  <2>1. v.pc = "delete" /\ Working(v)
    BY <1>9 DEF Delete, At, Working
  <2>2. v.mg.finalizer /\ v.mg.deleting
    BY <1>0, <2>1, CopyUse DEF CopyOK
  <2>3. Guards(r, t) /\ obj[r].deleting /\ t \in Tenants
    BY <2>1, <2>2, ActsWithLock DEF TenantOf
  <2>4. LockInv(Tenant)' /\ NoNewRelease
    BY <1>2, <1>9 DEF Delete
  <2>5. stored' = stored \/ stored' = [stored EXCEPT ![t] = Absent]
    BY <1>9 DEF Delete
  <2> QED
    BY <1>0, <2>3, <2>4, <2>5 DEF Removes
<1> QED
  BY <1>4, <1>5, <1>7, <1>8, <1>9 DEF ControllerStep

\* A step after which no more is held, and whoever keeps a configuration still guards it.
LEMMA KeptOn ==
  ASSUME KeptInv, NoNewRelease,
         \A t \in Tenants : Held(t)' => Held(t),
         \A s \in Res, t \in Tenants : Keeps(s, t) => Guards(s, t)'
  PROVE  KeptInv'
  BY DEF KeptInv, Keeps, NoNewRelease

\* What a step concerning resource r alone leaves of those in charge.
LEMMA StillGuards ==
  ASSUME ManagedInv, ManagedInv', NEW r \in Res, Elsewhere(r),
         HoldsOn(Tenant, r) \/ Asked(Tenant, r) \/ Charged(r)
           \/ \E p \in Procs : Released(Tenant, p, r)
  PROVE  \A s \in Res, t \in Tenants : Keeps(s, t) => Guards(s, t)'
<1>1. SUFFICES ASSUME NEW s \in Res, NEW t \in Tenants, Keeps(s, t)
               PROVE  Guards(s, t)'
  OBVIOUS
<1>2. Holder(s) /\ Tenant[obj[s].spec] = t
  BY <1>1, GuardsHolder DEF Keeps
<1>3. CASE s # r
  BY <1>1, <1>3 DEF Elsewhere, Guards, Keeps
<1>4. CASE s = r
  <2>1. \A p \in Procs : ~ Released(Tenant, p, r)
    BY <1>1, <1>4 DEF Keeps, Released
  <2>2. Holder(r)' /\ Tenant[obj'[r].spec] = t
    BY <1>2, <1>4, <2>1 DEF HoldsOn, Asked, Charged
  <2> QED
    BY <1>4, <2>2, GuardsHolder
<1> QED
  BY <1>3, <1>4

\* A call into the controller leaves every configuration in somebody's care.
LEMMA KeptController ==
  ASSUME IInv, TypeInv', SingleProcess, NEW p \in Procs, NEW r \in Res, ControllerStep(p, r)
  PROVE  KeptInv'
<1>1. KeptInv /\ obj' = obj
  BY ControllerEffect DEF IInv
<1>2. \A s \in Res, t \in Tenants : Guards(s, t) => Guards(s, t)'
  BY <1>1 DEF Guards
<1>3. CASE stored' = stored /\ NoNewRelease
  BY <1>1, <1>2, <1>3, KeptOn DEF Held, Keeps
<1>4. CASE \E t \in Tenants : FindsNothing(r, t)
  <2>1. PICK t \in Tenants : FindsNothing(r, t)
    BY <1>4
  <2>2. SUFFICES ASSUME NEW u \in Tenants, Held(u)'
                 PROVE  \E s \in Res : Keeps(s, u)'
    BY DEF KeptInv
  <2>3. Held(u) /\ u # t
    BY <2>1, <2>2 DEF FindsNothing, Held
  <2>4. PICK s \in Res : Keeps(s, u)
    BY <1>1, <2>3 DEF KeptInv
  <2>5. Guards(s, u)'
    BY <1>2, <2>4 DEF Keeps
  <2>6. ASSUME NEW q \in Procs, wk'[q][s].pc = "removeFinalizer"
        PROVE  FALSE
    <3>1. s = r /\ Guards(r, t)
      BY <2>1, <2>4, <2>6 DEF FindsNothing, Keeps
    <3> QED
      BY <2>3, <2>4, <3>1 DEF Keeps, Guards
  <2> QED
    BY <2>5, <2>6 DEF Keeps
<1>5. CASE NoNewRelease /\ \E t \in Tenants : Puts(r, t)
  <2>1. PICK t \in Tenants : Puts(r, t)
    BY <1>5
  <2>2. Keeps(r, t)'
    BY <1>2, <1>5, <2>1 DEF Puts, Keeps, NoNewRelease
  <2>3. ASSUME NEW u \in Tenants \ {t}, Held(u)'
        PROVE  \E s \in Res : Keeps(s, u)'
    <3>1. Held(u)
      BY <2>1, <2>3 DEF Puts, Held
    <3> QED
      BY <1>1, <1>2, <1>5, <3>1 DEF KeptInv, Keeps, NoNewRelease
  <2> QED
    BY <2>2, <2>3 DEF KeptInv
<1>6. CASE NoNewRelease /\ \E t \in Tenants : Removes(r, t)
  <2>1. \A u \in Tenants : Held(u)' => Held(u)
    BY <1>6, TypeUse DEF Removes, Held, IInv
  <2> QED
    BY <1>1, <1>2, <1>6, <2>1, KeptOn DEF Keeps
<1> QED
  BY <1>3, <1>4, <1>5, <1>6, ControllerEffect

\* Somebody else changes only what is there.
LEMMA DriftEffect ==
  ASSUME Drift
  PROVE  /\ obj' = obj /\ wk' = wk /\ drifts' = drifts + 1
         /\ \A t \in Tenants : Held(t)' => Held(t)
<1>1. obj' = obj /\ wk' = wk /\ drifts' = drifts + 1
  BY DEF Drift, managedVars
<1>2. PICK t \in Tenants, c \in ForeignConfigs \cup {Absent} :
        Held(t) /\ stored' = [stored EXCEPT ![t] = c]
  BY DEF Drift
<1>3. \A u \in Tenants \ {t} : Held(u)' => Held(u)
  BY <1>2 DEF Held
<1> QED
  BY <1>1, <1>2, <1>3

LEMMA InvStep ==
  ASSUME IInv, SingleOwner, [Next]_vars
  PROVE  IInv'
<1>0. /\ SingleProcess /\ Undisturbed(Tenant) /\ TypeInv /\ LockInv(Tenant) /\ KeptInv
      /\ TypeInv' /\ ManagedInv /\ ManagedInv'
  <2>1. TypeInv'
    BY TypeStep DEF IInv
  <2> QED
    BY <2>1, OwnersUndisturbed DEF SingleOwner, IInv, TypeInv
<1>1. CASE \E p \in Procs, r \in Res : Reconcile(p, r)
  <2>1. PICK p \in Procs, r \in Res : Reconcile(p, r)
    BY <1>1
  <2>2. CASE ControllerStep(p, r)
    BY <1>0, <2>2, ControllerEffect, KeptController DEF IInv
  <2>3. CASE LibraryStep(p, r) /\ UNCHANGED <<stored, drifts>>
    <3>1. /\ LockInv(Tenant)' /\ NoNewRelease /\ Elsewhere(r)
          /\ HoldsOn(Tenant, r) \/ Charged(r) \/ Released(Tenant, p, r)
      BY <1>0, <2>3, LockLibrary
    <3>2. \A s \in Res, t \in Tenants : Keeps(s, t) => Guards(s, t)'
      BY <1>0, <3>1, StillGuards
    <3>3. KeptInv'
      BY <1>0, <2>3, <3>1, <3>2, KeptOn DEF Held
    <3> QED
      BY <1>0, <3>1, <3>3 DEF IInv
  <2> QED
    BY <2>1, <2>2, <2>3 DEF Reconcile
<1>2. CASE \E r \in Res : (UserStep(r) \/ GraceExpires(r)) /\ UNCHANGED <<stored, drifts>>
  <2>1. PICK r \in Res : (UserStep(r) \/ GraceExpires(r)) /\ UNCHANGED <<stored, drifts>>
    BY <1>2
  <2>2. /\ LockInv(Tenant)' /\ NoNewRelease /\ Elsewhere(r)
        /\ HoldsOn(Tenant, r) \/ Asked(Tenant, r)
    BY <1>0, <2>1, LockUser
  <2>3. \A s \in Res, t \in Tenants : Keeps(s, t) => Guards(s, t)'
    BY <1>0, <2>2, StillGuards
  <2>4. KeptInv'
    BY <1>0, <2>1, <2>2, <2>3, KeptOn DEF Held
  <2> QED
    BY <1>0, <2>2, <2>4 DEF IInv
<1>3. ASSUME obj' = obj, LockInv(Tenant)', NoNewRelease, \A t \in Tenants : Held(t)' => Held(t)
      PROVE  IInv'
  <2>1. \A s \in Res, t \in Tenants : Keeps(s, t) => Guards(s, t)'
    BY <1>3 DEF Keeps, Guards
  <2>2. KeptInv'
    BY <1>0, <1>3, <2>1, KeptOn
  <2> QED
    BY <1>0, <1>3, <2>2 DEF IInv
<1>4. CASE \E p \in Procs : Crash(p) /\ UNCHANGED <<stored, drifts>>
  <2>1. PICK p \in Procs : Crash(p) /\ UNCHANGED <<stored, drifts>>
    BY <1>4
  <2>2. wk' = Killed(p) /\ obj' = obj /\ \A t \in Tenants : Held(t)' => Held(t)
    BY <2>1 DEF Crash, Held
  <2>3. LockInv(Tenant)' /\ NoNewRelease
    BY <1>0, <2>2, LockKilled
  <2> QED
    BY <1>3, <2>2, <2>3
<1>5. ASSUME obj' = obj, wk' = wk
      PROVE  LockInv(Tenant)' /\ NoNewRelease
  BY <1>0, <1>5 DEF LockInv, ObjectInv, CopyInv, NoNewRelease
<1>6. CASE Drift
  <2>1. obj' = obj /\ wk' = wk /\ \A t \in Tenants : Held(t)' => Held(t)
    BY <1>6, DriftEffect
  <2> QED
    BY <1>3, <1>5, <2>1
<1>7. CASE UNCHANGED vars
  <2>1. obj' = obj /\ wk' = wk /\ \A t \in Tenants : Held(t)' => Held(t)
    BY <1>7 DEF vars, managedVars, Held
  <2> QED
    BY <1>3, <1>5, <2>1
<1> QED
  BY <1>1, <1>2, <1>4, <1>6, <1>7 DEF Next

LEMMA InvStart ==
  ASSUME Init
  PROVE  IInv
<1>1. TypeInv /\ LockInv(Tenant)
  BY TypeStart, LockStart DEF Init
<1>2. \A t \in Tenants : ~ Held(t)
  BY DEF Init, Held
<1> QED
  BY <1>1, <1>2 DEF IInv, KeptInv

LEMMA Invariant == ASSUME SingleOwner PROVE Spec => []IInv
  BY InvStart, InvStep, PTL DEF Spec

\* With one process, and with users who leave tenants, external names and the Orphan policy
\* alone, no configuration stays behind in Cortex without a custom resource that will remove
\* it, however many resources share a tenant and take turns at writing and deleting it.
THEOREM NothingStranded == ASSUME SingleOwner PROVE Spec => []NoStrandedConfiguration
<1>1. IInv => NoStrandedConfiguration
  BY DEF IInv, KeptInv, Keeps, NoStrandedConfiguration
<1> QED
  BY <1>1, Invariant, PTL

LEMMA OnlyRemoves ==
  ASSUME IInv, SingleOwner, [Next]_vars, NEW t \in Tenants, Held(t), ~ Held(t)', drifts' = drifts
  PROVE  \E r \in Res : Guards(r, t) /\ obj[r].deleting
<1>1. ~ UNCHANGED stored
  BY DEF Held
<1>2. ~ Drift
  BY DriftEffect, TypeUse, ConfigurationAssumption DEF IInv
<1>3. PICK p \in Procs, r \in Res : ControllerStep(p, r)
  BY <1>1, <1>2 DEF Next, Reconcile, vars
<1>4. TypeInv' /\ SingleProcess
  BY TypeStep DEF IInv, SingleOwner
<1>5. \A u \in Tenants : ~ Puts(r, u)
  BY DEF Puts, Held
<1>6. PICK u \in Tenants : Removes(r, u)
  BY <1>1, <1>3, <1>4, <1>5, ControllerEffect DEF FindsNothing
<1>7. u = t
  BY <1>6 DEF Removes, Held
<1> QED
  BY <1>6, <1>7 DEF Removes

\* Under the same conditions the provider removes a configuration only on behalf of a custom
\* resource of that tenant that is being deleted at that moment.
THEOREM OnlyAskedDeletions == ASSUME SingleOwner PROVE Spec => NoUnaskedDeletion
<1>1. IInv /\ [Next]_vars =>
        [\A t \in Tenants : Held(t) /\ ~ Held(t)' /\ drifts' = drifts
           => \E r \in Res : Guards(r, t) /\ obj[r].deleting]_vars
  BY OnlyRemoves
<1>2. Spec => []IInv
  BY Invariant
<1> QED
  BY <1>1, <1>2, PTL DEF Spec, NoUnaskedDeletion

-----------------------------------------------------------------------------
(***************************************************************************)
(* Creations.                                                              *)
(***************************************************************************)

\* The calls into the controller, in the words of ManagedReconcilerProofs.
LEMMA ControllerCalls ==
  ASSUME NEW p \in Procs, NEW r \in Res, ControllerStep(p, r),
         wk[p][r].mg.ready \in Conditions
  PROVE  Call(p, r) /\ obj' = obj
<1>1. obj' = obj
  BY DEF ControllerStep, Connect, Observe, Create, Update, Delete
<1>2. CASE Connect(p, r)
  BY <1>2 DEF Connect, Call, QuietCall, At, Fail
<1>3. CASE Observe(p, r)
  <2>1. wk[p][r].pc = "observe"
    BY <1>3 DEF Observe, At
  <2>2. CASE ObserveAbsent(p, r)
    BY <1>1, <2>1, <2>2 DEF ObserveAbsent, Call, FindsNone
  <2>3. CASE ObservePresent(p, r)
    BY <1>1, <2>1, <2>3 DEF ObservePresent, Call, QuietCall, IsUpToDate
  <2>4. CASE Fail(p, r)
    BY <1>1, <2>1, <2>4 DEF Fail, Call, QuietCall
  <2> QED
    BY <1>3, <2>2, <2>3, <2>4 DEF Observe
<1>4. CASE Create(p, r)
  BY <1>4 DEF Create, Call, QuietCall, At
<1>5. CASE Update(p, r)
  BY <1>5 DEF Update, Call, QuietCall, At, Fail
<1>6. CASE Delete(p, r)
  BY <1>6 DEF Delete, Call, QuietCall, At, Conditions
<1> QED
  BY <1>1, <1>2, <1>3, <1>4, <1>5, <1>6 DEF ControllerStep

LEMMA LifeStep ==
  ASSUME TypeInv, LifeInv, [Next]_vars
  PROVE  LifeInv'
<1>0. ManagedInv'
  BY TypeStep, TypeUse DEF TypeInv
<1>1. CASE \E p \in Procs, r \in Res : Reconcile(p, r)
  <2>1. PICK p \in Procs, r \in Res : Reconcile(p, r)
    BY <1>1
  <2>2. CASE LibraryStep(p, r)
    BY <1>0, <2>2, LifeLibrary
  <2>3. CASE ControllerStep(p, r)
    <3>1. wk[p][r].pc # "idle"
      BY <2>3 DEF ControllerStep, Connect, Observe, Create, Update, Delete, At
    <3>2. wk[p][r].mg.ready \in Conditions
      BY <3>1, LifeUse DEF Object, Conditions
    <3>3. Call(p, r) /\ obj' = obj
      BY <2>3, <3>2, ControllerCalls
    <3> QED
      BY <1>0, <3>3, LifeCall
  <2> QED
    BY <2>1, <2>2, <2>3 DEF Reconcile
<1>2. CASE \E r \in Res : (UserStep(r) \/ GraceExpires(r)) /\ UNCHANGED <<stored, drifts>>
  BY <1>0, <1>2, LifeUser
<1>3. CASE \E p \in Procs : Crash(p) /\ UNCHANGED <<stored, drifts>>
  BY <1>0, <1>3, LifeKilled DEF Crash
<1>4. CASE Drift \/ UNCHANGED vars
  BY <1>4, LifeSame DEF Drift, vars
<1> QED
  BY <1>1, <1>2, <1>3, <1>4 DEF Next

LEMMA LifeInvariant == Spec => [](TypeInv /\ LifeInv)
<1>1. Init => TypeInv /\ LifeInv
  BY TypeStart, LifeStart DEF Init
<1>2. TypeInv /\ LifeInv /\ [Next]_vars => (TypeInv /\ LifeInv)'
  BY TypeStep, LifeStep
<1> QED
  BY <1>1, <1>2, PTL DEF Spec

\* Without the Orphan policy, and with any number of processes, users, faults and crashes, an
\* announced creation stays with the worker that announced it: no second one is tried beside it.
THEOREM OneCreation == ASSUME NoOrphans PROVE Spec => []CreatesAlone
<1>1. TypeInv /\ LifeInv => CreatesAlone
  BY AloneAnnounced
<1> QED
  BY <1>1, LifeInvariant, PTL

-----------------------------------------------------------------------------
(***************************************************************************)
(* The comparison.                                                         *)
(***************************************************************************)

\* The template files of a configuration are finitely many.
LEMMA FilesFinite ==
  ASSUME NEW f \in Templates
  PROVE  IsFiniteSet(DOMAIN f) /\ f \in [DOMAIN f -> Texts]
<1>1. PICK names \in SUBSET TemplateNames : f \in [names -> Texts]
  BY DEF Templates
<1>2. IsFiniteSet(names)
  BY <1>1, FS_Subset, ConfigurationAssumption
<1> QED
  BY <1>1, <1>2

\* isUpToDate accepts what Create and Update send, and where none of the files that Cortex
\* holds is empty it accepts nothing else: that the stated files are looked up under the
\* observed names only makes up, with their number, for a comparison both ways.
THEOREM ComparisonIsExact ==
  ASSUME NEW s \in Specs, NEW c \in Configuration
  PROVE  /\ Accepted(s) /\ c = Stated(s) => IsUpToDate(s, c)
         /\ IsUpToDate(s, c) /\ (\A name \in DOMAIN c.templates : c.templates[name] # NoText)
              => c = Stated(s)
<1> DEFINE held  == c.templates
           asked == s.templates
<1>1. /\ s.config \in Texts /\ asked \in Templates
      /\ c = [config |-> c.config, templates |-> held] /\ held \in Templates
  BY ConfigurationAssumption DEF Configuration
<1>2. ASSUME Accepted(s), c = Stated(s)
      PROVE  IsUpToDate(s, c)
  <2>1. s.config # NoText
    BY <1>2, ConfigurationAssumption DEF Accepted
  <2>2. c.config = s.config /\ held = asked
    BY <1>2 DEF Stated
  <2> QED
    BY <2>1, <2>2 DEF IsUpToDate, FileOf
<1>3. ASSUME IsUpToDate(s, c), \A name \in DOMAIN held : held[name] # NoText
      PROVE  c = Stated(s)
  <2>1. /\ s.config = c.config /\ Cardinality(DOMAIN held) = Cardinality(DOMAIN asked)
        /\ \A name \in DOMAIN held : held[name] = FileOf(asked, name)
    BY <1>3 DEF IsUpToDate
  <2>2. DOMAIN held \subseteq DOMAIN asked
    BY <1>3, <2>1 DEF FileOf
  <2>3. DOMAIN held = DOMAIN asked
    BY <1>1, <2>1, <2>2, FilesFinite, FS_Subset
  <2>4. held = asked
    <3>1. \A name \in DOMAIN held : held[name] = asked[name]
      BY <2>1, <2>2 DEF FileOf
    <3> QED
      BY <1>1, <2>3, <3>1, FilesFinite
  <2> QED
    BY <1>1, <2>1, <2>4 DEF Stated
<1> QED
  BY <1>2, <1>3
=============================================================================
