----------------------- MODULE AlertManagerRefinement -----------------------
(***************************************************************************)
(* AlertManagerController implements GuardedResources, for any sets of     *)
(* custom resources, tenants and texts, and any bounds: every step is a    *)
(* step of GuardedResources or leaves what it speaks of unchanged.         *)
(***************************************************************************)
EXTENDS AlertManagerProofs

\* What the variables of GuardedResources stand for.
Charge  == {g \in Res \X Tenants : Guards(g[1], g[2])}
Leaving == {g \in Res \X Tenants : Guards(g[1], g[2]) /\ obj[g[1]].deleting}
Present == {t \in Tenants : Held(t)}

AbstractStep == [Promise!Next]_(Promise!vars)

-----------------------------------------------------------------------------
(***************************************************************************)
(* The steps of GuardedResources, in terms of the mapping.                 *)
(***************************************************************************)
LEMMA AsStutter ==
  ASSUME Charge' = Charge, Leaving' = Leaving, Present' = Present, drifts' = drifts
  PROVE  AbstractStep
<1>1. (UNCHANGED Promise!vars) <=> UNCHANGED <<Charge, Leaving, Present, drifts>>
  BY DEF Promise!vars, Charge, Leaving, Present
<1> QED
  BY <1>1 DEF AbstractStep

LEMMA AsTakeCharge ==
  ASSUME NEW r \in Res, NEW t \in Tenants, \A u \in Tenants : <<r, u>> \notin Charge,
         Charge' = Charge \cup {<<r, t>>}, Leaving' = Leaving, Present' = Present, drifts' = drifts
  PROVE  AbstractStep
<1>1. Promise!TakeCharge(r, t)
  BY DEF Promise!TakeCharge, Charge, Leaving, Present
<1> QED
  BY <1>1 DEF AbstractStep, Promise!Next

LEMMA AsAsk ==
  ASSUME NEW r \in Res, NEW t \in Tenants, <<r, t>> \in Charge \ Leaving,
         Leaving' = Leaving \cup {<<r, t>>}, Charge' = Charge, Present' = Present, drifts' = drifts
  PROVE  AbstractStep
<1>1. Promise!Ask(r, t)
  BY DEF Promise!Ask, Charge, Leaving, Present
<1> QED
  BY <1>1 DEF AbstractStep, Promise!Next

LEMMA AsPut ==
  ASSUME NEW r \in Res, NEW t \in Tenants, <<r, t>> \in Charge,
         Present' = Present \cup {t}, Charge' = Charge, Leaving' = Leaving, drifts' = drifts
  PROVE  AbstractStep
<1>1. Promise!Put(r, t)
  BY DEF Promise!Put, Charge, Leaving, Present
<1> QED
  BY <1>1 DEF AbstractStep, Promise!Next

LEMMA AsRemove ==
  ASSUME NEW r \in Res, NEW t \in Tenants, <<r, t>> \in Leaving,
         Present' = Present \ {t}, Charge' = Charge, Leaving' = Leaving, drifts' = drifts
  PROVE  AbstractStep
<1>1. Promise!Remove(r, t)
  BY DEF Promise!Remove, Charge, Leaving, Present
<1> QED
  BY <1>1 DEF AbstractStep, Promise!Next

LEMMA AsRelease ==
  ASSUME NEW r \in Res, NEW t \in Tenants, <<r, t>> \in Leaving,
         t \in Present => \E s \in Res \ {r} : <<s, t>> \in Charge,
         Charge' = Charge \ {<<r, t>>}, Leaving' = Leaving \ {<<r, t>>},
         Present' = Present, drifts' = drifts
  PROVE  AbstractStep
<1>1. Promise!Release(r, t)
  BY DEF Promise!Release, Charge, Leaving, Present
<1> QED
  BY <1>1 DEF AbstractStep, Promise!Next

LEMMA AsInterfere ==
  ASSUME NEW lost \in SUBSET Tenants, Present' = Present \ lost,
         Charge' = Charge, Leaving' = Leaving, drifts' = drifts + 1
  PROVE  AbstractStep
<1>1. Promise!Interfere
  BY DEF Promise!Interfere, Charge, Leaving, Present
<1> QED
  BY <1>1 DEF AbstractStep, Promise!Next

-----------------------------------------------------------------------------
(***************************************************************************)
(* What a step does to who is in charge of what.                           *)
(***************************************************************************)

LEMMA SameObjects ==
  ASSUME obj' = obj
  PROVE  Charge' = Charge /\ Leaving' = Leaving
  BY DEF Charge, Leaving, Guards

\* The pairs of the mapping, in the words of the lock.
LEMMA ChargeOf ==
  ASSUME ManagedInv, ManagedInv', NEW s \in Res, NEW t \in Tenants
  PROVE  /\ <<s, t>> \in Charge <=> Holder(s) /\ Tenant[obj[s].spec] = t
         /\ <<s, t>> \in Leaving <=> Holder(s) /\ Tenant[obj[s].spec] = t /\ obj[s].deleting
         /\ <<s, t>> \in Charge' <=> Holder(s)' /\ Tenant[obj'[s].spec] = t
         /\ <<s, t>> \in Leaving' <=> Holder(s)' /\ Tenant[obj'[s].spec] = t /\ obj'[s].deleting
<1> DEFINE g == <<s, t>>
<1>1. g \in Res \X Tenants /\ g[1] = s /\ g[2] = t
  OBVIOUS
<1>2. g \in Charge <=> Guards(g[1], g[2])
  BY <1>1 DEF Charge
<1>3. g \in Leaving <=> Guards(g[1], g[2]) /\ obj[g[1]].deleting
  BY <1>1 DEF Leaving
<1>4. g \in Charge' <=> Guards(g[1], g[2])'
  BY <1>1 DEF Charge
<1>5. g \in Leaving' <=> Guards(g[1], g[2])' /\ obj'[g[1]].deleting
  BY <1>1 DEF Leaving
<1> QED
  BY <1>1, <1>2, <1>3, <1>4, <1>5, GuardsHolder

\* Sets of such pairs are equal if they agree on every pair.
LEMMA PairsEqual ==
  ASSUME NEW A \in SUBSET (Res \X Tenants), NEW B \in SUBSET (Res \X Tenants),
         \A s \in Res, t \in Tenants : <<s, t>> \in A <=> <<s, t>> \in B
  PROVE  A = B
<1>1. \A g \in Res \X Tenants : g \in A <=> g \in B
  <2>1. TAKE g \in Res \X Tenants
  <2>2. PICK s \in Res, t \in Tenants : g = <<s, t>>
    OBVIOUS
  <2> QED
    BY <2>2
<1> QED
  BY <1>1

LEMMA ChargeSubset ==
  /\ Charge \in SUBSET (Res \X Tenants) /\ Leaving \in SUBSET (Res \X Tenants)
  /\ Charge' \in SUBSET (Res \X Tenants) /\ Leaving' \in SUBSET (Res \X Tenants)
  BY DEF Charge, Leaving

\* The tenant that resource r is in charge of, if any.
LEMMA TenantType ==
  ASSUME ManagedInv, NEW r \in Res, obj[r] # Gone
  PROVE  Tenant[obj[r].spec] \in Tenants
<1>1. obj[r].spec \in Specs
  BY DEF ManagedInv, ManagedTypeOK, Object
<1> QED
  BY <1>1, StatedType DEF Tenant

\* Two sets of pairs that differ in the pair <<r, t>> alone.
LEMMA PairAdded ==
  ASSUME NEW A \in SUBSET (Res \X Tenants), NEW B \in SUBSET (Res \X Tenants),
         NEW r \in Res, NEW t \in Tenants,
         \A s \in Res, u \in Tenants : <<s, u>> \in B <=> <<s, u>> \in A \/ (s = r /\ u = t)
  PROVE  B = A \cup {<<r, t>>}
<1> DEFINE C == A \cup {<<r, t>>}
<1>1. C \in SUBSET (Res \X Tenants)
  OBVIOUS
<1>2. \A s \in Res, u \in Tenants : <<s, u>> \in B <=> <<s, u>> \in C
  OBVIOUS
<1> HIDE DEF C
<1>3. B = C
  BY <1>1, <1>2, PairsEqual
<1> QED
  BY <1>3 DEF C

LEMMA PairTaken ==
  ASSUME NEW A \in SUBSET (Res \X Tenants), NEW B \in SUBSET (Res \X Tenants),
         NEW r \in Res, NEW t \in Tenants,
         \A s \in Res, u \in Tenants : <<s, u>> \in B <=> <<s, u>> \in A /\ ~ (s = r /\ u = t)
  PROVE  B = A \ {<<r, t>>}
<1> DEFINE C == A \ {<<r, t>>}
<1>1. C \in SUBSET (Res \X Tenants)
  OBVIOUS
<1>2. \A s \in Res, u \in Tenants : <<s, u>> \in B <=> <<s, u>> \in C
  OBVIOUS
<1> HIDE DEF C
<1>3. B = C
  BY <1>1, <1>2, PairsEqual
<1> QED
  BY <1>3 DEF C

\* A step concerning resource r alone that leaves what Cortex holds as it is.
LEMMA ObjectMaps ==
  ASSUME IInv, ManagedInv', NEW r \in Res, Elsewhere(r), stored' = stored, drifts' = drifts,
         HoldsOn(Tenant, r) \/ Asked(Tenant, r) \/ Charged(r)
           \/ \E p \in Procs : Released(Tenant, p, r)
  PROVE  AbstractStep
<1>0. ManagedInv /\ Present' = Present
  BY DEF Present, Held, IInv, TypeInv
<1>1. \A s \in Res \ {r} : /\ Holder(s)' <=> Holder(s)
                           /\ obj'[s].spec = obj[s].spec /\ obj'[s].deleting = obj[s].deleting
  BY DEF Elsewhere, Holder
<1>2. CASE HoldsOn(Tenant, r)
  <2>1. \A s \in Res, t \in Tenants : /\ <<s, t>> \in Charge' <=> <<s, t>> \in Charge
                                      /\ <<s, t>> \in Leaving' <=> <<s, t>> \in Leaving
    BY <1>0, <1>1, <1>2, ChargeOf DEF HoldsOn
  <2>2. Charge' = Charge /\ Leaving' = Leaving
    BY <2>1, PairsEqual, ChargeSubset
  <2> QED
    BY <1>0, <2>2, AsStutter
<1>3. CASE Asked(Tenant, r)
  <2>1. PICK t \in Tenants : t = Tenant[obj[r].spec]
    BY <1>0, <1>3, TenantType DEF Asked, Holder
  <2>2. \A s \in Res, u \in Tenants :
          /\ <<s, u>> \in Charge' <=> <<s, u>> \in Charge
          /\ <<s, u>> \in Leaving' <=> <<s, u>> \in Leaving \/ (s = r /\ u = t)
    <3>1. TAKE s \in Res, u \in Tenants
    <3>2. CASE s = r
      BY <1>0, <1>3, <2>1, <3>2, ChargeOf DEF Asked
    <3>3. CASE s # r
      BY <1>0, <1>1, <3>3, ChargeOf
    <3> QED
      BY <3>2, <3>3
  <2>3. Charge' = Charge
    BY <2>2, PairsEqual, ChargeSubset
  <2>4. Leaving' = Leaving \cup {<<r, t>>}
    BY <2>2, PairAdded, ChargeSubset
  <2>5. <<r, t>> \in Charge \ Leaving
    BY <1>0, <1>3, <2>1, ChargeOf DEF Asked
  <2> QED
    BY <1>0, <2>3, <2>4, <2>5, AsAsk
<1>4. CASE Charged(r)
  <2>1. PICK t \in Tenants : t = Tenant[obj'[r].spec]
    <3>1. obj'[r] # Gone
      BY <1>4 DEF Charged, Holder
    <3>2. obj'[r].spec \in Specs
      BY <3>1 DEF ManagedInv, ManagedTypeOK, Object
    <3> QED
      BY <3>2, StatedType DEF Tenant
  <2>2. \A s \in Res, u \in Tenants :
          /\ <<s, u>> \in Charge' <=> <<s, u>> \in Charge \/ (s = r /\ u = t)
          /\ <<s, u>> \in Leaving' <=> <<s, u>> \in Leaving
    BY <1>0, <1>1, <1>4, <2>1, ChargeOf DEF Charged
  <2>3. Leaving' = Leaving
    BY <2>2, PairsEqual, ChargeSubset
  <2>4. Charge' = Charge \cup {<<r, t>>}
    BY <2>2, PairAdded, ChargeSubset
  <2>5. \A u \in Tenants : <<r, u>> \notin Charge
    BY <1>0, <1>4, ChargeOf DEF Charged
  <2> QED
    BY <1>0, <2>3, <2>4, <2>5, AsTakeCharge
<1>5. CASE \E p \in Procs : Released(Tenant, p, r)
  <2>1. PICK p \in Procs : Released(Tenant, p, r)
    BY <1>5
  <2>2. PICK t \in Tenants : t = Tenant[obj[r].spec]
    BY <1>0, <2>1, TenantType DEF Released, Holder
  <2>3. \A s \in Res, u \in Tenants :
          /\ <<s, u>> \in Charge' <=> <<s, u>> \in Charge /\ ~ (s = r /\ u = t)
          /\ <<s, u>> \in Leaving' <=> <<s, u>> \in Leaving /\ ~ (s = r /\ u = t)
    BY <1>0, <1>1, <2>1, <2>2, ChargeOf DEF Released
  <2>4. Charge' = Charge \ {<<r, t>>} /\ Leaving' = Leaving \ {<<r, t>>}
    BY <2>3, PairTaken, ChargeSubset
  <2>5. <<r, t>> \in Leaving
    BY <1>0, <2>1, <2>2, ChargeOf DEF Released
  <2>6. ASSUME t \in Present
        PROVE  \E s \in Res \ {r} : <<s, t>> \in Charge
    <3>1. PICK s \in Res : Keeps(s, t)
      BY <2>6 DEF IInv, KeptInv, Present
    <3>2. s # r
      BY <2>1, <3>1 DEF Released, Keeps
    <3>3. <<s, t>> \in Charge
      BY <1>0, <3>1, ChargeOf, GuardsHolder DEF Keeps
    <3> QED
      BY <3>2, <3>3
  <2> QED
    BY <1>0, <2>4, <2>5, <2>6, AsRelease
<1> QED
  BY <1>2, <1>3, <1>4, <1>5

-----------------------------------------------------------------------------
(***************************************************************************)
(* Every step is one of GuardedResources or a stutter.                     *)
(***************************************************************************)

LEMMA StartMaps ==
  ASSUME Init
  PROVE  Promise!Init
<1>1. \A r \in Res : obj[r] = Gone
  BY DEF Init, ManagedInit
<1>2. Charge = {} /\ Leaving = {}
  BY <1>1 DEF Charge, Leaving, Guards
<1>3. Present = {} /\ drifts = 0
  BY DEF Init, Present, Held
<1> QED
  BY <1>2, <1>3 DEF Promise!Init, Charge, Leaving, Present

LEMMA ControllerMaps ==
  ASSUME IInv, TypeInv', SingleProcess, NEW p \in Procs, NEW r \in Res, ControllerStep(p, r)
  PROVE  AbstractStep
<1>1. /\ ManagedInv /\ ManagedInv' /\ obj' = obj /\ drifts' = drifts
      /\ Charge' = Charge /\ Leaving' = Leaving
  BY ControllerEffect, SameObjects DEF IInv, TypeInv
<1>2. ASSUME NEW t \in Tenants, Guards(r, t)
      PROVE  /\ <<r, t>> \in Charge
             /\ obj[r].deleting => <<r, t>> \in Leaving
  BY <1>1, <1>2, ChargeOf, GuardsHolder
<1>3. CASE stored' = stored
  BY <1>1, <1>3, AsStutter DEF Present, Held
<1>4. CASE \E t \in Tenants : Puts(r, t)
  <2>1. PICK t \in Tenants : Puts(r, t)
    BY <1>4
  <2>2. \A u \in Tenants : Held(u)' <=> Held(u) \/ u = t
    BY <2>1 DEF Puts, Held
  <2>3. Present' = Present \cup {t}
    BY <2>2 DEF Present
  <2>4. <<r, t>> \in Charge
    BY <1>2, <2>1 DEF Puts
  <2> QED
    BY <1>1, <2>3, <2>4, AsPut
<1>5. CASE \E t \in Tenants : Removes(r, t)
  <2>1. PICK t \in Tenants : Removes(r, t)
    BY <1>5
  <2>2. \A u \in Tenants : Held(u)' <=> Held(u) /\ u # t
    BY <2>1, TypeUse DEF Removes, Held, IInv
  <2>3. Present' = Present \ {t}
    BY <2>2 DEF Present
  <2>4. <<r, t>> \in Leaving
    BY <1>2, <2>1 DEF Removes
  <2> QED
    BY <1>1, <2>3, <2>4, AsRemove
<1> QED
  BY <1>3, <1>4, <1>5, ControllerEffect DEF FindsNothing

LEMMA DriftMaps ==
  ASSUME Drift
  PROVE  AbstractStep
<1>1. /\ Charge' = Charge /\ Leaving' = Leaving /\ drifts' = drifts + 1
      /\ \A t \in Tenants : Held(t)' => Held(t)
  BY SameObjects, DriftEffect
<1>2. Present' = Present \ (Present \ Present')
  BY <1>1 DEF Present
<1>3. (Present \ Present') \in SUBSET Tenants
  BY DEF Present
<1> QED
  BY <1>1, <1>2, <1>3, AsInterfere

LEMMA StepMaps ==
  ASSUME IInv, SingleOwner, [Next]_vars
  PROVE  AbstractStep
<1>0. /\ SingleProcess /\ Undisturbed(Tenant) /\ LockInv(Tenant) /\ TypeInv' /\ ManagedInv'
  <2>1. TypeInv'
    BY TypeStep DEF IInv
  <2> QED
    BY <2>1, OwnersUndisturbed DEF SingleOwner, IInv, TypeInv
<1>1. CASE obj' = obj /\ stored' = stored /\ drifts' = drifts
  BY <1>1, SameObjects, AsStutter DEF Present, Held
<1>2. CASE \E p \in Procs, r \in Res : Reconcile(p, r)
  <2>1. PICK p \in Procs, r \in Res : Reconcile(p, r)
    BY <1>2
  <2>2. CASE LibraryStep(p, r) /\ UNCHANGED <<stored, drifts>>
    <3>1. Elsewhere(r) /\ (HoldsOn(Tenant, r) \/ Charged(r) \/ Released(Tenant, p, r))
      BY <1>0, <2>2, LockLibrary
    <3> QED
      BY <1>0, <2>2, <3>1, ObjectMaps
  <2> QED
    BY <1>0, <2>1, <2>2, ControllerMaps DEF Reconcile
<1>3. CASE \E r \in Res : (UserStep(r) \/ GraceExpires(r)) /\ UNCHANGED <<stored, drifts>>
  <2>1. PICK r \in Res : (UserStep(r) \/ GraceExpires(r)) /\ UNCHANGED <<stored, drifts>>
    BY <1>3
  <2>2. Elsewhere(r) /\ (HoldsOn(Tenant, r) \/ Asked(Tenant, r))
    BY <1>0, <2>1, LockUser
  <2> QED
    BY <1>0, <2>1, <2>2, ObjectMaps
<1>4. CASE \E p \in Procs : Crash(p) /\ UNCHANGED <<stored, drifts>>
  BY <1>1, <1>4 DEF Crash
<1>5. CASE UNCHANGED vars
  BY <1>1, <1>5 DEF vars, managedVars
<1> QED
  BY <1>2, <1>3, <1>4, <1>5, DriftMaps DEF Next

\* With one process and undisturbed tenants, names and policies, every behaviour of the
\* controller is one that GuardedResources allows: a configuration is written only by a
\* custom resource with the finalizer, removed only for one that is leaving, and a resource is
\* released only once its tenant has no configuration or another resource is in charge of it.
THEOREM Refines == ASSUME SingleOwner PROVE Spec => PromiseKept
<1>1. Init => Promise!Init
  BY StartMaps
<1>2. IInv /\ [Next]_vars => [Promise!Next]_(Promise!vars)
  BY StepMaps DEF AbstractStep
<1>3. Spec => []IInv
  BY Invariant
<1> QED
  BY <1>1, <1>2, <1>3, PTL DEF Spec, PromiseKept, Promise!Spec
=============================================================================
