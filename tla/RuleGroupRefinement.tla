------------------------- MODULE RuleGroupRefinement -------------------------
(***************************************************************************)
(* RuleGroupController implements GuardedResources, for any sets of        *)
(* custom resources, specifications and names, and any bounds: every step  *)
(* of the controller, of users and of anybody else is a step of            *)
(* GuardedResources or leaves what it speaks of unchanged.                 *)
(***************************************************************************)
EXTENDS RuleGroupControllerProofs

\* What the variables of GuardedResources stand for.
Charge  == {g \in Res \X Keys : Guards(g[1], g[2])}
Leaving == {g \in Res \X Keys : Guards(g[1], g[2]) /\ obj[g[1]].deleting}
Present == {k \in Keys : groups[k] # Absent}

AbstractStep == [Promise!Next]_(Promise!vars)

-----------------------------------------------------------------------------
(***************************************************************************)
(* The steps of GuardedResources, in terms of the mapping.                 *)
(***************************************************************************)
LEMMA AsStutter ==
  ASSUME Charge' = Charge, Leaving' = Leaving, Present' = Present, drifts' = drifts
  PROVE  AbstractStep
<1>1. (UNCHANGED Promise!vars) <=> UNCHANGED <<Charge, Leaving, Present, drifts>>
  BY DEF Promise!vars, Charge, Leaving, Present
<1> QED
  BY <1>1 DEF AbstractStep

LEMMA AsTakeCharge ==
  ASSUME NEW r \in Res, NEW k \in Keys, \A l \in Keys : <<r, l>> \notin Charge,
         Charge' = Charge \cup {<<r, k>>}, Leaving' = Leaving, Present' = Present, drifts' = drifts
  PROVE  AbstractStep
<1>1. Promise!TakeCharge(r, k)
  BY DEF Promise!TakeCharge, Charge, Leaving, Present
<1> QED
  BY <1>1 DEF AbstractStep, Promise!Next

LEMMA AsAsk ==
  ASSUME NEW r \in Res, NEW k \in Keys, <<r, k>> \in Charge \ Leaving,
         Leaving' = Leaving \cup {<<r, k>>}, Charge' = Charge, Present' = Present, drifts' = drifts
  PROVE  AbstractStep
<1>1. Promise!Ask(r, k)
  BY DEF Promise!Ask, Charge, Leaving, Present
<1> QED
  BY <1>1 DEF AbstractStep, Promise!Next

LEMMA AsPut ==
  ASSUME NEW r \in Res, NEW k \in Keys, <<r, k>> \in Charge,
         Present' = Present \cup {k}, Charge' = Charge, Leaving' = Leaving, drifts' = drifts
  PROVE  AbstractStep
<1>1. Promise!Put(r, k)
  BY DEF Promise!Put, Charge, Leaving, Present
<1> QED
  BY <1>1 DEF AbstractStep, Promise!Next

LEMMA AsRemove ==
  ASSUME NEW r \in Res, NEW k \in Keys, <<r, k>> \in Leaving,
         Present' = Present \ {k}, Charge' = Charge, Leaving' = Leaving, drifts' = drifts
  PROVE  AbstractStep
<1>1. Promise!Remove(r, k)
  BY DEF Promise!Remove, Charge, Leaving, Present
<1> QED
  BY <1>1 DEF AbstractStep, Promise!Next

LEMMA AsRelease ==
  ASSUME NEW r \in Res, NEW k \in Keys, <<r, k>> \in Leaving,
         k \notin Present,
         Charge' = Charge \ {<<r, k>>}, Leaving' = Leaving \ {<<r, k>>},
         Present' = Present, drifts' = drifts
  PROVE  AbstractStep
<1>1. Promise!Release(r, k)
  BY DEF Promise!Release, Charge, Leaving, Present
<1> QED
  BY <1>1 DEF AbstractStep, Promise!Next

LEMMA AsInterfere ==
  ASSUME NEW lost \in SUBSET Keys, Present' = Present \ lost,
         Charge' = Charge, Leaving' = Leaving, drifts' = drifts + 1
  PROVE  AbstractStep
<1>1. Promise!Interfere
  BY DEF Promise!Interfere, Charge, Leaving, Present
<1> QED
  BY <1>1 DEF AbstractStep, Promise!Next

-----------------------------------------------------------------------------
(***************************************************************************)
(* What a step does to who is in charge of what.                           *)
(***************************************************************************)

LEMMA SameObjects ==
  ASSUME obj' = obj
  PROVE  Charge' = Charge /\ Leaving' = Leaving
  BY DEF Charge, Leaving, Guards

\* The place that custom resource o named r is in charge of.
Place(o, r) == <<Home[o.spec], r>>

\* The pairs of the mapping, in the words of the lock.
LEMMA ChargeOf ==
  ASSUME LockInv(Home), LockInv(Home)', NEW s \in Res, NEW k \in Keys
  PROVE  /\ <<s, k>> \in Charge <=> Holder(s) /\ Place(obj[s], s) = k
         /\ <<s, k>> \in Leaving <=> Holder(s) /\ Place(obj[s], s) = k /\ obj[s].deleting
         /\ <<s, k>> \in Charge' <=> Holder(s)' /\ Place(obj'[s], s) = k
         /\ <<s, k>> \in Leaving' <=> Holder(s)' /\ Place(obj'[s], s) = k /\ obj'[s].deleting
<1> DEFINE g == <<s, k>>
<1>1. g \in Res \X Keys /\ g[1] = s /\ g[2] = k
  OBVIOUS
<1>2. g \in Charge <=> Guards(g[1], g[2])
  BY <1>1 DEF Charge
<1>3. g \in Leaving <=> Guards(g[1], g[2]) /\ obj[g[1]].deleting
  BY <1>1 DEF Leaving
<1>4. g \in Charge' <=> Guards(g[1], g[2])'
  BY <1>1 DEF Charge
<1>5. g \in Leaving' <=> Guards(g[1], g[2])' /\ obj'[g[1]].deleting
  BY <1>1 DEF Leaving
<1>6. /\ obj[s] # Gone => obj[s].spec \in Specs /\ ObjectOK(obj[s], s)
      /\ obj'[s] # Gone => obj'[s].spec \in Specs /\ ObjectOK(obj'[s], s)
  <2>1. obj[s] \in Object \cup {Gone} /\ obj'[s] \in Object \cup {Gone}
    BY DEF LockInv, ManagedInv, ManagedTypeOK
  <2> QED
    BY <2>1 DEF LockInv, ObjectInv, Object
<1>7. /\ Guards(s, k) <=> Holder(s) /\ Place(obj[s], s) = k
      /\ Guards(s, k)' <=> Holder(s)' /\ Place(obj'[s], s) = k
  BY <1>6 DEF Guards, Holder, Place, Home, ObservedKey, ObjectOK
<1> QED
  BY <1>1, <1>2, <1>3, <1>4, <1>5, <1>7

\* The place of a resource is one.
LEMMA PlaceType ==
  ASSUME NEW s \in Res, NEW o \in Object
  PROVE  Place(o, s) \in Keys
<1>1. o.spec \in Specs
  BY DEF Object
<1> QED
  BY <1>1, SpecsType DEF Place, Home, Keys, Names

\* Sets of such pairs are equal if they agree on every pair.
LEMMA PairsEqual ==
  ASSUME NEW A \in SUBSET (Res \X Keys), NEW B \in SUBSET (Res \X Keys),
         \A s \in Res, k \in Keys : <<s, k>> \in A <=> <<s, k>> \in B
  PROVE  A = B
<1>1. \A g \in Res \X Keys : g \in A <=> g \in B
  <2>1. TAKE g \in Res \X Keys
  <2>2. PICK s \in Res, k \in Keys : g = <<s, k>>
    OBVIOUS
  <2> QED
    BY <2>2
<1> QED
  BY <1>1

LEMMA ChargeSubset ==
  /\ Charge \in SUBSET (Res \X Keys) /\ Leaving \in SUBSET (Res \X Keys)
  /\ Charge' \in SUBSET (Res \X Keys) /\ Leaving' \in SUBSET (Res \X Keys)
  BY DEF Charge, Leaving

\* Two sets of pairs that differ in the pair <<r, k>> alone.
LEMMA PairAdded ==
  ASSUME NEW A \in SUBSET (Res \X Keys), NEW B \in SUBSET (Res \X Keys),
         NEW r \in Res, NEW k \in Keys,
         \A s \in Res, l \in Keys : <<s, l>> \in B <=> <<s, l>> \in A \/ (s = r /\ l = k)
  PROVE  B = A \cup {<<r, k>>}
<1> DEFINE C == A \cup {<<r, k>>}
<1>1. C \in SUBSET (Res \X Keys)
  OBVIOUS
<1>2. \A s \in Res, l \in Keys : <<s, l>> \in B <=> <<s, l>> \in C
  OBVIOUS
<1> HIDE DEF C
<1>3. B = C
  BY <1>1, <1>2, PairsEqual
<1> QED
  BY <1>3 DEF C

LEMMA PairTaken ==
  ASSUME NEW A \in SUBSET (Res \X Keys), NEW B \in SUBSET (Res \X Keys),
         NEW r \in Res, NEW k \in Keys,
         \A s \in Res, l \in Keys : <<s, l>> \in B <=> <<s, l>> \in A /\ ~ (s = r /\ l = k)
  PROVE  B = A \ {<<r, k>>}
<1> DEFINE C == A \ {<<r, k>>}
<1>1. C \in SUBSET (Res \X Keys)
  OBVIOUS
<1>2. \A s \in Res, l \in Keys : <<s, l>> \in B <=> <<s, l>> \in C
  OBVIOUS
<1> HIDE DEF C
<1>3. B = C
  BY <1>1, <1>2, PairsEqual
<1> QED
  BY <1>3 DEF C

\* A step concerning resource r alone that leaves the groups as they are.
LEMMA ObjectMaps ==
  ASSUME IInv, LockInv(Home)', NEW r \in Res, Elsewhere(r), groups' = groups, drifts' = drifts,
         HoldsOn(Home, r) \/ Asked(Home, r) \/ Charged(r)
           \/ \E p \in Procs : Released(Home, p, r)
  PROVE  AbstractStep
<1>0. ManagedInv /\ LockInv(Home) /\ Present' = Present
  BY DEF Present, IInv, TypeInv
<1>1. \A s \in Res \ {r} : /\ Holder(s)' <=> Holder(s)
                           /\ obj'[s].spec = obj[s].spec /\ obj'[s].deleting = obj[s].deleting
  BY DEF Elsewhere, Holder
<1>2. CASE HoldsOn(Home, r)
  <2>1. \A s \in Res, k \in Keys : /\ <<s, k>> \in Charge' <=> <<s, k>> \in Charge
                                   /\ <<s, k>> \in Leaving' <=> <<s, k>> \in Leaving
    <3>1. TAKE s \in Res, k \in Keys
    <3>2. CASE s = r
      BY <1>0, <1>2, <3>2, ChargeOf DEF HoldsOn, Place
    <3>3. CASE s # r
      BY <1>0, <1>1, <3>3, ChargeOf DEF Place
    <3> QED
      BY <3>2, <3>3
  <2>2. Charge' = Charge /\ Leaving' = Leaving
    BY <2>1, PairsEqual, ChargeSubset
  <2> QED
    BY <1>0, <2>2, AsStutter
<1>3. CASE Asked(Home, r)
  <2>1. PICK k \in Keys : k = Place(obj[r], r)
    BY <1>0, <1>3, PlaceType DEF Asked, Holder, ManagedInv, ManagedTypeOK
  <2>2. \A s \in Res, l \in Keys :
          /\ <<s, l>> \in Charge' <=> <<s, l>> \in Charge
          /\ <<s, l>> \in Leaving' <=> <<s, l>> \in Leaving \/ (s = r /\ l = k)
    <3>1. TAKE s \in Res, l \in Keys
    <3>2. CASE s = r
      BY <1>0, <1>3, <2>1, <3>2, ChargeOf DEF Asked, Place
    <3>3. CASE s # r
      BY <1>0, <1>1, <3>3, ChargeOf DEF Place
    <3> QED
      BY <3>2, <3>3
  <2>3. Charge' = Charge
    BY <2>2, PairsEqual, ChargeSubset
  <2>4. Leaving' = Leaving \cup {<<r, k>>}
    BY <2>2, PairAdded, ChargeSubset
  <2>5. <<r, k>> \in Charge \ Leaving
    BY <1>0, <1>3, <2>1, ChargeOf DEF Asked
  <2> QED
    BY <1>0, <2>3, <2>4, <2>5, AsAsk
<1>4. CASE Charged(r)
  <2>1. PICK k \in Keys : k = Place(obj'[r], r)
    <3>1. obj'[r] \in Object
      BY <1>4 DEF Charged, Holder, LockInv, ManagedInv, ManagedTypeOK
    <3> QED
      BY <3>1, PlaceType
  <2>2. \A s \in Res, l \in Keys :
          /\ <<s, l>> \in Charge' <=> <<s, l>> \in Charge \/ (s = r /\ l = k)
          /\ <<s, l>> \in Leaving' <=> <<s, l>> \in Leaving
    <3>1. TAKE s \in Res, l \in Keys
    <3>2. CASE s = r
      BY <1>0, <1>4, <2>1, <3>2, ChargeOf DEF Charged, Place
    <3>3. CASE s # r
      BY <1>0, <1>1, <3>3, ChargeOf DEF Place
    <3> QED
      BY <3>2, <3>3
  <2>3. Leaving' = Leaving
    BY <2>2, PairsEqual, ChargeSubset
  <2>4. Charge' = Charge \cup {<<r, k>>}
    BY <2>2, PairAdded, ChargeSubset
  <2>5. \A l \in Keys : <<r, l>> \notin Charge
    BY <1>0, <1>4, ChargeOf DEF Charged
  <2> QED
    BY <1>0, <2>3, <2>4, <2>5, AsTakeCharge
<1>5. CASE \E p \in Procs : Released(Home, p, r)
  <2>1. PICK p \in Procs : Released(Home, p, r)
    BY <1>5
  <2>2. PICK k \in Keys : k = Place(obj[r], r)
    BY <1>0, <2>1, PlaceType DEF Released, Holder, ManagedInv, ManagedTypeOK
  <2>3. \A s \in Res, l \in Keys :
          /\ <<s, l>> \in Charge' <=> <<s, l>> \in Charge /\ ~ (s = r /\ l = k)
          /\ <<s, l>> \in Leaving' <=> <<s, l>> \in Leaving /\ ~ (s = r /\ l = k)
    <3>1. TAKE s \in Res, l \in Keys
    <3>2. CASE s = r
      BY <1>0, <2>1, <2>2, <3>2, ChargeOf DEF Released, Place
    <3>3. CASE s # r
      BY <1>0, <1>1, <3>3, ChargeOf DEF Place
    <3> QED
      BY <3>2, <3>3
  <2>4. Charge' = Charge \ {<<r, k>>} /\ Leaving' = Leaving \ {<<r, k>>}
    BY <2>3, PairTaken, ChargeSubset
  <2>5. <<r, k>> \in Leaving
    BY <1>0, <2>1, <2>2, ChargeOf DEF Released
  <2>6. k \notin Present
    <3>1. wk[p][r].pc = "removeFinalizer" /\ Home[wk[p][r].mg.spec] = Home[obj[r].spec]
      BY <2>1 DEF Released
    <3>2. wk[p][r].mg.spec \in Specs
      BY <3>1, WorkingCopy DEF Working
    <3>3. k = <<wk[p][r].mg.spec.namespace, r>>
      BY <2>2, <3>1, <3>2 DEF Place, Home
    <3> QED
      BY <3>1, <3>3 DEF IInv, ReleaseInv, Present
  <2> QED
    BY <1>0, <2>4, <2>5, <2>6, AsRelease
<1> QED
  BY <1>2, <1>3, <1>4, <1>5

-----------------------------------------------------------------------------
(***************************************************************************)
(* Every step is one of GuardedResources or a stutter.                     *)
(***************************************************************************)

LEMMA StartMaps ==
  ASSUME Init
  PROVE  Promise!Init
<1>1. \A r \in Res : obj[r] = Gone
  BY DEF Init, ManagedInit
<1>2. Charge = {} /\ Leaving = {}
  BY <1>1 DEF Charge, Leaving, Guards
<1>3. Present = {} /\ drifts = 0
  BY DEF Init, Present
<1> QED
  BY <1>2, <1>3 DEF Promise!Init, Charge, Leaving, Present

\* The places that are filled once group g is stored under k.
LEMMA PresentView ==
  ASSUME groups \in [Keys -> StoredGroup \cup {Absent}], NEW k \in Keys, NEW g,
         groups' = [groups EXCEPT ![k] = g]
  PROVE  Present' = IF g = Absent THEN Present \ {k} ELSE Present \cup {k}
<1>1. \A l \in Keys : groups'[l] = IF l = k THEN g ELSE groups[l]
  OBVIOUS
<1> QED
  BY <1>1 DEF Present

LEMMA ControllerMaps ==
  ASSUME IInv, TypeInv', SingleProcess, NEW p \in Procs, NEW r \in Res, ControllerStep(p, r)
  PROVE  AbstractStep
<1> DEFINE k == WrittenKey(wk[p][r].mg, r)
<1>1. /\ LockInv(Home) /\ LockInv(Home)' /\ obj' = obj /\ drifts' = drifts
      /\ Charge' = Charge /\ Leaving' = Leaving
      /\ groups \in [Keys -> StoredGroup \cup {Absent}]
  BY ControllerEffect, SameObjects DEF IInv, TypeInv, TypeOK
<1>2. ASSUME wk[p][r].mg.spec.namespace \in Namespaces, Guarded(wk[p][r].mg.spec.namespace, r)
      PROVE  /\ k \in Keys /\ <<r, k>> \in Charge
             /\ obj[r].deleting => <<r, k>> \in Leaving
  <2>1. k \in Keys /\ Holder(r) /\ Place(obj[r], r) = k
    BY <1>2 DEF WrittenKey, Keys, Names, Guarded, Place
  <2> HIDE DEF k
  <2> QED
    BY <1>1, <2>1, ChargeOf
<1> HIDE DEF k
<1>3. CASE groups' = groups
  BY <1>1, <1>3, AsStutter DEF Present
<1>4. CASE Puts(p, r)
  <2>1. PICK g \in StoredGroup : groups' = [groups EXCEPT ![k] = g]
    BY <1>4 DEF Puts, k
  <2>2. g # Absent
    BY RuleGroupAssumption
  <2>3. k \in Keys /\ <<r, k>> \in Charge
    BY <1>2, <1>4 DEF Puts
  <2>4. Present' = Present \cup {k}
    BY <1>1, <2>1, <2>2, <2>3, PresentView
  <2> QED
    BY <1>1, <2>3, <2>4, AsPut
<1>5. CASE Removes(p, r)
  <2>1. groups' = [groups EXCEPT ![k] = Absent]
    BY <1>5 DEF Removes, k
  <2>2. k \in Keys /\ <<r, k>> \in Leaving
    BY <1>2, <1>5 DEF Removes
  <2>3. Present' = Present \ {k}
    BY <1>1, <2>1, <2>2, PresentView
  <2> QED
    BY <1>1, <2>2, <2>3, AsRemove
<1> QED
  BY <1>3, <1>4, <1>5, ControllerEffect DEF FindsNothing

LEMMA DriftMaps ==
  ASSUME TypeInv, Drift
  PROVE  AbstractStep
<1>1. /\ Charge' = Charge /\ Leaving' = Leaving /\ drifts' = drifts + 1
      /\ \A k \in Keys : groups'[k] # Absent => groups[k] # Absent
  BY SameObjects, DriftEffect
<1>2. Present' = Present \ (Present \ Present')
  BY <1>1 DEF Present
<1>3. (Present \ Present') \in SUBSET Keys
  BY DEF Present
<1> QED
  BY <1>1, <1>2, <1>3, AsInterfere

LEMMA StepMaps ==
  ASSUME IInv, SingleOwner, [Next]_vars
  PROVE  AbstractStep
<1>0. /\ SingleProcess /\ Undisturbed(Home) /\ TypeInv /\ LockInv(Home)
      /\ TypeInv' /\ ManagedInv' /\ LockInv(Home)'
  <2>1. TypeInv' /\ IInv'
    BY TypeStep, InvStep DEF IInv
  <2> QED
    BY <2>1, OwnersUndisturbed DEF SingleOwner, IInv, TypeInv
<1>1. CASE obj' = obj /\ groups' = groups /\ drifts' = drifts
  BY <1>1, SameObjects, AsStutter DEF Present
<1>2. CASE \E p \in Procs, r \in Res : Reconcile(p, r)
  <2>1. PICK p \in Procs, r \in Res : Reconcile(p, r)
    BY <1>2
  <2>2. CASE LibraryStep(p, r) /\ UNCHANGED <<groups, drifts>>
    <3>1. Elsewhere(r) /\ (HoldsOn(Home, r) \/ Charged(r) \/ Released(Home, p, r))
      BY <1>0, <2>2, LockLibrary
    <3> QED
      BY <1>0, <2>2, <3>1, ObjectMaps
  <2> QED
    BY <1>0, <2>1, <2>2, ControllerMaps DEF Reconcile
<1>3. CASE \E r \in Res : (UserStep(r) \/ GraceExpires(r)) /\ UNCHANGED <<groups, drifts>>
  <2>1. PICK r \in Res : (UserStep(r) \/ GraceExpires(r)) /\ UNCHANGED <<groups, drifts>>
    BY <1>3
  <2>2. Elsewhere(r) /\ (HoldsOn(Home, r) \/ Asked(Home, r))
    BY <1>0, <2>1, LockUser
  <2> QED
    BY <1>0, <2>1, <2>2, ObjectMaps
<1>4. CASE \E p \in Procs : Crash(p) /\ UNCHANGED <<groups, drifts>>
  BY <1>1, <1>4 DEF Crash
<1>5. CASE UNCHANGED vars
  BY <1>1, <1>5 DEF vars, managedVars
<1> QED
  BY <1>0, <1>2, <1>3, <1>4, <1>5, DriftMaps DEF Next

\* Under the conditions of NothingStranded, every behaviour of the controller with its stale
\* copies, lost answers, panics and crashes is one that GuardedResources allows: a group is
\* written only while a custom resource with a finalizer is in charge of it, the provider
\* removes it only for one that is leaving, and that one is released only once it is gone.
THEOREM Refines == ASSUME SingleOwner PROVE Spec => PromiseKept
<1>1. Init => Promise!Init
  BY StartMaps
<1>2. IInv /\ [Next]_vars => [Promise!Next]_(Promise!vars)
  BY StepMaps DEF AbstractStep
<1>3. Spec => []IInv
  BY Invariant
<1> QED
  BY <1>1, <1>2, <1>3, PTL DEF Spec, PromiseKept, Promise!Spec
=============================================================================
