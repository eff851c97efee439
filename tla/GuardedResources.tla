-------------------------- MODULE GuardedResources --------------------------
(***************************************************************************)
(* What both controllers promise, without reconciles, copies, requests and *)
(* faults: custom resources take charge of places in Cortex, something may *)
(* be put in a place only by a resource in charge of it, the provider      *)
(* empties a place only on behalf of a resource that is leaving, and a     *)
(* resource that leaves is released once its place is empty or in the      *)
(* charge of another.  RuleGroupController and AlertManagerController      *)
(* implement this for one process, under the mappings they define.         *)
(***************************************************************************)
EXTENDS Naturals

CONSTANTS
  Res,  \* custom resources
  Keys  \* places in Cortex: names of rule groups, or tenants

VARIABLES
  charge,   \* which resource is in charge of which place
  leaving,  \* those of them that are being deleted
  present,  \* the places that hold something
  drifts    \* how often somebody else interfered

vars == <<charge, leaving, present, drifts>>

Init ==
  /\ charge = {}
  /\ leaving = {}
  /\ present = {}
  /\ drifts = 0

\* The finalizer goes onto the resource before anything is created for it.
TakeCharge(r, k) ==
  /\ \A l \in Keys : <<r, l>> \notin charge
  /\ charge' = charge \cup {<<r, k>>}
  /\ UNCHANGED <<leaving, present, drifts>>

Ask(r, k) ==
  /\ <<r, k>> \in charge \ leaving
  /\ leaving' = leaving \cup {<<r, k>>}
  /\ UNCHANGED <<charge, present, drifts>>

\* Also for a resource that is leaving: the reconcile may not know it yet.
Put(r, k) ==
  /\ <<r, k>> \in charge
  /\ present' = present \cup {k}
  /\ UNCHANGED <<charge, leaving, drifts>>

Remove(r, k) ==
  /\ <<r, k>> \in leaving
  /\ present' = present \ {k}
  /\ UNCHANGED <<charge, leaving, drifts>>

Release(r, k) ==
  /\ <<r, k>> \in leaving
  /\ k \in present => \E s \in Res \ {r} : <<s, k>> \in charge
  /\ charge' = charge \ {<<r, k>>}
  /\ leaving' = leaving \ {<<r, k>>}
  /\ UNCHANGED <<present, drifts>>

\* Somebody else never puts anything where there is nothing.
Interfere ==
  /\ drifts' = drifts + 1
  /\ \E lost \in SUBSET Keys : present' = present \ lost
  /\ UNCHANGED <<charge, leaving>>

Next ==
  \/ \E r \in Res, k \in Keys :
       TakeCharge(r, k) \/ Ask(r, k) \/ Put(r, k) \/ Remove(r, k) \/ Release(r, k)
  \/ Interfere

Spec == Init /\ [][Next]_vars
=============================================================================
