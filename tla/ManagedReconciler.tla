-------------------------- MODULE ManagedReconciler --------------------------
(***************************************************************************)
(* The custom resources of one kind in the Kubernetes API and the steps of *)
(* crossplane-runtime's managed.Reconciler, which both controllers of this *)
(* provider instantiate in Setup, around the four calls it makes into the  *)
(* controller: Connect, Observe, then one of Create, Update and Delete.    *)
(* The steps that are such a call belong to the controller's own module.   *)
(*                                                                         *)
(* The reconciler is a library: its steps are modelled as the controllers  *)
(* rely on them.  Each request to the API server or to Cortex is a step of *)
(* its own, so that users, other processes, other reconciles and crashes   *)
(* fall between any two of them.                                           *)
(***************************************************************************)
EXTENDS Naturals

CONSTANTS
  Procs,      \* provider processes that run at once (more than one during an upgrade)
  Res,        \* names of custom resources
  Specs,      \* what a user may put into spec.forProvider
  UserNames,  \* external names a user may set, NoName among them
  NoName,     \* no external-name annotation
  Policies,   \* deletion policies a user may choose
  Edits,      \* the changes of spec.forProvider a user may make, as pairs
  Gone,       \* no such custom resource
  NoCopy,     \* the worker holds no copy
  MaxEdits,   \* bound on creations, edits and deletions by users
  MaxFaults   \* bound on failed or lost requests and on crashes

ASSUME ManagedAssumption ==
  /\ NoName \in UserNames \ Res
  /\ Policies \subseteq {"Delete", "Orphan"}
  /\ Edits \subseteq Specs \X Specs
  /\ MaxEdits \in Nat /\ MaxFaults \in Nat

VARIABLES
  obj,     \* the custom resources in etcd
  recent,  \* resources whose last creation succeeded less than the grace period ago
  wk,      \* per process and resource: the reconcile under way
  edits,   \* what users did so far
  faults   \* what went wrong so far

managedVars == <<obj, recent, wk, edits, faults>>

Names == Res \cup UserNames

\* created is what the three external-create annotations amount to; ready and
\* synced are the two status conditions.
Object ==
  [spec : Specs, extName : Names, policy : Policies, deleting : BOOLEAN, finalizer : BOOLEAN,
   created : {"none", "pending", "succeeded", "failed"},
   ready : {"none", "available", "creating", "deleting"},
   synced : {"none", "success", "error"}]

\* A missing resource is not mistaken for one.
ASSUME GoneAssumption == Gone \notin Object

\* fresh: the copy carries the resourceVersion the API server holds.
\* seen: what Observe returned.
Worker ==
  [pc : {"initialize", "connect", "observe", "addFinalizer", "pending", "create",
         "record", "update", "delete", "removeFinalizer", "status"},
   mg : Object, fresh : BOOLEAN, seen : {"none", "absent", "stale", "current"}]

\* No reconcile is under way.
Idle == [pc |-> "idle", mg |-> NoCopy, fresh |-> FALSE, seen |-> "none"]

ManagedTypeOK ==
  /\ obj \in [Res -> Object \cup {Gone}]
  /\ recent \subseteq Res
  /\ wk \in [Procs -> [Res -> Worker \cup {Idle}]]
  /\ edits \in 0..MaxEdits
  /\ faults \in 0..MaxFaults

ManagedInit ==
  /\ obj = [r \in Res |-> Gone]
  /\ recent = {}
  /\ wk = [p \in Procs |-> [r \in Res |-> Idle]]
  /\ edits = 0
  /\ faults = 0

-----------------------------------------------------------------------------
(***************************************************************************)
(* Users.                                                                  *)
(***************************************************************************)

\* The workers after a write to resource r: their copies of it are outdated.
Outdated(r) == [p \in Procs |-> [wk[p] EXCEPT ![r].fresh = FALSE]]

Edit == edits < MaxEdits /\ edits' = edits + 1

UserCreate(r) ==
  /\ Edit
  /\ obj[r] = Gone
  /\ \E s \in Specs, n \in UserNames, d \in Policies :
       obj' = [obj EXCEPT ![r] =
                 [spec |-> s, extName |-> n, policy |-> d, deleting |-> FALSE, finalizer |-> FALSE,
                  created |-> "none", ready |-> "none", synced |-> "none"]]
  /\ wk' = Outdated(r)
  /\ UNCHANGED <<recent, faults>>

UserEdit(r) ==
  /\ Edit
  /\ obj[r] # Gone
  /\ \E s \in Specs, n \in {obj[r].extName} \cup (UserNames \ {NoName}), d \in Policies :
       /\ s # obj[r].spec => <<obj[r].spec, s>> \in Edits
       /\ <<s, n, d>> # <<obj[r].spec, obj[r].extName, obj[r].policy>>
       /\ obj' = [obj EXCEPT ![r].spec = s, ![r].extName = n, ![r].policy = d]
  /\ wk' = Outdated(r)
  /\ UNCHANGED <<recent, faults>>

\* Without a finalizer the resource goes at once.
UserDelete(r) ==
  /\ Edit
  /\ obj[r] # Gone
  /\ ~ obj[r].deleting
  /\ obj' = [obj EXCEPT ![r] = IF obj[r].finalizer THEN [obj[r] EXCEPT !.deleting = TRUE] ELSE Gone]
  /\ wk' = Outdated(r)
  /\ UNCHANGED <<recent, faults>>

-----------------------------------------------------------------------------
(***************************************************************************)
(* Steps of a reconcile.                                                   *)
(***************************************************************************)

Fault == faults < MaxFaults /\ faults' = faults + 1

At(p, r, pc) == wk[p][r].pc = pc

\* The worker goes on to step pc with copy o.
Go(p, r, pc, o) == wk' = [wk EXCEPT ![p][r].pc = pc, ![p][r].mg = o]

\* The worker ends with this status; writing it is the last step.
Finish(p, r, ready, synced) ==
  Go(p, r, "status", [wk[p][r].mg EXCEPT !.ready = ready, !.synced = synced])

Fail(p, r) == Finish(p, r, wk[p][r].mg.ready, "error")

\* Faulty: the reconciler goes on with a resource whatever is announced on it.
StartedAnyway(o) == [pc |-> "connect", mg |-> o, fresh |-> TRUE, seen |-> "none"]

\* What follows Initialize: a creation that was announced and whose result was never
\* recorded makes the reconciler refuse to go on, for a deleted resource as well.
Started(o) ==
  IF o.created = "pending"
  THEN [pc |-> "status", mg |-> [o EXCEPT !.ready = "creating", !.synced = "error"],
        fresh |-> TRUE, seen |-> "none"]
  ELSE [pc |-> "connect", mg |-> o, fresh |-> TRUE, seen |-> "none"]

\* A watch event, a requeue, the poll interval or the resync brings the resource up.
Start(p, r) ==
  /\ At(p, r, "idle")
  /\ obj[r] # Gone
  /\ wk' = [wk EXCEPT ![p][r] =
       IF obj[r].deleting /\ obj[r].policy = "Orphan"
       THEN [pc |-> "removeFinalizer", mg |-> obj[r], fresh |-> TRUE, seen |-> "none"]
       ELSE IF obj[r].extName = NoName
       THEN [pc |-> "initialize", mg |-> obj[r], fresh |-> TRUE, seen |-> "none"]
       ELSE Started(obj[r])]
  /\ UNCHANGED <<obj, recent, edits, faults>>

\* What the API server stores when copy o is sent: everything but the status.
Stored(r, o) == [o EXCEPT !.ready = obj[r].ready, !.synced = obj[r].synced]

\* client.Update with the changed copy o: refused unless the copy is fresh.  On success
\* the stored object replaces the copy and the worker becomes w.  The write can also
\* fail, or be applied and its answer be lost; the reconcile then ends with an error.
Write(p, r, o, w, failReady) ==
  LET failed == [wk[p][r] EXCEPT !.pc = "status", !.mg.ready = failReady, !.mg.synced = "error"]
  IN  /\ \/ /\ wk[p][r].fresh
            /\ obj' = [obj EXCEPT ![r] = o]
            /\ \/ wk' = [Outdated(r) EXCEPT ![p][r] = w] /\ UNCHANGED faults
               \/ wk' = [Outdated(r) EXCEPT ![p][r] = [failed EXCEPT !.fresh = FALSE]] /\ Fault
         \/ /\ IF wk[p][r].fresh THEN Fault ELSE UNCHANGED faults
            /\ wk' = [wk EXCEPT ![p][r] = failed]
            /\ UNCHANGED obj
      /\ UNCHANGED <<recent, edits>>

\* NameAsExternalName.
Initialize(p, r) ==
  LET o == Stored(r, [wk[p][r].mg EXCEPT !.extName = r])
  IN  /\ At(p, r, "initialize")
      /\ Write(p, r, o, Started(o), wk[p][r].mg.ready)

\* What comes once Observe has returned seen and the finalizer of copy o is on.
Decided(o, seen) ==
  [pc |-> [absent |-> "pending", stale |-> "update", current |-> "status"][seen],
   mg |-> IF seen = "current" THEN [o EXCEPT !.synced = "success"] ELSE o,
   fresh |-> TRUE, seen |-> seen]

AddFinalizer(p, r) ==
  LET o == Stored(r, [wk[p][r].mg EXCEPT !.finalizer = TRUE])
  IN  /\ At(p, r, "addFinalizer")
      /\ Write(p, r, o, Decided(o, wk[p][r].seen), wk[p][r].mg.ready)

\* The creation is announced before it is tried.
SetPending(p, r) ==
  LET o == Stored(r, [wk[p][r].mg EXCEPT !.created = "pending"])
  IN  /\ At(p, r, "pending")
      /\ Write(p, r, o, [wk[p][r] EXCEPT !.pc = "create", !.mg = o], "creating")

\* UpdateCriticalAnnotations: reads the resource again, puts the annotations of the copy
\* on top, and retries on a conflict.  The result of the creation is in the copy.
RecordCreate(p, r) ==
  LET mg == wk[p][r].mg
      o  == [obj[r] EXCEPT !.created = mg.created, !.extName = mg.extName]
  IN  /\ At(p, r, "record")
      /\ \/ /\ obj[r] # Gone
            /\ obj' = [obj EXCEPT ![r] = o]
            /\ recent' = IF mg.created = "succeeded" THEN recent \cup {r} ELSE recent
            /\ wk' = [Outdated(r) EXCEPT ![p][r] =
                 [pc |-> "status", fresh |-> TRUE, seen |-> "absent",
                  mg |-> [o EXCEPT !.ready = "creating",
                            !.synced = IF mg.created = "succeeded" THEN "success" ELSE "error"]]]
            /\ UNCHANGED faults
         \/ /\ IF obj[r] # Gone THEN Fault ELSE UNCHANGED faults
            /\ Finish(p, r, "creating", "error")
            /\ UNCHANGED <<obj, recent>>
      /\ UNCHANGED edits

\* Only deleted resources come here, and they have the finalizer: removing it is what
\* lets them go.  A resource that is already gone is no error.
RemoveFinalizer(p, r) ==
  LET fresh == wk[p][r].fresh
  IN  /\ At(p, r, "removeFinalizer")
      /\ \/ /\ fresh
            /\ obj' = [obj EXCEPT ![r] = Gone]
            /\ \/ wk' = [Outdated(r) EXCEPT ![p][r] = Idle] /\ UNCHANGED faults
               \/ Fault /\ wk' = [Outdated(r) EXCEPT ![p][r] =
                            [wk[p][r] EXCEPT !.pc = "status", !.fresh = FALSE, !.mg.synced = "error"]]
         \/ /\ ~ fresh /\ obj[r] = Gone
            /\ wk' = [wk EXCEPT ![p][r] = Idle]
            /\ UNCHANGED <<obj, faults>>
         \/ /\ IF fresh THEN Fault ELSE obj[r] # Gone /\ UNCHANGED faults
            /\ Fail(p, r)
            /\ UNCHANGED obj
      /\ UNCHANGED <<recent, edits>>

\* Status().Update ends the reconcile, whether it succeeds or not.  A status that says
\* nothing new does not outdate the other copies.
WriteStatus(p, r) ==
  LET mg == wk[p][r].mg
      o  == [obj[r] EXCEPT !.ready = mg.ready, !.synced = mg.synced]
  IN  /\ At(p, r, "status")
      /\ \/ /\ wk[p][r].fresh
            /\ obj' = [obj EXCEPT ![r] = o]
            /\ wk' = [(IF o = obj[r] THEN wk ELSE Outdated(r)) EXCEPT ![p][r] = Idle]
            /\ UNCHANGED faults
         \/ /\ IF wk[p][r].fresh THEN Fault ELSE UNCHANGED faults
            /\ wk' = [wk EXCEPT ![p][r] = Idle]
            /\ UNCHANGED obj
      /\ UNCHANGED <<recent, edits>>

\* How a resource that is not deleted goes on after Observe.
Ensured(w, o, seen) ==
  IF o.finalizer
  THEN [Decided(o, seen) EXCEPT !.fresh = w.fresh]
  ELSE [w EXCEPT !.pc = "addFinalizer", !.mg = o, !.seen = seen]

\* Observe has returned that there is nothing; o is the copy it was given.
NotFound(p, r, o) ==
  wk' = [wk EXCEPT ![p][r] =
    IF o.created = "succeeded" /\ r \in recent THEN Idle
    ELSE IF o.deleting THEN [wk[p][r] EXCEPT !.pc = "removeFinalizer"]
    ELSE Ensured(wk[p][r], o, "absent")]

\* Observe has returned that the external resource is there; o is the copy it was given,
\* which it marks as available.
Available(o) == [o EXCEPT !.ready = "available"]

Found(p, r, o, upToDate) ==
  wk' = [wk EXCEPT ![p][r] =
    IF o.deleting THEN [wk[p][r] EXCEPT !.pc = "delete", !.mg = o]
    ELSE Ensured(wk[p][r], o, IF upToDate THEN "current" ELSE "stale")]

\* The reconciler notes how the creation ended and goes on to record it.
Created(p, r, result) == Go(p, r, "record", [wk[p][r].mg EXCEPT !.created = result])

\* The steps of a reconcile that call nothing of the controller.
LibraryStep(p, r) ==
  \/ Start(p, r)       \/ Initialize(p, r)   \/ AddFinalizer(p, r)    \/ SetPending(p, r)
  \/ RecordCreate(p, r) \/ WriteStatus(p, r) \/ RemoveFinalizer(p, r)

-----------------------------------------------------------------------------
(***************************************************************************)
(* Time and processes.                                                     *)
(***************************************************************************)

\* The grace period in which a creation that succeeded is trusted over an Observe that
\* does not find the resource has passed.
GraceExpires(r) ==
  /\ r \in recent
  /\ recent' = recent \ {r}
  /\ UNCHANGED <<obj, wk, edits, faults>>

\* A process dies and is started again: every reconcile of it is forgotten.
Killed(p) == [wk EXCEPT ![p] = [r \in Res |-> Idle]]

Crash(p) ==
  /\ Fault
  /\ wk' = Killed(p)
  /\ UNCHANGED <<obj, recent, edits>>

UserStep(r) == UserCreate(r) \/ UserEdit(r) \/ UserDelete(r)

-----------------------------------------------------------------------------
(***************************************************************************)
(* Safety.                                                                 *)
(***************************************************************************)

\* The announcement is a lock between processes, for there is no other during an upgrade:
\* a worker that is about to create works for a custom resource that is there, has its
\* finalizer and says so, and no worker of another process is about to create it as well.
\* It takes the absence of Orphan, which lets a resource go past the announcement.
CreatesAlone ==
  \A p \in Procs, r \in Res : At(p, r, "create") =>
    /\ obj[r] # Gone
    /\ obj[r].finalizer
    /\ obj[r].created = "pending"
    /\ \A q \in Procs \ {p} : ~ At(q, r, "create")
=============================================================================
