----------------------- MODULE ManagedReconcilerProofs -----------------------
(***************************************************************************)
(* Proofs about ManagedReconciler that the controllers built around it     *)
(* share: the types of custom resources and workers, and what the          *)
(* finalizer protects.                                                     *)
(***************************************************************************)
EXTENDS ManagedReconciler, TLAPS

-----------------------------------------------------------------------------
(***************************************************************************)
(* Type correctness.                                                       *)
(***************************************************************************)

\* A copy that counts as fresh is a copy of a custom resource that exists.
FreshCopies ==
  \A p \in Procs, r \in Res : wk[p][r].fresh => obj[r] # Gone

\* The finalizer is added only after Observe has said what is there.
SeenFirst ==
  \A p \in Procs, r \in Res : wk[p][r].pc = "addFinalizer" => wk[p][r].seen # "none"

\* The types are not inductive by themselves: a write takes the status from the stored
\* resource, and what follows AddFinalizer is looked up by what Observe returned.
ManagedInv == ManagedTypeOK /\ FreshCopies /\ SeenFirst

\* The pieces of ManagedInv, for one worker.
LEMMA ManagedUse ==
  ASSUME ManagedInv, NEW p \in Procs, NEW r \in Res
  PROVE  /\ obj \in [Res -> Object \cup {Gone}] /\ recent \subseteq Res
         /\ wk \in [Procs -> [Res -> Worker \cup {Idle}]]
         /\ edits \in 0..MaxEdits /\ faults \in 0..MaxFaults
         /\ wk[p][r] \in Worker \cup {Idle}
         /\ wk[p][r].pc # "idle" => wk[p][r] \in Worker
         /\ wk[p][r].fresh => obj[r] \in Object
  BY DEF ManagedInv, ManagedTypeOK, FreshCopies, Idle

\* A worker that moves on while the resource stays as it is.
LEMMA MoveType ==
  ASSUME ManagedInv, NEW p \in Procs, NEW r \in Res,
         NEW w \in Worker \cup {Idle},
         w.fresh => obj[r] # Gone,
         w.pc = "addFinalizer" => w.seen # "none",
         wk' = [wk EXCEPT ![p][r] = w],
         obj' = obj, recent' \subseteq Res, edits' = edits, faults' \in 0..MaxFaults
  PROVE  ManagedInv'
<1>1. ManagedTypeOK'
  BY ManagedUse DEF ManagedInv, ManagedTypeOK
<1>2. FreshCopies'
  BY ManagedUse DEF ManagedInv, FreshCopies
<1>3. SeenFirst'
  BY ManagedUse DEF ManagedInv, SeenFirst
<1> QED
  BY <1>1, <1>2, <1>3 DEF ManagedInv

\* Outdating the copies of a resource changes nothing else about the workers.
LEMMA OutdatedType ==
  ASSUME ManagedInv, NEW r \in Res
  PROVE  /\ Outdated(r) \in [Procs -> [Res -> Worker \cup {Idle}]]
         /\ \A q \in Procs, s \in Res :
              /\ Outdated(r)[q][s].fresh => obj[s] # Gone /\ s # r
              /\ Outdated(r)[q][s].pc = wk[q][s].pc /\ Outdated(r)[q][s].seen = wk[q][s].seen
<1>1. \A v \in Worker : [v EXCEPT !.fresh = FALSE] \in Worker
  BY DEF Worker
<1>2. [Idle EXCEPT !.fresh = FALSE] = Idle
  BY Idle.fresh = FALSE DEF Idle
<1>3. \A q \in Procs : [wk[q] EXCEPT ![r].fresh = FALSE] \in [Res -> Worker \cup {Idle}]
  BY <1>1, <1>2, ManagedUse
<1>4. \A q \in Procs, s \in Res :
        /\ Outdated(r)[q][s].fresh => obj[s] # Gone /\ s # r
        /\ Outdated(r)[q][s].pc = wk[q][s].pc /\ Outdated(r)[q][s].seen = wk[q][s].seen
  BY ManagedUse DEF Outdated, ManagedInv, FreshCopies, Worker, Idle
<1> QED
  BY <1>3, <1>4 DEF Outdated

\* A worker that moves on and changes the resource, outdating the copies of the others.
LEMMA StoreType ==
  ASSUME ManagedInv, NEW p \in Procs, NEW r \in Res,
         NEW o \in Object \cup {Gone}, NEW w \in Worker \cup {Idle},
         w.fresh => o # Gone,
         w.pc = "addFinalizer" => w.seen # "none",
         obj' = [obj EXCEPT ![r] = o],
         wk' = [Outdated(r) EXCEPT ![p][r] = w],
         recent' \subseteq Res, edits' = edits, faults' \in 0..MaxFaults
  PROVE  ManagedInv'
<1>1. ManagedTypeOK'
  BY OutdatedType, ManagedUse DEF ManagedInv, ManagedTypeOK
<1>2. FreshCopies'
  BY OutdatedType, ManagedUse DEF ManagedInv, FreshCopies
<1>3. SeenFirst'
  <2>1. \A q \in Procs, s \in Res :
          wk'[q][s] = IF q = p /\ s = r THEN w ELSE Outdated(r)[q][s]
    <3>1. Outdated(r) \in [Procs -> [Res -> Worker \cup {Idle}]]
      BY OutdatedType
    <3> QED
      BY <3>1
  <2> QED
    <3>1. \A q \in Procs, s \in Res :
            Outdated(r)[q][s].pc = wk[q][s].pc /\ Outdated(r)[q][s].seen = wk[q][s].seen
      BY OutdatedType
    <3> QED
      BY <2>1, <3>1 DEF ManagedInv, SeenFirst
<1> QED
  BY <1>1, <1>2, <1>3 DEF ManagedInv

Conditions == {"none", "available", "creating", "deleting"}

\* A changed copy is a custom resource as well.
LEMMA ObjectUpdates ==
  ASSUME NEW o \in Object
  PROVE  /\ \A n \in Names : [o EXCEPT !.extName = n] \in Object
         /\ [o EXCEPT !.finalizer = TRUE] \in Object
         /\ [o EXCEPT !.deleting = TRUE] \in Object
         /\ \A c \in {"none", "pending", "succeeded", "failed"} : [o EXCEPT !.created = c] \in Object
         /\ \A c \in Conditions : [o EXCEPT !.ready = c] \in Object
         /\ \A c \in {"none", "success", "error"} : [o EXCEPT !.synced = c] \in Object
         /\ \A c \in Conditions, e \in {"none", "success", "error"} :
              [o EXCEPT !.ready = c, !.synced = e] \in Object
         /\ o.ready \in Conditions /\ o.synced \in {"none", "success", "error"}
         /\ o.created \in {"none", "pending", "succeeded", "failed"} /\ o.extName \in Names
  BY DEF Object, Conditions

\* A changed worker is a worker as well.
LEMMA WorkerUpdates ==
  ASSUME NEW w \in Worker
  PROVE  /\ w.mg \in Object /\ w.fresh \in BOOLEAN
         /\ w.seen \in {"none", "absent", "stale", "current"}
         /\ w.pc # "idle"
         /\ \A o \in Object :
              /\ [w EXCEPT !.pc = "status", !.mg = o] \in Worker
              /\ [w EXCEPT !.pc = "observe", !.mg = o] \in Worker
              /\ [w EXCEPT !.pc = "record", !.mg = o] \in Worker
              /\ [w EXCEPT !.pc = "create", !.mg = o] \in Worker
              /\ [w EXCEPT !.pc = "delete", !.mg = o] \in Worker
         /\ [w EXCEPT !.pc = "removeFinalizer"] \in Worker
         /\ [w EXCEPT !.fresh = FALSE] \in Worker
  BY DEF Worker

\* The worker of a write that did not go through.
LEMMA FailedWorker ==
  ASSUME NEW w \in Worker, NEW c \in Conditions
  PROVE  /\ [w EXCEPT !.pc = "status", !.mg.ready = c, !.mg.synced = "error"] \in Worker
         /\ [[w EXCEPT !.pc = "status", !.mg.ready = c, !.mg.synced = "error"]
               EXCEPT !.fresh = FALSE] \in Worker
<1>1. [w.mg EXCEPT !.ready = c, !.synced = "error"] \in Object
  BY ObjectUpdates, WorkerUpdates
<1> QED
  BY <1>1 DEF Worker

\* Fault uses up one of the faults that may still happen.
LEMMA FaultType ==
  ASSUME ManagedInv, Fault \/ faults' = faults
  PROVE  faults' \in 0..MaxFaults
  BY ManagedAssumption DEF Fault, ManagedInv, ManagedTypeOK

\* Write keeps the types if what it stores and goes on with is typed.
LEMMA WriteType ==
  ASSUME ManagedInv, NEW p \in Procs, NEW r \in Res, NEW o, NEW w, NEW c \in Conditions,
         wk[p][r] \in Worker,
         wk[p][r].fresh => o \in Object /\ w \in Worker /\ w.pc # "addFinalizer",
         Write(p, r, o, w, c)
  PROVE  ManagedInv'
<1> DEFINE failed == [wk[p][r] EXCEPT !.pc = "status", !.mg.ready = c, !.mg.synced = "error"]
<1>0. /\ failed \in Worker /\ failed.pc = "status" /\ failed.fresh = wk[p][r].fresh
      /\ [failed EXCEPT !.fresh = FALSE] \in Worker
      /\ [failed EXCEPT !.fresh = FALSE].pc = "status"
      /\ [failed EXCEPT !.fresh = FALSE].fresh = FALSE
  BY FailedWorker DEF Worker
<1>1. recent' = recent /\ edits' = edits /\ recent' \subseteq Res
  BY ManagedUse DEF Write
<1>2. CASE wk[p][r].fresh /\ obj' = [obj EXCEPT ![r] = o]
           /\ wk' = [Outdated(r) EXCEPT ![p][r] = w] /\ UNCHANGED faults
  <2>1. faults' \in 0..MaxFaults
    BY <1>2, FaultType
  <2> QED
    BY <1>1, <1>2, <2>1, StoreType, GoneAssumption
<1>3. CASE wk[p][r].fresh /\ obj' = [obj EXCEPT ![r] = o]
           /\ wk' = [Outdated(r) EXCEPT ![p][r] = [failed EXCEPT !.fresh = FALSE]] /\ Fault
  <2>1. faults' \in 0..MaxFaults
    BY <1>3, FaultType
  <2> HIDE DEF failed
  <2> QED
    BY <1>0, <1>1, <1>3, <2>1, StoreType
<1>4. CASE (Fault \/ faults' = faults) /\ wk' = [wk EXCEPT ![p][r] = failed] /\ obj' = obj
  <2>1. faults' \in 0..MaxFaults
    BY <1>4, FaultType
  <2>2. failed.fresh => obj[r] # Gone
    BY <1>0 DEF ManagedInv, FreshCopies
  <2> HIDE DEF failed
  <2> QED
    BY <1>0, <1>1, <1>4, <2>1, <2>2, MoveType
<1> QED
  BY <1>2, <1>3, <1>4 DEF Write

\* A worker that only gets another copy and another step.
LEMMA GoType ==
  ASSUME ManagedInv, NEW p \in Procs, NEW r \in Res,
         wk[p][r] \in Worker, NEW o \in Object,
         NEW pc \in {"observe", "record", "create", "delete", "status"}, Go(p, r, pc, o),
         obj' = obj, recent' \subseteq Res, edits' = edits, faults' \in 0..MaxFaults
  PROVE  ManagedInv'
<1> DEFINE w == [wk[p][r] EXCEPT !.pc = pc, !.mg = o]
<1>1. w \in Worker /\ w.pc # "addFinalizer" /\ w.fresh = wk[p][r].fresh
  <2>1. \A v \in Worker :
          LET u == [v EXCEPT !.pc = pc, !.mg = o]
          IN  u \in Worker /\ u.pc = pc /\ u.fresh = v.fresh
    BY DEF Worker
  <2> QED
    BY <2>1
<1>2. w.fresh => obj[r] # Gone
  BY <1>1 DEF ManagedInv, FreshCopies
<1>3. wk' = [wk EXCEPT ![p][r] = w]
  BY ManagedUse DEF Go
<1> HIDE DEF w
<1> QED
  BY <1>1, <1>2, <1>3, MoveType

LEMMA FinishType ==
  ASSUME ManagedInv, NEW p \in Procs, NEW r \in Res,
         wk[p][r] \in Worker, NEW c \in Conditions, NEW e \in {"none", "success", "error"},
         Finish(p, r, c, e),
         obj' = obj, recent' \subseteq Res, edits' = edits, faults' \in 0..MaxFaults
  PROVE  ManagedInv'
<1>1. [wk[p][r].mg EXCEPT !.ready = c, !.synced = e] \in Object
  BY ObjectUpdates, WorkerUpdates
<1> QED
  BY <1>1, GoType DEF Finish

LEMMA FailType ==
  ASSUME ManagedInv, NEW p \in Procs, NEW r \in Res,
         wk[p][r] \in Worker, Fail(p, r),
         obj' = obj, recent' \subseteq Res, edits' = edits, faults' \in 0..MaxFaults
  PROVE  ManagedInv'
  BY FinishType, WorkerUpdates, ObjectUpdates DEF Fail

\* Workers that are forgotten.
LEMMA KilledType ==
  ASSUME ManagedInv, NEW p \in Procs, wk' = Killed(p),
         obj' = obj, recent' \subseteq Res, edits' = edits, faults' \in 0..MaxFaults
  PROVE  ManagedInv'
<1>1. Killed(p) \in [Procs -> [Res -> Worker \cup {Idle}]]
  BY DEF Killed, ManagedInv, ManagedTypeOK
<1>2. \A q \in Procs, s \in Res : Killed(p)[q][s] \in {wk[q][s], Idle}
  BY DEF Killed, ManagedInv, ManagedTypeOK
<1>3. Idle.fresh = FALSE /\ Idle.pc = "idle"
  BY DEF Idle
<1>4. ManagedTypeOK'
  BY <1>1 DEF ManagedInv, ManagedTypeOK
<1>5. FreshCopies' /\ SeenFirst'
  BY <1>2, <1>3 DEF ManagedInv, FreshCopies, SeenFirst
<1> QED
  BY <1>4, <1>5 DEF ManagedInv

LEMMA StartedType ==
  ASSUME NEW o \in Object
  PROVE  Started(o) \in Worker /\ Started(o).pc # "addFinalizer"
<1>1. [o EXCEPT !.ready = "creating", !.synced = "error"] \in Object
  BY ObjectUpdates DEF Conditions
<1> QED
  BY <1>1 DEF Started, Worker

LEMMA DecidedType ==
  ASSUME NEW o \in Object, NEW seen \in {"absent", "stale", "current"}
  PROVE  Decided(o, seen) \in Worker /\ Decided(o, seen).pc # "addFinalizer"
<1>1. [o EXCEPT !.synced = "success"] \in Object
  BY ObjectUpdates
<1>2. [absent |-> "pending", stale |-> "update", current |-> "status"][seen]
        \in {"pending", "update", "status"}
  OBVIOUS
<1> QED
  BY <1>1, <1>2 DEF Decided, Worker

LEMMA StoredType ==
  ASSUME ManagedInv, NEW r \in Res, obj[r] # Gone, NEW o \in Object
  PROVE  Stored(r, o) \in Object
<1>1. obj[r] \in Object
  BY DEF ManagedInv, ManagedTypeOK
<1> QED
  BY <1>1, ObjectUpdates DEF Stored

\* The steps of users and of time keep the types.
LEMMA UserType ==
  ASSUME ManagedInv, NEW r \in Res, UserStep(r) \/ GraceExpires(r)
  PROVE  ManagedInv'
<1>1. ASSUME NEW o \in Object \cup {Gone}, obj' = [obj EXCEPT ![r] = o], wk' = Outdated(r),
             Edit, UNCHANGED <<recent, faults>>
      PROVE  ManagedInv'
  <2>1. edits' \in 0..MaxEdits
    <3>1. edits \in 0..MaxEdits
      BY DEF ManagedInv, ManagedTypeOK
    <3> QED
      BY <1>1, <3>1, ManagedAssumption DEF Edit
  <2>2. ManagedTypeOK'
    <3>1. wk' \in [Procs -> [Res -> Worker \cup {Idle}]]
      BY <1>1, OutdatedType
    <3>2. obj' \in [Res -> Object \cup {Gone}]
      BY <1>1 DEF ManagedInv, ManagedTypeOK
    <3> QED
      BY <1>1, <2>1, <3>1, <3>2 DEF ManagedInv, ManagedTypeOK
  <2>3. \A q \in Procs, s \in Res :
          /\ Outdated(r)[q][s].fresh => obj[s] # Gone /\ s # r
          /\ Outdated(r)[q][s].pc = wk[q][s].pc /\ Outdated(r)[q][s].seen = wk[q][s].seen
    BY OutdatedType
  <2>4. FreshCopies'
    BY <1>1, <2>3 DEF ManagedInv, ManagedTypeOK, FreshCopies
  <2>5. SeenFirst'
    BY <1>1, <2>3 DEF ManagedInv, SeenFirst
  <2> QED
    BY <2>2, <2>4, <2>5 DEF ManagedInv
<1>2. CASE UserCreate(r)
  <2>1. PICK s \in Specs, n \in UserNames, d \in Policies :
          obj' = [obj EXCEPT ![r] =
                    [spec |-> s, extName |-> n, policy |-> d, deleting |-> FALSE,
                     finalizer |-> FALSE, created |-> "none", ready |-> "none", synced |-> "none"]]
    BY <1>2 DEF UserCreate
  <2>2. [spec |-> s, extName |-> n, policy |-> d, deleting |-> FALSE,
         finalizer |-> FALSE, created |-> "none", ready |-> "none", synced |-> "none"] \in Object
    BY DEF Object, Names
  <2> QED
    BY <1>1, <1>2, <2>1, <2>2 DEF UserCreate
<1>3. CASE UserEdit(r)
  <2>1. obj[r] \in Object
    BY <1>3 DEF UserEdit, ManagedInv, ManagedTypeOK
  <2>2. PICK s \in Specs, n \in {obj[r].extName} \cup (UserNames \ {NoName}), d \in Policies :
          obj' = [obj EXCEPT ![r].spec = s, ![r].extName = n, ![r].policy = d]
    BY <1>3 DEF UserEdit
  <2>3. [obj[r] EXCEPT !.spec = s, !.extName = n, !.policy = d] \in Object
    BY <2>1 DEF Object, Names
  <2>4. obj' = [obj EXCEPT ![r] = [obj[r] EXCEPT !.spec = s, !.extName = n, !.policy = d]]
    BY <2>2 DEF ManagedInv, ManagedTypeOK
  <2> QED
    BY <1>1, <1>3, <2>3, <2>4 DEF UserEdit
<1>4. CASE UserDelete(r)
  <2>1. obj[r] \in Object
    BY <1>4 DEF UserDelete, ManagedInv, ManagedTypeOK
  <2>2. [obj[r] EXCEPT !.deleting = TRUE] \in Object
    BY <2>1, ObjectUpdates
  <2> QED
    BY <1>1, <1>4, <2>2 DEF UserDelete
<1>5. CASE GraceExpires(r)
  BY <1>5 DEF GraceExpires, ManagedInv, ManagedTypeOK, FreshCopies, SeenFirst
<1> QED
  BY <1>2, <1>3, <1>4, <1>5 DEF UserStep

\* So do the steps of a reconcile that call nothing of the controller.
LEMMA LibraryType ==
  ASSUME ManagedInv, NEW p \in Procs, NEW r \in Res,
         LibraryStep(p, r)
  PROVE  ManagedInv'
<1> USE ManagedUse
<1> DEFINE v == wk[p][r]
<1>1. CASE Start(p, r)
  <2>1. obj[r] \in Object
    BY <1>1 DEF Start
  <2>2. PICK w : w \in Worker /\ w.pc # "addFinalizer" /\ wk' = [wk EXCEPT ![p][r] = w]
    <3>1. \A pc \in {"removeFinalizer", "initialize"} :
            LET w == [pc |-> pc, mg |-> obj[r], fresh |-> TRUE, seen |-> "none"]
            IN  w \in Worker /\ w.pc # "addFinalizer"
      BY <2>1 DEF Worker
    <3> QED
      BY <1>1, <2>1, <3>1, StartedType DEF Start
  <2> QED
    BY <1>1, <2>2, MoveType DEF Start
<1>2. CASE Initialize(p, r)
  <2>1. v \in Worker
    BY <1>2 DEF Initialize, At
  <2>2. [v.mg EXCEPT !.extName = r] \in Object /\ v.mg.ready \in Conditions
    BY <2>1, WorkerUpdates, ObjectUpdates DEF Names
  <2>3. v.fresh => Stored(r, [v.mg EXCEPT !.extName = r]) \in Object
    BY <2>2, StoredType DEF ManagedInv, FreshCopies
  <2> QED
    BY <1>2, <2>1, <2>2, <2>3, StartedType, WriteType DEF Initialize
<1>3. CASE AddFinalizer(p, r)
  <2>1. v \in Worker /\ v.seen \in {"absent", "stale", "current"}
    BY <1>3, WorkerUpdates DEF AddFinalizer, At, ManagedInv, SeenFirst
  <2>2. [v.mg EXCEPT !.finalizer = TRUE] \in Object /\ v.mg.ready \in Conditions
    BY <2>1, WorkerUpdates, ObjectUpdates
  <2>3. v.fresh => Stored(r, [v.mg EXCEPT !.finalizer = TRUE]) \in Object
    BY <2>2, StoredType DEF ManagedInv, FreshCopies
  <2> QED
    BY <1>3, <2>1, <2>2, <2>3, DecidedType, WriteType DEF AddFinalizer
<1>4. CASE SetPending(p, r)
  <2> DEFINE o == Stored(r, [v.mg EXCEPT !.created = "pending"])
             w == [v EXCEPT !.pc = "create", !.mg = o]
  <2>1. v \in Worker
    BY <1>4 DEF SetPending, At
  <2>2. [v.mg EXCEPT !.created = "pending"] \in Object
    BY <2>1, WorkerUpdates, ObjectUpdates
  <2>3. v.fresh => o \in Object
    BY <2>2, StoredType DEF ManagedInv, FreshCopies
  <2>4. v.fresh => w \in Worker /\ w.pc # "addFinalizer"
    <3>1. \A x \in Worker, y \in Object :
            LET z == [x EXCEPT !.pc = "create", !.mg = y] IN z \in Worker /\ z.pc = "create"
      BY DEF Worker
    <3> HIDE DEF o
    <3> QED
      BY <2>1, <2>3, <3>1
  <2>5. Write(p, r, o, w, "creating")
    BY <1>4 DEF SetPending
  <2> HIDE DEF o, w
  <2> QED
    BY <2>1, <2>3, <2>4, <2>5, WriteType DEF Conditions
<1>5. CASE RecordCreate(p, r)
  <2>1. v \in Worker /\ v.mg \in Object
    BY <1>5, WorkerUpdates DEF RecordCreate, At
  <2>2. faults' \in 0..MaxFaults /\ edits' = edits
    BY <1>5, FaultType DEF RecordCreate
  <2>3. CASE obj[r] = Gone \/ (obj' = obj /\ recent' = recent /\ Finish(p, r, "creating", "error"))
    <3>1. obj' = obj /\ recent' \subseteq Res /\ Finish(p, r, "creating", "error")
      BY <1>5, <2>3 DEF RecordCreate
    <3> QED
      BY <2>1, <2>2, <3>1, FinishType DEF Conditions
  <2>4. CASE obj[r] # Gone /\ ~ (obj' = obj /\ recent' = recent /\ Finish(p, r, "creating", "error"))
    <3> DEFINE o == [obj[r] EXCEPT !.created = v.mg.created, !.extName = v.mg.extName]
               m == [o EXCEPT !.ready = "creating",
                       !.synced = IF v.mg.created = "succeeded" THEN "success" ELSE "error"]
               w == [pc |-> "status", fresh |-> TRUE, seen |-> "absent", mg |-> m]
    <3>1. obj[r] \in Object
      BY <2>4
    <3>2. o \in Object
      <4>1. \A x, y \in Object : [x EXCEPT !.created = y.created, !.extName = y.extName] \in Object
        BY DEF Object
      <4> QED
        BY <2>1, <3>1, <4>1
    <3>3. m \in Object
      BY <3>2, ObjectUpdates DEF Conditions
    <3>4. w \in Worker /\ w.pc = "status"
      BY <3>3 DEF Worker
    <3>5. obj' = [obj EXCEPT ![r] = o] /\ wk' = [Outdated(r) EXCEPT ![p][r] = w] /\ recent' \subseteq Res
      BY <1>5, <2>4 DEF RecordCreate
    <3> HIDE DEF o, w
    <3> QED
      BY <2>2, <3>2, <3>4, <3>5, StoreType, GoneAssumption
  <2> QED
    BY <2>3, <2>4
<1>6. CASE WriteStatus(p, r)
  <2>1. v \in Worker /\ v.mg \in Object
    BY <1>6, WorkerUpdates DEF WriteStatus, At
  <2>2. faults' \in 0..MaxFaults /\ edits' = edits /\ recent' = recent
    BY <1>6, FaultType DEF WriteStatus
  <2>3. Idle \in Worker \cup {Idle} /\ Idle.fresh = FALSE /\ Idle.pc # "addFinalizer"
    BY DEF Idle
  <2> DEFINE o == [obj[r] EXCEPT !.ready = v.mg.ready, !.synced = v.mg.synced]
  <2>4. CASE obj' = obj /\ wk' = [wk EXCEPT ![p][r] = Idle]
    BY <2>2, <2>3, <2>4, MoveType
  <2>5. CASE v.fresh /\ obj' = [obj EXCEPT ![r] = o] /\ wk' = [Outdated(r) EXCEPT ![p][r] = Idle]
    <3>1. o \in Object
      BY <2>1, <2>5, ObjectUpdates
    <3> HIDE DEF o
    <3> QED
      BY <2>2, <2>3, <2>5, <3>1, StoreType
  <2>6. v.fresh /\ o = obj[r] => [obj EXCEPT ![r] = o] = obj
    OBVIOUS
  <2> QED
    BY <1>6, <2>4, <2>5, <2>6 DEF WriteStatus
<1>7. CASE RemoveFinalizer(p, r)
  <2>1. v \in Worker
    BY <1>7 DEF RemoveFinalizer, At
  <2>2. faults' \in 0..MaxFaults /\ edits' = edits /\ recent' = recent
    BY <1>7, FaultType DEF RemoveFinalizer
  <2>3. Idle \in Worker \cup {Idle} /\ Idle.fresh = FALSE /\ Idle.pc # "addFinalizer"
    BY DEF Idle
  <2> DEFINE w == [v EXCEPT !.pc = "status", !.fresh = FALSE, !.mg.synced = "error"]
  <2>4. w \in Worker /\ w.fresh = FALSE /\ w.pc = "status"
    <3>1. [v.mg EXCEPT !.synced = "error"] \in Object
      BY <2>1, WorkerUpdates, ObjectUpdates
    <3> QED
      BY <2>1, <3>1 DEF Worker
  <2>5. CASE obj' = [obj EXCEPT ![r] = Gone] /\ wk' = [Outdated(r) EXCEPT ![p][r] = Idle]
    BY <2>2, <2>3, <2>5, StoreType
  <2>6. CASE obj' = [obj EXCEPT ![r] = Gone] /\ wk' = [Outdated(r) EXCEPT ![p][r] = w]
    <3> HIDE DEF w
    <3> QED
      BY <2>2, <2>4, <2>6, StoreType
  <2>7. CASE obj' = obj /\ wk' = [wk EXCEPT ![p][r] = Idle]
    BY <2>2, <2>3, <2>7, MoveType
  <2>8. CASE obj' = obj /\ Fail(p, r)
    BY <2>1, <2>2, <2>8, FailType
  <2> QED
    BY <1>7, <2>5, <2>6, <2>7, <2>8 DEF RemoveFinalizer
<1> QED
  BY <1>1, <1>2, <1>3, <1>4, <1>5, <1>6, <1>7 DEF LibraryStep

LEMMA EnsuredType ==
  ASSUME NEW v \in Worker, NEW o \in Object, NEW seen \in {"absent", "stale", "current"}
  PROVE  LET w == Ensured(v, o, seen)
         IN  w \in Worker /\ (w.fresh => v.fresh) /\ (w.pc = "addFinalizer" => w.seen # "none")
<1>1. \A x \in Worker :
        LET y == [x EXCEPT !.pc = "addFinalizer", !.mg = o, !.seen = seen]
        IN  y \in Worker /\ y.fresh = x.fresh /\ y.seen = seen
  BY DEF Worker
<1>2. \A x \in Worker, f \in BOOLEAN :
        LET y == [x EXCEPT !.fresh = f] IN y \in Worker /\ y.fresh = f /\ y.pc = x.pc
  BY DEF Worker
<1>3. CASE o.finalizer
  <2>1. Decided(o, seen) \in Worker /\ Decided(o, seen).pc # "addFinalizer"
    BY DecidedType
  <2>2. Ensured(v, o, seen) = [Decided(o, seen) EXCEPT !.fresh = v.fresh] /\ v.fresh \in BOOLEAN
    BY <1>3, WorkerUpdates DEF Ensured
  <2> QED
    BY <1>2, <2>1, <2>2
<1>4. CASE ~ o.finalizer
  <2>1. Ensured(v, o, seen) = [v EXCEPT !.pc = "addFinalizer", !.mg = o, !.seen = seen]
    BY <1>4 DEF Ensured
  <2> QED
    BY <1>1, <2>1
<1> QED
  BY <1>3, <1>4

\* Both answers of Observe keep the types.
LEMMA FoundType ==
  ASSUME ManagedInv, NEW p \in Procs, NEW r \in Res, wk[p][r] \in Worker,
         NEW upToDate, Found(p, r, Available(wk[p][r].mg), upToDate),
         obj' = obj, recent' \subseteq Res, edits' = edits, faults' \in 0..MaxFaults
  PROVE  ManagedInv'
<1> DEFINE v == wk[p][r]
           o == Available(v.mg)
<1>1. o \in Object
  BY WorkerUpdates, ObjectUpdates DEF Available, Conditions
<1>2. PICK seen \in {"stale", "current"} :
        wk' = [wk EXCEPT ![p][r] = IF o.deleting THEN [v EXCEPT !.pc = "delete", !.mg = o]
                                   ELSE Ensured(v, o, seen)]
  BY DEF Found
<1> DEFINE w == IF o.deleting THEN [v EXCEPT !.pc = "delete", !.mg = o] ELSE Ensured(v, o, seen)
<1>3. w \in Worker /\ (w.fresh => v.fresh) /\ (w.pc = "addFinalizer" => w.seen # "none")
  <2>1. \A x \in Worker, y \in Object :
          LET z == [x EXCEPT !.pc = "delete", !.mg = y]
          IN  z \in Worker /\ z.fresh = x.fresh /\ z.pc = "delete"
    BY DEF Worker
  <2>2. LET z == Ensured(v, o, seen)
        IN  z \in Worker /\ (z.fresh => v.fresh) /\ (z.pc = "addFinalizer" => z.seen # "none")
    <3> HIDE DEF o
    <3> QED
      BY <1>1, EnsuredType
  <2> HIDE DEF o
  <2> QED
    BY <1>1, <2>1, <2>2
<1>4. wk' = [wk EXCEPT ![p][r] = w]
  BY <1>2
<1> HIDE DEF w
<1> QED
  BY <1>3, <1>4, MoveType DEF ManagedInv, FreshCopies

LEMMA NotFoundType ==
  ASSUME ManagedInv, NEW p \in Procs, NEW r \in Res, wk[p][r] \in Worker,
         NotFound(p, r, wk[p][r].mg),
         obj' = obj, recent' \subseteq Res, edits' = edits, faults' \in 0..MaxFaults
  PROVE  ManagedInv'
<1> DEFINE v == wk[p][r]
<1>1. PICK w : /\ wk' = [wk EXCEPT ![p][r] = w]
               /\ w \in {Idle, [v EXCEPT !.pc = "removeFinalizer"], Ensured(v, v.mg, "absent")}
  BY DEF NotFound
<1>2. w \in Worker \cup {Idle} /\ (w.fresh => v.fresh) /\ (w.pc = "addFinalizer" => w.seen # "none")
  <2>1. Idle.fresh = FALSE /\ Idle.pc # "addFinalizer"
    BY DEF Idle
  <2>2. LET z == [v EXCEPT !.pc = "removeFinalizer"]
        IN  z \in Worker /\ z.fresh = v.fresh /\ z.pc = "removeFinalizer"
    BY DEF Worker
  <2>3. LET z == Ensured(v, v.mg, "absent")
        IN  z \in Worker /\ (z.fresh => v.fresh) /\ (z.pc = "addFinalizer" => z.seen # "none")
    BY WorkerUpdates, EnsuredType
  <2> QED
    BY <1>1, <2>1, <2>2, <2>3
<1> QED
  BY <1>1, <1>2, MoveType DEF ManagedInv, FreshCopies

LEMMA CreatedType ==
  ASSUME ManagedInv, NEW p \in Procs, NEW r \in Res, wk[p][r] \in Worker,
         NEW result \in {"succeeded", "failed"}, Created(p, r, result),
         obj' = obj, recent' \subseteq Res, edits' = edits, faults' \in 0..MaxFaults
  PROVE  ManagedInv'
<1>1. [wk[p][r].mg EXCEPT !.created = result] \in Object
  BY WorkerUpdates, ObjectUpdates
<1> QED
  BY <1>1, GoType DEF Created

\* What the calls into a controller may do to its workers: nothing was found, or one of
\* those that bring no worker to the point of taking a finalizer off.
FindsNone(p, r) == wk[p][r].pc = "observe" /\ NotFound(p, r, wk[p][r].mg)

QuietCall(p, r) ==
  \/ wk[p][r].pc = "connect" /\ Go(p, r, "observe", wk[p][r].mg)
  \/ wk[p][r].pc = "observe" /\ \E u \in BOOLEAN : Found(p, r, Available(wk[p][r].mg), u)
  \/ wk[p][r].pc = "create" /\ \E c \in {"succeeded", "failed"} : Created(p, r, c)
  \/ wk[p][r].pc # "idle" /\ \E c \in Conditions, e \in {"success", "error"} : Finish(p, r, c, e)
  \/ wk' = Killed(p)

Call(p, r) == FindsNone(p, r) \/ QuietCall(p, r)

\* A call into a controller leaves the custom resource alone.
LEMMA CallType ==
  ASSUME ManagedInv, NEW p \in Procs, NEW r \in Res, Call(p, r),
         obj' = obj, recent' = recent, edits' = edits, Fault \/ faults' = faults
  PROVE  ManagedInv'
<1>0. recent' \subseteq Res /\ faults' \in 0..MaxFaults
  BY FaultType DEF ManagedInv, ManagedTypeOK
<1>1. CASE wk' = Killed(p)
  BY <1>0, <1>1, KilledType
<1>2. CASE wk[p][r].pc # "idle"
  <2>1. wk[p][r] \in Worker /\ wk[p][r].mg \in Object
    BY <1>2, ManagedUse, WorkerUpdates
  <2> QED
    BY <1>0, <1>1, <2>1, GoType, NotFoundType, FoundType, CreatedType, FinishType DEF Call, FindsNone, QuietCall
<1> QED
  BY <1>1, <1>2 DEF Call, FindsNone, QuietCall

LEMMA CrashType ==
  ASSUME ManagedInv, NEW p \in Procs, Crash(p)
  PROVE  ManagedInv'
<1>1. faults' \in 0..MaxFaults /\ recent' \subseteq Res
  BY FaultType DEF Crash, ManagedInv, ManagedTypeOK
<1> QED
  BY <1>1, KilledType DEF Crash

\* A step that leaves everything here alone.
LEMMA SameType ==
  ASSUME ManagedInv, UNCHANGED managedVars
  PROVE  ManagedInv'
  BY DEF managedVars, ManagedInv, ManagedTypeOK, FreshCopies, SeenFirst

LEMMA ManagedStart ==
  ASSUME ManagedInit
  PROVE  ManagedInv
<1>1. Idle.fresh = FALSE /\ Idle.pc = "idle"
  BY DEF Idle
<1>2. ManagedTypeOK
  BY ManagedAssumption DEF ManagedInit, ManagedTypeOK
<1> QED
  BY <1>1, <1>2 DEF ManagedInit, ManagedInv, FreshCopies, SeenFirst

-----------------------------------------------------------------------------
(***************************************************************************)
(* The finalizer as a lock.                                                *)
(*                                                                         *)
(* home[s] is what a controller is in charge of on behalf of a resource    *)
(* with specification s: a namespace of rule groups, or a tenant.  What    *)
(* the deployment and its users must leave alone: one process (or leader   *)
(* election), external names, homes, and the Orphan policy.                *)
(***************************************************************************)
SingleProcess == \A p, q \in Procs : p = q

Undisturbed(home) ==
  /\ SingleProcess
  /\ UserNames = {NoName}
  /\ Policies \subseteq {"Delete"}
  /\ \A e \in Edits : home[e[1]] = home[e[2]]

\* Custom resource o named r: it has no external name but its own, the finalizer came
\* after that name, and only the finalizer keeps a deleted one.
ObjectOK(o, r) ==
  /\ o.extName \in {NoName, r}
  /\ o.finalizer => o.extName = r
  /\ o.deleting => o.finalizer

\* Custom resource o holds what copy mg speaks of, and is deleted if mg is.
Holds(home, o, mg) ==
  /\ o # Gone
  /\ o.finalizer
  /\ home[o.spec] = home[mg.spec]
  /\ mg.deleting => o.deleting

\* Worker w for the custom resource r, which is o in etcd.  A copy with the finalizer may
\* be outdated, but the resource still has it, since only this worker lets it go.
CopyOK(home, w, r, o) ==
  /\ ObjectOK(w.mg, r)
  /\ w.pc # "initialize" => w.mg.extName = r
  /\ w.pc \in {"pending", "create", "record", "update", "delete", "removeFinalizer"} => w.mg.finalizer
  /\ w.pc \in {"delete", "removeFinalizer"} => w.mg.deleting
  /\ w.mg.finalizer => Holds(home, o, w.mg)
  /\ w.fresh => /\ o.finalizer = w.mg.finalizer
                /\ o.deleting = w.mg.deleting
                /\ home[o.spec] = home[w.mg.spec]

Working(w) == w.pc \notin {"idle", "status"}

ObjectInv == \A r \in Res : obj[r] # Gone => ObjectOK(obj[r], r)

CopyInv(home) == \A p \in Procs, r \in Res : Working(wk[p][r]) => CopyOK(home, wk[p][r], r, obj[r])

LockInv(home) == ManagedInv /\ ObjectInv /\ CopyInv(home)

\* What a step does to the finalizer of resource r: nothing; the resource is asked to go;
\* it gets the finalizer; or the worker of process p takes it off.
Holder(r) == obj[r] # Gone /\ obj[r].finalizer

HoldsOn(home, r) ==
  /\ Holder(r)' <=> Holder(r)
  /\ Holder(r) => home[obj'[r].spec] = home[obj[r].spec] /\ obj'[r].deleting = obj[r].deleting

Asked(home, r) ==
  /\ Holder(r) /\ Holder(r)' /\ home[obj'[r].spec] = home[obj[r].spec]
  /\ ~ obj[r].deleting /\ obj'[r].deleting

Charged(r) == ~ Holder(r) /\ Holder(r)' /\ ~ obj'[r].deleting

Released(home, p, r) ==
  /\ Holder(r) /\ obj[r].deleting /\ ~ Holder(r)'
  /\ wk[p][r].pc = "removeFinalizer" /\ home[wk[p][r].mg.spec] = home[obj[r].spec]

Elsewhere(r) == \A s \in Res \ {r} : obj'[s] = obj[s]

\* No worker has come to the point of taking a finalizer off.
NoNewRelease ==
  \A q \in Procs, s \in Res :
    wk'[q][s].pc = "removeFinalizer" => wk[q][s].pc = "removeFinalizer" /\ wk'[q][s].mg = wk[q][s].mg

LEMMA LockStart ==
  ASSUME ManagedInit, NEW home
  PROVE  LockInv(home)
<1>1. \A p \in Procs, r \in Res : wk[p][r].pc = "idle"
  BY DEF ManagedInit, Idle
<1>2. ObjectInv
  BY DEF ManagedInit, ObjectInv
<1> QED
  BY <1>1, <1>2, ManagedStart DEF LockInv, CopyInv, Working

\* What a worker knows before a step, given that it is at work.
LEMMA CopyUse ==
  ASSUME NEW home, LockInv(home), NEW p \in Procs, NEW r \in Res, Working(wk[p][r])
  PROVE  /\ wk[p][r] \in Worker /\ wk[p][r].mg \in Object
         /\ CopyOK(home, wk[p][r], r, obj[r])
         /\ wk[p][r].mg.spec \in Specs
         /\ wk[p][r].fresh => obj[r] \in Object /\ obj[r] # Gone /\ ObjectOK(obj[r], r)
<1>1. wk[p][r] \in Worker
  BY ManagedUse DEF LockInv, Working
<1>2. wk[p][r].mg \in Object /\ wk[p][r].mg.spec \in Specs
  BY <1>1 DEF Worker, Object
<1>3. CopyOK(home, wk[p][r], r, obj[r])
  BY DEF LockInv, CopyInv
<1>4. wk[p][r].fresh => obj[r] \in Object /\ obj[r] # Gone /\ ObjectOK(obj[r], r)
  BY DEF LockInv, ObjectInv, ManagedInv, FreshCopies, ManagedTypeOK
<1> QED
  BY <1>1, <1>2, <1>3, <1>4

\* The status that is stored with a copy changes nothing that matters here.
LEMMA StoredFields ==
  ASSUME ManagedInv, NEW r \in Res, obj[r] # Gone, NEW o \in Object
  PROVE  LET t == Stored(r, o)
         IN  /\ t \in Object /\ t.spec = o.spec /\ t.extName = o.extName
             /\ t.finalizer = o.finalizer /\ t.deleting = o.deleting /\ t.created = o.created
<1>1. Stored(r, o) \in Object
  BY StoredType
<1> QED
  BY <1>1 DEF Stored, Object

\* A worker whose copy is the stored custom resource itself.
LEMMA OwnCopy ==
  ASSUME NEW home, NEW r \in Res, NEW o \in Object, NEW w, ObjectOK(o, r), w.mg = o,
         w.pc # "initialize" => o.extName = r,
         w.pc \in {"pending", "create", "record", "update", "delete", "removeFinalizer"} => o.finalizer,
         w.pc \notin {"delete", "removeFinalizer"}
  PROVE  CopyOK(home, w, r, o)
  BY GoneAssumption DEF CopyOK, Holds

\* A worker that keeps what matters about its copy.
LEMMA KeptCopy ==
  ASSUME NEW home, NEW r \in Res, NEW v, NEW w, NEW o, CopyOK(home, v, r, o),
         w.mg.extName = v.mg.extName, w.mg.finalizer = v.mg.finalizer,
         w.mg.deleting = v.mg.deleting, w.mg.spec = v.mg.spec, w.fresh => v.fresh,
         v.mg.extName = r,
         w.pc \in {"pending", "create", "record", "update", "delete", "removeFinalizer"} => v.mg.finalizer,
         w.pc \in {"delete", "removeFinalizer"} => v.mg.deleting
  PROVE  CopyOK(home, w, r, o)
  BY DEF CopyOK, Holds, ObjectOK

\* A step that concerns one custom resource leaves the invariant to be shown for that
\* resource and its one worker.
LEMMA LockLocal ==
  ASSUME NEW home, LockInv(home), ManagedInv', NEW r \in Res, Elsewhere(r),
         \A q \in Procs, s \in Res \ {r} : wk'[q][s] = wk[q][s],
         obj'[r] # Gone => ObjectOK(obj'[r], r),
         \A q \in Procs : Working(wk'[q][r]) => CopyOK(home, wk'[q][r], r, obj'[r])
  PROVE  LockInv(home)'
<1>1. ObjectInv'
  BY DEF LockInv, ObjectInv, Elsewhere
<1>2. CopyInv(home)'
  <2>1. SUFFICES ASSUME NEW q \in Procs, NEW s \in Res, Working(wk'[q][s])
                 PROVE  CopyOK(home, wk'[q][s], s, obj'[s])
    BY DEF CopyInv, Working, CopyOK, ObjectOK, Holds
  <2>2. CASE s # r
    BY <2>1, <2>2 DEF LockInv, CopyInv, Elsewhere
  <2> QED
    BY <2>1, <2>2
<1> QED
  BY <1>1, <1>2 DEF LockInv

\* The only worker moves on; the custom resource stays as it is.
LEMMA LockMove ==
  ASSUME NEW home, LockInv(home), ManagedInv', SingleProcess, NEW p \in Procs, NEW r \in Res,
         NEW w, wk' = [wk EXCEPT ![p][r] = w], obj' = obj,
         Working(w) => CopyOK(home, w, r, obj[r])
  PROVE  /\ LockInv(home)'
         /\ w.pc # "removeFinalizer" => NoNewRelease
<1>1. /\ \A q \in Procs : q = p /\ wk'[q][r] = w
      /\ \A q \in Procs, s \in Res \ {r} : wk'[q][s] = wk[q][s]
  BY ManagedUse DEF LockInv, SingleProcess
<1>2. obj[r] # Gone => ObjectOK(obj[r], r)
  BY DEF LockInv, ObjectInv
<1>3. LockInv(home)'
  BY <1>1, <1>2, LockLocal DEF Elsewhere
<1>4. w.pc # "removeFinalizer" => NoNewRelease
  BY <1>1 DEF NoNewRelease
<1> QED
  BY <1>3, <1>4

\* The only worker moves on and stores the custom resource or lets it go.
LEMMA LockStore ==
  ASSUME NEW home, LockInv(home), ManagedInv', SingleProcess, NEW p \in Procs, NEW r \in Res,
         NEW o \in Object \cup {Gone}, NEW w,
         obj' = [obj EXCEPT ![r] = o], wk' = [Outdated(r) EXCEPT ![p][r] = w],
         o # Gone => ObjectOK(o, r),
         Working(w) => CopyOK(home, w, r, o), w.pc # "removeFinalizer"
  PROVE  LockInv(home)' /\ NoNewRelease /\ Elsewhere(r) /\ obj'[r] = o
<1>1. /\ \A q \in Procs : q = p /\ wk'[q][r] = w
      /\ \A q \in Procs, s \in Res \ {r} : wk'[q][s] = wk[q][s]
  <2>1. \A q \in Procs, s \in Res \ {r} : Outdated(r)[q][s] = wk[q][s]
    BY ManagedUse DEF Outdated, LockInv
  <2>2. Outdated(r) \in [Procs -> [Res -> Worker \cup {Idle}]]
    BY OutdatedType DEF LockInv
  <2> QED
    BY <2>1, <2>2 DEF SingleProcess
<1>2. obj'[r] = o /\ Elsewhere(r)
  BY ManagedUse DEF LockInv, Elsewhere
<1>3. LockInv(home)'
  BY <1>1, <1>2, LockLocal
<1>4. NoNewRelease
  BY <1>1 DEF NoNewRelease
<1> QED
  BY <1>2, <1>3, <1>4

\* A write, successful or not, keeps the invariant if what it would store is sound.
LEMMA LockWrite ==
  ASSUME NEW home, LockInv(home), ManagedInv', SingleProcess, NEW p \in Procs, NEW r \in Res,
         NEW o, NEW w, NEW c, wk[p][r] \in Worker, Write(p, r, o, w, c),
         wk[p][r].fresh =>
           /\ o \in Object /\ ObjectOK(o, r)
           /\ Working(w) => CopyOK(home, w, r, o)
           /\ w.pc # "removeFinalizer"
  PROVE  /\ LockInv(home)' /\ NoNewRelease /\ Elsewhere(r)
         /\ obj' = obj \/ (wk[p][r].fresh /\ obj'[r] = o)
<1> DEFINE failed == [wk[p][r] EXCEPT !.pc = "status", !.mg.ready = c, !.mg.synced = "error"]
<1>1. failed.pc = "status" /\ [failed EXCEPT !.fresh = FALSE].pc = "status"
  BY DEF Worker
<1>2. CASE wk[p][r].fresh /\ obj' = [obj EXCEPT ![r] = o] /\ wk' = [Outdated(r) EXCEPT ![p][r] = w]
  BY <1>2, LockStore
<1>3. CASE wk[p][r].fresh /\ obj' = [obj EXCEPT ![r] = o]
           /\ wk' = [Outdated(r) EXCEPT ![p][r] = [failed EXCEPT !.fresh = FALSE]]
  <2>1. ~ Working([failed EXCEPT !.fresh = FALSE])
    BY <1>1 DEF Working
  <2> HIDE DEF failed
  <2> QED
    BY <1>1, <1>3, <2>1, LockStore
<1>4. CASE obj' = obj /\ wk' = [wk EXCEPT ![p][r] = failed]
  <2>1. ~ Working(failed)
    BY <1>1 DEF Working
  <2> HIDE DEF failed
  <2> QED
    BY <1>1, <1>4, <2>1, LockMove DEF Elsewhere
<1> QED
  BY <1>2, <1>3, <1>4 DEF Write

\* A worker that ends with a status.
LEMMA LockFinish ==
  ASSUME NEW home, LockInv(home), ManagedInv', SingleProcess, NEW p \in Procs, NEW r \in Res,
         NEW c, NEW e, wk[p][r] \in Worker, Finish(p, r, c, e), obj' = obj
  PROVE  LockInv(home)' /\ NoNewRelease
<1> DEFINE m == [wk[p][r].mg EXCEPT !.ready = c, !.synced = e]
           w == [wk[p][r] EXCEPT !.pc = "status", !.mg = m]
<1>1. w.pc = "status"
  BY DEF Worker
<1>2. wk' = [wk EXCEPT ![p][r] = w]
  BY ManagedUse DEF Finish, Go, LockInv
<1>3. ~ Working(w)
  BY <1>1 DEF Working
<1> HIDE DEF w
<1> QED
  BY <1>1, <1>2, <1>3, LockMove

\* Workers that are forgotten.
LEMMA LockKilled ==
  ASSUME NEW home, LockInv(home), ManagedInv', SingleProcess, NEW p \in Procs,
         wk' = Killed(p), obj' = obj
  PROVE  LockInv(home)' /\ NoNewRelease
<1>1. \A q \in Procs, s \in Res : wk'[q][s].pc = "idle"
  BY DEF Killed, SingleProcess, Idle, LockInv, ManagedInv, ManagedTypeOK
<1>2. CopyInv(home)' /\ NoNewRelease
  BY <1>1 DEF CopyInv, NoNewRelease, Working
<1> QED
  BY <1>2 DEF LockInv, ObjectInv

\* A custom resource of which nothing but the status, the name or the annotations changed.
LEMMA HoldsOnSame ==
  ASSUME NEW home, NEW r \in Res,
         obj' = obj \/ /\ obj[r] # Gone /\ obj'[r] # Gone
                       /\ obj'[r].finalizer = obj[r].finalizer
                       /\ obj'[r].deleting = obj[r].deleting
                       /\ home[obj'[r].spec] = home[obj[r].spec]
  PROVE  HoldsOn(home, r)
  BY DEF HoldsOn, Holder

\* Users and time: a resource with a finalizer is at most asked to go.
LEMMA LockUser ==
  ASSUME NEW home, LockInv(home), ManagedInv', Undisturbed(home), NEW r \in Res,
         UserStep(r) \/ GraceExpires(r)
  PROVE  /\ LockInv(home)' /\ NoNewRelease /\ Elsewhere(r)
         /\ HoldsOn(home, r) \/ Asked(home, r)
<1>1. ASSUME NEW o \in Object \cup {Gone}, obj' = [obj EXCEPT ![r] = o], wk' = Outdated(r),
             o # Gone => ObjectOK(o, r),
             Holder(r) => /\ o # Gone /\ o.finalizer /\ home[o.spec] = home[obj[r].spec]
                          /\ obj[r].deleting => o.deleting
      PROVE  LockInv(home)' /\ NoNewRelease /\ Elsewhere(r) /\ obj'[r] = o
  <2>1. obj'[r] = o /\ Elsewhere(r)
    BY <1>1, ManagedUse DEF LockInv, Elsewhere, ManagedInv, ManagedTypeOK
  <2>2. \A q \in Procs, s \in Res \ {r} : wk'[q][s] = wk[q][s]
    BY <1>1, ManagedUse DEF Outdated, LockInv
  <2>3. \A q \in Procs : wk'[q][r] = [wk[q][r] EXCEPT !.fresh = FALSE]
    BY <1>1, ManagedUse DEF Outdated, LockInv
  <2>4. \A x \in Worker : LET y == [x EXCEPT !.fresh = FALSE]
                          IN  y.fresh = FALSE /\ y.pc = x.pc /\ y.mg = x.mg
    BY DEF Worker
  <2>5. [Idle EXCEPT !.fresh = FALSE] = Idle /\ ~ Working(Idle) /\ Idle.pc = "idle"
    <3>1. [Idle EXCEPT !.fresh = FALSE] = Idle
      BY Idle.fresh = FALSE DEF Idle
    <3> QED
      BY <3>1 DEF Working, Idle
  <2>6. \A q \in Procs : wk[q][r] \in Worker \cup {Idle}
    BY ManagedUse DEF LockInv
  <2>7. ASSUME NEW q \in Procs, Working(wk'[q][r])
        PROVE  CopyOK(home, wk'[q][r], r, o)
    <3>1. wk[q][r] \in Worker
      BY <2>3, <2>5, <2>6, <2>7
    <3>2. wk'[q][r].fresh = FALSE /\ wk'[q][r].pc = wk[q][r].pc /\ wk'[q][r].mg = wk[q][r].mg
      BY <2>3, <2>4, <3>1
    <3>3. CopyOK(home, wk[q][r], r, obj[r])
      BY <2>7, <3>2, CopyUse DEF Working
    <3> QED
      BY <1>1, <3>2, <3>3 DEF CopyOK, Holds, Holder
  <2>8. LockInv(home)'
    BY <1>1, <2>1, <2>2, <2>7, LockLocal
  <2>9. NoNewRelease
    <3>1. \A q \in Procs : wk'[q][r].pc = "removeFinalizer" =>
            wk[q][r].pc = "removeFinalizer" /\ wk'[q][r].mg = wk[q][r].mg
      BY <2>3, <2>4, <2>5, <2>6
    <3> QED
      BY <2>2, <3>1 DEF NoNewRelease
  <2> QED
    BY <2>1, <2>8, <2>9
<1>2. CASE UserCreate(r)
  <2>1. PICK s \in Specs, n \in UserNames, d \in Policies :
          obj' = [obj EXCEPT ![r] =
                    [spec |-> s, extName |-> n, policy |-> d, deleting |-> FALSE,
                     finalizer |-> FALSE, created |-> "none", ready |-> "none", synced |-> "none"]]
    BY <1>2 DEF UserCreate
  <2> DEFINE o == [spec |-> s, extName |-> n, policy |-> d, deleting |-> FALSE,
                   finalizer |-> FALSE, created |-> "none", ready |-> "none", synced |-> "none"]
  <2>2. o \in Object /\ o.extName = n /\ o.finalizer = FALSE /\ o.deleting = FALSE
    BY DEF Object, Names
  <2>3. ObjectOK(o, r) /\ o # Gone
    BY <2>2, GoneAssumption DEF ObjectOK, Undisturbed
  <2>4. ~ Holder(r) /\ wk' = Outdated(r)
    BY <1>2 DEF UserCreate, Holder
  <2>5. obj' = [obj EXCEPT ![r] = o]
    BY <2>1
  <2> HIDE DEF o
  <2>6. LockInv(home)' /\ NoNewRelease /\ Elsewhere(r) /\ obj'[r] = o
    BY <1>1, <2>2, <2>3, <2>4, <2>5
  <2> QED
    BY <2>2, <2>4, <2>6 DEF HoldsOn, Holder
<1>3. CASE UserEdit(r)
  <2>1. obj[r] \in Object /\ obj[r] # Gone /\ ObjectOK(obj[r], r) /\ wk' = Outdated(r)
    BY <1>3 DEF UserEdit, LockInv, ObjectInv, ManagedInv, ManagedTypeOK
  <2>2. PICK s \in Specs, n \in {obj[r].extName} \cup (UserNames \ {NoName}), d \in Policies :
          /\ s # obj[r].spec => <<obj[r].spec, s>> \in Edits
          /\ obj' = [obj EXCEPT ![r].spec = s, ![r].extName = n, ![r].policy = d]
    BY <1>3 DEF UserEdit
  <2> DEFINE o == [obj[r] EXCEPT !.spec = s, !.extName = n, !.policy = d]
  <2>3. /\ o \in Object /\ o.extName = obj[r].extName /\ o.finalizer = obj[r].finalizer
        /\ o.deleting = obj[r].deleting /\ o.spec = s
    BY <2>1 DEF Object, Names, Undisturbed
  <2>4. home[s] = home[obj[r].spec]
    <3>1. \A e \in Edits : home[e[1]] = home[e[2]]
      BY DEF Undisturbed
    <3>2. CASE s # obj[r].spec
      <4>1. home[<<obj[r].spec, s>>[1]] = home[<<obj[r].spec, s>>[2]]
        BY <2>2, <3>1, <3>2
      <4> QED
        BY <4>1
    <3> QED
      BY <3>2
  <2>5. obj' = [obj EXCEPT ![r] = o]
    BY <2>2 DEF LockInv, ManagedInv, ManagedTypeOK
  <2> HIDE DEF o
  <2>6. ObjectOK(o, r) /\ o # Gone
    BY <2>1, <2>3, GoneAssumption DEF ObjectOK
  <2>7. LockInv(home)' /\ NoNewRelease /\ Elsewhere(r) /\ obj'[r] = o
    BY <1>1, <2>1, <2>3, <2>4, <2>5, <2>6 DEF Holder
  <2> QED
    BY <2>1, <2>3, <2>4, <2>6, <2>7, HoldsOnSame
<1>4. CASE UserDelete(r)
  <2>1. obj[r] \in Object /\ obj[r] # Gone /\ ~ obj[r].deleting /\ ObjectOK(obj[r], r)
        /\ wk' = Outdated(r)
    BY <1>4 DEF UserDelete, LockInv, ObjectInv, ManagedInv, ManagedTypeOK
  <2>2. CASE obj[r].finalizer
    <3> DEFINE o == [obj[r] EXCEPT !.deleting = TRUE]
    <3>1. /\ o \in Object /\ o.extName = obj[r].extName /\ o.finalizer = obj[r].finalizer
          /\ o.deleting = TRUE /\ o.spec = obj[r].spec
      BY <2>1 DEF Object
    <3>2. obj' = [obj EXCEPT ![r] = o]
      BY <1>4, <2>2 DEF UserDelete
    <3> HIDE DEF o
    <3>3. ObjectOK(o, r) /\ o # Gone
      BY <2>1, <2>2, <3>1, GoneAssumption DEF ObjectOK
    <3>4. LockInv(home)' /\ NoNewRelease /\ Elsewhere(r) /\ obj'[r] = o
      BY <1>1, <2>1, <2>2, <3>1, <3>2, <3>3
    <3> QED
      BY <2>1, <2>2, <3>1, <3>3, <3>4 DEF Asked, Holder
  <2>3. CASE ~ obj[r].finalizer
    <3>1. obj' = [obj EXCEPT ![r] = Gone] /\ ~ Holder(r)
      BY <1>4, <2>3 DEF UserDelete, Holder
    <3>2. LockInv(home)' /\ NoNewRelease /\ Elsewhere(r) /\ obj'[r] = Gone
      BY <1>1, <2>1, <3>1
    <3> QED
      BY <3>1, <3>2 DEF HoldsOn, Holder
  <2> QED
    BY <2>2, <2>3
<1>5. CASE GraceExpires(r)
  <2>1. obj' = obj /\ wk' = wk
    BY <1>5 DEF GraceExpires
  <2> QED
    BY <2>1, HoldsOnSame DEF LockInv, ObjectInv, CopyInv, NoNewRelease, Elsewhere
<1> QED
  BY <1>2, <1>3, <1>4, <1>5 DEF UserStep

\* The steps of a reconcile that write what the worker's copy says with one field changed.
LEMMA LockInitialize ==
  ASSUME NEW home, LockInv(home), ManagedInv', SingleProcess, NEW p \in Procs, NEW r \in Res,
         Initialize(p, r)
  PROVE  LockInv(home)' /\ NoNewRelease /\ Elsewhere(r) /\ HoldsOn(home, r)
<1> DEFINE v == wk[p][r]
           m == [v.mg EXCEPT !.extName = r]
           o == Stored(r, m)
<1>1. /\ v \in Worker /\ v.mg \in Object /\ CopyOK(home, v, r, obj[r])
      /\ v.fresh => obj[r] \in Object /\ obj[r] # Gone
  <2>1. Working(v)
    BY DEF Initialize, At, Working
  <2> QED
    BY <2>1, CopyUse
<1>2. /\ m \in Object /\ m.extName = r /\ m.finalizer = v.mg.finalizer
      /\ m.deleting = v.mg.deleting /\ m.spec = v.mg.spec
  BY <1>1 DEF Object, Names
<1>3. ASSUME v.fresh
      PROVE  /\ o \in Object /\ o # Gone /\ ObjectOK(o, r) /\ o.extName = r
             /\ o.finalizer = obj[r].finalizer /\ o.deleting = obj[r].deleting
             /\ home[o.spec] = home[obj[r].spec]
  <2>1. /\ o \in Object /\ o.extName = r /\ o.finalizer = v.mg.finalizer
        /\ o.deleting = v.mg.deleting /\ o.spec = v.mg.spec
    <3> HIDE DEF m
    <3> QED
      BY <1>1, <1>2, <1>3, StoredFields DEF LockInv
  <2> QED
    BY <1>1, <1>3, <2>1, GoneAssumption DEF CopyOK, ObjectOK
<1>4. Started(o).pc \in {"connect", "status"} /\ (Working(Started(o)) => Started(o).mg = o)
  BY DEF Started, Working
<1>5. Write(p, r, o, Started(o), v.mg.ready)
  BY DEF Initialize
<1> HIDE DEF o
<1>6. v.fresh /\ Working(Started(o)) => CopyOK(home, Started(o), r, o)
  BY <1>3, <1>4, OwnCopy
<1>7. /\ LockInv(home)' /\ NoNewRelease /\ Elsewhere(r)
      /\ obj' = obj \/ (v.fresh /\ obj'[r] = o)
  BY <1>1, <1>3, <1>4, <1>5, <1>6, LockWrite
<1> QED
  BY <1>1, <1>3, <1>7, HoldsOnSame

LEMMA LockAddFinalizer ==
  ASSUME NEW home, LockInv(home), ManagedInv', SingleProcess, NEW p \in Procs, NEW r \in Res,
         AddFinalizer(p, r)
  PROVE  /\ LockInv(home)' /\ NoNewRelease /\ Elsewhere(r)
         /\ HoldsOn(home, r) \/ Charged(r)
<1> DEFINE v == wk[p][r]
           m == [v.mg EXCEPT !.finalizer = TRUE]
           o == Stored(r, m)
           w == Decided(o, v.seen)
<1>1. /\ v \in Worker /\ v.mg \in Object /\ CopyOK(home, v, r, obj[r]) /\ v.mg.extName = r
      /\ v.fresh => obj[r] \in Object /\ obj[r] # Gone
      /\ v.seen \in {"absent", "stale", "current"}
  <2>1. Working(v) /\ v.pc = "addFinalizer"
    BY DEF AddFinalizer, At, Working
  <2>2. v \in Worker /\ v.mg \in Object /\ CopyOK(home, v, r, obj[r])
        /\ (v.fresh => obj[r] \in Object /\ obj[r] # Gone)
    BY <2>1, CopyUse
  <2> QED
    BY <2>1, <2>2, WorkerUpdates DEF CopyOK, LockInv, ManagedInv, SeenFirst
<1>2. /\ m \in Object /\ m.extName = r /\ m.finalizer = TRUE
      /\ m.deleting = v.mg.deleting /\ m.spec = v.mg.spec
  BY <1>1 DEF Object
<1>3. ASSUME v.fresh
      PROVE  /\ o \in Object /\ o # Gone /\ ObjectOK(o, r) /\ o.extName = r
             /\ o.finalizer = TRUE /\ o.deleting = obj[r].deleting
             /\ home[o.spec] = home[obj[r].spec]
             /\ obj[r].deleting => obj[r].finalizer
  <2>1. /\ o \in Object /\ o.extName = r /\ o.finalizer = TRUE
        /\ o.deleting = v.mg.deleting /\ o.spec = v.mg.spec
    <3> HIDE DEF m
    <3> QED
      BY <1>1, <1>2, <1>3, StoredFields DEF LockInv
  <2> QED
    BY <1>1, <1>3, <2>1, GoneAssumption DEF CopyOK, ObjectOK
<1>4. w.pc \in {"pending", "update", "status"} /\ (Working(w) => w.mg = o)
  BY <1>1 DEF Decided, Working
<1>5. Write(p, r, o, w, v.mg.ready)
  BY DEF AddFinalizer
<1> HIDE DEF o, w
<1>6. v.fresh /\ Working(w) => CopyOK(home, w, r, o)
  BY <1>3, <1>4, OwnCopy
<1>7. /\ LockInv(home)' /\ NoNewRelease /\ Elsewhere(r)
      /\ obj' = obj \/ (v.fresh /\ obj'[r] = o)
  <2>1. v.fresh => /\ o \in Object /\ ObjectOK(o, r)
                   /\ Working(w) => CopyOK(home, w, r, o)
                   /\ w.pc # "removeFinalizer"
    BY <1>3, <1>4, <1>6
  <2>2. v \in Worker
    BY <1>1
  <2> QED
    BY <1>5, <2>1, <2>2, LockWrite
<1>8. CASE obj' = obj
  BY <1>7, <1>8, HoldsOnSame
<1>9. CASE v.fresh /\ obj'[r] = o
  BY <1>1, <1>3, <1>7, <1>9 DEF Charged, HoldsOn, Holder, Object
<1> QED
  BY <1>7, <1>8, <1>9

LEMMA LockSetPending ==
  ASSUME NEW home, LockInv(home), ManagedInv', SingleProcess, NEW p \in Procs, NEW r \in Res,
         SetPending(p, r)
  PROVE  LockInv(home)' /\ NoNewRelease /\ Elsewhere(r) /\ HoldsOn(home, r)
<1> DEFINE v == wk[p][r]
           m == [v.mg EXCEPT !.created = "pending"]
           o == Stored(r, m)
           w == [v EXCEPT !.pc = "create", !.mg = o]
<1>1. /\ v \in Worker /\ v.mg \in Object /\ CopyOK(home, v, r, obj[r])
      /\ v.mg.extName = r /\ v.mg.finalizer
      /\ v.fresh => obj[r] \in Object /\ obj[r] # Gone
  <2>1. Working(v) /\ v.pc = "pending"
    BY DEF SetPending, At, Working
  <2> QED
    BY <2>1, CopyUse DEF CopyOK
<1>2. /\ m \in Object /\ m.extName = r /\ m.finalizer = v.mg.finalizer
      /\ m.deleting = v.mg.deleting /\ m.spec = v.mg.spec
  BY <1>1 DEF Object
<1>3. ASSUME v.fresh
      PROVE  /\ o \in Object /\ o # Gone /\ ObjectOK(o, r) /\ o.extName = r /\ o.finalizer
             /\ o.finalizer = obj[r].finalizer /\ o.deleting = obj[r].deleting
             /\ home[o.spec] = home[obj[r].spec]
  <2>1. /\ o \in Object /\ o.extName = r /\ o.finalizer = v.mg.finalizer
        /\ o.deleting = v.mg.deleting /\ o.spec = v.mg.spec
    <3> HIDE DEF m
    <3> QED
      BY <1>1, <1>2, <1>3, StoredFields DEF LockInv
  <2> QED
    BY <1>1, <1>3, <2>1, GoneAssumption DEF CopyOK, ObjectOK
<1>4. w.pc = "create" /\ w.mg = o
  BY <1>1 DEF Worker
<1>5. Write(p, r, o, w, "creating")
  BY DEF SetPending
<1> HIDE DEF o, w
<1>6. v.fresh => CopyOK(home, w, r, o)
  BY <1>3, <1>4, OwnCopy
<1>7. /\ LockInv(home)' /\ NoNewRelease /\ Elsewhere(r)
      /\ obj' = obj \/ (v.fresh /\ obj'[r] = o)
  BY <1>1, <1>3, <1>4, <1>5, <1>6, LockWrite
<1> QED
  BY <1>1, <1>3, <1>7, HoldsOnSame

\* The steps that bring a reconcile up and end it.
LEMMA LockStarted ==
  ASSUME NEW home, LockInv(home), ManagedInv', Undisturbed(home), NEW p \in Procs, NEW r \in Res,
         Start(p, r)
  PROVE  LockInv(home)' /\ NoNewRelease /\ obj' = obj
<1>1. obj[r] \in Object /\ obj[r] # Gone /\ ObjectOK(obj[r], r)
  BY DEF Start, LockInv, ObjectInv, ManagedInv, ManagedTypeOK
<1>2. obj[r].policy # "Orphan"
  BY <1>1 DEF Object, Undisturbed
<1>3. PICK w : /\ wk' = [wk EXCEPT ![p][r] = w]
               /\ w = IF obj[r].extName = NoName
                      THEN [pc |-> "initialize", mg |-> obj[r], fresh |-> TRUE, seen |-> "none"]
                      ELSE Started(obj[r])
  BY <1>2 DEF Start
<1>4. w.pc \in {"initialize", "connect", "status"}
  BY <1>3 DEF Started
<1>5. Working(w) => CopyOK(home, w, r, obj[r])
  <2>1. Working(w) => w.mg = obj[r] /\ (w.pc # "initialize" => obj[r].extName = r)
    BY <1>1, <1>3 DEF Started, Working, ObjectOK
  <2> QED
    BY <1>1, <1>4, <2>1, OwnCopy
<1>6. obj' = obj
  BY DEF Start
<1> QED
  BY <1>3, <1>4, <1>5, <1>6, LockMove DEF Undisturbed

LEMMA LockRecordCreate ==
  ASSUME NEW home, LockInv(home), ManagedInv', SingleProcess, NEW p \in Procs, NEW r \in Res,
         RecordCreate(p, r)
  PROVE  LockInv(home)' /\ NoNewRelease /\ Elsewhere(r) /\ HoldsOn(home, r)
<1> DEFINE v == wk[p][r]
<1>1. /\ v \in Worker /\ v.mg \in Object /\ v.mg.extName = r
      /\ obj[r] \in Object /\ obj[r] # Gone /\ ObjectOK(obj[r], r)
  <2>1. Working(v) /\ v.pc = "record"
    BY DEF RecordCreate, At, Working
  <2> QED
    BY <2>1, CopyUse DEF CopyOK, Holds, LockInv, ObjectInv, ManagedInv, ManagedTypeOK
<1>2. CASE Finish(p, r, "creating", "error") /\ obj' = obj
  BY <1>1, <1>2, LockFinish, HoldsOnSame DEF Elsewhere
<1>3. CASE ~ (Finish(p, r, "creating", "error") /\ obj' = obj)
  <2> DEFINE o == [obj[r] EXCEPT !.created = v.mg.created, !.extName = v.mg.extName]
             w == [pc |-> "status", fresh |-> TRUE, seen |-> "absent",
                   mg |-> [o EXCEPT !.ready = "creating",
                             !.synced = IF v.mg.created = "succeeded" THEN "success" ELSE "error"]]
  <2>1. obj' = [obj EXCEPT ![r] = o] /\ wk' = [Outdated(r) EXCEPT ![p][r] = w]
    BY <1>3 DEF RecordCreate
  <2>2. /\ o \in Object /\ o.extName = r /\ o.finalizer = obj[r].finalizer
        /\ o.deleting = obj[r].deleting /\ o.spec = obj[r].spec
    BY <1>1 DEF Object
  <2>3. w.pc # "removeFinalizer" /\ ~ Working(w)
    BY DEF Working
  <2>4. ObjectOK(o, r) /\ o # Gone
    BY <1>1, <2>2, GoneAssumption DEF ObjectOK
  <2> HIDE DEF o, w
  <2>5. LockInv(home)' /\ NoNewRelease /\ Elsewhere(r) /\ obj'[r] = o
    <3>1. /\ o \in Object \cup {Gone} /\ (o # Gone => ObjectOK(o, r))
          /\ Working(w) => CopyOK(home, w, r, o)
      BY <2>2, <2>3, <2>4
    <3> QED
      BY <2>1, <2>3, <3>1, LockStore
  <2> QED
    BY <1>1, <2>2, <2>4, <2>5, HoldsOnSame
<1> QED
  BY <1>2, <1>3

LEMMA LockWriteStatus ==
  ASSUME NEW home, LockInv(home), ManagedInv', SingleProcess, NEW p \in Procs, NEW r \in Res,
         WriteStatus(p, r)
  PROVE  LockInv(home)' /\ NoNewRelease /\ Elsewhere(r) /\ HoldsOn(home, r)
<1> DEFINE v == wk[p][r]
           o == [obj[r] EXCEPT !.ready = v.mg.ready, !.synced = v.mg.synced]
<1>1. v \in Worker /\ v.mg \in Object
  BY ManagedUse, WorkerUpdates DEF WriteStatus, At, LockInv
<1>2. ~ Working(Idle) /\ Idle.pc # "removeFinalizer"
  BY DEF Working, Idle
<1>3. CASE obj' = obj /\ wk' = [wk EXCEPT ![p][r] = Idle]
  BY <1>2, <1>3, LockMove, HoldsOnSame DEF Elsewhere
<1>4. CASE v.fresh /\ obj' = [obj EXCEPT ![r] = o] /\ wk' = [Outdated(r) EXCEPT ![p][r] = Idle]
  <2>1. obj[r] \in Object /\ obj[r] # Gone /\ ObjectOK(obj[r], r)
    BY <1>4 DEF LockInv, ObjectInv, ManagedInv, FreshCopies, ManagedTypeOK
  <2>2. /\ o \in Object /\ o.extName = obj[r].extName /\ o.finalizer = obj[r].finalizer
        /\ o.deleting = obj[r].deleting /\ o.spec = obj[r].spec
    BY <1>1, <2>1 DEF Object
  <2>3. ObjectOK(o, r) /\ o # Gone
    BY <2>1, <2>2, GoneAssumption DEF ObjectOK
  <2> HIDE DEF o
  <2>4. LockInv(home)' /\ NoNewRelease /\ Elsewhere(r) /\ obj'[r] = o
    <3>1. /\ o \in Object \cup {Gone} /\ (o # Gone => ObjectOK(o, r))
          /\ Working(Idle) => CopyOK(home, Idle, r, o)
      BY <1>2, <2>2, <2>3
    <3> QED
      BY <1>2, <1>4, <3>1, LockStore
  <2> QED
    BY <2>1, <2>2, <2>3, <2>4, HoldsOnSame
<1>5. v.fresh /\ o = obj[r] => [obj EXCEPT ![r] = o] = obj
  BY DEF LockInv, ManagedInv, ManagedTypeOK
<1> QED
  BY <1>3, <1>4, <1>5 DEF WriteStatus

\* The one step that takes a finalizer off.
LEMMA LockRemoveFinalizer ==
  ASSUME NEW home, LockInv(home), ManagedInv', SingleProcess, NEW p \in Procs, NEW r \in Res,
         RemoveFinalizer(p, r)
  PROVE  /\ LockInv(home)' /\ NoNewRelease /\ Elsewhere(r)
         /\ HoldsOn(home, r) \/ Released(home, p, r)
<1> DEFINE v == wk[p][r]
<1>1. /\ v \in Worker /\ v.mg \in Object /\ v.pc = "removeFinalizer"
      /\ v.mg.finalizer /\ v.mg.deleting /\ Holds(home, obj[r], v.mg)
  <2>1. Working(v) /\ v.pc = "removeFinalizer"
    BY DEF RemoveFinalizer, At, Working
  <2> QED
    BY <2>1, CopyUse DEF CopyOK
<1>2. ~ Working(Idle) /\ Idle.pc # "removeFinalizer"
  BY DEF Working, Idle
<1>3. CASE obj' = obj /\ wk' = [wk EXCEPT ![p][r] = Idle]
  BY <1>2, <1>3, LockMove, HoldsOnSame DEF Elsewhere
<1>4. CASE obj' = obj /\ Fail(p, r)
  BY <1>1, <1>4, LockFinish, HoldsOnSame DEF Fail, Elsewhere
<1>5. ASSUME NEW w, obj' = [obj EXCEPT ![r] = Gone],
             wk' = [Outdated(r) EXCEPT ![p][r] = w], ~ Working(w), w.pc # "removeFinalizer"
      PROVE  LockInv(home)' /\ NoNewRelease /\ Elsewhere(r) /\ Released(home, p, r)
  <2>1. LockInv(home)' /\ NoNewRelease /\ Elsewhere(r) /\ obj'[r] = Gone
    BY <1>5, LockStore
  <2> QED
    BY <1>1, <2>1 DEF Released, Holder, Holds
<1>6. CASE obj' = [obj EXCEPT ![r] = Gone] /\ wk' = [Outdated(r) EXCEPT ![p][r] = Idle]
  BY <1>2, <1>5, <1>6
<1>7. CASE obj' = [obj EXCEPT ![r] = Gone]
           /\ wk' = [Outdated(r) EXCEPT ![p][r] =
                       [v EXCEPT !.pc = "status", !.fresh = FALSE, !.mg.synced = "error"]]
  <2> DEFINE w == [v EXCEPT !.pc = "status", !.fresh = FALSE, !.mg.synced = "error"]
  <2>1. ~ Working(w) /\ w.pc # "removeFinalizer"
    BY <1>1 DEF Working, Worker
  <2>2. wk' = [Outdated(r) EXCEPT ![p][r] = w]
    BY <1>7
  <2> HIDE DEF w
  <2> QED
    BY <1>5, <1>7, <2>1, <2>2
<1> QED
  BY <1>3, <1>4, <1>6, <1>7 DEF RemoveFinalizer

\* The steps of a reconcile that call nothing of the controller: the finalizer of the
\* resource goes on, comes off, or stays as it is.
LEMMA LockLibrary ==
  ASSUME NEW home, LockInv(home), ManagedInv', Undisturbed(home), NEW p \in Procs, NEW r \in Res,
         LibraryStep(p, r)
  PROVE  /\ LockInv(home)' /\ NoNewRelease /\ Elsewhere(r)
         /\ HoldsOn(home, r) \/ Charged(r) \/ Released(home, p, r)
<1>1. SingleProcess
  BY DEF Undisturbed
<1>2. CASE Start(p, r)
  BY <1>2, LockStarted, HoldsOnSame DEF Elsewhere
<1> QED
  BY <1>1, <1>2, LockInitialize, LockAddFinalizer, LockSetPending, LockRecordCreate,
     LockWriteStatus, LockRemoveFinalizer DEF LibraryStep

\* A worker that goes on after Observe does not let its resource go.
LEMMA EnsuredGoes ==
  ASSUME NEW v \in Worker, NEW o, NEW seen \in {"absent", "stale", "current"}
  PROVE  Ensured(v, o, seen).pc # "removeFinalizer"
<1>1. CASE o.finalizer
  <2>1. Decided(o, seen) \in [pc : {"pending", "update", "status"}, mg : {Decided(o, seen).mg},
                              fresh : {TRUE}, seen : {seen}]
    BY DEF Decided
  <2> QED
    BY <1>1, <2>1 DEF Ensured
<1> QED
  BY <1>1 DEF Ensured, Worker

\* A worker that gets another step, and a copy that agrees with its own.
LEMMA LockGo ==
  ASSUME NEW home, LockInv(home), ManagedInv', SingleProcess, NEW p \in Procs, NEW r \in Res,
         wk[p][r].pc \notin {"idle", "status", "initialize"},
         NEW pc \in {"observe", "record", "delete"}, NEW o, Go(p, r, pc, o), obj' = obj,
         o.extName = wk[p][r].mg.extName, o.finalizer = wk[p][r].mg.finalizer,
         o.deleting = wk[p][r].mg.deleting, o.spec = wk[p][r].mg.spec,
         pc \in {"record", "delete"} => o.finalizer, pc = "delete" => o.deleting
  PROVE  LockInv(home)' /\ NoNewRelease
<1> DEFINE v == wk[p][r]
           w == [v EXCEPT !.pc = pc, !.mg = o]
<1>1. Working(v)
  BY DEF Working
<1>2. v \in Worker /\ CopyOK(home, v, r, obj[r])
  BY <1>1, CopyUse
<1>3. w.pc = pc /\ w.mg = o /\ w.fresh = v.fresh
  BY <1>2 DEF Worker
<1>4. wk' = [wk EXCEPT ![p][r] = w]
  BY ManagedUse DEF Go, LockInv
<1>5. v.mg.extName = r
  BY <1>2 DEF CopyOK
<1> HIDE DEF w
<1>6. CopyOK(home, w, r, obj[r])
  BY <1>2, <1>3, <1>5, KeptCopy
<1> QED
  BY <1>3, <1>4, <1>6, LockMove

\* How a worker whose resource is not deleted goes on after Observe.
LEMMA EnsuredCopy ==
  ASSUME NEW home, NEW r \in Res, NEW v \in Worker, NEW o \in Object, NEW x,
         CopyOK(home, v, r, x), v.mg.extName = r, NEW seen \in {"absent", "stale", "current"},
         o.extName = v.mg.extName, o.finalizer = v.mg.finalizer,
         o.deleting = v.mg.deleting, o.spec = v.mg.spec
  PROVE  LET w == Ensured(v, o, seen)
         IN  w.pc # "removeFinalizer" /\ (Working(w) => CopyOK(home, w, r, x))
<1> DEFINE w == Ensured(v, o, seen)
<1>1. CASE o.finalizer
  <2>1. w = [Decided(o, seen) EXCEPT !.fresh = v.fresh]
    BY <1>1 DEF Ensured
  <2>2. /\ w.fresh = v.fresh /\ w.pc \in {"pending", "update", "status"}
        /\ w.pc # "status" => w.mg = o
    BY <2>1 DEF Decided
  <2> HIDE DEF w
  <2>3. Working(w) => CopyOK(home, w, r, x)
    BY <1>1, <2>2, KeptCopy DEF Working
  <2> QED
    BY <2>2, <2>3 DEF w
<1>2. CASE ~ o.finalizer
  <2>1. w = [v EXCEPT !.pc = "addFinalizer", !.mg = o, !.seen = seen]
    BY <1>2 DEF Ensured
  <2>2. w.fresh = v.fresh /\ w.pc = "addFinalizer" /\ w.mg = o
    BY <2>1 DEF Worker
  <2> HIDE DEF w
  <2>3. CopyOK(home, w, r, x)
    BY <2>2, KeptCopy
  <2> QED
    BY <2>2, <2>3 DEF w
<1> QED
  BY <1>1, <1>2

\* What a worker knows when it observes.
LEMMA ObserveUse ==
  ASSUME NEW home, LockInv(home), NEW p \in Procs, NEW r \in Res, wk[p][r].pc = "observe"
  PROVE  /\ wk[p][r] \in Worker /\ wk[p][r].mg \in Object /\ CopyOK(home, wk[p][r], r, obj[r])
         /\ wk[p][r].mg.extName = r /\ wk[p][r].mg.spec \in Specs
         /\ wk[p][r].mg.deleting => wk[p][r].mg.finalizer
         /\ wk[p][r].mg.finalizer => Holds(home, obj[r], wk[p][r].mg)
<1>1. Working(wk[p][r])
  BY DEF Working
<1> QED
  BY <1>1, CopyUse DEF CopyOK, ObjectOK

LEMMA LockFound ==
  ASSUME NEW home, LockInv(home), ManagedInv', SingleProcess, NEW p \in Procs, NEW r \in Res,
         wk[p][r].pc = "observe", NEW upToDate, Found(p, r, Available(wk[p][r].mg), upToDate),
         obj' = obj
  PROVE  LockInv(home)' /\ NoNewRelease
<1> DEFINE v == wk[p][r]
           o == Available(v.mg)
<1>1. /\ v \in Worker /\ v.mg \in Object /\ CopyOK(home, v, r, obj[r]) /\ v.mg.extName = r
      /\ v.mg.deleting => v.mg.finalizer
  BY ObserveUse
<1>2. /\ o \in Object /\ o.extName = v.mg.extName /\ o.finalizer = v.mg.finalizer
      /\ o.deleting = v.mg.deleting /\ o.spec = v.mg.spec
  BY <1>1 DEF Available, Object
<1>3. PICK seen \in {"stale", "current"} :
        wk' = [wk EXCEPT ![p][r] = IF o.deleting THEN [v EXCEPT !.pc = "delete", !.mg = o]
                                   ELSE Ensured(v, o, seen)]
  BY DEF Found
<1> HIDE DEF o
<1>4. CASE o.deleting
  <2> DEFINE w == [v EXCEPT !.pc = "delete", !.mg = o]
  <2>1. w.pc = "delete" /\ w.mg = o /\ w.fresh = v.fresh
    BY <1>1 DEF Worker
  <2>2. wk' = [wk EXCEPT ![p][r] = w]
    BY <1>3, <1>4
  <2> HIDE DEF w
  <2>3. CopyOK(home, w, r, obj[r])
    BY <1>1, <1>2, <1>4, <2>1, KeptCopy
  <2> QED
    BY <2>1, <2>2, <2>3, LockMove
<1>5. CASE ~ o.deleting
  <2>1. wk' = [wk EXCEPT ![p][r] = Ensured(v, o, seen)]
    BY <1>3, <1>5
  <2>2. /\ Ensured(v, o, seen).pc # "removeFinalizer"
        /\ Working(Ensured(v, o, seen)) => CopyOK(home, Ensured(v, o, seen), r, obj[r])
    BY <1>1, <1>2, EnsuredCopy
  <2> QED
    BY <2>1, <2>2, LockMove
<1> QED
  BY <1>4, <1>5

\* Only the worker that has just found nothing may come to the point of taking the
\* finalizer off.
LEMMA LockNotFound ==
  ASSUME NEW home, LockInv(home), ManagedInv', SingleProcess, NEW p \in Procs, NEW r \in Res,
         wk[p][r].pc = "observe", NotFound(p, r, wk[p][r].mg), obj' = obj
  PROVE  /\ LockInv(home)'
         /\ \A q \in Procs, s \in Res :
              wk'[q][s].pc = "removeFinalizer" =>
                /\ wk'[q][s].mg = wk[q][s].mg
                /\ wk[q][s].pc = "removeFinalizer" \/ (q = p /\ s = r)
<1> DEFINE v == wk[p][r]
<1>1. /\ v \in Worker /\ v.mg \in Object /\ CopyOK(home, v, r, obj[r]) /\ v.mg.extName = r
      /\ v.mg.deleting => v.mg.finalizer
  BY ObserveUse
<1>2. CASE wk' = [wk EXCEPT ![p][r] = Idle]
  <2>1. ~ Working(Idle) /\ Idle.pc # "removeFinalizer"
    BY DEF Working, Idle
  <2>2. LockInv(home)' /\ NoNewRelease
    BY <1>2, <2>1, LockMove
  <2> QED
    BY <2>2 DEF NoNewRelease
<1>3. CASE v.mg.deleting /\ wk' = [wk EXCEPT ![p][r] = [v EXCEPT !.pc = "removeFinalizer"]]
  <2> DEFINE w == [v EXCEPT !.pc = "removeFinalizer"]
  <2>1. w.pc = "removeFinalizer" /\ w.mg = v.mg /\ w.fresh = v.fresh
    BY <1>1 DEF Worker
  <2>2. wk' = [wk EXCEPT ![p][r] = w]
    BY <1>3
  <2> HIDE DEF w
  <2>3. CopyOK(home, w, r, obj[r])
    BY <1>1, <1>3, <2>1, KeptCopy
  <2>4. \A q \in Procs, s \in Res : wk'[q][s] = IF q = p /\ s = r THEN w ELSE wk[q][s]
    BY <2>2, ManagedUse DEF LockInv
  <2> QED
    BY <2>1, <2>2, <2>3, <2>4, LockMove
<1>4. CASE wk' = [wk EXCEPT ![p][r] = Ensured(v, v.mg, "absent")]
  <2>1. /\ Ensured(v, v.mg, "absent").pc # "removeFinalizer"
        /\ Working(Ensured(v, v.mg, "absent")) => CopyOK(home, Ensured(v, v.mg, "absent"), r, obj[r])
    BY <1>1, EnsuredCopy
  <2>2. LockInv(home)' /\ NoNewRelease
    BY <1>4, <2>1, LockMove
  <2> QED
    BY <2>2 DEF NoNewRelease
<1> QED
  BY <1>2, <1>3, <1>4 DEF NotFound

\* The other calls into a controller bring no worker there.
LEMMA LockCall ==
  ASSUME NEW home, LockInv(home), ManagedInv', SingleProcess, NEW p \in Procs, NEW r \in Res,
         QuietCall(p, r), obj' = obj
  PROVE  LockInv(home)' /\ NoNewRelease
<1> DEFINE v == wk[p][r]
<1>0. v.pc # "idle" => v \in Worker
  BY ManagedUse DEF LockInv
<1>1. CASE v.pc = "connect" /\ Go(p, r, "observe", v.mg)
  BY <1>1, LockGo
<1>2. CASE v.pc = "observe" /\ \E u \in BOOLEAN : Found(p, r, Available(v.mg), u)
  BY <1>2, LockFound
<1>3. CASE v.pc = "create" /\ \E c \in {"succeeded", "failed"} : Created(p, r, c)
  <2>1. PICK c \in {"succeeded", "failed"} : Created(p, r, c)
    BY <1>3
  <2> DEFINE o == [v.mg EXCEPT !.created = c]
  <2>2. Working(v)
    BY <1>3 DEF Working
  <2>3. v.mg \in Object /\ v.mg.finalizer
    BY <1>3, <2>2, CopyUse DEF CopyOK
  <2>4. /\ o.extName = v.mg.extName /\ o.finalizer = v.mg.finalizer
        /\ o.deleting = v.mg.deleting /\ o.spec = v.mg.spec
    BY <2>3 DEF Object
  <2>5. Go(p, r, "record", o)
    BY <2>1 DEF Created
  <2> HIDE DEF o
  <2> QED
    BY <1>3, <2>3, <2>4, <2>5, LockGo
<1>4. CASE v.pc # "idle" /\ \E c \in Conditions, e \in {"success", "error"} : Finish(p, r, c, e)
  BY <1>0, <1>4, LockFinish
<1>5. CASE wk' = Killed(p)
  BY <1>5, LockKilled
<1> QED
  BY <1>1, <1>2, <1>3, <1>4, <1>5 DEF QuietCall

-----------------------------------------------------------------------------
(***************************************************************************)
(* Copies, names and announcements.                                        *)
(*                                                                         *)
(* What holds of a worker whatever the number of processes.  Optimistic    *)
(* locking makes a fresh copy the stored resource but for its status;      *)
(* external names stay the resource's own if users leave them alone; and   *)
(* an announced creation keeps every other process out, unless a policy    *)
(* lets the resource go past the announcement.                             *)
(***************************************************************************)
NamesLeft == UserNames = {NoName}
NoOrphans == Policies \subseteq {"Delete"}

\* The copy of worker w is the stored resource o, but for the status and, between a
\* creation and its record, for how that ended.
Agrees(w, o) ==
  /\ o # Gone
  /\ w.mg.spec = o.spec /\ w.mg.extName = o.extName /\ w.mg.policy = o.policy
  /\ w.mg.deleting = o.deleting /\ w.mg.finalizer = o.finalizer
  /\ w.pc \notin {"record", "status"} => w.mg.created = o.created

NameOK(w, r) ==
  /\ w.mg.extName \in {NoName, r}
  /\ w.pc \notin {"initialize", "removeFinalizer", "status"} => w.mg.extName = r

Announced(o) == o # Gone /\ o.finalizer /\ o.created = "pending"

\* The steps between the announcement of a creation and its record, and those that a
\* resource with an announcement on it does not come to.
Trying  == {"create", "record"}
Cleared == {"connect", "observe", "addFinalizer", "pending", "update", "delete", "removeFinalizer"}

\* Worker w of resource r, which is o in etcd.
Steady(w, o, r) ==
  /\ w.fresh => Agrees(w, o)
  /\ w.pc # "idle" /\ NamesLeft => NameOK(w, r)
  /\ w.pc = "pending" => w.mg.finalizer
  /\ NoOrphans => /\ w.pc \in Trying => Announced(o)
                  /\ w.pc \in Cleared => w.mg.created # "pending"

OwnName(o, r) == o # Gone /\ NamesLeft => o.extName \in {NoName, r}

Alone(r) == \A p, q \in Procs : wk[p][r].pc \in Trying /\ wk[q][r].pc \in Trying => p = q

LifeInv ==
  /\ ManagedInv
  /\ \A r \in Res : OwnName(obj[r], r)
  /\ \A p \in Procs, r \in Res : Steady(wk[p][r], obj[r], r)
  /\ NoOrphans => \A r \in Res : Alone(r)

LEMMA LifeStart ==
  ASSUME ManagedInit
  PROVE  LifeInv
<1>1. \A p \in Procs, r \in Res : wk[p][r].pc = "idle" /\ wk[p][r].fresh = FALSE
  BY DEF ManagedInit, Idle
<1>2. \A p \in Procs, r \in Res : Steady(wk[p][r], obj[r], r)
  BY <1>1 DEF Steady, Trying, Cleared
<1>3. \A r \in Res : OwnName(obj[r], r) /\ Alone(r)
  BY <1>1 DEF ManagedInit, OwnName, Alone, Trying
<1> QED
  BY <1>2, <1>3, ManagedStart DEF LifeInv

\* What is known of a worker and its resource before a step.
LEMMA LifeUse ==
  ASSUME LifeInv, NEW p \in Procs, NEW r \in Res
  PROVE  /\ ManagedInv /\ Steady(wk[p][r], obj[r], r) /\ OwnName(obj[r], r)
         /\ NoOrphans => Alone(r)
         /\ obj[r] \in Object \cup {Gone} /\ wk[p][r] \in Worker \cup {Idle}
         /\ wk[p][r].pc # "idle" => wk[p][r] \in Worker /\ wk[p][r].mg \in Object
         /\ wk[p][r].fresh => obj[r] # Gone /\ obj[r] \in Object
<1>1. wk[p][r].pc # "idle" => wk[p][r] \in Worker /\ wk[p][r].mg \in Object
  BY ManagedUse, WorkerUpdates DEF LifeInv
<1>2. wk[p][r].fresh => obj[r] # Gone /\ obj[r] \in Object
  BY ManagedUse DEF LifeInv, ManagedInv, FreshCopies
<1>3. obj[r] \in Object \cup {Gone} /\ wk[p][r] \in Worker \cup {Idle}
  BY ManagedUse DEF LifeInv
<1> QED
  BY <1>1, <1>2, <1>3 DEF LifeInv

\* Worker p moves on to w; the resource stays as it is.
LEMMA LifeMove ==
  ASSUME LifeInv, ManagedInv', NEW p \in Procs, NEW r \in Res, NEW w,
         wk' = [wk EXCEPT ![p][r] = w], obj' = obj, Steady(w, obj[r], r),
         w.pc \in Trying => wk[p][r].pc \in Trying
  PROVE  LifeInv'
<1>1. \A q \in Procs, s \in Res : wk'[q][s] = IF q = p /\ s = r THEN w ELSE wk[q][s]
  BY ManagedUse DEF LifeInv
<1>2. \A q \in Procs, s \in Res : Steady(wk'[q][s], obj'[s], s)
  BY <1>1 DEF LifeInv
<1>3. NoOrphans => \A s \in Res : Alone(s)'
  <2>1. SUFFICES ASSUME NoOrphans, NEW s \in Res, NEW q \in Procs, NEW t \in Procs,
                        wk'[q][s].pc \in Trying, wk'[t][s].pc \in Trying
                 PROVE  q = t
    BY DEF Alone, NoOrphans
  <2>2. wk[q][s].pc \in Trying /\ wk[t][s].pc \in Trying
    BY <1>1, <2>1
  <2> QED
    BY <2>1, <2>2 DEF LifeInv, Alone
<1>4. \A s \in Res : OwnName(obj'[s], s)
  BY DEF LifeInv
<1> QED
  BY <1>2, <1>3, <1>4 DEF LifeInv, OwnName, NamesLeft, Steady, NoOrphans, Agrees, NameOK, Announced

\* The others of resource r, whose copies are outdated.
LEMMA OutdatedFields ==
  ASSUME ManagedInv, NEW r \in Res, NEW q \in Procs, NEW s \in Res
  PROVE  /\ Outdated(r)[q][s].pc = wk[q][s].pc /\ Outdated(r)[q][s].mg = wk[q][s].mg
         /\ s = r => Outdated(r)[q][s].fresh = FALSE
         /\ s # r => Outdated(r)[q][s] = wk[q][s]
<1>1. wk[q][s] \in Worker \cup {Idle}
  BY ManagedUse
<1>2. /\ [wk[q][s] EXCEPT !.fresh = FALSE].pc = wk[q][s].pc
      /\ [wk[q][s] EXCEPT !.fresh = FALSE].mg = wk[q][s].mg
      /\ [wk[q][s] EXCEPT !.fresh = FALSE].fresh = FALSE
  BY <1>1 DEF Worker, Idle
<1> QED
  BY <1>2, ManagedUse DEF Outdated

\* Worker v goes on to w while its resource goes from o to x: an announcement on it stays,
\* or the one worker that made it takes it off.
KeepsWord(v, w, o, x) ==
  /\ Announced(o) /\ v.pc # "record" => Announced(x)
  /\ w.pc \in Trying => v.pc \in Trying \/ ~ Announced(o)

\* Worker p moves on to w and stores the resource as x, or lets it go.
LEMMA LifeStore ==
  ASSUME LifeInv, ManagedInv', NEW p \in Procs, NEW r \in Res, NEW x, NEW w,
         obj' = [obj EXCEPT ![r] = x], wk' = [Outdated(r) EXCEPT ![p][r] = w],
         OwnName(x, r), Steady(w, x, r), NoOrphans => KeepsWord(wk[p][r], w, obj[r], x)
  PROVE  LifeInv'
<1>0. /\ ManagedInv
      /\ \A q \in Procs, s \in Res :
           /\ Outdated(r)[q][s].pc = wk[q][s].pc /\ Outdated(r)[q][s].mg = wk[q][s].mg
           /\ s = r => Outdated(r)[q][s].fresh = FALSE
           /\ s # r => Outdated(r)[q][s] = wk[q][s]
  BY OutdatedFields DEF LifeInv
<1>1. \A q \in Procs, s \in Res : wk'[q][s] = IF q = p /\ s = r THEN w ELSE Outdated(r)[q][s]
  BY OutdatedType DEF LifeInv
<1>2. obj'[r] = x /\ \A s \in Res \ {r} : obj'[s] = obj[s]
  BY ManagedUse DEF LifeInv
<1>3. \A q \in Procs, s \in Res : Steady(wk'[q][s], obj'[s], s)
  <2>1. SUFFICES ASSUME NEW q \in Procs, NEW s \in Res
                 PROVE  Steady(wk'[q][s], obj'[s], s)
    OBVIOUS
  <2>2. CASE q = p /\ s = r
    BY <1>1, <1>2, <2>2
  <2>3. CASE s # r
    BY <1>0, <1>1, <1>2, <2>3, LifeUse
  <2>4. CASE s = r /\ q # p
    <3>1. /\ wk'[q][r].pc = wk[q][r].pc /\ wk'[q][r].mg = wk[q][r].mg /\ wk'[q][r].fresh = FALSE
      BY <1>1, <2>4, <1>0
    <3>2. Steady(wk[q][r], obj[r], r)
      BY LifeUse
    <3>3. ASSUME NoOrphans, wk[q][r].pc \in Trying
          PROVE  Announced(x)
      <4>1. wk[p][r].pc \notin Trying
        BY <2>4, <3>3, LifeUse DEF Alone
      <4> QED
        BY <3>2, <3>3, <4>1 DEF Steady, KeepsWord, Trying
    <3> QED
      BY <1>2, <2>4, <3>1, <3>2, <3>3 DEF Steady, NameOK
  <2> QED
    BY <2>2, <2>3, <2>4
<1>4. NoOrphans => \A s \in Res : Alone(s)'
  <2>1. SUFFICES ASSUME NoOrphans, NEW s \in Res, NEW q \in Procs, NEW t \in Procs,
                        wk'[q][s].pc \in Trying, wk'[t][s].pc \in Trying, q # t
                 PROVE  FALSE
    BY DEF Alone, NoOrphans
  <2>2. ASSUME NEW z \in Procs, wk'[z][s].pc \in Trying, ~ (z = p /\ s = r)
        PROVE  wk[z][s].pc \in Trying
    BY <1>1, <2>2, <1>0
  <2>3. CASE wk[q][s].pc \in Trying /\ wk[t][s].pc \in Trying
    BY <2>1, <2>3, LifeUse DEF Alone
  <2>4. ASSUME NEW z \in Procs, z # p, wk'[z][r].pc \in Trying, w.pc \in Trying,
               wk[p][r].pc \notin Trying
        PROVE  FALSE
    <3>1. wk[z][r].pc \in Trying
      BY <1>1, <2>4, <1>0
    <3>2. Announced(obj[r])
      BY <2>1, <3>1, LifeUse DEF Steady
    <3> QED
      BY <2>1, <2>4, <3>2 DEF KeepsWord
  <2> QED
    BY <1>1, <2>1, <2>2, <2>3, <2>4
<1>5. \A s \in Res : OwnName(obj'[s], s)
  BY <1>2 DEF LifeInv
<1> QED
  BY <1>3, <1>4, <1>5 DEF LifeInv, OwnName, NamesLeft, Steady, NoOrphans, Agrees, NameOK, Announced

\* A worker that ends with a status leaves nothing to be shown but its copy.
LEMMA EndSteady ==
  ASSUME LifeInv, NEW p \in Procs, NEW r \in Res, wk[p][r] \in Worker, NEW x, NEW w,
         w.pc = "status", w.fresh => wk[p][r].fresh /\ x = obj[r],
         w.mg.spec = wk[p][r].mg.spec, w.mg.extName = wk[p][r].mg.extName,
         w.mg.policy = wk[p][r].mg.policy, w.mg.deleting = wk[p][r].mg.deleting,
         w.mg.finalizer = wk[p][r].mg.finalizer
  PROVE  Steady(w, x, r) /\ w.pc \notin Trying
<1>1. wk[p][r].pc # "idle" /\ Steady(wk[p][r], obj[r], r)
  BY LifeUse, WorkerUpdates
<1> QED
  BY <1>1 DEF Steady, Agrees, NameOK, Trying, Cleared

\* What the API server makes of a copy.
LEMMA StoredWhole ==
  ASSUME ManagedInv, NEW r \in Res, obj[r] # Gone, NEW o \in Object
  PROVE  LET t == Stored(r, o)
         IN  /\ t \in Object /\ t # Gone /\ t.spec = o.spec /\ t.extName = o.extName
             /\ t.policy = o.policy /\ t.deleting = o.deleting /\ t.finalizer = o.finalizer
             /\ t.created = o.created
<1>1. Stored(r, o) \in Object
  BY StoredType
<1> QED
  BY <1>1, GoneAssumption DEF Stored, Object

\* client.Update: the worker goes on with what it stored, or ends.
LEMMA LifeWrite ==
  ASSUME LifeInv, ManagedInv', NEW p \in Procs, NEW r \in Res, NEW o, NEW w, NEW c \in Conditions,
         wk[p][r] \in Worker, wk[p][r].pc # "record", Write(p, r, o, w, c),
         wk[p][r].fresh => /\ OwnName(o, r) /\ Steady(w, o, r)
                           /\ NoOrphans => KeepsWord(wk[p][r], w, obj[r], o)
  PROVE  LifeInv'
<1> DEFINE v == wk[p][r]
           failed == [v EXCEPT !.pc = "status", !.mg.ready = c, !.mg.synced = "error"]
           lost   == [failed EXCEPT !.fresh = FALSE]
<1>1. /\ failed.pc = "status" /\ failed.fresh = v.fresh
      /\ failed.mg = [v.mg EXCEPT !.ready = c, !.synced = "error"]
      /\ lost.pc = "status" /\ lost.fresh = FALSE /\ lost.mg = failed.mg
  BY DEF Worker
<1>2. /\ failed.mg.spec = v.mg.spec /\ failed.mg.extName = v.mg.extName
      /\ failed.mg.policy = v.mg.policy /\ failed.mg.deleting = v.mg.deleting
      /\ failed.mg.finalizer = v.mg.finalizer
  <2>1. v.mg \in Object
    BY WorkerUpdates
  <2> HIDE DEF failed, v
  <2> QED
    BY <1>1, <2>1 DEF Object
<1> HIDE DEF failed, lost
<1>3. CASE v.fresh /\ obj' = [obj EXCEPT ![r] = o] /\ wk' = [Outdated(r) EXCEPT ![p][r] = w]
  BY <1>3, LifeStore
<1>4. CASE v.fresh /\ obj' = [obj EXCEPT ![r] = o] /\ wk' = [Outdated(r) EXCEPT ![p][r] = lost]
  <2>0. /\ lost.mg.spec = v.mg.spec /\ lost.mg.extName = v.mg.extName
        /\ lost.mg.policy = v.mg.policy /\ lost.mg.deleting = v.mg.deleting
        /\ lost.mg.finalizer = v.mg.finalizer
    BY <1>1, <1>2
  <2>1. Steady(lost, o, r) /\ lost.pc \notin Trying
    BY <1>1, <2>0, EndSteady
  <2>2. NoOrphans => KeepsWord(v, lost, obj[r], o)
    BY <1>4, <2>1 DEF KeepsWord
  <2> QED
    BY <1>4, <2>1, <2>2, LifeStore
<1>5. CASE obj' = obj /\ wk' = [wk EXCEPT ![p][r] = failed]
  <2>1. Steady(failed, obj[r], r) /\ failed.pc \notin Trying
    BY <1>1, <1>2, EndSteady
  <2> QED
    BY <1>5, <2>1, LifeMove
<1> QED
  BY <1>3, <1>4, <1>5 DEF Write, failed, lost

\* A worker that ends with a status.
LEMMA LifeFinish ==
  ASSUME LifeInv, ManagedInv', NEW p \in Procs, NEW r \in Res, NEW c \in Conditions,
         NEW e \in {"none", "success", "error"}, wk[p][r] \in Worker, Finish(p, r, c, e), obj' = obj
  PROVE  LifeInv'
<1> DEFINE m == [wk[p][r].mg EXCEPT !.ready = c, !.synced = e]
           w == [wk[p][r] EXCEPT !.pc = "status", !.mg = m]
<1>1. w.pc = "status" /\ w.mg = m /\ w.fresh = wk[p][r].fresh
  BY DEF Worker
<1>2. wk' = [wk EXCEPT ![p][r] = w]
  BY LifeUse, ManagedUse DEF Finish, Go
<1>3. /\ m.spec = wk[p][r].mg.spec /\ m.extName = wk[p][r].mg.extName
      /\ m.policy = wk[p][r].mg.policy /\ m.deleting = wk[p][r].mg.deleting
      /\ m.finalizer = wk[p][r].mg.finalizer
  BY WorkerUpdates DEF Object
<1> HIDE DEF m, w
<1>4. Steady(w, obj[r], r) /\ w.pc \notin Trying
  BY <1>1, <1>3, EndSteady
<1> QED
  BY <1>2, <1>4, LifeMove

\* A worker that has nothing more to do.
LEMMA IdleSteady ==
  ASSUME NEW x, NEW r
  PROVE  Steady(Idle, x, r) /\ Idle.pc \notin Trying
<1>1. Idle.pc = "idle" /\ Idle.fresh = FALSE
  BY DEF Idle
<1> QED
  BY <1>1 DEF Steady, Trying, Cleared

\* What Initialize leads to.
LEMMA StartedSteady ==
  ASSUME NEW o \in Object, NEW r \in Res, o.extName # NoName, OwnName(o, r)
  PROVE  Steady(Started(o), o, r) /\ Started(o).pc \notin Trying
<1>1. o # Gone
  BY GoneAssumption
<1>2. CASE o.created = "pending"
  <2> DEFINE m == [o EXCEPT !.ready = "creating", !.synced = "error"]
  <2>1. /\ m.spec = o.spec /\ m.extName = o.extName /\ m.policy = o.policy
        /\ m.deleting = o.deleting /\ m.finalizer = o.finalizer
    BY DEF Object
  <2>2. Started(o).pc = "status" /\ Started(o).mg = m
    BY <1>2 DEF Started
  <2> HIDE DEF m
  <2> QED
    BY <1>1, <2>1, <2>2 DEF Steady, Agrees, NameOK, OwnName, Trying, Cleared
<1>3. CASE o.created # "pending"
  <2>1. Started(o).pc = "connect" /\ Started(o).mg = o
    BY <1>3 DEF Started
  <2> QED
    BY <1>1, <1>3, <2>1 DEF Steady, Agrees, NameOK, OwnName, Trying, Cleared
<1> QED
  BY <1>2, <1>3

\* What follows once Observe has returned and the finalizer is on.
LEMMA DecidedSteady ==
  ASSUME NEW o \in Object, NEW r \in Res, NEW seen \in {"absent", "stale", "current"},
         o.finalizer, NamesLeft => o.extName = r, NoOrphans => o.created # "pending"
  PROVE  Steady(Decided(o, seen), o, r) /\ Decided(o, seen).pc \notin Trying
<1> DEFINE w == Decided(o, seen)
<1>1. /\ w.pc \in {"pending", "update", "status"}
      /\ w.mg.spec = o.spec /\ w.mg.extName = o.extName /\ w.mg.policy = o.policy
      /\ w.mg.deleting = o.deleting /\ w.mg.finalizer = o.finalizer /\ w.mg.created = o.created
  <2>1. w.pc \in {"pending", "update", "status"}
    BY DEF Decided
  <2>2. w.mg = o \/ w.mg = [o EXCEPT !.synced = "success"]
    BY DEF Decided
  <2> HIDE DEF w
  <2> QED
    BY <2>1, <2>2 DEF Object
<1> HIDE DEF w
<1>2. Steady(w, o, r) /\ w.pc \notin Trying
  BY <1>1, GoneAssumption DEF Steady, Agrees, NameOK, Trying, Cleared
<1> QED
  BY <1>2 DEF w

\* The steps of a reconcile that call nothing of the controller.
LEMMA LifeLibrary ==
  ASSUME LifeInv, ManagedInv', NEW p \in Procs, NEW r \in Res, LibraryStep(p, r)
  PROVE  LifeInv'
<1> DEFINE v == wk[p][r]
<1>0. /\ ManagedInv /\ Steady(v, obj[r], r) /\ OwnName(obj[r], r)
      /\ v.pc # "idle" => v \in Worker /\ v.mg \in Object /\ v.mg.ready \in Conditions
      /\ v.fresh => obj[r] # Gone /\ obj[r] \in Object /\ Agrees(v, obj[r])
  <2>1. v.mg \in Object => v.mg.ready \in Conditions
    BY DEF Object, Conditions
  <2> QED
    BY <2>1, LifeUse DEF Steady
<1>1. CASE Start(p, r)
  <2>1. obj[r] \in Object /\ obj[r] # Gone
    BY <1>1, LifeUse DEF Start
  <2> DEFINE at(pc) == [pc |-> pc, mg |-> obj[r], fresh |-> TRUE, seen |-> "none"]
  <2>2. CASE obj[r].deleting /\ obj[r].policy = "Orphan"
    <3>1. ~ NoOrphans
      BY <2>1, <2>2 DEF NoOrphans, Object
    <3>2. Steady(at("removeFinalizer"), obj[r], r) /\ at("removeFinalizer").pc \notin Trying
      BY <1>0, <2>1, <3>1 DEF Steady, Agrees, NameOK, OwnName, Trying
    <3> HIDE DEF at
    <3>3. wk' = [wk EXCEPT ![p][r] = at("removeFinalizer")] /\ obj' = obj
      BY <1>1, <2>2 DEF Start, at
    <3> QED
      BY <3>2, <3>3, LifeMove
  <2>3. CASE obj[r].extName = NoName /\ ~ (obj[r].deleting /\ obj[r].policy = "Orphan")
    <3>1. Steady(at("initialize"), obj[r], r) /\ at("initialize").pc \notin Trying
      BY <1>0, <2>1 DEF Steady, Agrees, NameOK, OwnName, Trying, Cleared
    <3> HIDE DEF at
    <3>2. wk' = [wk EXCEPT ![p][r] = at("initialize")] /\ obj' = obj
      BY <1>1, <2>3 DEF Start, at
    <3> QED
      BY <3>1, <3>2, LifeMove
  <2>4. CASE obj[r].extName # NoName /\ ~ (obj[r].deleting /\ obj[r].policy = "Orphan")
    <3>1. wk' = [wk EXCEPT ![p][r] = Started(obj[r])] /\ obj' = obj
      BY <1>1, <2>4 DEF Start
    <3> QED
      BY <1>0, <2>1, <2>4, <3>1, StartedSteady, LifeMove
  <2> QED
    BY <2>2, <2>3, <2>4
<1>2. CASE Initialize(p, r)
  <2> DEFINE m == [v.mg EXCEPT !.extName = r]
             o == Stored(r, m)
  <2>1. v.pc = "initialize" /\ v \in Worker /\ v.mg \in Object
    BY <1>0, <1>2 DEF Initialize, At
  <2>2. /\ m \in Object /\ m.spec = v.mg.spec /\ m.extName = r /\ m.policy = v.mg.policy
        /\ m.deleting = v.mg.deleting /\ m.finalizer = v.mg.finalizer /\ m.created = v.mg.created
    BY <2>1 DEF Object, Names
  <2> HIDE DEF m
  <2>3. ASSUME v.fresh
        PROVE  /\ OwnName(o, r) /\ Steady(Started(o), o, r)
               /\ KeepsWord(v, Started(o), obj[r], o)
    <3>1. /\ o \in Object /\ o # Gone /\ o.extName = r
          /\ o.finalizer = obj[r].finalizer /\ o.created = obj[r].created
      BY <1>0, <2>1, <2>2, <2>3, StoredWhole DEF Agrees
    <3>2. OwnName(o, r) /\ o.extName # NoName
      BY <3>1, ManagedAssumption DEF OwnName
    <3> HIDE DEF o
    <3> QED
      BY <3>1, <3>2, StartedSteady DEF KeepsWord, Announced
  <2>4. Write(p, r, o, Started(o), v.mg.ready)
    BY <1>2 DEF Initialize, m
  <2> HIDE DEF o
  <2> QED
    BY <1>0, <2>1, <2>3, <2>4, LifeWrite
<1>3. CASE AddFinalizer(p, r)
  <2> DEFINE m == [v.mg EXCEPT !.finalizer = TRUE]
             o == Stored(r, m)
  <2>1. /\ v.pc = "addFinalizer" /\ v \in Worker /\ v.mg \in Object
        /\ v.seen \in {"absent", "stale", "current"}
    BY <1>0, <1>3, WorkerUpdates DEF AddFinalizer, At, ManagedInv, SeenFirst
  <2>2. /\ m \in Object /\ m.extName = v.mg.extName /\ m.finalizer /\ m.created = v.mg.created
    BY <2>1 DEF Object
  <2> HIDE DEF m
  <2>3. ASSUME v.fresh
        PROVE  /\ OwnName(o, r) /\ Steady(Decided(o, v.seen), o, r)
               /\ KeepsWord(v, Decided(o, v.seen), obj[r], o)
    <3>1. /\ o \in Object /\ o # Gone /\ o.extName = v.mg.extName
          /\ o.finalizer /\ o.created = v.mg.created /\ v.mg.created = obj[r].created
      BY <1>0, <2>1, <2>2, <2>3, StoredWhole DEF Agrees
    <3>2. (NamesLeft => v.mg.extName = r) /\ (NoOrphans => v.mg.created # "pending")
      BY <1>0, <2>1 DEF Steady, NameOK, Cleared
    <3> HIDE DEF o
    <3> QED
      BY <2>1, <3>1, <3>2, DecidedSteady DEF KeepsWord, Announced, OwnName
  <2>4. Write(p, r, o, Decided(o, v.seen), v.mg.ready)
    BY <1>3 DEF AddFinalizer, m
  <2> HIDE DEF o
  <2> QED
    BY <1>0, <2>1, <2>3, <2>4, LifeWrite
<1>4. CASE SetPending(p, r)
  <2> DEFINE m == [v.mg EXCEPT !.created = "pending"]
             o == Stored(r, m)
             w == [v EXCEPT !.pc = "create", !.mg = o]
  <2>1. v.pc = "pending" /\ v \in Worker /\ v.mg \in Object
    BY <1>0, <1>4 DEF SetPending, At
  <2>2. /\ m \in Object /\ m.extName = v.mg.extName /\ m.finalizer = v.mg.finalizer
        /\ m.created = "pending"
    BY <2>1 DEF Object
  <2> HIDE DEF m
  <2>3. w.pc = "create" /\ w.mg = o
    BY <2>1 DEF Worker
  <2>4. ASSUME v.fresh
        PROVE  OwnName(o, r) /\ Steady(w, o, r) /\ (NoOrphans => KeepsWord(v, w, obj[r], o))
    <3>1. o # Gone /\ o.extName = v.mg.extName /\ o.finalizer /\ o.created = "pending"
      BY <1>0, <2>1, <2>2, <2>4, StoredWhole DEF Steady
    <3>2. NamesLeft => v.mg.extName = r
      BY <1>0, <2>1 DEF Steady, NameOK
    <3>3. NoOrphans => ~ Announced(obj[r])
      BY <1>0, <2>1, <2>4 DEF Steady, Agrees, Cleared, Announced
    <3> HIDE DEF o, w
    <3> QED
      BY <2>3, <3>1, <3>2, <3>3
      DEF KeepsWord, Announced, OwnName, Steady, Agrees, NameOK, Trying, Cleared
  <2>5. Write(p, r, o, w, "creating") /\ "creating" \in Conditions
    BY <1>4 DEF SetPending, m, Conditions
  <2> HIDE DEF o, w
  <2> QED
    BY <1>0, <2>1, <2>4, <2>5, LifeWrite
<1>5. CASE RecordCreate(p, r)
  <2>1. v.pc = "record" /\ v \in Worker /\ v.mg \in Object
    BY <1>0, <1>5 DEF RecordCreate, At
  <2> DEFINE o == [obj[r] EXCEPT !.created = v.mg.created, !.extName = v.mg.extName]
             m == [o EXCEPT !.ready = "creating",
                     !.synced = IF v.mg.created = "succeeded" THEN "success" ELSE "error"]
             w == [pc |-> "status", fresh |-> TRUE, seen |-> "absent", mg |-> m]
  <2>2. CASE obj[r] # Gone /\ obj' = [obj EXCEPT ![r] = o] /\ wk' = [Outdated(r) EXCEPT ![p][r] = w]
    <3>1. obj[r] \in Object
      BY <2>2, LifeUse
    <3>2. o \in Object /\ o # Gone /\ o.extName = v.mg.extName
      <4>1. \A a, b \in Object :
              LET t == [a EXCEPT !.created = b.created, !.extName = b.extName]
              IN  t \in Object /\ t.extName = b.extName
        BY DEF Object
      <4> QED
        BY <2>1, <3>1, <4>1, GoneAssumption
    <3>3. /\ m.spec = o.spec /\ m.extName = o.extName /\ m.policy = o.policy
          /\ m.deleting = o.deleting /\ m.finalizer = o.finalizer
      <4> HIDE DEF o
      <4> QED
        BY <3>2 DEF Object
    <3>4. NamesLeft => v.mg.extName = r
      BY <1>0, <2>1 DEF Steady, NameOK
    <3>5. w.pc = "status" /\ w.mg = m
      OBVIOUS
    <3> HIDE DEF o, m, w
    <3>6. OwnName(o, r) /\ Steady(w, o, r) /\ KeepsWord(v, w, obj[r], o)
      BY <2>1, <3>2, <3>3, <3>4, <3>5
      DEF OwnName, Steady, Agrees, NameOK, KeepsWord, Trying, Cleared
    <3> QED
      BY <2>2, <3>6, LifeStore
  <2>3. CASE obj' = obj /\ Finish(p, r, "creating", "error")
    BY <2>1, <2>3, LifeFinish DEF Conditions
  <2> QED
    BY <1>5, <2>2, <2>3 DEF RecordCreate
<1>6. CASE WriteStatus(p, r)
  <2>1. v.pc = "status" /\ v \in Worker /\ v.mg \in Object
    BY <1>0, <1>6 DEF WriteStatus, At
  <2> DEFINE o == [obj[r] EXCEPT !.ready = v.mg.ready, !.synced = v.mg.synced]
  <2>2. CASE obj' = obj /\ wk' = [wk EXCEPT ![p][r] = Idle]
    BY <2>2, IdleSteady, LifeMove
  <2>3. CASE v.fresh /\ obj' = [obj EXCEPT ![r] = o] /\ wk' = [Outdated(r) EXCEPT ![p][r] = Idle]
    <3>1. v.mg.ready \in Conditions /\ v.mg.synced \in {"none", "success", "error"}
      BY <2>1 DEF Object, Conditions
    <3>2. /\ o \in Object /\ o.extName = obj[r].extName
          /\ o.finalizer = obj[r].finalizer /\ o.created = obj[r].created
      BY <1>0, <2>3, <3>1 DEF Object, Conditions
    <3> HIDE DEF o
    <3>3. OwnName(o, r) /\ KeepsWord(v, Idle, obj[r], o)
      BY <1>0, <2>3, <3>2, GoneAssumption, IdleSteady DEF OwnName, KeepsWord, Announced
    <3> QED
      BY <2>3, <3>3, IdleSteady, LifeStore
  <2>4. ASSUME v.fresh, o = obj[r], obj' = [obj EXCEPT ![r] = o]
        PROVE  obj' = obj
    BY <1>0, <2>4 DEF ManagedInv, ManagedTypeOK
  <2> QED
    BY <1>6, <2>2, <2>3, <2>4 DEF WriteStatus
<1>7. CASE RemoveFinalizer(p, r)
  <2>1. v.pc = "removeFinalizer" /\ v \in Worker /\ v.mg \in Object
    BY <1>0, <1>7 DEF RemoveFinalizer, At
  <2> DEFINE lost == [v EXCEPT !.pc = "status", !.fresh = FALSE, !.mg.synced = "error"]
  <2>2. /\ lost.pc = "status" /\ lost.fresh = FALSE
        /\ lost.mg = [v.mg EXCEPT !.synced = "error"]
    BY <2>1 DEF Worker
  <2>3. /\ lost.mg.spec = v.mg.spec /\ lost.mg.extName = v.mg.extName
        /\ lost.mg.policy = v.mg.policy /\ lost.mg.deleting = v.mg.deleting
        /\ lost.mg.finalizer = v.mg.finalizer
    BY <2>1, <2>2 DEF Object
  <2>4. ASSUME NEW w \in {Idle, lost}, v.fresh, obj' = [obj EXCEPT ![r] = Gone],
               wk' = [Outdated(r) EXCEPT ![p][r] = w]
        PROVE  LifeInv'
    <3> HIDE DEF lost
    <3>1. Steady(w, Gone, r) /\ w.pc \notin Trying
      <4>1. CASE w = Idle
        BY <4>1, IdleSteady
      <4>2. CASE w = lost
        BY <2>1, <2>2, <2>3, <4>2, EndSteady
      <4> QED
        BY <2>4, <4>1, <4>2
    <3>2. NoOrphans => KeepsWord(v, w, obj[r], Gone)
      BY <1>0, <2>1, <2>4, <3>1 DEF KeepsWord, Steady, Agrees, Announced, Cleared
    <3> QED
      BY <2>4, <3>1, <3>2, LifeStore DEF OwnName
  <2>5. CASE obj' = obj /\ wk' = [wk EXCEPT ![p][r] = Idle]
    BY <2>5, IdleSteady, LifeMove
  <2>6. CASE obj' = obj /\ Fail(p, r)
    BY <1>0, <2>1, <2>6, LifeFinish DEF Fail
  <2> HIDE DEF lost
  <2> QED
    BY <1>7, <2>4, <2>5, <2>6 DEF RemoveFinalizer, lost
<1> QED
  BY <1>1, <1>2, <1>3, <1>4, <1>5, <1>6, <1>7 DEF LibraryStep

\* Users change a resource, whatever its workers do.
LEMMA LifeChanged ==
  ASSUME LifeInv, ManagedInv', NEW r \in Res, NEW x, obj' = [obj EXCEPT ![r] = x],
         wk' = Outdated(r), OwnName(x, r), Announced(obj[r]) => Announced(x)
  PROVE  LifeInv'
<1>1. \A q \in Procs, s \in Res :
        /\ wk'[q][s].pc = wk[q][s].pc /\ wk'[q][s].mg = wk[q][s].mg
        /\ s = r => wk'[q][s].fresh = FALSE
        /\ s # r => wk'[q][s] = wk[q][s]
  BY OutdatedFields DEF LifeInv
<1>2. obj'[r] = x /\ \A s \in Res \ {r} : obj'[s] = obj[s]
  <2>1. obj \in [Res -> Object \cup {Gone}]
    BY DEF LifeInv, ManagedInv, ManagedTypeOK
  <2> QED
    BY <2>1
<1>3. ASSUME NEW q \in Procs, NEW s \in Res
      PROVE  Steady(wk'[q][s], obj'[s], s)
  <2>1. CASE s # r
    BY <1>1, <1>2, <2>1, LifeUse
  <2>2. CASE s = r
    <3>1. /\ wk'[q][r].pc = wk[q][r].pc /\ wk'[q][r].mg = wk[q][r].mg /\ wk'[q][r].fresh = FALSE
      BY <1>1, <2>2
    <3>2. Steady(wk[q][r], obj[r], r)
      BY LifeUse
    <3> QED
      BY <1>2, <2>2, <3>1, <3>2 DEF Steady, NameOK
  <2> QED
    BY <2>1, <2>2
<1>4. NoOrphans => \A s \in Res : Alone(s)'
  BY <1>1 DEF LifeInv, Alone
<1>5. \A s \in Res : OwnName(obj'[s], s)
  <2>1. \A s \in Res : OwnName(obj[s], s)
    BY DEF LifeInv
  <2> QED
    BY <1>2, <2>1
<1> QED
  BY <1>3, <1>4, <1>5 DEF LifeInv, OwnName, NamesLeft, Steady, NoOrphans, Agrees, NameOK, Announced

LEMMA LifeUser ==
  ASSUME LifeInv, ManagedInv', NEW r \in Res, UserStep(r) \/ GraceExpires(r)
  PROVE  LifeInv'
<1>0. ManagedInv /\ OwnName(obj[r], r) /\ obj[r] \in Object \cup {Gone}
  BY DEF LifeInv, ManagedInv, ManagedTypeOK
<1>1. CASE UserCreate(r)
  <2>1. PICK s \in Specs, n \in UserNames, d \in Policies :
          obj' = [obj EXCEPT ![r] =
                    [spec |-> s, extName |-> n, policy |-> d, deleting |-> FALSE,
                     finalizer |-> FALSE, created |-> "none", ready |-> "none", synced |-> "none"]]
    BY <1>1 DEF UserCreate
  <2> DEFINE x == [spec |-> s, extName |-> n, policy |-> d, deleting |-> FALSE,
                   finalizer |-> FALSE, created |-> "none", ready |-> "none", synced |-> "none"]
  <2>2. OwnName(x, r)
    BY DEF OwnName, NamesLeft
  <2>3. wk' = Outdated(r) /\ ~ Announced(obj[r])
    BY <1>1 DEF UserCreate, Announced
  <2>4. obj' = [obj EXCEPT ![r] = x]
    BY <2>1
  <2> HIDE DEF x
  <2> QED
    BY <2>2, <2>3, <2>4, LifeChanged
<1>2. CASE UserEdit(r)
  <2>1. PICK s \in Specs, n \in {obj[r].extName} \cup (UserNames \ {NoName}), d \in Policies :
          obj' = [obj EXCEPT ![r].spec = s, ![r].extName = n, ![r].policy = d]
    BY <1>2 DEF UserEdit
  <2> DEFINE x == [obj[r] EXCEPT !.spec = s, !.extName = n, !.policy = d]
  <2>2. obj[r] \in Object /\ obj[r] # Gone
    BY <1>0, <1>2 DEF UserEdit
  <2>3. x.extName = n /\ x.finalizer = obj[r].finalizer /\ x.created = obj[r].created /\ x \in Object
    BY <2>2 DEF Object, Names
  <2>4. obj' = [obj EXCEPT ![r] = x]
    BY <2>1, <1>0 DEF ManagedInv, ManagedTypeOK
  <2> HIDE DEF x
  <2>5. OwnName(x, r)
    BY <1>0, <2>2, <2>3 DEF OwnName, NamesLeft
  <2>6. Announced(obj[r]) => Announced(x)
    BY <2>3, GoneAssumption DEF Announced
  <2> QED
    BY <1>2, <2>4, <2>5, <2>6, LifeChanged DEF UserEdit
<1>3. CASE UserDelete(r)
  <2> DEFINE x == IF obj[r].finalizer THEN [obj[r] EXCEPT !.deleting = TRUE] ELSE Gone
  <2>1. obj[r] \in Object /\ obj[r] # Gone
    BY <1>0, <1>3 DEF UserDelete
  <2>2. /\ obj[r].finalizer =>
             x \in Object /\ x.extName = obj[r].extName /\ x.finalizer /\ x.created = obj[r].created
        /\ ~ obj[r].finalizer => x = Gone
    BY <2>1 DEF Object
  <2>3. obj' = [obj EXCEPT ![r] = x] /\ wk' = Outdated(r)
    BY <1>3 DEF UserDelete
  <2> HIDE DEF x
  <2>4. OwnName(x, r)
    BY <1>0, <2>1, <2>2 DEF OwnName
  <2>5. Announced(obj[r]) => Announced(x)
    BY <2>2, GoneAssumption DEF Announced
  <2> QED
    BY <2>3, <2>4, <2>5, LifeChanged
<1>4. CASE GraceExpires(r)
  BY <1>4 DEF GraceExpires, LifeInv, OwnName, NamesLeft, Steady, NoOrphans, Agrees, NameOK, Announced, Alone
<1> QED
  BY <1>1, <1>2, <1>3, <1>4 DEF UserStep

LEMMA LifeKilled ==
  ASSUME LifeInv, ManagedInv', NEW p \in Procs, wk' = Killed(p), obj' = obj
  PROVE  LifeInv'
<1>1. \A q \in Procs, s \in Res : wk'[q][s] = IF q = p THEN Idle ELSE wk[q][s]
  BY ManagedUse DEF LifeInv, Killed
<1>2. \A q \in Procs, s \in Res : Steady(wk'[q][s], obj'[s], s)
  BY <1>1, IdleSteady DEF LifeInv
<1>3. NoOrphans => \A s \in Res : Alone(s)'
  <2>1. \A q \in Procs, s \in Res : wk'[q][s].pc \in Trying => wk[q][s].pc \in Trying
    BY <1>1, IdleSteady
  <2> QED
    BY <2>1 DEF LifeInv, Alone
<1>4. \A s \in Res : OwnName(obj'[s], s)
  BY DEF LifeInv
<1> QED
  BY <1>2, <1>3, <1>4 DEF LifeInv, OwnName, NamesLeft, Steady, NoOrphans, Agrees, NameOK, Announced

\* A worker that goes on with the copy it has, but for a status or the result of a creation.
LEMMA CarriedSteady ==
  ASSUME NEW v, NEW w, NEW x, NEW r, Steady(v, x, r), v.pc \in Cleared \cup {"create"},
         w.pc \in Cleared \cup {"record", "status"}, w.fresh = v.fresh,
         w.mg.spec = v.mg.spec, w.mg.extName = v.mg.extName, w.mg.policy = v.mg.policy,
         w.mg.deleting = v.mg.deleting, w.mg.finalizer = v.mg.finalizer,
         w.pc # "record" => w.mg.created = v.mg.created,
         v.pc = "create" => w.pc \in {"record", "status"},
         w.pc = "record" => v.pc = "create",
         v.pc # "removeFinalizer",
         w.pc = "pending" => w.mg.finalizer
  PROVE  Steady(w, x, r)
  BY DEF Steady, Agrees, NameOK, Trying, Cleared

\* How a worker that has observed goes on.
LEMMA EnsuredSteady ==
  ASSUME NEW v \in Worker, v.pc = "observe", NEW x, NEW r, Steady(v, x, r), NEW o \in Object,
         o.spec = v.mg.spec, o.extName = v.mg.extName, o.policy = v.mg.policy,
         o.deleting = v.mg.deleting, o.finalizer = v.mg.finalizer, o.created = v.mg.created,
         NEW seen \in {"absent", "stale", "current"}
  PROVE  Steady(Ensured(v, o, seen), x, r) /\ Ensured(v, o, seen).pc \notin Trying
<1> DEFINE w == Ensured(v, o, seen)
<1>1. CASE o.finalizer
  <2>1. w = [Decided(o, seen) EXCEPT !.fresh = v.fresh]
    BY <1>1 DEF Ensured
  <2>2. Decided(o, seen) \in [pc : {"pending", "update", "status"}, mg : {Decided(o, seen).mg},
                              fresh : {TRUE}, seen : {seen}]
    BY DEF Decided
  <2>3. w.pc \in {"pending", "update", "status"} /\ w.fresh = v.fresh /\ w.mg = Decided(o, seen).mg
    <3> HIDE DEF w
    <3> QED
      BY <2>1, <2>2
  <2>4. Decided(o, seen).mg = o \/ Decided(o, seen).mg = [o EXCEPT !.synced = "success"]
    BY DEF Decided
  <2> HIDE DEF w
  <2>5. /\ w.mg.spec = o.spec /\ w.mg.extName = o.extName /\ w.mg.policy = o.policy
        /\ w.mg.deleting = o.deleting /\ w.mg.finalizer = o.finalizer /\ w.mg.created = o.created
    BY <2>3, <2>4 DEF Object
  <2>6. Steady(w, x, r) /\ w.pc \notin Trying
    BY <1>1, <2>3, <2>5, CarriedSteady DEF Cleared, Trying
  <2> QED
    BY <2>6 DEF w
<1>2. CASE ~ o.finalizer
  <2>1. w = [v EXCEPT !.pc = "addFinalizer", !.mg = o, !.seen = seen]
    BY <1>2 DEF Ensured
  <2>2. w.pc = "addFinalizer" /\ w.mg = o /\ w.fresh = v.fresh
    BY <2>1 DEF Worker
  <2> HIDE DEF w
  <2>3. Steady(w, x, r) /\ w.pc \notin Trying
    BY <2>2, CarriedSteady DEF Cleared, Trying
  <2> QED
    BY <2>3 DEF w
<1> QED
  BY <1>1, <1>2

LEMMA LifeCall ==
  ASSUME LifeInv, ManagedInv', NEW p \in Procs, NEW r \in Res, Call(p, r), obj' = obj
  PROVE  LifeInv'
<1> DEFINE v == wk[p][r]
<1>0. Steady(v, obj[r], r) /\ (v.pc # "idle" => v \in Worker /\ v.mg \in Object)
  BY LifeUse
<1>1. CASE v.pc = "connect" /\ Go(p, r, "observe", v.mg)
  <2> DEFINE w == [v EXCEPT !.pc = "observe", !.mg = v.mg]
  <2>1. w.pc = "observe" /\ w.mg = v.mg /\ w.fresh = v.fresh
    BY <1>0, <1>1 DEF Worker
  <2>2. wk' = [wk EXCEPT ![p][r] = w]
    BY <1>1, ManagedUse DEF Go, LifeInv
  <2> HIDE DEF w
  <2>3. Steady(w, obj[r], r) /\ w.pc \notin Trying
    BY <1>0, <1>1, <2>1, CarriedSteady DEF Cleared, Trying
  <2> QED
    BY <2>2, <2>3, LifeMove
<1>2. CASE v.pc = "observe" /\ NotFound(p, r, v.mg)
  <2>1. CASE wk' = [wk EXCEPT ![p][r] = Idle]
    BY <2>1, IdleSteady, LifeMove
  <2>2. CASE wk' = [wk EXCEPT ![p][r] = [v EXCEPT !.pc = "removeFinalizer"]]
    <3> DEFINE w == [v EXCEPT !.pc = "removeFinalizer"]
    <3>1. w.pc = "removeFinalizer" /\ w.mg = v.mg /\ w.fresh = v.fresh
      BY <1>0, <1>2 DEF Worker
    <3>2. wk' = [wk EXCEPT ![p][r] = w]
      BY <2>2
    <3> HIDE DEF w
    <3>3. Steady(w, obj[r], r) /\ w.pc \notin Trying
      BY <1>0, <1>2, <3>1, CarriedSteady DEF Cleared, Trying
    <3> QED
      BY <3>2, <3>3, LifeMove
  <2>3. CASE wk' = [wk EXCEPT ![p][r] = Ensured(v, v.mg, "absent")]
    <3>1. /\ Steady(Ensured(v, v.mg, "absent"), obj[r], r)
          /\ Ensured(v, v.mg, "absent").pc \notin Trying
      BY <1>0, <1>2, EnsuredSteady
    <3> QED
      BY <2>3, <3>1, LifeMove
  <2> QED
    BY <1>2, <2>1, <2>2, <2>3 DEF NotFound
<1>3. CASE v.pc = "observe" /\ \E u \in BOOLEAN : Found(p, r, Available(v.mg), u)
  <2> DEFINE o == Available(v.mg)
  <2>1. /\ o \in Object /\ o.spec = v.mg.spec /\ o.extName = v.mg.extName
        /\ o.policy = v.mg.policy /\ o.deleting = v.mg.deleting
        /\ o.finalizer = v.mg.finalizer /\ o.created = v.mg.created
    BY <1>0, <1>3 DEF Available, Object
  <2>2. PICK seen \in {"stale", "current"} :
          wk' = [wk EXCEPT ![p][r] = IF o.deleting THEN [v EXCEPT !.pc = "delete", !.mg = o]
                                     ELSE Ensured(v, o, seen)]
    BY <1>3 DEF Found
  <2> HIDE DEF o
  <2>3. CASE wk' = [wk EXCEPT ![p][r] = [v EXCEPT !.pc = "delete", !.mg = o]]
    <3> DEFINE w == [v EXCEPT !.pc = "delete", !.mg = o]
    <3>1. w.pc = "delete" /\ w.mg = o /\ w.fresh = v.fresh
      BY <1>0, <1>3 DEF Worker
    <3>2. wk' = [wk EXCEPT ![p][r] = w]
      BY <2>3
    <3> HIDE DEF w
    <3>3. Steady(w, obj[r], r) /\ w.pc \notin Trying
      BY <1>0, <1>3, <2>1, <3>1, CarriedSteady DEF Cleared, Trying
    <3> QED
      BY <3>2, <3>3, LifeMove
  <2>4. CASE wk' = [wk EXCEPT ![p][r] = Ensured(v, o, seen)]
    <3>1. Steady(Ensured(v, o, seen), obj[r], r) /\ Ensured(v, o, seen).pc \notin Trying
      BY <1>0, <1>3, <2>1, EnsuredSteady
    <3> QED
      BY <2>4, <3>1, LifeMove
  <2> QED
    BY <2>2, <2>3, <2>4
<1>4. CASE v.pc = "create" /\ \E c \in {"succeeded", "failed"} : Created(p, r, c)
  <2>1. PICK c \in {"succeeded", "failed"} : Created(p, r, c)
    BY <1>4
  <2> DEFINE m == [v.mg EXCEPT !.created = c]
             w == [v EXCEPT !.pc = "record", !.mg = m]
  <2>2. /\ m.spec = v.mg.spec /\ m.extName = v.mg.extName /\ m.policy = v.mg.policy
        /\ m.deleting = v.mg.deleting /\ m.finalizer = v.mg.finalizer
    BY <1>0, <1>4 DEF Object
  <2>3. w.pc = "record" /\ w.mg = m /\ w.fresh = v.fresh
    BY <1>0, <1>4 DEF Worker
  <2>4. wk' = [wk EXCEPT ![p][r] = w]
    BY <2>1, ManagedUse DEF Created, Go, LifeInv
  <2> HIDE DEF m, w
  <2>5. Steady(w, obj[r], r)
    BY <1>0, <1>4, <2>2, <2>3, CarriedSteady DEF Cleared
  <2> QED
    BY <1>4, <2>4, <2>5, LifeMove DEF Trying
<1>5. CASE v.pc # "idle" /\ \E c \in Conditions, e \in {"success", "error"} : Finish(p, r, c, e)
  BY <1>0, <1>5, LifeFinish
<1>6. CASE wk' = Killed(p)
  BY <1>6, LifeKilled
<1> QED
  BY <1>1, <1>2, <1>3, <1>4, <1>5, <1>6 DEF Call, FindsNone, QuietCall

LEMMA LifeSame ==
  ASSUME LifeInv, UNCHANGED managedVars
  PROVE  LifeInv'
<1>1. ManagedInv'
  BY SameType DEF LifeInv
<1>2. obj' = obj /\ wk' = wk
  BY DEF managedVars
<1> QED
  BY <1>1, <1>2 DEF LifeInv, OwnName, NamesLeft, Steady, NoOrphans, Agrees, NameOK, Announced, Alone

LEMMA AloneAnnounced ==
  ASSUME LifeInv, NoOrphans
  PROVE  CreatesAlone
<1>1. SUFFICES ASSUME NEW p \in Procs, NEW r \in Res, wk[p][r].pc = "create"
               PROVE  Announced(obj[r]) /\ \A q \in Procs \ {p} : wk[q][r].pc # "create"
  BY DEF CreatesAlone, At, Announced
<1>2. Steady(wk[p][r], obj[r], r) /\ Alone(r)
  BY LifeUse
<1> QED
  BY <1>1, <1>2 DEF Steady, Alone, Trying

-----------------------------------------------------------------------------
(***************************************************************************)
(* Letting go.                                                             *)
(***************************************************************************)

\* No worker has come to the point of taking a finalizer off, except by the Orphan policy.
OnlyOrphansGo ==
  \A q \in Procs, s \in Res :
    wk'[q][s].pc = "removeFinalizer" =>
      \/ wk'[q][s].mg.policy = "Orphan"
      \/ wk[q][s].pc = "removeFinalizer" /\ wk'[q][s].mg = wk[q][s].mg

LEMMA OrphansMove ==
  ASSUME ManagedInv, NEW p \in Procs, NEW r \in Res, NEW w,
         wk' = [wk EXCEPT ![p][r] = w] \/ wk' = [Outdated(r) EXCEPT ![p][r] = w],
         w.pc = "removeFinalizer" => w.mg.policy = "Orphan"
  PROVE  OnlyOrphansGo
<1>1. \A q \in Procs, s \in Res :
        Outdated(r)[q][s].pc = wk[q][s].pc /\ Outdated(r)[q][s].mg = wk[q][s].mg
  BY OutdatedFields
<1>2. \A q \in Procs, s \in Res :
        \/ wk'[q][s] = (IF q = p /\ s = r THEN w ELSE wk[q][s])
        \/ wk'[q][s] = (IF q = p /\ s = r THEN w ELSE Outdated(r)[q][s])
  BY ManagedUse, OutdatedType
<1>3. \A q \in Procs, s \in Res :
        wk'[q][s] = w \/ (wk'[q][s].pc = wk[q][s].pc /\ wk'[q][s].mg = wk[q][s].mg)
  BY <1>1, <1>2
<1> QED
  BY <1>3 DEF OnlyOrphansGo

LEMMA OrphansFinish ==
  ASSUME ManagedInv, NEW p \in Procs, NEW r \in Res, wk[p][r] \in Worker,
         NEW c, NEW e, Finish(p, r, c, e)
  PROVE  OnlyOrphansGo
<1> DEFINE w == [wk[p][r] EXCEPT !.pc = "status",
                                 !.mg = [wk[p][r].mg EXCEPT !.ready = c, !.synced = e]]
<1>1. wk' = [wk EXCEPT ![p][r] = w]
  BY ManagedUse DEF Finish, Go
<1>2. w.pc = "status"
  BY DEF Worker
<1> HIDE DEF w
<1> QED
  BY <1>1, <1>2, OrphansMove

LEMMA OrphansWrite ==
  ASSUME ManagedInv, NEW p \in Procs, NEW r \in Res, wk[p][r] \in Worker,
         NEW o, NEW w, NEW c, Write(p, r, o, w, c), w.pc # "removeFinalizer"
  PROVE  OnlyOrphansGo
<1> DEFINE failed == [wk[p][r] EXCEPT !.pc = "status", !.mg.ready = c, !.mg.synced = "error"]
           lost   == [failed EXCEPT !.fresh = FALSE]
<1>1. failed.pc = "status" /\ lost.pc = "status"
  BY DEF Worker
<1> HIDE DEF failed, lost
<1>2. PICK x \in {w, failed, lost} :
        wk' = [wk EXCEPT ![p][r] = x] \/ wk' = [Outdated(r) EXCEPT ![p][r] = x]
  BY DEF Write, failed, lost
<1> QED
  BY <1>1, <1>2, OrphansMove

\* The steps of a reconcile that call nothing of the controller.
LEMMA OrphansLibrary ==
  ASSUME ManagedInv, NEW p \in Procs, NEW r \in Res, LibraryStep(p, r)
  PROVE  OnlyOrphansGo
<1> DEFINE v == wk[p][r]
<1>1. CASE Start(p, r)
  <2>1. PICK w : /\ wk' = [wk EXCEPT ![p][r] = w]
                 /\ w = IF obj[r].deleting /\ obj[r].policy = "Orphan"
                        THEN [pc |-> "removeFinalizer", mg |-> obj[r], fresh |-> TRUE, seen |-> "none"]
                        ELSE IF obj[r].extName = NoName
                        THEN [pc |-> "initialize", mg |-> obj[r], fresh |-> TRUE, seen |-> "none"]
                        ELSE Started(obj[r])
    BY <1>1 DEF Start
  <2>2. w.pc = "removeFinalizer" => w.mg.policy = "Orphan"
    BY <2>1 DEF Started
  <2> QED
    BY <2>1, <2>2, OrphansMove
<1>2. CASE ~ Start(p, r)
  <2>1. v \in Worker /\ (v.pc = "addFinalizer" => v.seen \in {"absent", "stale", "current"})
    BY <1>2, ManagedUse, WorkerUpdates
       DEF LibraryStep, Initialize, AddFinalizer, SetPending, RecordCreate, WriteStatus,
           RemoveFinalizer, At, ManagedInv, SeenFirst
  <2>2. Idle.pc = "idle"
    BY DEF Idle
  <2>3. CASE Initialize(p, r)
    <3>1. PICK o : Write(p, r, o, Started(o), v.mg.ready)
      BY <2>3 DEF Initialize
    <3>2. Started(o).pc # "removeFinalizer"
      BY DEF Started
    <3> QED
      BY <2>1, <3>1, <3>2, OrphansWrite
  <2>4. CASE AddFinalizer(p, r)
    <3>1. PICK o : Write(p, r, o, Decided(o, v.seen), v.mg.ready)
      BY <2>4 DEF AddFinalizer
    <3>2. Decided(o, v.seen).pc # "removeFinalizer"
      BY <2>1, <2>4 DEF Decided, AddFinalizer, At
    <3> QED
      BY <2>1, <3>1, <3>2, OrphansWrite
  <2>5. CASE SetPending(p, r)
    <3>1. PICK o : Write(p, r, o, [v EXCEPT !.pc = "create", !.mg = o], "creating")
      BY <2>5 DEF SetPending
    <3>2. [v EXCEPT !.pc = "create", !.mg = o].pc = "create"
      BY <2>1 DEF Worker
    <3> QED
      BY <2>1, <3>1, <3>2, OrphansWrite
  <2>6. CASE RecordCreate(p, r)
    <3>1. CASE Finish(p, r, "creating", "error")
      BY <2>1, <3>1, OrphansFinish
    <3>2. CASE ~ Finish(p, r, "creating", "error")
      <4>1. PICK m : wk' = [Outdated(r) EXCEPT ![p][r] =
                              [pc |-> "status", fresh |-> TRUE, seen |-> "absent", mg |-> m]]
        BY <2>6, <3>2 DEF RecordCreate
      <4> DEFINE w == [pc |-> "status", fresh |-> TRUE, seen |-> "absent", mg |-> m]
      <4>2. w.pc = "status"
        OBVIOUS
      <4> HIDE DEF w
      <4> QED
        BY <4>1, <4>2, OrphansMove DEF w
    <3> QED
      BY <3>1, <3>2
  <2>7. CASE WriteStatus(p, r)
    BY <2>2, <2>7, OrphansMove DEF WriteStatus
  <2>8. CASE RemoveFinalizer(p, r)
    <3> DEFINE lost == [v EXCEPT !.pc = "status", !.fresh = FALSE, !.mg.synced = "error"]
    <3>1. lost.pc = "status"
      BY <2>1 DEF Worker
    <3> HIDE DEF lost
    <3>2. CASE Fail(p, r)
      BY <2>1, <3>2, OrphansFinish DEF Fail
    <3>3. CASE \E w \in {Idle, lost} :
                 wk' = [wk EXCEPT ![p][r] = w] \/ wk' = [Outdated(r) EXCEPT ![p][r] = w]
      BY <2>2, <3>1, <3>3, OrphansMove
    <3> QED
      BY <2>8, <3>2, <3>3 DEF RemoveFinalizer, lost
  <2> QED
    BY <1>2, <2>3, <2>4, <2>5, <2>6, <2>7, <2>8 DEF LibraryStep
<1> QED
  BY <1>1, <1>2

LEMMA OrphansUser ==
  ASSUME ManagedInv, NEW r \in Res, UserStep(r) \/ GraceExpires(r)
  PROVE  OnlyOrphansGo
<1>1. wk' = Outdated(r) \/ wk' = wk
  BY DEF UserStep, UserCreate, UserEdit, UserDelete, GraceExpires
<1>2. \A q \in Procs, s \in Res :
        Outdated(r)[q][s].pc = wk[q][s].pc /\ Outdated(r)[q][s].mg = wk[q][s].mg
  BY OutdatedFields
<1> QED
  BY <1>1, <1>2 DEF OnlyOrphansGo

LEMMA OrphansKilled ==
  ASSUME ManagedInv, NEW p \in Procs, wk' = Killed(p)
  PROVE  OnlyOrphansGo
<1>1. \A q \in Procs, s \in Res : wk'[q][s] \in {wk[q][s], Idle}
  BY DEF Killed, ManagedInv, ManagedTypeOK
<1>2. Idle.pc = "idle"
  BY DEF Idle
<1> QED
  BY <1>1, <1>2 DEF OnlyOrphansGo

\* Of the calls into a controller, only one that finds nothing lets a resource go on to that
\* point, and only the resource it was made for.
LEMMA OrphansQuiet ==
  ASSUME ManagedInv, NEW p \in Procs, NEW r \in Res, QuietCall(p, r)
  PROVE  OnlyOrphansGo
<1> DEFINE v == wk[p][r]
<1>0. v.pc # "idle" => v \in Worker
  BY ManagedUse
<1>1. ASSUME NEW pc \in {"observe", "record"}, NEW o, v.pc # "idle", Go(p, r, pc, o)
      PROVE  OnlyOrphansGo
  <2> DEFINE w == [v EXCEPT !.pc = pc, !.mg = o]
  <2>1. wk' = [wk EXCEPT ![p][r] = w]
    BY <1>1, ManagedUse DEF Go
  <2>2. w.pc = pc
    BY <1>0, <1>1 DEF Worker
  <2> HIDE DEF w
  <2> QED
    BY <2>1, <2>2, OrphansMove
<1>2. CASE v.pc = "observe" /\ \E u \in BOOLEAN : Found(p, r, Available(v.mg), u)
  <2> DEFINE o == Available(v.mg)
  <2>1. PICK seen \in {"stale", "current"} :
          wk' = [wk EXCEPT ![p][r] = IF o.deleting THEN [v EXCEPT !.pc = "delete", !.mg = o]
                                     ELSE Ensured(v, o, seen)]
    BY <1>2 DEF Found
  <2> HIDE DEF o
  <2>2. [v EXCEPT !.pc = "delete", !.mg = o].pc = "delete"
    BY <1>0, <1>2 DEF Worker
  <2>3. Ensured(v, o, seen).pc # "removeFinalizer"
    BY <1>0, <1>2, EnsuredGoes
  <2> QED
    BY <2>1, <2>2, <2>3, OrphansMove
<1>3. CASE v.pc # "idle" /\ \E c \in Conditions, e \in {"success", "error"} : Finish(p, r, c, e)
  BY <1>0, <1>3, OrphansFinish
<1> QED
  BY <1>1, <1>2, <1>3, OrphansKilled DEF QuietCall, Created

LEMMA OrphansNotFound ==
  ASSUME ManagedInv, NEW p \in Procs, NEW r \in Res, FindsNone(p, r)
  PROVE  \A q \in Procs, s \in Res :
           wk'[q][s].pc = "removeFinalizer" =>
             /\ wk'[q][s].mg = wk[q][s].mg
             /\ wk[q][s].pc = "removeFinalizer" \/ (q = p /\ s = r)
<1> DEFINE v == wk[p][r]
<1>1. v.pc = "observe" /\ v \in Worker
  BY ManagedUse DEF FindsNone
<1>2. PICK w \in {Idle, [v EXCEPT !.pc = "removeFinalizer"], Ensured(v, v.mg, "absent")} :
        wk' = [wk EXCEPT ![p][r] = w]
  BY DEF FindsNone, NotFound
<1>3. w.pc = "removeFinalizer" => w.mg = v.mg
  <2>1. [v EXCEPT !.pc = "removeFinalizer"].mg = v.mg /\ Idle.pc = "idle"
    BY <1>1 DEF Worker, Idle
  <2>2. Ensured(v, v.mg, "absent").pc # "removeFinalizer"
    BY <1>1, EnsuredGoes
  <2> QED
    BY <1>2, <2>1, <2>2
<1>4. \A q \in Procs, s \in Res : wk'[q][s] = IF q = p /\ s = r THEN w ELSE wk[q][s]
  BY <1>2, ManagedUse
<1> QED
  BY <1>3, <1>4

\* What is stored for a custom resource, except when its finalizer is taken off, is one.
LEMMA GoesWrite ==
  ASSUME ManagedInv, NEW p \in Procs, NEW r \in Res, NEW m \in Object, NEW w, NEW c,
         Write(p, r, Stored(r, m), w, c), NEW s \in Res, obj[s] # Gone
  PROVE  obj'[s] # Gone
<1>1. wk[p][r].fresh => Stored(r, m) \in Object
  BY StoredType DEF ManagedInv, FreshCopies
<1>2. obj' = obj \/ (wk[p][r].fresh /\ obj' = [obj EXCEPT ![r] = Stored(r, m)])
  BY DEF Write
<1> QED
  BY <1>1, <1>2, ManagedUse, GoneAssumption

LEMMA GoesLibrary ==
  ASSUME ManagedInv, NEW p \in Procs, NEW r \in Res, LibraryStep(p, r),
         NEW s \in Res, obj[s] # Gone, obj'[s] = Gone
  PROVE  s = r /\ wk[p][r].pc = "removeFinalizer" /\ wk[p][r].fresh
<1> DEFINE v == wk[p][r]
<1>0. v.pc # "idle" => v \in Worker /\ v.mg \in Object
  BY ManagedUse, WorkerUpdates
<1>1. ~ Start(p, r)
  BY DEF Start
<1>2. ~ Initialize(p, r)
  <2>1. SUFFICES ASSUME Initialize(p, r)
                 PROVE  FALSE
    OBVIOUS
  <2>2. [v.mg EXCEPT !.extName = r] \in Object
    BY <1>0, <2>1, ObjectUpdates DEF Initialize, At, Names
  <2> QED
    BY <2>1, <2>2, GoesWrite DEF Initialize
<1>3. ~ AddFinalizer(p, r)
  <2>1. SUFFICES ASSUME AddFinalizer(p, r)
                 PROVE  FALSE
    OBVIOUS
  <2>2. [v.mg EXCEPT !.finalizer = TRUE] \in Object
    BY <1>0, <2>1, ObjectUpdates DEF AddFinalizer, At
  <2> QED
    BY <2>1, <2>2, GoesWrite DEF AddFinalizer
<1>4. ~ SetPending(p, r)
  <2>1. SUFFICES ASSUME SetPending(p, r)
                 PROVE  FALSE
    OBVIOUS
  <2>2. [v.mg EXCEPT !.created = "pending"] \in Object
    BY <1>0, <2>1, ObjectUpdates DEF SetPending, At
  <2> QED
    BY <2>1, <2>2, GoesWrite DEF SetPending
<1>5. ~ RecordCreate(p, r)
  <2>1. SUFFICES ASSUME RecordCreate(p, r), obj' # obj
                 PROVE  FALSE
    OBVIOUS
  <2>2. obj[r] \in Object /\ v.mg \in Object
    BY <1>0, <2>1, ManagedUse DEF RecordCreate, At
  <2>3. [obj[r] EXCEPT !.created = v.mg.created, !.extName = v.mg.extName] \in Object
    BY <2>2 DEF Object
  <2> QED
    BY <2>1, <2>3, ManagedUse, GoneAssumption DEF RecordCreate
<1>6. ~ WriteStatus(p, r)
  <2>1. SUFFICES ASSUME WriteStatus(p, r), obj' # obj
                 PROVE  FALSE
    OBVIOUS
  <2>2. obj[r] \in Object /\ v.mg \in Object
    BY <1>0, <2>1, ManagedUse DEF WriteStatus, At
  <2>3. [obj[r] EXCEPT !.ready = v.mg.ready, !.synced = v.mg.synced] \in Object
    BY <2>2 DEF Object
  <2> QED
    BY <2>1, <2>3, ManagedUse, GoneAssumption DEF WriteStatus
<1>7. RemoveFinalizer(p, r)
  BY <1>1, <1>2, <1>3, <1>4, <1>5, <1>6 DEF LibraryStep
<1> QED
  BY <1>7, ManagedUse DEF RemoveFinalizer, At

\* A user lets only a resource without a finalizer go.
LEMMA GoesUser ==
  ASSUME ManagedInv, NEW r \in Res, UserStep(r) \/ GraceExpires(r),
         NEW s \in Res, obj[s] # Gone, obj[s].finalizer
  PROVE  obj'[s] # Gone
<1>1. obj[r] # Gone => obj[r] \in Object
  BY DEF ManagedInv, ManagedTypeOK
<1>2. CASE UserEdit(r)
  <2>1. PICK x \in Specs, n \in {obj[r].extName} \cup (UserNames \ {NoName}), d \in Policies :
          obj' = [obj EXCEPT ![r].spec = x, ![r].extName = n, ![r].policy = d]
    BY <1>2 DEF UserEdit
  <2>2. [obj[r] EXCEPT !.spec = x, !.extName = n, !.policy = d] \in Object
    BY <1>1, <1>2, <2>1 DEF UserEdit, Object, Names
  <2>3. obj'[s] = IF s = r THEN [obj[r] EXCEPT !.spec = x, !.extName = n, !.policy = d] ELSE obj[s]
    BY <2>1 DEF ManagedInv, ManagedTypeOK
  <2> QED
    BY <2>2, <2>3, GoneAssumption
<1>3. CASE UserDelete(r)
  <2>1. s = r => [obj[r] EXCEPT !.deleting = TRUE] \in Object
    BY <1>1, ObjectUpdates
  <2> QED
    BY <1>3, <2>1, GoneAssumption DEF UserDelete, ManagedInv, ManagedTypeOK
<1>4. CASE UserCreate(r) \/ GraceExpires(r)
  BY <1>4 DEF UserCreate, GraceExpires, ManagedInv, ManagedTypeOK
<1> QED
  BY <1>2, <1>3, <1>4 DEF UserStep

-----------------------------------------------------------------------------
(***************************************************************************)
(* Homes.                                                                  *)
(***************************************************************************)

\* A step of worker p leaves the others at theirs, and takes up only a resource that is there;
\* what comes to Connect has just read or written it.
Opens(p, r) ==
  /\ \A q \in Procs, s \in Res : ~ (q = p /\ s = r) => wk'[q][s].pc = wk[q][s].pc
  /\ wk[p][r].pc = "idle" => obj[r] # Gone
  /\ wk'[p][r].pc = "connect" => wk'[p][r].fresh

LEMMA OpensOne ==
  ASSUME ManagedInv, NEW p \in Procs, NEW r \in Res, NEW w,
         wk' = [wk EXCEPT ![p][r] = w] \/ wk' = [Outdated(r) EXCEPT ![p][r] = w],
         w.pc = "connect" => w.fresh, wk[p][r].pc = "idle" => obj[r] # Gone
  PROVE  Opens(p, r)
<1>1. \A q \in Procs, s \in Res : Outdated(r)[q][s].pc = wk[q][s].pc
  BY OutdatedFields
<1>2. /\ wk'[p][r] = w
      /\ \A q \in Procs, s \in Res : ~ (q = p /\ s = r) =>
           wk'[q][s] = wk[q][s] \/ wk'[q][s] = Outdated(r)[q][s]
  BY ManagedUse, OutdatedType
<1> QED
  BY <1>1, <1>2 DEF Opens

LEMMA OpensFinish ==
  ASSUME ManagedInv, NEW p \in Procs, NEW r \in Res, wk[p][r] \in Worker,
         NEW c, NEW e, Finish(p, r, c, e)
  PROVE  Opens(p, r)
<1> DEFINE w == [wk[p][r] EXCEPT !.pc = "status",
                                 !.mg = [wk[p][r].mg EXCEPT !.ready = c, !.synced = e]]
<1>1. wk' = [wk EXCEPT ![p][r] = w]
  BY ManagedUse DEF Finish, Go
<1>2. w.pc = "status" /\ wk[p][r].pc # "idle"
  BY DEF Worker
<1> HIDE DEF w
<1> QED
  BY <1>1, <1>2, OpensOne

LEMMA OpensWrite ==
  ASSUME ManagedInv, NEW p \in Procs, NEW r \in Res, wk[p][r] \in Worker,
         NEW o, NEW w, NEW c, Write(p, r, o, w, c), w.pc = "connect" => w.fresh
  PROVE  Opens(p, r)
<1> DEFINE failed == [wk[p][r] EXCEPT !.pc = "status", !.mg.ready = c, !.mg.synced = "error"]
           lost   == [failed EXCEPT !.fresh = FALSE]
<1>1. failed.pc = "status" /\ lost.pc = "status" /\ wk[p][r].pc # "idle"
  BY DEF Worker
<1> HIDE DEF failed, lost
<1>2. PICK x \in {w, failed, lost} :
        wk' = [wk EXCEPT ![p][r] = x] \/ wk' = [Outdated(r) EXCEPT ![p][r] = x]
  BY DEF Write, failed, lost
<1> QED
  BY <1>1, <1>2, OpensOne

LEMMA OpensLibrary ==
  ASSUME ManagedInv, NEW p \in Procs, NEW r \in Res, LibraryStep(p, r)
  PROVE  Opens(p, r)
<1> DEFINE v == wk[p][r]
<1>1. CASE Start(p, r)
  <2>1. PICK w : /\ wk' = [wk EXCEPT ![p][r] = w]
                 /\ w = IF obj[r].deleting /\ obj[r].policy = "Orphan"
                        THEN [pc |-> "removeFinalizer", mg |-> obj[r], fresh |-> TRUE, seen |-> "none"]
                        ELSE IF obj[r].extName = NoName
                        THEN [pc |-> "initialize", mg |-> obj[r], fresh |-> TRUE, seen |-> "none"]
                        ELSE Started(obj[r])
    BY <1>1 DEF Start
  <2>2. w.fresh
    BY <2>1 DEF Started
  <2> QED
    BY <1>1, <2>1, <2>2, OpensOne DEF Start
<1>2. CASE ~ Start(p, r)
  <2>1. v \in Worker /\ v.pc # "idle"
    BY <1>2, ManagedUse, WorkerUpdates
       DEF LibraryStep, Initialize, AddFinalizer, SetPending, RecordCreate, WriteStatus,
           RemoveFinalizer, At
  <2>2. Idle.pc = "idle"
    BY DEF Idle
  <2>3. CASE Initialize(p, r)
    <3>1. PICK o : Write(p, r, o, Started(o), v.mg.ready)
      BY <2>3 DEF Initialize
    <3>2. Started(o).fresh
      BY DEF Started
    <3> QED
      BY <2>1, <3>1, <3>2, OpensWrite
  <2>4. CASE AddFinalizer(p, r)
    <3>1. PICK o : Write(p, r, o, Decided(o, v.seen), v.mg.ready)
      BY <2>4 DEF AddFinalizer
    <3>2. Decided(o, v.seen).fresh
      BY DEF Decided
    <3> QED
      BY <2>1, <3>1, <3>2, OpensWrite
  <2>5. CASE SetPending(p, r)
    <3>1. PICK o : Write(p, r, o, [v EXCEPT !.pc = "create", !.mg = o], "creating")
      BY <2>5 DEF SetPending
    <3>2. [v EXCEPT !.pc = "create", !.mg = o].pc = "create"
      BY <2>1 DEF Worker
    <3> QED
      BY <2>1, <3>1, <3>2, OpensWrite
  <2>6. CASE RecordCreate(p, r)
    <3>1. CASE Finish(p, r, "creating", "error")
      BY <2>1, <3>1, OpensFinish
    <3>2. CASE ~ Finish(p, r, "creating", "error")
      <4>1. PICK m : wk' = [Outdated(r) EXCEPT ![p][r] =
                              [pc |-> "status", fresh |-> TRUE, seen |-> "absent", mg |-> m]]
        BY <2>6, <3>2 DEF RecordCreate
      <4> DEFINE w == [pc |-> "status", fresh |-> TRUE, seen |-> "absent", mg |-> m]
      <4>2. w.pc = "status"
        OBVIOUS
      <4> HIDE DEF w
      <4> QED
        BY <2>1, <4>1, <4>2, OpensOne DEF w
    <3> QED
      BY <3>1, <3>2
  <2>7. CASE WriteStatus(p, r)
    BY <2>1, <2>2, <2>7, OpensOne DEF WriteStatus
  <2>8. CASE RemoveFinalizer(p, r)
    <3> DEFINE lost == [v EXCEPT !.pc = "status", !.fresh = FALSE, !.mg.synced = "error"]
    <3>1. lost.pc = "status"
      BY <2>1 DEF Worker
    <3> HIDE DEF lost
    <3>2. CASE Fail(p, r)
      BY <2>1, <3>2, OpensFinish DEF Fail
    <3>3. CASE \E w \in {Idle, lost} :
                 wk' = [wk EXCEPT ![p][r] = w] \/ wk' = [Outdated(r) EXCEPT ![p][r] = w]
      BY <2>1, <2>2, <3>1, <3>3, OpensOne
    <3> QED
      BY <2>8, <3>2, <3>3 DEF RemoveFinalizer, lost
  <2> QED
    BY <1>2, <2>3, <2>4, <2>5, <2>6, <2>7, <2>8 DEF LibraryStep
<1> QED
  BY <1>1, <1>2

\* Resource s comes from nowhere but a user, and keeps home and finalizer as long as it stays.
StaysHome(home, s) ==
  obj'[s] # Gone => /\ obj[s] # Gone
                    /\ home[obj'[s].spec] = home[obj[s].spec]
                    /\ obj[s].finalizer => obj'[s].finalizer

\* A write of the reconciler sends what was read of the resource, with the finalizer or none less.
LEMMA HomeWrite ==
  ASSUME NEW home, LockInv(home), NEW p \in Procs, NEW r \in Res, Working(wk[p][r]),
         NEW m \in Object, m.spec = wk[p][r].mg.spec, wk[p][r].mg.finalizer => m.finalizer,
         NEW w, NEW c, Write(p, r, Stored(r, m), w, c), NEW s \in Res
  PROVE  StaysHome(home, s)
<1>1. obj' = obj \/ (wk[p][r].fresh /\ obj' = [obj EXCEPT ![r] = Stored(r, m)])
  BY DEF Write
<1>2. CASE obj' = obj
  BY <1>2 DEF StaysHome
<1>3. CASE wk[p][r].fresh /\ obj' = [obj EXCEPT ![r] = Stored(r, m)]
  <2>1. obj[r] # Gone /\ CopyOK(home, wk[p][r], r, obj[r])
    BY <1>3, CopyUse
  <2>2. Stored(r, m).spec = m.spec /\ Stored(r, m).finalizer = m.finalizer
    BY <2>1, StoredFields DEF LockInv
  <2>3. obj'[s] = IF s = r THEN Stored(r, m) ELSE obj[s]
    BY <1>3, ManagedUse DEF LockInv
  <2> QED
    BY <1>3, <2>1, <2>2, <2>3 DEF StaysHome, CopyOK
<1> QED
  BY <1>1, <1>2, <1>3

LEMMA HomeLibrary ==
  ASSUME NEW home, LockInv(home), NEW p \in Procs, NEW r \in Res, LibraryStep(p, r), NEW s \in Res
  PROVE  StaysHome(home, s)
<1> DEFINE v == wk[p][r]
<1>0. v.pc # "idle" => v \in Worker /\ v.mg \in Object
  BY ManagedUse, WorkerUpdates DEF LockInv
<1>1. CASE Start(p, r)
  BY <1>1 DEF Start, StaysHome
<1>2. CASE Initialize(p, r)
  <2> DEFINE m == [v.mg EXCEPT !.extName = r]
  <2>1. /\ m \in Object /\ m.spec = v.mg.spec /\ m.finalizer = v.mg.finalizer /\ Working(v)
    BY <1>0, <1>2 DEF Initialize, At, Working, Object, Names
  <2>2. \E w, c : Write(p, r, Stored(r, m), w, c)
    BY <1>2 DEF Initialize
  <2> HIDE DEF m
  <2> QED
    BY <2>1, <2>2, HomeWrite
<1>3. CASE AddFinalizer(p, r)
  <2> DEFINE m == [v.mg EXCEPT !.finalizer = TRUE]
  <2>1. /\ m \in Object /\ m.spec = v.mg.spec /\ m.finalizer /\ Working(v)
    BY <1>0, <1>3 DEF AddFinalizer, At, Working, Object
  <2>2. \E w, c : Write(p, r, Stored(r, m), w, c)
    BY <1>3 DEF AddFinalizer
  <2> HIDE DEF m
  <2> QED
    BY <2>1, <2>2, HomeWrite
<1>4. CASE SetPending(p, r)
  <2> DEFINE m == [v.mg EXCEPT !.created = "pending"]
  <2>1. /\ m \in Object /\ m.spec = v.mg.spec /\ m.finalizer = v.mg.finalizer /\ Working(v)
    BY <1>0, <1>4 DEF SetPending, At, Working, Object
  <2>2. \E w, c : Write(p, r, Stored(r, m), w, c)
    BY <1>4 DEF SetPending
  <2> HIDE DEF m
  <2> QED
    BY <2>1, <2>2, HomeWrite
<1>5. CASE RecordCreate(p, r)
  <2>1. CASE obj' = obj
    BY <2>1 DEF StaysHome
  <2>2. CASE obj' # obj
    <3> DEFINE o == [obj[r] EXCEPT !.created = v.mg.created, !.extName = v.mg.extName]
    <3>1. obj[r] # Gone /\ obj[r] \in Object /\ obj' = [obj EXCEPT ![r] = o]
      BY <1>5, <2>2, ManagedUse DEF RecordCreate, LockInv
    <3>2. o.spec = obj[r].spec /\ o.finalizer = obj[r].finalizer
      BY <3>1 DEF Object
    <3> HIDE DEF o
    <3> QED
      BY <3>1, <3>2, ManagedUse DEF StaysHome, LockInv
  <2> QED
    BY <2>1, <2>2
<1>6. CASE WriteStatus(p, r)
  <2>1. CASE obj' = obj
    BY <2>1 DEF StaysHome
  <2>2. CASE obj' # obj
    <3> DEFINE o == [obj[r] EXCEPT !.ready = v.mg.ready, !.synced = v.mg.synced]
    <3>1. obj[r] # Gone /\ obj[r] \in Object /\ obj' = [obj EXCEPT ![r] = o]
      BY <1>6, <2>2, ManagedUse DEF WriteStatus, LockInv, ManagedInv, FreshCopies
    <3>2. o.spec = obj[r].spec /\ o.finalizer = obj[r].finalizer
      BY <3>1 DEF Object
    <3> HIDE DEF o
    <3> QED
      BY <3>1, <3>2, ManagedUse DEF StaysHome, LockInv
  <2> QED
    BY <2>1, <2>2
<1>7. CASE RemoveFinalizer(p, r)
  BY <1>7, ManagedUse DEF RemoveFinalizer, StaysHome, LockInv
<1> QED
  BY <1>1, <1>2, <1>3, <1>4, <1>5, <1>6, <1>7 DEF LibraryStep

\* No edit of a specification moves it.
NoMoves(home) == \A e \in Edits : home[e[1]] = home[e[2]]

\* A resource that a user does not create.
LEMMA HomeUser ==
  ASSUME ManagedInv, NEW home, NoMoves(home), NEW r \in Res,
         UserStep(r) \/ GraceExpires(r), NEW s \in Res, obj[s] # Gone
  PROVE  StaysHome(home, s)
<1>1. CASE UserEdit(r)
  <2>1. PICK x \in Specs, n \in {obj[r].extName} \cup (UserNames \ {NoName}), d \in Policies :
          /\ x # obj[r].spec => <<obj[r].spec, x>> \in Edits
          /\ obj' = [obj EXCEPT ![r].spec = x, ![r].extName = n, ![r].policy = d]
    BY <1>1 DEF UserEdit
  <2>2. home[x] = home[obj[r].spec]
    <3>1. CASE x # obj[r].spec
      <4>1. home[<<obj[r].spec, x>>[1]] = home[<<obj[r].spec, x>>[2]]
        BY <2>1, <3>1 DEF NoMoves
      <4> QED
        BY <4>1
    <3> QED
      BY <3>1
  <2>3. obj[r] \in Object
    BY <1>1 DEF UserEdit, ManagedInv, ManagedTypeOK
  <2>4. /\ obj'[r].spec = x /\ obj'[r].finalizer = obj[r].finalizer
        /\ \A t \in Res \ {r} : obj'[t] = obj[t]
    BY <2>1, <2>3 DEF Object, ManagedInv, ManagedTypeOK
  <2> QED
    BY <2>2, <2>4 DEF StaysHome
<1>2. CASE UserDelete(r)
  <2>1. obj[r] \in Object
    BY <1>2 DEF UserDelete, ManagedInv, ManagedTypeOK
  <2>2. \A k \in Object : /\ [k EXCEPT !.deleting = TRUE].spec = k.spec
                          /\ [k EXCEPT !.deleting = TRUE].finalizer = k.finalizer
    BY DEF Object
  <2>3. /\ obj'[r] \in {Gone, [obj[r] EXCEPT !.deleting = TRUE]}
        /\ \A t \in Res \ {r} : obj'[t] = obj[t]
    BY <1>2 DEF UserDelete, ManagedInv, ManagedTypeOK
  <2> QED
    <3>1. CASE s = r
      BY <1>2, <2>1, <2>2, <2>3, <3>1 DEF StaysHome
    <3>2. CASE s # r
      BY <2>3, <3>2 DEF StaysHome
    <3> QED
      BY <3>1, <3>2
<1>3. CASE UserCreate(r)
  <2>1. s # r /\ obj'[s] = obj[s]
    BY <1>3 DEF UserCreate, ManagedInv, ManagedTypeOK
  <2> QED
    BY <2>1 DEF StaysHome
<1>4. CASE GraceExpires(r)
  BY <1>4 DEF GraceExpires, StaysHome
<1> QED
  BY <1>1, <1>2, <1>3, <1>4 DEF UserStep
=============================================================================
