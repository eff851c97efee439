------------------------ MODULE ProviderConfigsProofs ------------------------
(***************************************************************************)
(* What ProviderConfigs promises, for any sets of processes, resources,    *)
(* ProviderConfigs and tenants and any bounds.                             *)
(***************************************************************************)
EXTENDS ProviderConfigs, ManagedReconcilerProofs

-----------------------------------------------------------------------------
(***************************************************************************)
(* What the reconciler's own steps do to the step a reconcile is at.       *)
(***************************************************************************)

\* The steps at which a reconcile has a client.
AtWork == {"observe", "addFinalizer", "pending", "create", "delete"}

\* A worker that goes from v to w without a call into the controller: it is at work only if
\* it was, for the same reference, and comes to connect only from its first steps.
Moves(v, w) ==
  /\ w.pc \in AtWork => v.pc \in AtWork /\ w.mg.spec = v.mg.spec
  /\ w.pc = "connect" => v.pc \in {"idle", "initialize"} \/ (v.pc = "connect" /\ w.mg.spec = v.mg.spec)
  /\ w.pc = "initialize" => v.pc \in {"idle", "initialize"}

LEMMA StayMoves ==
  ASSUME NEW v, NEW w, w.pc = v.pc, w.mg = v.mg
  PROVE  Moves(v, w)
  BY DEF Moves

\* A step of process p that leaves other workers alone, but for outdating their copies.
LEMMA OneMoves ==
  ASSUME ManagedInv, NEW p \in Procs, NEW r \in Res, NEW w, Moves(wk[p][r], w),
         wk' = [wk EXCEPT ![p][r] = w] \/ wk' = [Outdated(r) EXCEPT ![p][r] = w]
  PROVE  \A q \in Procs, s \in Res : Moves(wk[q][s], wk'[q][s])
<1>1. SUFFICES ASSUME NEW q \in Procs, NEW s \in Res
               PROVE  Moves(wk[q][s], wk'[q][s])
  OBVIOUS
<1>2. Outdated(r)[q][s].pc = wk[q][s].pc /\ Outdated(r)[q][s].mg = wk[q][s].mg
  <2>1. wk[q][s] \in Worker \cup {Idle}
    BY ManagedUse
  <2>2. [wk[q][s] EXCEPT !.fresh = FALSE].pc = wk[q][s].pc
        /\ [wk[q][s] EXCEPT !.fresh = FALSE].mg = wk[q][s].mg
    BY <2>1 DEF Worker, Idle
  <2> QED
    BY <2>2, ManagedUse DEF Outdated
<1>3. Outdated(r) \in [Procs -> [Res -> Worker \cup {Idle}]]
  BY OutdatedType
<1>4. CASE q = p /\ s = r
  BY <1>3, <1>4, ManagedUse
<1>5. CASE ~ (q = p /\ s = r)
  <2>1. wk'[q][s] \in {wk[q][s], Outdated(r)[q][s]}
    BY <1>3, <1>5, ManagedUse
  <2> QED
    BY <1>2, <2>1, StayMoves
<1> QED
  BY <1>4, <1>5

\* client.Update moves the worker to w, or ends the reconcile.
LEMMA WriteMoves ==
  ASSUME ManagedInv, NEW p \in Procs, NEW r \in Res, NEW o, NEW w, NEW c,
         wk[p][r] \in Worker, Write(p, r, o, w, c), wk[p][r].fresh => Moves(wk[p][r], w)
  PROVE  /\ \A q \in Procs, s \in Res : Moves(wk[q][s], wk'[q][s])
         /\ edits' = edits /\ \A s \in Res : obj'[s] # Gone => obj[s] # Gone
<1> DEFINE failed == [wk[p][r] EXCEPT !.pc = "status", !.mg.ready = c, !.mg.synced = "error"]
<1>1. failed.pc = "status" /\ [failed EXCEPT !.fresh = FALSE].pc = "status"
  BY DEF Worker
<1>2. Moves(wk[p][r], failed) /\ Moves(wk[p][r], [failed EXCEPT !.fresh = FALSE])
  <2> HIDE DEF failed
  <2> QED
    BY <1>1 DEF Moves, AtWork
<1>3. edits' = edits
  BY DEF Write
<1>4. \A s \in Res : obj'[s] # Gone => obj[s] # Gone
  BY ManagedUse DEF Write, ManagedInv, FreshCopies
<1>5. \/ wk[p][r].fresh /\ wk' = [Outdated(r) EXCEPT ![p][r] = w]
      \/ wk' = [Outdated(r) EXCEPT ![p][r] = [failed EXCEPT !.fresh = FALSE]]
      \/ wk' = [wk EXCEPT ![p][r] = failed]
  BY DEF Write
<1> HIDE DEF failed
<1> QED
  BY <1>2, <1>3, <1>4, <1>5, OneMoves

LEMMA FinishMoves ==
  ASSUME ManagedInv, NEW p \in Procs, NEW r \in Res, NEW c, NEW e, wk[p][r] \in Worker,
         Finish(p, r, c, e)
  PROVE  /\ \A q \in Procs, s \in Res : Moves(wk[q][s], wk'[q][s])
         /\ wk'[p][r].pc = "status"
<1> DEFINE w == [wk[p][r] EXCEPT !.pc = "status", !.mg = [wk[p][r].mg EXCEPT !.ready = c, !.synced = e]]
<1>1. w.pc = "status"
  BY DEF Worker
<1>2. wk' = [wk EXCEPT ![p][r] = w]
  BY ManagedUse DEF Finish, Go
<1> HIDE DEF w
<1>3. Moves(wk[p][r], w)
  BY <1>1 DEF Moves, AtWork
<1> QED
  BY <1>1, <1>2, <1>3, OneMoves, ManagedUse

LEMMA LibraryMoves ==
  ASSUME ManagedInv, NEW p \in Procs, NEW r \in Res, LibraryStep(p, r)
  PROVE  /\ \A q \in Procs, s \in Res : Moves(wk[q][s], wk'[q][s])
         /\ edits' = edits /\ \A s \in Res : obj'[s] # Gone => obj[s] # Gone
<1> DEFINE v == wk[p][r]
<1>1. CASE Start(p, r)
  <2>1. v.pc = "idle"
    BY <1>1 DEF Start, At
  <2>2. PICK w : /\ wk' = [wk EXCEPT ![p][r] = w]
                 /\ w.pc \in {"removeFinalizer", "initialize", "status", "connect"}
    <3>1. Started(obj[r]).pc \in {"status", "connect"}
      BY DEF Started
    <3>2. \A pc : [pc |-> pc, mg |-> obj[r], fresh |-> TRUE, seen |-> "none"].pc = pc
      OBVIOUS
    <3> QED
      BY <1>1, <3>1, <3>2 DEF Start
  <2>3. Moves(v, w)
    BY <2>1, <2>2 DEF Moves, AtWork
  <2> QED
    BY <1>1, <2>2, <2>3, OneMoves DEF Start
<1>2. CASE Initialize(p, r)
  <2> DEFINE o == Stored(r, [v.mg EXCEPT !.extName = r])
  <2>1. v \in Worker /\ v.pc = "initialize"
    BY <1>2, ManagedUse DEF Initialize, At
  <2>2. Started(o).pc \in {"status", "connect"}
    BY DEF Started
  <2>3. Moves(v, Started(o))
    BY <2>1, <2>2 DEF Moves, AtWork
  <2>4. Write(p, r, o, Started(o), v.mg.ready)
    BY <1>2 DEF Initialize
  <2> HIDE DEF o
  <2> QED
    BY <2>1, <2>3, <2>4, WriteMoves
<1>3. ASSUME NEW m, m.spec = v.mg.spec, v.mg \in Object, m \in Object, obj[r] # Gone
      PROVE  Stored(r, m) \in Object /\ Stored(r, m).spec = v.mg.spec
  BY <1>3, StoredFields
<1>4. CASE AddFinalizer(p, r)
  <2> DEFINE m == [v.mg EXCEPT !.finalizer = TRUE]
             o == Stored(r, m)
  <2>1. v \in Worker /\ v.pc = "addFinalizer" /\ v.mg \in Object
    BY <1>4, ManagedUse, WorkerUpdates DEF AddFinalizer, At
  <2>2. v.seen \in {"absent", "stale", "current"}
    BY <2>1, WorkerUpdates DEF ManagedInv, SeenFirst
  <2>3. m \in Object /\ m.spec = v.mg.spec
    BY <2>1 DEF Object
  <2>4. v.fresh => o \in Object /\ o.spec = v.mg.spec
    <3> HIDE DEF m
    <3> QED
      BY <1>3, <2>1, <2>3 DEF ManagedInv, FreshCopies
  <2>5. Write(p, r, o, Decided(o, v.seen), v.mg.ready)
    BY <1>4 DEF AddFinalizer
  <2> HIDE DEF o
  <2>6. v.fresh => Moves(v, Decided(o, v.seen))
    <3>1. SUFFICES ASSUME v.fresh PROVE Moves(v, Decided(o, v.seen))
      OBVIOUS
    <3>2. Decided(o, v.seen).pc \in {"pending", "update", "status"}
      BY <2>2 DEF Decided
    <3>3. Decided(o, v.seen).mg.spec = v.mg.spec
      BY <2>4, <3>1 DEF Decided, Object
    <3> QED
      BY <2>1, <3>2, <3>3 DEF Moves, AtWork
  <2> QED
    BY <2>1, <2>5, <2>6, WriteMoves
<1>5. CASE SetPending(p, r)
  <2> DEFINE m == [v.mg EXCEPT !.created = "pending"]
             o == Stored(r, m)
             w == [v EXCEPT !.pc = "create", !.mg = o]
  <2>1. v \in Worker /\ v.pc = "pending" /\ v.mg \in Object
    BY <1>5, ManagedUse, WorkerUpdates DEF SetPending, At
  <2>2. m \in Object /\ m.spec = v.mg.spec
    BY <2>1 DEF Object
  <2>3. v.fresh => o \in Object /\ o.spec = v.mg.spec
    <3> HIDE DEF m
    <3> QED
      BY <1>3, <2>1, <2>2 DEF ManagedInv, FreshCopies
  <2>4. Write(p, r, o, w, "creating")
    BY <1>5 DEF SetPending
  <2>5. w.pc = "create" /\ w.mg = o
    <3> HIDE DEF o
    <3> QED
      BY <2>1 DEF Worker
  <2>6. v.fresh => Moves(v, w)
    BY <2>1, <2>3, <2>5 DEF Moves, AtWork
  <2> HIDE DEF o, w
  <2> QED
    BY <2>1, <2>4, <2>6, WriteMoves
<1>6. CASE RecordCreate(p, r)
  <2>1. v \in Worker
    BY <1>6, ManagedUse DEF RecordCreate, At
  <2>2. edits' = edits /\ \A s \in Res : obj'[s] # Gone => obj[s] # Gone
    BY <1>6, ManagedUse DEF RecordCreate
  <2>3. CASE Finish(p, r, "creating", "error")
    BY <2>1, <2>2, <2>3, FinishMoves
  <2>4. CASE ~ Finish(p, r, "creating", "error")
    <3>1. PICK w : w.pc = "status" /\ wk' = [Outdated(r) EXCEPT ![p][r] = w]
      BY <1>6, <2>4 DEF RecordCreate
    <3>2. Moves(v, w)
      BY <3>1 DEF Moves, AtWork
    <3> QED
      BY <2>2, <3>1, <3>2, OneMoves
  <2> QED
    BY <2>3, <2>4
<1>7. CASE WriteStatus(p, r)
  <2>1. edits' = edits /\ \A s \in Res : obj'[s] # Gone => obj[s] # Gone
    BY <1>7, ManagedUse DEF WriteStatus, ManagedInv, FreshCopies
  <2>2. Moves(v, Idle)
    BY DEF Moves, AtWork, Idle
  <2>3. wk' = [wk EXCEPT ![p][r] = Idle] \/ wk' = [Outdated(r) EXCEPT ![p][r] = Idle]
    BY <1>7 DEF WriteStatus
  <2> QED
    BY <2>1, <2>2, <2>3, OneMoves
<1>8. CASE RemoveFinalizer(p, r)
  <2>1. v \in Worker
    BY <1>8, ManagedUse DEF RemoveFinalizer, At
  <2>2. edits' = edits /\ \A s \in Res : obj'[s] # Gone => obj[s] # Gone
    BY <1>8, ManagedUse DEF RemoveFinalizer
  <2>3. CASE Fail(p, r)
    BY <2>1, <2>2, <2>3, FinishMoves DEF Fail
  <2>4. CASE ~ Fail(p, r)
    <3> DEFINE w == [v EXCEPT !.pc = "status", !.fresh = FALSE, !.mg.synced = "error"]
    <3>1. Moves(v, Idle) /\ Moves(v, w)
      <4>1. Idle.pc = "idle" /\ w.pc = "status"
        BY <2>1 DEF Idle, Worker
      <4> HIDE DEF w
      <4> QED
        BY <4>1 DEF Moves, AtWork
    <3>2. \/ wk' = [wk EXCEPT ![p][r] = Idle] \/ wk' = [Outdated(r) EXCEPT ![p][r] = Idle]
          \/ wk' = [Outdated(r) EXCEPT ![p][r] = w]
      BY <1>8, <2>4 DEF RemoveFinalizer
    <3> HIDE DEF w
    <3> QED
      BY <2>2, <3>1, <3>2, OneMoves
  <2> QED
    BY <2>3, <2>4
<1> QED
  BY <1>1, <1>2, <1>4, <1>5, <1>6, <1>7, <1>8 DEF LibraryStep

-----------------------------------------------------------------------------
(***************************************************************************)
(* Type correctness.                                                       *)
(***************************************************************************)

\* What a reconcile has read by the time it needs it; w is the worker, c its connection.
ConnOK(w, c) ==
  /\ c.step \in {"trackAgain", "credentials", "done"} => c.read \in ConfigSpecs
  /\ w.pc \in AtWork => c.step = "done"
  /\ w.pc \in {"idle", "initialize"} => c.step = "track"

ConnInv == \A p \in Procs, r \in Res : ConnOK(wk[p][r], conn[p][r])

\* Every UID stands for a creation.
UidInv == \A r \in Res : uid[r] <= edits

\* What is used was typed when it was read, and UIDs are bounded by the edits.
TypeInv == ManagedInv /\ TypeOK /\ ConnInv /\ UidInv

LEMMA TypeUse ==
  ASSUME TypeInv
  PROVE  /\ ManagedInv /\ ConnInv /\ UidInv
         /\ configs \in [Configs -> Config \cup {NoConfig}] /\ secret \in BOOLEAN
         /\ uid \in [Res -> UIDs] /\ usage \in [Res -> [UIDs -> Usage \cup {NoUsage}]]
         /\ conn \in [Procs -> [Res -> Connection]]
         /\ keeper \in [Procs -> [Configs -> Keeper \cup {Resting}]]
         /\ things \subseteq Res \X Tenants /\ changes \in 0..MaxChanges
         /\ edits \in 0..MaxEdits
  BY DEF TypeInv, TypeOK, ManagedTypeOK

LEMMA TypeFrom ==
  ASSUME ManagedInv', ConnInv', UidInv',
         configs' \in [Configs -> Config \cup {NoConfig}], secret' \in BOOLEAN,
         uid' \in [Res -> UIDs], usage' \in [Res -> [UIDs -> Usage \cup {NoUsage}]],
         conn' \in [Procs -> [Res -> Connection]],
         keeper' \in [Procs -> [Configs -> Keeper \cup {Resting}]],
         things' \subseteq Res \X Tenants, changes' \in 0..MaxChanges
  PROVE  TypeInv'
  BY DEF TypeInv, TypeOK, ManagedInv

\* A step that leaves resources, workers and connections alone.
LEMMA AsideType ==
  ASSUME TypeInv, UNCHANGED <<managedVars, conn, uid>>,
         configs' \in [Configs -> Config \cup {NoConfig}], secret' \in BOOLEAN,
         usage' \in [Res -> [UIDs -> Usage \cup {NoUsage}]],
         keeper' \in [Procs -> [Configs -> Keeper \cup {Resting}]],
         things' = things, changes' \in 0..MaxChanges
  PROVE  TypeInv'
<1>1. ManagedInv'
  BY TypeUse, SameType
<1>2. ConnInv' /\ UidInv'
  BY TypeUse DEF ConnInv, ConnOK, UidInv, managedVars
<1> QED
  BY <1>1, <1>2, TypeUse, TypeFrom

LEMMA ChangeType ==
  ASSUME TypeInv, Change
  PROVE  changes' \in 0..MaxChanges
  BY TypeUse, ProviderConfigAssumption DEF Change

LEMMA OutdatedKeeper ==
  ASSUME NEW k \in Keeper \cup {Resting}
  PROVE  [k EXCEPT !.fresh = FALSE] \in Keeper \cup {Resting}
<1>1. CASE k \in Keeper
  BY <1>1 DEF Keeper
<1>2. CASE k = Resting
  <2>1. [Resting EXCEPT !.fresh = FALSE] = Resting
    BY Resting.fresh = FALSE DEF Resting
  <2> QED
    BY <1>2, <2>1
<1> QED
  BY <1>1, <1>2

LEMMA StoreConfigType ==
  ASSUME TypeInv, NEW c \in Configs, NEW o \in Config \cup {NoConfig}, StoreConfig(c, o)
  PROVE  /\ configs' \in [Configs -> Config \cup {NoConfig}]
         /\ keeper' \in [Procs -> [Configs -> Keeper \cup {Resting}]]
<1>1. \A k \in Keeper \cup {Resting} : [k EXCEPT !.fresh = FALSE] \in Keeper \cup {Resting}
  BY OutdatedKeeper
<1>2. configs' \in [Configs -> Config \cup {NoConfig}]
  BY TypeUse DEF StoreConfig
<1>3. keeper' \in [Procs -> [Configs -> Keeper \cup {Resting}]]
  <2>1. \A p \in Procs : [keeper[p] EXCEPT ![c].fresh = FALSE] \in [Configs -> Keeper \cup {Resting}]
    BY <1>1, TypeUse
  <2> QED
    BY <2>1 DEF StoreConfig
<1> QED
  BY <1>2, <1>3

LEMMA ConfigUserType ==
  ASSUME TypeInv, NEW c \in Configs, ConfigCreate(c) \/ ConfigEdit(c) \/ ConfigDelete(c)
  PROVE  TypeInv'
<1>1. PICK o \in Config \cup {NoConfig} : StoreConfig(c, o)
  <2>1. configs[c] # NoConfig => configs[c] \in Config
    BY TypeUse
  <2>2. /\ \A s \in ConfigSpecs : New(s) \in Config
        /\ \A k \in Config : [k EXCEPT !.deleting = TRUE] \in Config
        /\ \A k \in Config, s \in ConfigSpecs : [k EXCEPT !.spec = s] \in Config
    BY DEF Config, New
  <2>3. CASE ConfigCreate(c)
    BY <2>2, <2>3 DEF ConfigCreate
  <2>4. CASE ConfigEdit(c)
    BY <2>1, <2>2, <2>4 DEF ConfigEdit
  <2>5. CASE ConfigDelete(c)
    <3>1. [configs[c] EXCEPT !.deleting = TRUE] \in Config
      BY <2>1, <2>2, <2>5 DEF ConfigDelete
    <3> QED
      BY <2>5, <3>1 DEF ConfigDelete
  <2> QED
    BY <2>3, <2>4, <2>5
<1>2. /\ Change /\ UNCHANGED <<managedVars, conn, uid>>
      /\ secret' = secret /\ usage' = usage /\ things' = things
  BY DEF ConfigCreate, ConfigEdit, ConfigDelete
<1>3. /\ configs' \in [Configs -> Config \cup {NoConfig}]
      /\ keeper' \in [Procs -> [Configs -> Keeper \cup {Resting}]]
  BY <1>1, StoreConfigType
<1> QED
  BY <1>2, <1>3, TypeUse, ChangeType, AsideType

LEMMA SecretType ==
  ASSUME TypeInv, SecretChange
  PROVE  TypeInv'
<1>1. changes' \in 0..MaxChanges /\ secret' \in BOOLEAN
  BY ChangeType DEF SecretChange
<1>2. UNCHANGED <<managedVars, conn, uid, configs, usage, keeper, things>>
  BY DEF SecretChange
<1> QED
  BY <1>1, <1>2, TypeUse, AsideType

LEMMA CollectType ==
  ASSUME TypeInv, NEW r \in Res, NEW u \in UIDs, Collect(r, u)
  PROVE  TypeInv'
<1>1. usage' \in [Res -> [UIDs -> Usage \cup {NoUsage}]]
  BY TypeUse DEF Collect
<1>2. UNCHANGED <<managedVars, conn, uid, configs, secret, keeper, things, changes>>
  BY DEF Collect
<1> QED
  BY <1>1, <1>2, TypeUse, AsideType

LEMMA CountType ==
  ASSUME TypeInv, NEW p \in Procs, NEW c \in Configs, Count(p, c)
  PROVE  TypeInv'
<1> DEFINE users == \E r \in Res, u \in UIDs : usage[r][u].config = c
           k == [copy |-> configs[c], fresh |-> TRUE, users |-> users]
<1>1. configs[c] \in Config /\ users \in BOOLEAN
  BY TypeUse DEF Count
<1> HIDE DEF users
<1>2. k \in Keeper
  BY <1>1 DEF Keeper
<1>3. keeper' = [keeper EXCEPT ![p][c] = k]
  BY DEF Count, users
<1> HIDE DEF k
<1>4. keeper' \in [Procs -> [Configs -> Keeper \cup {Resting}]]
  BY <1>2, <1>3, TypeUse
<1>5. UNCHANGED <<managedVars, conn, uid, configs, secret, usage, things, changes>>
  BY DEF Count
<1> QED
  BY <1>4, <1>5, TypeUse, AsideType

\* Only faults and ProviderConfigs, and what is known of them, change.
LEMMA SettleType ==
  ASSUME TypeInv, NEW p \in Procs, NEW c \in Configs, Settle(p, c)
  PROVE  TypeInv'
<1> DEFINE k == keeper[p][c]
<1>1. k \in Keeper /\ k.copy \in Config /\ [k.copy EXCEPT !.finalizer = TRUE] \in Config
  <2>1. k \in Keeper
    BY TypeUse DEF Settle
  <2>2. k.copy \in Config
    BY <2>1 DEF Keeper
  <2> QED
    BY <2>1, <2>2 DEF Config
<1>2. Resting \in Keeper \cup {Resting}
  OBVIOUS
<1>3. ASSUME NEW o \in Config \cup {NoConfig},
             configs' = [configs EXCEPT ![c] = o],
             keeper' = [q \in Procs |-> [keeper[q] EXCEPT ![c] =
                          IF q = p THEN Resting ELSE [@ EXCEPT !.fresh = FALSE]]]
      PROVE  /\ configs' \in [Configs -> Config \cup {NoConfig}]
             /\ keeper' \in [Procs -> [Configs -> Keeper \cup {Resting}]]
  <2>1. configs' \in [Configs -> Config \cup {NoConfig}]
    BY <1>3, TypeUse
  <2>2. \A q \in Procs : [keeper[q] EXCEPT ![c] = IF q = p THEN Resting ELSE [@ EXCEPT !.fresh = FALSE]]
                           \in [Configs -> Keeper \cup {Resting}]
    <3>1. \A x \in Keeper \cup {Resting} : [x EXCEPT !.fresh = FALSE] \in Keeper \cup {Resting}
      BY OutdatedKeeper
    <3> QED
      BY <3>1, TypeUse
  <2> QED
    BY <1>3, <2>1, <2>2
<1>4. /\ configs' \in [Configs -> Config \cup {NoConfig}]
      /\ keeper' \in [Procs -> [Configs -> Keeper \cup {Resting}]]
  <2>1. CASE configs' = configs /\ keeper' = [keeper EXCEPT ![p][c] = Resting]
    BY <1>2, <2>1, TypeUse
  <2>2. CASE ~ (configs' = configs /\ keeper' = [keeper EXCEPT ![p][c] = Resting])
    BY <1>1, <1>3, <2>2 DEF Settle
  <2> QED
    BY <2>1, <2>2
<1>5. /\ obj' = obj /\ recent' = recent /\ wk' = wk /\ edits' = edits
      /\ UNCHANGED <<conn, uid, secret, usage, things, changes>>
      /\ Fault \/ faults' = faults
  BY DEF Settle
<1>6. ManagedInv'
  <2>1. faults' \in 0..MaxFaults
    BY <1>5, TypeUse, FaultType
  <2> QED
    BY <1>5, <2>1, TypeUse DEF ManagedInv, ManagedTypeOK, FreshCopies, SeenFirst
<1>7. ConnInv' /\ UidInv'
  BY <1>5, TypeUse DEF ConnInv, ConnOK, UidInv
<1> QED
  BY <1>4, <1>5, <1>6, <1>7, TypeUse, TypeFrom

\* Users leave the steps of reconciles alone, and a new resource has a new UID.
LEMMA UserMoves ==
  ASSUME ManagedInv, NEW r \in Res, UserStep(r) \/ GraceExpires(r)
  PROVE  /\ \A q \in Procs, s \in Res : wk'[q][s].pc = wk[q][s].pc /\ wk'[q][s].mg = wk[q][s].mg
         /\ edits' \in {edits, edits + 1}
         /\ obj[r] = Gone /\ obj'[r] # Gone => edits' = edits + 1
         /\ \A s \in Res \ {r} : obj'[s] = obj[s]
<1>1. \A q \in Procs, s \in Res :
        /\ Outdated(r)[q][s].pc = wk[q][s].pc /\ Outdated(r)[q][s].mg = wk[q][s].mg
  <2>1. TAKE q \in Procs, s \in Res
  <2>2. wk[q][s] \in Worker \cup {Idle}
    BY ManagedUse
  <2>3. /\ [wk[q][s] EXCEPT !.fresh = FALSE].pc = wk[q][s].pc
        /\ [wk[q][s] EXCEPT !.fresh = FALSE].mg = wk[q][s].mg
    BY <2>2 DEF Worker, Idle
  <2> QED
    BY <2>3, ManagedUse DEF Outdated
<1>2. wk' = wk \/ wk' = Outdated(r)
  BY DEF UserStep, UserCreate, UserEdit, UserDelete, GraceExpires
<1>3. /\ edits' \in {edits, edits + 1}
      /\ obj[r] = Gone /\ obj'[r] # Gone => edits' = edits + 1
  BY DEF UserStep, UserCreate, UserEdit, UserDelete, GraceExpires, Edit
<1>4. \A s \in Res \ {r} : obj'[s] = obj[s]
  <2>1. obj \in [Res -> Object \cup {Gone}]
    BY DEF ManagedInv, ManagedTypeOK
  <2> QED
    BY <2>1 DEF UserStep, UserCreate, UserEdit, UserDelete, GraceExpires
<1> QED
  BY <1>1, <1>2, <1>3, <1>4

LEMMA ResourceType ==
  ASSUME TypeInv, NEW r \in Res, ResourceStep(r)
  PROVE  TypeInv'
<1>1. ManagedInv'
  BY TypeUse, UserType DEF ResourceStep
<1>2. UNCHANGED <<configs, secret, usage, conn, keeper, things, changes>>
  BY DEF ResourceStep
<1>3. ConnInv'
  <2>1. \A q \in Procs, s \in Res : wk'[q][s].pc = wk[q][s].pc
    BY TypeUse, UserMoves DEF ResourceStep
  <2> QED
    BY <1>2, <2>1, TypeUse DEF ConnInv, ConnOK
<1>4. uid' \in [Res -> UIDs] /\ UidInv'
  <2>1. edits' \in 0..MaxEdits
    BY <1>1 DEF ManagedInv, ManagedTypeOK
  <2>2. edits \in Nat /\ MaxEdits \in Nat /\ \A s \in Res : uid[s] \in Nat
    BY TypeUse, ManagedAssumption DEF UIDs
  <2>3. edits' \in {edits, edits + 1}
    BY TypeUse, UserMoves DEF ResourceStep
  <2>4. CASE uid' = uid
    BY <2>2, <2>3, <2>4, TypeUse DEF UidInv
  <2>5. CASE uid' = [uid EXCEPT ![r] = @ + 1] /\ edits' = edits + 1
    <3>1. uid[r] + 1 \in UIDs
      BY <2>1, <2>2, <2>5, TypeUse DEF UidInv, UIDs
    <3>2. uid' \in [Res -> UIDs]
      BY <2>5, <3>1, TypeUse
    <3>3. \A s \in Res : uid'[s] = IF s = r THEN uid[s] + 1 ELSE uid[s]
      BY <2>5, TypeUse
    <3>4. UidInv'
      BY <2>2, <2>5, <3>3, TypeUse DEF UidInv
    <3> QED
      BY <3>2, <3>4
  <2> QED
    BY <2>4, <2>5, TypeUse, UserMoves DEF ResourceStep
<1> QED
  BY <1>1, <1>2, <1>3, <1>4, TypeUse, TypeFrom

\* What is left to show of a step of a reconcile.
LEMMA ReconcileType ==
  ASSUME TypeInv, ManagedInv', edits' = edits, UNCHANGED <<configs, secret, keeper, changes, uid>>,
         usage' \in [Res -> [UIDs -> Usage \cup {NoUsage}]], things' \subseteq Res \X Tenants,
         conn' \in [Procs -> [Res -> Connection]],
         \A q \in Procs, s \in Res : ConnOK(wk'[q][s], conn'[q][s])
  PROVE  TypeInv'
<1>1. ConnInv' /\ UidInv'
  BY TypeUse DEF ConnInv, UidInv
<1> QED
  BY <1>1, TypeUse, TypeFrom

\* A step that changes worker p, r and its connection alone.
LEMMA OneConn ==
  ASSUME TypeInv, NEW p \in Procs, NEW r \in Res, NEW w, NEW c \in Connection,
         wk' = [wk EXCEPT ![p][r] = w], conn' = [conn EXCEPT ![p][r] = c], ConnOK(w, c)
  PROVE  /\ conn' \in [Procs -> [Res -> Connection]]
         /\ \A q \in Procs, s \in Res : ConnOK(wk'[q][s], conn'[q][s])
<1>1. conn' \in [Procs -> [Res -> Connection]]
  BY TypeUse
<1>2. SUFFICES ASSUME NEW q \in Procs, NEW s \in Res
               PROVE  ConnOK(wk'[q][s], conn'[q][s])
  BY <1>1
<1>3. CASE q = p /\ s = r
  BY <1>3, TypeUse, ManagedUse
<1>4. CASE ~ (q = p /\ s = r)
  <2>1. wk'[q][s] = wk[q][s] /\ conn'[q][s] = conn[q][s]
    BY <1>4, TypeUse, ManagedUse
  <2> QED
    BY <2>1, TypeUse DEF ConnInv
<1> QED
  BY <1>3, <1>4

\* The same for a reconcile that ends with its status.
LEMMA FinishConn ==
  ASSUME TypeInv, NEW p \in Procs, NEW r \in Res, wk[p][r] \in Worker, NEW c, NEW e,
         Finish(p, r, c, e), conn' = conn
  PROVE  /\ conn' \in [Procs -> [Res -> Connection]]
         /\ \A q \in Procs, s \in Res : ConnOK(wk'[q][s], conn'[q][s])
<1> DEFINE w == [wk[p][r] EXCEPT !.pc = "status", !.mg = [wk[p][r].mg EXCEPT !.ready = c, !.synced = e]]
<1>1. w.pc = "status"
  BY DEF Worker
<1>2. wk' = [wk EXCEPT ![p][r] = w]
  BY TypeUse, ManagedUse DEF Finish, Go
<1>3. conn' = [conn EXCEPT ![p][r] = conn[p][r]] /\ conn[p][r] \in Connection
  BY TypeUse
<1> HIDE DEF w
<1>4. ConnOK(w, conn[p][r])
  BY <1>1, TypeUse DEF ConnInv, ConnOK, AtWork
<1> QED
  BY <1>2, <1>3, <1>4, OneConn

LEMMA RecordedType ==
  ASSUME TypeInv, NEW p \in Procs, NEW r \in Res, wk[p][r] \in Worker, Recorded(p, r)
  PROVE  usage' \in [Res -> [UIDs -> Usage \cup {NoUsage}]]
<1> DEFINE u == conn[p][r].uid
           c == Reference(p, r)
           early == configs[c] # NoConfig /\ configs[c].finalizer /\ ~ configs[c].deleting
           n == [config |-> c, early |-> early]
<1>1. u \in UIDs
  BY TypeUse DEF Connection
<1>2. c \in Configs
  BY WorkerUpdates DEF Reference, Object, Configs
<1>3. early \in BOOLEAN
  <2>1. configs[c] # NoConfig => configs[c].finalizer \in BOOLEAN /\ configs[c].deleting \in BOOLEAN
    BY <1>2, TypeUse DEF Config
  <2> QED
    BY <2>1
<1>4. n \in Usage
  <2> HIDE DEF c, early
  <2> QED
    BY <1>2, <1>3 DEF Usage
<1>5. usage' = usage \/ usage' = [usage EXCEPT ![r][u] = n]
  BY DEF Recorded
<1> HIDE DEF u, n
<1>6. CASE usage' = usage
  BY <1>6, TypeUse
<1>7. CASE usage' = [usage EXCEPT ![r][u] = n]
  <2>1. [usage[r] EXCEPT ![u] = n] \in [UIDs -> Usage \cup {NoUsage}]
    BY <1>1, <1>4, TypeUse
  <2> QED
    BY <1>7, <2>1, TypeUse
<1> QED
  BY <1>5, <1>6, <1>7

LEMMA ConnectType ==
  ASSUME TypeInv, NEW p \in Procs, NEW r \in Res, Connect(p, r)
  PROVE  TypeInv'
<1> DEFINE v == wk[p][r]
           x == conn[p][r]
<1>1. /\ v.pc = "connect" /\ v \in Worker /\ v.mg \in Object /\ v.mg.spec \in Configs
      /\ x \in Connection
      /\ x.step \in {"trackAgain", "credentials", "done"} => x.read \in ConfigSpecs
  <2>1. v.pc = "connect"
    BY DEF Connect, Track, CheckConfig, ReadConfig, ReadCredentials, Connecting, At
  <2>2. v \in Worker /\ v.mg \in Object
    BY <2>1, TypeUse, ManagedUse, WorkerUpdates
  <2> QED
    BY <2>1, <2>2, TypeUse DEF ConnInv, ConnOK, Object, Configs
<1>2. /\ obj' = obj /\ recent' = recent /\ edits' = edits /\ things' = things
      /\ UNCHANGED <<configs, secret, keeper, changes, uid>> /\ faults' \in 0..MaxFaults
  <2>1. Fault \/ faults' = faults
    BY DEF Connect, Track, CheckConfig, ReadConfig, ReadCredentials, Advance, Refuse, Broken
  <2> QED
    BY <2>1, TypeUse, FaultType
       DEF Connect, Track, CheckConfig, ReadConfig, ReadCredentials, ConnectLeaves
<1>3. usage' \in [Res -> [UIDs -> Usage \cup {NoUsage}]]
  BY <1>1, TypeUse, RecordedType DEF Connect, Track, CheckConfig, ReadConfig, ReadCredentials
<1>4. CASE Fail(p, r) /\ conn' = conn
  <2>1. ManagedInv'
    BY <1>1, <1>2, <1>4, TypeUse, ManagedUse, FailType
  <2>2. /\ conn' \in [Procs -> [Res -> Connection]]
        /\ \A q \in Procs, s \in Res : ConnOK(wk'[q][s], conn'[q][s])
    BY <1>1, <1>4, FinishConn DEF Fail
  <2> QED
    BY <1>2, <1>3, <2>1, <2>2, TypeUse, ReconcileType
<1>5. ASSUME NEW c \in Connection, wk' = wk, conn' = [conn EXCEPT ![p][r] = c],
             c.step \in {"trackAgain", "credentials", "done"} => c.read \in ConfigSpecs
      PROVE  TypeInv'
  <2>1. ManagedInv'
    BY <1>2, <1>5, TypeUse DEF ManagedInv, ManagedTypeOK, FreshCopies, SeenFirst
  <2>2. wk' = [wk EXCEPT ![p][r] = v]
    BY <1>5, TypeUse, ManagedUse
  <2>3. ConnOK(v, c)
    BY <1>1, <1>5 DEF ConnOK, AtWork
  <2>4. /\ conn' \in [Procs -> [Res -> Connection]]
        /\ \A q \in Procs, s \in Res : ConnOK(wk'[q][s], conn'[q][s])
    BY <1>5, <2>2, <2>3, OneConn
  <2> QED
    BY <1>2, <1>3, <2>1, <2>4, TypeUse, ReconcileType
<1>6. ASSUME NEW step \in {"check", "read", "trackAgain", "credentials", "done"}
      PROVE  /\ [x EXCEPT !.step = step] \in Connection
             /\ [x EXCEPT !.step = step].step = step /\ [x EXCEPT !.step = step].read = x.read
  BY <1>1 DEF Connection
<1>7. ASSUME NEW step \in {"check", "read", "credentials"}, Advance(p, r, step),
             step = "credentials" => x.step = "trackAgain"
      PROVE  TypeInv'
  <2>1. conn' = [conn EXCEPT ![p][r] = [x EXCEPT !.step = step]] /\ wk' = wk
    BY <1>7, TypeUse DEF Advance
  <2> QED
    BY <1>1, <1>5, <1>6, <1>7, <2>1
<1>8. CASE Track(p, r, "track", "check")
  BY <1>4, <1>7, <1>8 DEF Track, Broken
<1>9. CASE CheckConfig(p, r)
  BY <1>4, <1>7, <1>9 DEF CheckConfig, Refuse, Broken
<1>10. CASE ReadConfig(p, r)
  <2>1. CASE configs[v.mg.spec] # NoConfig /\ wk' = wk
             /\ conn' = [conn EXCEPT ![p][r].step = "trackAgain", ![p][r].read = configs[v.mg.spec].spec]
    <3> DEFINE c == [x EXCEPT !.step = "trackAgain", !.read = configs[v.mg.spec].spec]
    <3>1. configs[v.mg.spec].spec \in ConfigSpecs
      BY <1>1, <2>1, TypeUse DEF Config
    <3>2. c \in Connection /\ c.read \in ConfigSpecs
      BY <1>1, <3>1 DEF Connection
    <3>3. conn' = [conn EXCEPT ![p][r] = c]
      BY <2>1, TypeUse
    <3> HIDE DEF c
    <3> QED
      BY <1>5, <2>1, <3>2, <3>3
  <2> QED
    BY <1>4, <1>10, <2>1 DEF ReadConfig, Refuse, Broken, Reference
<1>11. CASE Track(p, r, "trackAgain", "credentials")
  BY <1>4, <1>7, <1>11 DEF Track, Broken, Connecting
<1>12. CASE ReadCredentials(p, r)
  <2>1. CASE Go(p, r, "observe", v.mg) /\ conn' = [conn EXCEPT ![p][r].step = "done"]
             /\ x.step = "credentials"
    <3> DEFINE w == [v EXCEPT !.pc = "observe", !.mg = v.mg]
               c == [x EXCEPT !.step = "done"]
    <3>1. ManagedInv'
      BY <1>1, <1>2, <2>1, TypeUse, ManagedUse, GoType
    <3>2. c \in Connection /\ c.step = "done" /\ c.read = x.read
      BY <1>6
    <3>3. w.pc = "observe"
      BY <1>1 DEF Worker
    <3>4. wk' = [wk EXCEPT ![p][r] = w] /\ conn' = [conn EXCEPT ![p][r] = c]
      BY <2>1, TypeUse, ManagedUse DEF Go
    <3> HIDE DEF w, c
    <3>5. ConnOK(w, c)
      BY <1>1, <2>1, <3>2, <3>3 DEF ConnOK
    <3>6. /\ conn' \in [Procs -> [Res -> Connection]]
          /\ \A q \in Procs, s \in Res : ConnOK(wk'[q][s], conn'[q][s])
      BY <3>2, <3>4, <3>5, OneConn
    <3> QED
      BY <1>2, <1>3, <3>1, <3>6, TypeUse, ReconcileType
  <2> QED
    BY <1>4, <1>12, <2>1 DEF ReadCredentials, Refuse, Broken, Connecting
<1> QED
  BY <1>8, <1>9, <1>10, <1>11, <1>12 DEF Connect

\* Connections that are kept by the reconciles that go on.
LEMMA KeptConn ==
  ASSUME TypeInv, ManagedInv', \A q \in Procs, s \in Res : Moves(wk[q][s], wk'[q][s]),
         NEW c \in [Procs -> [Res -> Connection]], KeepConnections(c),
         \A q \in Procs, s \in Res : c[q][s].step = conn[q][s].step /\ c[q][s].read = conn[q][s].read
  PROVE  /\ conn' \in [Procs -> [Res -> Connection]]
         /\ \A q \in Procs, s \in Res : ConnOK(wk'[q][s], conn'[q][s])
<1>1. Unconnected \in Connection /\ Unconnected.step = "track"
  BY ManagedAssumption DEF Unconnected, Connection, UIDs
<1>2. conn' \in [Procs -> [Res -> Connection]]
  BY <1>1 DEF KeepConnections
<1>3. SUFFICES ASSUME NEW q \in Procs, NEW s \in Res
               PROVE  ConnOK(wk'[q][s], conn'[q][s])
  BY <1>2
<1>4. CASE wk'[q][s] = Idle
  <2>1. conn'[q][s] = Unconnected
    BY <1>4 DEF KeepConnections
  <2> QED
    BY <1>1, <1>4, <2>1 DEF ConnOK, Idle, AtWork
<1>5. CASE wk'[q][s] # Idle
  <2>1. conn'[q][s] = c[q][s]
    BY <1>5 DEF KeepConnections
  <2>2. wk'[q][s].pc # "idle"
    <3>1. wk'[q][s] \in Worker
      BY <1>5 DEF ManagedInv, ManagedTypeOK
    <3> QED
      BY <3>1 DEF Worker
  <2>3. Moves(wk[q][s], wk'[q][s]) /\ ConnOK(wk[q][s], conn[q][s])
    BY TypeUse DEF ConnInv
  <2>4. c[q][s].step = conn[q][s].step /\ c[q][s].read = conn[q][s].read
    OBVIOUS
  <2>5. CASE wk'[q][s].pc \in AtWork
    BY <2>1, <2>3, <2>4, <2>5 DEF Moves, ConnOK, AtWork
  <2>6. CASE wk'[q][s].pc = "initialize"
    BY <2>1, <2>3, <2>4, <2>6 DEF Moves, ConnOK, AtWork
  <2> QED
    BY <2>1, <2>2, <2>3, <2>4, <2>5, <2>6 DEF ConnOK
<1> QED
  BY <1>4, <1>5

\* The same where none comes to rest.
LEMMA SameConn ==
  ASSUME TypeInv, \A q \in Procs, s \in Res : Moves(wk[q][s], wk'[q][s]), conn' = conn,
         \A q \in Procs, s \in Res : wk'[q][s].pc = "idle" => wk[q][s].pc = "idle"
  PROVE  /\ conn' \in [Procs -> [Res -> Connection]]
         /\ \A q \in Procs, s \in Res : ConnOK(wk'[q][s], conn'[q][s])
  BY TypeUse DEF Moves, ConnOK, ConnInv

LEMMA KilledMoves ==
  ASSUME ManagedInv, NEW p \in Procs, wk' = Killed(p)
  PROVE  \A q \in Procs, s \in Res : Moves(wk[q][s], wk'[q][s])
<1>1. TAKE q \in Procs, s \in Res
<1>2. wk'[q][s] = Idle \/ wk'[q][s] = wk[q][s]
  BY ManagedUse DEF Killed
<1> QED
  BY <1>2, StayMoves DEF Moves, Idle, AtWork

LEMMA CrashTypes ==
  ASSUME TypeInv, NEW p \in Procs, ProcessCrash(p) \/ \E r \in Res : PanicStep(p, r)
  PROVE  TypeInv'
<1>1. /\ wk' = Killed(p) /\ KeepConnections(conn)
      /\ keeper' = [keeper EXCEPT ![p] = [c \in Configs |-> Resting]]
      /\ obj' = obj /\ recent' = recent /\ edits' = edits
      /\ UNCHANGED <<configs, secret, usage, things, changes, uid>>
      /\ Fault \/ faults' = faults
  BY DEF ProcessCrash, PanicStep, Crash
<1>2. faults' \in 0..MaxFaults
  BY <1>1, TypeUse, FaultType
<1>3. ManagedInv'
  BY <1>1, <1>2, TypeUse, KilledType DEF ManagedInv, ManagedTypeOK
<1>4. keeper' \in [Procs -> [Configs -> Keeper \cup {Resting}]]
  BY <1>1, TypeUse
<1>5. /\ conn' \in [Procs -> [Res -> Connection]]
      /\ \A q \in Procs, s \in Res : ConnOK(wk'[q][s], conn'[q][s])
  BY <1>1, <1>3, TypeUse, KilledMoves, KeptConn
<1>6. ConnInv' /\ UidInv'
  BY <1>1, <1>5, TypeUse DEF ConnInv, UidInv
<1> QED
  BY <1>1, <1>3, <1>4, <1>5, <1>6, TypeUse, TypeFrom

LEMMA LibraryPartType ==
  ASSUME TypeInv, NEW p \in Procs, NEW r \in Res, LibraryPart(p, r)
  PROVE  TypeInv'
<1> DEFINE c == IF wk[p][r] = Idle THEN [conn EXCEPT ![p][r].uid = uid[r]] ELSE conn
<1>1. ManagedInv' /\ LibraryStep(p, r)
  BY TypeUse, LibraryType DEF LibraryPart
<1>2. /\ \A q \in Procs, s \in Res : Moves(wk[q][s], wk'[q][s])
      /\ edits' = edits
  BY <1>1, TypeUse, LibraryMoves
<1>3. /\ c \in [Procs -> [Res -> Connection]]
      /\ \A q \in Procs, s \in Res : c[q][s].step = conn[q][s].step /\ c[q][s].read = conn[q][s].read
  <2>1. conn[p][r] \in Connection /\ uid[r] \in UIDs
    BY TypeUse
  <2> DEFINE x == [conn[p][r] EXCEPT !.uid = uid[r]]
  <2>2. x \in Connection /\ x.step = conn[p][r].step /\ x.read = conn[p][r].read
    BY <2>1 DEF Connection
  <2>3. [conn EXCEPT ![p][r].uid = uid[r]] = [conn EXCEPT ![p][r] = x]
    BY TypeUse
  <2> HIDE DEF x
  <2>4. /\ [conn EXCEPT ![p][r] = x] \in [Procs -> [Res -> Connection]]
        /\ \A q \in Procs, s \in Res :
             LET d == [conn EXCEPT ![p][r] = x]
             IN  d[q][s].step = conn[q][s].step /\ d[q][s].read = conn[q][s].read
    BY <2>2, TypeUse
  <2> QED
    BY <2>3, <2>4, TypeUse
<1>4. KeepConnections(c)
  BY DEF LibraryPart
<1> HIDE DEF c
<1>5. /\ conn' \in [Procs -> [Res -> Connection]]
      /\ \A q \in Procs, s \in Res : ConnOK(wk'[q][s], conn'[q][s])
  BY <1>1, <1>2, <1>3, <1>4, KeptConn
<1>6. UNCHANGED <<configs, secret, usage, keeper, things, changes, uid>>
  BY DEF LibraryPart
<1> QED
  BY <1>1, <1>2, <1>5, <1>6, TypeUse, ReconcileType

LEMMA GoMoves ==
  ASSUME ManagedInv, NEW p \in Procs, NEW r \in Res, NEW o, Go(p, r, "record", o), wk[p][r] \in Worker
  PROVE  /\ \A q \in Procs, s \in Res : Moves(wk[q][s], wk'[q][s])
         /\ wk'[p][r].pc = "record" /\ \A q \in Procs, s \in Res :
              ~ (q = p /\ s = r) => wk'[q][s] = wk[q][s]
<1> DEFINE w == [wk[p][r] EXCEPT !.pc = "record", !.mg = o]
<1>1. w.pc = "record"
  BY DEF Worker
<1>2. wk' = [wk EXCEPT ![p][r] = w]
  BY ManagedUse DEF Go
<1> HIDE DEF w
<1>3. Moves(wk[p][r], w)
  BY <1>1 DEF Moves, AtWork
<1> QED
  BY <1>1, <1>2, <1>3, OneMoves, ManagedUse

\* What comes after Observe.
LEMMA ObservedMoves ==
  ASSUME ManagedInv, NEW p \in Procs, NEW r \in Res, wk[p][r] \in Worker, wk[p][r].pc = "observe",
         Found(p, r, Available(wk[p][r].mg), TRUE) \/ NotFound(p, r, wk[p][r].mg)
  PROVE  \A q \in Procs, s \in Res : Moves(wk[q][s], wk'[q][s])
<1> DEFINE v == wk[p][r]
           o == Available(v.mg)
<1>1. v.mg \in Object /\ o \in Object /\ o.spec = v.mg.spec
  <2>1. v.mg \in Object
    BY WorkerUpdates
  <2> QED
    BY <2>1 DEF Available, Object
<1> HIDE DEF o
<1>2. ASSUME NEW m \in Object, m.spec = v.mg.spec, NEW seen \in {"absent", "current"}
      PROVE  Moves(v, Ensured(v, m, seen))
  <2>1. CASE m.finalizer
    <3> DEFINE d == Decided(m, seen)
    <3>1. d.pc \in {"pending", "status"} /\ d.mg.spec = v.mg.spec
      BY <1>2 DEF Decided, Object
    <3>2. [d EXCEPT !.fresh = v.fresh].pc = d.pc /\ [d EXCEPT !.fresh = v.fresh].mg = d.mg
      BY DEF Decided
    <3>3. Ensured(v, m, seen) = [d EXCEPT !.fresh = v.fresh]
      BY <2>1 DEF Ensured
    <3> HIDE DEF d
    <3> QED
      BY <3>1, <3>2, <3>3 DEF Moves, AtWork
  <2>2. CASE ~ m.finalizer
    <3>1. Ensured(v, m, seen) = [v EXCEPT !.pc = "addFinalizer", !.mg = m, !.seen = seen]
      BY <2>2 DEF Ensured
    <3>2. Ensured(v, m, seen).pc = "addFinalizer" /\ Ensured(v, m, seen).mg = m
      BY <3>1 DEF Worker
    <3> QED
      BY <1>2, <3>2 DEF Moves, AtWork
  <2> QED
    BY <2>1, <2>2
<1>3. CASE Found(p, r, o, TRUE)
  <2> DEFINE y == [v EXCEPT !.pc = "delete", !.mg = o]
             w == IF o.deleting THEN y ELSE Ensured(v, o, "current")
  <2>1. wk' = [wk EXCEPT ![p][r] = w]
    BY <1>3, ManagedUse DEF Found
  <2>2. y.pc = "delete" /\ y.mg = o
    BY DEF Worker
  <2>3. Moves(v, y)
    <3> HIDE DEF y
    <3> QED
      BY <1>1, <2>2 DEF Moves, AtWork
  <2>4. Moves(v, w)
    <3> HIDE DEF y
    <3> QED
      BY <1>1, <1>2, <2>3
  <2> HIDE DEF w
  <2> QED
    BY <2>1, <2>4, OneMoves
<1>4. CASE NotFound(p, r, v.mg)
  <2> DEFINE y == [v EXCEPT !.pc = "removeFinalizer"]
             w == IF v.mg.created = "succeeded" /\ r \in recent THEN Idle
                  ELSE IF v.mg.deleting THEN y ELSE Ensured(v, v.mg, "absent")
  <2>1. wk' = [wk EXCEPT ![p][r] = w]
    BY <1>4, ManagedUse DEF NotFound
  <2>2. y.pc = "removeFinalizer" /\ Idle.pc = "idle"
    BY DEF Worker, Idle
  <2>3. Moves(v, y) /\ Moves(v, Idle)
    <3> HIDE DEF y
    <3> QED
      BY <2>2 DEF Moves, AtWork
  <2>4. Moves(v, w)
    <3> HIDE DEF y
    <3> QED
      BY <1>1, <1>2, <2>3
  <2> HIDE DEF w
  <2> QED
    BY <2>1, <2>4, OneMoves
<1> QED
  BY <1>3, <1>4 DEF o

LEMMA UseType ==
  ASSUME TypeInv, NEW p \in Procs, NEW r \in Res, Observe(p, r) \/ Create(p, r) \/ Delete(p, r)
  PROVE  TypeInv'
<1> DEFINE v == wk[p][r]
<1>1. /\ v.pc \in {"observe", "create", "delete"} /\ v \in Worker /\ v.mg \in Object
      /\ conn[p][r].read \in ConfigSpecs
  <2>1. v.pc \in {"observe", "create", "delete"}
    BY DEF Observe, Create, Delete, At
  <2>2. v \in Worker /\ v.mg \in Object
    BY <2>1, TypeUse, ManagedUse, WorkerUpdates
  <2> QED
    BY <2>1, <2>2, TypeUse DEF ConnInv, ConnOK, AtWork
<1>2. /\ obj' = obj /\ recent' = recent /\ edits' = edits
      /\ UNCHANGED <<configs, secret, usage, keeper, changes, uid>> /\ faults' \in 0..MaxFaults
  <2>1. Fault \/ faults' = faults
    BY DEF Observe, Create, Delete
  <2> QED
    BY <2>1, TypeUse, FaultType DEF Observe, Create, Delete, UseLeaves
<1>3. things' \subseteq Res \X Tenants
  <2>1. Place(p, r) \in Res \X Tenants
    BY <1>1, ProviderConfigAssumption DEF Place
  <2>2. things' \in {things, things \cup {Place(p, r)}, things \ {Place(p, r)}}
    BY DEF Observe, Create, Delete
  <2> QED
    BY <2>1, <2>2, TypeUse
<1>4. ASSUME ManagedInv', /\ conn' \in [Procs -> [Res -> Connection]]
                          /\ \A q \in Procs, s \in Res : ConnOK(wk'[q][s], conn'[q][s])
      PROVE  TypeInv'
  BY <1>2, <1>3, <1>4, TypeUse, ReconcileType
<1>5. CASE Observe(p, r)
  <2>1. v.pc = "observe" /\ KeepConnections(conn) /\ conn \in [Procs -> [Res -> Connection]]
    BY <1>5, TypeUse DEF Observe, At
  <2>2. ManagedInv' /\ \A q \in Procs, s \in Res : Moves(wk[q][s], wk'[q][s])
    <3>1. CASE Found(p, r, Available(v.mg), TRUE)
      BY <1>1, <1>2, <2>1, <3>1, TypeUse, ManagedUse, FoundType, ObservedMoves
    <3>2. CASE NotFound(p, r, v.mg)
      BY <1>1, <1>2, <2>1, <3>2, TypeUse, ManagedUse, NotFoundType, ObservedMoves
    <3>3. CASE Fail(p, r)
      BY <1>1, <1>2, <3>3, TypeUse, ManagedUse, FailType, FinishMoves DEF Fail
    <3> QED
      BY <1>5, <3>1, <3>2, <3>3 DEF Observe
  <2>3. /\ conn' \in [Procs -> [Res -> Connection]]
        /\ \A q \in Procs, s \in Res : ConnOK(wk'[q][s], conn'[q][s])
    BY <2>1, <2>2, TypeUse, KeptConn
  <2> QED
    BY <1>4, <2>2, <2>3
<1>6. CASE Create(p, r)
  <2>1. PICK result \in {"succeeded", "failed"} : Created(p, r, result)
    BY <1>6 DEF Create
  <2>2. conn' = conn
    BY <1>6 DEF Create
  <2>3. ManagedInv'
    BY <1>1, <1>2, <2>1, TypeUse, ManagedUse, CreatedType
  <2>4. /\ \A q \in Procs, s \in Res : Moves(wk[q][s], wk'[q][s])
        /\ wk'[p][r].pc = "record"
        /\ \A q \in Procs, s \in Res : ~ (q = p /\ s = r) => wk'[q][s] = wk[q][s]
    BY <1>1, <2>1, TypeUse, GoMoves DEF Created
  <2>5. /\ conn' \in [Procs -> [Res -> Connection]]
        /\ \A q \in Procs, s \in Res : ConnOK(wk'[q][s], conn'[q][s])
    <3>1. \A q \in Procs, s \in Res : wk'[q][s].pc = "idle" => wk[q][s].pc = "idle"
      BY <2>4
    <3> QED
      BY <2>2, <2>4, <3>1, SameConn
  <2> QED
    BY <1>4, <2>3, <2>5
<1>7. CASE Delete(p, r)
  <2>1. PICK e \in {"success", "error"} : Finish(p, r, "deleting", e)
    BY <1>7 DEF Delete
  <2>2. conn' = conn
    BY <1>7 DEF Delete
  <2>3. ManagedInv'
    BY <1>1, <1>2, <2>1, TypeUse, ManagedUse, FinishType DEF Conditions
  <2>4. /\ conn' \in [Procs -> [Res -> Connection]]
        /\ \A q \in Procs, s \in Res : ConnOK(wk'[q][s], conn'[q][s])
    BY <1>1, <2>1, <2>2, FinishConn
  <2> QED
    BY <1>4, <2>3, <2>4
<1> QED
  BY <1>5, <1>6, <1>7

LEMMA TypeStep ==
  ASSUME TypeInv, [Next]_vars
  PROVE  TypeInv'
<1>1. CASE \E p \in Procs, r \in Res : Reconcile(p, r)
  BY <1>1, LibraryPartType, ConnectType, CrashTypes, UseType DEF Reconcile
<1>2. CASE \E p \in Procs, c \in Configs : ConfigReconcile(p, c)
  BY <1>2, CountType, SettleType DEF ConfigReconcile
<1>3. CASE \E r \in Res : ResourceStep(r)
  BY <1>3, ResourceType
<1>4. CASE \E r \in Res, u \in UIDs : Collect(r, u)
  BY <1>4, CollectType
<1>5. CASE \E c \in Configs : ConfigCreate(c) \/ ConfigEdit(c) \/ ConfigDelete(c)
  BY <1>5, ConfigUserType
<1>6. CASE UNCHANGED vars
  BY <1>6, TypeUse, AsideType DEF vars, configVars
<1> QED
  BY <1>1, <1>2, <1>3, <1>4, <1>5, <1>6, SecretType, CrashTypes DEF Next

LEMMA TypeStart ==
  ASSUME Init
  PROVE  TypeInv
<1>1. ManagedInv
  BY ManagedStart DEF Init
<1>2. /\ Unconnected \in Connection /\ Unconnected.step = "track" /\ Idle.pc = "idle"
      /\ 0 \in UIDs /\ 0 \in 0..MaxChanges
  BY ManagedAssumption, ProviderConfigAssumption DEF Unconnected, Connection, UIDs, Idle
<1>3. \A s \in ConfigSpecs : New(s) \in Config
  BY DEF New, Config
<1>4. configs \in [Configs -> Config \cup {NoConfig}]
  BY <1>3 DEF Init
<1>5. /\ secret \in BOOLEAN /\ uid \in [Res -> UIDs]
      /\ usage \in [Res -> [UIDs -> Usage \cup {NoUsage}]]
      /\ conn \in [Procs -> [Res -> Connection]]
      /\ keeper \in [Procs -> [Configs -> Keeper \cup {Resting}]]
      /\ things \subseteq Res \X Tenants /\ changes \in 0..MaxChanges
  BY <1>2 DEF Init
<1>6. ConnInv
  BY <1>2 DEF Init, ManagedInit, ConnInv, ConnOK, AtWork
<1>7. UidInv
  BY DEF Init, ManagedInit, UidInv
<1> QED
  BY <1>1, <1>4, <1>5, <1>6, <1>7 DEF TypeInv, TypeOK, ManagedInv

LEMMA TypeInvariant == Spec => []TypeInv
  BY TypeStart, TypeStep, PTL DEF Spec

\* Whatever users, processes, garbage collection and faults do, every ProviderConfig, usage
\* and connection stays of its type; no client is made of a ProviderConfig that was not read,
\* and every UID stands for a creation.
THEOREM TypeCorrect == Spec => []TypeOK
<1>1. TypeInv => TypeOK
  BY DEF TypeInv
<1> QED
  BY <1>1, TypeInvariant, PTL

-----------------------------------------------------------------------------
(***************************************************************************)
(* A ProviderConfig is kept while it is used.                              *)
(***************************************************************************)

\* Resource r was tracked as using ProviderConfig c while that was whole.
Uses(r, c) == obj[r] # Gone /\ UsageOf(r).early /\ UsageOf(r).config = c

\* The ProviderConfig of such a resource has its finalizer, whether it is deleted or not.
UsedInv == \A r \in Res, c \in Configs : Uses(r, c) => configs[c] # NoConfig /\ configs[c].finalizer

\* What a reconcile of a ProviderConfig knows while its copy is fresh: one that it is about
\* to let go of is not used, and nobody comes to use it any more.
KeeperOK(k, c) ==
  k.fresh => /\ configs[c] # NoConfig /\ k.copy = configs[c]
             /\ configs[c].deleting /\ ~ k.users => \A r \in Res : ~ Uses(r, c)

KeeperInv == \A p \in Procs, c \in Configs : KeeperOK(keeper[p][c], c)

\* UIDs that are yet to come have no usages, and no reconcile knows them.
PastInv ==
  \A r \in Res : /\ \A p \in Procs : conn[p][r].uid <= uid[r]
                 /\ \A u \in UIDs : usage[r][u] # NoUsage => u <= uid[r]

KeptInv == UsedInv /\ KeeperInv /\ PastInv

\* ProviderConfigs stay, and nobody comes to use one that is not whole.
LEMMA KeptOn ==
  ASSUME TypeInv, UsedInv, KeeperInv, configs' = configs,
         \A s \in Res, c \in Configs :
           Uses(s, c)' => \/ Uses(s, c)
                          \/ configs[c] # NoConfig /\ configs[c].finalizer /\ ~ configs[c].deleting,
         \A p \in Procs, c \in Configs : keeper'[p][c] = keeper[p][c] \/ ~ keeper'[p][c].fresh
  PROVE  UsedInv' /\ KeeperInv'
<1>1. UsedInv'
  BY DEF UsedInv
<1>2. KeeperInv'
  <2>1. SUFFICES ASSUME NEW p \in Procs, NEW c \in Configs, keeper'[p][c].fresh
                 PROVE  KeeperOK(keeper[p][c], c)'
    BY DEF KeeperInv, KeeperOK
  <2>2. keeper'[p][c] = keeper[p][c] /\ KeeperOK(keeper[p][c], c)
    BY <2>1 DEF KeeperInv
  <2> QED
    BY <2>1, <2>2 DEF KeeperOK
<1> QED
  BY <1>1, <1>2

\* ProviderConfig c becomes o, which outdates what reconciles know of it.
LEMMA KeptStore ==
  ASSUME TypeInv, UsedInv, KeeperInv, NEW c \in Configs, NEW o,
         configs' = [configs EXCEPT ![c] = o],
         (\E s \in Res : Uses(s, c)) => o # NoConfig /\ o.finalizer,
         \A s \in Res, d \in Configs : Uses(s, d)' => Uses(s, d),
         \A p \in Procs : ~ keeper'[p][c].fresh,
         \A p \in Procs, d \in Configs \ {c} : keeper'[p][d] = keeper[p][d]
  PROVE  UsedInv' /\ KeeperInv'
<1>1. configs'[c] = o /\ \A d \in Configs \ {c} : configs'[d] = configs[d]
  BY TypeUse
<1>2. UsedInv'
  <2>1. SUFFICES ASSUME NEW s \in Res, NEW d \in Configs, Uses(s, d)
                 PROVE  configs'[d] # NoConfig /\ configs'[d].finalizer
    BY DEF UsedInv
  <2> QED
    BY <1>1, <2>1 DEF UsedInv
<1>3. KeeperInv'
  <2>1. SUFFICES ASSUME NEW p \in Procs, NEW d \in Configs, keeper'[p][d].fresh
                 PROVE  KeeperOK(keeper[p][d], d)'
    BY DEF KeeperInv, KeeperOK
  <2>2. d # c
    BY <2>1
  <2>3. keeper'[p][d] = keeper[p][d] /\ KeeperOK(keeper[p][d], d) /\ configs'[d] = configs[d]
    BY <1>1, <2>2 DEF KeeperInv
  <2> QED
    BY <2>1, <2>3 DEF KeeperOK
<1> QED
  BY <1>2, <1>3

\* Nobody comes to use anything as long as the usages stay or go, and no resource appears.
LEMMA NoNewUse ==
  ASSUME uid' = uid, usage' = usage, \A s \in Res : obj'[s] # Gone => obj[s] # Gone
  PROVE  \A s \in Res, c \in Configs : Uses(s, c)' => Uses(s, c)
  BY DEF Uses, UsageOf

LEMMA PastOn ==
  ASSUME TypeInv, PastInv, UNCHANGED <<uid, usage>>,
         \A p \in Procs, s \in Res : conn'[p][s].uid \in {conn[p][s].uid, 0, uid[s]}
  PROVE  PastInv'
<1>1. \A s \in Res : uid[s] \in Nat
  BY TypeUse, ManagedAssumption DEF UIDs
<1> QED
  BY <1>1 DEF PastInv

\* Connections that are kept or forgotten.
LEMMA KeptUid ==
  ASSUME NEW c, KeepConnections(c), NEW q \in Procs, NEW s \in Res
  PROVE  \/ conn'[q][s] = c[q][s]
         \/ conn'[q][s].uid = 0 /\ conn'[q][s].step = "track"
  BY DEF KeepConnections, Unconnected

LEMMA RecordedEffect ==
  ASSUME TypeInv, NEW p \in Procs, NEW r \in Res, Reference(p, r) \in Configs, Recorded(p, r)
  PROVE  LET u == conn[p][r].uid
             c == Reference(p, r)
         IN  /\ u \in UIDs /\ usage'[r][u].config = c
             /\ \A s \in Res, w \in UIDs : ~ (s = r /\ w = u) => usage'[s][w] = usage[s][w]
             /\ usage'[r][u] # usage[r][u] /\ usage'[r][u].early =>
                  configs[c] # NoConfig /\ configs[c].finalizer /\ ~ configs[c].deleting
<1> DEFINE u == conn[p][r].uid
           c == Reference(p, r)
           n == [config |-> c, early |->
                  configs[c] # NoConfig /\ configs[c].finalizer /\ ~ configs[c].deleting]
<1>1. u \in UIDs
  BY TypeUse DEF Connection
<1>2. CASE usage[r][u].config = c
  BY <1>1, <1>2 DEF Recorded
<1>3. CASE usage[r][u].config # c
  <2>1. usage' = [usage EXCEPT ![r][u] = n]
    BY <1>3 DEF Recorded
  <2>2. n.config = c /\ (n.early => configs[c] # NoConfig /\ configs[c].finalizer /\ ~ configs[c].deleting)
    OBVIOUS
  <2> HIDE DEF n, u, c
  <2>3. /\ usage'[r][u] = n
        /\ \A s \in Res, w \in UIDs : ~ (s = r /\ w = u) => usage'[s][w] = usage[s][w]
    BY <1>1, <2>1, TypeUse
  <2> QED
    BY <1>1, <2>2, <2>3 DEF u, c
<1> QED
  BY <1>2, <1>3

\* Connect leaves everything here alone but for recording the use.
LEMMA ConnectKeeps ==
  ASSUME TypeInv, KeptInv, NEW p \in Procs, NEW r \in Res, Connect(p, r)
  PROVE  KeptInv'
<1> DEFINE u == conn[p][r].uid
           c == Reference(p, r)
<1>0. c \in Configs
  <2>1. wk[p][r].pc = "connect"
    BY DEF Connect, Track, CheckConfig, ReadConfig, ReadCredentials, Connecting, At
  <2>2. wk[p][r].mg \in Object
    BY <2>1, TypeUse, ManagedUse, WorkerUpdates
  <2> QED
    BY <2>2 DEF Reference, Object, Configs
<1>1. UNCHANGED <<obj, configs, keeper, uid>>
  BY DEF Connect, Track, CheckConfig, ReadConfig, ReadCredentials, ConnectLeaves
<1>2. \A q \in Procs, s \in Res : conn'[q][s].uid = conn[q][s].uid
  <2>1. \A q \in Procs, s \in Res : conn[q][s] \in Connection
    BY TypeUse
  <2>2. \A x \in Connection : /\ \A step : [x EXCEPT !.step = step].uid = x.uid
                              /\ \A step, d : [x EXCEPT !.step = step, !.read = d].uid = x.uid
    BY DEF Connection
  <2>3. \/ conn' = conn
        \/ \E step : conn' = [conn EXCEPT ![p][r] = [conn[p][r] EXCEPT !.step = step]]
        \/ \E step, d : conn' = [conn EXCEPT ![p][r] = [conn[p][r] EXCEPT !.step = step, !.read = d]]
    <3>1. CASE ReadConfig(p, r)
      <4>1. CASE conn' = conn
        BY <4>1
      <4>2. CASE conn' # conn
        <5>1. conn' = [conn EXCEPT ![p][r].step = "trackAgain", ![p][r].read = configs[c].spec]
          BY <3>1, <4>2 DEF ReadConfig, Refuse, Broken
        <5>2. conn' = [conn EXCEPT ![p][r] =
                         [conn[p][r] EXCEPT !.step = "trackAgain", !.read = configs[c].spec]]
          BY <5>1, TypeUse
        <5> QED
          BY <5>2
      <4> QED
        BY <4>1, <4>2
    <3>2. CASE ReadCredentials(p, r)
      BY <3>2 DEF ReadCredentials, Refuse, Broken
    <3>3. CASE Track(p, r, "track", "check") \/ Track(p, r, "trackAgain", "credentials")
      BY <3>3 DEF Track, Advance, Broken
    <3>4. CASE CheckConfig(p, r)
      BY <3>4 DEF CheckConfig, Advance, Refuse, Broken
    <3> QED
      BY <3>1, <3>2, <3>3, <3>4 DEF Connect
  <2>4. ASSUME NEW y, y.uid = conn[p][r].uid, conn' = [conn EXCEPT ![p][r] = y],
               NEW q \in Procs, NEW s \in Res
        PROVE  conn'[q][s].uid = conn[q][s].uid
    BY <2>4, TypeUse
  <2>5. CASE \E step : conn' = [conn EXCEPT ![p][r] = [conn[p][r] EXCEPT !.step = step]]
    <3>1. PICK step : conn' = [conn EXCEPT ![p][r] = [conn[p][r] EXCEPT !.step = step]]
      BY <2>5
    <3>2. [conn[p][r] EXCEPT !.step = step].uid = conn[p][r].uid
      BY <2>1, <2>2
    <3> QED
      BY <2>4, <3>1, <3>2
  <2>6. CASE \E step, d : conn' = [conn EXCEPT ![p][r] = [conn[p][r] EXCEPT !.step = step, !.read = d]]
    <3>1. PICK step, d : conn' = [conn EXCEPT ![p][r] = [conn[p][r] EXCEPT !.step = step, !.read = d]]
      BY <2>6
    <3>2. [conn[p][r] EXCEPT !.step = step, !.read = d].uid = conn[p][r].uid
      BY <2>1, <2>2
    <3> QED
      BY <2>4, <3>1, <3>2
  <2> QED
    BY <2>3, <2>5, <2>6
<1>3. CASE usage' = usage
  <2>1. \A s \in Res, d \in Configs : Uses(s, d)' => Uses(s, d)
    BY <1>1, <1>3, NoNewUse
  <2>2. UsedInv' /\ KeeperInv'
    BY <1>1, <2>1, KeptOn DEF KeptInv
  <2>3. PastInv'
    BY <1>1, <1>2, <1>3, PastOn DEF KeptInv
  <2> QED
    BY <2>2, <2>3 DEF KeptInv
<1>4. CASE Recorded(p, r)
  <2>1. /\ u \in UIDs /\ usage'[r][u].config = c
        /\ \A s \in Res, w \in UIDs : ~ (s = r /\ w = u) => usage'[s][w] = usage[s][w]
        /\ usage'[r][u] # usage[r][u] /\ usage'[r][u].early =>
             configs[c] # NoConfig /\ configs[c].finalizer /\ ~ configs[c].deleting
    BY <1>0, <1>4, RecordedEffect
  <2>2. \A s \in Res, d \in Configs :
          Uses(s, d)' => \/ Uses(s, d)
                         \/ configs[d] # NoConfig /\ configs[d].finalizer /\ ~ configs[d].deleting
    <3>1. SUFFICES ASSUME NEW s \in Res, NEW d \in Configs, Uses(s, d)', ~ Uses(s, d)
                   PROVE  configs[d] # NoConfig /\ configs[d].finalizer /\ ~ configs[d].deleting
      OBVIOUS
    <3>2. /\ obj[s] # Gone /\ usage'[s][uid[s]].early /\ usage'[s][uid[s]].config = d
          /\ usage'[s][uid[s]] # usage[s][uid[s]] /\ uid[s] \in UIDs
      BY <1>1, <3>1, TypeUse DEF Uses, UsageOf
    <3>3. s = r /\ uid[s] = u
      BY <2>1, <3>2
    <3> QED
      BY <2>1, <3>2, <3>3
  <2>3. UsedInv' /\ KeeperInv'
    BY <1>1, <2>2, KeptOn DEF KeptInv
  <2>4. PastInv'
    <3>1. \A s \in Res, q \in Procs : conn'[q][s].uid <= uid'[s]
      BY <1>1, <1>2 DEF KeptInv, PastInv
    <3>2. \A s \in Res, w \in UIDs : usage'[s][w] # NoUsage => w <= uid'[s]
      BY <1>1, <2>1 DEF KeptInv, PastInv
    <3> QED
      BY <3>1, <3>2 DEF PastInv
  <2> QED
    BY <2>3, <2>4 DEF KeptInv
<1> QED
  BY <1>3, <1>4 DEF Connect, Track, CheckConfig, ReadConfig, ReadCredentials

\* The steps of a reconcile besides Connect, and crashes, only forget.
LEMMA ForgetKeeps ==
  ASSUME TypeInv, KeptInv, UNCHANGED <<configs, usage, uid>>,
         \A s \in Res : obj'[s] # Gone => obj[s] # Gone,
         \A q \in Procs, c \in Configs : keeper'[q][c] = keeper[q][c] \/ ~ keeper'[q][c].fresh,
         \A q \in Procs, s \in Res : conn'[q][s].uid \in {conn[q][s].uid, 0, uid[s]}
  PROVE  KeptInv'
<1>1. UsedInv' /\ KeeperInv'
  BY NoNewUse, KeptOn DEF KeptInv
<1>2. PastInv'
  BY PastOn DEF KeptInv
<1> QED
  BY <1>1, <1>2 DEF KeptInv

LEMMA ReconcileKeeps ==
  ASSUME TypeInv, KeptInv, NEW p \in Procs, NEW r \in Res, Reconcile(p, r)
  PROVE  KeptInv'
<1>1. CASE LibraryPart(p, r)
  <2> DEFINE c == IF wk[p][r] = Idle THEN [conn EXCEPT ![p][r].uid = uid[r]] ELSE conn
  <2>1. /\ UNCHANGED <<configs, usage, keeper, uid>> /\ KeepConnections(c)
        /\ \A s \in Res : obj'[s] # Gone => obj[s] # Gone
    BY <1>1, TypeUse, LibraryMoves DEF LibraryPart
  <2>2. \A q \in Procs, s \in Res : c[q][s].uid \in {conn[q][s].uid, uid[s]}
    <3>1. [conn[p][r] EXCEPT !.uid = uid[r]].uid = uid[r]
      BY TypeUse DEF Connection
    <3>2. [conn EXCEPT ![p][r].uid = uid[r]] = [conn EXCEPT ![p][r] = [conn[p][r] EXCEPT !.uid = uid[r]]]
      BY TypeUse
    <3>3. ASSUME NEW y, y.uid = uid[r], NEW q \in Procs, NEW s \in Res
          PROVE  [conn EXCEPT ![p][r] = y][q][s].uid \in {conn[q][s].uid, uid[s]}
      BY <3>3, TypeUse
    <3> QED
      BY <3>1, <3>2, <3>3
  <2> HIDE DEF c
  <2>3. \A q \in Procs, s \in Res : conn'[q][s].uid \in {conn[q][s].uid, 0, uid[s]}
    BY <2>1, <2>2, KeptUid
  <2> QED
    BY <2>1, <2>3, ForgetKeeps
<1>2. CASE PanicStep(p, r)
  <2>1. UNCHANGED <<configs, usage, uid, obj>>
    BY <1>2 DEF PanicStep
  <2>2. \A q \in Procs, c \in Configs : keeper'[q][c] = keeper[q][c] \/ ~ keeper'[q][c].fresh
    BY <1>2, TypeUse DEF PanicStep, Resting
  <2>3. \A q \in Procs, s \in Res : conn'[q][s].uid \in {conn[q][s].uid, 0, uid[s]}
    BY <1>2, KeptUid DEF PanicStep
  <2> QED
    BY <2>1, <2>2, <2>3, ForgetKeeps
<1>3. CASE Observe(p, r)
  <2>1. UNCHANGED <<configs, usage, uid, obj, keeper>>
    BY <1>3 DEF Observe, UseLeaves
  <2>2. \A q \in Procs, s \in Res : conn'[q][s].uid \in {conn[q][s].uid, 0, uid[s]}
    BY <1>3, KeptUid DEF Observe
  <2> QED
    BY <2>1, <2>2, ForgetKeeps
<1>4. CASE Create(p, r) \/ Delete(p, r)
  <2>1. UNCHANGED <<configs, usage, uid, obj, keeper, conn>>
    BY <1>4 DEF Create, Delete, UseLeaves
  <2> QED
    BY <2>1, ForgetKeeps
<1> QED
  BY <1>1, <1>2, <1>3, <1>4, ConnectKeeps DEF Reconcile

LEMMA CrashKeeps ==
  ASSUME TypeInv, KeptInv, NEW p \in Procs, ProcessCrash(p)
  PROVE  KeptInv'
<1>1. UNCHANGED <<configs, usage, uid, obj>>
  BY DEF ProcessCrash, Crash
<1>2. \A q \in Procs, c \in Configs : keeper'[q][c] = keeper[q][c] \/ ~ keeper'[q][c].fresh
  BY TypeUse DEF ProcessCrash, Resting
<1>3. \A q \in Procs, s \in Res : conn'[q][s].uid \in {conn[q][s].uid, 0, uid[s]}
  BY KeptUid DEF ProcessCrash
<1> QED
  BY <1>1, <1>2, <1>3, ForgetKeeps

\* A resource that is created anew has no usage yet.
LEMMA ResourceKeeps ==
  ASSUME TypeInv, TypeInv', KeptInv, NEW r \in Res, ResourceStep(r)
  PROVE  KeptInv'
<1>1. UNCHANGED <<configs, usage, conn, keeper>>
  BY DEF ResourceStep
<1>2. \A s \in Res : uid[s] \in Nat /\ uid[s] \in UIDs /\ uid'[s] \in UIDs
  BY TypeUse, ManagedAssumption DEF UIDs, TypeInv, TypeOK
<1>3. \A s \in Res : /\ uid'[s] = uid[s] \/ (s = r /\ uid'[s] = uid[s] + 1)
                     /\ uid'[s] = uid[s] /\ obj'[s] # Gone => obj[s] # Gone
  <2>1. \A s \in Res \ {r} : obj'[s] = obj[s]
    BY TypeUse, UserMoves DEF ResourceStep
  <2>2. CASE obj[r] = Gone /\ obj'[r] # Gone
    <3>1. uid' = [uid EXCEPT ![r] = uid[r] + 1]
      BY <2>2 DEF ResourceStep
    <3> QED
      BY <1>2, <2>1, <3>1, TypeUse
  <2>3. CASE ~ (obj[r] = Gone /\ obj'[r] # Gone)
    BY <2>1, <2>3 DEF ResourceStep
  <2> QED
    BY <2>2, <2>3
<1>4. \A s \in Res, c \in Configs : Uses(s, c)' => Uses(s, c)
  <2>1. SUFFICES ASSUME NEW s \in Res, NEW c \in Configs, Uses(s, c)'
                 PROVE  Uses(s, c)
    OBVIOUS
  <2>2. CASE uid'[s] = uid[s]
    BY <1>1, <1>3, <2>1, <2>2 DEF Uses, UsageOf
  <2>3. CASE uid'[s] = uid[s] + 1
    <3>1. usage[s][uid'[s]] = NoUsage
      BY <1>2, <2>3 DEF KeptInv, PastInv
    <3> QED
      BY <1>1, <2>1, <3>1 DEF Uses, UsageOf, NoUsage
  <2> QED
    BY <1>3, <2>2, <2>3
<1>5. UsedInv' /\ KeeperInv'
  BY <1>1, <1>4, KeptOn DEF KeptInv
<1>6. PastInv'
  <2>1. \A q \in Procs, s \in Res : conn[q][s].uid \in Nat
    BY TypeUse, ManagedAssumption DEF Connection, UIDs
  <2>2. \A u \in UIDs : u \in Nat
    BY ManagedAssumption DEF UIDs
  <2> QED
    BY <1>1, <1>2, <1>3, <2>1, <2>2 DEF KeptInv, PastInv
<1> QED
  BY <1>5, <1>6 DEF KeptInv

LEMMA CollectKeeps ==
  ASSUME TypeInv, KeptInv, NEW r \in Res, NEW u \in UIDs, Collect(r, u)
  PROVE  KeptInv'
<1>1. UNCHANGED <<obj, configs, conn, keeper, uid>>
  BY DEF Collect, managedVars
<1>2. \A s \in Res, w \in UIDs : usage'[s][w] = usage[s][w] \/ usage'[s][w] = NoUsage
  BY TypeUse DEF Collect
<1>3. \A s \in Res, c \in Configs : Uses(s, c)' => Uses(s, c)
  <2>1. SUFFICES ASSUME NEW s \in Res, NEW c \in Configs, Uses(s, c)'
                 PROVE  Uses(s, c)
    OBVIOUS
  <2>2. usage'[s][uid[s]] # NoUsage
    BY <1>1, <2>1 DEF Uses, UsageOf, NoUsage
  <2>3. usage'[s][uid[s]] = usage[s][uid[s]]
    BY <1>2, <2>2, TypeUse
  <2> QED
    BY <1>1, <2>1, <2>3 DEF Uses, UsageOf
<1>4. UsedInv' /\ KeeperInv'
  BY <1>1, <1>3, KeptOn DEF KeptInv
<1>5. PastInv'
  BY <1>1, <1>2 DEF KeptInv, PastInv
<1> QED
  BY <1>4, <1>5 DEF KeptInv

\* Nothing but ProviderConfigs and what is known of them changes.
LEMMA ConfigKeeps ==
  ASSUME TypeInv, KeptInv, UNCHANGED <<obj, usage, uid, conn>>, NEW c \in Configs, NEW o,
         configs' = [configs EXCEPT ![c] = o],
         (\E s \in Res : Uses(s, c)) => o # NoConfig /\ o.finalizer,
         \A q \in Procs : ~ keeper'[q][c].fresh,
         \A q \in Procs, d \in Configs \ {c} : keeper'[q][d] = keeper[q][d]
  PROVE  KeptInv'
<1>1. \A s \in Res, d \in Configs : Uses(s, d)' => Uses(s, d)
  BY NoNewUse
<1>2. UsedInv' /\ KeeperInv'
  BY <1>1, KeptStore DEF KeptInv
<1>3. PastInv'
  BY DEF KeptInv, PastInv
<1> QED
  BY <1>2, <1>3 DEF KeptInv

LEMMA ConfigUserKeeps ==
  ASSUME TypeInv, KeptInv, NEW c \in Configs, ConfigCreate(c) \/ ConfigEdit(c) \/ ConfigDelete(c)
  PROVE  KeptInv'
<1>1. PICK o : /\ StoreConfig(c, o)
               /\ configs[c] # NoConfig /\ configs[c].finalizer => o # NoConfig /\ o.finalizer
  <2>1. configs[c] # NoConfig => configs[c] \in Config
    BY TypeUse
  <2>2. \A k \in Config : /\ [k EXCEPT !.deleting = TRUE] # NoConfig
                          /\ [k EXCEPT !.deleting = TRUE].finalizer = k.finalizer
    <3>1. \A k \in Config : [k EXCEPT !.deleting = TRUE] \in Config
      BY DEF Config
    <3>2. \A k \in Config : [k EXCEPT !.deleting = TRUE].finalizer = k.finalizer
      BY DEF Config
    <3> QED
      BY <3>1, <3>2, NoConfigAssumption
  <2>3. \A k \in Config, s \in ConfigSpecs : /\ [k EXCEPT !.spec = s] # NoConfig
                                             /\ [k EXCEPT !.spec = s].finalizer = k.finalizer
    <3>1. \A k \in Config, s \in ConfigSpecs : [k EXCEPT !.spec = s] \in Config
      BY DEF Config
    <3>2. \A k \in Config, s \in ConfigSpecs : [k EXCEPT !.spec = s].finalizer = k.finalizer
      BY DEF Config
    <3> QED
      BY <3>1, <3>2, NoConfigAssumption
  <2>4. CASE ConfigCreate(c)
    BY <2>4 DEF ConfigCreate
  <2>5. CASE ConfigEdit(c)
    BY <2>1, <2>3, <2>5 DEF ConfigEdit
  <2>6. CASE ConfigDelete(c) /\ configs[c].finalizer
    BY <2>1, <2>2, <2>6 DEF ConfigDelete
  <2>7. CASE ConfigDelete(c) /\ ~ configs[c].finalizer
    BY <2>7 DEF ConfigDelete
  <2> QED
    BY <2>4, <2>5, <2>6, <2>7
<1>2. UNCHANGED <<obj, usage, uid, conn>>
  BY DEF ConfigCreate, ConfigEdit, ConfigDelete, managedVars
<1>3. (\E s \in Res : Uses(s, c)) => o # NoConfig /\ o.finalizer
  BY <1>1 DEF KeptInv, UsedInv
<1>4. configs' = [configs EXCEPT ![c] = o]
  BY <1>1 DEF StoreConfig
<1>5. /\ \A q \in Procs : ~ keeper'[q][c].fresh
      /\ \A q \in Procs, d \in Configs \ {c} : keeper'[q][d] = keeper[q][d]
  <2>1. \A k \in Keeper \cup {Resting} : [k EXCEPT !.fresh = FALSE].fresh = FALSE
    BY DEF Keeper, Resting
  <2> QED
    BY <1>1, <2>1, TypeUse DEF StoreConfig
<1> QED
  BY <1>2, <1>3, <1>4, <1>5, ConfigKeeps

\* A reconcile that finds no usages has seen what there is.
LEMMA CountKeeps ==
  ASSUME TypeInv, KeptInv, NEW p \in Procs, NEW c \in Configs, Count(p, c)
  PROVE  KeptInv'
<1> DEFINE users == \E r \in Res, u \in UIDs : usage[r][u].config = c
           k == [copy |-> configs[c], fresh |-> TRUE, users |-> users]
<1>1. UNCHANGED <<obj, configs, usage, uid, conn>> /\ configs[c] # NoConfig
  BY DEF Count, managedVars
<1>2. /\ keeper'[p][c] = k
      /\ \A q \in Procs, d \in Configs : ~ (q = p /\ d = c) => keeper'[q][d] = keeper[q][d]
  BY TypeUse DEF Count
<1>3. ~ users => \A r \in Res : ~ Uses(r, c)
  BY TypeUse DEF Uses, UsageOf
<1>4. KeeperOK(k, c)
  BY <1>1, <1>3 DEF KeeperOK
<1> HIDE DEF k
<1>5. \A q \in Procs, d \in Configs : KeeperOK(keeper'[q][d], d)
  BY <1>2, <1>4 DEF KeptInv, KeeperInv
<1>6. \A s \in Res, d \in Configs : Uses(s, d)' <=> Uses(s, d)
  BY <1>1 DEF Uses, UsageOf
<1>7. KeeperInv'
  BY <1>1, <1>5, <1>6 DEF KeeperInv, KeeperOK
<1>8. UsedInv' /\ PastInv'
  BY <1>1, <1>6 DEF KeptInv, UsedInv, PastInv
<1> QED
  BY <1>7, <1>8 DEF KeptInv

LEMMA SettleKeeps ==
  ASSUME TypeInv, KeptInv, NEW p \in Procs, NEW c \in Configs, Settle(p, c)
  PROVE  KeptInv'
<1> DEFINE k == keeper[p][c]
           put(o) == /\ configs' = [configs EXCEPT ![c] = o]
                     /\ keeper' = [q \in Procs |-> [keeper[q] EXCEPT ![c] =
                                     IF q = p THEN Resting ELSE [@ EXCEPT !.fresh = FALSE]]]
<1>1. UNCHANGED <<obj, usage, uid, conn>> /\ k # Resting
  BY DEF Settle
<1>2. k \in Keeper /\ KeeperOK(k, c)
  BY <1>1, TypeUse DEF KeptInv, KeeperInv
<1>3. CASE configs' = configs /\ keeper' = [keeper EXCEPT ![p][c] = Resting]
  <2>1. \A q \in Procs, d \in Configs : keeper'[q][d] = keeper[q][d] \/ ~ keeper'[q][d].fresh
    BY <1>3, TypeUse DEF Resting
  <2> QED
    BY <1>1, <1>3, <2>1, ForgetKeeps
<1>4. ASSUME NEW o, put(o), (\E s \in Res : Uses(s, c)) => o # NoConfig /\ o.finalizer
      PROVE  KeptInv'
  <2>1. \A x \in Keeper \cup {Resting} : [x EXCEPT !.fresh = FALSE].fresh = FALSE
    BY DEF Keeper, Resting
  <2>2. /\ \A q \in Procs : ~ keeper'[q][c].fresh
        /\ \A q \in Procs, d \in Configs \ {c} : keeper'[q][d] = keeper[q][d]
    BY <1>4, <2>1, TypeUse DEF Resting
  <2> QED
    BY <1>1, <1>4, <2>2, ConfigKeeps
<1>5. CASE k.fresh /\ k.copy.deleting /\ ~ k.users /\ put(NoConfig)
  <2>1. \A s \in Res : ~ Uses(s, c)
    BY <1>2, <1>5 DEF KeeperOK
  <2> QED
    BY <1>4, <1>5, <2>1
<1>6. CASE k.fresh /\ ~ k.copy.deleting /\ put([k.copy EXCEPT !.finalizer = TRUE])
  <2> DEFINE o == [k.copy EXCEPT !.finalizer = TRUE]
  <2>1. o \in Config /\ o.finalizer
    BY <1>2 DEF Keeper, Config
  <2>2. o # NoConfig /\ put(o)
    BY <1>6, <2>1, NoConfigAssumption
  <2> HIDE DEF o
  <2> QED
    BY <1>4, <2>1, <2>2
<1> QED
  BY <1>3, <1>5, <1>6 DEF Settle

LEMMA KeptStep ==
  ASSUME TypeInv, KeptInv, [Next]_vars
  PROVE  KeptInv'
<1>0. TypeInv'
  BY TypeStep
<1>1. CASE \E p \in Procs, r \in Res : Reconcile(p, r)
  BY <1>1, ReconcileKeeps
<1>2. CASE \E p \in Procs, c \in Configs : ConfigReconcile(p, c)
  BY <1>2, CountKeeps, SettleKeeps DEF ConfigReconcile
<1>3. CASE \E r \in Res : ResourceStep(r)
  BY <1>0, <1>3, ResourceKeeps
<1>4. CASE \E r \in Res, u \in UIDs : Collect(r, u)
  BY <1>4, CollectKeeps
<1>5. CASE \E c \in Configs : ConfigCreate(c) \/ ConfigEdit(c) \/ ConfigDelete(c)
  BY <1>5, ConfigUserKeeps
<1>6. CASE SecretChange
  BY <1>6, ForgetKeeps DEF SecretChange, managedVars
<1>7. CASE \E p \in Procs : ProcessCrash(p)
  BY <1>7, CrashKeeps
<1>8. CASE UNCHANGED vars
  BY <1>8, ForgetKeeps DEF vars, configVars, managedVars
<1> QED
  BY <1>1, <1>2, <1>3, <1>4, <1>5, <1>6, <1>7, <1>8 DEF Next

LEMMA KeptStart ==
  ASSUME Init
  PROVE  KeptInv
<1>1. \A r \in Res, c \in Configs : ~ Uses(r, c)
  BY DEF Init, ManagedInit, Uses
<1>2. KeeperInv
  BY DEF Init, KeeperInv, KeeperOK, Resting
<1>3. PastInv
  BY DEF Init, PastInv, Unconnected
<1> QED
  BY <1>1, <1>2, <1>3 DEF KeptInv, UsedInv

LEMMA KeptInvariant == Spec => [](TypeInv /\ KeptInv)
<1>1. Init => TypeInv /\ KeptInv
  BY TypeStart, KeptStart
<1>2. TypeInv /\ KeptInv /\ [Next]_vars => (TypeInv /\ KeptInv)'
  BY TypeStep, KeptStep
<1> QED
  BY <1>1, <1>2, PTL DEF Spec

\* A ProviderConfig that was whole when a resource was tracked as using it stays as long as
\* that resource does, for any number of processes that count usages, take off finalizers and
\* die at any point, and whoever deletes what in which order.
THEOREM KeptForItsUsers == Spec => []KeptWhileUsed
<1>1. TypeInv /\ KeptInv => KeptWhileUsed
  <2>1. SUFFICES ASSUME TypeInv, KeptInv, NEW r \in Res, obj[r] # Gone, UsageOf(r).early
                 PROVE  configs[UsageOf(r).config] # NoConfig
    BY DEF KeptWhileUsed
  <2>2. UsageOf(r) \in Usage
    <3>1. UsageOf(r) \in Usage \cup {NoUsage}
      BY <2>1, TypeUse DEF UsageOf
    <3> QED
      BY <2>1, <3>1 DEF NoUsage
  <2>3. UsageOf(r).config \in Configs
    BY <2>2 DEF Usage
  <2> QED
    BY <2>1, <2>3 DEF KeptInv, UsedInv, Uses
<1> QED
  BY <1>1, KeptInvariant, PTL

-----------------------------------------------------------------------------
(***************************************************************************)
(* A reconcile that talks to Cortex is recorded as doing so.               *)
(***************************************************************************)

\* The reconcile has recorded the use of the ProviderConfig it refers to.
Tracking(w, x) == x.step # "track" /\ w.pc \in AtWork \cup {"connect"}

\* So the usage under its UID says, until another reconcile of that resource records another.
\* This holds from the first of the steps of Connect on, not only at work.
TrackedInv ==
  \A p \in Procs, r \in Res :
    Tracking(wk[p][r], conn[p][r]) /\ obj[r] # Gone /\ conn[p][r].uid = uid[r]
      => UsageOf(r).config = Reference(p, r)

\* Nobody comes to track without recording it, for a resource whose usage is left alone.
LEMMA TrackedOn ==
  ASSUME TrackedInv, uid' = uid, NEW p \in Procs, NEW s \in Res, usage'[s][uid[s]] = usage[s][uid[s]],
         obj'[s] # Gone => obj[s] # Gone,
         Tracking(wk[p][s], conn[p][s])' =>
           /\ Tracking(wk[p][s], conn[p][s])
           /\ wk'[p][s].mg.spec = wk[p][s].mg.spec /\ conn'[p][s].uid = conn[p][s].uid
  PROVE  Tracking(wk[p][s], conn[p][s])' /\ obj'[s] # Gone /\ conn'[p][s].uid = uid'[s]
           => UsageOf(s)'.config = Reference(p, s)'
BY DEF TrackedInv, UsageOf, Reference

LEMMA MovesTracked ==
  ASSUME TypeInv, TrackedInv, UNCHANGED <<uid, usage>>, \A s \in Res : obj'[s] # Gone => obj[s] # Gone,
         \A q \in Procs, s \in Res : Moves(wk[q][s], wk'[q][s]),
         \A q \in Procs, s \in Res : conn'[q][s] = conn[q][s] \/ conn'[q][s].step = "track"
  PROVE  TrackedInv'
<1>1. SUFFICES ASSUME NEW q \in Procs, NEW s \in Res, Tracking(wk[q][s], conn[q][s])'
               PROVE  /\ Tracking(wk[q][s], conn[q][s])
                      /\ wk'[q][s].mg.spec = wk[q][s].mg.spec /\ conn'[q][s].uid = conn[q][s].uid
  BY TrackedOn DEF TrackedInv
<1>2. conn'[q][s] = conn[q][s] /\ conn[q][s].step # "track"
  BY <1>1 DEF Tracking
<1>3. wk[q][s].pc \notin {"idle", "initialize"}
  BY <1>2, TypeUse DEF ConnInv, ConnOK
<1> QED
  BY <1>1, <1>2, <1>3 DEF Tracking, Moves

LEMMA ConnectTracked ==
  ASSUME SingleProcess, TypeInv, TrackedInv, NEW p \in Procs, NEW r \in Res, Connect(p, r)
  PROVE  TrackedInv'
<1> DEFINE v == wk[p][r]
           x == conn[p][r]
           c == Reference(p, r)
<1>0. /\ v.pc = "connect" /\ v \in Worker /\ c \in Configs /\ x \in Connection
      /\ UNCHANGED <<obj, uid>> /\ \A q \in Procs : q = p
  <2>1. v.pc = "connect"
    BY DEF Connect, Track, CheckConfig, ReadConfig, ReadCredentials, Connecting, At
  <2>2. v \in Worker /\ v.mg \in Object
    BY <2>1, TypeUse, ManagedUse, WorkerUpdates
  <2> QED
    BY <2>1, <2>2, TypeUse DEF Reference, Object, Configs, SingleProcess, Connect, Track, CheckConfig,
       ReadConfig, ReadCredentials, ConnectLeaves
<1>1. \A s \in Res, u \in UIDs : s # r => usage'[s][u] = usage[s][u]
  BY <1>0, RecordedEffect DEF Connect, Track, CheckConfig, ReadConfig, ReadCredentials
<1>2. \A s \in Res : uid[s] \in UIDs
  BY TypeUse
<1>3. ASSUME NEW w, NEW y, wk' = [wk EXCEPT ![p][r] = w], conn' = [conn EXCEPT ![p][r] = y],
             \/ ~ Tracking(w, y)
             \/ /\ w.mg.spec = v.mg.spec /\ y.uid = x.uid
                /\ \/ Recorded(p, r)
                   \/ usage' = usage /\ Tracking(v, x)
      PROVE  TrackedInv'
  <2>1. /\ wk'[p][r] = w /\ conn'[p][r] = y
        /\ \A s \in Res : s # r => wk'[p][s] = wk[p][s] /\ conn'[p][s] = conn[p][s]
    BY <1>3, TypeUse, ManagedUse
  <2>2. SUFFICES ASSUME NEW s \in Res
                 PROVE  Tracking(wk[p][s], conn[p][s])' /\ obj'[s] # Gone /\ conn'[p][s].uid = uid'[s]
                          => UsageOf(s)'.config = Reference(p, s)'
    BY <1>0 DEF TrackedInv
  <2>3. CASE s # r
    BY <1>0, <1>1, <1>2, <2>1, <2>3, TrackedOn
  <2>4. CASE s = r /\ ~ Tracking(w, y)
    BY <2>1, <2>4 DEF Tracking
  <2>5. CASE s = r /\ w.mg.spec = v.mg.spec /\ y.uid = x.uid /\ Recorded(p, r)
    <3>1. usage'[r][x.uid].config = c
      BY <1>0, <2>5, RecordedEffect
    <3> QED
      BY <1>0, <2>1, <2>5, <3>1 DEF UsageOf, Reference
  <2>6. CASE s = r /\ w.mg.spec = v.mg.spec /\ y.uid = x.uid /\ usage' = usage /\ Tracking(v, x)
    BY <1>0, <2>1, <2>6, TrackedOn
  <2> QED
    BY <1>3, <2>3, <2>4, <2>5, <2>6
<1>4. wk = [wk EXCEPT ![p][r] = v] /\ conn = [conn EXCEPT ![p][r] = x]
  BY TypeUse, ManagedUse
<1>5. CASE Fail(p, r) /\ conn' = conn
  <2>1. \A m : [v EXCEPT !.pc = "status", !.mg = m].pc = "status"
    BY <1>0 DEF Worker
  <2>2. PICK m : wk' = [wk EXCEPT ![p][r] = [v EXCEPT !.pc = "status", !.mg = m]]
    BY <1>5, ManagedUse DEF Fail, Finish, Go
  <2> QED
    BY <1>3, <1>4, <1>5, <2>1, <2>2 DEF Tracking, AtWork
<1>6. ASSUME NEW step PROVE [x EXCEPT !.step = step].uid = x.uid
  BY <1>0 DEF Connection
<1>7. ASSUME NEW step, Advance(p, r, step), Recorded(p, r) \/ (usage' = usage /\ x.step # "track")
      PROVE  TrackedInv'
  <2>1. wk' = [wk EXCEPT ![p][r] = v] /\ conn' = [conn EXCEPT ![p][r] = [x EXCEPT !.step = step]]
    BY <1>4, <1>7, TypeUse DEF Advance
  <2> QED
    BY <1>0, <1>3, <1>6, <1>7, <2>1 DEF Tracking
<1>8. CASE Track(p, r, "track", "check") \/ Track(p, r, "trackAgain", "credentials")
  BY <1>5, <1>7, <1>8 DEF Track, Broken
<1>9. CASE CheckConfig(p, r)
  BY <1>5, <1>7, <1>9 DEF CheckConfig, Connecting, Refuse, Broken
<1>10. CASE ReadConfig(p, r)
  <2>1. CASE /\ wk' = wk
             /\ conn' = [conn EXCEPT ![p][r].step = "trackAgain", ![p][r].read = configs[c].spec]
    <3> DEFINE y == [x EXCEPT !.step = "trackAgain", !.read = configs[c].spec]
    <3>1. conn' = [conn EXCEPT ![p][r] = y]
      BY <2>1, TypeUse
    <3>2. y.uid = x.uid
      BY <1>0 DEF Connection
    <3>3. usage' = usage /\ Tracking(v, x)
      BY <1>0, <1>10 DEF ReadConfig, Connecting, Tracking
    <3> HIDE DEF y
    <3> QED
      BY <1>3, <1>4, <2>1, <3>1, <3>2, <3>3
  <2> QED
    BY <1>5, <1>10, <2>1 DEF ReadConfig, Refuse, Broken
<1>11. CASE ReadCredentials(p, r)
  <2>1. CASE Go(p, r, "observe", v.mg) /\ conn' = [conn EXCEPT ![p][r].step = "done"]
    <3> DEFINE w == [v EXCEPT !.pc = "observe", !.mg = v.mg]
               y == [x EXCEPT !.step = "done"]
    <3>1. wk' = [wk EXCEPT ![p][r] = w] /\ conn' = [conn EXCEPT ![p][r] = y]
      BY <2>1, TypeUse, ManagedUse DEF Go
    <3>2. w.mg = v.mg /\ y.uid = x.uid
      BY <1>0, <1>6 DEF Worker
    <3>3. usage' = usage /\ Tracking(v, x)
      BY <1>0, <1>11 DEF ReadCredentials, Connecting, Tracking
    <3> HIDE DEF w, y
    <3> QED
      BY <1>3, <3>1, <3>2, <3>3
  <2> QED
    BY <1>5, <1>11, <2>1 DEF ReadCredentials, Refuse, Broken
<1> QED
  BY <1>8, <1>9, <1>10, <1>11 DEF Connect

LEMMA ReconcileTracked ==
  ASSUME SingleProcess, TypeInv, TrackedInv, NEW p \in Procs, NEW r \in Res, Reconcile(p, r)
  PROVE  TrackedInv'
<1>1. CASE LibraryPart(p, r)
  <2> DEFINE c == IF wk[p][r] = Idle THEN [conn EXCEPT ![p][r].uid = uid[r]] ELSE conn
  <2>1. /\ UNCHANGED <<usage, uid>> /\ KeepConnections(c)
        /\ \A s \in Res : obj'[s] # Gone => obj[s] # Gone
        /\ \A q \in Procs, s \in Res : Moves(wk[q][s], wk'[q][s])
    BY <1>1, TypeUse, LibraryMoves DEF LibraryPart
  <2>2. \A q \in Procs, s \in Res : c[q][s] = conn[q][s] \/ c[q][s].step = "track"
    <3>1. CASE wk[p][r] = Idle
      <4> DEFINE y == [conn[p][r] EXCEPT !.uid = uid[r]]
      <4>1. c = [conn EXCEPT ![p][r] = y]
        BY <3>1, TypeUse
      <4>2. conn[p][r].step = "track"
        BY <3>1, TypeUse DEF ConnInv, ConnOK, Idle
      <4>3. y.step = "track"
        BY <4>2, TypeUse DEF Connection
      <4> HIDE DEF c, y
      <4> QED
        BY <4>1, <4>3, TypeUse
    <3> QED
      BY <3>1
  <2> HIDE DEF c
  <2>3. \A q \in Procs, s \in Res : conn'[q][s] = conn[q][s] \/ conn'[q][s].step = "track"
    BY <2>1, <2>2, KeptUid
  <2> QED
    BY <2>1, <2>3, MovesTracked
<1>2. CASE PanicStep(p, r)
  <2>1. UNCHANGED <<usage, uid, obj>> /\ KeepConnections(conn) /\ wk' = Killed(p)
    BY <1>2 DEF PanicStep
  <2> QED
    BY <2>1, TypeUse, KilledMoves, KeptUid, MovesTracked
<1>3. CASE Observe(p, r)
  <2>1. UNCHANGED <<usage, uid, obj>> /\ KeepConnections(conn) /\ wk[p][r].pc = "observe"
    BY <1>3 DEF Observe, UseLeaves, At
  <2>2. wk[p][r] \in Worker
    BY <2>1, TypeUse, ManagedUse, WorkerUpdates
  <2>3. \A q \in Procs, s \in Res : Moves(wk[q][s], wk'[q][s])
    BY <1>3, <2>1, <2>2, TypeUse, ObservedMoves, FinishMoves DEF Observe, Fail
  <2> QED
    BY <2>1, <2>3, KeptUid, MovesTracked
<1>4. CASE Create(p, r) \/ Delete(p, r)
  <2>1. UNCHANGED <<usage, uid, obj, conn>> /\ wk[p][r].pc \in {"create", "delete"}
    BY <1>4 DEF Create, Delete, UseLeaves, At
  <2>2. wk[p][r] \in Worker
    BY <2>1, TypeUse, ManagedUse, WorkerUpdates
  <2>3. \A q \in Procs, s \in Res : Moves(wk[q][s], wk'[q][s])
    BY <1>4, <2>2, TypeUse, GoMoves, FinishMoves DEF Create, Delete, Created
  <2> QED
    BY <2>1, <2>3, MovesTracked
<1> QED
  BY <1>1, <1>2, <1>3, <1>4, ConnectTracked DEF Reconcile

\* A resource that is created anew is not the one that any reconcile works on.
LEMMA ResourceTracked ==
  ASSUME TypeInv, TypeInv', KeptInv, TrackedInv, NEW r \in Res, ResourceStep(r)
  PROVE  TrackedInv'
<1>1. UNCHANGED <<usage, conn>>
  BY DEF ResourceStep
<1>2. \A q \in Procs, s \in Res : /\ wk'[q][s].pc = wk[q][s].pc /\ wk'[q][s].mg = wk[q][s].mg
                                  /\ s # r => obj'[s] = obj[s]
  BY TypeUse, UserMoves DEF ResourceStep
<1>3. CASE obj[r] = Gone /\ obj'[r] # Gone
  <2>1. uid' = [uid EXCEPT ![r] = uid[r] + 1]
    BY <1>3 DEF ResourceStep
  <2>2. uid'[r] = uid[r] + 1 /\ \A s \in Res : s # r => uid'[s] = uid[s]
    BY <2>1, TypeUse
  <2>3. \A q \in Procs : conn[q][r].uid # uid'[r]
    <3>1. ASSUME NEW q \in Procs PROVE conn[q][r].uid <= uid[r] /\ conn[q][r].uid \in Nat /\ uid[r] \in Nat
      BY TypeUse, ManagedAssumption DEF KeptInv, PastInv, Connection, UIDs
    <3> QED
      BY <2>2, <3>1
  <2> QED
    BY <1>1, <1>2, <2>2, <2>3 DEF TrackedInv, Tracking, UsageOf, Reference
<1>4. CASE ~ (obj[r] = Gone /\ obj'[r] # Gone)
  <2>1. uid' = uid
    BY <1>4 DEF ResourceStep
  <2> QED
    BY <1>1, <1>2, <1>4, <2>1 DEF TrackedInv, Tracking, UsageOf, Reference
<1> QED
  BY <1>3, <1>4

LEMMA CollectTracked ==
  ASSUME TypeInv, TrackedInv, NEW r \in Res, NEW u \in UIDs, Collect(r, u)
  PROVE  TrackedInv'
<1>1. /\ UNCHANGED <<obj, wk, conn, uid>> /\ (obj[r] = Gone \/ uid[r] # u)
      /\ usage' = [usage EXCEPT ![r][u] = NoUsage]
  BY DEF Collect, managedVars
<1>2. \A s \in Res : obj[s] # Gone => usage'[s][uid[s]] = usage[s][uid[s]]
  BY <1>1, TypeUse
<1> QED
  BY <1>1, <1>2 DEF TrackedInv, Tracking, UsageOf, Reference

LEMMA TrackedStep ==
  ASSUME SingleProcess, TypeInv, KeptInv, TrackedInv, [Next]_vars
  PROVE  TrackedInv'
<1>0. ASSUME UNCHANGED <<obj, wk, conn, usage, uid>> PROVE TrackedInv'
  BY <1>0 DEF TrackedInv, Tracking, UsageOf, Reference
<1>1. CASE \E p \in Procs, r \in Res : Reconcile(p, r)
  BY <1>1, ReconcileTracked
<1>2. CASE \E p \in Procs, c \in Configs : ConfigReconcile(p, c)
  BY <1>0, <1>2 DEF ConfigReconcile, Count, Settle, managedVars
<1>3. CASE \E r \in Res : ResourceStep(r)
  BY <1>3, TypeStep, ResourceTracked
<1>4. CASE \E r \in Res, u \in UIDs : Collect(r, u)
  BY <1>4, CollectTracked
<1>5. CASE \E c \in Configs : ConfigCreate(c) \/ ConfigEdit(c) \/ ConfigDelete(c)
  BY <1>0, <1>5 DEF ConfigCreate, ConfigEdit, ConfigDelete, managedVars
<1>6. CASE SecretChange \/ UNCHANGED vars
  BY <1>0, <1>6 DEF SecretChange, vars, configVars, managedVars
<1>7. CASE \E p \in Procs : ProcessCrash(p)
  <2>1. PICK p \in Procs : ProcessCrash(p)
    BY <1>7
  <2>2. UNCHANGED <<usage, uid, obj>> /\ KeepConnections(conn) /\ wk' = Killed(p)
    BY <2>1 DEF ProcessCrash, Crash
  <2> QED
    BY <2>2, TypeUse, KilledMoves, KeptUid, MovesTracked
<1> QED
  BY <1>1, <1>2, <1>3, <1>4, <1>5, <1>6, <1>7 DEF Next

\* With one process, a reconcile that talks to Cortex has the use of the ProviderConfig that its
\* client was made of recorded, whatever reference users move the resource to and whichever of
\* the two records of Connect fails or has its answer lost.
THEOREM RecordedAtWork == ASSUME SingleProcess PROVE Spec => []UsedWhileAtWork
<1>1. Init => TrackedInv
  BY DEF Init, TrackedInv, Tracking, Unconnected
<1>2. TypeInv /\ KeptInv /\ TrackedInv /\ [Next]_vars => TrackedInv'
  BY TrackedStep
<1>3. TypeInv /\ TrackedInv => UsedWhileAtWork
  BY TypeUse DEF UsedWhileAtWork, TrackedInv, Tracking, AtWork, ConnInv, ConnOK
<1> QED
  BY <1>1, <1>2, <1>3, KeptInvariant, PTL DEF Spec

-----------------------------------------------------------------------------
(***************************************************************************)
(* A resource that was tracked in time leaves nothing behind.              *)
(***************************************************************************)

\* A resource is at home with the ProviderConfig it refers to, and that keeps its tenant.
Own == [s \in Specs |-> s]
TenantsLeft == \A e \in ConfigEdits : e[1].tenant = e[2].tenant

Connected == AtWork \cup {"connect"}
PastRead  == {"trackAgain", "credentials", "done"}

\* The first resource of its name is there.
First(r) == obj[r] # Gone /\ uid[r] = 1

Has(r, t) == <<r, t>> \in things
Tenant(r) == configs[obj[r].spec].spec.tenant

\* A thing in tenant t is one that the stored resource accounts for.
Fits(r, t) ==
  /\ obj[r].finalizer /\ UsageOf(r) # NoUsage
  /\ UsageOf(r).early => t = Tenant(r)

\* What a reconcile of that resource knows: its reference; that it is tracked from the first step
\* of Connect on; its tenant, once that was read, if it was tracked in time; and that it
\* has nothing any more, once its finalizer is about to go.
WorkerOK(p, r) ==
  /\ wk[p][r].pc # "idle" => conn[p][r].uid = uid[r]
  /\ wk[p][r].pc \in Connected =>
       /\ Reference(p, r) = obj[r].spec
       /\ conn[p][r].step # "track" => UsageOf(r) # NoUsage
       /\ conn[p][r].step \in PastRead /\ UsageOf(r).early => conn[p][r].read.tenant = Tenant(r)
  /\ wk[p][r].pc = "removeFinalizer" /\ UsageOf(r).early => \A t \in Tenants : ~ Has(r, t)

FirstOK(r) ==
  /\ \A t \in Tenants : Has(r, t) => Fits(r, t)
  /\ UsageOf(r) # NoUsage => UsageOf(r).config = obj[r].spec
  /\ \A p \in Procs : WorkerOK(p, r)

\* No resource has borne the name yet.
Unborn(r) ==
  /\ obj[r] = Gone
  /\ \A t \in Tenants : ~ Has(r, t)
  /\ \A p \in Procs : wk[p][r].pc = "idle"

LeavesOK(r) == (uid[r] = 0 => Unborn(r)) /\ (First(r) => FirstOK(r))
LeavesInv == \A r \in Res : LeavesOK(r)

\* A reconcile w with connection x goes on to v with y, and comes to know nothing new.
Follows(w, x, v, y) ==
  /\ v.pc # "idle" => w.pc # "idle" /\ y.uid = x.uid
  /\ v.pc \in Connected => w.pc \in Connected /\ v.mg.spec = w.mg.spec /\ y = x
  /\ v.pc = "removeFinalizer" => w.pc = "removeFinalizer"

FollowsOn(q, s) == Follows(wk[q][s], conn[q][s], wk'[q][s], conn'[q][s])

StaysOwn(s) ==
  obj'[s] # Gone => /\ obj[s] # Gone /\ obj'[s].spec = obj[s].spec
                    /\ obj[s].finalizer => obj'[s].finalizer

\* What a step may do to resource s without more ado.
LEMMA LeavesOn ==
  ASSUME NEW s \in Res, LeavesOK(s), uid'[s] = uid[s], StaysOwn(s),
         First(s) => UsageOf(s)' = UsageOf(s),
         First(s) /\ UsageOf(s).early => configs'[obj[s].spec].spec.tenant = Tenant(s),
         \A t \in Tenants : Has(s, t)' =>
           \/ Has(s, t)
           \/ /\ uid[s] # 0 /\ (First(s) => Fits(s, t))
              /\ \A q \in Procs : wk'[q][s].pc # "removeFinalizer",
         \A q \in Procs :
           FollowsOn(q, s) \/ (uid[s] # 0 /\ (First(s)' => WorkerOK(q, s)'))
  PROVE  LeavesOK(s)'
<1>1. CASE uid[s] = 0
  <2>1. Unborn(s)
    BY <1>1 DEF LeavesOK
  <2>2. Unborn(s)'
    BY <1>1, <2>1 DEF Unborn, StaysOwn, FollowsOn, Follows
  <2> QED
    BY <1>1, <2>2 DEF LeavesOK, First
<1>2. CASE uid[s] # 0
  <2>1. SUFFICES ASSUME First(s)'
                 PROVE  FirstOK(s)'
    BY <1>2 DEF LeavesOK
  <2>2. /\ First(s) /\ FirstOK(s) /\ obj'[s].spec = obj[s].spec
        /\ obj[s].finalizer => obj'[s].finalizer
    BY <2>1 DEF StaysOwn, First, LeavesOK
  <2>3. UsageOf(s)' = UsageOf(s) /\ (UsageOf(s).early => Tenant(s)' = Tenant(s))
    BY <2>2 DEF Tenant
  <2>4. \A t \in Tenants : Fits(s, t) => Fits(s, t)'
    BY <2>2, <2>3 DEF Fits
  <2>5. \A t \in Tenants : Has(s, t)' => Fits(s, t)'
    BY <2>2, <2>4 DEF FirstOK
  <2>6. \A q \in Procs : WorkerOK(q, s)'
    <3>1. SUFFICES ASSUME NEW q \in Procs, FollowsOn(q, s)
                   PROVE  WorkerOK(q, s)'
      BY <2>1
    <3>2. WorkerOK(q, s)
      BY <2>2 DEF FirstOK
    <3>3. wk'[q][s].pc # "idle" => conn'[q][s].uid = uid'[s]
      BY <3>1, <3>2 DEF FollowsOn, Follows, WorkerOK
    <3>4. wk'[q][s].pc \in Connected =>
            /\ Reference(q, s)' = obj'[s].spec
            /\ conn'[q][s].step # "track" => UsageOf(s)' # NoUsage
            /\ conn'[q][s].step \in PastRead /\ UsageOf(s)'.early => conn'[q][s].read.tenant = Tenant(s)'
      BY <2>2, <2>3, <3>1, <3>2 DEF FollowsOn, Follows, WorkerOK, Reference
    <3>5. wk'[q][s].pc = "removeFinalizer" /\ UsageOf(s)'.early => \A t \in Tenants : ~ Has(s, t)'
      BY <2>3, <3>1, <3>2 DEF FollowsOn, Follows, WorkerOK
    <3> QED
      BY <3>3, <3>4, <3>5 DEF WorkerOK
  <2> QED
    BY <2>2, <2>3, <2>5, <2>6 DEF FirstOK
<1> QED
  BY <1>1, <1>2

\* A step that leaves the things, the usages and the ProviderConfigs as they are.
LEMMA LeavesQuiet ==
  ASSUME LeavesInv, UNCHANGED <<uid, usage, configs, things>>, \A s \in Res : StaysOwn(s),
         \A q \in Procs, s \in Res :
           FollowsOn(q, s) \/ (uid[s] # 0 /\ (First(s)' => WorkerOK(q, s)'))
  PROVE  LeavesInv'
<1>1. SUFFICES ASSUME NEW s \in Res
               PROVE  LeavesOK(s)'
  BY DEF LeavesInv
<1>2. /\ LeavesOK(s) /\ uid'[s] = uid[s] /\ UsageOf(s)' = UsageOf(s)
      /\ configs'[obj[s].spec].spec.tenant = Tenant(s)
      /\ \A t \in Tenants : Has(s, t)' => Has(s, t)
  BY DEF LeavesInv, UsageOf, Tenant, Has
<1> QED
  BY <1>2, LeavesOn

\* A resource whose reconcile is under way has been there.
LEMMA BornAtWork ==
  ASSUME LeavesInv, NEW p \in Procs, NEW r \in Res, wk[p][r].pc # "idle"
  PROVE  uid[r] # 0 /\ (First(r) => FirstOK(r) /\ WorkerOK(p, r))
BY DEF LeavesInv, LeavesOK, Unborn, FirstOK

\* Homes are references here.
LEMMA OwnHome ==
  ASSUME ManagedInv, ManagedInv', NEW s \in Res, StaysHome(Own, s)
  PROVE  StaysOwn(s)
<1>1. /\ obj[s] # Gone => obj[s].spec \in Specs
      /\ obj'[s] # Gone => obj'[s].spec \in Specs
  BY DEF ManagedInv, ManagedTypeOK, Object
<1> QED
  BY <1>1 DEF StaysHome, StaysOwn, Own

LEMMA OwnSame ==
  ASSUME obj' = obj, NEW s \in Res
  PROVE  StaysOwn(s)
BY DEF StaysOwn

-----------------------------------------------------------------------------
(***************************************************************************)
(* The reconciler's lock, around this Connect.                             *)
(***************************************************************************)

\* What a request of Connect or a call with its client does to the worker.
LEMMA ClientCalls ==
  ASSUME TypeInv, NEW p \in Procs, NEW r \in Res,
         Connect(p, r) \/ PanicStep(p, r) \/ Observe(p, r) \/ Create(p, r) \/ Delete(p, r)
  PROVE  obj' = obj /\ (FindsNone(p, r) \/ QuietCall(p, r) \/ wk' = wk)
<1> DEFINE v == wk[p][r]
<1>1. obj' = obj
  BY DEF Connect, Track, CheckConfig, ReadConfig, ReadCredentials, ConnectLeaves, PanicStep,
         Observe, Create, Delete, UseLeaves
<1>2. ASSUME v.pc # "idle", Fail(p, r)
      PROVE  QuietCall(p, r)
  <2>1. v.mg.ready \in Conditions
    <3>1. v.mg \in Object
      BY <1>2, TypeUse, ManagedUse, WorkerUpdates
    <3> QED
      BY <3>1 DEF Object, Conditions
  <2> QED
    BY <1>2, <2>1 DEF QuietCall, Fail
<1>3. CASE Connect(p, r)
  <2>1. v.pc = "connect"
    BY <1>3 DEF Connect, Track, CheckConfig, ReadConfig, ReadCredentials, Connecting, At
  <2>2. wk' = wk \/ Fail(p, r) \/ Go(p, r, "observe", v.mg)
    BY <1>3 DEF Connect, Track, CheckConfig, ReadConfig, ReadCredentials, Advance, Refuse, Broken
  <2> QED
    BY <1>1, <1>2, <2>1, <2>2 DEF QuietCall
<1>4. CASE PanicStep(p, r)
  BY <1>1, <1>4 DEF PanicStep, QuietCall
<1>5. CASE Observe(p, r)
  <2>1. v.pc = "observe"
    BY <1>5 DEF Observe, At
  <2>2. \/ Found(p, r, Available(v.mg), TRUE) \/ NotFound(p, r, v.mg) \/ Fail(p, r)
    BY <1>5 DEF Observe
  <2> QED
    BY <1>1, <1>2, <2>1, <2>2 DEF QuietCall, FindsNone
<1>6. CASE Create(p, r)
  BY <1>1, <1>6 DEF Create, At, QuietCall
<1>7. CASE Delete(p, r)
  BY <1>1, <1>7 DEF Delete, At, QuietCall, Conditions
<1> QED
  BY <1>3, <1>4, <1>5, <1>6, <1>7

LEMMA OwnLock ==
  ASSUME TypeInv, LockInv(Own), Undisturbed(Own), [Next]_vars
  PROVE  LockInv(Own)'
<1>0. ManagedInv' /\ SingleProcess
  BY TypeStep DEF TypeInv, Undisturbed
<1>1. ASSUME obj' = obj, wk' = wk
      PROVE  LockInv(Own)'
  BY <1>0, <1>1 DEF LockInv, ObjectInv, CopyInv
<1>2. CASE \E p \in Procs, r \in Res : Reconcile(p, r)
  <2>1. PICK p \in Procs, r \in Res : Reconcile(p, r)
    BY <1>2
  <2>2. CASE LibraryPart(p, r)
    BY <1>0, <2>2, LockLibrary DEF LibraryPart
  <2>3. CASE ~ LibraryPart(p, r)
    <3>1. obj' = obj /\ (FindsNone(p, r) \/ QuietCall(p, r) \/ wk' = wk)
      BY <2>1, <2>3, ClientCalls DEF Reconcile
    <3> QED
      BY <1>0, <1>1, <3>1, LockCall, LockNotFound DEF FindsNone
  <2> QED
    BY <2>2, <2>3
<1>3. CASE \E r \in Res : ResourceStep(r)
  BY <1>0, <1>3, LockUser DEF ResourceStep
<1>4. CASE \E p \in Procs : ProcessCrash(p)
  BY <1>0, <1>4, LockKilled DEF ProcessCrash, Crash
<1>5. CASE \/ \E p \in Procs, c \in Configs : ConfigReconcile(p, c)
           \/ \E r \in Res, u \in UIDs : Collect(r, u)
           \/ \E c \in Configs : ConfigCreate(c) \/ ConfigEdit(c) \/ ConfigDelete(c)
           \/ SecretChange \/ UNCHANGED vars
  BY <1>1, <1>5 DEF ConfigReconcile, Count, Settle, Collect, ConfigCreate, ConfigEdit, ConfigDelete,
     SecretChange, vars, managedVars
<1> QED
  BY <1>2, <1>3, <1>4, <1>5 DEF Next

-----------------------------------------------------------------------------
(***************************************************************************)
(* What a reconcile knows of its resource, step by step.                   *)
(***************************************************************************)

\* What comes to connect is of a copy that has just been read or written.
LEMMA FreshReference ==
  ASSUME LockInv(Own)', NEW p \in Procs, NEW r \in Res, wk'[p][r].pc = "connect", wk'[p][r].fresh
  PROVE  Reference(p, r)' = obj'[r].spec
<1>1. CopyOK(Own, wk'[p][r], r, obj'[r]) /\ ManagedInv'
  BY DEF LockInv, CopyInv, Working
<1>2. wk'[p][r] \in Worker /\ obj'[r] \in Object
  BY <1>1 DEF ManagedInv, ManagedTypeOK, FreshCopies, Idle
<1>3. wk'[p][r].mg.spec \in Specs /\ obj'[r].spec \in Specs
  BY <1>2 DEF Worker, Object
<1> QED
  BY <1>1, <1>3 DEF CopyOK, Own, Reference

LEMMA LeavesLibrary ==
  ASSUME TypeInv, LockInv(Own), LockInv(Own)', LeavesInv, Undisturbed(Own),
         NEW p \in Procs, NEW r \in Res, LibraryPart(p, r)
  PROVE  LeavesInv'
<1> DEFINE c == IF wk[p][r] = Idle THEN [conn EXCEPT ![p][r].uid = uid[r]] ELSE conn
<1>1. /\ ManagedInv /\ ManagedInv' /\ ConnInv /\ LibraryStep(p, r)
      /\ UNCHANGED <<uid, usage, configs, things>> /\ KeepConnections(c)
  BY TypeUse DEF LibraryPart, LockInv
<1>2. \A q \in Procs, s \in Res : Moves(wk[q][s], wk'[q][s])
  BY <1>1, LibraryMoves
<1>3. Opens(p, r)
  BY <1>1, OpensLibrary
<1>4. NoNewRelease
  BY <1>1, LockLibrary
<1>5. \A s \in Res : StaysOwn(s)
  BY <1>1, HomeLibrary, OwnHome
<1>6. wk'[p][r].pc = "connect" => Reference(p, r)' = obj'[r].spec
  BY <1>3, FreshReference DEF Opens
<1>7. /\ \A q \in Procs, s \in Res : ~ (q = p /\ s = r /\ wk[p][r].pc = "idle") => c[q][s] = conn[q][s]
      /\ c[p][r].step = conn[p][r].step
      /\ wk[p][r].pc = "idle" => c[p][r].uid = uid[r]
  <2>1. conn[p][r] \in Connection /\ (wk[p][r].pc = "idle" <=> wk[p][r] = Idle)
    <3>1. wk[p][r] \in Worker \cup {Idle} /\ Idle.pc = "idle" /\ \A w \in Worker : w.pc # "idle"
      BY <1>1, ManagedUse, WorkerUpdates DEF Idle
    <3> QED
      BY <3>1, TypeUse
  <2> DEFINE x == [conn[p][r] EXCEPT !.uid = uid[r]]
  <2>2. x.uid = uid[r] /\ x.step = conn[p][r].step
    BY <2>1 DEF Connection
  <2>3. wk[p][r] = Idle => c = [conn EXCEPT ![p][r] = x]
    BY TypeUse
  <2> HIDE DEF x
  <2>4. wk[p][r] # Idle => c = conn
    OBVIOUS
  <2> HIDE DEF c
  <2> QED
    BY <2>1, <2>2, <2>3, <2>4, TypeUse
<1>8. \A q \in Procs, s \in Res : wk'[q][s].pc # "idle" => conn'[q][s] = c[q][s]
  BY <1>1 DEF KeepConnections, Idle
<1> HIDE DEF c
<1>9. SUFFICES ASSUME NEW q \in Procs, NEW s \in Res, ~ FollowsOn(q, s)
               PROVE  uid[s] # 0 /\ (First(s)' => WorkerOK(q, s)')
  BY <1>1, <1>5, LeavesQuiet
<1>10. q = p /\ s = r /\ wk[p][r].pc \in {"idle", "initialize"} /\ wk'[p][r].pc # "idle"
  <2>1. wk'[q][s].pc # "idle"
    BY <1>4, <1>9 DEF FollowsOn, Follows, NoNewRelease, Connected, AtWork
  <2>2. ASSUME wk[q][s].pc \notin {"idle", "initialize"}
        PROVE  FALSE
    <3>1. conn'[q][s] = conn[q][s]
      BY <1>7, <1>8, <2>1, <2>2
    <3>2. wk'[q][s].pc \in Connected => wk[q][s].pc \in Connected /\ wk'[q][s].mg.spec = wk[q][s].mg.spec
      BY <1>2, <2>2 DEF Moves, Connected, AtWork
    <3> QED
      BY <1>4, <1>9, <2>2, <3>1, <3>2 DEF FollowsOn, Follows, NoNewRelease
  <2>3. ASSUME ~ (q = p /\ s = r)
        PROVE  FALSE
    <3>1. wk'[q][s].pc = wk[q][s].pc /\ conn'[q][s] = conn[q][s]
      BY <1>3, <1>7, <1>8, <2>1, <2>3 DEF Opens
    <3>2. wk'[q][s].pc \notin Connected /\ wk'[q][s].pc # "removeFinalizer"
      BY <2>1, <2>2, <3>1 DEF Connected, AtWork
    <3> QED
      BY <1>9, <3>1, <3>2 DEF FollowsOn, Follows
  <2> QED
    BY <2>1, <2>2, <2>3
<1>11. uid[r] # 0
  <2>1. obj[r] # Gone \/ wk[p][r].pc # "idle"
    BY <1>3 DEF Opens
  <2> QED
    BY <2>1 DEF LeavesInv, LeavesOK, Unborn
<1>12. SUFFICES ASSUME First(r)'
                PROVE  WorkerOK(p, r)'
  BY <1>10, <1>11
<1>13. First(r)
  BY <1>1, <1>5, <1>12 DEF First, StaysOwn
<1>14. conn'[p][r].uid = uid'[r]
  <2>1. CASE wk[p][r].pc = "idle"
    BY <1>1, <1>7, <1>8, <1>10, <2>1
  <2>2. CASE wk[p][r].pc # "idle"
    BY <1>1, <1>7, <1>8, <1>10, <1>13, <2>2, BornAtWork DEF WorkerOK
  <2> QED
    BY <2>1, <2>2
<1>15. conn'[p][r].step = "track"
  BY <1>1, <1>7, <1>8, <1>10 DEF ConnInv, ConnOK
<1>16. wk'[p][r].pc # "removeFinalizer"
  BY <1>4, <1>10 DEF NoNewRelease
<1>17. wk'[p][r].pc \in Connected => wk'[p][r].pc = "connect"
  BY <1>2, <1>10 DEF Moves, Connected, AtWork
<1> QED
  BY <1>6, <1>14, <1>15, <1>16, <1>17 DEF WorkerOK, PastRead

\* A request of Connect that takes worker v with connection x to w with y, after which r's usage
\* is recorded if Connect is past its first step, and the tenant was read if it is past that.
Requests(p, r, w, y) ==
  LET v == wk[p][r]
      x == conn[p][r]
  IN  /\ wk' = [wk EXCEPT ![p][r] = w] /\ conn' = [conn EXCEPT ![p][r] = y]
      /\ usage' = usage \/ Recorded(p, r)
      /\ w.pc # "removeFinalizer" /\ y.uid = x.uid
      /\ w.pc \in Connected =>
           /\ w.mg.spec = v.mg.spec
           /\ y.step # "track" => Recorded(p, r) \/ (usage' = usage /\ x.step # "track")
           /\ y.step \in PastRead =>
                /\ x.step # "track"
                /\ (x.step \in PastRead /\ y.read = x.read) \/ y.read = configs[Reference(p, r)].spec

LEMMA LeavesRequest ==
  ASSUME TypeInv, LeavesInv, SingleProcess, NEW p \in Procs, NEW r \in Res, wk[p][r].pc = "connect",
         UNCHANGED <<obj, uid, configs, things>>, NEW w, NEW y, Requests(p, r, w, y)
  PROVE  LeavesInv'
<1> DEFINE v == wk[p][r]
           x == conn[p][r]
           c == Reference(p, r)
<1>1. /\ c \in Configs /\ x \in Connection /\ uid[r] # 0 /\ \A q \in Procs : q = p
      /\ \A s \in Res : uid[s] \in UIDs
  <2>1. v \in Worker /\ v.mg \in Object
    BY TypeUse, ManagedUse, WorkerUpdates
  <2> QED
    BY <2>1, TypeUse, BornAtWork DEF Reference, Object, Configs, SingleProcess
<1>2. /\ wk'[p][r] = w /\ conn'[p][r] = y
      /\ \A s \in Res : s # r => wk'[p][s] = wk[p][s] /\ conn'[p][s] = conn[p][s]
  BY TypeUse, ManagedUse DEF Requests
<1>3. \A s \in Res, u \in UIDs : ~ (s = r /\ u = x.uid) => usage'[s][u] = usage[s][u]
  BY <1>1, RecordedEffect DEF Requests
<1>4. SUFFICES ASSUME NEW s \in Res
               PROVE  LeavesOK(s)'
  BY DEF LeavesInv
<1>5. /\ LeavesOK(s) /\ uid'[s] = uid[s] /\ StaysOwn(s)
      /\ configs'[obj[s].spec].spec.tenant = Tenant(s)
      /\ \A t \in Tenants : Has(s, t)' => Has(s, t)
  BY OwnSame DEF LeavesInv, Has, Tenant
<1>6. CASE s # r
  <2>1. \A q \in Procs : FollowsOn(q, s)
    BY <1>1, <1>2, <1>6 DEF FollowsOn, Follows
  <2>2. UsageOf(s)' = UsageOf(s)
    BY <1>1, <1>3, <1>6 DEF UsageOf
  <2> QED
    BY <1>5, <2>1, <2>2, LeavesOn
<1>7. CASE s = r /\ ~ First(r)
  BY <1>1, <1>5, <1>7, LeavesOn DEF First
<1>8. CASE s = r /\ First(r)
  <2>1. /\ FirstOK(r) /\ WorkerOK(p, r) /\ x.uid = uid[r] /\ c = obj[r].spec /\ UsageOf(r) = usage[r][x.uid]
    BY <1>8, BornAtWork DEF WorkerOK, UsageOf, Connected
  <2>2. Recorded(p, r) => UsageOf(r)'.config = c /\ UsageOf(r)' # NoUsage
    BY <1>1, <2>1, RecordedEffect, NoConfigAssumption DEF UsageOf, NoUsage
  <2>3. w.pc # "idle" => conn'[p][r].uid = uid'[r]
    BY <1>2, <2>1 DEF Requests
  <2>4. w.pc \in Connected =>
          /\ Reference(p, r)' = obj'[r].spec
          /\ conn'[p][r].step # "track" => UsageOf(r)' # NoUsage
    <3>1. SUFFICES ASSUME w.pc \in Connected
                   PROVE  /\ Reference(p, r)' = obj'[r].spec
                          /\ conn'[p][r].step # "track" => UsageOf(r)' # NoUsage
      OBVIOUS
    <3>2. w.mg.spec = c /\ Reference(p, r)' = w.mg.spec
      BY <1>2, <3>1 DEF Requests, Reference
    <3>3. y.step # "track" => Recorded(p, r) \/ (usage' = usage /\ x.step # "track")
      BY <3>1 DEF Requests
    <3>4. x.step # "track" => UsageOf(r) # NoUsage
      BY <2>1 DEF WorkerOK, Connected
    <3> QED
      BY <1>2, <2>1, <2>2, <3>2, <3>3, <3>4 DEF UsageOf
  <2>5. CASE UsageOf(r)' = UsageOf(r)
    <3>1. w.pc \in Connected /\ y.step \in PastRead /\ UsageOf(r).early => y.read.tenant = Tenant(r)
      BY <2>1 DEF Requests, WorkerOK, Connected, Tenant
    <3>2. WorkerOK(p, r)'
      <4>1. Tenant(r)' = Tenant(r) /\ w.pc # "removeFinalizer"
        BY DEF Tenant, Requests
      <4> QED
        BY <1>2, <2>3, <2>4, <2>5, <3>1, <4>1 DEF WorkerOK
    <3> QED
      BY <1>1, <1>5, <1>8, <2>5, <3>2, LeavesOn
  <2>6. CASE UsageOf(r)' # UsageOf(r)
    <3>1. Recorded(p, r) /\ usage' # usage
      BY <2>6 DEF Requests, UsageOf
    <3>2. UsageOf(r) = NoUsage
      BY <2>1, <3>1 DEF Recorded, FirstOK
    <3>3. x.step = "track" /\ \A t \in Tenants : ~ Has(r, t)
      BY <2>1, <3>2 DEF WorkerOK, FirstOK, Fits, Connected
    <3>4. WorkerOK(p, r)'
      <4>1. w.pc # "removeFinalizer" /\ ~ (w.pc \in Connected /\ y.step \in PastRead)
        BY <3>3 DEF Requests
      <4> QED
        BY <1>2, <2>3, <2>4, <4>1 DEF WorkerOK
    <3>5. FirstOK(r)'
      BY <1>1, <1>5, <1>8, <2>1, <2>2, <3>1, <3>3, <3>4 DEF FirstOK
    <3> QED
      BY <1>1, <1>8, <3>5 DEF LeavesOK
  <2> QED
    BY <2>5, <2>6
<1> QED
  BY <1>6, <1>7, <1>8

LEMMA LeavesConnect ==
  ASSUME TypeInv, LeavesInv, SingleProcess, NEW p \in Procs, NEW r \in Res, Connect(p, r)
  PROVE  LeavesInv'
<1> DEFINE v == wk[p][r]
           x == conn[p][r]
           c == Reference(p, r)
<1>1. v.pc = "connect" /\ UNCHANGED <<obj, uid, configs, things>>
  BY DEF Connect, Track, CheckConfig, ReadConfig, ReadCredentials, ConnectLeaves, Connecting, At
<1>2. v \in Worker /\ x \in Connection /\ wk = [wk EXCEPT ![p][r] = v] /\ conn = [conn EXCEPT ![p][r] = x]
  BY <1>1, TypeUse, ManagedUse
<1>3. ASSUME Fail(p, r), conn' = conn, usage' = usage \/ Recorded(p, r)
      PROVE  LeavesInv'
  <2>1. PICK m : wk' = [wk EXCEPT ![p][r] = [v EXCEPT !.pc = "status", !.mg = m]]
    BY <1>3, ManagedUse DEF Fail, Finish, Go
  <2> DEFINE w == [v EXCEPT !.pc = "status", !.mg = m]
  <2>2. w.pc = "status"
    BY <1>2 DEF Worker
  <2> HIDE DEF w
  <2>3. Requests(p, r, w, x)
    BY <1>2, <1>3, <2>1, <2>2 DEF w, Requests, Connected, AtWork
  <2> QED
    BY <1>1, <2>3, LeavesRequest
<1>4. ASSUME NEW step PROVE [x EXCEPT !.step = step].uid = x.uid /\ [x EXCEPT !.step = step].step = step
                            /\ [x EXCEPT !.step = step].read = x.read
  BY <1>2 DEF Connection
<1>5. ASSUME NEW step, Advance(p, r, step), Recorded(p, r) \/ (usage' = usage /\ x.step # "track"),
             step \in PastRead => x.step \in PastRead
      PROVE  LeavesInv'
  <2> DEFINE y == [x EXCEPT !.step = step]
  <2>1. wk' = [wk EXCEPT ![p][r] = v] /\ conn' = [conn EXCEPT ![p][r] = y]
    BY <1>2, <1>5, TypeUse DEF Advance
  <2>2. y.uid = x.uid /\ y.step = step /\ y.read = x.read
    BY <1>4
  <2> HIDE DEF y
  <2>3. Requests(p, r, v, y)
    BY <1>1, <1>5, <2>1, <2>2 DEF Requests, PastRead
  <2> QED
    BY <1>1, <2>3, LeavesRequest
<1>6. CASE Track(p, r, "track", "check") \/ Track(p, r, "trackAgain", "credentials")
  <2>1. CASE Broken(p, r)
    BY <1>3, <1>6, <2>1 DEF Track, Broken
  <2>2. CASE ~ Broken(p, r)
    BY <1>5, <1>6, <2>2 DEF Track, Connecting, PastRead
  <2> QED
    BY <2>1, <2>2
<1>7. CASE CheckConfig(p, r)
  <2>1. usage' = usage /\ x.step = "check"
    BY <1>7 DEF CheckConfig, Connecting
  <2>2. (Fail(p, r) /\ conn' = conn) \/ Advance(p, r, "read")
    BY <1>7 DEF CheckConfig, Refuse, Broken
  <2> QED
    BY <1>3, <1>5, <2>1, <2>2 DEF PastRead
<1>8. CASE ReadConfig(p, r)
  <2>1. usage' = usage /\ x.step = "read"
    BY <1>8 DEF ReadConfig, Connecting
  <2>2. CASE /\ wk' = wk
             /\ conn' = [conn EXCEPT ![p][r].step = "trackAgain", ![p][r].read = configs[c].spec]
    <3> DEFINE y == [x EXCEPT !.step = "trackAgain", !.read = configs[c].spec]
    <3>1. conn' = [conn EXCEPT ![p][r] = y]
      BY <2>2, TypeUse
    <3>2. y.uid = x.uid /\ y.read = configs[c].spec
      BY <1>2 DEF Connection
    <3> HIDE DEF y
    <3>3. Requests(p, r, v, y)
      BY <1>1, <1>2, <2>1, <2>2, <3>1, <3>2 DEF Requests
    <3> QED
      BY <1>1, <3>3, LeavesRequest
  <2> QED
    BY <1>3, <1>8, <2>2 DEF ReadConfig, Refuse, Broken
<1>9. CASE ReadCredentials(p, r)
  <2>1. usage' = usage /\ x.step = "credentials"
    BY <1>9 DEF ReadCredentials, Connecting
  <2>2. CASE Go(p, r, "observe", v.mg) /\ conn' = [conn EXCEPT ![p][r].step = "done"]
    <3> DEFINE w == [v EXCEPT !.pc = "observe", !.mg = v.mg]
               y == [x EXCEPT !.step = "done"]
    <3>1. wk' = [wk EXCEPT ![p][r] = w] /\ conn' = [conn EXCEPT ![p][r] = y]
      BY <2>2, TypeUse, ManagedUse DEF Go
    <3>2. w.pc = "observe" /\ w.mg = v.mg /\ y.uid = x.uid /\ y.step = "done" /\ y.read = x.read
      BY <1>2, <1>4 DEF Worker
    <3> HIDE DEF w, y
    <3>3. Requests(p, r, w, y)
      BY <2>1, <3>1, <3>2 DEF Requests, PastRead
    <3> QED
      BY <1>1, <3>3, LeavesRequest
  <2> QED
    BY <1>3, <1>9, <2>1, <2>2 DEF ReadCredentials, Refuse, Broken
<1> QED
  BY <1>6, <1>7, <1>8, <1>9 DEF Connect

\* A step that moves one worker only, which was under way, to w, and keeps connections.
Turns(p, r, w) ==
  /\ wk' = [wk EXCEPT ![p][r] = w]
  /\ conn' = conn \/ KeepConnections(conn)
  /\ wk[p][r].pc # "idle"
  /\ w.pc \in Connected => wk[p][r].pc \in Connected /\ w.mg.spec = wk[p][r].mg.spec

LEMMA OneFollows ==
  ASSUME TypeInv, NEW p \in Procs, NEW r \in Res, NEW w, Turns(p, r, w)
  PROVE  \A q \in Procs, s \in Res : FollowsOn(q, s) \/ (q = p /\ s = r /\ w.pc = "removeFinalizer")
<1>1. SUFFICES ASSUME NEW q \in Procs, NEW s \in Res, ~ (q = p /\ s = r /\ w.pc = "removeFinalizer")
               PROVE  FollowsOn(q, s)
  OBVIOUS
<1>2. wk'[q][s].pc # "idle" => conn'[q][s] = conn[q][s]
  BY DEF Turns, KeepConnections, Idle
<1>3. wk'[q][s] = IF q = p /\ s = r THEN w ELSE wk[q][s]
  BY TypeUse, ManagedUse DEF Turns
<1>4. CASE q = p /\ s = r
  BY <1>1, <1>2, <1>3, <1>4 DEF Turns, FollowsOn, Follows, Connected, AtWork
<1>5. CASE ~ (q = p /\ s = r)
  BY <1>2, <1>3, <1>5 DEF FollowsOn, Follows, Connected, AtWork
<1> QED
  BY <1>4, <1>5

\* What a reconcile with a client knows of the first resource of its name.
LEMMA ClientKnows ==
  ASSUME TypeInv, LeavesInv, NEW p \in Procs, NEW r \in Res, wk[p][r].pc \in AtWork, First(r)
  PROVE  /\ FirstOK(r) /\ UsageOf(r) # NoUsage
         /\ UsageOf(r).early => conn[p][r].read.tenant = Tenant(r)
<1>1. wk[p][r].pc # "idle" /\ wk[p][r].pc \in Connected /\ conn[p][r].step = "done"
  BY TypeUse DEF AtWork, Connected, ConnInv, ConnOK
<1>2. FirstOK(r) /\ WorkerOK(p, r)
  BY <1>1, BornAtWork
<1> QED
  BY <1>1, <1>2 DEF WorkerOK, PastRead

LEMMA LeavesObserve ==
  ASSUME TypeInv, LockInv(Own), LockInv(Own)', LeavesInv, SingleProcess,
         NEW p \in Procs, NEW r \in Res, Observe(p, r)
  PROVE  LeavesInv'
<1> DEFINE v == wk[p][r]
<1>1. /\ v.pc = "observe" /\ v \in Worker /\ ManagedInv /\ ManagedInv'
      /\ UNCHANGED <<obj, uid, usage, configs, things>> /\ KeepConnections(conn)
  <2>1. v.pc = "observe"
    BY DEF Observe, At
  <2> QED
    BY <2>1, TypeUse, ManagedUse DEF Observe, UseLeaves, LockInv
<1>2. PICK w : wk' = [wk EXCEPT ![p][r] = w]
  BY DEF Observe, Found, NotFound, Fail, Finish, Go
<1>3. wk'[p][r] = w
  BY <1>1, <1>2, ManagedUse
<1>4. \A q \in Procs, s \in Res : Moves(wk[q][s], wk'[q][s])
  <2>1. Fail(p, r) => \A q \in Procs, s \in Res : Moves(wk[q][s], wk'[q][s])
    BY <1>1, FinishMoves DEF Fail
  <2> QED
    BY <1>1, <2>1, ObservedMoves DEF Observe
<1>5. w.pc \in Connected => w.mg.spec = v.mg.spec
  BY <1>1, <1>3, <1>4 DEF Moves, Connected
<1>6. w.pc = "removeFinalizer" => Place(p, r) \notin things
  <2>1. SUFFICES ASSUME Place(p, r) \in things, w.pc = "removeFinalizer"
                 PROVE  FALSE
    OBVIOUS
  <2>2. CASE Found(p, r, Available(v.mg), TRUE)
    <3>1. QuietCall(p, r)
      BY <1>1, <2>2 DEF QuietCall
    <3>2. NoNewRelease
      BY <1>1, <3>1, LockCall
    <3> QED
      BY <1>1, <1>3, <2>1, <3>2 DEF NoNewRelease
  <2>3. CASE Fail(p, r)
    BY <1>1, <1>3, <2>1, <2>3, FinishMoves DEF Fail
  <2> QED
    BY <2>1, <2>2, <2>3 DEF Observe
<1>7. w.pc = "removeFinalizer" => uid[r] # 0 /\ (First(r)' => WorkerOK(p, r)')
  <2>1. SUFFICES ASSUME w.pc = "removeFinalizer"
                 PROVE  uid[r] # 0 /\ (First(r)' => WorkerOK(p, r)')
    OBVIOUS
  <2>2. uid[r] # 0
    BY <1>1, BornAtWork
  <2>3. SUFFICES ASSUME First(r)
                 PROVE  WorkerOK(p, r)'
    BY <1>1, <2>2 DEF First
  <2>4. /\ FirstOK(r) /\ (UsageOf(r).early => conn[p][r].read.tenant = Tenant(r))
        /\ conn[p][r].uid = uid[r]
    <3>1. FirstOK(r) /\ (UsageOf(r).early => conn[p][r].read.tenant = Tenant(r))
      BY <1>1, <2>3, ClientKnows DEF AtWork
    <3> QED
      BY <1>1, <3>1 DEF FirstOK, WorkerOK
  <2>5. conn'[p][r] = conn[p][r]
    BY <1>1, <1>3, <2>1 DEF KeepConnections, Idle
  <2>6. UsageOf(r).early => \A t \in Tenants : ~ Has(r, t)
    BY <1>6, <2>1, <2>4 DEF FirstOK, Fits, Has, Place
  <2>7. UsageOf(r)' = UsageOf(r) /\ \A t \in Tenants : Has(r, t)' <=> Has(r, t)
    BY <1>1 DEF UsageOf, Has
  <2> QED
    BY <1>1, <1>3, <2>1, <2>4, <2>5, <2>6, <2>7 DEF WorkerOK, Connected, AtWork
<1>8. \A q \in Procs, s \in Res : FollowsOn(q, s) \/ (q = p /\ s = r /\ w.pc = "removeFinalizer")
  <2>1. w.pc \in Connected => wk[p][r].pc \in Connected /\ w.mg.spec = wk[p][r].mg.spec
    BY <1>1, <1>5 DEF Connected, AtWork
  <2>2. Turns(p, r, w)
    BY <1>1, <1>2, <2>1 DEF Turns
  <2> QED
    BY <2>2, OneFollows
<1>9. \A s \in Res : StaysOwn(s)
  BY <1>1, OwnSame
<1> QED
  BY <1>1, <1>7, <1>8, <1>9, LeavesQuiet

LEMMA LeavesDelete ==
  ASSUME TypeInv, LeavesInv, NEW p \in Procs, NEW r \in Res, Delete(p, r)
  PROVE  LeavesInv'
<1> DEFINE v == wk[p][r]
<1>1. /\ v.pc = "delete" /\ v \in Worker /\ UNCHANGED <<obj, uid, usage, configs, conn>>
      /\ things' \subseteq things /\ \E e : Finish(p, r, "deleting", e)
  <2>1. v.pc = "delete"
    BY DEF Delete, At
  <2> QED
    BY <2>1, TypeUse, ManagedUse DEF Delete, UseLeaves
<1>2. PICK w : wk' = [wk EXCEPT ![p][r] = w]
  <2>1. PICK e : Finish(p, r, "deleting", e)
    BY <1>1
  <2>2. wk' = [wk EXCEPT ![p][r] =
                 [v EXCEPT !.pc = "status", !.mg = [v.mg EXCEPT !.ready = "deleting", !.synced = e]]]
    BY <2>1, TypeUse, ManagedUse DEF Finish, Go
  <2> QED
    BY <2>2
<1>3. w.pc = "status"
  <2>1. wk'[p][r] = w
    BY <1>2, TypeUse, ManagedUse
  <2> QED
    BY <1>1, <2>1, TypeUse, FinishMoves
<1>4. \A q \in Procs, s \in Res : FollowsOn(q, s)
  <2>1. w.pc \notin Connected /\ w.pc # "removeFinalizer" /\ wk[p][r].pc # "idle" /\ conn' = conn
    BY <1>1, <1>3 DEF Connected, AtWork
  <2>2. Turns(p, r, w)
    BY <1>2, <2>1 DEF Turns
  <2> QED
    BY <2>1, <2>2, OneFollows
<1>5. SUFFICES ASSUME NEW s \in Res
               PROVE  LeavesOK(s)'
  BY DEF LeavesInv
<1>6. /\ LeavesOK(s) /\ uid'[s] = uid[s] /\ UsageOf(s)' = UsageOf(s) /\ StaysOwn(s)
      /\ configs'[obj[s].spec].spec.tenant = Tenant(s)
      /\ \A t \in Tenants : Has(s, t)' => Has(s, t)
  BY <1>1, OwnSame DEF LeavesInv, UsageOf, Tenant, Has
<1> QED
  BY <1>4, <1>6, LeavesOn

LEMMA LeavesCreate ==
  ASSUME TypeInv, LockInv(Own), LeavesInv, SingleProcess, NEW p \in Procs, NEW r \in Res, Create(p, r)
  PROVE  LeavesInv'
<1> DEFINE v == wk[p][r]
<1>1. /\ v.pc = "create" /\ v \in Worker /\ UNCHANGED <<obj, uid, usage, configs, conn>>
      /\ things' \subseteq things \cup {Place(p, r)} /\ \E result : Created(p, r, result)
      /\ \A q \in Procs : q = p
  <2>1. v.pc = "create"
    BY DEF Create, At
  <2> QED
    BY <2>1, TypeUse, ManagedUse DEF Create, UseLeaves, SingleProcess
<1>2. PICK w : wk' = [wk EXCEPT ![p][r] = w]
  <2>1. PICK result : Created(p, r, result)
    BY <1>1
  <2>2. wk' = [wk EXCEPT ![p][r] = [v EXCEPT !.pc = "record", !.mg = [v.mg EXCEPT !.created = result]]]
    BY <2>1, TypeUse, ManagedUse DEF Created, Go
  <2> QED
    BY <2>2
<1>3. w.pc = "record" /\ wk'[p][r] = w
  <2>1. wk'[p][r] = w
    BY <1>2, TypeUse, ManagedUse
  <2> QED
    BY <1>1, <2>1, TypeUse, GoMoves DEF Created
<1>4. \A q \in Procs, s \in Res : FollowsOn(q, s)
  <2>1. w.pc \notin Connected /\ w.pc # "removeFinalizer" /\ wk[p][r].pc # "idle" /\ conn' = conn
    BY <1>1, <1>3 DEF Connected, AtWork
  <2>2. Turns(p, r, w)
    BY <1>2, <2>1 DEF Turns
  <2> QED
    BY <2>1, <2>2, OneFollows
<1>5. \A q \in Procs : wk'[q][r].pc # "removeFinalizer"
  BY <1>1, <1>2, <1>3, TypeUse, ManagedUse
<1>6. SUFFICES ASSUME NEW s \in Res
               PROVE  LeavesOK(s)'
  BY DEF LeavesInv
<1>7. /\ LeavesOK(s) /\ uid'[s] = uid[s] /\ UsageOf(s)' = UsageOf(s) /\ StaysOwn(s)
      /\ configs'[obj[s].spec].spec.tenant = Tenant(s)
  BY <1>1, OwnSame DEF LeavesInv, UsageOf, Tenant
<1>8. CASE s # r
  <2>1. \A t \in Tenants : Has(s, t)' => Has(s, t)
    BY <1>1, <1>8 DEF Has, Place
  <2> QED
    BY <1>4, <1>7, <2>1, LeavesOn
<1>9. CASE s = r
  <2>1. uid[r] # 0
    BY <1>1, BornAtWork
  <2>2. \A t \in Tenants : Has(r, t)' => Has(r, t) \/ t = conn[p][r].read.tenant
    BY <1>1 DEF Has, Place
  <2>3. First(r) => obj[r].finalizer
    <3>1. Working(v)
      BY <1>1 DEF Working
    <3>2. CopyOK(Own, v, r, obj[r])
      BY <3>1, CopyUse
    <3> QED
      BY <1>1, <3>2 DEF CopyOK, Holds
  <2>4. First(r) => UsageOf(r) # NoUsage /\ (UsageOf(r).early => conn[p][r].read.tenant = Tenant(r))
    BY <1>1, ClientKnows DEF AtWork
  <2>5. \A t \in Tenants : Has(r, t)' => Has(r, t) \/ (First(r) => Fits(r, t))
    BY <2>2, <2>3, <2>4 DEF Fits
  <2> QED
    BY <1>4, <1>5, <1>7, <1>9, <2>1, <2>5, LeavesOn
<1> QED
  BY <1>8, <1>9

LEMMA LeavesKilled ==
  ASSUME TypeInv, LeavesInv, NEW p \in Procs, wk' = Killed(p), KeepConnections(conn),
         UNCHANGED <<obj, uid, usage, configs, things>>
  PROVE  LeavesInv'
<1>1. \A q \in Procs, s \in Res : FollowsOn(q, s)
  <2>1. SUFFICES ASSUME NEW q \in Procs, NEW s \in Res
                 PROVE  FollowsOn(q, s)
    OBVIOUS
  <2>2. wk'[q][s] \in {wk[q][s], Idle}
    BY TypeUse, ManagedUse DEF Killed
  <2>3. wk'[q][s].pc # "idle" => wk'[q][s] = wk[q][s] /\ conn'[q][s] = conn[q][s]
    BY <2>2 DEF KeepConnections, Idle
  <2> QED
    BY <2>3 DEF FollowsOn, Follows, Connected, AtWork
<1>2. \A s \in Res : StaysOwn(s)
  BY OwnSame
<1> QED
  BY <1>1, <1>2, LeavesQuiet

\* Users and time: the first resource of a name has no usage when it is created.
LEMMA LeavesResource ==
  ASSUME TypeInv, TypeInv', PastInv, LeavesInv, NoMoves(Own), NEW r \in Res, ResourceStep(r)
  PROVE  LeavesInv'
<1>1. /\ \A q \in Procs, s \in Res : wk'[q][s].pc = wk[q][s].pc /\ wk'[q][s].mg = wk[q][s].mg
      /\ \A s \in Res \ {r} : obj'[s] = obj[s]
      /\ UNCHANGED <<configs, usage, conn, things>> /\ (UserStep(r) \/ GraceExpires(r))
      /\ uid' = IF obj[r] = Gone /\ obj'[r] # Gone THEN [uid EXCEPT ![r] = @ + 1] ELSE uid
  BY TypeUse, UserMoves DEF ResourceStep
<1>2. ManagedInv /\ ManagedInv' /\ uid \in [Res -> UIDs] /\ uid' \in [Res -> UIDs] /\ UIDs \subseteq Nat
  BY TypeUse, ManagedAssumption DEF TypeInv, TypeOK, UIDs
<1>3. \A q \in Procs, s \in Res : FollowsOn(q, s)
  BY <1>1 DEF FollowsOn, Follows
<1>4. SUFFICES ASSUME NEW s \in Res
               PROVE  LeavesOK(s)'
  BY DEF LeavesInv
<1>5. LeavesOK(s)
  BY DEF LeavesInv
<1>6. CASE s = r /\ obj[r] = Gone /\ obj'[r] # Gone
  <2>1. uid'[r] = uid[r] + 1 /\ uid[r] \in Nat /\ uid'[r] \in UIDs
    BY <1>1, <1>2, <1>6
  <2>2. SUFFICES ASSUME First(r)'
                 PROVE  FirstOK(r)'
    BY <1>6, <2>1 DEF LeavesOK
  <2>3. uid[r] = 0 /\ uid'[r] = 1 /\ Unborn(r)
    BY <1>5, <1>6, <2>1, <2>2 DEF First, LeavesOK
  <2>4. UsageOf(r)' = NoUsage
    BY <1>1, <2>1, <2>3 DEF PastInv, UsageOf
  <2>5. \A q \in Procs : WorkerOK(q, r)'
    <3>1. \A q \in Procs : wk'[q][r].pc = "idle"
      BY <1>1, <2>3 DEF Unborn
    <3> QED
      BY <3>1 DEF WorkerOK, Connected, AtWork
  <2> QED
    BY <1>1, <1>6, <2>3, <2>4, <2>5 DEF FirstOK, Unborn, Has
<1>7. CASE ~ (s = r /\ obj[r] = Gone /\ obj'[r] # Gone)
  <2>1. uid'[s] = uid[s]
    BY <1>1, <1>2, <1>7
  <2>2. StaysOwn(s)
    <3>1. CASE obj[s] = Gone
      BY <1>1, <1>7, <3>1 DEF StaysOwn
    <3>2. CASE obj[s] # Gone
      <4>1. StaysHome(Own, s)
        BY <1>1, <1>2, <3>2, HomeUser
      <4> QED
        BY <1>2, <4>1, OwnHome
    <3> QED
      BY <3>1, <3>2
  <2>3. /\ UsageOf(s)' = UsageOf(s) /\ configs'[obj[s].spec].spec.tenant = Tenant(s)
        /\ \A t \in Tenants : Has(s, t)' => Has(s, t)
    BY <1>1, <2>1 DEF UsageOf, Tenant, Has
  <2> QED
    BY <1>3, <1>5, <2>1, <2>2, <2>3, LeavesOn
<1> QED
  BY <1>6, <1>7

\* A step beside the reconciles, which leaves the tenants alone that are in use.
LEMMA LeavesAside ==
  ASSUME LeavesInv, UNCHANGED <<obj, wk, uid, conn, things>>,
         \A s \in Res : First(s) => UsageOf(s)' = UsageOf(s),
         \A s \in Res : First(s) /\ Uses(s, obj[s].spec) => configs'[obj[s].spec].spec.tenant = Tenant(s)
  PROVE  LeavesInv'
<1>1. SUFFICES ASSUME NEW s \in Res
               PROVE  LeavesOK(s)'
  BY DEF LeavesInv
<1>2. /\ LeavesOK(s) /\ uid'[s] = uid[s] /\ StaysOwn(s)
      /\ \A t \in Tenants : Has(s, t)' => Has(s, t)
      /\ \A q \in Procs : FollowsOn(q, s)
  BY OwnSame DEF LeavesInv, Has, FollowsOn, Follows
<1>3. First(s) /\ UsageOf(s).early => configs'[obj[s].spec].spec.tenant = Tenant(s)
  BY <1>2 DEF LeavesOK, FirstOK, First, Uses, NoUsage
<1> QED
  BY <1>2, <1>3, LeavesOn

LEMMA LeavesConfigUser ==
  ASSUME TypeInv, KeptInv, LeavesInv, TenantsLeft, NEW c \in Configs,
         ConfigCreate(c) \/ ConfigEdit(c) \/ ConfigDelete(c)
  PROVE  LeavesInv'
<1>1. /\ UNCHANGED <<obj, wk, uid, conn, things, usage>>
      /\ configs \in [Configs -> Config \cup {NoConfig}]
  BY TypeUse DEF ConfigCreate, ConfigEdit, ConfigDelete, managedVars
<1>2. \A s \in Res : UsageOf(s)' = UsageOf(s)
  BY <1>1 DEF UsageOf
<1>3. ASSUME NEW s \in Res, First(s), Uses(s, obj[s].spec)
      PROVE  configs'[obj[s].spec].spec.tenant = Tenant(s)
  <2> DEFINE d == obj[s].spec
  <2>1. d \in Configs
    <3>1. obj[s] \in Object
      BY <1>3, TypeUse, ManagedUse DEF First, ManagedInv, ManagedTypeOK
    <3> QED
      BY <3>1 DEF Object, Configs
  <2>2. configs[d] \in Config /\ configs[d] # NoConfig /\ configs[d].finalizer
    BY <1>1, <1>3, <2>1 DEF KeptInv, UsedInv
  <2>3. CASE ConfigCreate(c)
    <3>1. c # d
      BY <2>2, <2>3 DEF ConfigCreate
    <3> QED
      BY <1>1, <2>1, <2>3, <3>1 DEF ConfigCreate, StoreConfig, Tenant
  <2>4. CASE ConfigEdit(c)
    <3>1. PICK e : <<configs[c].spec, e>> \in ConfigEdits /\ configs' = [configs EXCEPT ![c] = [configs[c] EXCEPT !.spec = e]]
      BY <2>4 DEF ConfigEdit, StoreConfig
    <3>2. configs[c].spec.tenant = e.tenant
      BY <3>1 DEF TenantsLeft
    <3>3. CASE c = d
      <4>1. configs'[d] = [configs[d] EXCEPT !.spec = e]
        BY <1>1, <2>1, <3>1, <3>3
      <4>2. [configs[d] EXCEPT !.spec = e].spec = e
        BY <2>2 DEF Config
      <4> QED
        BY <3>2, <3>3, <4>1, <4>2 DEF Tenant
    <3>4. CASE c # d
      BY <1>1, <2>1, <3>1, <3>4 DEF Tenant
    <3> QED
      BY <3>3, <3>4
  <2>5. CASE ConfigDelete(c)
    <3>1. CASE c = d
      <4>1. configs'[d] = [configs[d] EXCEPT !.deleting = TRUE]
        BY <1>1, <2>1, <2>2, <2>5, <3>1 DEF ConfigDelete, StoreConfig
      <4>2. [configs[d] EXCEPT !.deleting = TRUE].spec = configs[d].spec
        BY <2>2 DEF Config
      <4> QED
        BY <4>1, <4>2 DEF Tenant
    <3>2. CASE c # d
      BY <1>1, <2>1, <2>5, <3>2 DEF ConfigDelete, StoreConfig, Tenant
    <3> QED
      BY <3>1, <3>2
  <2> QED
    BY <2>3, <2>4, <2>5
<1> QED
  BY <1>1, <1>2, <1>3, LeavesAside

\* The controller of a ProviderConfig lets go only of one that no tracked resource uses.
LEMMA LeavesSettle ==
  ASSUME TypeInv, KeptInv, LeavesInv, NEW p \in Procs, NEW c \in Configs, Settle(p, c)
  PROVE  LeavesInv'
<1> DEFINE k == keeper[p][c]
<1>1. /\ UNCHANGED <<obj, wk, uid, conn, things, usage>>
      /\ configs \in [Configs -> Config \cup {NoConfig}]
  BY TypeUse DEF Settle
<1>2. \A s \in Res : UsageOf(s)' = UsageOf(s)
  BY <1>1 DEF UsageOf
<1>3. ASSUME NEW s \in Res, First(s), Uses(s, obj[s].spec)
      PROVE  configs'[obj[s].spec].spec.tenant = Tenant(s)
  <2> DEFINE d == obj[s].spec
  <2>1. d \in Configs
    <3>1. obj[s] \in Object
      BY <1>3, TypeUse, ManagedUse DEF First, ManagedInv, ManagedTypeOK
    <3> QED
      BY <3>1 DEF Object, Configs
  <2>2. configs[d] \in Config
    BY <1>1, <1>3, <2>1 DEF KeptInv, UsedInv
  <2>3. CASE configs' = configs
    BY <2>3 DEF Tenant
  <2>4. ASSUME NEW o, configs' = [configs EXCEPT ![c] = o], c = d => o.spec = configs[d].spec
        PROVE  configs'[d].spec = configs[d].spec
    BY <1>1, <2>1, <2>4
  <2>5. CASE k.fresh /\ k.copy.deleting /\ ~ k.users /\ configs' = [configs EXCEPT ![c] = NoConfig]
    <3>1. ~ Uses(s, c)
      BY <2>5 DEF KeptInv, KeeperInv, KeeperOK
    <3> QED
      BY <1>3, <2>4, <2>5, <3>1 DEF Tenant
  <2>6. CASE k.fresh /\ configs' = [configs EXCEPT ![c] = [k.copy EXCEPT !.finalizer = TRUE]]
    <3>1. k.copy = configs[c]
      BY <2>6 DEF KeptInv, KeeperInv, KeeperOK
    <3>2. c = d => [k.copy EXCEPT !.finalizer = TRUE].spec = configs[d].spec
      BY <2>2, <3>1 DEF Config
    <3> QED
      BY <2>4, <2>6, <3>2 DEF Tenant
  <2> QED
    BY <2>3, <2>5, <2>6 DEF Settle
<1> QED
  BY <1>1, <1>2, <1>3, LeavesAside

LEMMA LeavesCollect ==
  ASSUME TypeInv, LeavesInv, NEW r \in Res, NEW u \in UIDs, Collect(r, u)
  PROVE  LeavesInv'
<1>1. UNCHANGED <<obj, wk, uid, conn, things, configs>> /\ usage' = [usage EXCEPT ![r][u] = NoUsage]
      /\ (obj[r] = Gone \/ uid[r] # u)
  BY DEF Collect, managedVars
<1>2. \A s \in Res : First(s) => UsageOf(s)' = UsageOf(s)
  BY <1>1, TypeUse DEF First, UsageOf
<1>3. \A s \in Res : configs'[obj[s].spec].spec.tenant = Tenant(s)
  BY <1>1 DEF Tenant
<1> QED
  BY <1>1, <1>2, <1>3, LeavesAside

LEMMA LeavesStep ==
  ASSUME TypeInv, KeptInv, LockInv(Own), LeavesInv, Undisturbed(Own), TenantsLeft, [Next]_vars
  PROVE  LeavesInv'
<1>1. TypeInv' /\ LockInv(Own)' /\ SingleProcess /\ NoMoves(Own) /\ PastInv
  BY TypeStep, OwnLock DEF Undisturbed, NoMoves, KeptInv
<1>2. CASE \E p \in Procs, r \in Res : Reconcile(p, r)
  <2>1. PICK p \in Procs, r \in Res : Reconcile(p, r)
    BY <1>2
  <2>2. CASE LibraryPart(p, r)
    BY <1>1, <2>2, LeavesLibrary
  <2>3. CASE Connect(p, r)
    BY <1>1, <2>3, LeavesConnect
  <2>4. CASE PanicStep(p, r)
    BY <2>4, LeavesKilled DEF PanicStep
  <2>5. CASE Observe(p, r)
    BY <1>1, <2>5, LeavesObserve
  <2>6. CASE Create(p, r)
    BY <1>1, <2>6, LeavesCreate
  <2>7. CASE Delete(p, r)
    BY <2>7, LeavesDelete
  <2> QED
    BY <2>1, <2>2, <2>3, <2>4, <2>5, <2>6, <2>7 DEF Reconcile
<1>3. CASE \E r \in Res : ResourceStep(r)
  BY <1>1, <1>3, LeavesResource
<1>4. CASE \E r \in Res, u \in UIDs : Collect(r, u)
  BY <1>4, LeavesCollect
<1>5. CASE \E c \in Configs : ConfigCreate(c) \/ ConfigEdit(c) \/ ConfigDelete(c)
  BY <1>5, LeavesConfigUser
<1>6. CASE \E p \in Procs : ProcessCrash(p)
  BY <1>6, LeavesKilled DEF ProcessCrash, Crash
<1>7. CASE \E p \in Procs, c \in Configs : Settle(p, c)
  BY <1>7, LeavesSettle
<1>8. CASE (\E p \in Procs, c \in Configs : Count(p, c)) \/ SecretChange \/ UNCHANGED vars
  <2>1. UNCHANGED <<obj, wk, uid, conn, things, configs, usage>>
    BY <1>8 DEF Count, SecretChange, vars, managedVars, configVars
  <2>2. \A s \in Res : UsageOf(s)' = UsageOf(s) /\ configs'[obj[s].spec].spec.tenant = Tenant(s)
    BY <2>1 DEF UsageOf, Tenant
  <2> QED
    BY <2>1, <2>2, LeavesAside
<1> QED
  BY <1>2, <1>3, <1>4, <1>5, <1>6, <1>7, <1>8 DEF Next, ConfigReconcile

\* A resource goes by its finalizer, which comes off when nothing is left, or without one,
\* before it had anything.
LEMMA GoesEmpty ==
  ASSUME TypeInv, LeavesInv, [Next]_vars,
         NEW r \in Res, obj[r] # Gone, UsageOf(r).early, uid[r] = 1, obj'[r] = Gone
  PROVE  \A t \in Tenants : <<r, t>> \notin things
<1>1. First(r) /\ FirstOK(r)
  BY DEF First, LeavesInv, LeavesOK
<1>2. CASE \E p \in Procs, s \in Res : LibraryPart(p, s)
  <2>1. PICK p \in Procs, s \in Res : LibraryStep(p, s)
    BY <1>2 DEF LibraryPart
  <2>2. s = r /\ wk[p][r].pc = "removeFinalizer"
    BY <2>1, TypeUse, GoesLibrary
  <2>3. WorkerOK(p, r)
    BY <1>1 DEF FirstOK
  <2> QED
    BY <2>2, <2>3 DEF WorkerOK, Has
<1>3. CASE \E s \in Res : ResourceStep(s)
  <2>1. PICK s \in Res : UserStep(s) \/ GraceExpires(s)
    BY <1>3 DEF ResourceStep
  <2>2. ~ obj[r].finalizer
    BY <2>1, TypeUse, GoesUser
  <2> QED
    BY <1>1, <2>2 DEF FirstOK, Fits, Has
<1>4. CASE \E p \in Procs, s \in Res :
             Connect(p, s) \/ PanicStep(p, s) \/ Observe(p, s) \/ Create(p, s) \/ Delete(p, s)
  BY <1>4, ClientCalls
<1>5. CASE \/ \E p \in Procs, c \in Configs : ConfigReconcile(p, c)
           \/ \E s \in Res, u \in UIDs : Collect(s, u)
           \/ \E c \in Configs : ConfigCreate(c) \/ ConfigEdit(c) \/ ConfigDelete(c)
           \/ \E p \in Procs : ProcessCrash(p)
           \/ SecretChange \/ UNCHANGED vars
  BY <1>5 DEF ConfigReconcile, Count, Settle, Collect, ConfigCreate, ConfigEdit, ConfigDelete,
     ProcessCrash, Crash, SecretChange, vars, managedVars
<1> QED
  BY <1>2, <1>3, <1>4, <1>5 DEF Next, Reconcile

LEMMA LeavesStart ==
  ASSUME Init
  PROVE  LeavesInv
<1>1. \A p \in Procs, r \in Res : wk[p][r].pc = "idle"
  BY DEF Init, ManagedInit, Idle
<1>2. \A r \in Res : uid[r] = 0 /\ obj[r] = Gone /\ \A t \in Tenants : ~ Has(r, t)
  BY DEF Init, ManagedInit, Has
<1> QED
  BY <1>1, <1>2 DEF LeavesInv, LeavesOK, Unborn, First

\* With one process, no reference edited, no tenant edited in place, no external names by
\* users and no Orphan policy: the first resource of a name that was tracked while its
\* ProviderConfig was whole has nothing left in any tenant when it goes, whichever
\* ProviderConfigs users delete and create again for other tenants, and whichever requests
\* fail or lose their answers.
THEOREM NothingLeft == ASSUME Undisturbed(Own), TenantsLeft PROVE Spec => LeavesNothing
<1> DEFINE Inv == TypeInv /\ KeptInv /\ LockInv(Own) /\ LeavesInv
<1>1. Init => Inv
  BY TypeStart, KeptStart, LockStart, LeavesStart DEF Init
<1>2. Inv /\ [Next]_vars => Inv'
  BY TypeStep, KeptStep, OwnLock, LeavesStep
<1>3. Inv /\ [Next]_vars =>
        [\A r \in Res :
           obj[r] # Gone /\ UsageOf(r).early /\ uid[r] = 1 /\ obj'[r] = Gone
             => \A t \in Tenants : <<r, t>> \notin things]_vars
  BY GoesEmpty
<1> QED
  BY <1>1, <1>2, <1>3, PTL DEF Spec, LeavesNothing
=============================================================================
