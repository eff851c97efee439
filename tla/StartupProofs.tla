--------------------------- MODULE StartupProofs ---------------------------
(***************************************************************************)
(* Proofs about Startup, for any number of processes, any features, any    *)
(* number of faults and any length of a tick: type correctness, that the   *)
(* election keeps the controllers of two processes apart as long as an     *)
(* answer takes no more than Delay (at most seven seconds), and            *)
(* that no start overwrites a store configuration.                         *)
(***************************************************************************)
EXTENDS Startup, TLAPS

-----------------------------------------------------------------------------
(* Type correctness. *)

\* Exit leaves every per-process part well-typed.
LEMMA ExitTyped ==
  ASSUME TypeOK, NEW p \in Procs, Exit(p)
  PROVE  /\ pc' \in [Procs -> {"down", "scheme", "store", "setup", "elect", "running"}]
         /\ scheme' \in [Procs -> SUBSET Kinds]
         /\ ctl' \in [Procs -> [Controllers -> SUBSET Features]]
         /\ holder' \in Procs \cup {Nobody, Former}
         /\ current' \subseteq Procs
         /\ seen' \in [Procs -> 0..LeaseDuration]
         /\ quiet' \in [Procs -> 0..(RenewDeadline + RetryPeriod)]
         /\ req' \in [Procs -> {"none", "update", "answer"}]
         /\ waited' \in [Procs -> 0..Delay]
<1>1. 0 \in 0..LeaseDuration /\ 0 \in 0..(RenewDeadline + RetryPeriod) /\ 0 \in 0..Delay
  BY StartupAssumption DEF StartupAssumption, LeaseDuration, RenewDeadline, RetryPeriod
<1>2. [c \in Controllers |-> {}] \in [Controllers -> SUBSET Features]
  OBVIOUS
<1> QED BY <1>1, <1>2 DEF Exit, TypeOK

\* A fault is counted within its bound.
LEMMA FaultTyped ==
  ASSUME TypeOK, Fault
  PROVE  faults' \in 0..MaxFaults
BY StartupAssumption DEF StartupAssumption, TypeOK, Fault

\* Every step of a start keeps the types.
LEMMA StartTyped ==
  ASSUME TypeOK, NEW p \in Procs,
         Start(p) \/ AddToScheme(p) \/ CreateStore(p) \/ CreateStoreFails(p)
           \/ Setup(p) \/ SetupFails(p) \/ Crash(p)
  PROVE  TypeOK'
<1>1. CASE Start(p)
  BY <1>1 DEF Start, Goto, starting, lease, TypeOK
<1>2. CASE AddToScheme(p)
  <2>1. UNION AddToSchemes \subseteq Kinds
    BY DEF AddToSchemes, CortexGroup, RulesGroup, AlertsGroup, ProviderConfigTypes,
           UsageTypes, StoreConfigTypes, RuleGroupTypes, AlertManagerTypes, Kinds
  <2> QED BY <1>2, <2>1 DEF AddToScheme, Goto, lease, TypeOK
<1>3. CASE CreateStore(p)
  BY <1>3 DEF CreateStore, Goto, Stored, StoreConfigs, lease, TypeOK
<1>4. CASE CreateStoreFails(p)
  <2>1. Exit(p) /\ Fault /\ storeConfig' \in StoreConfigs
    BY <1>4 DEF CreateStoreFails, Stored, StoreConfigs, TypeOK
  <2> QED BY <1>4, <2>1, ExitTyped, FaultTyped DEF CreateStoreFails, TypeOK
<1>5. CASE Setup(p)
  <2>1. [c \in Controllers |-> Heeded(c)] \in [Controllers -> SUBSET Features]
    BY DEF Heeded
  <2> QED BY <1>5, <2>1 DEF Setup, Goto, lease, TypeOK
<1>6. CASE SetupFails(p)
  <2>1. faults' \in 0..MaxFaults
    BY <1>6, FaultTyped DEF SetupFails, TypeOK
  <2> QED BY <1>6, <2>1, ExitTyped DEF SetupFails, TypeOK
<1>7. CASE Crash(p)
  BY <1>7, ExitTyped, FaultTyped DEF Crash, TypeOK
<1> QED BY <1>1, <1>2, <1>3, <1>4, <1>5, <1>6, <1>7

\* Every step of a try for the lease keeps the types.
LEMMA ElectionTyped ==
  ASSUME TypeOK, NEW p \in Procs,
         ReadLease(p) \/ WriteLease(p) \/ Conflict(p) \/ Renewed(p) \/ TryFails(p)
           \/ LoseLease(p)
  PROVE  TypeOK'
<1>0. 0 \in 0..LeaseDuration /\ 0 \in 0..(RenewDeadline + RetryPeriod) /\ 0 \in 0..Delay
  BY StartupAssumption DEF StartupAssumption, LeaseDuration, RenewDeadline, RetryPeriod
<1>1. CASE ReadLease(p)
  BY <1>0, <1>1 DEF ReadLease, starting, TypeOK
<1>2. CASE WriteLease(p)
  BY <1>0, <1>2 DEF WriteLease, starting, TypeOK
<1>3. CASE Conflict(p)
  BY <1>3 DEF Conflict, starting, TypeOK
<1>4. CASE Renewed(p)
  BY <1>0, <1>4 DEF Renewed, starting, TypeOK
<1>5. CASE TryFails(p)
  BY <1>0, <1>5, FaultTyped DEF TryFails, starting, TypeOK
<1>6. CASE LoseLease(p)
  BY <1>6, ExitTyped DEF LoseLease, TypeOK
<1> QED BY <1>1, <1>2, <1>3, <1>4, <1>5, <1>6

\* Time passes within the deadlines.
LEMMA TickTyped ==
  ASSUME TypeOK, Tick
  PROVE  TypeOK'
<1>1. seen' \in [Procs -> 0..LeaseDuration]
  <2>1. \A x \in 0..LeaseDuration : Least(x + Step, LeaseDuration) \in 0..LeaseDuration
    BY StartupAssumption DEF StartupAssumption, Least, LeaseDuration
  <2> QED BY <2>1 DEF Tick, TypeOK
<1>2. quiet' \in [Procs -> 0..(RenewDeadline + RetryPeriod)]
  <2>1. ASSUME NEW p \in Procs
        PROVE  (IF Elections /\ pc[p] = "running" THEN quiet[p] + Step ELSE quiet[p])
                 \in 0..(RenewDeadline + RetryPeriod)
    <3>1. /\ quiet[p] \in 0..(RenewDeadline + RetryPeriod) /\ Step \in Nat
          /\ RenewDeadline + RetryPeriod \in Nat
      BY StartupAssumption DEF StartupAssumption, TypeOK, RenewDeadline, RetryPeriod
    <3>2. CASE Elections /\ pc[p] = "running"
      <4>1. ~(quiet[p] + Step > RenewDeadline + RetryPeriod)
        BY <3>2 DEF Tick, Overdue
      <4> QED BY <3>1, <3>2, <4>1
    <3> QED BY <3>1, <3>2
  <2> QED BY <2>1 DEF Tick
<1>3. waited' \in [Procs -> 0..Delay]
  <2>1. ASSUME NEW p \in Procs
        PROVE  (IF req[p] = "answer" THEN waited[p] + Step ELSE waited[p]) \in 0..Delay
    BY StartupAssumption DEF StartupAssumption, Tick, TypeOK
  <2> QED BY <2>1 DEF Tick
<1> QED BY <1>1, <1>2, <1>3 DEF Tick, starting, TypeOK

LEMMA TypeInit ==
  ASSUME Init
  PROVE  TypeOK
BY StartupAssumption
DEF StartupAssumption, Init, TypeOK, StoreConfigs, LeaseDuration, RenewDeadline, RetryPeriod

LEMMA TypeStep ==
  ASSUME TypeOK, [Next]_vars
  PROVE  TypeOK'
<1>1. CASE Tick
  BY <1>1, TickTyped
<1>2. CASE EditStore
  BY <1>2, StartupAssumption DEF StartupAssumption, EditStore, StoreConfigs, lease, TypeOK
<1>3. ASSUME NEW p \in Procs, Progress(p) \/ CreateStoreFails(p) \/ SetupFails(p)
                                \/ TryFails(p) \/ Crash(p)
      PROVE  TypeOK'
  BY <1>3, StartTyped, ElectionTyped DEF Progress
<1>4. CASE UNCHANGED vars
  BY <1>4 DEF vars, starting, lease, TypeOK
<1> QED BY <1>1, <1>2, <1>3, <1>4 DEF Next

\* Every variable keeps its type, the clocks within the bounds of the election.
THEOREM TypeCorrect == Spec => []TypeOK
<1>1. Init => TypeOK
  BY TypeInit
<1>2. TypeOK /\ [Next]_vars => TypeOK'
  BY TypeStep
<1> QED BY <1>1, <1>2, PTL DEF Spec

-----------------------------------------------------------------------------
(* The election. *)

\* A leader holds the lease, and nobody counts more seconds since its last
\* renewal than it does itself, but for the delay of the answer.
LeaderAhead ==
  \A p \in Procs : Elections /\ pc[p] = "running" =>
    holder = p /\ \A q \in current \ {p} : seen[q] <= quiet[p] + Delay

\* The same of a process whose write is done and not answered yet.
WriterAhead ==
  \A p \in Procs : req[p] = "answer" =>
    holder = p /\ \A q \in current \ {p} : seen[q] <= waited[p]

\* What allowed a write when it was sent allows it as long as nobody else writes.
UpdateAllowed ==
  \A p \in Procs : req[p] = "update" /\ p \in current => MayTake(p)

LeaseInv == TypeOK /\ LeaderAhead /\ WriterAhead /\ UpdateAllowed

\* Nobody may take a lease from a leader, or from a process about to become one.
LEMMA NotTaken ==
  ASSUME LeaseInv, NEW p \in Procs, NEW q \in Procs, q # p, q \in current, MayTake(q)
  PROVE  ~(Elections /\ pc[p] = "running") /\ req[p] # "answer"
<1>1. seen[q] \in Int /\ quiet[p] \in 0..(RenewDeadline + RetryPeriod) /\ waited[p] \in 0..Delay
  BY DEF LeaseInv, TypeOK
<1>2. holder = p => seen[q] >= LeaseDuration
  BY StartupAssumption DEF StartupAssumption, MayTake
<1>3. ~(Elections /\ pc[p] = "running")
  BY <1>1, <1>2, StartupAssumption
  DEF StartupAssumption, LeaseInv, LeaderAhead, LeaseDuration, RenewDeadline, RetryPeriod
<1>4. req[p] # "answer"
  BY <1>1, <1>2, StartupAssumption
  DEF StartupAssumption, LeaseInv, WriterAhead, LeaseDuration, RenewDeadline, RetryPeriod
<1> QED BY <1>3, <1>4

\* A process that ends takes nothing away from the others.
LEMMA ExitKept ==
  ASSUME LeaseInv, NEW p \in Procs, Exit(p)
  PROVE  LeaderAhead' /\ WriterAhead' /\ UpdateAllowed'
<1>1. \A q \in Procs \ {p} : /\ pc'[q] = pc[q] /\ req'[q] = req[q] /\ seen'[q] = seen[q]
                             /\ quiet'[q] = quiet[q] /\ waited'[q] = waited[q]
  BY DEF Exit, LeaseInv, TypeOK
<1>2. pc'[p] = "down" /\ req'[p] = "none" /\ current' = current \ {p}
  BY DEF Exit, LeaseInv, TypeOK
<1>3. \A q \in Procs \ {p} : (holder = q => holder' = q) /\ (holder = Nobody => holder' = Nobody)
  BY StartupAssumption DEF StartupAssumption, Exit
<1>4. LeaderAhead'
  BY <1>1, <1>2, <1>3 DEF LeaseInv, LeaderAhead, TypeOK
<1>5. WriterAhead'
  BY <1>1, <1>2, <1>3 DEF LeaseInv, WriterAhead, TypeOK
<1>6. UpdateAllowed'
  BY <1>1, <1>2, <1>3 DEF LeaseInv, UpdateAllowed, MayTake
<1> QED BY <1>4, <1>5, <1>6

\* Before the election a process has no part in it.
LEMMA StartKept ==
  ASSUME LeaseInv, NEW p \in Procs,
         Start(p) \/ AddToScheme(p) \/ CreateStore(p) \/ Setup(p)
  PROVE  LeaderAhead' /\ WriterAhead' /\ UpdateAllowed'
<1>1. UNCHANGED lease
  BY DEF Start, AddToScheme, CreateStore, Setup
<1>2. \A q \in Procs : Elections /\ pc'[q] = "running" => pc[q] = "running"
  BY DEF Start, AddToScheme, CreateStore, Setup, Goto, LeaseInv, TypeOK
<1> QED BY <1>1, <1>2
        DEF LeaseInv, lease, LeaderAhead, WriterAhead, UpdateAllowed, MayTake

LEMMA ReadKept ==
  ASSUME LeaseInv, NEW p \in Procs, ReadLease(p)
  PROVE  LeaderAhead' /\ WriterAhead' /\ UpdateAllowed'
<1>1. UNCHANGED <<pc, holder, quiet, waited>> /\ current' = current \cup {p}
  BY DEF ReadLease
<1>2. \A q \in Procs \ {p} : req'[q] = req[q] /\ seen'[q] = seen[q]
  BY DEF ReadLease, LeaseInv, TypeOK
<1>3. seen'[p] = (IF p \in current THEN seen[p] ELSE 0)
  BY DEF ReadLease, LeaseInv, TypeOK
<1>4. req'[p] = (IF MayTake(p) THEN "update" ELSE "none")
  BY DEF ReadLease, LeaseInv, TypeOK
<1>5. \A q \in Procs : 0 <= quiet[q] + Delay /\ 0 <= waited[q]
  <2>1. Delay \in Nat /\ RenewDeadline + RetryPeriod \in Nat
    BY StartupAssumption DEF StartupAssumption, RenewDeadline, RetryPeriod
  <2>2. ASSUME NEW q \in Procs
        PROVE  0 <= quiet[q] + Delay /\ 0 <= waited[q]
    <3>1. quiet[q] \in 0..(RenewDeadline + RetryPeriod) /\ waited[q] \in 0..Delay
      BY DEF LeaseInv, TypeOK
    <3> QED BY <2>1, <3>1
  <2> QED BY <2>2
<1>6. LeaderAhead'
  BY <1>1, <1>2, <1>3, <1>5 DEF LeaseInv, LeaderAhead, TypeOK
<1>7. WriterAhead'
  BY <1>1, <1>2, <1>3, <1>4, <1>5 DEF LeaseInv, WriterAhead, TypeOK
<1>8. UpdateAllowed'
  <2>1. req'[p] = "update" => MayTake(p)'
    BY <1>1, <1>3, <1>4 DEF MayTake
  <2> QED BY <1>1, <1>2, <2>1 DEF LeaseInv, UpdateAllowed, MayTake
<1> QED BY <1>6, <1>7, <1>8

LEMMA WriteKept ==
  ASSUME LeaseInv, NEW p \in Procs, WriteLease(p)
  PROVE  LeaderAhead' /\ WriterAhead' /\ UpdateAllowed'
<1>1. holder' = p /\ current' = {p} /\ UNCHANGED <<pc, quiet>>
  BY DEF WriteLease
<1>2. \A q \in Procs \ {p} : req'[q] = req[q]
  BY DEF WriteLease, LeaseInv, TypeOK
<1>3. req'[p] = "answer"
  BY DEF WriteLease, LeaseInv, TypeOK
<1>4. p \in current /\ MayTake(p)
  BY DEF WriteLease, LeaseInv, UpdateAllowed
<1>5. \A q \in Procs \ {p} : ~(Elections /\ pc[q] = "running") /\ req[q] # "answer"
  BY <1>4, NotTaken
<1>6. LeaderAhead'
  BY <1>1, <1>5 DEF LeaderAhead
<1>7. WriterAhead'
  BY <1>1, <1>2, <1>5 DEF WriterAhead
<1>8. UpdateAllowed'
  BY <1>1, <1>3 DEF UpdateAllowed
<1> QED BY <1>6, <1>7, <1>8

LEMMA AnswerKept ==
  ASSUME LeaseInv, NEW p \in Procs, Conflict(p) \/ Renewed(p) \/ TryFails(p)
  PROVE  LeaderAhead' /\ WriterAhead' /\ UpdateAllowed'
<1>1. UNCHANGED <<holder, seen>> /\ current' \subseteq current
  BY DEF Conflict, Renewed, TryFails
<1>2. \A q \in Procs \ {p} : /\ pc'[q] = pc[q] /\ req'[q] = req[q] /\ quiet'[q] = quiet[q]
                             /\ waited'[q] = waited[q] /\ (q \in current' <=> q \in current)
  BY DEF Conflict, Renewed, TryFails, LeaseInv, TypeOK
<1>3. req'[p] = "none"
  BY DEF Conflict, Renewed, TryFails, LeaseInv, TypeOK
<1>4. Elections /\ pc'[p] = "running" =>
        holder = p /\ \A q \in current \ {p} : seen[q] <= quiet'[p] + Delay
  <2>1. CASE Renewed(p)
    <3>1. quiet'[p] = 0 /\ req[p] = "answer"
      BY <2>1 DEF Renewed, LeaseInv, TypeOK
    <3>2. holder = p /\ \A q \in current \ {p} : seen[q] <= waited[p]
      BY <3>1 DEF LeaseInv, WriterAhead
    <3>3. waited[p] \in 0..Delay /\ \A q \in current : seen[q] \in Int
      BY DEF LeaseInv, TypeOK
    <3> QED BY <3>1, <3>2, <3>3, StartupAssumption DEF StartupAssumption
  <2>2. CASE Conflict(p) \/ TryFails(p)
    <3>1. UNCHANGED <<pc, quiet>>
      BY <2>2 DEF Conflict, TryFails
    <3> QED BY <3>1 DEF LeaseInv, LeaderAhead
  <2> QED BY <2>1, <2>2
<1>5. LeaderAhead'
  BY <1>1, <1>2, <1>4 DEF LeaseInv, LeaderAhead
<1>6. WriterAhead'
  BY <1>1, <1>2, <1>3 DEF LeaseInv, WriterAhead
<1>7. UpdateAllowed'
  BY <1>1, <1>2, <1>3 DEF LeaseInv, UpdateAllowed, MayTake
<1> QED BY <1>5, <1>6, <1>7

\* All clocks advance alike, those of the leader before anyone's.
LEMMA TickKept ==
  ASSUME LeaseInv, Tick
  PROVE  LeaderAhead' /\ WriterAhead' /\ UpdateAllowed'
<1>1. UNCHANGED <<pc, holder, current, req>>
  BY DEF Tick
<1>2. \A q \in Procs : /\ seen[q] \in 0..LeaseDuration /\ quiet[q] \in Int /\ waited[q] \in Int
                       /\ seen'[q] \in {seen[q], Least(seen[q] + Step, LeaseDuration)}
  BY DEF Tick, LeaseInv, TypeOK
<1>3. \A q \in Procs : seen[q] \in Int /\ seen'[q] \in Int /\ seen'[q] <= seen[q] + Step
                         /\ (seen[q] >= LeaseDuration => seen'[q] >= LeaseDuration)
  BY <1>2, StartupAssumption DEF StartupAssumption, Least, LeaseDuration
<1>4. \A q \in Procs : Elections /\ pc[q] = "running" => quiet'[q] = quiet[q] + Step
  BY DEF Tick
<1>5. \A q \in Procs : req[q] = "answer" => waited'[q] = waited[q] + Step
  BY DEF Tick
<1>6. current \subseteq Procs /\ Step \in Nat /\ Delay \in Nat
  BY StartupAssumption DEF StartupAssumption, LeaseInv, TypeOK
<1>7. LeaderAhead'
  BY <1>1, <1>2, <1>3, <1>4, <1>6 DEF LeaseInv, LeaderAhead
<1>8. WriterAhead'
  BY <1>1, <1>2, <1>3, <1>5, <1>6 DEF LeaseInv, WriterAhead
<1>9. UpdateAllowed'
  BY <1>1, <1>3, <1>6 DEF LeaseInv, UpdateAllowed, MayTake
<1> QED BY <1>7, <1>8, <1>9

LEMMA LeaseStep ==
  ASSUME LeaseInv, [Next]_vars
  PROVE  LeaseInv'
<1>1. TypeOK'
  BY TypeStep DEF LeaseInv
<1>2. LeaderAhead' /\ WriterAhead' /\ UpdateAllowed'
  <2>1. CASE Tick
    BY <2>1, TickKept
  <2>2. CASE EditStore \/ UNCHANGED vars
    <3>1. UNCHANGED <<pc, lease>>
      BY <2>2 DEF EditStore, vars, lease
    <3> QED BY <3>1 DEF LeaseInv, lease, LeaderAhead, WriterAhead, UpdateAllowed, MayTake
  <2>3. ASSUME NEW p \in Procs, Progress(p) \/ CreateStoreFails(p) \/ SetupFails(p)
                                  \/ TryFails(p) \/ Crash(p)
        PROVE  LeaderAhead' /\ WriterAhead' /\ UpdateAllowed'
    <3>1. CASE LoseLease(p) \/ CreateStoreFails(p) \/ SetupFails(p) \/ Crash(p)
      BY <3>1, ExitKept DEF LoseLease, CreateStoreFails, SetupFails, Crash
    <3>2. CASE Start(p) \/ AddToScheme(p) \/ CreateStore(p) \/ Setup(p)
      BY <3>2, StartKept
    <3>3. CASE ReadLease(p) \/ WriteLease(p)
      BY <3>3, ReadKept, WriteKept
    <3>4. CASE Conflict(p) \/ Renewed(p) \/ TryFails(p)
      BY <3>4, AnswerKept
    <3> QED BY <2>3, <3>1, <3>2, <3>3, <3>4 DEF Progress
  <2> QED BY <2>1, <2>2, <2>3 DEF Next
<1> QED BY <1>1, <1>2 DEF LeaseInv

LEMMA LeaseInit ==
  ASSUME Init
  PROVE  LeaseInv
BY TypeInit DEF Init, LeaseInv, LeaderAhead, WriterAhead, UpdateAllowed

\* The election lets the controllers of at most one process run, whatever
\* crashes, fails or is late within Delay.
THEOREM LeaderAlone == Spec => []OneLeader
<1>1. Init => LeaseInv
  BY LeaseInit
<1>2. LeaseInv /\ [Next]_vars => LeaseInv'
  BY LeaseStep
<1>3. LeaseInv => OneLeader
  BY DEF LeaseInv, LeaderAhead, OneLeader
<1> QED BY <1>1, <1>2, <1>3, PTL DEF Spec

-----------------------------------------------------------------------------
(* The store configuration. *)

LEMMA StoreStep ==
  ASSUME TypeOK, [Next]_vars
  PROVE  storeConfig' = storeConfig \/ storeConfig = "none" \/ edits' # edits
<1>1. ASSUME NEW p \in Procs, Progress(p) \/ CreateStoreFails(p) \/ SetupFails(p)
                                \/ TryFails(p) \/ Crash(p)
      PROVE  storeConfig' = storeConfig \/ storeConfig = "none"
  BY <1>1 DEF Progress, Start, AddToScheme, CreateStore, CreateStoreFails, Setup, SetupFails,
              ReadLease, WriteLease, Conflict, Renewed, TryFails, LoseLease, Crash, Stored, starting
<1>2. CASE Tick \/ UNCHANGED vars
  BY <1>2 DEF Tick, vars, starting
<1>3. CASE EditStore
  BY <1>3, StartupAssumption DEF StartupAssumption, TypeOK, EditStore
<1> QED BY <1>1, <1>2, <1>3 DEF Next

\* Only users change a store configuration that exists.
THEOREM StoreConfigSafe == Spec => StoreConfigKept
<1> DEFINE Kept == storeConfig' = storeConfig \/ storeConfig = "none" \/ edits' # edits
<1>1. TypeOK /\ [Next]_vars => [Kept]_vars
  BY StoreStep
<1> HIDE DEF Kept
<1>2. Spec => [][Kept]_vars
  BY <1>1, TypeCorrect, PTL DEF Spec
<1> QED BY <1>2 DEF StoreConfigKept, Kept
=============================================================================
