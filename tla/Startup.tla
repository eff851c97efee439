------------------------------ MODULE Startup ------------------------------
(***************************************************************************)
(* main, in cmd/provider/main.go: every process of the provider from its   *)
(* start to the point where its controllers run, and the leader election   *)
(* that decides which one gets there when several are started.  An error   *)
(* on the way ends the process (kingpin.FatalIfError) and the kubelet      *)
(* starts it again.                                                        *)
(*                                                                         *)
(* The election is client-go's, with the durations main passes.  A         *)
(* candidate never compares clocks with the leader: it counts the seconds  *)
(* since it saw the lease change last.                                     *)
(***************************************************************************)
EXTENDS Integers

CONSTANTS
  Procs,      \* processes of the provider
  Elections,  \* the flag --leader-election
  Features,   \* the feature flags given on the command line
  Nobody,     \* the lease was never held
  Former,     \* the lease is held by a process that no longer exists
  Step,       \* seconds that pass in a tick of the model
  Delay,      \* seconds the answer to a renewal takes at most: what main's
              \* durations leave room for
  MaxEdits,   \* bound on what users do to the store configuration
  MaxFaults   \* bound on failed requests and on crashes

\* Durations in seconds.  RetryPeriod is the library's default.
LeaseDuration == 60
\* Faulty: a leader keeps on for as long as its lease.
RenewDeadlineOfLease == LeaseDuration
RenewDeadline == 50
RetryPeriod == 2

FeatureFlags == {"EnableAlphaExternalSecretStores", "EnableAlphaManagementPolicies"}

ASSUME StartupAssumption ==
  /\ Elections \in BOOLEAN
  /\ Features \subseteq FeatureFlags
  /\ {Nobody, Former} \cap Procs = {}
  /\ Step \in Nat \ {0}
  /\ Delay \in 0..7
  /\ MaxEdits \in Nat /\ MaxFaults \in Nat

VARIABLES
  pc,           \* how far each process is
  scheme,       \* per process: the kinds registered with the manager
  ctl,          \* per process: the controllers set up, each with the features it heeds
  storeConfig,  \* the StoreConfig "default" in the API server
  holder,       \* who holds the lease
  current,      \* the processes whose copy of the lease is the latest
  seen,         \* per process: seconds since it saw the lease change
  quiet,        \* per process: seconds since a renewal of its own was answered
  req,          \* per process: the request for the lease under way
  waited,       \* per process: seconds since that request was carried out
  edits, faults

starting == <<scheme, ctl, storeConfig>>
lease == <<holder, current, seen, quiet, req, waited>>
vars == <<pc, starting, lease, edits, faults>>

Kinds ==
  {"ProviderConfig", "ProviderConfigList", "ProviderConfigUsage", "ProviderConfigUsageList",
   "StoreConfig", "StoreConfigList", "RuleGroup", "RuleGroupList",
   "AlertManagerConfiguration", "AlertManagerConfigurationList"}

Controllers == {"config", "rulegroup", "alertmanager"}

\* There is none, one with the scope that main gives it, or one that users changed.
StoreConfigs == {"none", "default", "edited"}

TypeOK ==
  /\ pc \in [Procs -> {"down", "scheme", "store", "setup", "elect", "running"}]
  /\ scheme \in [Procs -> SUBSET Kinds]
  /\ ctl \in [Procs -> [Controllers -> SUBSET Features]]
  /\ storeConfig \in StoreConfigs
  /\ holder \in Procs \cup {Nobody, Former}
  /\ current \subseteq Procs
  /\ seen \in [Procs -> 0..LeaseDuration]
  /\ quiet \in [Procs -> 0..(RenewDeadline + RetryPeriod)]
  /\ req \in [Procs -> {"none", "update", "answer"}]
  /\ waited \in [Procs -> 0..Delay]
  /\ edits \in 0..MaxEdits
  /\ faults \in 0..MaxFaults

Init ==
  /\ pc = [p \in Procs |-> "down"]
  /\ scheme = [p \in Procs |-> {}]
  /\ ctl = [p \in Procs |-> [c \in Controllers |-> {}]]
  /\ storeConfig = "none"
  /\ holder = Nobody
  /\ current = {}
  /\ seen = [p \in Procs |-> 0]
  /\ quiet = [p \in Procs |-> 0]
  /\ req = [p \in Procs |-> "none"]
  /\ waited = [p \in Procs |-> 0]
  /\ edits = 0
  /\ faults = 0

-----------------------------------------------------------------------------
(* From the start to the election. *)

\* What the init functions register, by type, by API group, and altogether.
ProviderConfigTypes == {"ProviderConfig", "ProviderConfigList"}
UsageTypes == {"ProviderConfigUsage", "ProviderConfigUsageList"}
StoreConfigTypes == {"StoreConfig", "StoreConfigList"}
RuleGroupTypes == {"RuleGroup", "RuleGroupList"}
AlertManagerTypes == {"AlertManagerConfiguration", "AlertManagerConfigurationList"}

CortexGroup == ProviderConfigTypes \cup UsageTypes \cup StoreConfigTypes
RulesGroup == RuleGroupTypes
AlertsGroup == AlertManagerTypes

AddToSchemes == {CortexGroup, RulesGroup, AlertsGroup}

\* The kinds a Setup cannot do without.
Required(c) ==
  CASE c = "config" -> {"ProviderConfig", "ProviderConfigUsageList"}
    [] c = "rulegroup" -> {"RuleGroup"}
    [] c = "alertmanager" -> {"AlertManagerConfiguration"}

\* The features a Setup looks at: the two controllers of managed resources publish
\* connection details to secret stores as well.
Heeded(c) ==
  IF c = "config" THEN {} ELSE Features \cap {"EnableAlphaExternalSecretStores"}

Goto(p, from, to) == pc[p] = from /\ pc' = [pc EXCEPT ![p] = to]

Fault == faults < MaxFaults /\ faults' = faults + 1

\* The process is over.  The next one has another identity, so that a lease
\* held by this one is nobody's to renew.
Exit(p) ==
  /\ pc' = [pc EXCEPT ![p] = "down"]
  /\ scheme' = [scheme EXCEPT ![p] = {}]
  /\ ctl' = [ctl EXCEPT ![p] = [c \in Controllers |-> {}]]
  /\ holder' = IF holder = p THEN Former ELSE holder
  /\ current' = current \ {p}
  /\ seen' = [seen EXCEPT ![p] = 0]
  /\ quiet' = [quiet EXCEPT ![p] = 0]
  /\ req' = [req EXCEPT ![p] = "none"]
  /\ waited' = [waited EXCEPT ![p] = 0]

Start(p) ==
  /\ Goto(p, "down", "scheme")
  /\ UNCHANGED <<starting, lease, edits, faults>>

AddToScheme(p) ==
  /\ Goto(p, "scheme",
          IF "EnableAlphaExternalSecretStores" \in Features THEN "store" ELSE "setup")
  /\ scheme' = [scheme EXCEPT ![p] = UNION AddToSchemes]
  /\ UNCHANGED <<ctl, storeConfig, lease, edits, faults>>

\* Faulty: Apply in the place of Create.
StoredAnew == "default"

\* Create of the default store configuration: one that is there is left alone.
Stored == IF storeConfig = "none" THEN "default" ELSE storeConfig

\* Faulty: a store configuration that is there is fatal as well.
CreateStoreOnce(p) ==
  /\ pc[p] = "store"
  /\ \/ storeConfig = "none" /\ storeConfig' = Stored /\ Goto(p, "store", "setup")
        /\ UNCHANGED <<scheme, ctl, lease>>
     \/ storeConfig # "none" /\ Exit(p) /\ UNCHANGED storeConfig
  /\ UNCHANGED <<edits, faults>>

CreateStore(p) ==
  /\ "StoreConfig" \in scheme[p]
  /\ Goto(p, "store", "setup")
  /\ storeConfig' = Stored
  /\ UNCHANGED <<scheme, ctl, lease, edits, faults>>

\* The request fails, or its answer is lost.
CreateStoreFails(p) ==
  /\ pc[p] = "store" /\ "StoreConfig" \in scheme[p]
  /\ Exit(p)
  /\ Fault
  /\ storeConfig' \in {storeConfig, Stored}
  /\ UNCHANGED edits

SetupReady(p) == \A c \in Controllers : Required(c) \subseteq scheme[p]

\* Setup of the three controllers, then Start of the manager.
Setup(p) ==
  /\ SetupReady(p)
  /\ Goto(p, "setup", IF Elections THEN "elect" ELSE "running")
  /\ ctl' = [ctl EXCEPT ![p] = [c \in Controllers |-> Heeded(c)]]
  /\ UNCHANGED <<scheme, storeConfig, lease, edits, faults>>

\* A kind that is not registered is fatal, and so is an API server that does
\* not serve it.
SetupFails(p) ==
  /\ pc[p] = "setup"
  /\ Exit(p)
  /\ IF SetupReady(p) THEN Fault ELSE UNCHANGED faults
  /\ UNCHANGED <<storeConfig, edits>>

Crash(p) ==
  /\ pc[p] # "down"
  /\ Exit(p)
  /\ Fault
  /\ UNCHANGED <<storeConfig, edits>>

\* Users and the API server may edit or delete the store configuration.
EditStore ==
  /\ edits < MaxEdits /\ edits' = edits + 1
  /\ storeConfig # "none"
  /\ storeConfig' \in {"none", "edited"}
  /\ UNCHANGED <<pc, scheme, ctl, lease, faults>>

-----------------------------------------------------------------------------
(* The election.  A try reads the lease, then writes it if it may. *)

Elect(p) == Elections /\ pc[p] \in {"elect", "running"}

\* The lease is p's own, was never held, or did not change for its duration.
MayTake(p) == holder \in {p, Nobody} \/ (p \in current /\ seen[p] >= LeaseDuration)

ReadLease(p) ==
  /\ Elect(p)
  /\ req[p] = "none"
  /\ req' = [req EXCEPT ![p] = IF MayTake(p) THEN "update" ELSE "none"]
  /\ current' = current \cup {p}
  /\ seen' = [seen EXCEPT ![p] = IF p \in current THEN @ ELSE 0]
  /\ UNCHANGED <<pc, starting, holder, quiet, waited, edits, faults>>

\* The API server takes the update only of the lease it was read from.
WriteLease(p) ==
  /\ req[p] = "update"
  /\ p \in current
  /\ holder' = p
  /\ current' = {p}
  /\ seen' = [seen EXCEPT ![p] = 0]
  /\ req' = [req EXCEPT ![p] = "answer"]
  /\ waited' = [waited EXCEPT ![p] = 0]
  /\ UNCHANGED <<pc, starting, quiet, edits, faults>>

Conflict(p) ==
  /\ req[p] = "update"
  /\ p \notin current
  /\ req' = [req EXCEPT ![p] = "none"]
  /\ UNCHANGED <<pc, starting, holder, current, seen, quiet, waited, edits, faults>>

\* The first answer makes the process the leader and starts its controllers.
Renewed(p) ==
  /\ req[p] = "answer"
  /\ pc' = [pc EXCEPT ![p] = "running"]
  /\ quiet' = [quiet EXCEPT ![p] = 0]
  /\ req' = [req EXCEPT ![p] = "none"]
  /\ waited' = [waited EXCEPT ![p] = 0]
  /\ UNCHANGED <<starting, holder, current, seen, edits, faults>>

\* A try fails before it reaches the API server, or after.
TryFails(p) ==
  /\ req[p] # "none"
  /\ Fault
  /\ current' = IF req[p] = "answer" THEN current \ {p} ELSE current
  /\ req' = [req EXCEPT ![p] = "none"]
  /\ waited' = [waited EXCEPT ![p] = 0]
  /\ UNCHANGED <<pc, starting, holder, seen, quiet, edits>>

\* Faulty: a leader never gives up.
OverdueNever(p, deadline) == FALSE

\* Would the next tick pass the deadline of p?
Overdue(p, deadline) == Elections /\ pc[p] = "running" /\ quiet[p] + Step > deadline

LoseLease(p) ==
  /\ Overdue(p, RenewDeadline)
  /\ Exit(p)
  /\ UNCHANGED <<storeConfig, edits, faults>>

Least(x, y) == IF x < y THEN x ELSE y

Tick ==
  /\ \A p \in Procs : ~Overdue(p, RenewDeadline + RetryPeriod)
  /\ \A p \in Procs : req[p] = "answer" => waited[p] + Step <= Delay
  /\ seen' = [p \in Procs |-> IF Elect(p) THEN Least(seen[p] + Step, LeaseDuration)
                                          ELSE seen[p]]
  /\ quiet' = [p \in Procs |-> IF Elections /\ pc[p] = "running" THEN quiet[p] + Step
                                                                 ELSE quiet[p]]
  /\ waited' = [p \in Procs |-> IF req[p] = "answer" THEN waited[p] + Step ELSE waited[p]]
  /\ UNCHANGED <<pc, starting, holder, current, req, edits, faults>>

-----------------------------------------------------------------------------
Progress(p) ==
  \/ Start(p) \/ AddToScheme(p) \/ CreateStore(p) \/ Setup(p)
  \/ ReadLease(p) \/ WriteLease(p) \/ Conflict(p) \/ Renewed(p) \/ LoseLease(p)

Next ==
  \/ \E p \in Procs : Progress(p) \/ CreateStoreFails(p) \/ SetupFails(p) \/ TryFails(p) \/ Crash(p)
  \/ EditStore
  \/ Tick

Spec == Init /\ [][Next]_vars

(***************************************************************************)
(* The kubelet restarts what exits, a process runs on, time passes, and    *)
(* faults end: they are bounded.                                           *)
(***************************************************************************)
FairSpec == Spec /\ WF_vars(Tick) /\ \A p \in Procs : WF_vars(Progress(p))

-----------------------------------------------------------------------------
(* Properties. *)

\* With the flag --leader-election, the controllers of two processes never run
\* at the same time: the leader gives up (RenewDeadline) before anyone may take
\* its lease (LeaseDuration), whatever crashes, fails or is late.
OneLeader ==
  Elections => \A p, q \in Procs : pc[p] = "running" /\ pc[q] = "running" => p = q

\* No start of the provider overwrites a store configuration that is there:
\* what users changed survives restarts and retries of main's Create.
StoreConfigKept ==
  [][storeConfig' = storeConfig \/ storeConfig = "none" \/ edits' # edits]_vars

\* After any crashes, failed requests and lost leases the provider comes back,
\* with its three controllers set up and the features it was given on.
ComesBack ==
  []<>(\E p \in Procs : /\ pc[p] = "running"
                        /\ scheme[p] = Kinds
                        /\ \A c \in Controllers : ctl[p][c] = Heeded(c))
=============================================================================
