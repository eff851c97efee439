--------------------------- MODULE ProviderConfigs ---------------------------
(***************************************************************************)
(* internal/clients/cortex.go and internal/controller/config: how a        *)
(* reconcile gets its client, composed with the life of the ProviderConfig *)
(* it gets it from.                                                        *)
(*                                                                         *)
(* A custom resource refers to a ProviderConfig by name.  Connect records  *)
(* that use in a ProviderConfigUsage named by the UID of the resource,     *)
(* reads tenant, address and credentials, and makes a client.  The         *)
(* ProviderConfig controller keeps a deleted ProviderConfig while usages   *)
(* of it are left, and the garbage collector removes a usage after its     *)
(* resource.  The reconcile around Connect is the one of                   *)
(* ManagedReconciler, a specification being the reference; what the client *)
(* is used for is reduced to whether the resource's thing, a rule group    *)
(* say, is there in the client's tenant.                                   *)
(***************************************************************************)
EXTENDS ManagedReconciler

CONSTANTS
  Tenants,      \* tenants of Cortex
  ConfigSpecs,  \* what a user may put into a ProviderConfig
  ConfigEdits,  \* the changes of a ProviderConfig a user may make, as pairs
  NoConfig,     \* no such ProviderConfig, or none read yet
  MaxChanges    \* bound on what users do to ProviderConfigs and credentials

\* The names of ProviderConfigs are what resources refer to.
Configs == Specs

ASSUME ProviderConfigAssumption ==
  /\ ConfigSpecs \subseteq [tenant : Tenants, address : {"sound", "malformed"}, source : {"None", "Secret"}]
  /\ ConfigEdits \subseteq ConfigSpecs \X ConfigSpecs
  /\ MaxChanges \in Nat

VARIABLES
  configs,  \* the ProviderConfigs in etcd
  secret,   \* whether the credentials can be read and parsed
  uid,      \* how often a resource of that name was created
  usage,    \* per resource and UID: the ProviderConfigUsage
  conn,     \* per process and resource: how far Connect is, and its client
  keeper,   \* per process and ProviderConfig: the reconcile of the ProviderConfig
  things,   \* which resource's thing is there in which tenant
  changes   \* what users did to ProviderConfigs and credentials so far

configVars == <<configs, secret, usage, conn, keeper, things, changes, uid>>
vars == <<managedVars, configVars>>

UIDs == 0..MaxEdits

Config == [spec : ConfigSpecs, deleting : BOOLEAN, finalizer : BOOLEAN]

\* A missing ProviderConfig is not mistaken for one, nor for the name of one.
ASSUME NoConfigAssumption == NoConfig \notin Config \cup Configs

\* early is no field of the object: it says that the usage was recorded while the
\* ProviderConfig was there with its finalizer and was not being deleted.
Usage == [config : Configs, early : BOOLEAN]
NoUsage == [config |-> NoConfig, early |-> FALSE]

\* uid is that of the copy the reconcile works on; read is what Connect read.
Connection ==
  [step : {"track", "check", "read", "trackAgain", "credentials", "done"},
   uid : UIDs, read : ConfigSpecs \cup {NoConfig}]
Unconnected == [step |-> "track", uid |-> 0, read |-> NoConfig]

\* users is whether the list of usages was not empty.
Keeper == [copy : Config, fresh : BOOLEAN, users : BOOLEAN]
Resting == [copy |-> NoConfig, fresh |-> FALSE, users |-> FALSE]

TypeOK ==
  /\ ManagedTypeOK
  /\ configs \in [Configs -> Config \cup {NoConfig}]
  /\ secret \in BOOLEAN
  /\ uid \in [Res -> UIDs]
  /\ usage \in [Res -> [UIDs -> Usage \cup {NoUsage}]]
  /\ conn \in [Procs -> [Res -> Connection]]
  /\ keeper \in [Procs -> [Configs -> Keeper \cup {Resting}]]
  /\ things \subseteq Res \X Tenants
  /\ changes \in 0..MaxChanges

New(s) == [spec |-> s, deleting |-> FALSE, finalizer |-> FALSE]

\* The provider may start before or after the ProviderConfigs are created.
Init ==
  /\ ManagedInit
  /\ configs \in [Configs -> {New(s) : s \in ConfigSpecs} \cup {NoConfig}]
  /\ secret = TRUE
  /\ uid = [r \in Res |-> 0]
  /\ usage = [r \in Res |-> [u \in UIDs |-> NoUsage]]
  /\ conn = [p \in Procs |-> [r \in Res |-> Unconnected]]
  /\ keeper = [p \in Procs |-> [c \in Configs |-> Resting]]
  /\ things = {}
  /\ changes = 0

-----------------------------------------------------------------------------
(***************************************************************************)
(* Users and the garbage collector.                                        *)
(***************************************************************************)

Change == changes < MaxChanges /\ changes' = changes + 1

\* ProviderConfig c becomes o, which outdates copies of it.
StoreConfig(c, o) ==
  /\ configs' = [configs EXCEPT ![c] = o]
  /\ keeper' = [p \in Procs |-> [keeper[p] EXCEPT ![c].fresh = FALSE]]

ConfigCreate(c) ==
  /\ Change /\ configs[c] = NoConfig
  /\ \E s \in ConfigSpecs : StoreConfig(c, New(s))
  /\ UNCHANGED <<managedVars, secret, usage, conn, things, uid>>

ConfigEdit(c) ==
  /\ Change /\ configs[c] # NoConfig
  /\ \E s \in ConfigSpecs :
       <<configs[c].spec, s>> \in ConfigEdits /\ StoreConfig(c, [configs[c] EXCEPT !.spec = s])
  /\ UNCHANGED <<managedVars, secret, usage, conn, things, uid>>

ConfigDelete(c) ==
  /\ Change /\ configs[c] # NoConfig /\ ~ configs[c].deleting
  /\ StoreConfig(c, IF configs[c].finalizer THEN [configs[c] EXCEPT !.deleting = TRUE] ELSE NoConfig)
  /\ UNCHANGED <<managedVars, secret, usage, conn, things, uid>>

\* The credentials are removed or broken, or put right.
SecretChange ==
  /\ Change
  /\ secret' = ~ secret
  /\ UNCHANGED <<managedVars, configs, usage, conn, keeper, things, uid>>

\* A custom resource of the same name is another resource if it is created again.
ResourceStep(r) ==
  /\ UserStep(r) \/ GraceExpires(r)
  /\ uid' = IF obj[r] = Gone /\ obj'[r] # Gone THEN [uid EXCEPT ![r] = @ + 1] ELSE uid
  /\ UNCHANGED <<configs, secret, usage, conn, keeper, things, changes>>

\* The resource with this UID is gone, and its usage with it.
Collect(r, u) ==
  /\ usage[r][u] # NoUsage
  /\ obj[r] = Gone \/ uid[r] # u
  /\ usage' = [usage EXCEPT ![r][u] = NoUsage]
  /\ UNCHANGED <<managedVars, configs, secret, conn, keeper, things, changes, uid>>

-----------------------------------------------------------------------------
(***************************************************************************)
(* Connect.                                                                *)
(***************************************************************************)

Connecting(p, r, step) == At(p, r, "connect") /\ conn[p][r].step = step

Reference(p, r) == wk[p][r].mg.spec

\* A reconcile that is over has no client any more.
KeepConnections(c) ==
  conn' = [p \in Procs |-> [r \in Res |-> IF wk'[p][r] = Idle THEN Unconnected ELSE c[p][r]]]

Advance(p, r, step) == conn' = [conn EXCEPT ![p][r].step = step] /\ UNCHANGED <<wk, faults>>

\* Connect returns an error, or a request it makes fails.
Refuse(p, r) == Fail(p, r) /\ UNCHANGED <<faults, conn>>
Broken(p, r) == Fail(p, r) /\ Fault /\ UNCHANGED conn

ConnectLeaves == UNCHANGED <<obj, recent, edits, configs, secret, keeper, things, changes, uid>>

\* Faulty: a usage that is there is left as it is.
RecordedOnce(p, r) ==
  LET u == conn[p][r].uid
      c == Reference(p, r)
  IN  usage' = IF usage[r][u] # NoUsage THEN usage
               ELSE [usage EXCEPT ![r][u] = [config |-> c, early |->
                       configs[c] # NoConfig /\ configs[c].finalizer /\ ~ configs[c].deleting]]

\* Usage of the copy's reference under the copy's UID: created, or changed if it names
\* another ProviderConfig.  Whether there is such a ProviderConfig is not looked at.
Recorded(p, r) ==
  LET u == conn[p][r].uid
      c == Reference(p, r)
  IN  usage' = IF usage[r][u].config = c THEN usage
               ELSE [usage EXCEPT ![r][u] = [config |-> c, early |->
                       configs[c] # NoConfig /\ configs[c].finalizer /\ ~ configs[c].deleting]]

Track(p, r, from, to) ==
  /\ Connecting(p, r, from)
  /\ \/ Recorded(p, r) /\ Advance(p, r, to)
     \/ Broken(p, r) /\ (Recorded(p, r) \/ UNCHANGED usage)
  /\ ConnectLeaves

\* The first ProviderConfig that is read is thrown away; it only has to be there.
CheckConfig(p, r) ==
  /\ Connecting(p, r, "check")
  /\ \/ configs[Reference(p, r)] # NoConfig /\ Advance(p, r, "read")
     \/ configs[Reference(p, r)] = NoConfig /\ Refuse(p, r)
     \/ Broken(p, r)
  /\ UNCHANGED usage /\ ConnectLeaves

\* Faulty: the object is kept where its spec belongs.
ReadConfigWhole(p, r) ==
  /\ Connecting(p, r, "read")
  /\ \/ /\ configs[Reference(p, r)] # NoConfig
        /\ conn' = [conn EXCEPT ![p][r].step = "trackAgain", ![p][r].read = configs[Reference(p, r)]]
        /\ UNCHANGED <<wk, faults>>
     \/ configs[Reference(p, r)] = NoConfig /\ Refuse(p, r)
     \/ Broken(p, r)
  /\ UNCHANGED usage /\ ConnectLeaves

ReadConfig(p, r) ==
  /\ Connecting(p, r, "read")
  /\ \/ /\ configs[Reference(p, r)] # NoConfig
        /\ conn' = [conn EXCEPT ![p][r].step = "trackAgain", ![p][r].read = configs[Reference(p, r)].spec]
        /\ UNCHANGED <<wk, faults>>
     \/ configs[Reference(p, r)] = NoConfig /\ Refuse(p, r)
     \/ Broken(p, r)
  /\ UNCHANGED usage /\ ConnectLeaves

\* Source None yields no data, which is no JSON document either.
CredentialsParsed(source) == source # "None" /\ secret

\* The client is made of what was read, without asking Cortex.
ReadCredentials(p, r) ==
  /\ Connecting(p, r, "credentials")
  /\ \/ /\ CredentialsParsed(conn[p][r].read.source)
        /\ Go(p, r, "observe", wk[p][r].mg)
        /\ conn' = [conn EXCEPT ![p][r].step = "done"]
        /\ UNCHANGED faults
     \/ ~ CredentialsParsed(conn[p][r].read.source) /\ Refuse(p, r)
     \/ Broken(p, r)
  /\ UNCHANGED usage /\ ConnectLeaves

Connect(p, r) ==
  \/ Track(p, r, "track", "check")
  \/ CheckConfig(p, r)
  \/ ReadConfig(p, r)
  \/ Track(p, r, "trackAgain", "credentials")
  \/ ReadCredentials(p, r)

-----------------------------------------------------------------------------
(***************************************************************************)
(* What the client is used for.                                            *)
(***************************************************************************)

\* NewClient returns nil for an address that is no URL.
HasClient(p, r) == conn[p][r].read.address # "malformed"

Place(p, r) == <<r, conn[p][r].read.tenant>>

UseLeaves == UNCHANGED <<obj, recent, edits, configs, secret, usage, keeper, changes, uid>>

\* The first call on the nil client panics, and the process dies.
PanicStep(p, r) ==
  /\ At(p, r, "observe") /\ ~ HasClient(p, r)
  /\ wk' = Killed(p)
  /\ KeepConnections(conn)
  /\ keeper' = [keeper EXCEPT ![p] = [c \in Configs |-> Resting]]
  /\ UNCHANGED <<obj, recent, edits, faults, configs, secret, usage, things, changes, uid>>

\* Faulty: the client asks without its tenant.
ObserveAnyTenant(p, r) ==
  /\ At(p, r, "observe") /\ HasClient(p, r)
  /\ \/ (\E t \in Tenants : <<r, t>> \in things) /\ Found(p, r, Available(wk[p][r].mg), TRUE)
        /\ UNCHANGED faults
     \/ (\A t \in Tenants : <<r, t>> \notin things) /\ NotFound(p, r, wk[p][r].mg)
        /\ UNCHANGED faults
     \/ Fail(p, r) /\ Fault
  /\ KeepConnections(conn)
  /\ UNCHANGED things /\ UseLeaves

Observe(p, r) ==
  /\ At(p, r, "observe") /\ HasClient(p, r)
  /\ \/ Place(p, r) \in things /\ Found(p, r, Available(wk[p][r].mg), TRUE) /\ UNCHANGED faults
     \/ Place(p, r) \notin things /\ NotFound(p, r, wk[p][r].mg) /\ UNCHANGED faults
     \/ Fail(p, r) /\ Fault
  /\ KeepConnections(conn)
  /\ UNCHANGED things /\ UseLeaves

Create(p, r) ==
  LET put == things' = things \cup {Place(p, r)}
  IN  /\ At(p, r, "create")
      /\ \/ put /\ Created(p, r, "succeeded") /\ UNCHANGED faults
         \/ Created(p, r, "failed") /\ Fault /\ (put \/ UNCHANGED things)
      /\ UNCHANGED conn /\ UseLeaves

Delete(p, r) ==
  LET removed == things' = things \ {Place(p, r)}
  IN  /\ At(p, r, "delete")
      /\ \/ removed /\ Finish(p, r, "deleting", "success") /\ UNCHANGED faults
         \/ Finish(p, r, "deleting", "error") /\ Fault /\ (removed \/ UNCHANGED things)
      /\ UNCHANGED conn /\ UseLeaves

-----------------------------------------------------------------------------
(***************************************************************************)
(* The ProviderConfig controller.                                          *)
(***************************************************************************)

\* Faulty: only the usages of resources that are not being deleted count.
CountUndeleted(p, c) ==
  /\ keeper[p][c] = Resting /\ configs[c] # NoConfig
  /\ keeper' = [keeper EXCEPT ![p][c] =
       [copy |-> configs[c], fresh |-> TRUE,
        users |-> \E r \in Res, u \in UIDs :
                    usage[r][u].config = c /\ obj[r] # Gone /\ ~ obj[r].deleting]]
  /\ UNCHANGED <<managedVars, configs, secret, usage, conn, things, changes, uid>>

\* Faulty: the usages of all ProviderConfigs count.
CountEvery(p, c) ==
  /\ keeper[p][c] = Resting /\ configs[c] # NoConfig
  /\ keeper' = [keeper EXCEPT ![p][c] =
       [copy |-> configs[c], fresh |-> TRUE,
        users |-> \E r \in Res, u \in UIDs : usage[r][u] # NoUsage]]
  /\ UNCHANGED <<managedVars, configs, secret, usage, conn, things, changes, uid>>

\* Get and List.  Had the ProviderConfig changed in between, the write that follows would
\* be refused.
Count(p, c) ==
  /\ keeper[p][c] = Resting /\ configs[c] # NoConfig
  /\ keeper' = [keeper EXCEPT ![p][c] =
       [copy |-> configs[c], fresh |-> TRUE,
        users |-> \E r \in Res, u \in UIDs : usage[r][u].config = c]]
  /\ UNCHANGED <<managedVars, configs, secret, usage, conn, things, changes, uid>>

\* A deleted ProviderConfig without users loses its finalizer and goes, one with users is
\* left alone, any other gets the finalizer.
Settle(p, c) ==
  LET k      == keeper[p][c]
      rest   == keeper' = [keeper EXCEPT ![p][c] = Resting]
      put(o) == /\ configs' = [configs EXCEPT ![c] = o]
                /\ keeper' = [q \in Procs |-> [keeper[q] EXCEPT ![c] =
                                IF q = p THEN Resting ELSE [@ EXCEPT !.fresh = FALSE]]]
  IN  /\ k # Resting
      /\ \/ k.copy.deleting /\ k.users /\ rest /\ UNCHANGED <<configs, faults>>
         \/ k.fresh /\ k.copy.deleting /\ ~ k.users /\ put(NoConfig) /\ UNCHANGED faults
         \/ k.fresh /\ ~ k.copy.deleting /\ put([k.copy EXCEPT !.finalizer = TRUE]) /\ UNCHANGED faults
         \/ ~ k.fresh /\ rest /\ UNCHANGED <<configs, faults>>
         \/ Fault /\ rest /\ UNCHANGED configs
      /\ UNCHANGED <<obj, recent, wk, edits, secret, usage, conn, things, changes, uid>>

-----------------------------------------------------------------------------
(***************************************************************************)
(* The system.                                                             *)
(***************************************************************************)

\* The library's own steps.  Start is where a reconcile reads the resource, its UID too.
LibraryPart(p, r) ==
  /\ LibraryStep(p, r)
  /\ KeepConnections(IF wk[p][r] = Idle THEN [conn EXCEPT ![p][r].uid = uid[r]] ELSE conn)
  /\ UNCHANGED <<configs, secret, usage, keeper, things, changes, uid>>

Reconcile(p, r) ==
  \/ LibraryPart(p, r) \/ Connect(p, r)
  \/ PanicStep(p, r) \/ Observe(p, r) \/ Create(p, r) \/ Delete(p, r)

ConfigReconcile(p, c) == Count(p, c) \/ Settle(p, c)

ProcessCrash(p) ==
  /\ Crash(p)
  /\ KeepConnections(conn)
  /\ keeper' = [keeper EXCEPT ![p] = [c \in Configs |-> Resting]]
  /\ UNCHANGED <<configs, secret, usage, things, changes, uid>>

Next ==
  \/ \E p \in Procs, r \in Res : Reconcile(p, r)
  \/ \E p \in Procs, c \in Configs : ConfigReconcile(p, c)
  \/ \E r \in Res : ResourceStep(r)
  \/ \E r \in Res, u \in UIDs : Collect(r, u)
  \/ \E c \in Configs : ConfigCreate(c) \/ ConfigEdit(c) \/ ConfigDelete(c)
  \/ SecretChange
  \/ \E p \in Procs : ProcessCrash(p)

Spec == Init /\ [][Next]_vars

\* Work queues bring resources and ProviderConfigs up again and again, if only by the
\* resync; the garbage collector works and time passes.
Fairness ==
  /\ \A p \in Procs, r \in Res : WF_vars(Reconcile(p, r))
  /\ \A p \in Procs, c \in Configs : WF_vars(ConfigReconcile(p, c))
  /\ \A r \in Res, u \in UIDs : WF_vars(Collect(r, u))
  /\ \A r \in Res : WF_vars(GraceExpires(r) /\ UNCHANGED configVars)

FairSpec == Spec /\ Fairness

-----------------------------------------------------------------------------
(***************************************************************************)
(* Safety.                                                                 *)
(***************************************************************************)

\* The usage of the resource that bears the name now.
UsageOf(r) == usage[r][uid[r]]

\* A reconcile that talks to Cortex has its resource's usage recorded for the ProviderConfig
\* that the client was made of, however often the reference changes (in one process).
UsedWhileAtWork ==
  \A p \in Procs, r \in Res :
    (/\ wk[p][r].pc \in {"observe", "addFinalizer", "pending", "create", "delete"}
     /\ obj[r] # Gone /\ conn[p][r].uid = uid[r])
      => UsageOf(r).config = Reference(p, r)

\* A ProviderConfig that was whole when a resource was first tracked as using it stays as
\* long as that resource does, from the list of usages to the finalizer and the garbage
\* collector, whoever deletes what in which order.
KeptWhileUsed ==
  \A r \in Res : obj[r] # Gone /\ UsageOf(r).early => configs[UsageOf(r).config] # NoConfig

\* A resource that was tracked in time leaves nothing behind in any tenant when it goes,
\* although users delete ProviderConfigs and create them again for other tenants (in one
\* process; no reference or tenant is edited in place, and no earlier resource of that name
\* left anything).
LeavesNothing ==
  [][\A r \in Res :
       obj[r] # Gone /\ UsageOf(r).early /\ uid[r] = 1 /\ obj'[r] = Gone
         => \A t \in Tenants : <<r, t>> \notin things]_vars

-----------------------------------------------------------------------------
(***************************************************************************)
(* Liveness.                                                               *)
(***************************************************************************)

GivenUp(r) == obj[r] # Gone /\ obj[r].created = "pending"

\* A ProviderConfig that a client can be made of.
Usable(c) ==
  /\ configs[c] # NoConfig
  /\ configs[c].spec.address = "sound"
  /\ CredentialsParsed(configs[c].spec.source)

\* A resource in use whose ProviderConfig is usable in the end has its thing in the tenant
\* of that ProviderConfig, also after the address or the tenant was changed.
Served ==
  \A r \in Res :
    <>[](obj[r] # Gone /\ ~ obj[r].deleting /\ ~ GivenUp(r) /\ Usable(obj[r].spec)
           => <<r, configs[obj[r].spec].spec.tenant>> \in things)

\* A deleted resource goes even if its ProviderConfig is deleted too: the ProviderConfig
\* waits for it, unless what it says is of no use.
TeardownCompletes ==
  \A r \in Res :
    (obj[r] # Gone /\ obj[r].deleting /\ UsageOf(r).early)
      ~> \/ obj[r] = Gone \/ GivenUp(r)
         \/ configs[obj[r].spec] # NoConfig /\ ~ Usable(obj[r].spec)

\* A deleted ProviderConfig goes once no resource refers to it or was last seen using it.
ConfigReleased ==
  \A c \in Configs :
    (configs[c] # NoConfig /\ configs[c].deleting)
      ~> \/ configs[c] = NoConfig
         \/ \E r \in Res : obj[r] # Gone /\ c \in {obj[r].spec, UsageOf(r).config}
=============================================================================
