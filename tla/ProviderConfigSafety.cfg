\* Two ProviderConfigs between which a reference changes.
SPECIFICATION FairSpec
CONSTANTS
  Procs = {"p1"}
  Res = {"r1"}
  Specs = {"c1", "c2"}
  Edits <- Rereferred
  UserNames = {NoName}
  NoName = NoName
  Policies = {"Delete"}
  Gone = Gone
  NoCopy = NoCopy
  NoConfig = NoConfig
  Tenants = {"t1", "t2"}
  ConfigSpecs <- OnlySound
  ConfigEdits = {}
  MaxEdits = 2
  MaxFaults = 0
  MaxChanges = 1
\* Nothing is left to do once everything is gone and the bounds are used up.
CHECK_DEADLOCK FALSE
INVARIANTS TypeOK  
PROPERTY ConfigReleased
