\* A ProviderConfig that is deleted, created again for another tenant, or given another address.
SPECIFICATION FairSpec
CONSTANTS
  Procs = {"p1"}
  Res = {"r1"}
  Specs = {"c1"}
  Edits = {}
  UserNames = {NoName}
  NoName = NoName
  Policies = {"Delete"}
  Gone = Gone
  NoCopy = NoCopy
  NoConfig = NoConfig
  Tenants = {"t1", "t2"}
  ConfigSpecs <- AnyTenant
  ConfigEdits <- Readdressed
  MaxEdits = 2
  MaxFaults = 1
  MaxChanges = 2
\* Nothing is left to do once everything is gone and the bounds are used up.
CHECK_DEADLOCK FALSE
PROPERTIES  Served 
