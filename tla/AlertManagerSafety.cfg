\* Two resources that share a tenant, a refused configuration, a fault and drift.
SPECIFICATION Spec
CONSTANTS
  Procs = {"p1"}
  Res = {r1, r2}
  Specs <- Asked
  Edits <- AskedEdits
  UserNames = {NoName}
  NoName = NoName
  Policies = {"Delete"}
  Gone = Gone
  NoCopy = NoCopy
  Absent = Absent
  Tenants = {"t1"}
  Texts <- MCTexts
  NoText = ""
  Refused <- MCRefused
  TemplateNames = {"a", "b"}
  ForeignConfigs <- MCForeignConfigs
  MaxEdits = 3
  MaxFaults = 1
  MaxDrifts = 1
\* Nothing is left to do once every resource is gone and the bounds are used up.
CHECK_DEADLOCK FALSE
SYMMETRY Alike
INVARIANTS TypeOK NoStrandedConfiguration
PROPERTIES NoUnaskedDeletion PromiseKept
