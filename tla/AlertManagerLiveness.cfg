\* Two resources that may share a tenant take turns.
SPECIFICATION FairSpec
CONSTANTS
  Procs = {"p1"}
  Res = {"r1", "r2"}
  Specs <- Turns
  Edits <- TurnsEdits
  UserNames = {NoName}
  NoName = NoName
  Policies = {"Delete"}
  Gone = Gone
  NoCopy = NoCopy
  Absent = Absent
  Tenants = {"t1", "t2"}
  Texts <- MCTexts
  NoText = ""
  Refused <- MCRefused
  TemplateNames = {"a", "b"}
  ForeignConfigs <- MCForeignConfigs
  MaxEdits = 3
  MaxFaults = 0
  MaxDrifts = 0
\* Nothing is left to do once every resource is gone and the bounds are used up.
CHECK_DEADLOCK FALSE
PROPERTIES SomeOwnerWins DeletionCompletes
