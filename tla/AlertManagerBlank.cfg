\* A user renames an empty template file and nothing goes wrong.
SPECIFICATION FairSpec
CONSTANTS
  Procs = {"p1"}
  Res = {"r1"}
  Specs <- Blanks
  Edits <- BlanksEdits
  UserNames = {NoName}
  NoName = NoName
  Policies = {"Delete"}
  Gone = Gone
  NoCopy = NoCopy
  Absent = Absent
  Tenants = {"t1"}
  Texts <- MCTexts
  NoText = ""
  Refused <- MCRefused
  TemplateNames = {"a", "b"}
  ForeignConfigs <- MCForeignConfigs
  MaxEdits = 2
  MaxFaults = 0
  MaxDrifts = 0
\* Nothing is left to do once every resource is gone and the bounds are used up.
CHECK_DEADLOCK FALSE
PROPERTY ReachesDesired
