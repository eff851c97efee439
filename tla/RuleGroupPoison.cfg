\* A user empties the expression of a rule, then deletes the custom resource.
SPECIFICATION FairSpec
CONSTANTS
  Text <- MCText
  YamlKind <- MCYamlKind
  ScalarValue <- MCScalarValue
  Values <- MCValues
  NoValue = ""
  DurationText <- MCDurationText
  ParsedDuration <- MCParsedDuration
  Durations = {0, 60}
  ZeroDuration = 0
  BadDuration <- MCBadDuration
  Extras = {"none"}
  Unset = "unset"
  Procs = {"p1"}
  Res = {"r1"}
  Specs <- Poisoned
  Edits <- PoisonedEdits
  UserNames = {NoName}
  NoName = NoName
  Policies = {"Delete"}
  Gone = Gone
  NoCopy = NoCopy
  Absent = Absent
  Namespaces = {"ns1"}
  ForeignGroups <- MCForeignGroups
  MaxEdits = 3
  MaxFaults = 0
  MaxDrifts = 0
\* Nothing is left to do once every resource is gone and the bounds are used up.
CHECK_DEADLOCK FALSE
PROPERTY DeletionCompletes
