\* A user changes the expression of a rule and nothing else goes wrong.
SPECIFICATION FairSpec
CONSTANTS
  Text <- MCText
  YamlKind <- MCYamlKind
  ScalarValue <- MCScalarValue
  Values <- MCValues
  NoValue = ""
  DurationText <- MCDurationText
  ParsedDuration <- MCParsedDuration
  Durations = {0, 60}
  ZeroDuration = 0
  BadDuration <- MCBadDuration
  Extras = {"none"}
  Unset = "unset"
  Procs = {"p1"}
  Res = {"r1"}
  Specs <- Reworded
  Edits <- RewordedEdits
  UserNames = {NoName}
  NoName = NoName
  Policies = {"Delete"}
  Gone = Gone
  NoCopy = NoCopy
  Absent = Absent
  Namespaces = {"ns1"}
  ForeignGroups <- MCForeignGroups
  MaxEdits = 2
  MaxFaults = 0
  MaxDrifts = 0
\* Nothing is left to do once every resource is gone and the bounds are used up.
CHECK_DEADLOCK FALSE
PROPERTY ReachesDesired
