\* What comes of a resource, whose policy may change, once edits, faults and drift have stopped.
SPECIFICATION FairSpec
CONSTANTS
  Text <- MCText
  YamlKind <- MCYamlKind
  ScalarValue <- MCScalarValue
  Values <- MCValues
  NoValue = ""
  DurationText <- MCDurationText
  ParsedDuration <- MCParsedDuration
  Durations = {0, 60}
  ZeroDuration = 0
  BadDuration <- MCBadDuration
  Extras = {"none"}
  Unset = "unset"
  Procs = {"p1"}
  Res = {"r1"}
  Specs <- Good
  Edits <- GoodEdits
  UserNames = {NoName}
  NoName = NoName
  Policies = {"Delete", "Orphan"}
  Gone = Gone
  NoCopy = NoCopy
  Absent = Absent
  Namespaces = {"ns1"}
  ForeignGroups <- MCForeignGroups
  MaxEdits = 3
  MaxFaults = 1
  MaxDrifts = 1
\* Nothing is left to do once every resource is gone and the bounds are used up.
CHECK_DEADLOCK FALSE
PROPERTIES Converges DeletionCompletes DeletePolicyKept
