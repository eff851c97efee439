\* The old and the new process of an upgrade, without leader election.
SPECIFICATION FairSpec
CONSTANTS
  Text <- MCText
  YamlKind <- MCYamlKind
  ScalarValue <- MCScalarValue
  Values <- MCValues
  NoValue = ""
  DurationText <- MCDurationText
  ParsedDuration <- MCParsedDuration
  Durations = {0, 60}
  ZeroDuration = 0
  BadDuration <- MCBadDuration
  Extras = {"none"}
  Unset = "unset"
  Procs = {"p1", "p2"}
  Res = {"r1"}
  Specs <- Good
  Edits <- GoodEdits
  UserNames = {NoName}
  NoName = NoName
  Policies = {"Delete"}
  Gone = Gone
  NoCopy = NoCopy
  Absent = Absent
  Namespaces = {"ns1"}
  ForeignGroups <- MCForeignGroups
  MaxEdits = 2
  MaxFaults = 0
  MaxDrifts = 0
\* Nothing is left to do once every resource is gone and the bounds are used up.
CHECK_DEADLOCK FALSE
INVARIANT CreatesAlone
PROPERTIES Converges DeletionCompletes
