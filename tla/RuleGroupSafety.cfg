\* Two resources of one process, every kind of specification, a fault.
SPECIFICATION Spec
CONSTANTS
  Text <- MCText
  YamlKind <- MCYamlKind
  ScalarValue <- MCScalarValue
  Values <- MCValues
  NoValue = ""
  DurationText <- MCDurationText
  ParsedDuration <- MCParsedDuration
  Durations = {0, 60}
  ZeroDuration = 0
  BadDuration <- MCBadDuration
  Extras = {"none"}
  Unset = "unset"
  Procs = {"p1"}
  Res = {r1, r2}
  Specs <- Various
  Edits <- VariousEdits
  UserNames = {NoName}
  NoName = NoName
  Policies = {"Delete"}
  Gone = Gone
  NoCopy = NoCopy
  Absent = Absent
  Namespaces = {"ns1"}
  ForeignGroups <- MCForeignGroups
  MaxEdits = 3
  MaxFaults = 1
  MaxDrifts = 0
\* Nothing is left to do once every resource is gone and the bounds are used up.
CHECK_DEADLOCK FALSE
SYMMETRY Alike
INVARIANTS TypeOK NoStrandedGroup AvailableMeansPresent
PROPERTIES NoUnaskedDeletion PromiseKept
