\* Every pair of a stated group and a stored group of at most two rules.
SPECIFICATION Spec
CONSTANTS
  Text <- MCText
  YamlKind <- MCYamlKind
  ScalarValue <- MCScalarValue
  Values <- MCValues
  NoValue = ""
  DurationText <- MCDurationText
  ParsedDuration <- MCParsedDuration
  Durations = {0, 60, 120}
  ZeroDuration = 0
  BadDuration <- MCBadDuration
  Extras = {"none"}
  Unset = "unset"
  SpecGroups <- MCSpecGroups
  Groups <- MCGroups
INVARIANTS TypeOK MixedNamesNeverUpToDate
PROPERTY WriteSettles
