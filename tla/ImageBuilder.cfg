SPECIFICATION FairSpec
CONSTANTS
  Caller = {c1, c2}
  Host = "host"
  Empty = ""
  Failed = "failed"
  Unknown = "unknown"
CHECK_DEADLOCK FALSE
INVARIANTS
  TypeOK
  BuiltForHost
  PullExact
PROPERTY ImplementsInfoCache
PROPERTY CallReturns
