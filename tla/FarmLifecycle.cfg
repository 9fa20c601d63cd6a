SPECIFICATION FairSpec
CONSTANTS
  Destination = {"d1", "d2"}
  LocalKey = ""
  LocalName = "(local)"
CHECK_DEADLOCK FALSE
INVARIANTS
  TypeOK
  FarmComplete
  EveryBuilderVisited
  ConnectionsClosed
PROPERTY CommandEnds
