SPECIFICATION FairSpec
CONSTANTS
  Platform = {"p1", "p2"}
  Kind = {"out", "err"}
  Char = {"a", "b", "c", "d", "e", "f", "n"}
  Outputs <- Texts
  NL = "n"
  Newline = "n"
  BufSize = 2
CHECK_DEADLOCK FALSE
INVARIANTS
  TypeOK
  PrintedFaithful
PROPERTY OutputArrives
