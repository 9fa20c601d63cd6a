SPECIFICATION FairSpec
CONSTANTS
  Image = {i1, i2}
  Builder = {loc, r1, r2}
  NoBuilder = NoBuilder
  Local = {loc}
  Here = Here
INVARIANTS
  TypeOK
  NoImageLost
  ListExact
PROPERTY ListReplacedLast
PROPERTY BuildReturns
