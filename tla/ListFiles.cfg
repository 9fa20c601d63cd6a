SPECIFICATION FairSpec
CONSTANTS
  Image = {i1, i2}
  Builder = {loc, r1, r2}
  NoBuilder = NoBuilder
  Local = {loc}
  Here = Here
INVARIANTS
  TypeOK
  NoPullAfterCleanup
  NoImageLostWhileRunning
  DirectoryExact
PROPERTY DirectoryReplacedLast
PROPERTY BuildReturns
