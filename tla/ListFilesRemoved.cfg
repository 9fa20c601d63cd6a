SPECIFICATION Spec
CONSTANTS
  Image = {i1, i2}
  Builder = {loc, r1}
  NoBuilder = NoBuilder
  Local = {loc}
  Here = Here
INVARIANT RemovedOnlyOnSuccess
