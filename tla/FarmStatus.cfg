SPECIFICATION Spec
CONSTANTS
  Builder = {loc, r1, r2}
  Local = {loc}
  Platform = {amd64, arm64}
  NoBuilder = NoBuilder
INVARIANT StatusHonest
