SPECIFICATION Spec
CONSTANTS
  amd64 = amd64
  arm64 = arm64
  i1 = i1
  i2 = i2
  i3 = i3
  r1 = r1
  r2 = r2
  Platform = {amd64, arm64}
  Builder = {r1, r2}
  Local = {}
  Image = {i1, i2, i3}
  PlatformOf <- PlatformsOfThree
  NoBuilder = NoBuilder
  Here = Here
  NoPlatform = NoPlatform
  NoImage = NoImage
SYMMETRY Remotes
INVARIANT NativeBuildExact
