----------------------------- MODULE MCFarmBuild -----------------------------
(* Small farms for TLC: the images differ in platform, and two of them only  *)
(* in their ID.                                                              *)
EXTENDS FarmBuild, TLC

CONSTANTS amd64, arm64, i1, i2, i3, r1, r2

Platforms == i1 :> amd64 @@ i2 :> arm64

PlatformsOfThree == i1 :> amd64 @@ i2 :> arm64 @@ i3 :> amd64

\* Remote builders are interchangeable.
Remotes == Permutations({r1, r2})
=============================================================================
