------------------------------- MODULE Images -------------------------------
(***************************************************************************)
(* Images and where they are kept: every remote builder has the storage of *)
(* its own host, and the local builder shares the storage of the machine   *)
(* that buildfarm itself runs on, which is also where a named manifest     *)
(* list ends up.                                                           *)
(***************************************************************************)
CONSTANTS
  Image,      \* image IDs
  Builder,    \* names of the farm's builders
  NoBuilder,  \* the value of an image -> builder map at an absent key
  Local,      \* the builders that are podmanLocal: {} or {"(local)"}
  Here        \* the storage of the machine that runs buildfarm

\* A connection to a podman service that runs on this very machine would share
\* Here under a remote name; it is assumed away.
ASSUME StorageAssumption ==
  /\ NoBuilder \notin Builder
  /\ Local \subseteq Builder
  /\ Here \notin Builder

Hosts == (Builder \ Local) \union {Here}

Host(b) == IF b \in Local THEN Here ELSE b

\* map[BuildReport]ImageBuilder, NoBuilder standing for a missing key.
ImageMap == [Image -> Builder \union {NoBuilder}]

Keys(map) == {i \in Image : map[i] # NoBuilder}
=============================================================================
