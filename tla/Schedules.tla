------------------------------ MODULE Schedules ------------------------------
(***************************************************************************)
(* The data a farm's scheduler works on: platform strings, builder names,  *)
(* and the platform -> builder maps of buildfarm.go, with the relation     *)
(* between such a map and the builders' platforms that makes it a correct  *)
(* schedule.                                                               *)
(***************************************************************************)

CONSTANTS
  Builder,    \* names of the farm's builders (the keys of Farm.builders)
  Platform,   \* platform strings, "linux/amd64" and the like
  NoBuilder   \* the value of a platform -> builder map at an absent key

\* newFarmWithBuilders returns no farm without a builder.
ASSUME BuilderAssumption == Builder # {} /\ NoBuilder \notin Builder

(***************************************************************************)
(* A platform -> builder map is a function on Platform, NoBuilder standing *)
(* for a missing key.                                                      *)
(***************************************************************************)
BuilderMap == [Platform -> Builder \union {NoBuilder}]

EmptyMap == [p \in Platform |-> NoBuilder]

\* The schedules of targets that the doc comment of Schedule allows: exactly
\* the targets are assigned, native builders are preferred, and emulation
\* serves a target only when no builder of the farm is native for it.
Acceptable(pb, targets, nativeBy, emulatedBy) ==
  \A p \in Platform :
    /\ pb[p] # NoBuilder <=> p \in targets
    /\ p \in targets =>
         \/ p \in nativeBy[pb[p]]
         \/ /\ p \in emulatedBy[pb[p]]
            /\ \A b \in Builder : p \notin nativeBy[b]

\* Some target has neither a native nor an emulating builder.
Unbuildable(targets, nativeBy, emulatedBy) ==
  \E p \in targets : \A b \in Builder : p \notin nativeBy[b] /\ p \notin emulatedBy[b]
=============================================================================
