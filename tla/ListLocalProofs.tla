--------------------------- MODULE ListLocalProofs ---------------------------
(***************************************************************************)
(* Proofs about module ListLocal for any sets of images and builders.      *)
(*                                                                         *)
(* The argument rests on one fact: nothing that listLocal.Build does takes *)
(* an image out of local storage, because only images of remote builders   *)
(* are removed.  So an image that has been pulled stays, and everything    *)
(* after the wait for the pulls may count on all of them.                  *)
(***************************************************************************)
EXTENDS ListLocal, TLAPS

-----------------------------------------------------------------------------
(* The inductive invariant. *)

\* Pulls run in their own phase only; an image has a reference exactly if
\* its pull succeeded, and is then in local storage.
PullOK ==
  /\ phase = "open" => \A i \in Image : pull[i] = "none"
  /\ phase # "pull" => \A i \in Image : pull[i] # "running"
  /\ phase = "pull" => \A i \in Keys(images) : pull[i] # "none"
  /\ \A i \in Image :
       /\ pull[i] # "none" => images[i] # NoBuilder
       /\ i \in refs <=> pull[i] = "ok"
       /\ pull[i] = "ok" => i \in storage[Here]

\* After the wait for the pulls there is no image that was not pulled.
Pulled ==
  phase \in {"rm", "inspect", "clear", "add"} =>
    \A i \in Keys(images) : pull[i] = "ok"

\* Only pulled images of remote builders are removed.
RmOK ==
  /\ phase # "rm" => \A i \in Image : rm[i] # "running"
  /\ phase = "rm" => \A i \in Removable : rm[i] # "none"
  /\ \A i \in Image :
       /\ rm[i] # "none" => i \in Removable /\ pull[i] = "ok"
       /\ rm[i] = "ok" /\ phase # "idle" => i \notin storage[images[i]]

Removed ==
  phase \in {"inspect", "clear", "add"} /\ remove =>
    \A i \in Removable : rm[i] = "ok"

\* While the list is cleared it is what is left to clear; while it is filled it
\* is what has been pulled and is not left to add.
ListOK ==
  /\ phase = "clear" => list = todo
  /\ phase = "add" => list = refs \ todo /\ todo \subseteq refs

IInv ==
  /\ TypeOK
  /\ PullOK
  /\ Pulled
  /\ RmOK
  /\ Removed
  /\ ListOK
  /\ NoImageLost
  /\ ListExact

-----------------------------------------------------------------------------
(* Types. *)

\* Every builder's host is a host, and only the local builder's is Here.
LEMMA HostFacts ==
  ASSUME NEW b \in Builder
  PROVE  /\ Host(b) \in Hosts
         /\ b \notin Local => Host(b) = b /\ b # Here
         /\ b \in Local => Host(b) = Here
         /\ Here \in Hosts
  BY StorageAssumption DEF Host, Hosts

\* The keys of a map of images have builders.
LEMMA KeyFacts ==
  ASSUME NEW map \in ImageMap, NEW i \in Image
  PROVE  i \in Keys(map) <=> map[i] \in Builder
  BY StorageAssumption DEF ImageMap, Keys

\* The state before the first call is well typed.
LEMMA InitType == Init => TypeOK
  BY DEF Init, TypeOK, NoTasks, Tasks, ImageMap

\* Every step of listLocal.Build keeps its state well typed.
LEMMA NextType == TypeOK /\ [Next]_vars => TypeOK'
<1> SUFFICES ASSUME TypeOK, [Next]_vars PROVE TypeOK'
  OBVIOUS
<1> USE DEF TypeOK, Tasks
<1>1. ASSUME NEW b \in Builder, NEW i \in Image, BuildImage(b, i) PROVE TypeOK'
  BY <1>1, HostFacts DEF BuildImage
<1>2. ASSUME NEW built \in ImageMap, NEW removeImages \in BOOLEAN, Build(built, removeImages)
      PROVE  TypeOK'
  BY <1>2 DEF Build, NoTasks
<1>3. CASE OpenStore BY <1>3 DEF OpenStore, Return
<1>4. ASSUME NEW i \in Image, PullToLocal(i) PROVE TypeOK'
  BY <1>4, StorageAssumption DEF PullToLocal, localPull, remotePull, Hosts
<1>5. CASE PullWait BY <1>5 DEF PullWait, Return
<1>6. ASSUME NEW i \in Image, RemoveImage(i) PROVE TypeOK'
  BY <1>6 DEF RemoveImage
<1>7. CASE RmWait BY <1>7 DEF RmWait, Return
<1>8. CASE Inspect BY <1>8 DEF Inspect, Return
<1>9. ASSUME NEW i \in Image, RemoveInstance(i) PROVE TypeOK'
  BY <1>9 DEF RemoveInstance, Return
<1>10. CASE Cleared BY <1>10 DEF Cleared
<1>11. ASSUME NEW i \in Image, AddImage(i) PROVE TypeOK'
  BY <1>11 DEF AddImage, Return
<1>12. CASE Added BY <1>12 DEF Added, Return
<1>13. CASE Kill BY <1>13 DEF Kill, Return
<1>14. CASE UNCHANGED vars BY <1>14 DEF vars
<1> QED
  BY <1>1, <1>2, <1>3, <1>4, <1>5, <1>6, <1>7, <1>8, <1>9, <1>10, <1>11, <1>12, <1>13, <1>14
  DEF Next, Step

\* The state of the list builder is always well typed: a call adds nothing to
\* the list but images.
THEOREM TypeInvariant == Spec => []TypeOK
<1> QED BY InitType, NextType, PTL DEF Spec

-----------------------------------------------------------------------------
(* The invariant is inductive: one lemma per action. *)

\* Before the first call nothing has been pulled, removed or listed.
LEMMA InitIInv == Init => IInv
  BY InitType DEF Init, IInv, PullOK, Pulled, RmOK, Removed, ListOK, NoImageLost, ListExact,
                  Succeeded, Keys, NoTasks

\* A new image on a builder disturbs nothing that a finished call has claimed:
\* images are only added, and the claim about removals ends with the phase.
LEMMA BuildImageIInv ==
  ASSUME IInv, TypeOK', NEW b \in Builder, NEW i \in Image, BuildImage(b, i)
  PROVE  IInv'
<1> USE DEF IInv, BuildImage
<1>1. \A h \in Hosts : storage[h] \subseteq storage'[h]
  BY HostFacts DEF TypeOK
<1>2. PullOK' BY <1>1, HostFacts DEF PullOK, Keys
<1>3. RmOK' BY DEF RmOK, Removable, Keys
<1>4. NoImageLost'
  BY <1>1, HostFacts, KeyFacts DEF NoImageLost, Keys, TypeOK
<1> QED BY <1>2, <1>3, <1>4 DEF Pulled, Removed, ListOK, ListExact, Succeeded

\* A call begins with its images on their builders.
LEMMA BuildIInv ==
  ASSUME IInv, TypeOK', NEW built \in ImageMap, NEW removeImages \in BOOLEAN,
         Build(built, removeImages)
  PROVE  IInv'
<1> USE DEF IInv, Build
<1>1. PullOK' BY DEF PullOK, NoTasks
<1>2. RmOK' BY DEF RmOK, NoTasks
<1>3. NoImageLost' BY DEF NoImageLost
<1> QED BY <1>1, <1>2, <1>3 DEF Pulled, Removed, ListOK, ListExact, Succeeded

\* What the steps of the call's own goroutine leave alone: storage, the images
\* and what has been pulled.
LEMMA NoImageLostKept ==
  ASSUME NoImageLost, UNCHANGED <<storage, images>>
  PROVE  NoImageLost'
  BY DEF NoImageLost, Keys

\* The pulls start, one for each image, before there are any references.
LEMMA OpenStoreIInv ==
  ASSUME IInv, TypeOK', OpenStore
  PROVE  IInv'
<1> USE DEF IInv, OpenStore
<1>1. CASE Return("store") /\ UNCHANGED pull
  BY <1>1, NoImageLostKept
  DEF Return, PullOK, Pulled, RmOK, Removed, ListOK, ListExact, Succeeded, Keys, Removable
<1>2. CASE phase' = "pull"
  <2>1. /\ refs = {}
        /\ \A i \in Image : rm[i] = "none"
    BY DEF PullOK, RmOK, TypeOK
  <2>2. PullOK' BY <1>2, <2>1 DEF PullOK, Keys, Return
  <2>3. RmOK' BY <1>2, <2>1 DEF RmOK, Return
  <2> QED BY <1>2, <2>2, <2>3, NoImageLostKept DEF Pulled, Removed, ListOK, ListExact, Succeeded
<1> QED BY <1>1, <1>2

\* A pull adds its image to local storage, if it is not there, and takes none
\* from any host.
LEMMA PullToLocalIInv ==
  ASSUME IInv, TypeOK', NEW i \in Image, PullToLocal(i)
  PROVE  IInv'
<1> USE DEF IInv
<1>1. /\ phase = "pull"
      /\ pull[i] = "running"
      /\ UNCHANGED <<list, images, remove, phase, rm, todo, err>>
  BY DEF PullToLocal, PullOK
<1>2. /\ pull'[i] \in {"ok", "failed"}
      /\ \A j \in Image \ {i} : pull'[j] = pull[j]
      /\ refs' = refs \union {j \in {i} : pull'[i] = "ok"}
      /\ pull'[i] = "ok" => i \in storage'[Here]
      /\ \A h \in Hosts : storage[h] \subseteq storage'[h]
      /\ \A h \in Hosts \ {Here} : storage'[h] = storage[h]
  BY HostFacts DEF PullToLocal, localPull, remotePull, TypeOK, Tasks, Hosts
<1>3. PullOK' BY <1>1, <1>2 DEF PullOK, Keys, Hosts
<1>4. RmOK'
  <2>1. \A j \in Removable : images[j] \in Hosts \ {Here}
    BY HostFacts, KeyFacts DEF Removable, TypeOK, Hosts, Keys
  <2> QED BY <1>1, <1>2, <2>1 DEF RmOK, Removable, Keys
<1>5. NoImageLost'
  BY <1>1, <1>2, HostFacts, KeyFacts DEF NoImageLost, Keys, TypeOK, Hosts
<1> QED BY <1>1, <1>3, <1>4, <1>5 DEF Pulled, Removed, ListOK, ListExact, Succeeded

\* After the wait every image has been pulled, or the call is over.
LEMMA PullWaitIInv ==
  ASSUME IInv, TypeOK', PullWait
  PROVE  IInv'
<1> USE DEF IInv
<1>1. /\ phase = "pull"
      /\ \A i \in Image : pull[i] # "running"
      /\ UNCHANGED <<storage, list, images, remove, pull, refs, todo>>
  BY DEF PullWait, PullsJoined
<1>2. NoImageLost' BY <1>1, NoImageLostKept
<1>3. CASE Return("pull") /\ UNCHANGED rm
  <2>1. phase' = "done" /\ err' = "pull"
    BY <1>3 DEF Return
  <2> QED BY <1>1, <1>2, <1>3, <2>1
    DEF PullOK, Pulled, RmOK, Removed, ListOK, ListExact, Succeeded, Keys, Removable
<1>4. CASE (\A i \in Image : pull[i] # "failed") /\ phase' \in {"rm", "inspect"}
  <2>1. \A i \in Keys(images) : pull[i] = "ok"
    BY <1>1, <1>4 DEF PullOK, TypeOK, Tasks, Keys
  <2>2. PullOK' BY <1>1, <1>4 DEF PullOK
  <2>3. Pulled' BY <1>1, <2>1 DEF Pulled, Keys
  <2>4. RmOK'
    <3>1. CASE phase' = "rm" /\ rm' = [i \in Image |-> IF i \in Removable THEN "running" ELSE "none"]
      BY <1>1, <2>1, <3>1 DEF RmOK, Removable, Keys
    <3>2. CASE phase' = "inspect" /\ UNCHANGED rm
      BY <1>1, <3>2 DEF RmOK, Removable, Keys
    <3> QED BY <1>4, <3>1, <3>2 DEF PullWait, Return
  <2>5. Removed' BY <1>1, <1>4 DEF PullWait, Return, Removed
  <2> QED BY <1>2, <1>4, <2>2, <2>3, <2>4, <2>5 DEF ListOK, ListExact, Succeeded
<1> QED BY <1>3, <1>4 DEF PullWait

\* An image is removed from a remote builder only, and only after its pull: its
\* copy in local storage stays.
LEMMA RemoveImageIInv ==
  ASSUME IInv, TypeOK', NEW i \in Image, RemoveImage(i)
  PROVE  IInv'
<1> USE DEF IInv
<1>1. /\ phase = "rm"
      /\ rm[i] = "running"
      /\ UNCHANGED <<list, images, remove, phase, pull, refs, todo, err>>
  BY DEF RemoveImage, RmOK
<1>2. /\ i \in Keys(images)
      /\ images[i] \in Hosts \ {Here}
      /\ Host(images[i]) = images[i]
      /\ pull[i] = "ok"
  BY <1>1, HostFacts, KeyFacts DEF RmOK, Removable, TypeOK, Hosts
<1>3. /\ rm'[i] \in {"ok", "failed"}
      /\ \A j \in Image \ {i} : rm'[j] = rm[j]
      /\ rm'[i] = "ok" => i \notin storage'[images[i]]
      /\ \A h \in Hosts : storage'[h] \subseteq storage[h]
      /\ \A h \in Hosts : storage[h] \ {i} \subseteq storage'[h]
      /\ storage'[Here] = storage[Here]
  BY <1>2, HostFacts DEF RemoveImage, TypeOK, Tasks, Hosts
<1>4. PullOK' BY <1>1, <1>3 DEF PullOK, Keys
<1>5. Pulled' BY <1>1 DEF Pulled, Keys
<1>6. RmOK'
  <2>1. \A j \in Image : rm[j] # "none" => images[j] \in Hosts
    BY HostFacts, KeyFacts DEF RmOK, Removable, TypeOK, Hosts
  <2>2. Removable' = Removable BY <1>1 DEF Removable, Keys
  <2>3. ASSUME NEW j \in Image
        PROVE  /\ rm'[j] # "none" => j \in Removable' /\ pull'[j] = "ok"
               /\ rm'[j] = "ok" => j \notin storage'[images'[j]]
    <3>1. CASE j = i BY <1>1, <1>2, <1>3, <2>2, <3>1 DEF RmOK
    <3>2. CASE j # i BY <1>1, <1>3, <2>1, <2>2, <3>2 DEF RmOK
    <3> QED BY <3>1, <3>2
  <2>4. \A j \in Removable' : rm'[j] # "none"
    BY <1>1, <1>3, <2>2 DEF RmOK, Removable, Keys
  <2> QED BY <1>1, <2>3, <2>4 DEF RmOK
<1>7. NoImageLost'
  <2> SUFFICES ASSUME NEW j \in Keys(images)
               PROVE  j \in storage'[Host(images[j])] \union storage'[Here]
    BY <1>1 DEF NoImageLost, Keys
  <2>1. j \in storage[Here]
    BY <1>1 DEF Pulled, PullOK, Keys
  <2> QED BY <1>3, <2>1
<1> QED BY <1>1, <1>4, <1>5, <1>6, <1>7 DEF Removed, ListOK, ListExact, Succeeded

\* After the wait every image that is to be removed is gone from its builder, or
\* the call is over.
LEMMA RmWaitIInv ==
  ASSUME IInv, TypeOK', RmWait
  PROVE  IInv'
<1> USE DEF IInv
<1>1. /\ phase = "rm"
      /\ \A i \in Image : rm[i] # "running"
      /\ UNCHANGED <<storage, list, images, remove, pull, rm, refs, todo>>
      /\ \/ phase' = "done" /\ err' = "rm"
         \/ phase' = "inspect" /\ \A i \in Image : rm[i] # "failed"
  BY DEF RmWait, Return
<1>2. NoImageLost' BY <1>1, NoImageLostKept
<1>3. PullOK' BY <1>1 DEF PullOK
<1>4. Pulled' BY <1>1 DEF Pulled, Keys
<1>5. RmOK' BY <1>1 DEF RmOK, Removable, Keys
<1>6. Removed'
  <2>1. CASE phase' = "inspect"
    BY <1>1, <2>1 DEF Removed, RmOK, Removable, Keys, TypeOK, Tasks
  <2> QED BY <1>1, <2>1 DEF Removed
<1> QED BY <1>1, <1>2, <1>3, <1>4, <1>5, <1>6 DEF ListOK, ListExact, Succeeded

\* The steps on the list itself: none of them touches storage, the images or a
\* goroutine, and none goes back before the waits.
LEMMA ListStep ==
  ASSUME IInv, TypeOK',
         phase \in {"inspect", "clear", "add"}, phase' \in {"inspect", "clear", "add", "done"},
         UNCHANGED <<storage, images, remove, pull, rm, refs>>,
         ListOK', ListExact'
  PROVE  IInv'
<1> USE DEF IInv
<1>1. NoImageLost' BY NoImageLostKept
<1>2. PullOK' BY DEF PullOK
<1>3. Pulled' BY DEF Pulled, Keys
<1>4. RmOK' BY DEF RmOK, Removable, Keys
<1>5. Removed' BY DEF Removed, Removable, Keys
<1> QED BY <1>1, <1>2, <1>3, <1>4, <1>5

\* What is to be cleared is what the list holds.
LEMMA InspectIInv ==
  ASSUME IInv, TypeOK', Inspect
  PROVE  IInv'
<1>1. ListOK' BY DEF Inspect, Return, ListOK
<1>2. ListExact' BY DEF Inspect, Return, ListExact, Succeeded
<1> QED BY <1>1, <1>2, ListStep DEF Inspect, Return

\* An instance leaves the list and what is to be cleared together.
LEMMA RemoveInstanceIInv ==
  ASSUME IInv, TypeOK', NEW i \in Image, RemoveInstance(i)
  PROVE  IInv'
<1>1. ListOK' BY DEF IInv, RemoveInstance, Return, ListOK
<1>2. ListExact' BY DEF RemoveInstance, Return, ListExact, Succeeded
<1> QED BY <1>1, <1>2, ListStep DEF RemoveInstance, Return

\* A cleared list is empty, and every reference is left to add.
LEMMA ClearedIInv ==
  ASSUME IInv, TypeOK', Cleared
  PROVE  IInv'
<1>1. ListOK' BY DEF IInv, Cleared, ListOK
<1>2. ListExact' BY DEF Cleared, ListExact, Succeeded
<1> QED BY <1>1, <1>2, ListStep DEF Cleared

\* An image enters the list as it leaves what is to be added.
LEMMA AddImageIInv ==
  ASSUME IInv, TypeOK', NEW i \in Image, AddImage(i)
  PROVE  IInv'
<1>1. ListOK' BY DEF IInv, AddImage, Return, ListOK
<1>2. ListExact' BY DEF AddImage, Return, ListExact, Succeeded
<1> QED BY <1>1, <1>2, ListStep DEF AddImage, Return

\* With nothing left to add the list is exact: the references are the images,
\* all pulled and, if asked for, all removed.
LEMMA AddedIInv ==
  ASSUME IInv, TypeOK', Added
  PROVE  IInv'
<1> USE DEF IInv
<1>1. /\ phase = "add"
      /\ todo = {}
      /\ UNCHANGED <<storage, list, images, remove, pull, rm, refs, todo>>
      /\ phase' = "done"
  BY DEF Added, Return
<1>2. list = refs BY <1>1 DEF ListOK
<1>3. refs = Keys(images)
  BY <1>1 DEF PullOK, Pulled, TypeOK, Keys
<1>4. refs \subseteq storage[Here]
  BY DEF PullOK, TypeOK
<1>5. ASSUME remove, NEW i \in Keys(images), images[i] \notin Local
      PROVE  i \notin storage[images[i]]
  BY <1>1, <1>5 DEF Removed, RmOK, Removable, Keys
<1>6. ListExact'
  BY <1>1, <1>2, <1>3, <1>4, <1>5 DEF ListExact, Keys
<1>7. ListOK' BY <1>1 DEF ListOK
<1> QED BY <1>1, <1>6, <1>7, ListStep

\* The end of the process leaves storage and the list as they are, and no
\* goroutine.
LEMMA KillIInv ==
  ASSUME IInv, TypeOK', Kill
  PROVE  IInv'
<1> USE DEF IInv
<1>1. /\ phase' = "done"
      /\ err' = "killed"
      /\ phase # "idle"
      /\ UNCHANGED <<storage, list, images, remove, refs, todo>>
      /\ \A i \in Image :
           /\ pull'[i] = IF pull[i] = "running" THEN "failed" ELSE pull[i]
           /\ rm'[i] = IF rm[i] = "running" THEN "failed" ELSE rm[i]
  BY DEF Kill, Return
<1>2. NoImageLost' BY <1>1, NoImageLostKept
<1>3. PullOK' BY <1>1 DEF PullOK
<1>4. RmOK' BY <1>1 DEF RmOK, Removable, Keys
<1> QED BY <1>1, <1>2, <1>3, <1>4 DEF Pulled, Removed, ListOK, ListExact, Succeeded

-----------------------------------------------------------------------------
(* The theorems. *)

\* Every step of the specification preserves IInv.
LEMMA NextIInv == IInv /\ [Next]_vars => IInv'
<1> SUFFICES ASSUME IInv, [Next]_vars PROVE IInv'
  OBVIOUS
<1>1. TypeOK' BY NextType DEF IInv
<1>2. CASE UNCHANGED vars
  BY <1>2, <1>1 DEF vars, IInv, PullOK, Pulled, RmOK, Removed, ListOK, NoImageLost, ListExact,
                    Succeeded, Keys, Removable
<1>3. CASE Next
  BY <1>1, <1>3, BuildImageIInv, BuildIInv, OpenStoreIInv, PullToLocalIInv, PullWaitIInv,
     RemoveImageIInv, RmWaitIInv, InspectIInv, RemoveInstanceIInv, ClearedIInv, AddImageIInv,
     AddedIInv, KillIInv
  DEF Next, Step
<1> QED BY <1>2, <1>3

\* The inductive invariant holds of every state of listLocal.Build.
THEOREM Invariant == Spec => []IInv
<1> QED BY InitIInv, NextIInv, PTL DEF Spec

\* Whatever fails, and whenever the process ends, no image that was handed to
\* listLocal.Build is lost.
THEOREM NoImageIsLost == Spec => []NoImageLost
<1>1. IInv => NoImageLost BY DEF IInv
<1> QED BY <1>1, Invariant, PTL

\* A call that succeeds leaves exactly its images in the list, whatever earlier
\* calls left there.
THEOREM ListIsExact == Spec => []ListExact
<1>1. IInv => ListExact BY DEF IInv
<1> QED BY <1>1, Invariant, PTL

\* The list of an earlier call is not touched before its replacement is in
\* local storage.
THEOREM ListIsReplacedLast == Spec => ListReplacedLast
<1>1. IInv /\ [Next]_vars => [list' # list => Keys(images) \subseteq storage[Here]]_vars
  <2> SUFFICES ASSUME IInv, Next, list' # list PROVE Keys(images) \subseteq storage[Here]
    BY DEF vars
  <2>1. phase \in {"clear", "add"}
    BY DEF Next, Step, BuildImage, Build, OpenStore, PullToLocal, PullWait, RemoveImage, RmWait,
           Inspect, RemoveInstance, Cleared, AddImage, Added, Kill
  <2> QED BY <2>1 DEF IInv, Pulled, PullOK, Keys
<1> QED BY <1>1, Invariant, PTL DEF Spec, ListReplacedLast
=============================================================================
