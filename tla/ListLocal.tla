------------------------------ MODULE ListLocal ------------------------------
(***************************************************************************)
(* listLocal.Build of local.go: pull the built images into local storage,  *)
(* in parallel; remove them from the remote builders, in parallel; then    *)
(* empty the manifest list, which may be left from an earlier build, and   *)
(* add the images to it one by one.  The first error ends the call, with   *)
(* everything done so far in place, and so does the end of the process.    *)
(*                                                                         *)
(* Local storage and the list outlive the call: calls follow each other.   *)
(***************************************************************************)
EXTENDS Images

VARIABLES
  storage,    \* the images on every host
  list,       \* the images in the manifest list listName ({} if there is none)
  images,     \* the argument of Build: which builder has built which image
  remove,     \* options.RemoveIntermediateImages
  phase,      \* where Build is
  pull,       \* the goroutines of pullGroup, by image
  rm,         \* the goroutines of rmGroup, by image
  refs,       \* the images pulled so far
  todo,       \* what the loop in progress still has to visit
  err         \* the error returned

vars == <<storage, list, images, remove, phase, pull, rm, refs, todo, err>>

Tasks == [Image -> {"none", "running", "ok", "failed"}]

TypeOK ==
  /\ storage \in [Hosts -> SUBSET Image]
  /\ list \in SUBSET Image
  /\ images \in ImageMap
  /\ remove \in BOOLEAN
  /\ phase \in {"idle", "open", "pull", "rm", "inspect", "clear", "add", "done"}
  /\ pull \in Tasks
  /\ rm \in Tasks
  /\ refs \in SUBSET Image
  /\ todo \in SUBSET Image
  /\ err \in {"none", "store", "pull", "rm", "list", "killed"}

NoTasks == [i \in Image |-> "none"]

Init ==
  /\ storage = [h \in Hosts |-> {}]
  /\ list = {}
  /\ images = [i \in Image |-> NoBuilder]
  /\ remove = FALSE
  /\ phase = "idle"
  /\ pull = NoTasks
  /\ rm = NoTasks
  /\ refs = {}
  /\ todo = {}
  /\ err = "none"

-----------------------------------------------------------------------------

\* Build of an image builder leaves the image it built in its host's storage.
BuildImage(b, i) ==
  /\ phase \in {"idle", "done"}
  /\ storage' = [storage EXCEPT ![Host(b)] = @ \union {i}]
  /\ phase' = "idle"
  /\ UNCHANGED <<list, images, remove, pull, rm, refs, todo, err>>

\* The images to be listed have just been built.
Build(built, removeImages) ==
  /\ phase \in {"idle", "done"}
  /\ \A i \in Keys(built) : i \in storage[Host(built[i])]
  /\ images' = built
  /\ remove' = removeImages
  /\ phase' = "open"
  /\ pull' = NoTasks
  /\ rm' = NoTasks
  /\ refs' = {}
  /\ todo' = {}
  /\ err' = "none"
  /\ UNCHANGED <<storage, list>>

Return(error) ==
  /\ phase' = "done"
  /\ err' = error

\* The engine, the runtime, and the list: found as it is, or created empty.
OpenStore ==
  /\ phase = "open"
  /\ \/ Return("store") /\ UNCHANGED pull
     \/ /\ phase' = "pull"
        /\ pull' = [i \in Image |-> IF i \in Keys(images) THEN "running" ELSE "none"]
        /\ UNCHANGED err
  /\ UNCHANGED <<storage, list, images, remove, rm, refs, todo>>

\* The local builder finds the image at the destination.
localPull(i) ==
  /\ images[i] \in Local
  /\ i \in storage[Here]
  /\ UNCHANGED storage

\* A remote builder saves the image to a temporary file, which the destination
\* loads.
remotePull(i) ==
  /\ images[i] \notin Local
  /\ i \in storage[images[i]]
  /\ storage' = [storage EXCEPT ![Here] = @ \union {i}]

\* The goroutine of an image in pullGroup.
PullToLocal(i) ==
  /\ pull[i] = "running"
  /\ \/ /\ localPull(i) \/ remotePull(i)
        /\ refs' = refs \union {i}
        /\ pull' = [pull EXCEPT ![i] = "ok"]
     \/ /\ pull' = [pull EXCEPT ![i] = "failed"]
        /\ UNCHANGED <<storage, refs>>
  /\ UNCHANGED <<list, images, remove, phase, rm, todo, err>>

PullsJoined == \A i \in Image : pull[i] # "running"

\* Mutant: the images of the local builder are removed like the others.
RemovableMutant == Keys(images)

\* The local builder's copy is the one the list refers to.
Removable == {i \in Keys(images) : images[i] \notin Local}

\* Mutant: the error of the pull group is not looked at.
PullWaitMutant ==
  /\ phase = "pull"
  /\ PullsJoined
  /\ \/ /\ remove
        /\ phase' = "rm"
        /\ rm' = [i \in Image |-> IF i \in Removable THEN "running" ELSE "none"]
     \/ /\ ~remove
        /\ phase' = "inspect"
        /\ UNCHANGED rm
  /\ UNCHANGED <<storage, list, images, remove, pull, refs, todo, err>>

PullWait ==
  /\ phase = "pull"
  /\ PullsJoined
  /\ \/ /\ \E i \in Image : pull[i] = "failed"
        /\ Return("pull")
        /\ UNCHANGED rm
     \/ /\ \A i \in Image : pull[i] # "failed"
        /\ remove
        /\ phase' = "rm"
        /\ rm' = [i \in Image |-> IF i \in Removable THEN "running" ELSE "none"]
        /\ UNCHANGED err
     \/ /\ \A i \in Image : pull[i] # "failed"
        /\ ~remove
        /\ phase' = "inspect"
        /\ UNCHANGED <<rm, err>>
  /\ UNCHANGED <<storage, list, images, remove, pull, refs, todo>>

\* The engine removes the image or reports why it did not.  A remote engine may have
\* removed it although the call fails.
RemoveImage(i) ==
  /\ rm[i] = "running"
  /\ \/ /\ i \in storage[Host(images[i])]
        /\ storage' = [storage EXCEPT ![Host(images[i])] = @ \ {i}]
        /\ \E result \in {"ok", "failed"} : rm' = [rm EXCEPT ![i] = result]
     \/ /\ rm' = [rm EXCEPT ![i] = "failed"]
        /\ UNCHANGED storage
  /\ UNCHANGED <<list, images, remove, phase, pull, refs, todo, err>>

\* Mutant: the wait is for successful removals only.
RmWaitMutant ==
  /\ phase = "rm"
  /\ \A i \in Removable : rm[i] = "ok"
  /\ phase' = "inspect"
  /\ UNCHANGED <<storage, list, images, remove, pull, rm, refs, todo, err>>

RmWait ==
  /\ phase = "rm"
  /\ \A i \in Image : rm[i] # "running"
  /\ \/ /\ \E i \in Image : rm[i] = "failed"
        /\ Return("rm")
     \/ /\ \A i \in Image : rm[i] # "failed"
        /\ phase' = "inspect"
        /\ UNCHANGED err
  /\ UNCHANGED <<storage, list, images, remove, pull, rm, refs, todo>>

\* Mutant: a list that already existed is not cleared.
InspectMutant ==
  /\ phase = "inspect"
  /\ phase' = "clear"
  /\ UNCHANGED <<storage, list, images, remove, pull, rm, refs, todo, err>>

\* list.Inspect: the instances to clear are those of now.
Inspect ==
  /\ phase = "inspect"
  /\ \/ Return("list") /\ UNCHANGED todo
     \/ phase' = "clear" /\ todo' = list /\ UNCHANGED err
  /\ UNCHANGED <<storage, list, images, remove, pull, rm, refs>>

\* Each instance is removed, and the list saved, on its own.
RemoveInstance(i) ==
  /\ phase = "clear"
  /\ i \in todo
  /\ \/ Return("list") /\ UNCHANGED <<list, todo>>
     \/ /\ list' = list \ {i}
        /\ todo' = todo \ {i}
        /\ UNCHANGED <<phase, err>>
  /\ UNCHANGED <<storage, images, remove, pull, rm, refs>>

\* Mutant: the loop visits the values of the map of references, not its keys.
ClearedMutant ==
  /\ phase = "clear"
  /\ todo = {}
  /\ phase' = "add"
  /\ todo' = {images[i] : i \in refs}
  /\ UNCHANGED <<storage, list, images, remove, pull, rm, refs, err>>

Cleared ==
  /\ phase = "clear"
  /\ todo = {}
  /\ phase' = "add"
  /\ todo' = refs
  /\ UNCHANGED <<storage, list, images, remove, pull, rm, refs, err>>

\* list.Add reads the image from local storage, and saves the list.
AddImage(i) ==
  /\ phase = "add"
  /\ i \in todo
  /\ \/ Return("list") /\ UNCHANGED <<list, todo>>
     \/ /\ i \in storage[Here]
        /\ list' = list \union {i}
        /\ todo' = todo \ {i}
        /\ UNCHANGED <<phase, err>>
  /\ UNCHANGED <<storage, images, remove, pull, rm, refs>>

Added ==
  /\ phase = "add"
  /\ todo = {}
  /\ Return("none")
  /\ UNCHANGED <<storage, list, images, remove, pull, rm, refs, todo>>

\* The process ends: goroutines vanish, storage and the list stay.
Kill ==
  /\ phase \notin {"idle", "done"}
  /\ Return("killed")
  /\ pull' = [i \in Image |-> IF pull[i] = "running" THEN "failed" ELSE pull[i]]
  /\ rm' = [i \in Image |-> IF rm[i] = "running" THEN "failed" ELSE rm[i]]
  /\ UNCHANGED <<storage, list, images, remove, refs, todo>>

Step ==
  \/ OpenStore
  \/ PullWait
  \/ RmWait
  \/ Inspect
  \/ Cleared
  \/ Added
  \/ \E i \in Image :
       PullToLocal(i) \/ RemoveImage(i) \/ RemoveInstance(i) \/ AddImage(i)

Next ==
  \/ \E b \in Builder, i \in Image : BuildImage(b, i)
  \/ \E built \in ImageMap, removeImages \in BOOLEAN :
       Keys(built) # {} /\ Build(built, removeImages)
  \/ Step
  \/ Kill

Spec == Init /\ [][Next]_vars

FairSpec == Spec /\ WF_vars(Step)

-----------------------------------------------------------------------------
(* Properties. *)

Succeeded == phase = "done" /\ err = "none"

\* Whatever fails, and whenever the process ends, an image that was built is
\* still on its builder or already in local storage: removal from a builder
\* never overtakes the pull of that image, and never hits the only copy.
NoImageLost ==
  \A i \in Keys(images) : i \in storage[Host(images[i])] \union storage[Here]

\* A build that succeeds leaves a list of exactly its own images, whatever an
\* earlier, failed or killed build had left in it, all of them present locally
\* and, if asked for, gone from the remote builders.
ListExact ==
  Succeeded =>
    /\ list = Keys(images)
    /\ list \subseteq storage[Here]
    /\ remove => \A i \in Keys(images) :
         images[i] \notin Local => i \notin storage[images[i]]

\* The list that an earlier build left is not touched before every image that
\* is to replace it is in local storage.
ListReplacedLast ==
  [][list' # list => Keys(images) \subseteq storage[Here]]_vars

\* Build returns.
BuildReturns == phase \notin {"idle", "done"} ~> phase = "done"
=============================================================================
