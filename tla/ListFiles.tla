------------------------------ MODULE ListFiles ------------------------------
(***************************************************************************)
(* listFiles.Build of files.go: save the built images as archives in a     *)
(* temporary directory, in parallel; remove them from the builders, in     *)
(* parallel; list the archives; and copy everything to the output          *)
(* directory, replacing what it holds.  The temporary directory is removed *)
(* by a deferred call however Build ends.                                  *)
(*                                                                         *)
(* The goroutines start while the loop still creates files, so a failure   *)
(* of the loop meets pulls that are already running.                       *)
(***************************************************************************)
EXTENDS Images

VARIABLES
  storage,    \* the images on every host
  tempDir,    \* the temporary directory exists
  archives,   \* the images saved in it
  directory,  \* the images in the output directory
  images,     \* the argument of Build: which builder has built which image
  remove,     \* options.RemoveIntermediateImages
  phase,      \* where Build is
  pull,       \* the goroutines of pullGroup, by image
  rm,         \* the goroutines of rmGroup, by image
  refs,       \* the images pulled so far
  todo,       \* what the loop in progress still has to visit
  err         \* the error returned

vars == <<storage, tempDir, archives, directory, images, remove, phase, pull, rm,
          refs, todo, err>>

Tasks == [Image -> {"none", "running", "ok", "failed"}]

TypeOK ==
  /\ storage \in [Hosts -> SUBSET Image]
  /\ tempDir \in BOOLEAN
  /\ archives \in SUBSET Image
  /\ directory \in SUBSET Image
  /\ images \in ImageMap
  /\ remove \in BOOLEAN
  /\ phase \in {"idle", "open", "pull", "unwind", "rm", "add", "copy", "iidfile", "done"}
  /\ pull \in Tasks
  /\ rm \in Tasks
  /\ refs \in SUBSET Image
  /\ todo \in SUBSET Image
  /\ err \in {"none", "store", "tempfile", "pull", "rm", "list", "copy", "iidfile"}

NoTasks == [i \in Image |-> "none"]

Init ==
  /\ storage = [h \in Hosts |-> {}]
  /\ tempDir = FALSE
  /\ archives = {}
  /\ directory = {}
  /\ images = [i \in Image |-> NoBuilder]
  /\ remove = FALSE
  /\ phase = "idle"
  /\ pull = NoTasks
  /\ rm = NoTasks
  /\ refs = {}
  /\ todo = {}
  /\ err = "none"

-----------------------------------------------------------------------------

\* Build of an image builder leaves the image it built in its host's storage.
BuildImage(b, i) ==
  /\ phase \in {"idle", "done"}
  /\ storage' = [storage EXCEPT ![Host(b)] = @ \union {i}]
  /\ phase' = "idle"
  /\ UNCHANGED <<tempDir, archives, directory, images, remove, pull, rm, refs, todo, err>>

\* The images to be listed have just been built.
Build(built, removeImages) ==
  /\ phase \in {"idle", "done"}
  /\ \A i \in Keys(built) : i \in storage[Host(built[i])]
  /\ images' = built
  /\ remove' = removeImages
  /\ phase' = "open"
  /\ pull' = NoTasks
  /\ rm' = NoTasks
  /\ refs' = {}
  /\ todo' = {}
  /\ err' = "none"
  /\ UNCHANGED <<storage, tempDir, archives, directory>>

\* The first deferred call runs last: os.RemoveAll(tempDir).
Return(error) ==
  /\ phase' = "done"
  /\ err' = error
  /\ tempDir' = FALSE
  /\ archives' = {}

\* Mutant: the loop visits the values of the map, not its keys.
OpenMutant ==
  /\ phase = "open"
  /\ tempDir' = TRUE
  /\ phase' = "pull"
  /\ todo' = {images[i] : i \in Keys(images)}
  /\ UNCHANGED <<storage, archives, directory, images, remove, pull, rm, refs, err>>

\* The policy, the temporary directory, and the output directory.
Open ==
  /\ phase = "open"
  /\ \/ Return("store") /\ UNCHANGED todo
     \/ /\ tempDir' = TRUE
        /\ phase' = "pull"
        /\ todo' = Keys(images)
        /\ UNCHANGED <<archives, err>>
  /\ UNCHANGED <<storage, directory, images, remove, pull, rm, refs>>

\* Mutant: a failure of the loop returns at once.
StartPullMutant(i) ==
  /\ phase = "pull"
  /\ i \in todo
  /\ \/ /\ pull' = [pull EXCEPT ![i] = "running"]
        /\ todo' = todo \ {i}
        /\ UNCHANGED <<phase, err, tempDir, archives>>
     \/ Return("tempfile") /\ UNCHANGED <<pull, todo>>
  /\ UNCHANGED <<storage, directory, images, remove, rm, refs>>

\* One round of the loop: create the file and start the goroutine, or return,
\* which first runs the deferred pullGroup.Wait.
StartPull(i) ==
  /\ phase = "pull"
  /\ i \in todo
  /\ \/ /\ pull' = [pull EXCEPT ![i] = "running"]
        /\ todo' = todo \ {i}
        /\ UNCHANGED <<phase, err>>
     \/ phase' = "unwind" /\ err' = "tempfile" /\ UNCHANGED <<pull, todo>>
  /\ UNCHANGED <<storage, tempDir, archives, directory, images, remove, rm, refs>>

\* The builder saves the image to the file; there is none without the directory.
PullToFile(i) ==
  /\ pull[i] = "running"
  /\ \/ /\ i \in storage[Host(images[i])]
        /\ tempDir
        /\ archives' = archives \union {i}
        /\ refs' = refs \union {i}
        /\ pull' = [pull EXCEPT ![i] = "ok"]
     \/ /\ pull' = [pull EXCEPT ![i] = "failed"]
        /\ UNCHANGED <<archives, refs>>
  /\ UNCHANGED <<storage, tempDir, directory, images, remove, phase, rm, todo, err>>

PullsJoined == \A i \in Image : pull[i] # "running"

Unwind ==
  /\ phase = "unwind"
  /\ PullsJoined
  /\ Return(err)
  /\ UNCHANGED <<storage, directory, images, remove, pull, rm, refs, todo>>

\* Mutant: the error of the pull group is not looked at.
PullWaitMutant ==
  /\ phase = "pull"
  /\ todo = {}
  /\ PullsJoined
  /\ \/ /\ remove
        /\ phase' = "rm"
        /\ rm' = [i \in Image |-> IF i \in Keys(images) THEN "running" ELSE "none"]
        /\ UNCHANGED todo
     \/ /\ ~remove
        /\ phase' = "add"
        /\ todo' = refs
        /\ UNCHANGED rm
  /\ UNCHANGED <<storage, tempDir, archives, directory, images, remove, pull, refs, err>>

\* Here the local builder's images are removed like the others.
PullWait ==
  /\ phase = "pull"
  /\ todo = {}
  /\ PullsJoined
  /\ \/ /\ \E i \in Image : pull[i] = "failed"
        /\ Return("pull")
        /\ UNCHANGED <<rm, todo>>
     \/ /\ \A i \in Image : pull[i] # "failed"
        /\ remove
        /\ phase' = "rm"
        /\ rm' = [i \in Image |-> IF i \in Keys(images) THEN "running" ELSE "none"]
        /\ UNCHANGED <<tempDir, archives, todo, err>>
     \/ /\ \A i \in Image : pull[i] # "failed"
        /\ ~remove
        /\ phase' = "add"
        /\ todo' = refs
        /\ UNCHANGED <<tempDir, archives, rm, err>>
  /\ UNCHANGED <<storage, directory, images, remove, pull, refs>>

\* The engine removes the image or reports why it did not.  A remote engine may have
\* removed it although the call fails.
RemoveImage(i) ==
  /\ rm[i] = "running"
  /\ \/ /\ i \in storage[Host(images[i])]
        /\ storage' = [storage EXCEPT ![Host(images[i])] = @ \ {i}]
        /\ \E result \in {"ok", "failed"} : rm' = [rm EXCEPT ![i] = result]
     \/ /\ rm' = [rm EXCEPT ![i] = "failed"]
        /\ UNCHANGED storage
  /\ UNCHANGED <<tempDir, archives, directory, images, remove, phase, pull, refs, todo, err>>

\* Mutant: the wait is for successful removals only.
RmWaitMutant ==
  /\ phase = "rm"
  /\ \A i \in Keys(images) : rm[i] = "ok"
  /\ phase' = "add"
  /\ todo' = refs
  /\ UNCHANGED <<storage, tempDir, archives, directory, images, remove, pull, rm, refs, err>>

RmWait ==
  /\ phase = "rm"
  /\ \A i \in Image : rm[i] # "running"
  /\ \/ /\ \E i \in Image : rm[i] = "failed"
        /\ Return("rm")
        /\ UNCHANGED todo
     \/ /\ \A i \in Image : rm[i] # "failed"
        /\ phase' = "add"
        /\ todo' = refs
        /\ UNCHANGED <<tempDir, archives, err>>
  /\ UNCHANGED <<storage, directory, images, remove, pull, rm, refs>>

\* list.Add reads the image from its archive; the list is still in memory.
AddImage(i) ==
  /\ phase = "add"
  /\ i \in todo
  /\ \/ Return("list") /\ UNCHANGED todo
     \/ /\ i \in archives
        /\ todo' = todo \ {i}
        /\ UNCHANGED <<phase, err, tempDir, archives>>
  /\ UNCHANGED <<storage, directory, images, remove, pull, rm, refs>>

\* The list is written to the temporary directory.
SaveList ==
  /\ phase = "add"
  /\ todo = {}
  /\ \/ Return("list")
     \/ phase' = "copy" /\ UNCHANGED <<err, tempDir, archives>>
  /\ UNCHANGED <<storage, directory, images, remove, pull, rm, refs, todo>>

\* Mutant: the images are added to those the directory holds.
CopyMutant ==
  /\ phase = "copy"
  /\ phase' = "iidfile"
  /\ directory' = directory \union refs
  /\ UNCHANGED <<storage, tempDir, archives, images, remove, pull, rm, refs, todo, err>>

\* cp.Image empties the output directory and writes the list's manifest last: a
\* failed copy leaves the directory as it was or with no image to be read.
Copy ==
  /\ phase = "copy"
  /\ \/ Return("copy") /\ directory' \in {directory, {}}
     \/ /\ directory' = refs
        /\ phase' = "iidfile"
        /\ UNCHANGED <<err, tempDir, archives>>
  /\ UNCHANGED <<storage, images, remove, pull, rm, refs, todo>>

\* Writing the ID file fails, or there is none to write, or it is written.
WriteIIDFile ==
  /\ phase = "iidfile"
  /\ Return("iidfile") \/ Return("none")
  /\ UNCHANGED <<storage, directory, images, remove, pull, rm, refs, todo>>

Step ==
  \/ Open
  \/ Unwind
  \/ PullWait
  \/ RmWait
  \/ SaveList
  \/ Copy
  \/ WriteIIDFile
  \/ \E i \in Image : StartPull(i) \/ PullToFile(i) \/ RemoveImage(i) \/ AddImage(i)

Next ==
  \/ \E b \in Builder, i \in Image : BuildImage(b, i)
  \/ \E built \in ImageMap, removeImages \in BOOLEAN :
       Keys(built) # {} /\ Build(built, removeImages)
  \/ Step

Spec == Init /\ [][Next]_vars

FairSpec == Spec /\ WF_vars(Step)

-----------------------------------------------------------------------------
(* Properties. *)

Succeeded == phase = "done" /\ err = "none"

\* The temporary directory is never removed under a running pull, although the
\* loop that starts the pulls may fail between two of them: the deferred calls
\* run last in, first out.
NoPullAfterCleanup ==
  \A i \in Image : pull[i] = "running" => tempDir

\* While Build runs, every image that was built exists somewhere: on its
\* builder, in the temporary directory, or in the output directory.
NoImageLostWhileRunning ==
  phase \notin {"idle", "done"} =>
    \A i \in Keys(images) : i \in storage[Host(images[i])] \union archives \union directory

\* A build that succeeds leaves exactly its own images in the output directory
\* and, if asked for, none on the builders; and no build leaves archives behind.
DirectoryExact ==
  /\ Succeeded =>
       /\ directory = Keys(images)
       /\ remove => \A i \in Keys(images) : i \notin storage[Host(images[i])]
  /\ phase = "done" => archives = {}

\* What an earlier build left in the output directory is not touched before
\* every image that is to replace it has been saved.
DirectoryReplacedLast ==
  [][directory' # directory => Keys(images) \subseteq archives]_vars

\* Build returns.
BuildReturns == phase \notin {"idle", "done"} ~> phase = "done"

\* The help of --rm-images: "remove images from builders on success".  What a removal
\* that failed has done is left aside.
RemovedOnlyOnSuccess ==
  phase = "done" /\ err # "none" =>
    \A i \in Keys(images) : rm[i] # "failed" => i \in storage[Host(images[i])]
=============================================================================
