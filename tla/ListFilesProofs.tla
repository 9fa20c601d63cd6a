--------------------------- MODULE ListFilesProofs ---------------------------
(***************************************************************************)
(* Proofs about module ListFiles for any sets of images and builders.      *)
(*                                                                         *)
(* The argument rests on the order of the deferred calls: the wait for the *)
(* pulls comes before the removal of the temporary directory, on every way *)
(* out of Build.  So as long as the directory exists it holds exactly the  *)
(* images pulled so far, which is what everything after the wait, the      *)
(* removals included, may count on.                                        *)
(***************************************************************************)
EXTENDS ListFiles, TLAPS

-----------------------------------------------------------------------------
(* The inductive invariant. *)

\* Between the creation of the temporary directory and the return.
Working == phase \in {"pull", "unwind", "rm", "add", "copy", "iidfile"}

\* The temporary directory exists while Build works, and holds what has been
\* pulled.
TempOK ==
  /\ Working => tempDir /\ archives = refs
  /\ ~Working => archives = {}

\* Pulls run before the wait only; the loop starts one pull for each image; an
\* image has a reference exactly if its pull succeeded.
PullOK ==
  /\ phase = "open" => \A i \in Image : pull[i] = "none"
  /\ phase \notin {"pull", "unwind"} => \A i \in Image : pull[i] # "running"
  /\ phase = "pull" => \A i \in Image : i \in Keys(images) /\ pull[i] = "none" <=> i \in todo
  /\ \A i \in Image :
       /\ pull[i] # "none" => i \in Keys(images)
       /\ i \in refs <=> pull[i] = "ok"

\* After the wait for the pulls there is no image that was not pulled.
Pulled ==
  phase \in {"rm", "add", "copy", "iidfile"} => \A i \in Keys(images) : pull[i] = "ok"

\* Before it every image is still on its builder.
Stored ==
  phase \in {"open", "pull", "unwind"} =>
    \A i \in Keys(images) : i \in storage[Host(images[i])] /\ rm[i] = "none"

\* Removals run in their own phase only, and a removed image is gone from its
\* builder until another is built there.
RmOK ==
  /\ phase # "rm" => \A i \in Image : rm[i] # "running"
  /\ phase = "rm" => \A i \in Keys(images) : rm[i] # "none"
  /\ \A i \in Image :
       /\ rm[i] # "none" => i \in Keys(images)
       /\ rm[i] = "ok" /\ phase # "idle" => i \notin storage[Host(images[i])]

Removed ==
  phase \in {"add", "copy", "iidfile"} /\ remove => \A i \in Keys(images) : rm[i] = "ok"

Copied == phase = "iidfile" => directory = refs

\* The error of the loop is kept while the pulls that it started end.
Unwinding == phase = "unwind" => err # "none"

IInv ==
  /\ TypeOK
  /\ TempOK
  /\ PullOK
  /\ Pulled
  /\ Stored
  /\ RmOK
  /\ Removed
  /\ Copied
  /\ Unwinding
  /\ DirectoryExact

-----------------------------------------------------------------------------
(* Types. *)

\* Every builder's host is a host.
LEMMA HostFacts == \A b \in Builder : Host(b) \in Hosts
  BY StorageAssumption DEF Host, Hosts

\* The keys of a map of images have builders.
LEMMA KeyFacts ==
  ASSUME NEW map \in ImageMap, NEW i \in Image
  PROVE  i \in Keys(map) <=> map[i] \in Builder
  BY StorageAssumption DEF ImageMap, Keys

\* The state before the first call is well typed.
LEMMA InitType == Init => TypeOK
  BY DEF Init, TypeOK, NoTasks, Tasks, ImageMap

\* Every step of listFiles.Build keeps its state well typed.
LEMMA NextType == TypeOK /\ [Next]_vars => TypeOK'
<1> SUFFICES ASSUME TypeOK, [Next]_vars PROVE TypeOK'
  OBVIOUS
<1> USE DEF TypeOK, Tasks
<1>1. ASSUME NEW b \in Builder, NEW i \in Image, BuildImage(b, i) PROVE TypeOK'
  BY <1>1, HostFacts DEF BuildImage
<1>2. ASSUME NEW built \in ImageMap, NEW removeImages \in BOOLEAN, Build(built, removeImages)
      PROVE  TypeOK'
  BY <1>2 DEF Build, NoTasks
<1>3. CASE Open BY <1>3 DEF Open, Return, Keys
<1>4. ASSUME NEW i \in Image, StartPull(i) PROVE TypeOK'
  BY <1>4 DEF StartPull
<1>5. ASSUME NEW i \in Image, PullToFile(i) PROVE TypeOK'
  BY <1>5 DEF PullToFile
<1>6. CASE Unwind BY <1>6 DEF Unwind, Return
<1>7. CASE PullWait BY <1>7 DEF PullWait, Return
<1>8. ASSUME NEW i \in Image, RemoveImage(i) PROVE TypeOK'
  BY <1>8 DEF RemoveImage
<1>9. CASE RmWait BY <1>9 DEF RmWait, Return
<1>10. ASSUME NEW i \in Image, AddImage(i) PROVE TypeOK'
  BY <1>10 DEF AddImage, Return
<1>11. CASE SaveList BY <1>11 DEF SaveList, Return
<1>12. CASE Copy BY <1>12 DEF Copy, Return
<1>13. CASE WriteIIDFile BY <1>13 DEF WriteIIDFile, Return
<1>14. CASE UNCHANGED vars BY <1>14 DEF vars
<1> QED
  BY <1>1, <1>2, <1>3, <1>4, <1>5, <1>6, <1>7, <1>8, <1>9, <1>10, <1>11, <1>12, <1>13, <1>14
  DEF Next, Step

\* The state of the list builder is always well typed: the archives and the
\* output directory hold nothing but images.
THEOREM TypeInvariant == Spec => []TypeOK
<1> QED BY InitType, NextType, PTL DEF Spec

-----------------------------------------------------------------------------
(* The invariant is inductive: one lemma per action. *)

\* Before the first call nothing has been pulled, removed or copied.
LEMMA InitIInv == Init => IInv
  BY InitType
  DEF Init, IInv, TempOK, Working, PullOK, Pulled, Stored, RmOK, Removed, Copied, Unwinding,
      DirectoryExact, Succeeded, Keys, NoTasks

\* A new image on a builder ends the claims about the call before.
LEMMA BuildImageIInv ==
  ASSUME IInv, TypeOK', NEW b \in Builder, NEW i \in Image, BuildImage(b, i)
  PROVE  IInv'
<1> USE DEF IInv, BuildImage
<1>1. TempOK' BY DEF TempOK, Working
<1>2. PullOK' BY DEF PullOK, Keys
<1>3. RmOK' BY DEF RmOK, Keys
<1> QED BY <1>1, <1>2, <1>3
  DEF Pulled, Stored, Removed, Copied, Unwinding, DirectoryExact, Succeeded

\* A call begins with its images on their builders.
LEMMA BuildIInv ==
  ASSUME IInv, TypeOK', NEW built \in ImageMap, NEW removeImages \in BOOLEAN,
         Build(built, removeImages)
  PROVE  IInv'
<1> USE DEF IInv, Build
<1>1. TempOK' BY DEF TempOK, Working
<1>2. PullOK' BY DEF PullOK, NoTasks
<1>3. RmOK' BY DEF RmOK, NoTasks
<1>4. Stored' BY DEF Stored, NoTasks, Keys
<1> QED BY <1>1, <1>2, <1>3, <1>4
  DEF Pulled, Removed, Copied, Unwinding, DirectoryExact, Succeeded

\* However Build returns an error, once the goroutines have ended: the deferred
\* removal of the temporary directory takes the archives.
LEMMA FailIInv ==
  ASSUME IInv, TypeOK', NEW error, error # "none", Return(error), phase # "idle",
         \A i \in Image : pull[i] # "running" /\ rm[i] # "running",
         UNCHANGED <<storage, images, remove, pull, rm, refs>>
  PROVE  IInv'
<1> USE DEF IInv, Return
<1>1. TempOK' BY DEF TempOK, Working
<1>2. PullOK' BY DEF PullOK, Keys
<1>3. RmOK' BY DEF RmOK, Keys
<1> QED BY <1>1, <1>2, <1>3
  DEF Pulled, Stored, Removed, Copied, Unwinding, DirectoryExact, Succeeded

\* The loop has every image to visit, and the directory is empty.
LEMMA OpenIInv ==
  ASSUME IInv, TypeOK', Open
  PROVE  IInv'
<1> USE DEF IInv
<1>1. CASE Return("store")
  BY <1>1, FailIInv DEF Open, PullOK, RmOK
<1>2. CASE phase' = "pull" /\ tempDir' = TRUE /\ todo' = Keys(images) /\ UNCHANGED <<archives, err>>
  <2>1. phase = "open" /\ UNCHANGED <<storage, directory, images, remove, pull, rm, refs>>
    BY DEF Open
  <2>2. refs = {} BY <2>1 DEF PullOK, TypeOK
  <2>3. TempOK' BY <1>2, <2>1, <2>2 DEF TempOK, Working
  <2>4. PullOK' BY <1>2, <2>1 DEF PullOK, Keys
  <2>5. Stored' BY <1>2, <2>1 DEF Stored, Keys
  <2>6. RmOK' BY <1>2, <2>1 DEF RmOK, Keys
  <2> QED BY <1>2, <2>3, <2>4, <2>5, <2>6
    DEF Pulled, Removed, Copied, Unwinding, DirectoryExact, Succeeded
<1> QED BY <1>1, <1>2 DEF Open

\* An image leaves what the loop has to visit as its pull starts; a loop that
\* fails leaves the pulls it has started running.
LEMMA StartPullIInv ==
  ASSUME IInv, TypeOK', NEW i \in Image, StartPull(i)
  PROVE  IInv'
<1> USE DEF IInv
<1>1. /\ phase = "pull"
      /\ i \in todo
      /\ UNCHANGED <<storage, tempDir, archives, directory, images, remove, rm, refs>>
  BY DEF StartPull
<1>2. CASE pull' = [pull EXCEPT ![i] = "running"] /\ todo' = todo \ {i} /\ UNCHANGED <<phase, err>>
  <2>1. i \in Keys(images) /\ pull[i] = "none" BY <1>1 DEF PullOK
  <2>2. pull'[i] = "running" /\ \A j \in Image \ {i} : pull'[j] = pull[j]
    BY <1>2 DEF TypeOK, Tasks
  <2>3. TempOK' BY <1>1, <1>2 DEF TempOK, Working
  <2>4. PullOK' BY <1>1, <1>2, <2>1, <2>2 DEF PullOK, Keys
  <2>5. Stored' BY <1>1, <1>2 DEF Stored, Keys
  <2>6. RmOK' BY <1>1, <1>2 DEF RmOK, Keys
  <2> QED BY <1>1, <1>2, <2>3, <2>4, <2>5, <2>6
    DEF Pulled, Removed, Copied, Unwinding, DirectoryExact, Succeeded
<1>3. CASE phase' = "unwind" /\ err' = "tempfile" /\ UNCHANGED <<pull, todo>>
  <2>1. TempOK' BY <1>1, <1>3 DEF TempOK, Working
  <2>2. PullOK' BY <1>1, <1>3 DEF PullOK, Keys
  <2>3. Stored' BY <1>1, <1>3 DEF Stored, Keys
  <2>4. RmOK' BY <1>1, <1>3 DEF RmOK, Keys
  <2> QED BY <1>1, <1>3, <2>1, <2>2, <2>3, <2>4
    DEF Pulled, Removed, Copied, Unwinding, DirectoryExact, Succeeded
<1> QED BY <1>2, <1>3 DEF StartPull

\* A pull runs before the wait, so the temporary directory is there; the archive
\* and the reference come together.
LEMMA PullToFileIInv ==
  ASSUME IInv, TypeOK', NEW i \in Image, PullToFile(i)
  PROVE  IInv'
<1> USE DEF IInv
<1>1. /\ phase \in {"pull", "unwind"}
      /\ pull[i] = "running"
      /\ UNCHANGED <<storage, tempDir, directory, images, remove, phase, rm, todo, err>>
  BY DEF PullToFile, PullOK
<1>2. /\ pull'[i] \in {"ok", "failed"}
      /\ \A j \in Image \ {i} : pull'[j] = pull[j]
      /\ refs' = refs \union {j \in {i} : pull'[i] = "ok"}
      /\ archives' = archives \union {j \in {i} : pull'[i] = "ok"}
  BY DEF PullToFile, TypeOK, Tasks
<1>3. TempOK' BY <1>1, <1>2 DEF TempOK, Working
<1>4. PullOK' BY <1>1, <1>2 DEF PullOK, Keys
<1>5. Stored' BY <1>1 DEF Stored, Keys
<1>6. RmOK' BY <1>1 DEF RmOK, Keys
<1> QED BY <1>1, <1>3, <1>4, <1>5, <1>6
  DEF Pulled, Removed, Copied, Unwinding, DirectoryExact, Succeeded

\* The deferred wait: only then is the temporary directory removed.
LEMMA UnwindIInv ==
  ASSUME IInv, TypeOK', Unwind
  PROVE  IInv'
  BY FailIInv DEF IInv, Unwind, PullsJoined, RmOK, Unwinding

\* After the wait every image has been pulled, or the call is over.
LEMMA PullWaitIInv ==
  ASSUME IInv, TypeOK', PullWait
  PROVE  IInv'
<1> USE DEF IInv
<1>1. /\ phase = "pull"
      /\ todo = {}
      /\ \A i \in Image : pull[i] # "running"
      /\ UNCHANGED <<storage, directory, images, remove, pull, refs>>
  BY DEF PullWait, PullsJoined
<1>2. CASE Return("pull") /\ UNCHANGED rm
  BY <1>1, <1>2, FailIInv DEF RmOK
<1>3. CASE /\ \A i \in Image : pull[i] # "failed"
           /\ phase' \in {"rm", "add"}
           /\ UNCHANGED <<tempDir, archives, err>>
  <2>1. \A i \in Keys(images) : pull[i] = "ok"
    BY <1>1, <1>3 DEF PullOK, TypeOK, Tasks, Keys
  <2>2. TempOK' BY <1>1, <1>3 DEF TempOK, Working
  <2>3. PullOK' BY <1>1, <1>3 DEF PullOK, Keys
  <2>4. Pulled' BY <1>1, <2>1 DEF Pulled, Keys
  <2>5. RmOK' /\ Removed'
    <3>1. CASE phase' = "rm" /\ rm' = [i \in Image |-> IF i \in Keys(images) THEN "running" ELSE "none"]
      BY <1>1, <3>1 DEF RmOK, Removed, Keys
    <3>2. CASE phase' = "add" /\ ~remove /\ UNCHANGED rm
      BY <1>1, <3>2 DEF RmOK, Removed, Keys
    <3> QED BY <1>1, <1>3, <3>1, <3>2 DEF PullWait, Return
  <2> QED BY <1>3, <2>2, <2>3, <2>4, <2>5 DEF Stored, Copied, Unwinding, DirectoryExact, Succeeded
<1> QED BY <1>2, <1>3 DEF PullWait

\* An image is removed from its builder after it was pulled: its archive stays.
LEMMA RemoveImageIInv ==
  ASSUME IInv, TypeOK', NEW i \in Image, RemoveImage(i)
  PROVE  IInv'
<1> USE DEF IInv
<1>1. /\ phase = "rm"
      /\ i \in Keys(images)
      /\ rm[i] = "running"
      /\ UNCHANGED <<tempDir, archives, directory, images, remove, phase, pull, refs, todo, err>>
  BY DEF RemoveImage, RmOK
<1>2. Host(images[i]) \in Hosts BY <1>1, HostFacts, KeyFacts DEF TypeOK
<1>3. /\ rm'[i] \in {"ok", "failed"}
      /\ \A j \in Image \ {i} : rm'[j] = rm[j]
      /\ rm'[i] = "ok" => i \notin storage'[Host(images[i])]
      /\ \A h \in Hosts : storage'[h] \subseteq storage[h]
  BY <1>2 DEF RemoveImage, TypeOK, Tasks
<1>4. TempOK' BY <1>1 DEF TempOK, Working
<1>5. PullOK' BY <1>1 DEF PullOK, Keys
<1>6. Pulled' BY <1>1 DEF Pulled, Keys
<1>7. RmOK'
  <2>1. ASSUME NEW j \in Image
        PROVE  /\ rm'[j] # "none" => j \in Keys(images)
               /\ rm'[j] = "ok" => j \notin storage'[Host(images[j])]
    <3>1. CASE j = i BY <1>1, <1>3, <3>1
    <3>2. CASE j # i /\ rm[j] # "none"
      <4>1. j \in Keys(images) BY <3>2 DEF RmOK
      <4>2. Host(images[j]) \in Hosts BY <4>1, HostFacts, KeyFacts DEF TypeOK
      <4> QED BY <1>1, <1>3, <3>2, <4>1, <4>2 DEF RmOK
    <3>3. CASE j # i /\ rm[j] = "none" BY <1>3, <3>3
    <3> QED BY <3>1, <3>2, <3>3
  <2> QED BY <1>1, <1>3, <2>1 DEF RmOK, Keys
<1> QED BY <1>1, <1>4, <1>5, <1>6, <1>7
  DEF Stored, Removed, Copied, Unwinding, DirectoryExact, Succeeded

\* After the wait every image that is to be removed is gone from its builder, or
\* the call is over.
LEMMA RmWaitIInv ==
  ASSUME IInv, TypeOK', RmWait
  PROVE  IInv'
<1> USE DEF IInv
<1>1. /\ phase = "rm"
      /\ \A i \in Image : rm[i] # "running"
      /\ UNCHANGED <<storage, directory, images, remove, pull, rm, refs>>
  BY DEF RmWait
<1>2. CASE Return("rm") BY <1>1, <1>2, FailIInv DEF PullOK
<1>3. CASE (\A i \in Image : rm[i] # "failed") /\ phase' = "add" /\ UNCHANGED <<tempDir, archives, err>>
  <2>1. TempOK' BY <1>1, <1>3 DEF TempOK, Working
  <2>2. PullOK' BY <1>1, <1>3 DEF PullOK, Keys
  <2>3. Pulled' BY <1>1, <1>3 DEF Pulled, Keys
  <2>4. RmOK' BY <1>1, <1>3 DEF RmOK, Keys
  <2>5. Removed' BY <1>1, <1>3 DEF RmOK, Removed, Keys, TypeOK, Tasks
  <2> QED BY <1>3, <2>1, <2>2, <2>3, <2>4, <2>5
    DEF Stored, Copied, Unwinding, DirectoryExact, Succeeded
<1> QED BY <1>2, <1>3 DEF RmWait

\* The steps on the list that succeed: none of them touches a host, an image, an
\* archive or a goroutine, and none goes back before the waits.
LEMMA ListStep ==
  ASSUME IInv, TypeOK', phase \in {"add", "copy"}, phase' \in {"add", "copy", "iidfile"},
         UNCHANGED <<storage, tempDir, archives, images, remove, pull, rm, refs, err>>,
         Copied'
  PROVE  IInv'
<1> USE DEF IInv
<1>1. TempOK' BY DEF TempOK, Working
<1>2. PullOK' BY DEF PullOK, Keys
<1>3. Pulled' BY DEF Pulled, Keys
<1>4. RmOK' BY DEF RmOK, Keys
<1>5. Removed' BY DEF Removed, Keys
<1> QED BY <1>1, <1>2, <1>3, <1>4, <1>5 DEF Stored, Unwinding, DirectoryExact, Succeeded

\* The list grows in memory.
LEMMA AddImageIInv ==
  ASSUME IInv, TypeOK', NEW i \in Image, AddImage(i)
  PROVE  IInv'
<1>1. CASE Return("list") BY <1>1, FailIInv DEF IInv, AddImage, PullOK, RmOK
<1>2. CASE UNCHANGED <<phase, err, tempDir, archives>>
  BY <1>2, ListStep DEF AddImage, Copied
<1> QED BY <1>1, <1>2 DEF AddImage

\* The list is saved among the archives.
LEMMA SaveListIInv ==
  ASSUME IInv, TypeOK', SaveList
  PROVE  IInv'
<1>1. CASE Return("list") BY <1>1, FailIInv DEF IInv, SaveList, PullOK, RmOK
<1>2. CASE phase' = "copy" /\ UNCHANGED <<err, tempDir, archives>>
  BY <1>2, ListStep DEF SaveList, Copied
<1> QED BY <1>1, <1>2 DEF SaveList

\* A copy that succeeds replaces the output directory.
LEMMA CopyIInv ==
  ASSUME IInv, TypeOK', Copy
  PROVE  IInv'
<1>1. CASE Return("copy") BY <1>1, FailIInv DEF IInv, Copy, PullOK, RmOK
<1>2. CASE directory' = refs /\ phase' = "iidfile" /\ UNCHANGED <<err, tempDir, archives>>
  BY <1>2, ListStep DEF Copy, Copied
<1> QED BY <1>1, <1>2 DEF Copy

\* Success: the output directory holds what was pulled, which is every image.
LEMMA WriteIIDFileIInv ==
  ASSUME IInv, TypeOK', WriteIIDFile
  PROVE  IInv'
<1> USE DEF IInv
<1>1. /\ phase = "iidfile"
      /\ UNCHANGED <<storage, directory, images, remove, pull, rm, refs, todo>>
  BY DEF WriteIIDFile
<1>2. CASE Return("iidfile") BY <1>1, <1>2, FailIInv DEF PullOK, RmOK
<1>3. CASE Return("none")
  <2>1. directory = Keys(images)
    BY <1>1 DEF Copied, PullOK, Pulled, TypeOK, Keys
  <2>2. remove => \A i \in Keys(images) : i \notin storage[Host(images[i])]
    BY <1>1 DEF Removed, RmOK, Keys
  <2>3. DirectoryExact'
    BY <1>1, <1>3, <2>1, <2>2 DEF DirectoryExact, Return, Keys
  <2>4. TempOK' BY <1>3 DEF TempOK, Working, Return
  <2>5. PullOK' BY <1>1, <1>3 DEF PullOK, Keys, Return
  <2>6. RmOK' BY <1>1, <1>3 DEF RmOK, Keys, Return
  <2> QED BY <1>3, <2>3, <2>4, <2>5, <2>6 DEF Return, Pulled, Stored, Removed, Copied, Unwinding
<1> QED BY <1>2, <1>3 DEF WriteIIDFile

-----------------------------------------------------------------------------
(* The theorems. *)

\* Every step of the specification preserves IInv.
LEMMA NextIInv == IInv /\ [Next]_vars => IInv'
<1> SUFFICES ASSUME IInv, [Next]_vars PROVE IInv'
  OBVIOUS
<1>1. TypeOK' BY NextType DEF IInv
<1>2. CASE UNCHANGED vars
  BY <1>1, <1>2
  DEF vars, IInv, TempOK, Working, PullOK, Pulled, Stored, RmOK, Removed, Copied, Unwinding,
      DirectoryExact, Succeeded, Keys
<1>3. CASE Next
  BY <1>1, <1>3, BuildImageIInv, BuildIInv, OpenIInv, StartPullIInv, PullToFileIInv, UnwindIInv,
     PullWaitIInv, RemoveImageIInv, RmWaitIInv, AddImageIInv, SaveListIInv, CopyIInv,
     WriteIIDFileIInv
  DEF Next, Step
<1> QED BY <1>2, <1>3

\* The inductive invariant holds of every state of listFiles.Build.
THEOREM Invariant == Spec => []IInv
<1> QED BY InitIInv, NextIInv, PTL DEF Spec

\* Whenever the loop fails, the temporary directory outlives every pull that it
\* has started.
THEOREM NoPullRunsAfterCleanup == Spec => []NoPullAfterCleanup
<1>1. IInv => NoPullAfterCleanup
  BY DEF IInv, NoPullAfterCleanup, PullOK, TempOK, Working
<1> QED BY <1>1, Invariant, PTL

\* While Build runs, an image is on its builder or, from its pull on, in the
\* temporary directory, whatever has been removed.
THEOREM NoImageIsLostWhileRunning == Spec => []NoImageLostWhileRunning
<1>1. IInv => NoImageLostWhileRunning
  <2> SUFFICES ASSUME IInv, phase \notin {"idle", "done"}, NEW i \in Keys(images)
               PROVE  i \in storage[Host(images[i])] \union archives \union directory
    BY DEF NoImageLostWhileRunning
  <2>1. CASE phase \in {"open", "pull", "unwind"}
    BY <2>1 DEF IInv, Stored
  <2>2. CASE phase \in {"rm", "add", "copy", "iidfile"}
    BY <2>2 DEF IInv, Pulled, PullOK, TempOK, Working, Keys
  <2> QED BY <2>1, <2>2 DEF IInv, TypeOK
<1> QED BY <1>1, Invariant, PTL

\* A build that succeeds leaves exactly its own images in the output directory,
\* whatever earlier builds left there.
THEOREM DirectoryIsExact == Spec => []DirectoryExact
<1>1. IInv => DirectoryExact BY DEF IInv
<1> QED BY <1>1, Invariant, PTL

\* The output directory is not touched before every image is in the temporary
\* directory.
THEOREM DirectoryIsReplacedLast == Spec => DirectoryReplacedLast
<1>1. IInv /\ [Next]_vars => [directory' # directory => Keys(images) \subseteq archives]_vars
  <2> SUFFICES ASSUME IInv, Next, directory' # directory PROVE Keys(images) \subseteq archives
    BY DEF vars
  <2>1. phase = "copy"
    BY DEF Next, Step, BuildImage, Build, Open, StartPull, PullToFile, Unwind, PullWait,
           RemoveImage, RmWait, AddImage, SaveList, Copy, WriteIIDFile
  <2> QED BY <2>1 DEF IInv, Pulled, PullOK, TempOK, Working, Keys
<1> QED BY <1>1, Invariant, PTL DEF Spec, DirectoryReplacedLast
=============================================================================
