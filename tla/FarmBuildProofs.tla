--------------------------- MODULE FarmBuildProofs ---------------------------
(***************************************************************************)
(* Proofs about module FarmBuild for any farm, any schedule and any        *)
(* images.                                                                 *)
(*                                                                         *)
(* A call of Build makes a new list builder, gives it the images when all  *)
(* builds have succeeded, and then only lets it run.  So the inductive     *)
(* invariant of the list builder that was chosen holds throughout, proved  *)
(* in its own module; what is left to show is that the images it is given  *)
(* are those of the targets, one each if the builders are native.          *)
(***************************************************************************)
EXTENDS FarmBuild, TLAPS

LP == INSTANCE ListLocalProofs

FP == INSTANCE ListFilesProofs

-----------------------------------------------------------------------------
(* The inductive invariant. *)

\* The list builder of the call is in a state of its own specification, and
\* the directory's archives are gone unless it is working on them.
ListOK ==
  /\ IF dest = "local" THEN LP!IInv ELSE FP!IInv
  /\ list \in SUBSET Image
  /\ directory \in SUBSET Image
  /\ tempDir \in BOOLEAN
  /\ dest = "local" \/ stage # "list" => archives = {}

\* The goroutines of the builds: one for each target, until the wait.
BuildOK ==
  /\ stage # "build" => \A p \in Platform : build[p] # "running"
  /\ stage \in {"build", "list"} \/ Succeeded =>
       /\ dest # "none"
       /\ jobs \in storedJobs(schedule)
       /\ \A p \in Platform : build[p] # "none" <=> p \in Targets

\* What a goroutine that succeeded has left.
ResultOK ==
  \A p \in Platform :
    /\ result[p] # NoImage <=> build[p] = "ok"
    /\ build[p] = "ok" =>
         /\ p \in Targets
         /\ PlatformOf[result[p]] = nativePlatform[schedule[p]]
         /\ asked[p] = jobs[schedule[p]]

\* After the wait every target has its image, and the list builder has them all.
Built ==
  stage = "list" \/ Succeeded =>
    /\ \A p \in Targets : build[p] = "ok"
    /\ images \in perArchBuilds
    /\ remove = removeImages

\* A list builder that has returned no error has succeeded.
Returned ==
  Succeeded => phase = "done" /\ err = "none"

IInv ==
  /\ TypeOK
  /\ ListOK
  /\ BuildOK
  /\ ResultOK
  /\ Built
  /\ Returned

-----------------------------------------------------------------------------
(* The list builders of FarmBuild are those of the proofs. *)

\* The steps of the two instances of ListLocal are the same.
LEMMA LocalSame ==
  /\ L!TypeOK <=> LP!TypeOK
  /\ \A b, i : L!BuildImage(b, i) <=> LP!BuildImage(b, i)
  /\ \A built, r : L!Build(built, r) <=> LP!Build(built, r)
  /\ L!Step => LP!Next
<1>1. L!TypeOK <=> LP!TypeOK
  BY DEF L!TypeOK, LP!TypeOK, L!Hosts, LP!Hosts, L!ImageMap, LP!ImageMap, L!Tasks, LP!Tasks
<1>2. /\ \A b, i : L!BuildImage(b, i) <=> LP!BuildImage(b, i)
      /\ \A built, r : L!Build(built, r) <=> LP!Build(built, r)
  BY DEF L!BuildImage, LP!BuildImage, L!Build, LP!Build, L!Host, LP!Host, L!Keys, LP!Keys,
         L!NoTasks, LP!NoTasks
<1>3. /\ L!OpenStore => LP!OpenStore
      /\ \A i : L!PullToLocal(i) => LP!PullToLocal(i)
      /\ L!PullWait => LP!PullWait
      /\ \A i : L!RemoveImage(i) => LP!RemoveImage(i)
      /\ L!RmWait => LP!RmWait
  BY DEF L!OpenStore, LP!OpenStore, L!PullToLocal, LP!PullToLocal, L!PullWait, LP!PullWait,
         L!RemoveImage, LP!RemoveImage, L!RmWait, LP!RmWait, L!Return, LP!Return, L!Host, LP!Host,
         L!Keys, LP!Keys, L!localPull, LP!localPull, L!remotePull, LP!remotePull,
         L!PullsJoined, LP!PullsJoined, L!Removable, LP!Removable
<1>4. /\ L!Inspect => LP!Inspect
      /\ \A i : L!RemoveInstance(i) => LP!RemoveInstance(i)
      /\ L!Cleared => LP!Cleared
      /\ \A i : L!AddImage(i) => LP!AddImage(i)
      /\ L!Added => LP!Added
  BY DEF L!Inspect, LP!Inspect, L!RemoveInstance, LP!RemoveInstance, L!Cleared, LP!Cleared,
         L!AddImage, LP!AddImage, L!Added, LP!Added, L!Return, LP!Return
<1>5. L!Step => LP!Step BY <1>3, <1>4 DEF L!Step, LP!Step
<1> QED BY <1>1, <1>2, <1>5 DEF LP!Next

\* The steps of the two instances of ListFiles are the same.
LEMMA FilesSame ==
  /\ F!TypeOK <=> FP!TypeOK
  /\ F!Init <=> FP!Init
  /\ \A b, i : F!BuildImage(b, i) <=> FP!BuildImage(b, i)
  /\ \A built, r : F!Build(built, r) <=> FP!Build(built, r)
  /\ F!Step => FP!Next
<1>1. /\ F!TypeOK <=> FP!TypeOK
      /\ F!Init <=> FP!Init
  BY DEF F!TypeOK, FP!TypeOK, F!Hosts, FP!Hosts, F!ImageMap, FP!ImageMap, F!Tasks, FP!Tasks,
         F!Init, FP!Init, F!NoTasks, FP!NoTasks
<1>2. /\ \A b, i : F!BuildImage(b, i) <=> FP!BuildImage(b, i)
      /\ \A built, r : F!Build(built, r) <=> FP!Build(built, r)
  BY DEF F!BuildImage, FP!BuildImage, F!Build, FP!Build, F!Host, FP!Host, F!Keys, FP!Keys,
         F!NoTasks, FP!NoTasks
<1>3. /\ F!Open => FP!Open
      /\ \A i : F!StartPull(i) => FP!StartPull(i)
      /\ \A i : F!PullToFile(i) => FP!PullToFile(i)
      /\ F!Unwind => FP!Unwind
      /\ F!PullWait => FP!PullWait
  BY DEF F!Open, FP!Open, F!StartPull, FP!StartPull, F!PullToFile, FP!PullToFile, F!Unwind,
         FP!Unwind, F!PullWait, FP!PullWait, F!Return, FP!Return, F!Host, FP!Host, F!Keys, FP!Keys,
         F!PullsJoined, FP!PullsJoined
<1>4. /\ \A i : F!RemoveImage(i) => FP!RemoveImage(i)
      /\ F!RmWait => FP!RmWait
      /\ \A i : F!AddImage(i) => FP!AddImage(i)
      /\ F!SaveList => FP!SaveList
      /\ F!Copy => FP!Copy
      /\ F!WriteIIDFile => FP!WriteIIDFile
  BY DEF F!RemoveImage, FP!RemoveImage, F!RmWait, FP!RmWait, F!AddImage, FP!AddImage, F!SaveList,
         FP!SaveList, F!Copy, FP!Copy, F!WriteIIDFile, FP!WriteIIDFile, F!Return, FP!Return,
         F!Host, FP!Host
<1>5. F!Step => FP!Step BY <1>3, <1>4 DEF F!Step, FP!Step
<1> QED BY <1>1, <1>2, <1>5 DEF FP!Next

-----------------------------------------------------------------------------
(* What the list builders keep. *)

\* What the proofs about the list builders assume of the builders and hosts.
LEMMA Storage == NoBuilder \notin Builder /\ Local \subseteq Builder /\ Here \notin Builder
  BY BuilderAssumption, ImageAssumption

\* A step of the list builder for local storage, or none, keeps its invariant.
LEMMA LocalKept ==
  ASSUME LP!IInv, LP!Next \/ UNCHANGED LP!vars
  PROVE  LP!IInv'
  BY LP!NextIInv, Storage

\* The same for the one for directories.
LEMMA FilesKept ==
  ASSUME FP!IInv, FP!Next \/ UNCHANGED FP!vars
  PROVE  FP!IInv'
  BY FP!NextIInv, Storage

\* The hosts are the same to both.
LEMMA HostsSame ==
  /\ LP!IInv => storage \in [L!Hosts -> SUBSET Image]
  /\ FP!IInv => storage \in [L!Hosts -> SUBSET Image]
<1>1. LP!Hosts = L!Hosts /\ FP!Hosts = L!Hosts
  BY DEF LP!Hosts, FP!Hosts, L!Hosts
<1> QED BY <1>1 DEF LP!IInv, LP!TypeOK, FP!IInv, FP!TypeOK

\* A new list builder, of either kind, satisfies its invariant, whatever storage,
\* the list and the directory hold.
LEMMA NewListBuilder ==
  ASSUME ListOK, stage # "list", newListBuilder,
         UNCHANGED <<storage, list, tempDir, archives, directory>>
  PROVE  LP!IInv' /\ FP!IInv'
<1>1. /\ storage' \in [L!Hosts -> SUBSET Image]
      /\ list' \in SUBSET Image
      /\ directory' \in SUBSET Image
      /\ tempDir' \in BOOLEAN
      /\ archives' = {}
  BY HostsSame DEF ListOK
<1>2. /\ images' = [i \in Image |-> NoBuilder]
      /\ remove' = FALSE
      /\ phase' = "idle"
      /\ pull' = [i \in Image |-> "none"]
      /\ rm' = [i \in Image |-> "none"]
      /\ refs' = {}
      /\ todo' = {}
      /\ err' = "none"
  BY DEF newListBuilder, L!NoTasks
<1>3. LP!TypeOK'
  BY <1>1, <1>2 DEF LP!TypeOK, LP!Hosts, L!Hosts, LP!ImageMap, LP!Tasks
<1>4. FP!TypeOK'
  BY <1>1, <1>2 DEF FP!TypeOK, FP!Hosts, L!Hosts, FP!ImageMap, FP!Tasks
<1>5. LP!IInv'
  BY <1>2, <1>3
  DEF LP!IInv, LP!PullOK, LP!Pulled, LP!RmOK, LP!Removed, LP!ListOK, LP!NoImageLost, LP!ListExact,
      LP!Succeeded, LP!Keys
<1>6. FP!IInv'
  BY <1>1, <1>2, <1>4
  DEF FP!IInv, FP!TempOK, FP!Working, FP!PullOK, FP!Pulled, FP!Stored, FP!RmOK, FP!Removed,
      FP!Copied, FP!Unwinding, FP!DirectoryExact, FP!Succeeded, FP!Keys
<1> QED BY <1>5, <1>6

\* A list builder that is given images begins its own Build.
LEMMA StartListKept ==
  ASSUME ListOK, TypeOK, StartList
  PROVE  /\ dest = "local" => LP!IInv' /\ UNCHANGED <<list, tempDir, archives, directory>>
         /\ dest # "local" => FP!IInv' /\ UNCHANGED <<list, tempDir, archives, directory>>
         /\ images' \in perArchBuilds
         /\ remove' = removeImages
<1>1. PICK built \in perArchBuilds :
        \/ dest = "local" /\ L!Build(built, removeImages) /\ UNCHANGED <<tempDir, archives, directory>>
        \/ dest = "files" /\ F!Build(built, removeImages) /\ UNCHANGED list
  BY DEF StartList
<1>2. built \in LP!ImageMap /\ built \in FP!ImageMap /\ removeImages \in BOOLEAN
  BY DEF perArchBuilds, L!ImageMap, LP!ImageMap, FP!ImageMap, TypeOK
<1>3. CASE dest = "local" /\ L!Build(built, removeImages) /\ UNCHANGED <<tempDir, archives, directory>>
  <2>1. LP!Build(built, removeImages) BY <1>3, LocalSame
  <2>2. LP!IInv BY <1>3 DEF ListOK
  <2>3. LP!TypeOK'
    BY <1>2, <2>1, <2>2 DEF LP!IInv, LP!TypeOK, LP!Build, LP!NoTasks, LP!Tasks
  <2>4. LP!IInv' BY <1>2, <2>1, <2>2, <2>3, LP!BuildIInv, Storage
  <2> QED BY <1>1, <1>3, <2>1, <2>4 DEF LP!Build
<1>4. CASE dest = "files" /\ F!Build(built, removeImages) /\ UNCHANGED list
  <2>1. FP!Build(built, removeImages) BY <1>4, FilesSame
  <2>2. FP!IInv BY <1>4 DEF ListOK
  <2>3. FP!TypeOK'
    BY <1>2, <2>1, <2>2 DEF FP!IInv, FP!TypeOK, FP!Build, FP!NoTasks, FP!Tasks
  <2>4. FP!IInv' BY <1>2, <2>1, <2>2, <2>3, FP!BuildIInv, Storage
  <2> QED BY <1>1, <1>4, <2>1, <2>4 DEF FP!Build
<1> QED BY <1>1, <1>3, <1>4

\* A list builder's own steps leave what it was given alone.
LEMMA StepKeepsImages ==
  /\ L!Step => UNCHANGED <<images, remove>>
  /\ F!Step => UNCHANGED <<images, remove>>
<1>1. L!Step => UNCHANGED <<images, remove>>
  BY DEF L!Step, L!OpenStore, L!PullToLocal, L!PullWait, L!RemoveImage, L!RmWait, L!Inspect,
         L!RemoveInstance, L!Cleared, L!AddImage, L!Added
<1>2. F!Step => UNCHANGED <<images, remove>>
  BY DEF F!Step, F!Open, F!StartPull, F!PullToFile, F!Unwind, F!PullWait, F!RemoveImage, F!RmWait,
         F!AddImage, F!SaveList, F!Copy, F!WriteIIDFile
<1> QED BY <1>1, <1>2

\* The list builder's part of the types, before and after a step.
LEMMA ListTypes ==
  /\ ListOK => IF dest = "local" THEN L!TypeOK ELSE F!TypeOK
  /\ ListOK' => (IF dest = "local" THEN L!TypeOK ELSE F!TypeOK)'
<1> USE DEF ListOK, LP!IInv, FP!IInv
<1>1. /\ LP!TypeOK => L!TypeOK
      /\ LP!TypeOK' => L!TypeOK'
  BY DEF L!TypeOK, LP!TypeOK, L!Hosts, LP!Hosts, L!ImageMap, LP!ImageMap, L!Tasks, LP!Tasks
<1>2. /\ FP!TypeOK => F!TypeOK
      /\ FP!TypeOK' => F!TypeOK'
  BY DEF F!TypeOK, FP!TypeOK, F!Hosts, FP!Hosts, F!ImageMap, FP!ImageMap, F!Tasks, FP!Tasks
<1> QED BY <1>1, <1>2

-----------------------------------------------------------------------------
(* The invariant is inductive: one lemma per action. *)

\* Before the first call there is nothing to build or to list.
LEMMA InitIInv == Init => IInv
<1> SUFFICES ASSUME Init PROVE IInv
  OBVIOUS
<1>1. FP!IInv BY FilesSame, FP!InitIInv, Storage DEF Init
<1>2. ListOK
  <2>1. list = {} /\ directory = {} /\ tempDir = FALSE /\ archives = {}
    BY DEF Init, L!Init, F!Init
  <2> QED BY <1>1, <2>1 DEF Init, ListOK
<1>3. TypeOK
  BY <1>2, ListTypes DEF Init, TypeOK, ListOK, BuilderMap, EmptyMap
<1>4. BuildOK /\ Built /\ Returned BY DEF Init, BuildOK, Built, Returned, Succeeded
<1>5. ResultOK BY DEF Init, ResultOK
<1> QED BY <1>2, <1>3, <1>4, <1>5 DEF IInv

\* A call begins with a goroutine for each target, or ends at once.
LEMMA BuildIInv ==
  ASSUME IInv, NEW pb \in BuilderMap, NEW ref \in {"dir", "name"}, NEW removes \in BOOLEAN,
         NEW format, NEW iidFile \in BOOLEAN, Build(pb, ref, removes, format, iidFile)
  PROVE  IInv'
<1> USE DEF IInv
<1>1. /\ stage \in {"idle", "done"}
      /\ schedule' = pb
      /\ reference' = ref
      /\ removeImages' = removes
      /\ asked' = [p \in Platform |-> NoPlatform]
      /\ result' = [p \in Platform |-> NoImage]
      /\ newListBuilder
      /\ UNCHANGED <<nativePlatform, emulatedPlatforms, storeOptions>>
      /\ UNCHANGED <<storage, list, tempDir, archives, directory>>
  BY DEF Build, farmVars
<1>2. \/ /\ stage' = "done" /\ outcome' \in {"format", "prepare"}
         /\ build' = [p \in Platform |-> "none"]
         /\ dest' \in {"none", "local", "files"}
         /\ jobs' \in [Builder -> Platform \union {NoPlatform}]
      \/ /\ stage' = "build" /\ outcome' = "none"
         /\ build' = [p \in Platform |-> IF pb[p] = NoBuilder THEN "none" ELSE "running"]
         /\ dest' \in {"local", "files"}
         /\ jobs' \in storedJobs(pb)
  <2>1. chooseListBuilder(ref) \in {"local", "files"} BY DEF chooseListBuilder
  <2>2. storedJobs(pb) \subseteq [Builder -> Platform \union {NoPlatform}] BY DEF storedJobs
  <2> QED BY <2>1, <2>2 DEF Build
<1>3. storedJobs(pb) \subseteq [Builder -> Platform \union {NoPlatform}] BY DEF storedJobs
<1>4. ListOK'
  <2>1. LP!IInv' /\ FP!IInv' BY <1>1, NewListBuilder
  <2>2. archives' = {} BY <1>1 DEF ListOK
  <2> QED BY <1>1, <2>1, <2>2 DEF ListOK
<1>5. TypeOK'
  <2>1. (IF dest = "local" THEN L!TypeOK ELSE F!TypeOK)' BY <1>4, ListTypes
  <2>2. /\ build' \in [Platform -> {"none", "running", "ok", "failed"}]
        /\ jobs' \in [Builder -> Platform \union {NoPlatform}]
        /\ dest' \in {"none", "local", "files"}
        /\ stage' \in {"idle", "build", "list", "done"}
        /\ outcome' \in {"none", "format", "prepare", "build", "list"}
    BY <1>2, <1>3
  <2> QED BY <1>1, <1>4, <2>1, <2>2 DEF TypeOK, ListOK
<1>6. BuildOK'
  <2>1. storedJobs(schedule)' = storedJobs(pb) BY <1>1 DEF storedJobs
  <2>2. Targets' = {p \in Platform : pb[p] # NoBuilder} BY <1>1 DEF Targets
  <2> QED BY <1>2, <2>1, <2>2 DEF BuildOK, Succeeded
<1>7. ResultOK' BY <1>1, <1>2 DEF ResultOK
<1>8. Built' /\ Returned' BY <1>2 DEF Built, Returned, Succeeded
<1> QED BY <1>4, <1>5, <1>6, <1>7, <1>8

\* A goroutine that runs is that of a target, before the wait.
LEMMA RunningBuild ==
  ASSUME IInv, NEW p \in Platform, build[p] = "running"
  PROVE  stage = "build" /\ p \in Targets /\ schedule[p] \in Builder
  BY DEF IInv, BuildOK, Targets, TypeOK, BuilderMap

\* A goroutine ends with an image of its builder's platform, or without one.
LEMMA BuildOnEffect ==
  ASSUME IInv, NEW p \in Platform, BuildOn(p)
  PROVE  /\ ListOK'
         /\ result' \in [Platform -> Image \union {NoImage}]
         /\ build' \in [Platform -> {"none", "running", "ok", "failed"}]
         /\ \A q \in Platform \ {p} : build'[q] = build[q] /\ result'[q] = result[q]
         /\ \/ build'[p] = "failed" /\ result'[p] = NoImage
            \/ /\ build'[p] = "ok"
               /\ result'[p] # NoImage
               /\ PlatformOf[result'[p]] = nativePlatform[schedule[p]]
<1> USE DEF IInv
<1>1. build[p] = "running" /\ schedule[p] \in Builder /\ UNCHANGED <<stage, dest>>
  BY RunningBuild DEF BuildOn
<1>2. CASE build' = [build EXCEPT ![p] = "failed"] /\ UNCHANGED <<result, listVars>>
  <2>1. UNCHANGED LP!vars /\ UNCHANGED FP!vars
    BY <1>2 DEF listVars, LP!vars, FP!vars
  <2>2. ListOK'
    BY <1>1, <1>2, <2>1, LocalKept, FilesKept DEF ListOK, listVars
  <2> QED BY <1>1, <1>2, <2>2 DEF TypeOK, ResultOK
<1>3. CASE \E i \in Image :
             /\ PlatformOf[i] = podmanBuildPlatform(schedule[p])
             /\ L!BuildImage(schedule[p], i)
             /\ UNCHANGED <<tempDir, archives, directory>>
             /\ result' = [result EXCEPT ![p] = i]
             /\ build' = [build EXCEPT ![p] = "ok"]
  <2>1. PICK i \in Image :
          /\ PlatformOf[i] = podmanBuildPlatform(schedule[p])
          /\ L!BuildImage(schedule[p], i)
          /\ UNCHANGED <<tempDir, archives, directory>>
          /\ result' = [result EXCEPT ![p] = i]
          /\ build' = [build EXCEPT ![p] = "ok"]
    BY <1>3
  <2>2. LP!BuildImage(schedule[p], i) BY <2>1, LocalSame
  <2>3. UNCHANGED list BY <2>2 DEF LP!BuildImage
  <2>4. FP!BuildImage(schedule[p], i)
    BY <2>1, <2>2 DEF LP!BuildImage, FP!BuildImage, LP!Host, FP!Host
  <2>5. ListOK'
    BY <1>1, <2>1, <2>2, <2>3, <2>4, LocalKept, FilesKept DEF ListOK, LP!Next, FP!Next
  <2> QED BY <1>1, <2>1, <2>5, ImageAssumption DEF TypeOK, podmanBuildPlatform
<1> QED BY <1>2, <1>3 DEF BuildOn

\* The other goroutines' images stay, and the wait is still to come.
LEMMA BuildOnIInv ==
  ASSUME IInv, NEW p \in Platform, BuildOn(p)
  PROVE  IInv'
<1> USE DEF IInv
<1>1. /\ stage = "build"
      /\ build[p] = "running"
      /\ p \in Targets
      /\ UNCHANGED <<nativePlatform, emulatedPlatforms, storeOptions, stage, schedule, reference,
                     removeImages, dest, jobs, outcome>>
  BY RunningBuild DEF BuildOn, farmVars
<1>2. /\ asked' \in [Platform -> Platform \union {NoPlatform}]
      /\ asked'[p] = jobs[schedule[p]]
      /\ \A q \in Platform \ {p} : asked'[q] = asked[q]
  BY RunningBuild DEF BuildOn, TypeOK
<1>3. TypeOK'
  <2>1. ListOK' BY BuildOnEffect
  <2>2. (IF dest = "local" THEN L!TypeOK ELSE F!TypeOK)' BY <2>1, ListTypes
  <2> QED BY <1>1, <1>2, <2>1, <2>2, BuildOnEffect DEF TypeOK, ListOK
<1>4. Targets' = Targets /\ storedJobs(schedule)' = storedJobs(schedule)
  BY <1>1 DEF Targets, storedJobs
<1>5. BuildOK' BY <1>1, <1>4, BuildOnEffect DEF BuildOK, Succeeded
<1>6. ResultOK' BY <1>1, <1>2, <1>4, BuildOnEffect DEF ResultOK
<1>7. Built' /\ Returned' BY <1>1 DEF Built, Returned, Succeeded
<1> QED BY <1>3, <1>5, <1>6, <1>7, BuildOnEffect

\* What the steps after the builds have in common: the call's own state stays, but
\* for where it is and its outcome.
LEMMA CallKept ==
  ASSUME IInv, ListOK',
         UNCHANGED <<farmVars, schedule, reference, removeImages, dest, jobs, build, asked, result>>,
         stage' \in {"list", "done"},
         outcome' \in {"none", "format", "prepare", "build", "list"},
         \A p \in Platform : build[p] # "running",
         stage \in {"build", "list"}
  PROVE  TypeOK' /\ BuildOK' /\ ResultOK'
<1> USE DEF IInv, farmVars
<1>1. TypeOK'
  <2>1. (IF dest = "local" THEN L!TypeOK ELSE F!TypeOK)' BY ListTypes
  <2> QED BY <2>1 DEF TypeOK, ListOK
<1>2. Targets' = Targets /\ storedJobs(schedule)' = storedJobs(schedule)
  BY DEF Targets, storedJobs
<1>3. BuildOK' BY <1>2 DEF BuildOK, Succeeded
<1>4. ResultOK' BY <1>2 DEF ResultOK
<1> QED BY <1>1, <1>3, <1>4

\* The list builder is started when every target has its image, or the call ends.
LEMMA BuildWaitIInv ==
  ASSUME IInv, BuildWait
  PROVE  IInv'
<1> USE DEF IInv
<1>1. /\ stage = "build"
      /\ \A p \in Platform : build[p] # "running"
      /\ UNCHANGED <<farmVars, schedule, reference, removeImages, dest, jobs, build, asked, result>>
  BY DEF BuildWait
<1>2. CASE stage' = "done" /\ outcome' = "build" /\ UNCHANGED listVars
  <2>1. UNCHANGED LP!vars /\ UNCHANGED FP!vars
    BY <1>2 DEF listVars, LP!vars, FP!vars
  <2>2. ListOK' BY <1>1, <1>2, <2>1, LocalKept, FilesKept DEF ListOK, listVars
  <2>3. Built' /\ Returned' BY <1>2 DEF Built, Returned, Succeeded
  <2> QED BY <1>1, <1>2, <2>2, <2>3, CallKept
<1>3. CASE /\ \A p \in Platform : build[p] # "failed"
           /\ stage' = "list"
           /\ StartList
           /\ UNCHANGED outcome
  <2>1. ListOK' BY <1>1, <1>3, StartListKept DEF ListOK
  <2>2. \A p \in Targets : build[p] = "ok"
    BY <1>1, <1>3 DEF BuildOK, Targets, TypeOK
  <2>3. Built'
    <3>1. Targets' = Targets /\ perArchBuilds' = perArchBuilds
      BY <1>1 DEF Targets, perArchBuilds
    <3> QED BY <1>1, <1>3, <2>2, <3>1, StartListKept DEF Built
  <2>4. outcome' \in {"none", "format", "prepare", "build", "list"} BY <1>3 DEF TypeOK
  <2> QED BY <1>1, <1>3, <2>1, <2>3, <2>4, CallKept DEF Returned, Succeeded
<1> QED BY <1>2, <1>3 DEF BuildWait

\* The list builder's own steps.
LEMMA ListStepIInv ==
  ASSUME IInv, ListStep
  PROVE  IInv'
<1> USE DEF IInv
<1>1. /\ stage = "list"
      /\ UNCHANGED <<farmVars, callVars>>
      /\ \A p \in Platform : build[p] # "running"
  BY DEF ListStep, BuildOK
<1>2. ListOK' /\ UNCHANGED <<images, remove>>
  <2>1. CASE dest = "local" /\ L!Step /\ UNCHANGED <<tempDir, archives, directory>>
    <3>1. LP!IInv' BY <2>1, LocalSame, LocalKept DEF ListOK
    <3>2. list' \in SUBSET Image BY <3>1 DEF LP!IInv, LP!TypeOK
    <3> QED BY <1>1, <2>1, <3>1, <3>2, StepKeepsImages DEF ListOK, callVars
  <2>2. CASE dest = "files" /\ F!Step /\ UNCHANGED list
    <3>1. FP!IInv' BY <2>2, FilesSame, FilesKept DEF ListOK
    <3>2. directory' \in SUBSET Image /\ tempDir' \in BOOLEAN
      BY <3>1 DEF FP!IInv, FP!TypeOK
    <3> QED BY <1>1, <2>2, <3>1, <3>2, StepKeepsImages DEF ListOK, callVars
  <2> QED BY <2>1, <2>2 DEF ListStep
<1>3. Built'
  <2>1. Targets' = Targets /\ perArchBuilds' = perArchBuilds
    BY <1>1 DEF callVars, Targets, perArchBuilds
  <2> QED BY <1>1, <1>2, <2>1 DEF Built, callVars
<1>4. TypeOK' /\ BuildOK' /\ ResultOK'
  <2>1. TypeOK'
    <3>1. (IF dest = "local" THEN L!TypeOK ELSE F!TypeOK)' BY <1>2, ListTypes
    <3> QED BY <1>1, <1>2, <3>1 DEF TypeOK, ListOK, callVars, farmVars
  <2>2. Targets' = Targets /\ storedJobs(schedule)' = storedJobs(schedule)
    BY <1>1 DEF callVars, Targets, storedJobs
  <2>3. BuildOK' BY <1>1, <2>2 DEF BuildOK, callVars, Succeeded
  <2>4. ResultOK' BY <1>1, <2>2 DEF ResultOK, callVars, farmVars
  <2> QED BY <2>1, <2>3, <2>4
<1> QED BY <1>1, <1>2, <1>3, <1>4 DEF Returned, Succeeded, callVars

\* Build returns when its list builder has, with its error.
LEMMA ReturnIInv ==
  ASSUME IInv, Return
  PROVE  IInv'
<1> USE DEF IInv
<1>1. /\ stage = "list"
      /\ phase = "done"
      /\ stage' = "done"
      /\ outcome' = IF err = "none" THEN "none" ELSE "list"
      /\ UNCHANGED <<farmVars, schedule, reference, removeImages, dest, jobs, build, asked, result>>
      /\ UNCHANGED listVars
      /\ \A p \in Platform : build[p] # "running"
  BY DEF Return, BuildOK
<1>2. ListOK'
  <2>1. UNCHANGED LP!vars /\ UNCHANGED FP!vars
    BY <1>1 DEF listVars, LP!vars, FP!vars
  <2>2. archives = {}
    BY <1>1 DEF ListOK, FP!IInv, FP!TempOK, FP!Working
  <2> QED BY <1>1, <2>1, <2>2, LocalKept, FilesKept DEF ListOK, listVars
<1>3. Built'
  <2>1. Targets' = Targets /\ perArchBuilds' = perArchBuilds
    BY <1>1 DEF Targets, perArchBuilds
  <2> QED BY <1>1, <2>1 DEF Built, listVars
<1>4. Returned' BY <1>1 DEF Returned, Succeeded, listVars
<1> QED BY <1>1, <1>2, <1>3, <1>4, CallKept

-----------------------------------------------------------------------------
(* The theorems. *)

\* Every step of the specification preserves IInv.
LEMMA NextIInv == IInv /\ [Next]_vars => IInv'
<1> SUFFICES ASSUME IInv, [Next]_vars PROVE IInv'
  OBVIOUS
<1>1. CASE UNCHANGED vars
  <2>1. UNCHANGED LP!vars /\ UNCHANGED FP!vars /\ UNCHANGED <<farmVars, callVars, listVars>>
    BY <1>1 DEF vars, listVars, LP!vars, FP!vars
  <2>2. ListOK'
    BY <2>1, LocalKept, FilesKept DEF IInv, ListOK, listVars, callVars
  <2>3. (IF dest = "local" THEN L!TypeOK ELSE F!TypeOK)' BY <2>2, ListTypes
  <2>4. TypeOK' BY <2>1, <2>2, <2>3 DEF IInv, TypeOK, ListOK, farmVars, callVars
  <2>5. /\ Targets' = Targets
        /\ storedJobs(schedule)' = storedJobs(schedule)
        /\ perArchBuilds' = perArchBuilds
    BY <2>1 DEF callVars, Targets, storedJobs, perArchBuilds
  <2>6. BuildOK' /\ Built' /\ Returned'
    BY <2>1, <2>5 DEF IInv, BuildOK, Built, Returned, Succeeded, callVars, listVars
  <2>7. ResultOK' BY <2>1, <2>5 DEF IInv, ResultOK, callVars, farmVars
  <2> QED BY <2>2, <2>4, <2>6, <2>7 DEF IInv
<1>2. CASE Next
  BY <1>2, BuildIInv, BuildOnIInv, BuildWaitIInv, ListStepIInv, ReturnIInv DEF Next, Continue
<1> QED BY <1>1, <1>2

\* The inductive invariant holds of every state of Farm.Build.
THEOREM Invariant == Spec => []IInv
<1> QED BY InitIInv, NextIInv, PTL DEF Spec

\* The state of Build and of the list builder it has chosen is always well typed.
THEOREM TypeInvariant == Spec => []TypeOK
<1>1. IInv => TypeOK BY DEF IInv
<1> QED BY <1>1, Invariant, PTL

\* After success the list, or the directory, holds exactly the targets' images.
LEMMA FinalImages ==
  ASSUME IInv, Succeeded
  PROVE  /\ Final = {result[p] : p \in Targets}
         /\ \A p \in Targets : result[p] \in Image /\ build[p] = "ok"
         /\ \A i \in Final : \E p \in Targets : result[p] = i /\ images[i] = schedule[p]
         /\ removeImages => \A i \in Final : images[i] \notin Local => i \notin storage[images[i]]
<1> USE DEF IInv
<1>1. \A p \in Platform : p \in Targets <=> result[p] # NoImage
  BY DEF Built, ResultOK, Targets
<1>2. \A p \in Targets : result[p] \in Image /\ build[p] = "ok" /\ schedule[p] \in Builder
  BY <1>1, ImageAssumption DEF Built, Targets, TypeOK, BuilderMap
<1>3. \A i \in Image :
        \/ images[i] = NoBuilder /\ \A p \in Targets : result[p] # i
        \/ \E p \in Targets : result[p] = i /\ images[i] = schedule[p]
  <2> SUFFICES ASSUME NEW i \in Image
               PROVE  \/ images[i] = NoBuilder /\ \A p \in Targets : result[p] # i
                      \/ \E p \in Targets : result[p] = i /\ images[i] = schedule[p]
    OBVIOUS
  <2> DEFINE makers == {schedule[p] : p \in {q \in Platform : result[q] = i}}
  <2>1. images[i] \in IF makers = {} THEN {NoBuilder} ELSE makers
    BY DEF Built, perArchBuilds
  <2>2. \A p \in Platform : result[p] = i => p \in Targets
    BY <1>1, ImageAssumption
  <2> QED BY <2>1, <2>2 DEF Targets
<1>4. \A i : i \in {j \in Image : images[j] # NoBuilder} <=> \E p \in Targets : i = result[p]
  BY <1>2, <1>3, BuilderAssumption
<1>5. CASE dest = "local"
  <2>1. LP!ListExact /\ LP!Succeeded BY <1>5 DEF ListOK, LP!IInv, Returned, LP!Succeeded
  <2>2. /\ list = {i \in Image : images[i] # NoBuilder}
        /\ removeImages => \A i \in list : images[i] \notin Local => i \notin storage[images[i]]
    BY <2>1 DEF LP!ListExact, LP!Keys, Built
  <2>3. Final = {i \in Image : images[i] # NoBuilder} BY <1>5, <2>2 DEF Final
  <2> QED BY <1>2, <1>3, <1>4, <1>5, <2>2, <2>3 DEF Final
<1>6. CASE dest = "files"
  <2>1. FP!DirectoryExact /\ FP!Succeeded BY <1>6 DEF ListOK, FP!IInv, Returned, FP!Succeeded
  <2>2. /\ directory = {i \in Image : images[i] # NoBuilder}
        /\ removeImages => \A i \in directory : images[i] \notin Local => i \notin storage[images[i]]
    BY <2>1 DEF FP!DirectoryExact, FP!Keys, FP!Host, Built
  <2>3. Final = {i \in Image : images[i] # NoBuilder} BY <1>6, <2>2 DEF Final
  <2> QED BY <1>2, <1>3, <1>4, <1>6, <2>2, <2>3 DEF Final
<1> QED BY <1>5, <1>6 DEF BuildOK, TypeOK

\* A build that succeeds on native builders has made the list that was asked for,
\* for any farm, any schedule and any number of targets.
THEOREM NativeBuildIsExact == Spec => []NativeBuildExact
<1>1. IInv => NativeBuildExact
  <2> SUFFICES ASSUME IInv, Succeeded, AllNative
               PROVE  /\ \A p \in Targets : asked[p] = p
                      /\ Covers
                      /\ removeImages =>
                           \A p \in Targets :
                             schedule[p] \notin Local => result[p] \notin storage[schedule[p]]
    BY DEF NativeBuildExact
  <2>1. \A p \in Targets :
          /\ p \in Platform
          /\ schedule[p] \in Builder
          /\ nativePlatform[schedule[p]] = p
          /\ PlatformOf[result[p]] = p
          /\ asked[p] = jobs[schedule[p]]
    BY FinalImages DEF IInv, ResultOK, AllNative, Targets, TypeOK, BuilderMap
  <2>2. \A p \in Targets : asked[p] = p
    <3> SUFFICES ASSUME NEW p \in Targets PROVE asked[p] = p
      OBVIOUS
    <3>1. jobs \in storedJobs(schedule) BY DEF IInv, BuildOK
    <3>2. jobs[schedule[p]] \in {q \in Platform : schedule[q] = schedule[p]}
      BY <2>1, <3>1 DEF storedJobs
    <3>3. jobs[schedule[p]] \in Targets
      BY <2>1, <3>2, BuilderAssumption DEF Targets
    <3> QED BY <2>1, <3>2, <3>3
  <2>3. Covers
    <3>1. {PlatformOf[i] : i \in Final} = Targets BY <2>1, FinalImages
    <3>2. \A i, j \in Final : PlatformOf[i] = PlatformOf[j] => i = j BY <2>1, FinalImages
    <3> QED BY <3>1, <3>2 DEF Covers
  <2>4. ASSUME removeImages, NEW p \in Targets, schedule[p] \notin Local
        PROVE  result[p] \notin storage[schedule[p]]
    <3>1. result[p] \in Final BY FinalImages
    <3>2. PICK q \in Targets : result[q] = result[p] /\ images[result[p]] = schedule[q]
      BY <3>1, FinalImages
    <3>3. q = p BY <2>1, <3>2
    <3> QED BY <2>4, <3>1, <3>2, <3>3, FinalImages
  <2> QED BY <2>2, <2>3, <2>4
<1> QED BY <1>1, Invariant, PTL

\* Until every target has been built, a call changes neither the list nor the
\* directory, and takes no image from a host.
THEOREM BuildsAllOrNothing == Spec => AllOrNothing
<1> DEFINE Touched == \/ list' # list
                      \/ directory' # directory
                      \/ \E h \in L!Hosts : ~(storage[h] \subseteq storage'[h])
<1>1. IInv /\ [Next]_vars => [Touched => \A p \in Targets : result[p] # NoImage]_vars
  <2> SUFFICES ASSUME IInv, Next, Touched PROVE \A p \in Targets : result[p] # NoImage
    BY DEF vars
  <2>1. CASE ListStep
    BY <2>1 DEF ListStep, IInv, Built, ResultOK, Targets
  <2>2. ASSUME NEW p \in Platform, BuildOn(p) PROVE FALSE
    <3>1. storage \in [L!Hosts -> SUBSET Image] BY HostsSame DEF IInv, ListOK
    <3>2. UNCHANGED list /\ UNCHANGED directory
      BY <2>2 DEF BuildOn, listVars, L!BuildImage
    <3>3. \A h \in L!Hosts : storage[h] \subseteq storage'[h]
      BY <2>2, <3>1 DEF BuildOn, listVars, L!BuildImage
    <3> QED BY <3>2, <3>3
  <2>3. ASSUME NEW pb \in BuilderMap, NEW ref, NEW removes, NEW format, NEW iidFile,
               Build(pb, ref, removes, format, iidFile)
        PROVE  FALSE
    BY <2>3 DEF Build
  <2>4. CASE BuildWait
    <3>1. UNCHANGED <<storage, list, directory>>
      BY <2>4 DEF BuildWait, StartList, listVars, L!Build, F!Build
    <3> QED BY <3>1
  <2>5. CASE Return BY <2>5 DEF Return, listVars
  <2> QED BY <2>1, <2>2, <2>3, <2>4, <2>5 DEF Next, Continue
<1> QED BY <1>1, Invariant, PTL DEF Spec, AllOrNothing
=============================================================================
