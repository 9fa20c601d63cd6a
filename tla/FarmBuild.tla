------------------------------ MODULE FarmBuild ------------------------------
(***************************************************************************)
(* Farm.Build of buildfarm.go, from a schedule to the manifest list: one   *)
(* goroutine per target platform has its builder build an image, and when  *)
(* all of them have succeeded a list builder, ListLocal or ListFiles, is   *)
(* given the images.  Composed with the list builders' own steps.          *)
(***************************************************************************)
EXTENDS Schedules

CONSTANTS
  Image,       \* image IDs
  PlatformOf,  \* the platform that is recorded in an image
  Local,       \* the builders that are podmanLocal
  Here,        \* the storage of the machine that runs buildfarm
  NoPlatform,  \* no job is known for a builder
  NoImage      \* no image has been built for a platform

ASSUME ImageAssumption ==
  /\ PlatformOf \in [Image -> Platform]
  /\ NoPlatform \notin Platform
  /\ NoImage \notin Image
  /\ Local \subseteq Builder
  /\ Here \notin Builder

VARIABLES
  (* the farm: known from Schedule, and the same for all calls *)
  nativePlatform,     \* os/arch/variant of every builder
  emulatedPlatforms,  \* what the local builder could build under emulation
  storeOptions,       \* Farm.storeOptions is not nil
  (* the call of Build *)
  stage,              \* where Build is
  schedule,           \* platform -> builder
  reference,          \* "dir": or a "name"
  removeImages,       \* options.RemoveIntermediateImages
  dest,               \* which list builder was chosen
  jobs,               \* builder -> the platform of its job
  build,              \* the goroutine of every target platform
  asked,              \* theseOptions.Platforms of that goroutine
  result,             \* buildResults: the image built for a platform
  outcome,            \* the error returned
  (* the list builder and what it works on *)
  storage, list, tempDir, archives, directory, images, remove, phase, pull, rm,
  refs, todo, err

farmVars == <<nativePlatform, emulatedPlatforms, storeOptions>>

callVars == <<stage, schedule, reference, removeImages, dest, jobs, build, asked,
              result, outcome>>

listVars == <<storage, list, tempDir, archives, directory, images, remove, phase,
              pull, rm, refs, todo, err>>

vars == <<farmVars, callVars, listVars>>

L == INSTANCE ListLocal

F == INSTANCE ListFiles

TypeOK ==
  /\ nativePlatform \in [Builder -> Platform]
  /\ emulatedPlatforms \in [Builder -> SUBSET Platform]
  /\ storeOptions \in BOOLEAN
  /\ stage \in {"idle", "build", "list", "done"}
  /\ schedule \in BuilderMap
  /\ reference \in {"dir", "name"}
  /\ removeImages \in BOOLEAN
  /\ dest \in {"none", "local", "files"}
  /\ jobs \in [Builder -> Platform \union {NoPlatform}]
  /\ build \in [Platform -> {"none", "running", "ok", "failed"}]
  /\ asked \in [Platform -> Platform \union {NoPlatform}]
  /\ result \in [Platform -> Image \union {NoImage}]
  /\ outcome \in {"none", "format", "prepare", "build", "list"}
  /\ list \in SUBSET Image
  /\ IF dest = "local" THEN L!TypeOK ELSE F!TypeOK

\* A farm without storage options has no local builder, and only the local
\* builder knows of emulators.
Init ==
  /\ nativePlatform \in [Builder -> Platform]
  /\ emulatedPlatforms \in
       {e \in [Builder -> SUBSET Platform] : \A b \in Builder \ Local : e[b] = {}}
  /\ storeOptions \in {s \in BOOLEAN : Local # {} => s}
  /\ stage = "idle"
  /\ schedule = EmptyMap
  /\ reference = "name"
  /\ removeImages = FALSE
  /\ dest = "none"
  /\ jobs = [b \in Builder |-> NoPlatform]
  /\ build = [p \in Platform |-> "none"]
  /\ asked = [p \in Platform |-> NoPlatform]
  /\ result = [p \in Platform |-> NoImage]
  /\ outcome = "none"
  /\ L!Init
  /\ F!Init

-----------------------------------------------------------------------------

nativeBy == [b \in Builder |-> {nativePlatform[b]}]

Targets == {p \in Platform : schedule[p] # NoBuilder}

\* Schedule answers before Build is called.
Schedules(pb) ==
  \E targets \in SUBSET Platform :
    targets # {} /\ Acceptable(pb, targets, nativeBy, emulatedPlatforms)

\* The loop stores the jobs under the builder's name, in no particular order:
\* of several platforms of one builder any may be the last.
storedJobs(pb) ==
  {js \in [Builder -> Platform \union {NoPlatform}] :
     \A b \in Builder :
       LET ofBuilder == {p \in Platform : pb[p] = b} IN
       js[b] \in IF ofBuilder = {} THEN {NoPlatform} ELSE ofBuilder}

chooseListBuilder(ref) == IF ref = "dir" \/ ~storeOptions THEN "files" ELSE "local"

\* Every call makes a list builder of its own.
newListBuilder ==
  /\ images' = [i \in Image |-> NoBuilder]
  /\ remove' = FALSE
  /\ phase' = "idle"
  /\ pull' = L!NoTasks
  /\ rm' = L!NoTasks
  /\ refs' = {}
  /\ todo' = {}
  /\ err' = "none"

\* The beginning of Build, up to the goroutines: an unknown output format ends
\* it, and so does, with a list in local storage, an ID file or a configuration
\* that cannot be read.
Build(pb, ref, removes, format, iidFile) ==
  /\ stage \in {"idle", "done"}
  /\ Schedules(pb)
  /\ schedule' = pb
  /\ reference' = ref
  /\ removeImages' = removes
  /\ asked' = [p \in Platform |-> NoPlatform]
  /\ result' = [p \in Platform |-> NoImage]
  /\ \/ /\ format = "unknown"
        /\ stage' = "done"
        /\ outcome' = "format"
        /\ dest' = "none"
        /\ jobs' = [b \in Builder |-> NoPlatform]
        /\ build' = [p \in Platform |-> "none"]
     \/ /\ format = "known"
        /\ jobs' \in storedJobs(pb)
        /\ dest' = chooseListBuilder(ref)
        /\ \/ /\ dest' = "local"
              /\ stage' = "done"
              /\ outcome' = "prepare"
              /\ build' = [p \in Platform |-> "none"]
           \/ /\ ~(iidFile /\ dest' = "local")
              /\ stage' = "build"
              /\ outcome' = "none"
              /\ build' = [p \in Platform |->
                             IF pb[p] = NoBuilder THEN "none" ELSE "running"]
  /\ newListBuilder
  /\ UNCHANGED <<farmVars, storage, list, tempDir, archives, directory>>

\* podmanBuildOptionsFromBuildOptions: the platform to build for is the builder's
\* own, and the one asked for in the options is dropped.
podmanBuildPlatform(b) == nativePlatform[b]

\* Mutant: the builder is stored where its report should be.
BuildOnMutant(p) ==
  /\ build[p] = "running"
  /\ asked' = [asked EXCEPT ![p] = jobs[schedule[p]]]
  /\ \E i \in Image :
       /\ PlatformOf[i] = podmanBuildPlatform(schedule[p])
       /\ L!BuildImage(schedule[p], i)
       /\ result' = [result EXCEPT ![p] = schedule[p]]
       /\ build' = [build EXCEPT ![p] = "ok"]
  /\ UNCHANGED <<farmVars, stage, schedule, reference, removeImages, dest, jobs, outcome,
                 tempDir, archives, directory>>

\* The goroutine of platform p: the builder of its job builds an image.  Builds
\* may or may not be reproducible.
BuildOn(p) ==
  /\ build[p] = "running"
  /\ asked' = [asked EXCEPT ![p] = jobs[schedule[p]]]
  /\ \/ /\ build' = [build EXCEPT ![p] = "failed"]
        /\ UNCHANGED <<result, listVars>>
     \/ \E i \in Image :
          /\ PlatformOf[i] = podmanBuildPlatform(schedule[p])
          /\ L!BuildImage(schedule[p], i)
          /\ UNCHANGED <<tempDir, archives, directory>>
          /\ result' = [result EXCEPT ![p] = i]
          /\ build' = [build EXCEPT ![p] = "ok"]
  /\ UNCHANGED <<farmVars, stage, schedule, reference, removeImages, dest, jobs, outcome>>

\* Mutant: the range over the results stops after the first one.
perArchBuildsMutant ==
  {built \in L!ImageMap :
     \E p \in Targets : \A i \in Image :
       built[i] = IF i = result[p] THEN schedule[p] ELSE NoBuilder}

\* The keys are the build reports: of several builders that report the same
\* image, any may be the one that is kept.
perArchBuilds ==
  {built \in L!ImageMap :
     \A i \in Image :
       LET makers == {schedule[p] : p \in {q \in Platform : result[q] = i}} IN
       built[i] \in IF makers = {} THEN {NoBuilder} ELSE makers}

\* Mutant: the options of the call are not passed on to the list builder.
StartListMutant ==
  \E built \in perArchBuilds :
    \/ /\ dest = "local"
       /\ L!Build(built, FALSE)
       /\ UNCHANGED <<tempDir, archives, directory>>
    \/ /\ dest = "files"
       /\ F!Build(built, FALSE)
       /\ UNCHANGED list

\* The list builder that was chosen is given the images.
StartList ==
  \E built \in perArchBuilds :
    \/ /\ dest = "local"
       /\ L!Build(built, removeImages)
       /\ UNCHANGED <<tempDir, archives, directory>>
    \/ /\ dest = "files"
       /\ F!Build(built, removeImages)
       /\ UNCHANGED list

\* Mutant: the images that were built are listed even if some builds failed.
BuildWaitMutant ==
  /\ stage = "build"
  /\ \A p \in Platform : build[p] # "running"
  /\ stage' = "list"
  /\ StartList
  /\ UNCHANGED <<farmVars, schedule, reference, removeImages, dest, jobs, build, asked,
                 result, outcome>>

\* Mutant: the wait is for successful builds only.
BuildWaitOkMutant ==
  /\ stage = "build"
  /\ \A p \in Platform : build[p] \in {"none", "ok"}
  /\ stage' = "list"
  /\ StartList
  /\ UNCHANGED <<farmVars, schedule, reference, removeImages, dest, jobs, build, asked,
                 result, outcome>>

BuildWait ==
  /\ stage = "build"
  /\ \A p \in Platform : build[p] # "running"
  /\ \/ /\ \E p \in Platform : build[p] = "failed"
        /\ stage' = "done"
        /\ outcome' = "build"
        /\ UNCHANGED listVars
     \/ /\ \A p \in Platform : build[p] # "failed"
        /\ stage' = "list"
        /\ StartList
        /\ UNCHANGED outcome
  /\ UNCHANGED <<farmVars, schedule, reference, removeImages, dest, jobs, build, asked,
                 result>>

ListStep ==
  /\ stage = "list"
  /\ \/ dest = "local" /\ L!Step /\ UNCHANGED <<tempDir, archives, directory>>
     \/ dest = "files" /\ F!Step /\ UNCHANGED list
  /\ UNCHANGED <<farmVars, callVars>>

Return ==
  /\ stage = "list"
  /\ phase = "done"
  /\ stage' = "done"
  /\ outcome' = IF err = "none" THEN "none" ELSE "list"
  /\ UNCHANGED <<farmVars, schedule, reference, removeImages, dest, jobs, build, asked,
                 result, listVars>>

Continue == (\E p \in Platform : BuildOn(p)) \/ BuildWait \/ ListStep \/ Return

Next ==
  \/ \E pb \in BuilderMap, ref \in {"dir", "name"}, removes, iidFile \in BOOLEAN,
        format \in {"known", "unknown"} : Build(pb, ref, removes, format, iidFile)
  \/ Continue

Spec == Init /\ [][Next]_vars

FairSpec == Spec /\ WF_vars(Continue)

-----------------------------------------------------------------------------
(* Properties. *)

Succeeded == stage = "done" /\ outcome = "none"

Final == IF dest = "files" THEN directory ELSE list

AllNative == \A p \in Targets : nativePlatform[schedule[p]] = p

Covers ==
  /\ {PlatformOf[i] : i \in Final} = Targets
  /\ \A i, j \in Final : PlatformOf[i] = PlatformOf[j] => i = j

\* A build that succeeds on native builders has asked each for its own target,
\* though jobs is keyed by builder; it has made a list with exactly one image for
\* each target, however builds and pulls raced and whatever the list or the
\* directory held before; and with --rm-images it leaves none of its images on a
\* remote builder.
NativeBuildExact ==
  Succeeded /\ AllNative =>
    /\ \A p \in Targets : asked[p] = p
    /\ Covers
    /\ removeImages =>
         \A p \in Targets : schedule[p] \notin Local => result[p] \notin storage[schedule[p]]

\* Neither the list nor the directory changes, and no host loses an image,
\* before every target platform has been built: a failed build leaves what the
\* other builders made where it is.
AllOrNothing ==
  [][\/ list' # list
     \/ directory' # directory
     \/ \E h \in L!Hosts : ~(storage[h] \subseteq storage'[h])
     => \A p \in Targets : result[p] # NoImage]_vars

\* Build returns.
BuildReturns == stage \notin {"idle", "done"} ~> stage = "done"

\* The doc comments of Schedule, "will assign a builder which can use emulation
\* for a platform", and of Build, "runs a build using the specified
\* targetplatform:service map": what was scheduled is what is listed.
TargetsCovered == Succeeded => Covers
=============================================================================
