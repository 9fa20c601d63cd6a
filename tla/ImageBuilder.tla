---------------------------- MODULE ImageBuilder ----------------------------
(***************************************************************************)
(* One image builder, of any of the three kinds (podmanLocal, podmanRemote *)
(* and dockerEngine), used by several goroutines at once: the platform     *)
(* behind a sync.Once, builds, pulls through files, and removals.  There   *)
(* is one image, without a name, in the engine's storage, in that of the   *)
(* destination of PullToLocal, or in both.                                 *)
(***************************************************************************)
CONSTANTS
  Caller,    \* goroutines
  Host,      \* the platform of the engine's host
  Empty,     \* an empty platform, which to the engine means its default
  Failed,    \* an error
  Unknown    \* nothing was returned

ASSUME ValuesAssumption ==
  /\ Host \notin {Empty, Failed, Unknown}
  /\ Empty \notin {Failed, Unknown}
  /\ Failed # Unknown
  /\ "ok" \notin {Host, Empty, Failed, Unknown}

VARIABLES
  driver,    \* the kind of builder
  once,      \* platforms, the sync.Once
  platform,  \* os, arch and variant
  platformsErr,
  storage,   \* where the image is: in the engine's storage, in another local one
  removed,   \* it was taken from the destination since each caller's call began
  method,    \* what each caller has called
  at,        \* and where it is in it
  known,     \* some caller had been told the platform when this call began
  told,      \* the platform or error each caller was told last
  result,    \* what its last other call returned
  temp,      \* its temporary file
  file,      \* the SaveFile of its PullToFile
  crashed    \* the process has been ended by a nil dereference

infoVars == <<driver, once, platform, platformsErr>>
callVars == <<method, at, known, told, result>>
fileVars == <<temp, file>>
storeVars == <<storage, removed>>
vars == <<infoVars, callVars, fileVars, storeVars, crashed>>

\* Info stands for NativePlatforms and EmulatedPlatforms, too.
Method == {"Info", "Status", "Build", "PullToFile", "PullToLocal", "RemoveImage", "PruneImages"}

File == {"none", "partial", "archive"}

TypeOK ==
  /\ driver \in {"local", "remote", "docker"}
  /\ once \in {"fresh", "running", "done"}
  /\ platform \in {Host, Empty}
  /\ platformsErr \in BOOLEAN
  /\ storage \subseteq {"engine", "local"}
  /\ removed \in [Caller -> BOOLEAN]
  /\ method \in [Caller -> Method]
  /\ at \in [Caller -> {"idle", "once", "fetch", "engine", "create", "save", "load"}]
  /\ known \in [Caller -> BOOLEAN]
  /\ told \in [Caller -> {Host, Empty, Failed, Unknown}]
  /\ result \in [Caller -> {"ok", Host, Empty, Failed, Unknown}]
  /\ temp \in [Caller -> File]
  /\ file \in [Caller -> File]
  /\ crashed \in BOOLEAN

Init ==
  /\ driver \in {"local", "remote", "docker"}
  /\ once = "fresh"
  /\ platform = Empty
  /\ platformsErr = FALSE
  /\ storage = {}
  /\ removed = [c \in Caller |-> FALSE]
  /\ method = [c \in Caller |-> "Info"]
  /\ at = [c \in Caller |-> "idle"]
  /\ known = [c \in Caller |-> FALSE]
  /\ told = [c \in Caller |-> Unknown]
  /\ result = [c \in Caller |-> Unknown]
  /\ temp = [c \in Caller |-> "none"]
  /\ file = [c \in Caller |-> "none"]
  /\ crashed = FALSE

-----------------------------------------------------------------------------

Go(c, step) == at' = [at EXCEPT ![c] = step]

At(c, step) == ~crashed /\ at[c] = step

\* A method returns: the deferred calls close and remove its temporary file.
Return(c, r) ==
  /\ Go(c, "idle")
  /\ result' = [result EXCEPT ![c] = r]
  /\ temp' = [temp EXCEPT ![c] = "none"]
  /\ UNCHANGED <<infoVars, method, known, told, crashed>>

\* Mutant: podmanLocal.Build begins without looking at platforms, too.
usesOnceMutant(m) == m = "Info" \/ (m = "Status" /\ driver # "docker")

\* Which methods begin with platforms.Do.
usesOnce(m) ==
  \/ m = "Info"
  \/ m = "Status" /\ driver # "docker"
  \/ m = "Build" /\ driver = "local"

\* A goroutine calls a method; a file of an earlier call is not its concern.
Call(c, m) ==
  /\ At(c, "idle")
  /\ method' = [method EXCEPT ![c] = m]
  /\ known' = [known EXCEPT ![c] = \E d \in Caller : told[d] = Host]
  /\ result' = [result EXCEPT ![c] = Unknown]
  /\ file' = [file EXCEPT ![c] = "none"]
  /\ Go(c, IF usesOnce(m) THEN "once"
           ELSE IF m = "PullToLocal" \/ (m = "PullToFile" /\ driver = "docker") THEN "create"
           ELSE IF m = "PullToFile" THEN "save"
           ELSE "engine")
  /\ removed' = [removed EXCEPT ![c] = FALSE]
  /\ UNCHANGED <<infoVars, told, temp, storage, crashed>>

\* Mutant: whoever comes while the platform is being fetched does not wait.
platformsDoMutant(c) ==
  /\ At(c, "once")
  /\ \/ /\ once = "fresh"
        /\ once' = "running"
        /\ Go(c, "fetch")
     \/ /\ once # "fresh"
        /\ Go(c, "engine")
        /\ UNCHANGED once
  /\ UNCHANGED <<driver, platform, platformsErr, method, known, told, result, fileVars,
                 storeVars, crashed>>

\* platforms.Do: the first caller runs fetchInfo, others wait until it is done.
platformsDo(c) ==
  /\ At(c, "once")
  /\ \/ /\ once = "fresh"
        /\ once' = "running"
        /\ Go(c, "fetch")
     \/ /\ once = "done"
        /\ Go(c, "engine")
        /\ UNCHANGED once
  /\ UNCHANGED <<driver, platform, platformsErr, method, known, told, result, fileVars,
                 storeVars, crashed>>

\* Mutant: the text of the error is kept as the platform.
fetchInfoTextMutant(c) ==
  /\ At(c, "fetch")
  /\ once' = "done"
  /\ \/ platform' = Host /\ platformsErr' = FALSE
     \/ platform' = Failed /\ platformsErr' = TRUE
  /\ Go(c, "engine")
  /\ UNCHANGED <<driver, method, known, told, result, fileVars, storeVars, crashed>>

\* Mutant: the goroutine that fetches never signals the end of it.
fetchInfoStuckMutant(c) ==
  /\ At(c, "fetch")
  /\ \/ platform' = Host /\ platformsErr' = FALSE /\ once' = "done"
     \/ platform' = Empty /\ platformsErr' = TRUE /\ UNCHANGED once
  /\ Go(c, "engine")
  /\ UNCHANGED <<driver, method, known, told, result, fileVars, storeVars, crashed>>

\* The engine is asked for its host's platform.
fetchInfo(c) ==
  /\ At(c, "fetch")
  /\ once' = "done"
  /\ \/ platform' = Host /\ platformsErr' = FALSE
     \/ platform' = Empty /\ platformsErr' = TRUE
  /\ Go(c, "engine")
  /\ UNCHANGED <<driver, method, known, told, result, fileVars, storeVars, crashed>>

Info(c) ==
  /\ At(c, "engine") /\ method[c] = "Info"
  /\ told' = [told EXCEPT ![c] = IF platformsErr THEN Failed ELSE platform]
  /\ Go(c, "idle")
  /\ UNCHANGED <<infoVars, method, known, result, fileVars, storeVars, crashed>>

\* The engine's configuration, or docker's ping; platformsErr is not looked at.
Status(c) ==
  /\ At(c, "engine") /\ method[c] = "Status"
  /\ \E r \in {"ok", Failed} : Return(c, r)
  /\ UNCHANGED <<file, storeVars>>

\* The platforms that a build may be for.  podmanRemote and dockerEngine read os
\* and arch without platforms.Do: while another goroutine fetches them, they may
\* read them empty or half set, or set.
buildPlatforms ==
  {platform} \union {p \in {Host, Empty} : once = "running"}

\* Options that do not parse, a context that cannot be archived, or the build
\* itself are errors.  On success dockerEngine.Build dereferences a report that
\* it never got.
Build(c) ==
  /\ At(c, "engine") /\ method[c] = "Build"
  /\ \/ /\ Return(c, Failed)
        /\ UNCHANGED storage
     \/ \E p \in buildPlatforms :
          /\ driver # "docker" /\ ~(driver = "local" /\ platformsErr)
          /\ storage' = storage \union {"engine"}
          /\ Return(c, p)
     \/ /\ driver = "docker"
        /\ storage' = storage \union {"engine"}
        /\ crashed' = TRUE
        /\ UNCHANGED <<infoVars, callVars, temp>>
  /\ UNCHANGED <<file, removed>>

\* The storage that PullToLocal brings the image to.  podmanLocal's is the engine's
\* own: with no destination it is asked itself, and the engine that listLocal
\* passes has the same runtime.  The others insist on a destination, an error in
\* Create (docker) or in Load (remote).
destination == IF driver = "local" THEN "engine" ELSE "local"

\* Mutant: the report of Exists is not looked at, only its error.
CreateMutant(c) ==
  /\ At(c, "create")
  /\ \/ Return(c, Failed) /\ UNCHANGED file
     \/ /\ driver = "local" /\ method[c] = "PullToLocal"
        /\ Return(c, "ok")
        /\ UNCHANGED file
     \/ /\ ~(driver = "local" /\ method[c] = "PullToLocal")
        /\ Go(c, "save")
        /\ temp' = [temp EXCEPT ![c] = IF method[c] = "PullToLocal" THEN "partial" ELSE @]
        /\ file' = [file EXCEPT ![c] = IF method[c] = "PullToFile" THEN "partial" ELSE @]
        /\ UNCHANGED <<infoVars, method, known, told, result, crashed>>
  /\ UNCHANGED storeVars

\* PullToLocal makes a temporary file, unless podmanLocal finds the image at its
\* destination; dockerEngine.PullToFile creates the file it saves to.
Create(c) ==
  LET exists == driver = "local" /\ method[c] = "PullToLocal" /\ destination \in storage IN
  /\ At(c, "create")
  /\ \/ Return(c, Failed) /\ UNCHANGED file
     \/ exists /\ Return(c, "ok") /\ UNCHANGED file
     \/ /\ ~exists
        /\ Go(c, "save")
        /\ temp' = [temp EXCEPT ![c] = IF method[c] = "PullToLocal" THEN "partial" ELSE @]
        /\ file' = [file EXCEPT ![c] = IF method[c] = "PullToFile" THEN "partial" ELSE @]
        /\ UNCHANGED <<infoVars, method, known, told, result, crashed>>
  /\ UNCHANGED storeVars

\* What becomes of the SaveFile f of a PullToFile with the result r: dockerEngine's
\* deferred call removes it if the named result err is set, whatever set it.
deferred(r, f) == IF driver = "docker" /\ r = Failed THEN "none" ELSE f

\* The engine writes the image to the file of PullToFile.  If it fails it leaves
\* part of it or, on podman, which makes the file itself, perhaps nothing.  A file
\* that was made can be removed, here and in Return.
SaveFile(c) ==
  /\ At(c, "save") /\ method[c] = "PullToFile"
  /\ \E r \in {"ok", Failed}, f \in File :
       /\ IF r = "ok" THEN "engine" \in storage /\ f = "archive"
                      ELSE f = "partial" \/ (f = "none" /\ driver # "docker")
       /\ file' = [file EXCEPT ![c] = deferred(r, f)]
       /\ Return(c, r)
  /\ UNCHANGED storeVars

\* The engine writes it to the temporary file of PullToLocal.
SaveTemp(c) ==
  /\ At(c, "save") /\ method[c] = "PullToLocal"
  /\ \/ /\ "engine" \in storage
        /\ temp' = [temp EXCEPT ![c] = "archive"]
        /\ Go(c, "load")
        /\ UNCHANGED <<infoVars, method, known, told, result, crashed>>
     \/ Return(c, Failed)
  /\ UNCHANGED <<file, storeVars>>

Load(c) ==
  /\ At(c, "load")
  /\ \/ Return(c, "ok") /\ storage' = storage \union {destination}
     \/ Return(c, Failed) /\ UNCHANGED storage
  /\ UNCHANGED <<file, removed>>

\* RemoveImage, and PruneImages, for which an image without a name is dangling.
\* A call that fails may have taken effect, and a PruneImages that could not
\* remove the image does not fail.
Remove(c) ==
  /\ At(c, "engine") /\ method[c] \in {"RemoveImage", "PruneImages"}
  /\ \E r \in {"ok", Failed}, gone \in BOOLEAN :
       /\ r = "ok" /\ method[c] = "RemoveImage" => gone
       /\ storage' = IF gone THEN storage \ {"engine"} ELSE storage
       /\ removed' = [d \in Caller |-> removed[d] \/ destination \in storage \ storage']
       /\ Return(c, r)
  /\ UNCHANGED file

Step(c) ==
  \/ platformsDo(c) \/ fetchInfo(c) \/ Info(c) \/ Status(c) \/ Build(c)
  \/ Create(c) \/ SaveFile(c) \/ SaveTemp(c) \/ Load(c) \/ Remove(c)

Next == \E c \in Caller : (\E m \in Method : Call(c, m)) \/ Step(c)

Spec == Init /\ [][Next]_vars

FairSpec == Spec /\ \A c \in Caller : WF_vars(Step(c))

-----------------------------------------------------------------------------
(* Properties. *)

answer == IF once # "done" THEN Unknown ELSE IF platformsErr THEN Failed ELSE platform

Cache == INSTANCE InfoCache WITH Answers <- {Host, Failed}

\* However many goroutines ask at once, the platform is fetched once and all are
\* told the same, a failure included: the builder implements InfoCache.
ImplementsInfoCache == Cache!Spec

\* A build is for the host's platform if any goroutine had been told it before the
\* build began, as Schedule sees to, and on the local builder always: os and arch
\* are not set back to "", and are not read while they are being fetched.
BuiltForHost ==
  \A c \in Caller :
    at[c] = "idle" /\ method[c] = "Build" /\ result[c] # Failed /\ result[c] # Unknown
      /\ (known[c] \/ driver = "local") => result[c] = Host

\* A pull that reports success has delivered a whole image: to its file, or to the
\* destination, where it still is unless it was removed from there since the call
\* began.  Other goroutines may remove or prune the image between any two steps of
\* the pull, and on the local builder, whose destination is its own storage, that
\* includes the time after Exists has found it.  No call leaves a temporary file
\* behind, nor one of docker's part of an archive.
PullExact ==
  \A c \in Caller : at[c] = "idle" =>
    /\ method[c] = "PullToFile" /\ result[c] = "ok" => file[c] = "archive"
    /\ method[c] = "PullToLocal" /\ result[c] = "ok" => destination \in storage \/ removed[c]
    /\ temp[c] = "none"
    /\ driver = "docker" => file[c] # "partial"

\* Every call returns unless the process has crashed: nobody waits for ever for
\* the goroutine that fetches the platform.
CallReturns == \A c \in Caller : at[c] # "idle" ~> at[c] = "idle" \/ crashed
=============================================================================
