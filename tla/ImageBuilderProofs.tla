-------------------------- MODULE ImageBuilderProofs --------------------------
(***************************************************************************)
(* Proofs about module ImageBuilder for any number of goroutines.          *)
(*                                                                         *)
(* The argument is about the sync.Once: one goroutine at most is fetching, *)
(* and whoever is past platforms.Do finds the platform, or the error, as   *)
(* it will stay.  The methods that do not call platforms.Do read it at any *)
(* time, and find it set if someone had been told it before.  For the      *)
(* pulls it is about the storage: what a pull brought to its destination   *)
(* stays there but for a removal, which every call under way remembers.    *)
(***************************************************************************)
EXTENDS ImageBuilder, TLAPS

-----------------------------------------------------------------------------
(* The inductive invariant. *)

\* The platform is set by the one goroutine that runs the function of the
\* sync.Once, and every method that begins with platforms.Do comes after it.
OnceOK ==
  /\ once # "done" => platform = Empty /\ ~platformsErr
  /\ once = "done" => platform = IF platformsErr THEN Empty ELSE Host
  /\ \A c \in Caller :
       /\ at[c] \in {"once", "fetch"} => usesOnce(method[c])
       /\ at[c] = "fetch" => once = "running" /\ \A d \in Caller : at[d] = "fetch" => c = d
       /\ at[c] = "engine" /\ usesOnce(method[c]) => once = "done"

\* Whoever has been told the platform was told what is still there.
ToldOK ==
  \A c \in Caller : told[c] = Host \/ known[c] => once = "done" /\ ~platformsErr

\* Where a method is, and which files it may have there.
FilesOK ==
  \A c \in Caller :
    /\ at[c] = "create" => method[c] = "PullToLocal" \/ (method[c] = "PullToFile" /\ driver = "docker")
    /\ at[c] = "load" => method[c] = "PullToLocal"
    /\ at[c] \notin {"save", "load"} => temp[c] = "none"
    /\ driver = "docker" /\ ~(at[c] = "save" /\ method[c] = "PullToFile") => file[c] # "partial"

\* The image is at the destination, or was removed from it since c's call began.
Kept(c) == destination \in storage \/ removed[c]

IInv ==
  /\ TypeOK
  /\ OnceOK
  /\ ToldOK
  /\ FilesOK
  /\ BuiltForHost
  /\ PullExact

-----------------------------------------------------------------------------
(* Types. *)

\* The state of a new image builder is well typed.
LEMMA InitType == Init => TypeOK
<1> SUFFICES ASSUME Init PROVE TypeOK
  OBVIOUS
<1>1. known \in [Caller -> BOOLEAN] /\ removed \in [Caller -> BOOLEAN]
  <2>1. known = [c \in Caller |-> FALSE] /\ removed = [c \in Caller |-> FALSE] BY DEF Init
  <2> QED BY <2>1, Zenon
<1>2. "Info" \in Method BY DEF Method
<1>3. /\ method \in [Caller -> Method]
      /\ at \in [Caller -> {"idle", "once", "fetch", "engine", "create", "save", "load"}]
      /\ told \in [Caller -> {Host, Empty, Failed, Unknown}]
      /\ result \in [Caller -> {"ok", Host, Empty, Failed, Unknown}]
      /\ temp \in [Caller -> File]
      /\ file \in [Caller -> File]
  BY <1>2 DEF Init, File
<1> QED BY <1>1, <1>3 DEF Init, TypeOK

\* Every step of every goroutine keeps the builder's state well typed.
LEMMA NextType == TypeOK /\ [Next]_vars => TypeOK'
<1> SUFFICES ASSUME TypeOK, [Next]_vars PROVE TypeOK'
  OBVIOUS
<1> USE DEF TypeOK, Go, infoVars, callVars, fileVars, storeVars, File
<1>1. ASSUME NEW c \in Caller, NEW m \in Method, Call(c, m) PROVE TypeOK'
  BY <1>1 DEF Call
<1>2. ASSUME NEW c \in Caller, platformsDo(c) PROVE TypeOK'
  BY <1>2 DEF platformsDo
<1>3. ASSUME NEW c \in Caller, fetchInfo(c) PROVE TypeOK'
  BY <1>3 DEF fetchInfo
<1>4. ASSUME NEW c \in Caller, Info(c) PROVE TypeOK'
  BY <1>4 DEF Info
<1>5. ASSUME NEW c \in Caller, Status(c) PROVE TypeOK'
  BY <1>5 DEF Status, Return
<1>6. ASSUME NEW c \in Caller, Build(c) PROVE TypeOK'
  <2>1. buildPlatforms \subseteq {Host, Empty} BY DEF buildPlatforms
  <2>2. CASE Return(c, Failed) /\ UNCHANGED <<storage, file, removed>> BY <2>2 DEF Return
  <2>3. ASSUME NEW p \in buildPlatforms, storage' = storage \union {"engine"}, Return(c, p),
               UNCHANGED <<file, removed>>
        PROVE  TypeOK'
    BY <2>1, <2>3 DEF Return
  <2>4. CASE /\ storage' = storage \union {"engine"}
             /\ crashed' = TRUE
             /\ UNCHANGED <<infoVars, callVars, temp, file, removed>>
    BY <2>1, <2>4
  <2> QED BY <1>6, <2>2, <2>3, <2>4 DEF Build
<1>7. ASSUME NEW c \in Caller, Create(c) PROVE TypeOK'
  BY <1>7 DEF Create, Return
<1>8. ASSUME NEW c \in Caller, SaveFile(c) PROVE TypeOK'
  BY <1>8 DEF SaveFile, Return, deferred
<1>9. ASSUME NEW c \in Caller, SaveTemp(c) PROVE TypeOK'
  BY <1>9 DEF SaveTemp, Return
<1>10. ASSUME NEW c \in Caller, Load(c) PROVE TypeOK'
  BY <1>10 DEF Load, Return, destination
<1>11. ASSUME NEW c \in Caller, Remove(c) PROVE TypeOK'
  <2>1. removed' \in [Caller -> BOOLEAN]
    <3>1. removed' = [d \in Caller |-> removed[d] \/ destination \in storage \ storage']
      BY <1>11 DEF Remove
    <3> QED BY <3>1, Zenon
  <2> QED BY <1>11, <2>1 DEF Remove, Return
<1>12. CASE UNCHANGED vars BY <1>12 DEF vars
<1> QED BY <1>1, <1>2, <1>3, <1>4, <1>5, <1>6, <1>7, <1>8, <1>9, <1>10, <1>11, <1>12 DEF Next, Step

\* The builder's state is always well typed: a platform is that of the host or
\* empty, and never an error.
THEOREM TypeInvariant == Spec => []TypeOK
<1> QED BY InitType, NextType, PTL DEF Spec

-----------------------------------------------------------------------------
(* The invariant is inductive: one lemma per action. *)

\* A new builder has found out and told nothing.
LEMMA InitIInv == Init => IInv
  BY InitType, ValuesAssumption
  DEF Init, IInv, OnceOK, ToldOK, FilesOK, BuiltForHost, PullExact

\* A call finds the builder as it is: it knows the platform if it is set for good.
LEMMA CallIInv ==
  ASSUME IInv, TypeOK', NEW c \in Caller, NEW m \in Method, Call(c, m)
  PROVE  IInv'
<1> USE DEF IInv
<1>1. /\ at[c] = "idle"
      /\ UNCHANGED <<driver, once, platform, platformsErr, told, temp, storage>>
      /\ \A d \in Caller \ {c} : /\ at'[d] = at[d]
                                 /\ method'[d] = method[d]
                                 /\ known'[d] = known[d]
                                 /\ result'[d] = result[d]
                                 /\ file'[d] = file[d]
                                 /\ removed'[d] = removed[d]
  BY DEF Call, At, Go, infoVars, TypeOK
<1>2. /\ method'[c] = m
      /\ known'[c] => \E d \in Caller : told[d] = Host
      /\ file'[c] = "none"
      /\ at'[c] = IF usesOnce(m) THEN "once"
                  ELSE IF m = "PullToLocal" \/ (m = "PullToFile" /\ driver = "docker") THEN "create"
                  ELSE IF m = "PullToFile" THEN "save"
                  ELSE "engine"
  BY DEF Call, Go, TypeOK
<1>3. OnceOK' BY <1>1, <1>2 DEF OnceOK, usesOnce
<1>4. ToldOK' BY <1>1, <1>2 DEF ToldOK
<1>5. FilesOK' BY <1>1, <1>2 DEF FilesOK, usesOnce
<1>6. BuiltForHost' BY <1>1, <1>2 DEF BuiltForHost
<1>7. PullExact' BY <1>1, <1>2 DEF PullExact, destination
<1> QED BY <1>3, <1>4, <1>5, <1>6, <1>7

\* One goroutine gets to fetch; the others wait and find the platform set.
LEMMA platformsDoIInv ==
  ASSUME IInv, TypeOK', NEW c \in Caller, platformsDo(c)
  PROVE  IInv'
<1> USE DEF IInv
<1>1. /\ at[c] = "once"
      /\ UNCHANGED <<driver, platform, platformsErr, method, known, told, result, temp, file, storage, removed>>
      /\ \A d \in Caller \ {c} : at'[d] = at[d]
      /\ \/ once = "fresh" /\ once' = "running" /\ at'[c] = "fetch"
         \/ once = "done" /\ once' = "done" /\ at'[c] = "engine"
  BY DEF platformsDo, At, Go, fileVars, storeVars, TypeOK
<1>2. OnceOK' BY <1>1 DEF OnceOK, usesOnce
<1>3. ToldOK' BY <1>1 DEF ToldOK
<1>4. FilesOK' BY <1>1 DEF FilesOK
<1>5. BuiltForHost' BY <1>1 DEF BuiltForHost
<1>6. PullExact' BY <1>1 DEF PullExact, destination
<1> QED BY <1>2, <1>3, <1>4, <1>5, <1>6

\* The platform is set while nobody has been told it.
LEMMA fetchInfoIInv ==
  ASSUME IInv, TypeOK', NEW c \in Caller, fetchInfo(c)
  PROVE  IInv'
<1> USE DEF IInv
<1>1. /\ at[c] = "fetch"
      /\ once = "running"
      /\ once' = "done"
      /\ \/ platform' = Host /\ ~platformsErr'
         \/ platform' = Empty /\ platformsErr'
      /\ UNCHANGED <<driver, method, known, told, result, temp, file, storage, removed>>
      /\ at'[c] = "engine"
      /\ \A d \in Caller \ {c} : at'[d] = at[d]
  BY DEF fetchInfo, At, Go, fileVars, storeVars, TypeOK, OnceOK
<1>2. OnceOK'
  <2>1. once' = "done" => platform' = IF platformsErr' THEN Empty ELSE Host
    BY <1>1, ValuesAssumption DEF TypeOK
  <2> QED BY <1>1, <2>1 DEF OnceOK, usesOnce
<1>3. ToldOK' BY <1>1 DEF ToldOK
<1>4. FilesOK' BY <1>1 DEF FilesOK
<1>5. BuiltForHost' BY <1>1 DEF BuiltForHost
<1>6. PullExact' BY <1>1 DEF PullExact, destination
<1> QED BY <1>2, <1>3, <1>4, <1>5, <1>6

\* A goroutine is told the platform after platforms.Do.
LEMMA InfoIInv ==
  ASSUME IInv, TypeOK', NEW c \in Caller, Info(c)
  PROVE  IInv'
<1> USE DEF IInv
<1>1. /\ at[c] = "engine"
      /\ method[c] = "Info"
      /\ once = "done"
      /\ at'[c] = "idle"
      /\ told'[c] = IF platformsErr THEN Failed ELSE platform
      /\ \A d \in Caller \ {c} : at'[d] = at[d] /\ told'[d] = told[d]
      /\ UNCHANGED <<driver, once, platform, platformsErr, method, known, result, temp, file, storage, removed>>
  BY DEF Info, At, Go, infoVars, fileVars, storeVars, TypeOK, OnceOK, usesOnce
<1>2. OnceOK' BY <1>1 DEF OnceOK, usesOnce
<1>3. ToldOK' BY <1>1, ValuesAssumption DEF ToldOK
<1>4. FilesOK' BY <1>1 DEF FilesOK
<1>5. BuiltForHost' BY <1>1 DEF BuiltForHost
<1>6. PullExact' BY <1>1 DEF PullExact, FilesOK, destination
<1> QED BY <1>2, <1>3, <1>4, <1>5, <1>6

\* However another method returns: what it reports is what there is.
LEMMA ReturnIInv ==
  ASSUME IInv, TypeOK', NEW c \in Caller, NEW r, Return(c, r),
         \A d \in Caller \ {c} : file'[d] = file[d],
         driver = "docker" => file'[c] # "partial",
         \A d \in Caller : Kept(d) => Kept(d)',
         method[c] = "PullToFile" /\ r = "ok" => file'[c] = "archive",
         method[c] = "PullToLocal" /\ r = "ok" => Kept(c)',
         method[c] = "Build" /\ r \notin {Failed, Unknown} /\ (known[c] \/ driver = "local") => r = Host
  PROVE  IInv'
<1> USE DEF IInv
<1>1. /\ at'[c] = "idle"
      /\ result'[c] = r
      /\ temp'[c] = "none"
      /\ \A d \in Caller \ {c} : at'[d] = at[d] /\ result'[d] = result[d] /\ temp'[d] = temp[d]
      /\ UNCHANGED <<driver, once, platform, platformsErr, method, known, told>>
  BY DEF Return, Go, infoVars, TypeOK
<1>2. OnceOK' BY <1>1 DEF OnceOK, usesOnce
<1>3. ToldOK' BY <1>1 DEF ToldOK
<1>4. FilesOK' BY <1>1 DEF FilesOK
<1>5. BuiltForHost' BY <1>1 DEF BuiltForHost
<1>6. PullExact' BY <1>1 DEF PullExact, Kept
<1> QED BY <1>2, <1>3, <1>4, <1>5, <1>6

\* Status reports on the engine and touches nothing.
LEMMA StatusIInv ==
  ASSUME IInv, TypeOK', NEW c \in Caller, Status(c)
  PROVE  IInv'
<1>1. PICK r \in {"ok", Failed} : Return(c, r)
  BY DEF Status
<1>2. /\ method[c] = "Status"
      /\ UNCHANGED file
      /\ driver = "docker" => file[c] # "partial"
  BY DEF Status, At, IInv, FilesOK
<1>3. \A d \in Caller : Kept(d) => Kept(d)'
  BY <1>1 DEF Status, Return, infoVars, storeVars, Kept, destination
<1> QED BY <1>1, <1>2, <1>3, ReturnIInv

\* A build is for the host's platform if that was told, or on the local builder,
\* because then it is set.
LEMMA BuildIInv ==
  ASSUME IInv, TypeOK', NEW c \in Caller, Build(c)
  PROVE  IInv'
<1> USE DEF IInv
<1>1. /\ at[c] = "engine"
      /\ method[c] = "Build"
      /\ UNCHANGED <<driver, file>>
      /\ driver = "docker" => file[c] # "partial"
      /\ \A d \in Caller : Kept(d) => Kept(d)'
  BY DEF Build, At, FilesOK, Return, infoVars, Kept, destination
<1>2. CASE Return(c, Failed) BY <1>1, <1>2, ReturnIInv
<1>3. ASSUME NEW p \in buildPlatforms, ~(driver = "local" /\ platformsErr), Return(c, p)
      PROVE  IInv'
  <2>1. ASSUME known[c] \/ driver = "local" PROVE once = "done" /\ ~platformsErr
    BY <1>1, <1>3, <2>1 DEF ToldOK, OnceOK, usesOnce
  <2>2. known[c] \/ driver = "local" => p = Host
    BY <1>3, <2>1 DEF buildPlatforms, OnceOK
  <2> QED BY <1>1, <1>3, <2>2, ReturnIInv
<1>4. CASE UNCHANGED <<infoVars, callVars, temp>>
  BY <1>1, <1>4
  DEF infoVars, callVars, OnceOK, usesOnce, ToldOK, FilesOK, BuiltForHost, PullExact,
      Kept
<1> QED BY <1>2, <1>3, <1>4 DEF Build

\* A file is made empty, or the image is found at its destination.
LEMMA CreateIInv ==
  ASSUME IInv, TypeOK', NEW c \in Caller, Create(c)
  PROVE  IInv'
<1> USE DEF IInv
<1>1. /\ at[c] = "create"
      /\ method[c] = "PullToLocal" \/ (method[c] = "PullToFile" /\ driver = "docker")
      /\ driver = "docker" => file[c] # "partial"
      /\ UNCHANGED <<driver, storage, removed>>
      /\ \A d \in Caller : Kept(d) => Kept(d)'
  BY DEF Create, At, FilesOK, Return, infoVars, storeVars, Kept, destination
<1>2. CASE Return(c, Failed) /\ UNCHANGED file
  BY <1>1, <1>2, ReturnIInv, ValuesAssumption
<1>3. CASE method[c] = "PullToLocal" /\ destination \in storage /\ Return(c, "ok") /\ UNCHANGED file
  BY <1>1, <1>3, ReturnIInv DEF Kept
<1>4. CASE /\ Go(c, "save")
           /\ temp' = [temp EXCEPT ![c] = IF method[c] = "PullToLocal" THEN "partial" ELSE @]
           /\ file' = [file EXCEPT ![c] = IF method[c] = "PullToFile" THEN "partial" ELSE @]
           /\ UNCHANGED <<infoVars, method, known, told, result, crashed>>
  <2>1. /\ at'[c] = "save"
        /\ method[c] # "PullToFile" => file'[c] = file[c]
        /\ \A d \in Caller \ {c} : at'[d] = at[d] /\ temp'[d] = temp[d] /\ file'[d] = file[d]
        /\ UNCHANGED <<driver, once, platform, platformsErr, method, known, told, result>>
    BY <1>4 DEF Go, infoVars, TypeOK
  <2>2. OnceOK' BY <2>1 DEF OnceOK, usesOnce
  <2>3. ToldOK' BY <2>1 DEF ToldOK
  <2>4. FilesOK' BY <1>1, <2>1 DEF FilesOK
  <2>5. BuiltForHost' BY <2>1 DEF BuiltForHost
  <2>6. PullExact' BY <1>1, <2>1 DEF PullExact, destination
  <2> QED BY <2>2, <2>3, <2>4, <2>5, <2>6
<1> QED BY <1>2, <1>3, <1>4 DEF Create

\* A save that succeeds has the whole image, whoever removes it next.
LEMMA SaveFileIInv ==
  ASSUME IInv, TypeOK', NEW c \in Caller, SaveFile(c)
  PROVE  IInv'
<1>1. PICK r \in {"ok", Failed}, f \in File :
        /\ IF r = "ok" THEN f = "archive" ELSE f = "partial" \/ (f = "none" /\ driver # "docker")
        /\ file' = [file EXCEPT ![c] = deferred(r, f)]
        /\ Return(c, r)
  BY DEF SaveFile
<1>2. /\ method[c] = "PullToFile"
      /\ \A d \in Caller : Kept(d) => Kept(d)'
  BY <1>1 DEF SaveFile, Return, infoVars, storeVars, Kept, destination
<1>3. /\ \A d \in Caller \ {c} : file'[d] = file[d]
      /\ file'[c] = deferred(r, f)
  BY <1>1 DEF IInv, TypeOK
<1>4. /\ driver = "docker" => file'[c] # "partial"
      /\ r = "ok" => file'[c] = "archive"
  BY <1>1, <1>3, ValuesAssumption DEF deferred
<1> QED BY <1>1, <1>2, <1>3, <1>4, ReturnIInv

\* The same for the temporary file of PullToLocal.
LEMMA SaveTempIInv ==
  ASSUME IInv, TypeOK', NEW c \in Caller, SaveTemp(c)
  PROVE  IInv'
<1> USE DEF IInv
<1>1. /\ at[c] = "save"
      /\ method[c] = "PullToLocal"
      /\ UNCHANGED <<driver, file, storage, removed>>
      /\ driver = "docker" => file[c] # "partial"
      /\ \A d \in Caller : Kept(d) => Kept(d)'
  BY DEF SaveTemp, At, FilesOK, Return, infoVars, storeVars, Kept, destination
<1>2. CASE Return(c, Failed) BY <1>1, <1>2, ReturnIInv, ValuesAssumption
<1>3. CASE /\ temp' = [temp EXCEPT ![c] = "archive"]
           /\ Go(c, "load")
           /\ UNCHANGED <<infoVars, method, known, told, result, crashed>>
  <2>1. /\ at'[c] = "load"
        /\ \A d \in Caller \ {c} : at'[d] = at[d] /\ temp'[d] = temp[d]
        /\ UNCHANGED <<driver, once, platform, platformsErr, method, known, told, result>>
    BY <1>3 DEF Go, infoVars, TypeOK
  <2>2. OnceOK' BY <2>1 DEF OnceOK, usesOnce
  <2>3. ToldOK' BY <2>1 DEF ToldOK
  <2>4. FilesOK' BY <1>1, <2>1 DEF FilesOK
  <2>5. BuiltForHost' BY <2>1 DEF BuiltForHost
  <2>6. PullExact' BY <1>1, <2>1 DEF PullExact, destination
  <2> QED BY <2>2, <2>3, <2>4, <2>5, <2>6
<1> QED BY <1>2, <1>3 DEF SaveTemp

\* The destination has the image once a load succeeds.
LEMMA LoadIInv ==
  ASSUME IInv, TypeOK', NEW c \in Caller, Load(c)
  PROVE  IInv'
<1>1. /\ method[c] = "PullToLocal"
      /\ driver = "docker" => file[c] # "partial"
      /\ UNCHANGED <<driver, file>>
      /\ \A d \in Caller : Kept(d) => Kept(d)'
  BY DEF Load, At, IInv, FilesOK, Return, infoVars, Kept, destination
<1>2. CASE Return(c, "ok") /\ storage' = storage \union {destination}
  BY <1>1, <1>2, ReturnIInv DEF Kept, destination
<1>3. CASE Return(c, Failed) BY <1>1, <1>3, ReturnIInv, ValuesAssumption
<1> QED BY <1>2, <1>3 DEF Load

\* A removal takes the engine's image and no file, and if that was the image of the
\* destination, every call under way is to know.
LEMMA RemoveIInv ==
  ASSUME IInv, TypeOK', NEW c \in Caller, Remove(c)
  PROVE  IInv'
<1>1. PICK r \in {"ok", Failed} : Return(c, r)
  BY DEF Remove
<1>2. /\ method[c] \in {"RemoveImage", "PruneImages"}
      /\ UNCHANGED <<driver, file>>
      /\ driver = "docker" => file[c] # "partial"
  BY <1>1 DEF Remove, Return, infoVars, At, IInv, FilesOK
<1>3. ASSUME NEW d \in Caller, Kept(d) PROVE Kept(d)'
  <2>1. removed'[d] = (removed[d] \/ destination \in storage \ storage')
    BY DEF Remove
  <2> QED BY <1>2, <1>3, <2>1 DEF Kept, destination
<1> QED BY <1>1, <1>2, <1>3, ReturnIInv

-----------------------------------------------------------------------------
(* The theorems. *)

\* Every step of the specification preserves IInv.
LEMMA NextIInv == IInv /\ [Next]_vars => IInv'
<1> SUFFICES ASSUME IInv, [Next]_vars PROVE IInv'
  OBVIOUS
<1>1. TypeOK' BY NextType DEF IInv
<1>2. CASE UNCHANGED vars
  BY <1>1, <1>2
  DEF vars, infoVars, callVars, fileVars, storeVars, IInv, OnceOK, usesOnce, ToldOK, FilesOK,
      BuiltForHost, PullExact, destination
<1>3. CASE Next
  BY <1>1, <1>3, CallIInv, platformsDoIInv, fetchInfoIInv, InfoIInv, StatusIInv, BuildIInv,
     CreateIInv, SaveFileIInv, SaveTempIInv, LoadIInv, RemoveIInv
  DEF Next, Step
<1> QED BY <1>2, <1>3

\* The inductive invariant holds however the goroutines interleave.
THEOREM Invariant == Spec => []IInv
<1> QED BY InitIInv, NextIInv, PTL DEF Spec

\* A build that begins after anyone was told the platform is for it, though the
\* remote builders read it without platforms.Do.
THEOREM BuildsAreForTheHost == Spec => []BuiltForHost
<1>1. IInv => BuiltForHost BY DEF IInv
<1> QED BY <1>1, Invariant, PTL

\* A pull that reports success has delivered the whole image, whatever other
\* goroutines remove meanwhile: what is not at the destination was removed from
\* there since the call began.  It leaves no temporary file.
THEOREM PullsAreExact == Spec => []PullExact
<1>1. IInv => PullExact BY DEF IInv
<1> QED BY <1>1, Invariant, PTL

-----------------------------------------------------------------------------
(* The refinement of InfoCache. *)

\* A new builder has found out nothing.
LEMMA InitRefines == Init => Cache!Init
  BY DEF Init, Cache!Init, answer

\* Finding out is one step of the abstract cache, telling another; no other step
\* of any method can be seen in it.
LEMMA NextRefines == IInv /\ [Next]_vars => [Cache!Next]_Cache!vars
<1> SUFFICES ASSUME IInv, [Next]_vars PROVE [Cache!Next]_Cache!vars
  OBVIOUS
<1> USE DEF Cache!vars, answer, infoVars, callVars
<1>1. ASSUME NEW c \in Caller, fetchInfo(c) PROVE Cache!Next
  <2>1. once = "running" /\ once' = "done" /\ UNCHANGED told
    BY <1>1 DEF fetchInfo, At, IInv, OnceOK
  <2>2. Cache!Learn
    BY <1>1, <2>1 DEF fetchInfo, Cache!Learn, IInv, TypeOK
  <2> QED BY <2>2 DEF Cache!Next
<1>2. ASSUME NEW c \in Caller, Info(c) PROVE Cache!Next
  <2>1. once = "done" BY <1>2 DEF Info, At, IInv, OnceOK, usesOnce
  <2>2. answer # Unknown BY <2>1, ValuesAssumption DEF IInv, OnceOK
  <2>3. Cache!Tell(c)
    BY <1>2, <2>1, <2>2 DEF Info, Cache!Tell
  <2> QED BY <2>3 DEF Cache!Next
<1>3. ASSUME NEW c \in Caller, platformsDo(c) PROVE UNCHANGED Cache!vars
  BY <1>3 DEF platformsDo
<1>4. ASSUME NEW c \in Caller, NEW m \in Method, Call(c, m) PROVE UNCHANGED Cache!vars
  BY <1>4 DEF Call
<1>5. ASSUME NEW c \in Caller,
             Status(c) \/ Build(c) \/ Create(c) \/ SaveFile(c) \/ SaveTemp(c) \/ Load(c) \/ Remove(c)
      PROVE  UNCHANGED Cache!vars
  BY <1>5 DEF Status, Build, Create, SaveFile, SaveTemp, Load, Remove, Return
<1>6. CASE UNCHANGED vars BY <1>6 DEF vars
<1> QED BY <1>1, <1>2, <1>3, <1>4, <1>5, <1>6 DEF Next, Step

\* However many goroutines ask at once, the platform is found out once and all
\* are told the same: the builder implements InfoCache.
THEOREM Refinement == Spec => ImplementsInfoCache
<1> QED BY InitRefines, NextRefines, Invariant, PTL DEF Spec, ImplementsInfoCache, Cache!Spec
=============================================================================
