-------------------------------- MODULE Farm --------------------------------
(***************************************************************************)
(* The queries of a build farm (buildfarm.go: NativePlatforms,             *)
(* EmulatedPlatforms, Status and Schedule) together with the part of a     *)
(* builder they reach: the platforms it fetches once, under a sync.Once,   *)
(* and keeps, error included.                                              *)
(*                                                                         *)
(* Every query starts one goroutine per builder in a multierror.Group,     *)
(* waits for all of them, and fails if any of them failed.  A goroutine    *)
(* takes two steps: it asks its builder (a remote call, outside the mutex) *)
(* and then merges the answer into the query's map (the critical section). *)
(***************************************************************************)
EXTENDS Schedules

CONSTANT
  Local       \* the builders that are podmanLocal: {} or {""}

ASSUME LocalAssumption == Local \subseteq Builder

VARIABLES
  (* the builders *)
  once,               \* sync.Once and platformsErr: "fresh", "ok" or "failed"
  nativePlatforms,    \* field of podmanLocal / podmanRemote, filled in by fetchInfo
  emulatedPlatforms,  \* likewise
  (* the query in progress, or the last one *)
  op,                 \* which Farm method
  phase,              \* which of its fan-outs is running; "done" when it returned
  task,               \* the goroutine of each builder in the current fan-out
  found,              \* nativeMap or emulatedMap, and then the list returned
  status,             \* Status: builder name -> error
  request,            \* Schedule: the argument
  platforms,          \* Schedule: the target platforms
  native,             \* Schedule: platform -> first builder native for it
  emulated,           \* Schedule: platform -> first builder emulating it
  platformBuilders,   \* Schedule: the result
  err                 \* the error returned

cache == <<once, nativePlatforms, emulatedPlatforms>>

vars == <<once, nativePlatforms, emulatedPlatforms, op, phase, task, found,
          status, request, platforms, native, emulated, platformBuilders, err>>

Queries == {"NativePlatforms", "EmulatedPlatforms", "Status", "Schedule"}

FanOuts == {"native", "emulated", "status", "info"}

TypeOK ==
  /\ once \in [Builder -> {"fresh", "ok", "failed"}]
  /\ nativePlatforms \in [Builder -> SUBSET Platform]
  /\ emulatedPlatforms \in [Builder -> SUBSET Platform]
  /\ op \in Queries \union {"none"}
  /\ phase \in FanOuts \union {"idle", "assign", "done"}
  /\ task \in [Builder -> {"none", "running", "answered", "ok", "failed"}]
  /\ found \in SUBSET Platform
  /\ status \in [Builder -> {"unset", "ready", "down"}]
  /\ request \in SUBSET Platform
  /\ platforms \in SUBSET Platform
  /\ native \in BuilderMap
  /\ emulated \in BuilderMap
  /\ platformBuilders \in BuilderMap
  /\ err \in {"none", "query", "nobuilder"}

Init ==
  /\ once = [b \in Builder |-> "fresh"]
  /\ nativePlatforms = [b \in Builder |-> {}]
  /\ emulatedPlatforms = [b \in Builder |-> {}]
  /\ op = "none"
  /\ phase = "idle"
  /\ task = [b \in Builder |-> "none"]
  /\ found = {}
  /\ status = [b \in Builder |-> "unset"]
  /\ request = {}
  /\ platforms = {}
  /\ native = EmptyMap
  /\ emulated = EmptyMap
  /\ platformBuilders = EmptyMap
  /\ err = "none"

-----------------------------------------------------------------------------
(* Calls.  A caller uses one Farm from one goroutine, as the commands do.  *)

SpawnAll == task' = [b \in Builder |-> "running"]

Begin(query, firstPhase, req) ==
  /\ phase \in {"idle", "done"}
  /\ op' = query
  /\ phase' = firstPhase
  /\ SpawnAll
  /\ found' = {}
  /\ status' = [b \in Builder |-> "unset"]
  /\ request' = req
  /\ platforms' = req
  /\ native' = EmptyMap
  /\ emulated' = EmptyMap
  /\ platformBuilders' = EmptyMap
  /\ err' = "none"
  /\ UNCHANGED cache

NativePlatforms == Begin("NativePlatforms", "native", {})

EmulatedPlatforms == Begin("EmulatedPlatforms", "emulated", {})

Status == Begin("Status", "status", {})

\* An empty list of targets makes Schedule ask for the native platforms first.
Schedule(req) == Begin("Schedule", IF req = {} THEN "native" ELSE "info", req)

-----------------------------------------------------------------------------
(* The goroutine of one builder. *)

\* podmanLocal.fetchInfo and podmanRemote.fetchInfo: one native platform each;
\* only the local builder knows of emulators.  A fetch fails if the engine does not
\* answer or the name of the local platform does not parse.  It sees the host as it
\* is then, so two fetches may differ.
fetchInfo(b) ==
  \/ /\ once' = [once EXCEPT ![b] = "failed"]
     /\ nativePlatforms' = [nativePlatforms EXCEPT ![b] = {}]
     /\ UNCHANGED emulatedPlatforms
  \/ \E p \in Platform, e \in IF b \in Local THEN SUBSET Platform ELSE {{}} :
       /\ once' = [once EXCEPT ![b] = "ok"]
       /\ nativePlatforms' = [nativePlatforms EXCEPT ![b] = {p}]
       /\ emulatedPlatforms' = [emulatedPlatforms EXCEPT ![b] = e]

\* Mutant: the platforms are fetched again on every call.
platformsDoMutant(b) == fetchInfo(b)

\* The platforms.Do(...) that opens Info, NativePlatforms, EmulatedPlatforms
\* and Status of a builder.
platformsDo(b) ==
  \/ once[b] = "fresh" /\ fetchInfo(b)
  \/ once[b] # "fresh" /\ UNCHANGED cache

\* Mutant: a goroutine whose builder failed keeps trying instead of returning.
AskBuilderMutant(b) ==
  /\ phase \in FanOuts
  /\ task[b] = "running"
  /\ platformsDo(b)
  /\ task' = [task EXCEPT ![b] =
       IF once'[b] = "failed" /\ phase # "status" THEN "running" ELSE "answered"]
  /\ UNCHANGED <<op, phase, found, status, request, platforms, native, emulated,
                 platformBuilders, err>>

\* The goroutine calls its builder.  All but Status return platformsErr.
AskBuilder(b) ==
  /\ phase \in FanOuts
  /\ task[b] = "running"
  /\ platformsDo(b)
  /\ task' = [task EXCEPT ![b] =
       IF once'[b] = "failed" /\ phase # "status" THEN "failed" ELSE "answered"]
  /\ UNCHANGED <<op, phase, found, status, request, platforms, native, emulated,
                 platformBuilders, err>>

\* Mutant: the builder's list is added to the map as one key.
MergeNativeMutant(b) ==
  /\ phase = "native"
  /\ task[b] = "answered"
  /\ task' = [task EXCEPT ![b] = "ok"]
  /\ found' = found \union {nativePlatforms[b]}
  /\ UNCHANGED <<cache, op, phase, status, request, platforms, native, emulated,
                 platformBuilders, err>>

MergeNative(b) ==
  /\ phase = "native"
  /\ task[b] = "answered"
  /\ task' = [task EXCEPT ![b] = "ok"]
  /\ found' = found \union nativePlatforms[b]
  /\ UNCHANGED <<cache, op, phase, status, request, platforms, native, emulated,
                 platformBuilders, err>>

MergeEmulated(b) ==
  /\ phase = "emulated"
  /\ task[b] = "answered"
  /\ task' = [task EXCEPT ![b] = "ok"]
  /\ found' = found \union emulatedPlatforms[b]
  /\ UNCHANGED <<cache, op, phase, status, request, platforms, native, emulated,
                 platformBuilders, err>>

\* Status asks for the engine's configuration: read from containers.conf for a
\* remote engine, from the libpod runtime for the local one.
MergeStatus(b) ==
  /\ phase = "status"
  /\ task[b] = "answered"
  /\ \E config \in {"ready", "down"} :
       /\ status' = [status EXCEPT ![b] = config]
       /\ task' = [task EXCEPT ![b] = IF config = "ready" THEN "ok" ELSE "failed"]
  /\ UNCHANGED <<cache, op, phase, found, request, platforms, native, emulated,
                 platformBuilders, err>>

\* The map with key p set to b for every p in ps that is not assigned yet.
assignNew(map, ps, b) ==
  [p \in Platform |-> IF p \in ps /\ map[p] = NoBuilder THEN b ELSE map[p]]

MergeInfo(b) ==
  /\ phase = "info"
  /\ task[b] = "answered"
  /\ task' = [task EXCEPT ![b] = "ok"]
  /\ native' = assignNew(native, nativePlatforms[b], b)
  /\ emulated' = assignNew(emulated, emulatedPlatforms[b], b)
  /\ UNCHANGED <<cache, op, phase, found, status, request, platforms,
                 platformBuilders, err>>

-----------------------------------------------------------------------------
(* The method's own goroutine, after multierror.Group.Wait. *)

\* Mutant: the wait ends when every builder has answered, merged or not.
JoinedMutant == \A b \in Builder : task[b] # "running"

\* Wait returns once every goroutine has, with an error iff one failed.
Joined == \A b \in Builder : task[b] \in {"ok", "failed"}

AnyFailed == \E b \in Builder : task[b] = "failed"

Return(error) ==
  /\ phase' = "done"
  /\ err' = error

\* NativePlatforms returns nil with an error; Schedule goes on with the list.
NativeWait ==
  /\ phase = "native"
  /\ Joined
  /\ \/ /\ AnyFailed
        /\ Return("query")
        /\ found' = {}
        /\ UNCHANGED <<task, platforms>>
     \/ /\ ~AnyFailed
        /\ op = "NativePlatforms"
        /\ Return("none")
        /\ UNCHANGED <<task, found, platforms>>
     \/ /\ ~AnyFailed
        /\ op = "Schedule"
        /\ phase' = "info"
        /\ platforms' = found
        /\ SpawnAll
        /\ UNCHANGED <<found, err>>
  /\ UNCHANGED <<cache, op, status, request, native, emulated, platformBuilders>>

EmulatedWait ==
  /\ phase = "emulated"
  /\ Joined
  /\ \/ AnyFailed /\ Return("query") /\ found' = {}
     \/ ~AnyFailed /\ Return("none") /\ UNCHANGED found
  /\ UNCHANGED <<cache, op, task, status, request, platforms, native, emulated,
                 platformBuilders>>

\* Status returns its map whether or not there is an error.
StatusWait ==
  /\ phase = "status"
  /\ Joined
  /\ Return(IF AnyFailed THEN "query" ELSE "none")
  /\ UNCHANGED <<cache, op, task, found, status, request, platforms, native,
                 emulated, platformBuilders>>

\* Mutant: the error of the group is not looked at.
InfoWaitMutant ==
  /\ phase = "info"
  /\ Joined
  /\ phase' = "assign"
  /\ UNCHANGED <<cache, op, task, found, status, request, platforms, native,
                 emulated, platformBuilders, err>>

InfoWait ==
  /\ phase = "info"
  /\ Joined
  /\ \/ AnyFailed /\ Return("query")
     \/ ~AnyFailed /\ phase' = "assign" /\ UNCHANGED err
  /\ UNCHANGED <<cache, op, task, found, status, request, platforms, native,
                 emulated, platformBuilders>>

\* Mutant: emulation is preferred.
pickBuilderMutant(p) == IF emulated[p] # NoBuilder THEN emulated[p] ELSE native[p]

\* The first builder known to be native for p, else the first emulating it.
pickBuilder(p) == IF native[p] # NoBuilder THEN native[p] ELSE emulated[p]

\* Mutant: a failing Schedule returns what it has assigned so far.
AssignMutant ==
  /\ phase = "assign"
  /\ Return(IF \E p \in platforms : pickBuilder(p) = NoBuilder THEN "nobuilder" ELSE "none")
  /\ platformBuilders' =
       [p \in Platform |-> IF p \in platforms THEN pickBuilder(p) ELSE NoBuilder]
  /\ UNCHANGED <<cache, op, task, found, status, request, platforms, native,
                 emulated>>

\* The loop over the targets; a target with no builder returns Schedule{}.
Assign ==
  /\ phase = "assign"
  /\ \/ /\ \E p \in platforms : pickBuilder(p) = NoBuilder
        /\ Return("nobuilder")
        /\ UNCHANGED platformBuilders
     \/ /\ \A p \in platforms : pickBuilder(p) # NoBuilder
        /\ Return("none")
        /\ platformBuilders' =
             [p \in Platform |-> IF p \in platforms THEN pickBuilder(p) ELSE NoBuilder]
  /\ UNCHANGED <<cache, op, task, found, status, request, platforms, native,
                 emulated>>

Goroutine(b) ==
  \/ AskBuilder(b)
  \/ MergeNative(b)
  \/ MergeEmulated(b)
  \/ MergeStatus(b)
  \/ MergeInfo(b)

Continue == NativeWait \/ EmulatedWait \/ StatusWait \/ InfoWait \/ Assign

Next ==
  \/ NativePlatforms
  \/ EmulatedPlatforms
  \/ Status
  \/ \E req \in SUBSET Platform : Schedule(req)
  \/ \E b \in Builder : Goroutine(b)
  \/ Continue

Fairness == WF_vars(Continue) /\ \A b \in Builder : WF_vars(Goroutine(b))

Spec == Init /\ [][Next]_vars

FairSpec == Spec /\ Fairness

-----------------------------------------------------------------------------
(* Properties. *)

Finished(query) == op = query /\ phase = "done"

AllNative == UNION {nativePlatforms[b] : b \in Builder}

Targets == IF request = {} THEN AllNative ELSE request

\* The schedule that Schedule returns is complete and prefers native builders,
\* measured against what the builders themselves know, not against the notes
\* the racing goroutines of the info fan-out took, and it exists only if every
\* builder of the farm could be asked.
ScheduleSound ==
  Finished("Schedule") /\ err = "none" =>
    /\ \A b \in Builder : once[b] = "ok"
    /\ Acceptable(platformBuilders, Targets, nativePlatforms, emulatedPlatforms)

\* No query but Status fails without a cause and none hides one: an error of the
\* fan-out means that some builder could not be asked, "no builder capable"
\* means that all could and a target really has no builder, and without an
\* error all could be asked.
ErrorHasCause ==
  phase = "done" /\ op # "Status" =>
    /\ err = "query" <=> \E b \in Builder : once[b] = "failed"
    /\ err = "nobuilder" =>
         /\ op = "Schedule"
         /\ Unbuildable(Targets, nativePlatforms, emulatedPlatforms)

\* Schedule with an empty list never finds a target without a builder, although
\* it asks every builder twice, once for the targets and once for the notes:
\* both passes see the answer that the sync.Once keeps.
DefaultAlwaysSchedulable ==
  Finished("Schedule") /\ request = {} => err # "nobuilder"

\* The lists that NativePlatforms and EmulatedPlatforms return are the unions of
\* what all the builders said, whatever the order of the goroutines.
ListsComplete ==
  err = "none" =>
    /\ Finished("NativePlatforms") => found = AllNative
    /\ Finished("EmulatedPlatforms") =>
         found = UNION {emulatedPlatforms[b] : b \in Builder}

\* Status reports on every builder, whichever of them are down, and returns an
\* error exactly if one of them is.
StatusComplete ==
  Finished("Status") =>
    /\ \A b \in Builder : status[b] # "unset"
    /\ err = "query" <=> \E b \in Builder : status[b] = "down"

\* The doc comment of Status: "a map of their individual status, along with an
\* error if any are down or otherwise unreachable".  A remote builder that could not
\* be asked for its platform is.
StatusHonest ==
  Finished("Status") /\ err = "none" => \A b \in Builder \ Local : once[b] # "failed"

\* Every query returns, whatever the builders answer.
QueryReturns == phase \notin {"idle", "done"} ~> phase = "done"

\* Farm implements the abstract Scheduler: a Schedule call is one atomic answer
\* that takes effect when the call returns.
S == INSTANCE Scheduler WITH
       asking  <- op = "Schedule" /\ phase \notin {"idle", "done"},
       request <- IF op = "Schedule" THEN request ELSE {},
       outcome <- IF Finished("Schedule")
                    THEN [err |-> err, platformBuilders |-> platformBuilders]
                    ELSE [err |-> "pending", platformBuilders |-> EmptyMap]

ImplementsScheduler == S!Spec
=============================================================================
