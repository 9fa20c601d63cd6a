---------------------------- MODULE FarmLifecycle ----------------------------
(***************************************************************************)
(* One run of the buildfarm command: the store, the options, the           *)
(* connections, which are made in parallel (newFarmWithBuilders), the farm *)
(* methods that the command calls, and if all succeed the connections are  *)
(* closed (Done) and the store is shut down (PersistentPostRunE).          *)
(***************************************************************************)
EXTENDS Sequences

CONSTANTS
  Destination,  \* custom.Engine.ServiceDestinations
  LocalKey,     \* "", the key of the local builder in Farm.builders
  LocalName     \* "(local)", the name by which it is asked for

\* No destination has one of the local builder's two names.
ASSUME NamesAssumption ==
  /\ LocalKey # LocalName
  /\ {LocalKey, LocalName} \intersect Destination = {}

Key == Destination \union {LocalKey}

\* Names that can be given with --node; a name that is not configured among them.
NodeNames == Destination \union {LocalKey, LocalName, "unknown"}

\* What each command asks of its farm.
Methods ==
  [build     |-> <<"Schedule", "Build">>,
   status    |-> <<"Status">>,
   platforms |-> <<"NativePlatforms", "EmulatedPlatforms">>,
   prune     |-> <<"PruneImages">>,
   help      |-> <<>>]

VARIABLES
  command,    \* what was asked for
  phase,      \* where the command is
  calls,      \* the method that is running and those to follow
  wanted,     \* the keys for which newFarmWithBuilders starts a goroutine
  asked,      \* the destinations given to NewAdHocFarm
  adHoc,      \* the farm was asked for with --node
  storeOptions,  \* globalStorageOptions is not nil: local storage is to be used
  store,      \* globalStore
  connect,    \* the goroutine of every key
  builders,   \* the keys of Farm.builders
  conn,       \* the connection of every builder
  todo,       \* the builders that the method, or Done, has still to visit
  report,     \* the builders that have answered the method
  failed,     \* the builders from which the method has an error
  exit        \* how the command ended

commandVars == <<command, storeOptions, wanted, asked, adHoc>>

vars == <<commandVars, phase, calls, store, connect, builders, conn, todo, report, failed, exit>>

TypeOK ==
  /\ command \in DOMAIN Methods
  /\ phase \in {"before", "start", "connect", "work", "after", "end"}
  /\ calls \in {<<>>} \union {Methods[c] : c \in DOMAIN Methods}
                \union {Tail(Methods[c]) : c \in DOMAIN Methods \ {"help"}}
  /\ wanted \in SUBSET Key
  /\ asked \in SUBSET NodeNames
  /\ adHoc \in BOOLEAN
  /\ storeOptions \in BOOLEAN
  /\ store \in {"none", "open", "closed"}
  /\ connect \in [Key -> {"none", "running", "ok", "failed"}]
  /\ builders \in SUBSET Key
  /\ conn \in [Key -> {"none", "open", "closed"}]
  /\ todo \in SUBSET Key
  /\ report \in SUBSET Key
  /\ failed \in SUBSET Key
  /\ exit \in {"none", "ok", "store", "options", "config", "connect", "empty", "command"}

Init ==
  /\ command \in DOMAIN Methods
  /\ phase = "before"
  /\ calls = <<>>
  /\ wanted = {}
  /\ asked = {}
  /\ adHoc = FALSE
  /\ storeOptions \in BOOLEAN
  /\ store = "none"
  /\ connect = [k \in Key |-> "none"]
  /\ builders = {}
  /\ conn = [k \in Key |-> "none"]
  /\ todo = {}
  /\ report = {}
  /\ failed = {}
  /\ exit = "none"

-----------------------------------------------------------------------------

Exit(reason) ==
  /\ phase' = "end"
  /\ exit' = reason

\* storeBefore, called by PersistentPreRunE: without --local there are no storage
\* options; with it, those found now and an open store, or, if they cannot be
\* found, those of the package's init, or an error of GetStore.
storeBefore(local) ==
  /\ phase = "before"
  /\ \/ /\ ~local
        /\ phase' = "start"
        /\ storeOptions' = FALSE
        /\ UNCHANGED <<store, exit>>
     \/ /\ local
        /\ phase' = "start"
        /\ storeOptions' = TRUE
        /\ store' = "open"
        /\ UNCHANGED exit
     \/ /\ local
        /\ phase' = "start"
        /\ UNCHANGED <<storeOptions, store, exit>>
     \/ /\ local
        /\ Exit("store")
        /\ storeOptions' = TRUE
        /\ UNCHANGED store
  /\ UNCHANGED <<command, wanted, asked, adHoc, calls, connect, builders, conn, todo, report,
                 failed>>

\* The main command prints its help and has no farm.
help ==
  /\ phase = "start"
  /\ command = "help"
  /\ phase' = "after"
  /\ UNCHANGED <<commandVars, calls, store, connect, builders, conn, todo, report, failed, exit>>

\* buildCmd looks at its options before it asks for a farm: no output, no context
\* directory, a reference that does not parse, or no Containerfile ends it.
buildOptions ==
  /\ phase = "start"
  /\ command = "build"
  /\ Exit("options")
  /\ UNCHANGED <<commandVars, calls, store, connect, builders, conn, todo, report, failed>>

\* wantBuilder, applied to the configured destinations and to the local builder.
wantedKeys(names, all) ==
  {k \in Destination : all \/ k \in names} \union
  {k \in {LocalKey} : storeOptions /\ (all \/ LocalName \in names)}

\* getFarm: --node makes an ad hoc farm; otherwise a name is an error, and no
\* name the farm of all destinations.  The configuration may be unreadable.
getFarm(names, farmName) ==
  /\ phase = "start"
  /\ command # "help"
  /\ asked' = names
  /\ adHoc' = (names # {})
  /\ \/ /\ Exit("config")
        /\ UNCHANGED <<wanted, connect>>
     \/ /\ names # {} \/ ~farmName
        /\ phase' = "connect"
        /\ wanted' = wantedKeys(names, names = {})
        /\ connect' = [k \in Key |-> IF k \in wanted' THEN "running" ELSE "none"]
        /\ UNCHANGED exit
  /\ UNCHANGED <<command, storeOptions, calls, store, builders, conn, todo, report, failed>>

\* Mutant: the local builder is entered under its name, not under its key.
ConnectMutant(k) ==
  /\ connect[k] = "running"
  /\ connect' = [connect EXCEPT ![k] = "ok"]
  /\ conn' = [conn EXCEPT ![k] = "open"]
  /\ builders' = builders \union {IF k = LocalKey THEN LocalName ELSE k}
  /\ UNCHANGED <<commandVars, phase, calls, store, todo, report, failed, exit>>

\* NewPodmanRemoteImageBuilder or NewPodmanLocalImageBuilder, and the critical
\* section that enters the builder into the map.
Connect(k) ==
  /\ connect[k] = "running"
  /\ \/ /\ connect' = [connect EXCEPT ![k] = "ok"]
        /\ conn' = [conn EXCEPT ![k] = "open"]
        /\ builders' = builders \union {k}
     \/ /\ connect' = [connect EXCEPT ![k] = "failed"]
        /\ UNCHANGED <<conn, builders>>
  /\ UNCHANGED <<commandVars, phase, calls, store, todo, report, failed, exit>>

\* A method starts.  Build asks the builders of its schedule, the others all.
Start(methods) ==
  /\ calls' = methods
  /\ todo' \in IF Head(methods) = "Build" THEN SUBSET builders \ {{}} ELSE {builders}
  /\ report' = {}
  /\ failed' = {}

\* Mutant: the farm is made of the builders that could be reached.
ConnectWaitMutant ==
  /\ phase = "connect"
  /\ \A k \in Key : connect[k] # "running"
  /\ \/ builders = {} /\ Exit("empty") /\ UNCHANGED <<calls, todo, report, failed>>
     \/ builders # {} /\ phase' = "work" /\ Start(Methods[command]) /\ UNCHANGED exit
  /\ UNCHANGED <<commandVars, store, connect, builders, conn>>

\* The farm is returned if nothing failed and there is a builder; the command
\* then calls its first method.
ConnectWait ==
  /\ phase = "connect"
  /\ \A k \in Key : connect[k] # "running"
  /\ \/ /\ \E k \in Key : connect[k] = "failed"
        /\ Exit("connect")
        /\ UNCHANGED <<calls, todo, report, failed>>
     \/ /\ \A k \in Key : connect[k] # "failed"
        /\ builders = {}
        /\ Exit("empty")
        /\ UNCHANGED <<calls, todo, report, failed>>
     \/ /\ \A k \in Key : connect[k] # "failed"
        /\ builders # {}
        /\ phase' = "work"
        /\ Start(Methods[command])
        /\ UNCHANGED exit
  /\ UNCHANGED <<commandVars, store, connect, builders, conn>>

\* Mutant: the loop over the builders stops at the first error.
VisitMutant(k) ==
  /\ phase = "work"
  /\ k \in todo
  /\ \/ report' = report \union {k} /\ todo' = todo \ {k} /\ UNCHANGED failed
     \/ failed' = failed \union {k} /\ todo' = {} /\ UNCHANGED report
  /\ UNCHANGED <<commandVars, phase, calls, store, connect, builders, conn, exit>>

\* One round of forEach for PruneImages, or one goroutine of another method: an
\* answer or an error.
Visit(k) ==
  /\ phase = "work"
  /\ k \in todo
  /\ todo' = todo \ {k}
  /\ \/ report' = report \union {k} /\ UNCHANGED failed
     \/ failed' = failed \union {k} /\ UNCHANGED report
  /\ UNCHANGED <<commandVars, phase, calls, store, connect, builders, conn, exit>>

\* The method returns.  Its error, a target without a builder or a list that
\* cannot be made included, is the command's, and cobra then skips
\* PersistentPostRunE; otherwise the next method is called, and after the last
\* one comes Done.
Visited ==
  /\ phase = "work"
  /\ todo = {}
  /\ \/ /\ failed # {} \/ Head(calls) \in {"Schedule", "Build"}
        /\ Exit("command")
        /\ UNCHANGED <<calls, todo, report, failed>>
     \/ /\ failed = {}
        /\ Tail(calls) # <<>>
        /\ Start(Tail(calls))
        /\ UNCHANGED <<phase, exit>>
     \/ /\ failed = {}
        /\ Tail(calls) = <<>>
        /\ phase' = "after"
        /\ todo' = builders
        /\ UNCHANGED <<calls, report, failed, exit>>
  /\ UNCHANGED <<commandVars, store, connect, builders, conn>>

\* Mutant: Done does nothing for remote builders either.
DoneMutant(k) ==
  /\ phase = "after"
  /\ k \in todo
  /\ todo' = todo \ {k}
  /\ UNCHANGED <<commandVars, phase, calls, store, connect, builders, conn, report, failed, exit>>

\* Done of a remote builder shuts its connection, of the local one nothing.
Done(k) ==
  /\ phase = "after"
  /\ k \in todo
  /\ todo' = todo \ {k}
  /\ conn' = [conn EXCEPT ![k] = IF k # LocalKey /\ @ = "open" THEN "closed" ELSE @]
  /\ UNCHANGED <<commandVars, phase, calls, store, connect, builders, report, failed, exit>>

\* Mutant: the command waits until every connection is closed.
AfterMutant ==
  /\ phase = "after"
  /\ \A k \in Key : conn[k] = "closed"
  /\ Exit("ok")
  /\ UNCHANGED <<commandVars, calls, store, connect, builders, conn, todo, report, failed>>

\* storeAfter, called last: the store, if there is one, is shut down, or is not
\* because something still uses it.
After ==
  /\ phase = "after"
  /\ todo = {}
  /\ \/ store = "none" /\ Exit("ok") /\ UNCHANGED store
     \/ store = "open" /\ Exit("ok") /\ store' = "closed"
     \/ store = "open" /\ Exit("store") /\ UNCHANGED store
  /\ UNCHANGED <<commandVars, calls, connect, builders, conn, todo, report, failed>>

Continue ==
  \/ ConnectWait
  \/ Visited
  \/ After
  \/ \E k \in Key : Connect(k) \/ Visit(k) \/ Done(k)

Next ==
  \/ \E local \in BOOLEAN : storeBefore(local)
  \/ help
  \/ buildOptions
  \/ \E names \in SUBSET NodeNames, farmName \in BOOLEAN : getFarm(names, farmName)
  \/ Continue

Spec == Init /\ [][Next]_vars

FairSpec == Spec /\ WF_vars(Continue)

-----------------------------------------------------------------------------
(* Properties. *)

Ready == phase \in {"work", "after"} /\ command # "help"

\* A farm that is returned has a working connection to every configured
\* destination that was asked for, and to no other: one that cannot be reached
\* is never left out silently, and the local builder needs local storage.
FarmComplete ==
  Ready =>
    /\ builders # {}
    /\ \A d \in Destination : d \in builders <=> ~adHoc \/ d \in asked
    /\ LocalKey \in builders => storeOptions

\* A method that concerns all builders visits every one in spite of errors, and the
\* command succeeds only if none of them had one.
EveryBuilderVisited ==
  /\ exit \in {"ok", "command"} /\ command \notin {"help", "build"} => report \union failed = builders
  /\ exit = "ok" => failed = {}

\* A command that succeeds leaves neither a connection to a remote host nor the
\* store open, and no connection is closed while a method may still use it.
ConnectionsClosed ==
  /\ exit = "ok" => store # "open" /\ \A d \in Destination : conn[d] # "open"
  /\ phase = "work" => \A k \in builders : conn[k] = "open"

\* Every command that has been given its options ends.
CommandEnds == phase = "connect" ~> phase = "end"
=============================================================================
