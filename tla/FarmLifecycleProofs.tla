------------------------- MODULE FarmLifecycleProofs -------------------------
(***************************************************************************)
(* Proofs about module FarmLifecycle for any set of destinations.          *)
(*                                                                         *)
(* The argument follows one builder through the command: it enters the     *)
(* farm exactly if its goroutine succeeded, and then has an open           *)
(* connection until Done; the farm is returned only if no goroutine        *)
(* failed, so that what it has is what was asked for.                      *)
(***************************************************************************)
EXTENDS FarmLifecycle, TLAPS

-----------------------------------------------------------------------------
(* The inductive invariant. *)

\* The command is over exactly if there is a reason; main's own command never
\* has a farm; before the methods nothing has been visited.
PhaseOK ==
  /\ phase = "end" <=> exit # "none"
  /\ command = "help" => phase \in {"before", "start", "after", "end"} /\ builders = {}
  /\ phase \in {"before", "start"} => builders = {} /\ \A k \in Key : connect[k] = "none"
  /\ phase \in {"before", "start", "connect"} => report = {} /\ failed = {}

\* The methods that are still to run are those of the command.
CallsOK ==
  phase = "work" => calls # <<>> /\ calls \in {Methods[command], Tail(Methods[command])}

\* The goroutines of newFarmWithBuilders: one for every key that is wanted, and
\* none left after the wait.
ConnectOK ==
  /\ phase # "connect" => \A k \in Key : connect[k] # "running"
  /\ phase \in {"connect", "work", "after"} /\ command # "help" =>
       /\ adHoc <=> asked # {}
       /\ wanted = wantedKeys(asked, asked = {})
       /\ \A k \in Key : connect[k] # "none" <=> k \in wanted
  /\ phase \in {"work", "after"} /\ command # "help" =>
       /\ builders # {}
       /\ \A k \in Key : connect[k] # "failed"

\* A builder is in the farm exactly if its goroutine succeeded, and is connected
\* until Done has visited it.
ConnOK ==
  /\ \A k \in Key :
       /\ k \in builders <=> connect[k] = "ok"
       /\ k \notin builders => conn[k] = "none"
       /\ phase \notin {"after", "end"} /\ k \in builders => conn[k] = "open"
  /\ phase = "after" => \A d \in Destination : conn[d] = "open" => d \in todo

\* What the running method has visited, failed to visit and still has to visit
\* is every builder; after a command that succeeds none has failed.
VisitOK ==
  /\ phase = "work" /\ Head(calls) # "Build" => report \union failed \union todo = builders
  /\ phase = "after" => failed = {}
  /\ phase = "after" /\ command \notin {"help", "build"} => report = builders

IInv ==
  /\ TypeOK
  /\ PhaseOK
  /\ CallsOK
  /\ ConnectOK
  /\ ConnOK
  /\ VisitOK
  /\ EveryBuilderVisited
  /\ ConnectionsClosed

-----------------------------------------------------------------------------
(* The methods of the commands. *)

\* The commands by name.
LEMMA CommandFacts == DOMAIN Methods = {"build", "status", "platforms", "prune", "help"}
  BY DEF Methods

\* Every command but main's own has one or two methods, and only buildCmd calls
\* Farm.Build, last.
LEMMA CallFacts ==
  ASSUME NEW c \in DOMAIN Methods, c # "help"
  PROVE  /\ Methods[c] # <<>>
         /\ Head(Methods[c]) # "Build"
         /\ Tail(Methods[c]) # <<>> =>
              /\ Tail(Tail(Methods[c])) = <<>>
              /\ c # "build" => Head(Tail(Methods[c])) # "Build"
<1>1. CASE c = "build" BY <1>1 DEF Methods
<1>2. CASE c = "status" BY <1>2 DEF Methods
<1>3. CASE c = "platforms" BY <1>3 DEF Methods
<1>4. CASE c = "prune" BY <1>4 DEF Methods
<1> QED BY <1>1, <1>2, <1>3, <1>4, CommandFacts

\* A running method is not the one that asks only some builders, unless the
\* command is buildCmd; a method that follows it is the last.
LEMMA RunningCall ==
  ASSUME IInv, phase = "work"
  PROVE  /\ command # "help"
         /\ command # "build" => Head(calls) # "Build"
         /\ Tail(calls) # <<>> =>
              /\ calls = Methods[command]
              /\ command # "build" => Head(Tail(calls)) # "Build"
<1>1. command # "help" /\ command \in DOMAIN Methods
  BY DEF IInv, TypeOK, PhaseOK
<1> QED BY <1>1, CallFacts DEF IInv, CallsOK

-----------------------------------------------------------------------------
(* Types. *)

\* The state before the command starts is well typed.
LEMMA InitType == Init => TypeOK
  BY DEF Init, TypeOK

\* Every step of the command keeps its state well typed.
LEMMA NextType == IInv /\ [Next]_vars => TypeOK'
<1> SUFFICES ASSUME IInv, [Next]_vars PROVE TypeOK'
  OBVIOUS
<1>0. TypeOK BY DEF IInv
<1> USE <1>0 DEF TypeOK, commandVars
<1>1. ASSUME NEW local \in BOOLEAN, storeBefore(local) PROVE TypeOK'
  BY <1>1 DEF storeBefore, Exit
<1>2. CASE help BY <1>2 DEF help
<1>3. CASE buildOptions BY <1>3 DEF buildOptions, Exit
<1>4. ASSUME NEW names \in SUBSET NodeNames, NEW farmName \in BOOLEAN, getFarm(names, farmName)
      PROVE  TypeOK'
  <2>1. wantedKeys(names, names = {}) \in SUBSET Key
    BY DEF wantedKeys, Key
  <2> QED BY <1>4, <2>1 DEF getFarm, Exit
<1>5. ASSUME NEW k \in Key, Connect(k) PROVE TypeOK'
  BY <1>5 DEF Connect
<1>6. CASE ConnectWait BY <1>6 DEF ConnectWait, Exit, Start
<1>7. ASSUME NEW k \in Key, Visit(k) PROVE TypeOK'
  BY <1>7 DEF Visit
<1>8. CASE Visited
  <2>1. Tail(calls) # <<>> => calls = Methods[command] /\ command \in DOMAIN Methods \ {"help"}
    BY <1>8, RunningCall DEF Visited
  <2> QED BY <1>8, <2>1 DEF Visited, Exit, Start
<1>9. ASSUME NEW k \in Key, Done(k) PROVE TypeOK'
  BY <1>9 DEF Done
<1>10. CASE After BY <1>10 DEF After, Exit
<1>11. CASE UNCHANGED vars BY <1>11 DEF vars
<1> QED BY <1>1, <1>2, <1>3, <1>4, <1>5, <1>6, <1>7, <1>8, <1>9, <1>10, <1>11 DEF Next, Continue

-----------------------------------------------------------------------------
(* The invariant is inductive: one lemma per action. *)

\* Before the command nothing is wanted, connected or visited.
LEMMA InitIInv == Init => IInv
  BY InitType
  DEF Init, IInv, PhaseOK, CallsOK, ConnectOK, ConnOK, VisitOK, EveryBuilderVisited,
      ConnectionsClosed

\* The store and its options come before the farm: nothing depends on them yet.
LEMMA storeBeforeIInv ==
  ASSUME IInv, TypeOK', NEW local \in BOOLEAN, storeBefore(local)
  PROVE  IInv'
<1> USE DEF IInv, Key
<1>1. /\ phase = "before"
      /\ \/ phase' = "start" /\ exit' = exit
         \/ phase' = "end" /\ exit' = "store"
      /\ UNCHANGED <<command, calls, connect, builders, conn, todo, report, failed>>
  BY DEF storeBefore, Exit
<1>2. PhaseOK' BY <1>1 DEF PhaseOK
<1>3. ConnectOK' BY <1>1 DEF ConnectOK, PhaseOK
<1>4. ConnOK' BY <1>1 DEF ConnOK, PhaseOK
<1>5. EveryBuilderVisited' BY <1>1 DEF EveryBuilderVisited, PhaseOK
<1>6. ConnectionsClosed' BY <1>1 DEF ConnectionsClosed, PhaseOK
<1> QED BY <1>1, <1>2, <1>3, <1>4, <1>5, <1>6 DEF CallsOK, VisitOK

\* main's own command goes to its end without a farm.
LEMMA helpIInv ==
  ASSUME IInv, TypeOK', help
  PROVE  IInv'
<1> USE DEF IInv, help, commandVars
<1>1. PhaseOK' BY DEF PhaseOK
<1>2. ConnectOK' BY DEF ConnectOK, PhaseOK
<1>3. ConnOK'
  <2>1. \A k \in Key : conn[k] = "none" BY DEF ConnOK, PhaseOK
  <2> QED BY <2>1 DEF ConnOK, Key
<1>4. VisitOK' BY DEF VisitOK, PhaseOK
<1>5. EveryBuilderVisited' BY DEF EveryBuilderVisited, PhaseOK
<1>6. ConnectionsClosed' BY DEF ConnectionsClosed, PhaseOK
<1> QED BY <1>1, <1>2, <1>3, <1>4, <1>5, <1>6 DEF CallsOK

\* An error ends the command where it is: no goroutine is left, nothing is closed.
LEMMA ExitIInv ==
  ASSUME IInv, TypeOK', NEW reason, Exit(reason), reason \notin {"none", "ok", "command"},
         \A k \in Key : connect[k] # "running",
         UNCHANGED <<command, connect, builders, conn, report, failed>>
  PROVE  IInv'
<1> USE DEF IInv, Exit
<1>1. PhaseOK' BY DEF PhaseOK
<1>2. ConnectOK' BY DEF ConnectOK
<1>3. ConnOK' BY DEF ConnOK
<1> QED BY <1>1, <1>2, <1>3 DEF CallsOK, VisitOK, EveryBuilderVisited, ConnectionsClosed

\* buildCmd may end before it asks for a farm.
LEMMA buildOptionsIInv ==
  ASSUME IInv, TypeOK', buildOptions
  PROVE  IInv'
  BY ExitIInv DEF IInv, ConnectOK, buildOptions, commandVars

\* A goroutine starts for every key that is wanted.
LEMMA getFarmIInv ==
  ASSUME IInv, TypeOK', NEW names \in SUBSET NodeNames, NEW farmName \in BOOLEAN,
         getFarm(names, farmName)
  PROVE  IInv'
<1> USE DEF IInv
<1>1. /\ phase = "start"
      /\ command # "help"
      /\ asked' = names
      /\ adHoc' = (names # {})
      /\ UNCHANGED <<command, storeOptions, calls, store, builders, conn, todo, report, failed>>
  BY DEF getFarm
<1>2. CASE Exit("config") /\ UNCHANGED <<wanted, connect>>
  BY <1>1, <1>2, ExitIInv DEF ConnectOK
<1>3. CASE /\ phase' = "connect"
           /\ wanted' = wantedKeys(names, names = {})
           /\ connect' = [k \in Key |-> IF k \in wanted' THEN "running" ELSE "none"]
           /\ UNCHANGED exit
  <2>1. builders = {} /\ \A k \in Key : conn[k] = "none"
    BY <1>1 DEF PhaseOK, ConnOK
  <2>2. PhaseOK' BY <1>1, <1>3 DEF PhaseOK
  <2>3. ConnectOK'
    <3>1. wantedKeys(asked, asked = {})' = wantedKeys(names, names = {})
      BY <1>1 DEF wantedKeys
    <3> QED BY <1>1, <1>3, <3>1 DEF ConnectOK
  <2>4. ConnOK' BY <1>1, <1>3, <2>1 DEF ConnOK
  <2>5. EveryBuilderVisited' BY <1>1, <1>3 DEF EveryBuilderVisited, PhaseOK
  <2>6. ConnectionsClosed' BY <1>1, <1>3 DEF ConnectionsClosed, PhaseOK
  <2> QED BY <1>3, <2>2, <2>3, <2>4, <2>5, <2>6 DEF CallsOK, VisitOK
<1> QED BY <1>2, <1>3 DEF getFarm

\* A builder enters the farm as its goroutine ends.
LEMMA ConnectIInv ==
  ASSUME IInv, TypeOK', NEW k \in Key, Connect(k)
  PROVE  IInv'
<1> USE DEF IInv
<1>1. /\ phase = "connect"
      /\ command # "help"
      /\ connect[k] = "running"
      /\ UNCHANGED <<command, storeOptions, wanted, asked, adHoc, phase, calls, store, todo, report,
                     failed, exit>>
  BY DEF Connect, ConnectOK, PhaseOK, commandVars
<1>2. /\ connect'[k] \in {"ok", "failed"}
      /\ \A j \in Key \ {k} : connect'[j] = connect[j] /\ conn'[j] = conn[j]
      /\ connect'[k] = "ok" => conn'[k] = "open"
      /\ connect'[k] # "ok" => conn'[k] = conn[k]
      /\ builders' = builders \union {j \in {k} : connect'[k] = "ok"}
  BY DEF Connect, TypeOK
<1>3. PhaseOK' BY <1>1 DEF PhaseOK
<1>4. ConnectOK'
  <2>1. wantedKeys(asked, asked = {})' = wantedKeys(asked, asked = {})
    BY <1>1 DEF wantedKeys
  <2> QED BY <1>1, <1>2, <2>1 DEF ConnectOK
<1>5. ConnOK' BY <1>1, <1>2 DEF ConnOK
<1>6. EveryBuilderVisited' BY <1>1 DEF EveryBuilderVisited, PhaseOK
<1>7. ConnectionsClosed' BY <1>1 DEF ConnectionsClosed, PhaseOK
<1> QED BY <1>1, <1>3, <1>4, <1>5, <1>6, <1>7 DEF CallsOK, VisitOK

\* A method begins with nothing visited, and all builders to visit unless it is
\* Build.
LEMMA StartIInv ==
  ASSUME IInv, TypeOK', NEW methods, Start(methods),
         methods # <<>>, methods \in {Methods[command], Tail(Methods[command])},
         command # "help", phase \in {"connect", "work"}, phase' = "work",
         builders # {}, \A k \in Key : connect[k] \notin {"running", "failed"},
         UNCHANGED <<commandVars, store, connect, builders, conn, exit>>
  PROVE  IInv'
<1> USE DEF IInv, commandVars
<1>1. PhaseOK' BY DEF PhaseOK
<1>2. CallsOK' BY DEF CallsOK, Start
<1>3. ConnectOK'
  <2>1. wantedKeys(asked, asked = {})' = wantedKeys(asked, asked = {})
    BY DEF wantedKeys
  <2> QED BY <2>1 DEF ConnectOK
<1>4. ConnOK' BY DEF ConnOK
<1>5. VisitOK' BY DEF VisitOK, Start
<1>6. EveryBuilderVisited' BY DEF EveryBuilderVisited, PhaseOK
<1>7. ConnectionsClosed' BY DEF ConnectionsClosed, ConnOK, PhaseOK, TypeOK
<1> QED BY <1>1, <1>2, <1>3, <1>4, <1>5, <1>6, <1>7

\* The farm is returned only if no goroutine failed; otherwise the command ends.
LEMMA ConnectWaitIInv ==
  ASSUME IInv, TypeOK', ConnectWait
  PROVE  IInv'
<1> USE DEF IInv, commandVars
<1>1. /\ phase = "connect"
      /\ command # "help"
      /\ \A k \in Key : connect[k] # "running"
      /\ UNCHANGED <<commandVars, store, connect, builders, conn>>
  BY DEF ConnectWait, PhaseOK
<1>2. CASE (Exit("connect") \/ Exit("empty")) /\ UNCHANGED <<report, failed>>
  BY <1>1, <1>2, ExitIInv
<1>3. CASE /\ \A k \in Key : connect[k] # "failed"
           /\ builders # {}
           /\ phase' = "work"
           /\ Start(Methods[command])
           /\ UNCHANGED exit
  <2>1. Methods[command] # <<>> BY <1>1, CallFacts DEF TypeOK
  <2> QED BY <1>1, <1>3, <2>1, StartIInv
<1> QED BY <1>2, <1>3 DEF ConnectWait

\* A builder leaves what is to be visited with an answer or an error.
LEMMA VisitIInv ==
  ASSUME IInv, TypeOK', NEW k \in Key, Visit(k)
  PROVE  IInv'
<1> USE DEF IInv, commandVars
<1>1. /\ phase = "work"
      /\ k \in todo
      /\ todo' = todo \ {k}
      /\ report' \union failed' = report \union failed \union {k}
      /\ UNCHANGED <<commandVars, phase, calls, store, connect, builders, conn, exit>>
  BY DEF Visit
<1>2. PhaseOK' BY <1>1 DEF PhaseOK
<1>3. CallsOK' BY <1>1 DEF CallsOK
<1>4. ConnectOK'
  <2>1. wantedKeys(asked, asked = {})' = wantedKeys(asked, asked = {})
    BY <1>1 DEF wantedKeys
  <2> QED BY <1>1, <2>1 DEF ConnectOK
<1>5. ConnOK' BY <1>1 DEF ConnOK
<1>6. VisitOK' BY <1>1 DEF VisitOK
<1>7. EveryBuilderVisited' BY <1>1 DEF EveryBuilderVisited, PhaseOK
<1>8. ConnectionsClosed' BY <1>1 DEF ConnectionsClosed, PhaseOK
<1> QED BY <1>2, <1>3, <1>4, <1>5, <1>6, <1>7, <1>8

\* After a method: its error ends the command, another method follows, or Done
\* has every builder to visit.
LEMMA VisitedIInv ==
  ASSUME IInv, TypeOK', Visited
  PROVE  IInv'
<1> USE DEF IInv, commandVars
<1>1. /\ phase = "work"
      /\ todo = {}
      /\ command # "help"
      /\ \A k \in Key : connect[k] \notin {"running", "failed"}
      /\ builders # {}
      /\ UNCHANGED <<commandVars, store, connect, builders, conn>>
  BY RunningCall DEF Visited, ConnectOK
<1>2. command # "build" => report \union failed = builders
  BY <1>1, RunningCall DEF VisitOK
<1>3. CASE Exit("command") /\ UNCHANGED <<calls, todo, report, failed>>
  <2>1. PhaseOK' BY <1>1, <1>3 DEF PhaseOK, Exit
  <2>2. ConnectOK' BY <1>1, <1>3 DEF ConnectOK, Exit
  <2>3. ConnOK' BY <1>1, <1>3 DEF ConnOK, Exit
  <2>4. EveryBuilderVisited' BY <1>1, <1>2, <1>3 DEF EveryBuilderVisited, Exit
  <2>5. ConnectionsClosed' BY <1>3 DEF ConnectionsClosed, Exit
  <2> QED BY <1>3, <2>1, <2>2, <2>3, <2>4, <2>5 DEF CallsOK, VisitOK, Exit
<1>4. CASE Tail(calls) # <<>> /\ Start(Tail(calls)) /\ UNCHANGED <<phase, exit>>
  <2>1. calls = Methods[command] BY <1>1, <1>4, RunningCall
  <2> QED BY <1>1, <1>4, <2>1, StartIInv
<1>5. CASE failed = {} /\ phase' = "after" /\ todo' = builders /\ UNCHANGED <<calls, report, failed, exit>>
  <2>1. PhaseOK' BY <1>1, <1>5 DEF PhaseOK
  <2>2. ConnectOK'
    <3>1. wantedKeys(asked, asked = {})' = wantedKeys(asked, asked = {})
      BY <1>1 DEF wantedKeys
    <3> QED BY <1>1, <1>5, <3>1 DEF ConnectOK
  <2>3. ConnOK' BY <1>1, <1>5 DEF ConnOK, Key
  <2>4. VisitOK' BY <1>1, <1>2, <1>5 DEF VisitOK
  <2>5. EveryBuilderVisited' BY <1>1, <1>5 DEF EveryBuilderVisited, PhaseOK
  <2>6. ConnectionsClosed' BY <1>1, <1>5 DEF ConnectionsClosed, PhaseOK
  <2> QED BY <1>5, <2>1, <2>2, <2>3, <2>4, <2>5, <2>6 DEF CallsOK
<1> QED BY <1>3, <1>4, <1>5 DEF Visited

\* A remote builder's connection is closed as Done visits it.
LEMMA DoneIInv ==
  ASSUME IInv, TypeOK', NEW k \in Key, Done(k)
  PROVE  IInv'
<1> USE DEF IInv, commandVars
<1>1. /\ phase = "after"
      /\ todo' = todo \ {k}
      /\ UNCHANGED <<commandVars, phase, calls, store, connect, builders, report, failed, exit>>
  BY DEF Done
<1>2. /\ \A j \in Key \ {k} : conn'[j] = conn[j]
      /\ k # LocalKey => conn'[k] # "open"
      /\ conn[k] = "none" => conn'[k] = "none"
  BY DEF Done, TypeOK
<1>3. PhaseOK' BY <1>1 DEF PhaseOK
<1>4. ConnectOK'
  <2>1. wantedKeys(asked, asked = {})' = wantedKeys(asked, asked = {})
    BY <1>1 DEF wantedKeys
  <2> QED BY <1>1, <2>1 DEF ConnectOK
<1>5. ConnOK'
  <2>1. \A d \in Destination : d \in Key /\ d # LocalKey
    BY NamesAssumption DEF Key
  <2> QED BY <1>1, <1>2, <2>1 DEF ConnOK
<1>6. EveryBuilderVisited' BY <1>1 DEF EveryBuilderVisited, PhaseOK
<1>7. ConnectionsClosed' BY <1>1 DEF ConnectionsClosed, PhaseOK
<1> QED BY <1>1, <1>3, <1>4, <1>5, <1>6, <1>7 DEF CallsOK, VisitOK

\* The end: Done has visited every builder, and the store is shut down or not.
LEMMA AfterIInv ==
  ASSUME IInv, TypeOK', After
  PROVE  IInv'
<1> USE DEF IInv, commandVars
<1>1. /\ phase = "after"
      /\ todo = {}
      /\ \A k \in Key : connect[k] # "running"
      /\ UNCHANGED <<commandVars, calls, connect, builders, conn, todo, report, failed>>
  BY DEF After, ConnectOK
<1>2. CASE Exit("store") BY <1>1, <1>2, ExitIInv
<1>3. CASE Exit("ok") /\ store' # "open"
  <2>1. PhaseOK' BY <1>1, <1>3 DEF PhaseOK, Exit
  <2>2. ConnectOK' BY <1>1, <1>3 DEF ConnectOK, Exit
  <2>3. ConnOK' BY <1>1, <1>3 DEF ConnOK, Exit
  <2>4. EveryBuilderVisited' BY <1>1, <1>3 DEF EveryBuilderVisited, VisitOK, Exit
  <2>5. ConnectionsClosed' BY <1>1, <1>3 DEF ConnectionsClosed, ConnOK, Exit
  <2> QED BY <1>3, <2>1, <2>2, <2>3, <2>4, <2>5 DEF CallsOK, VisitOK, Exit
<1> QED BY <1>2, <1>3 DEF After

-----------------------------------------------------------------------------
(* The theorems. *)

\* Every step of the specification preserves IInv.
LEMMA NextIInv == IInv /\ [Next]_vars => IInv'
<1> SUFFICES ASSUME IInv, [Next]_vars PROVE IInv'
  OBVIOUS
<1>1. TypeOK' BY NextType
<1>2. CASE UNCHANGED vars
  <2>1. wantedKeys(asked, asked = {})' = wantedKeys(asked, asked = {})
    BY <1>2 DEF vars, commandVars, wantedKeys
  <2> QED BY <1>1, <1>2, <2>1
    DEF vars, commandVars, IInv, PhaseOK, CallsOK, ConnectOK, ConnOK, VisitOK, EveryBuilderVisited,
        ConnectionsClosed
<1>3. CASE Next
  BY <1>1, <1>3, storeBeforeIInv, helpIInv, buildOptionsIInv, getFarmIInv, ConnectIInv,
     ConnectWaitIInv, VisitIInv, VisitedIInv, DoneIInv, AfterIInv
  DEF Next, Continue
<1> QED BY <1>2, <1>3

\* The inductive invariant holds of every state of a command.
THEOREM Invariant == Spec => []IInv
<1> QED BY InitIInv, NextIInv, PTL DEF Spec

\* The state of a command is always well typed: after its last method there is
\* no call to make, and the farm's builders are configured destinations or the
\* local builder.
THEOREM TypeInvariant == Spec => []TypeOK
<1>1. IInv => TypeOK BY DEF IInv
<1> QED BY <1>1, Invariant, PTL

\* A farm that is returned has exactly the destinations that were asked for,
\* whatever fails while the connections are made in parallel.
THEOREM FarmIsComplete == Spec => []FarmComplete
<1>1. IInv => FarmComplete
  <2> SUFFICES ASSUME IInv, Ready PROVE FarmComplete
    BY DEF FarmComplete
  <2>1. /\ builders # {}
        /\ \A k \in Key : k \in builders <=> k \in wantedKeys(asked, asked = {})
        /\ adHoc <=> asked # {}
    BY DEF Ready, IInv, ConnectOK, ConnOK, TypeOK
  <2>2. \A d \in Destination : d \in wantedKeys(asked, asked = {}) <=> asked = {} \/ d \in asked
    BY NamesAssumption DEF wantedKeys
  <2>3. LocalKey \in wantedKeys(asked, asked = {}) => storeOptions
    BY NamesAssumption DEF wantedKeys
  <2> QED BY <2>1, <2>2, <2>3 DEF FarmComplete, Key
<1> QED BY <1>1, Invariant, PTL

\* Every builder is visited in spite of errors, and none of them is hidden by
\* the command's success.
THEOREM EveryBuilderIsVisited == Spec => []EveryBuilderVisited
<1>1. IInv => EveryBuilderVisited BY DEF IInv
<1> QED BY <1>1, Invariant, PTL

\* No connection is closed under a method, and none is left open by success.
THEOREM ConnectionsAreClosed == Spec => []ConnectionsClosed
<1>1. IInv => ConnectionsClosed BY DEF IInv
<1> QED BY <1>1, Invariant, PTL
=============================================================================
