------------------------------ MODULE Scheduler ------------------------------
(***************************************************************************)
(* What Farm.Schedule promises, without the goroutines: once every builder *)
(* of the farm has been asked for its platforms, one step answers the      *)
(* pending request, either with an acceptable schedule or with an error    *)
(* that has a cause.  Module Farm is shown to implement this.              *)
(***************************************************************************)

EXTENDS Schedules

VARIABLES
  once,               \* per builder: "fresh", or the lasting result "ok" / "failed"
  nativePlatforms,    \* what the builder said it builds natively
  emulatedPlatforms,  \* what the builder said it builds under emulation
  asking,             \* a Schedule call is in progress
  request,            \* the platforms asked for; {} asks for every native one
  outcome             \* what the last call returned, until the next call

vars == <<once, nativePlatforms, emulatedPlatforms, asking, request, outcome>>

cache == <<once, nativePlatforms, emulatedPlatforms>>

NoOutcome == [err |-> "pending", platformBuilders |-> EmptyMap]

AllNative == UNION {nativePlatforms[b] : b \in Builder}

Targets == IF request = {} THEN AllNative ELSE request

Init ==
  /\ once = [b \in Builder |-> "fresh"]
  /\ nativePlatforms = [b \in Builder |-> {}]
  /\ emulatedPlatforms = [b \in Builder |-> {}]
  /\ asking = FALSE
  /\ request = {}
  /\ outcome = NoOutcome

\* A caller asks; an earlier outcome has been consumed.
Ask(req) ==
  /\ ~asking
  /\ asking' = TRUE
  /\ request' = req
  /\ outcome' = NoOutcome
  /\ UNCHANGED cache

\* The outcome is consumed because the farm serves some other call.
Consume ==
  /\ ~asking
  /\ request' = {}
  /\ outcome' = NoOutcome
  /\ UNCHANGED <<cache, asking>>

\* A builder's platforms become known, once and for all.
Learn(b) ==
  /\ once[b] = "fresh"
  /\ \/ /\ once' = [once EXCEPT ![b] = "failed"]
        /\ nativePlatforms' = [nativePlatforms EXCEPT ![b] = {}]
        /\ UNCHANGED emulatedPlatforms
     \/ \E n, e \in SUBSET Platform :
          /\ once' = [once EXCEPT ![b] = "ok"]
          /\ nativePlatforms' = [nativePlatforms EXCEPT ![b] = n]
          /\ emulatedPlatforms' = [emulatedPlatforms EXCEPT ![b] = e]
  /\ UNCHANGED <<asking, request, outcome>>

Refuse(reason) == outcome' = [err |-> reason, platformBuilders |-> EmptyMap]

Answer ==
  /\ asking
  /\ \A b \in Builder : once[b] # "fresh"
  /\ asking' = FALSE
  /\ \/ /\ \E b \in Builder : once[b] = "failed"
        /\ Refuse("query")
     \/ /\ \A b \in Builder : once[b] = "ok"
        /\ request # {}
        /\ Unbuildable(request, nativePlatforms, emulatedPlatforms)
        /\ Refuse("nobuilder")
     \/ /\ \A b \in Builder : once[b] = "ok"
        /\ \E pb \in BuilderMap :
             /\ Acceptable(pb, Targets, nativePlatforms, emulatedPlatforms)
             /\ outcome' = [err |-> "none", platformBuilders |-> pb]
  /\ UNCHANGED <<cache, request>>

Next ==
  \/ \E req \in SUBSET Platform : Ask(req)
  \/ Consume
  \/ \E b \in Builder : Learn(b)
  \/ Answer

Spec == Init /\ [][Next]_vars
=============================================================================
