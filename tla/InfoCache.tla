------------------------------ MODULE InfoCache ------------------------------
(***************************************************************************)
(* What an image builder promises about its platform: it is found out at   *)
(* most once, and every caller is told what was found then.  Farm relies   *)
(* on it when it asks a builder twice in one call of Schedule.             *)
(***************************************************************************)
CONSTANTS
  Caller,   \* goroutines that use the builder
  Answers,  \* the platforms of the host, or an error
  Unknown   \* nothing has been found out, or told

VARIABLES
  answer,  \* what the builder has found out
  told     \* what each caller was told last

vars == <<answer, told>>

Init ==
  /\ answer = Unknown
  /\ told = [c \in Caller |-> Unknown]

Learn ==
  /\ answer = Unknown
  /\ answer' \in Answers
  /\ UNCHANGED told

Tell(c) ==
  /\ answer # Unknown
  /\ told' = [told EXCEPT ![c] = answer]
  /\ UNCHANGED answer

Next == Learn \/ \E c \in Caller : Tell(c)

Spec == Init /\ [][Next]_vars
=============================================================================
