----------------------------- MODULE FarmProofs -----------------------------
(***************************************************************************)
(* Proofs about module Farm for any set of builders and platforms.         *)
(*                                                                         *)
(* The properties of Farm speak of states in which a query has returned.   *)
(* IInv says what holds on the way there: what a goroutine's state implies *)
(* about its builder's cache, and how the maps that the goroutines fill    *)
(* relate to the goroutines that have finished.                            *)
(***************************************************************************)
EXTENDS Farm, TLAPS

-----------------------------------------------------------------------------
(* The inductive invariant. *)

\* Which method runs which fan-out; nothing is returned before the end.
PhaseOK ==
  /\ phase = "native" => op = "NativePlatforms" \/ (op = "Schedule" /\ request = {})
  /\ phase = "emulated" => op = "EmulatedPlatforms"
  /\ phase = "status" => op = "Status"
  /\ phase \in {"info", "assign"} => op = "Schedule"
  /\ phase = "idle" => op = "none"
  /\ phase # "done" => err = "none" /\ platformBuilders = EmptyMap

\* A goroutine that has been answered knows its builder's lasting result.
TaskOK ==
  /\ phase \in FanOuts => \A b \in Builder : task[b] # "none"
  /\ phase \in {"native", "emulated", "info"} => \A b \in Builder :
       /\ task[b] \in {"answered", "ok"} => once[b] = "ok"
       /\ task[b] = "failed" => once[b] = "failed"
  /\ phase = "assign" => \A b \in Builder : task[b] = "ok" /\ once[b] = "ok"

\* The list so far is the union of the lists of the finished goroutines.
FoundOK ==
  /\ phase = "native" => \A p \in Platform :
       p \in found <=> \E b \in Builder : task[b] = "ok" /\ p \in nativePlatforms[b]
  /\ phase = "emulated" => \A p \in Platform :
       p \in found <=> \E b \in Builder : task[b] = "ok" /\ p \in emulatedPlatforms[b]

StatusOK ==
  phase = "status" => \A b \in Builder :
    /\ task[b] = "ok" => status[b] = "ready"
    /\ task[b] = "failed" => status[b] = "down"

\* The builders whose goroutine has merged its answer.
Merged == {b \in Builder : task[b] = "ok"}

\* A map of notes names merged builders only, truly, and has a note of every
\* platform of every merged builder.
Notes(map, platformsOf, merged) ==
  \A p \in Platform :
    /\ map[p] # NoBuilder => map[p] \in merged /\ p \in platformsOf[map[p]]
    /\ \A b \in merged : p \in platformsOf[b] => map[p] # NoBuilder

NotesOK ==
  /\ phase = "native" => native = EmptyMap /\ emulated = EmptyMap
  /\ phase \in {"info", "assign"} =>
       /\ Notes(native, nativePlatforms, Merged)
       /\ Notes(emulated, emulatedPlatforms, Merged)

\* Once the targets are fixed they stay what was asked for.
TargetsOK ==
  phase \in {"info", "assign"} =>
    IF request = {}
      THEN /\ \A b \in Builder : once[b] = "ok"
           /\ \A p \in Platform :
                p \in platforms <=> \E b \in Builder : p \in nativePlatforms[b]
      ELSE platforms = request

Results ==
  /\ ScheduleSound
  /\ ErrorHasCause
  /\ DefaultAlwaysSchedulable
  /\ ListsComplete
  /\ StatusComplete

IInv ==
  /\ TypeOK
  /\ PhaseOK
  /\ TaskOK
  /\ FoundOK
  /\ StatusOK
  /\ NotesOK
  /\ TargetsOK
  /\ Results

-----------------------------------------------------------------------------
(* Types. *)

\* The initial state of a farm is well typed.
LEMMA InitType == Init => TypeOK
  BY DEF Init, TypeOK, BuilderMap, EmptyMap

\* The first-wins update of the notes keeps a map a map.
LEMMA AssignNewType ==
  ASSUME NEW map \in BuilderMap, NEW ps \in SUBSET Platform, NEW b \in Builder
  PROVE  assignNew(map, ps, b) \in BuilderMap
  BY DEF assignNew, BuilderMap

\* The sync.Once of a builder keeps the builders' caches well typed.
LEMMA PlatformsDoType ==
  ASSUME TypeOK, NEW b \in Builder, platformsDo(b)
  PROVE  /\ once' \in [Builder -> {"fresh", "ok", "failed"}]
         /\ nativePlatforms' \in [Builder -> SUBSET Platform]
         /\ emulatedPlatforms' \in [Builder -> SUBSET Platform]
<1>1. CASE UNCHANGED cache
  BY <1>1 DEF TypeOK, cache
<1>2. CASE fetchInfo(b)
  BY <1>2 DEF TypeOK, fetchInfo
<1> QED BY <1>1, <1>2 DEF platformsDo

\* Every step of a query keeps the farm's state well typed.
LEMMA NextType == TypeOK /\ [Next]_vars => TypeOK'
<1> SUFFICES ASSUME TypeOK, [Next]_vars PROVE TypeOK'
  OBVIOUS
<1>1. ASSUME NEW query \in Queries, NEW first \in FanOuts, NEW req \in SUBSET Platform,
             Begin(query, first, req)
      PROVE  TypeOK'
  BY <1>1 DEF TypeOK, Begin, SpawnAll, cache, BuilderMap, EmptyMap
<1>2. ASSUME NEW b \in Builder, AskBuilder(b) PROVE TypeOK'
  BY <1>2, PlatformsDoType DEF TypeOK, AskBuilder
<1>3. ASSUME NEW b \in Builder, MergeNative(b) PROVE TypeOK'
  BY <1>3 DEF TypeOK, MergeNative, cache
<1>4. ASSUME NEW b \in Builder, MergeEmulated(b) PROVE TypeOK'
  BY <1>4 DEF TypeOK, MergeEmulated, cache
<1>5. ASSUME NEW b \in Builder, MergeStatus(b) PROVE TypeOK'
  BY <1>5 DEF TypeOK, MergeStatus, cache
<1>6. ASSUME NEW b \in Builder, MergeInfo(b) PROVE TypeOK'
  BY <1>6, AssignNewType DEF TypeOK, MergeInfo, cache
<1>7. CASE NativeWait
  BY <1>7 DEF TypeOK, NativeWait, Return, SpawnAll, cache, FanOuts
<1>8. CASE EmulatedWait
  BY <1>8 DEF TypeOK, EmulatedWait, Return, cache
<1>9. CASE StatusWait
  BY <1>9 DEF TypeOK, StatusWait, Return, cache
<1>10. CASE InfoWait
  BY <1>10 DEF TypeOK, InfoWait, Return, cache
<1>11. CASE Assign
  <2>1. platformBuilders' \in BuilderMap
    BY <1>11 DEF TypeOK, Assign, Return, BuilderMap, pickBuilder
  <2> QED BY <1>11, <2>1 DEF TypeOK, Assign, Return, cache
<1>12. CASE UNCHANGED vars
  BY <1>12 DEF TypeOK, vars
<1> QED
  BY <1>1, <1>2, <1>3, <1>4, <1>5, <1>6, <1>7, <1>8, <1>9, <1>10, <1>11, <1>12
  DEF Next, Goroutine, Continue, NativePlatforms, EmulatedPlatforms, Status, Schedule,
      Queries, FanOuts

\* The farm's state is always well typed: in particular every note and every
\* entry of a schedule names a builder of the farm.
THEOREM TypeInvariant == Spec => []TypeOK
<1> QED BY InitType, NextType, PTL DEF Spec

-----------------------------------------------------------------------------
(* The invariant is inductive: one lemma per action. *)

\* The initial state, in which no query has been made, satisfies IInv.
LEMMA InitIInv == Init => IInv
<1> SUFFICES ASSUME Init PROVE IInv
  OBVIOUS
<1>1. TypeOK
  BY InitType
<1> QED
  BY <1>1 DEF Init, IInv, PhaseOK, TaskOK, FoundOK, StatusOK, NotesOK, TargetsOK,
              Results, ScheduleSound, ErrorHasCause, DefaultAlwaysSchedulable,
              ListsComplete, StatusComplete, Finished, FanOuts

\* A call starts with no goroutine finished and with empty maps.
LEMMA BeginIInv ==
  ASSUME IInv, TypeOK', NEW query \in Queries, NEW first \in FanOuts,
         NEW req \in SUBSET Platform, Begin(query, first, req),
         first = "native" => query = "NativePlatforms" \/ (query = "Schedule" /\ req = {}),
         first = "emulated" => query = "EmulatedPlatforms",
         first = "status" => query = "Status",
         first = "info" => query = "Schedule" /\ req # {}
  PROVE  IInv'
<1> USE DEF Begin, FanOuts
<1>1. PhaseOK' BY DEF PhaseOK
<1>2. TaskOK' BY DEF TaskOK, SpawnAll
<1>3. FoundOK' BY DEF FoundOK, SpawnAll
<1>4. StatusOK' BY DEF StatusOK, SpawnAll
<1>5. NotesOK' BY DEF NotesOK, Notes, Merged, SpawnAll, EmptyMap
<1>6. TargetsOK' BY DEF TargetsOK
<1>7. Results'
  BY DEF Results, ScheduleSound, ErrorHasCause, DefaultAlwaysSchedulable,
         ListsComplete, StatusComplete, Finished
<1> QED BY <1>1, <1>2, <1>3, <1>4, <1>5, <1>6, <1>7 DEF IInv

\* Nothing is claimed of results while a query runs.
LEMMA NotDone ==
  ASSUME phase' # "done" PROVE Results'
  BY DEF Results, ScheduleSound, ErrorHasCause, DefaultAlwaysSchedulable,
         ListsComplete, StatusComplete, Finished

\* Asking a builder disturbs no fact about the others, and none about a builder
\* whose sync.Once has run.
LEMMA AskBuilderIInv ==
  ASSUME IInv, TypeOK', NEW b \in Builder, AskBuilder(b)
  PROVE  IInv'
<1> USE DEF IInv
<1>1. /\ phase \in FanOuts
      /\ task[b] = "running"
      /\ UNCHANGED <<op, phase, found, status, request, platforms, native, emulated,
                     platformBuilders, err>>
      /\ platformsDo(b)
  BY DEF AskBuilder
<1>2. \A c \in Builder \ {b} : task'[c] = task[c]
  BY DEF AskBuilder, TypeOK
<1>3. \A c \in Builder : c # b \/ once[b] # "fresh" =>
        /\ once'[c] = once[c]
        /\ nativePlatforms'[c] = nativePlatforms[c]
        /\ emulatedPlatforms'[c] = emulatedPlatforms[c]
  <2>1. CASE UNCHANGED cache BY <2>1 DEF cache
  <2>2. CASE once[b] = "fresh" /\ fetchInfo(b)
    BY <2>2 DEF fetchInfo, TypeOK
  <2> QED BY <1>1, <2>1, <2>2 DEF platformsDo
<1>4. /\ once'[b] \in {"ok", "failed"}
      /\ task'[b] = IF once'[b] = "failed" /\ phase # "status" THEN "failed" ELSE "answered"
  <2>1. once'[b] # "fresh"
    BY <1>1 DEF platformsDo, fetchInfo, cache, TypeOK
  <2> QED BY <2>1 DEF AskBuilder, TypeOK
<1>5. \A c \in Builder : task'[c] = "ok" <=> task[c] = "ok"
  BY <1>1, <1>2, <1>4
<1>6. PhaseOK' BY <1>1 DEF PhaseOK
<1>7. TaskOK'
  <2>1. phase \in {"native", "emulated", "status", "info"}
    BY <1>1 DEF FanOuts
  <2>2. \A c \in Builder : task'[c] # "none"
    BY <1>1, <1>2, <1>4 DEF TaskOK
  <2>3. ASSUME phase # "status", NEW c \in Builder
        PROVE  /\ task'[c] \in {"answered", "ok"} => once'[c] = "ok"
               /\ task'[c] = "failed" => once'[c] = "failed"
    BY <2>1, <2>3, <1>2, <1>3, <1>4 DEF TaskOK
  <2> QED BY <1>1, <2>1, <2>2, <2>3 DEF TaskOK
<1>8. FoundOK'
  <2>1. \A c \in Builder : task[c] = "ok" =>
          /\ nativePlatforms'[c] = nativePlatforms[c]
          /\ emulatedPlatforms'[c] = emulatedPlatforms[c]
    BY <1>1, <1>3
  <2> QED BY <1>1, <1>5, <2>1 DEF FoundOK
<1>9. StatusOK'
  <2>1. CASE phase = "status"
    BY <2>1, <1>1, <1>2, <1>4 DEF StatusOK
  <2> QED BY <1>1, <2>1 DEF StatusOK
<1>10. NotesOK'
  <2>1. CASE phase = "native"
    BY <2>1, <1>1 DEF NotesOK
  <2>2. CASE phase = "info"
    <3>0. Merged' = Merged
      BY <1>5 DEF Merged
    <3>1. \A c \in Builder : task[c] = "ok" =>
            /\ nativePlatforms'[c] = nativePlatforms[c]
            /\ emulatedPlatforms'[c] = emulatedPlatforms[c]
      BY <1>1, <1>3
    <3>2. Notes(native, nativePlatforms, Merged)'
      BY <2>2, <1>1, <3>0, <3>1 DEF NotesOK, Notes, Merged
    <3>3. Notes(emulated, emulatedPlatforms, Merged)'
      BY <2>2, <1>1, <3>0, <3>1 DEF NotesOK, Notes, Merged
    <3> QED BY <2>2, <1>1, <3>2, <3>3 DEF NotesOK
  <2> QED BY <1>1, <2>1, <2>2 DEF NotesOK, FanOuts
<1>11. TargetsOK'
  <2>1. CASE phase = "info" /\ request = {}
    <3>1. once[b] # "fresh"
      BY <2>1 DEF TargetsOK
    <3> QED BY <2>1, <3>1, <1>1, <1>3 DEF TargetsOK
  <2>2. CASE phase # "info" \/ request # {}
    BY <2>2, <1>1 DEF TargetsOK, FanOuts
  <2> QED BY <2>1, <2>2
<1>12. Results'
  <2>1. phase' # "done" BY <1>1 DEF FanOuts
  <2> QED BY <2>1, NotDone
<1> QED BY <1>6, <1>7, <1>8, <1>9, <1>10, <1>11, <1>12

\* Merging one builder's list keeps the list the union of the merged ones.
LEMMA MergeListIInv ==
  ASSUME IInv, TypeOK', NEW b \in Builder, MergeNative(b) \/ MergeEmulated(b)
  PROVE  IInv'
<1> USE DEF IInv
<1>1. /\ phase \in {"native", "emulated"}
      /\ task[b] = "answered"
      /\ task' = [task EXCEPT ![b] = "ok"]
      /\ found' = found \union
           (IF phase = "native" THEN nativePlatforms[b] ELSE emulatedPlatforms[b])
      /\ UNCHANGED <<once, nativePlatforms, emulatedPlatforms, op, phase, status, request,
                     platforms, native, emulated, platformBuilders, err>>
  BY DEF MergeNative, MergeEmulated, cache
<1>2. /\ task'[b] = "ok"
      /\ \A c \in Builder \ {b} : task'[c] = task[c]
  BY <1>1 DEF TypeOK
<1>3. PhaseOK' BY <1>1 DEF PhaseOK
<1>4. TaskOK' BY <1>1, <1>2 DEF TaskOK, FanOuts
<1>5. FoundOK' BY <1>1, <1>2 DEF FoundOK, TypeOK
<1>6. StatusOK' BY <1>1 DEF StatusOK
<1>7. NotesOK' BY <1>1 DEF NotesOK
<1>8. TargetsOK' BY <1>1 DEF TargetsOK
<1>9. Results' BY <1>1, NotDone
<1> QED BY <1>3, <1>4, <1>5, <1>6, <1>7, <1>8, <1>9

\* Recording one builder's status concerns that builder alone.
LEMMA MergeStatusIInv ==
  ASSUME IInv, TypeOK', NEW b \in Builder, MergeStatus(b)
  PROVE  IInv'
<1> USE DEF IInv
<1>1. PICK config \in {"ready", "down"} :
        /\ status' = [status EXCEPT ![b] = config]
        /\ task' = [task EXCEPT ![b] = IF config = "ready" THEN "ok" ELSE "failed"]
  BY DEF MergeStatus
<1>2. /\ phase = "status"
      /\ UNCHANGED <<once, nativePlatforms, emulatedPlatforms, op, phase, found, request,
                     platforms, native, emulated, platformBuilders, err>>
  BY DEF MergeStatus, cache
<1>3. PhaseOK' BY <1>2 DEF PhaseOK
<1>4. TaskOK' BY <1>1, <1>2 DEF TaskOK, TypeOK
<1>5. FoundOK' BY <1>2 DEF FoundOK
<1>6. StatusOK' BY <1>1, <1>2 DEF StatusOK, TypeOK
<1>7. NotesOK' BY <1>2 DEF NotesOK
<1>8. TargetsOK' BY <1>2 DEF TargetsOK
<1>9. Results' BY <1>2, NotDone
<1> QED BY <1>3, <1>4, <1>5, <1>6, <1>7, <1>8, <1>9

\* A first-wins update with the platforms of one more builder keeps the notes
\* true and complete.
LEMMA AssignNewNotes ==
  ASSUME NEW b \in Builder, NEW map \in BuilderMap, NEW merged \in SUBSET Builder,
         NEW platformsOf \in [Builder -> SUBSET Platform],
         Notes(map, platformsOf, merged)
  PROVE  Notes(assignNew(map, platformsOf[b], b), platformsOf, merged \union {b})
<1> DEFINE new == assignNew(map, platformsOf[b], b)
<1> SUFFICES ASSUME NEW p \in Platform
             PROVE  /\ new[p] # NoBuilder =>
                         new[p] \in merged \union {b} /\ p \in platformsOf[new[p]]
                    /\ \A c \in merged \union {b} : p \in platformsOf[c] => new[p] # NoBuilder
  BY DEF Notes
<1>1. new[p] = IF p \in platformsOf[b] /\ map[p] = NoBuilder THEN b ELSE map[p]
  BY DEF assignNew
<1> HIDE DEF new
<1> QED BY <1>1, BuilderAssumption DEF Notes

\* The critical section of Schedule's goroutine keeps both maps of notes true.
LEMMA MergeInfoIInv ==
  ASSUME IInv, TypeOK', NEW b \in Builder, MergeInfo(b)
  PROVE  IInv'
<1> USE DEF IInv
<1>1. /\ phase = "info"
      /\ task[b] = "answered"
      /\ task' = [task EXCEPT ![b] = "ok"]
      /\ native' = assignNew(native, nativePlatforms[b], b)
      /\ emulated' = assignNew(emulated, emulatedPlatforms[b], b)
      /\ UNCHANGED <<once, nativePlatforms, emulatedPlatforms, op, phase, found, status,
                     request, platforms, platformBuilders, err>>
  BY DEF MergeInfo, cache
<1>2. /\ task'[b] = "ok"
      /\ \A c \in Builder \ {b} : task'[c] = task[c]
  BY <1>1 DEF TypeOK
<1>3. PhaseOK' BY <1>1 DEF PhaseOK
<1>4. TaskOK' BY <1>1, <1>2 DEF TaskOK, FanOuts
<1>5. FoundOK' BY <1>1 DEF FoundOK
<1>6. StatusOK' BY <1>1 DEF StatusOK
<1>7. NotesOK'
  <2>1. Notes(native, nativePlatforms, Merged) /\ Notes(emulated, emulatedPlatforms, Merged)
    BY <1>1 DEF NotesOK
  <2>2. Merged' = Merged \union {b}
    BY <1>2 DEF Merged
  <2>3. /\ native \in BuilderMap /\ emulated \in BuilderMap
        /\ nativePlatforms \in [Builder -> SUBSET Platform]
        /\ emulatedPlatforms \in [Builder -> SUBSET Platform]
        /\ Merged \in SUBSET Builder
    BY DEF TypeOK, Merged
  <2>4. Notes(native', nativePlatforms, Merged')
    BY <1>1, <2>1, <2>2, <2>3, AssignNewNotes
  <2>5. Notes(emulated', emulatedPlatforms, Merged')
    BY <1>1, <2>1, <2>2, <2>3, AssignNewNotes
  <2> QED BY <1>1, <2>4, <2>5 DEF NotesOK, Notes
<1>8. TargetsOK' BY <1>1 DEF TargetsOK
<1>9. Results' BY <1>1, NotDone
<1> QED BY <1>3, <1>4, <1>5, <1>6, <1>7, <1>8, <1>9

\* The end of the native fan-out: NativePlatforms returns the whole union, and
\* Schedule takes it for its targets, every builder having answered.
LEMMA NativeWaitIInv ==
  ASSUME IInv, TypeOK', NativeWait
  PROVE  IInv'
<1> USE DEF IInv, NativeWait, Return
<1>1. /\ phase = "native"
      /\ Joined
      /\ UNCHANGED <<once, nativePlatforms, emulatedPlatforms, op, status, request,
                     native, emulated, platformBuilders>>
  BY DEF cache
<1>2. op = "NativePlatforms" \/ (op = "Schedule" /\ request = {})
  BY <1>1 DEF PhaseOK
<1>3. AnyFailed <=> \E b \in Builder : once[b] = "failed"
  BY <1>1 DEF AnyFailed, Joined, TaskOK
<1>4. ASSUME ~AnyFailed
      PROVE  /\ \A b \in Builder : task[b] = "ok" /\ once[b] = "ok"
             /\ \A p \in Platform : p \in found <=> \E b \in Builder : p \in nativePlatforms[b]
  BY <1>1, <1>4 DEF AnyFailed, Joined, TaskOK, FoundOK
<1>5. CASE AnyFailed
  <2>1. phase' = "done" /\ err' = "query"
    BY <1>5
  <2>2. Results'
    BY <1>1, <1>2, <1>3, <1>5, <2>1
    DEF Results, ScheduleSound, ErrorHasCause, DefaultAlwaysSchedulable,
        ListsComplete, StatusComplete, Finished
  <2> QED BY <2>1, <2>2 DEF PhaseOK, TaskOK, FoundOK, StatusOK, NotesOK, TargetsOK, FanOuts
<1>6. CASE ~AnyFailed /\ op = "NativePlatforms"
  <2>1. phase' = "done" /\ err' = "none" /\ found' = found
    BY <1>6
  <2>2. found = AllNative
    BY <1>4, <1>6 DEF AllNative, TypeOK
  <2>3. Results'
    BY <1>1, <1>3, <1>6, <2>1, <2>2
    DEF Results, ScheduleSound, ErrorHasCause, DefaultAlwaysSchedulable,
        ListsComplete, StatusComplete, Finished, AllNative
  <2> QED BY <2>1, <2>3 DEF PhaseOK, TaskOK, FoundOK, StatusOK, NotesOK, TargetsOK, FanOuts
<1>7. CASE ~AnyFailed /\ op = "Schedule"
  <2>1. phase' = "info" /\ err' = err /\ platforms' = found /\ SpawnAll
    BY <1>7
  <2>2. PhaseOK' BY <1>1, <1>7, <2>1 DEF PhaseOK
  <2>3. TaskOK' BY <2>1 DEF TaskOK, SpawnAll
  <2>4. FoundOK' BY <2>1 DEF FoundOK
  <2>5. StatusOK' BY <2>1 DEF StatusOK
  <2>6. NotesOK'
    <3>1. native = EmptyMap /\ emulated = EmptyMap
      BY <1>1 DEF NotesOK
    <3> QED BY <1>1, <2>1, <3>1 DEF NotesOK, Notes, Merged, SpawnAll, EmptyMap
  <2>7. TargetsOK' BY <1>1, <1>2, <1>4, <1>7, <2>1 DEF TargetsOK
  <2>8. Results' BY <2>1, NotDone
  <2> QED BY <2>2, <2>3, <2>4, <2>5, <2>6, <2>7, <2>8
<1> QED BY <1>2, <1>5, <1>6, <1>7

\* The end of EmulatedPlatforms: the whole union, or an error that has a cause.
LEMMA EmulatedWaitIInv ==
  ASSUME IInv, TypeOK', EmulatedWait
  PROVE  IInv'
<1> USE DEF IInv, EmulatedWait, Return
<1>1. /\ phase = "emulated" /\ op = "EmulatedPlatforms"
      /\ Joined
      /\ phase' = "done"
      /\ err' = IF AnyFailed THEN "query" ELSE "none"
      /\ ~AnyFailed => found' = found
      /\ UNCHANGED <<once, nativePlatforms, emulatedPlatforms, op>>
  BY DEF cache, PhaseOK
<1>2. AnyFailed <=> \E b \in Builder : once[b] = "failed"
  BY <1>1 DEF AnyFailed, Joined, TaskOK
<1>3. ~AnyFailed => found = UNION {emulatedPlatforms[b] : b \in Builder}
  BY <1>1 DEF AnyFailed, Joined, FoundOK, TypeOK
<1>4. Results'
  BY <1>1, <1>2, <1>3
  DEF Results, ScheduleSound, ErrorHasCause, DefaultAlwaysSchedulable,
      ListsComplete, StatusComplete, Finished
<1> QED BY <1>1, <1>4 DEF PhaseOK, TaskOK, FoundOK, StatusOK, NotesOK, TargetsOK, FanOuts

\* The end of Status: every builder has reported.
LEMMA StatusWaitIInv ==
  ASSUME IInv, TypeOK', StatusWait
  PROVE  IInv'
<1> USE DEF IInv, StatusWait, Return
<1>1. /\ phase = "status" /\ op = "Status"
      /\ Joined
      /\ phase' = "done"
      /\ err' = IF AnyFailed THEN "query" ELSE "none"
      /\ UNCHANGED <<op, status>>
  BY DEF PhaseOK
<1>2. /\ \A b \in Builder : status[b] # "unset"
      /\ AnyFailed <=> \E b \in Builder : status[b] = "down"
  BY <1>1 DEF AnyFailed, Joined, StatusOK
<1>3. Results'
  BY <1>1, <1>2
  DEF Results, ScheduleSound, ErrorHasCause, DefaultAlwaysSchedulable,
      ListsComplete, StatusComplete, Finished
<1> QED BY <1>1, <1>3 DEF PhaseOK, TaskOK, FoundOK, StatusOK, NotesOK, TargetsOK, FanOuts

\* The end of Schedule's fan-out: an error that has a cause, or every builder
\* has been noted.
LEMMA InfoWaitIInv ==
  ASSUME IInv, TypeOK', InfoWait
  PROVE  IInv'
<1> USE DEF IInv, InfoWait, Return
<1>1. /\ phase = "info" /\ op = "Schedule"
      /\ Joined
      /\ UNCHANGED <<once, nativePlatforms, emulatedPlatforms, op, task, found, status,
                     request, platforms, native, emulated, platformBuilders>>
  BY DEF cache, PhaseOK
<1>2. AnyFailed <=> \E b \in Builder : once[b] = "failed"
  BY <1>1 DEF AnyFailed, Joined, TaskOK
<1>3. CASE AnyFailed
  <2>1. phase' = "done" /\ err' = "query"
    BY <1>3
  <2>2. Results'
    BY <1>1, <1>2, <1>3, <2>1
    DEF Results, ScheduleSound, ErrorHasCause, DefaultAlwaysSchedulable,
        ListsComplete, StatusComplete, Finished
  <2> QED BY <2>1, <2>2 DEF PhaseOK, TaskOK, FoundOK, StatusOK, NotesOK, TargetsOK, FanOuts
<1>4. CASE ~AnyFailed
  <2>1. phase' = "assign" /\ err' = err
    BY <1>4
  <2>2. PhaseOK' BY <1>1, <2>1 DEF PhaseOK
  <2>3. TaskOK'
    BY <1>1, <1>4, <2>1 DEF TaskOK, AnyFailed, Joined, FanOuts
  <2>4. FoundOK' BY <2>1 DEF FoundOK
  <2>5. StatusOK' BY <2>1 DEF StatusOK
  <2>6. NotesOK' BY <1>1, <2>1 DEF NotesOK, Notes, Merged
  <2>7. TargetsOK' BY <1>1, <2>1 DEF TargetsOK
  <2>8. Results' BY <2>1, NotDone
  <2> QED BY <2>2, <2>3, <2>4, <2>5, <2>6, <2>7, <2>8
<1> QED BY <1>3, <1>4

\* Before the assignment loop, the notes tell exactly which platforms the farm
\* can build, and pickBuilder returns the right kind of builder for each.
LEMMA PickBuilderRight ==
  ASSUME IInv, phase = "assign", NEW p \in Platform
  PROVE  /\ pickBuilder(p) = NoBuilder <=>
              \A b \in Builder : p \notin nativePlatforms[b] /\ p \notin emulatedPlatforms[b]
         /\ pickBuilder(p) # NoBuilder =>
              \/ p \in nativePlatforms[pickBuilder(p)]
              \/ /\ p \in emulatedPlatforms[pickBuilder(p)]
                 /\ \A b \in Builder : p \notin nativePlatforms[b]
         /\ pickBuilder(p) \in Builder \union {NoBuilder}
<1>1. Merged = Builder
  BY DEF IInv, TaskOK, Merged
<1>2. Notes(native, nativePlatforms, Builder) /\ Notes(emulated, emulatedPlatforms, Builder)
  BY <1>1 DEF IInv, NotesOK
<1>3. native[p] \in Builder \union {NoBuilder} /\ emulated[p] \in Builder \union {NoBuilder}
  BY DEF IInv, TypeOK, BuilderMap
<1> QED BY <1>2, <1>3, BuilderAssumption DEF Notes, pickBuilder

\* Before the assignment loop the targets are the ones of the call.
LEMMA TargetsRight ==
  ASSUME IInv, phase = "assign"
  PROVE  platforms = Targets
<1>1. CASE request = {}
  <2>1. platforms \subseteq AllNative
    BY <1>1 DEF IInv, TargetsOK, TypeOK, AllNative
  <2>2. AllNative \subseteq platforms
    BY <1>1 DEF IInv, TargetsOK, TypeOK, AllNative
  <2> QED BY <1>1, <2>1, <2>2 DEF Targets
<1>2. CASE request # {}
  BY <1>2 DEF IInv, TargetsOK, Targets
<1> QED BY <1>1, <1>2

\* The assignment loop: an acceptable schedule, or a target without a builder.
LEMMA AssignIInv ==
  ASSUME IInv, TypeOK', Assign
  PROVE  IInv'
<1>1. /\ phase = "assign" /\ op = "Schedule"
      /\ phase' = "done"
      /\ UNCHANGED <<once, nativePlatforms, emulatedPlatforms, op, request>>
      /\ Targets' = Targets
  BY DEF IInv, PhaseOK, Assign, Return, cache, Targets, AllNative
<1>2. \A b \in Builder : once[b] = "ok"
  BY <1>1 DEF IInv, TaskOK
<1>3. CASE \E p \in platforms : pickBuilder(p) = NoBuilder
  <2>1. err' = "nobuilder"
    BY <1>3 DEF Assign, Return
  <2>2. PICK p \in platforms : pickBuilder(p) = NoBuilder
    BY <1>3
  <2>3. p \in Platform /\ p \in Targets
    BY <1>1, TargetsRight DEF IInv, TypeOK
  <2>4. \A b \in Builder : p \notin nativePlatforms[b] /\ p \notin emulatedPlatforms[b]
    BY <1>1, <2>2, <2>3, PickBuilderRight
  <2>5. Unbuildable(Targets, nativePlatforms, emulatedPlatforms)
    BY <2>3, <2>4 DEF Unbuildable
  <2>6. request # {}
    BY <2>3, <2>4 DEF Targets, AllNative
  <2>7. Unbuildable(Targets', nativePlatforms', emulatedPlatforms')
    BY <1>1, <2>5
  <2> QED
    BY <1>1, <1>2, <2>1, <2>6, <2>7
    DEF Results, ScheduleSound, ErrorHasCause, DefaultAlwaysSchedulable,
        ListsComplete, StatusComplete, Finished, IInv, PhaseOK, TaskOK, FoundOK,
        StatusOK, NotesOK, TargetsOK, FanOuts, Unbuildable
<1>4. CASE \A p \in platforms : pickBuilder(p) # NoBuilder
  <2>1. /\ err' = "none"
        /\ platformBuilders' =
             [p \in Platform |-> IF p \in platforms THEN pickBuilder(p) ELSE NoBuilder]
    BY <1>4 DEF Assign, Return
  <2>2. Acceptable(platformBuilders', Targets, nativePlatforms, emulatedPlatforms)
    <3>1. platforms = Targets
      BY <1>1, TargetsRight
    <3> SUFFICES ASSUME NEW p \in Platform
                 PROVE  /\ platformBuilders'[p] # NoBuilder <=> p \in Targets
                        /\ p \in Targets =>
                             \/ p \in nativePlatforms[platformBuilders'[p]]
                             \/ /\ p \in emulatedPlatforms[platformBuilders'[p]]
                                /\ \A b \in Builder : p \notin nativePlatforms[b]
      BY DEF Acceptable
    <3>2. platformBuilders'[p] = IF p \in Targets THEN pickBuilder(p) ELSE NoBuilder
      BY <2>1, <3>1
    <3> QED BY <1>1, <1>4, <3>1, <3>2, PickBuilderRight
  <2>3. Acceptable(platformBuilders', Targets', nativePlatforms', emulatedPlatforms')
    BY <1>1, <2>2
  <2> QED
    BY <1>1, <1>2, <2>1, <2>3
    DEF Results, ScheduleSound, ErrorHasCause, DefaultAlwaysSchedulable,
        ListsComplete, StatusComplete, Finished, IInv, PhaseOK, TaskOK, FoundOK,
        StatusOK, NotesOK, TargetsOK, FanOuts, Acceptable
<1> QED BY <1>3, <1>4

\* Every step of the farm preserves the inductive invariant.
LEMMA NextIInv == IInv /\ [Next]_vars => IInv'
<1> SUFFICES ASSUME IInv, [Next]_vars PROVE IInv'
  OBVIOUS
<1>1. TypeOK'
  BY NextType DEF IInv
<1>2. CASE NativePlatforms
  BY <1>1, <1>2, BeginIInv DEF NativePlatforms, Queries, FanOuts
<1>3. CASE EmulatedPlatforms
  BY <1>1, <1>3, BeginIInv DEF EmulatedPlatforms, Queries, FanOuts
<1>4. CASE Status
  BY <1>1, <1>4, BeginIInv DEF Status, Queries, FanOuts
<1>5. ASSUME NEW req \in SUBSET Platform, Schedule(req) PROVE IInv'
  <2>1. CASE req = {}
    BY <1>1, <1>5, <2>1, BeginIInv DEF Schedule, Queries, FanOuts
  <2>2. CASE req # {}
    BY <1>1, <1>5, <2>2, BeginIInv DEF Schedule, Queries, FanOuts
  <2> QED BY <2>1, <2>2
<1>6. ASSUME NEW b \in Builder, Goroutine(b) PROVE IInv'
  BY <1>1, <1>6, AskBuilderIInv, MergeListIInv, MergeStatusIInv, MergeInfoIInv
  DEF Goroutine
<1>7. CASE Continue
  BY <1>1, <1>7, NativeWaitIInv, EmulatedWaitIInv, StatusWaitIInv, InfoWaitIInv, AssignIInv
  DEF Continue
<1>8. CASE UNCHANGED vars
  BY <1>8 DEF vars, IInv, PhaseOK, TaskOK, FoundOK, StatusOK, NotesOK, Notes, Merged,
              TargetsOK, Results, ScheduleSound, ErrorHasCause, DefaultAlwaysSchedulable,
              ListsComplete, StatusComplete, Finished, Targets, AllNative, TypeOK,
              Acceptable, Unbuildable
<1> QED BY <1>2, <1>3, <1>4, <1>5, <1>6, <1>7, <1>8 DEF Next

\* The inductive invariant holds throughout every behaviour.
THEOREM Invariant == Spec => []IInv
<1> QED BY InitIInv, NextIInv, PTL DEF Spec

\* A schedule that is returned covers exactly the targets, natively wherever the
\* farm can, however the goroutines of the fan-out raced.
THEOREM ScheduleIsSound == Spec => []ScheduleSound
<1>1. IInv => ScheduleSound
  BY DEF IInv, Results
<1> QED BY <1>1, Invariant, PTL

\* Queries fail exactly when a builder could not be asked, or a target that was
\* asked for has no builder.
THEOREM ErrorsHaveCauses == Spec => []ErrorHasCause
<1>1. IInv => ErrorHasCause
  BY DEF IInv, Results
<1> QED BY <1>1, Invariant, PTL

\* The two passes of Schedule with an empty list agree.
THEOREM DefaultIsSchedulable == Spec => []DefaultAlwaysSchedulable
<1>1. IInv => DefaultAlwaysSchedulable
  BY DEF IInv, Results
<1> QED BY <1>1, Invariant, PTL

\* NativePlatforms and EmulatedPlatforms return complete lists.
THEOREM ListsAreComplete == Spec => []ListsComplete
<1>1. IInv => ListsComplete
  BY DEF IInv, Results
<1> QED BY <1>1, Invariant, PTL

\* Status reports on every builder of the farm.
THEOREM StatusIsComplete == Spec => []StatusComplete
<1>1. IInv => StatusComplete
  BY DEF IInv, Results
<1> QED BY <1>1, Invariant, PTL

-----------------------------------------------------------------------------
(* Farm implements Scheduler. *)

\* The two modules' empty maps are the same.
LEMMA SameEmptyMap == S!EmptyMap = EmptyMap
  BY DEF S!EmptyMap, EmptyMap

\* No call has been made: the abstract scheduler is in its initial state.
LEMMA InitRefines == Init => S!Init
  BY SameEmptyMap DEF Init, S!Init, S!NoOutcome, Finished

\* A step that changes neither the caches nor what the caller sees of Schedule
\* is invisible to the abstract scheduler.
LEMMA Invisible ==
  ASSUME UNCHANGED <<cache, op, request, platformBuilders, err>>,
         op = "Schedule" => (phase' \in {"idle", "done"} <=> phase \in {"idle", "done"}),
         op = "Schedule" => (phase' = "done" <=> phase = "done")
  PROVE  UNCHANGED S!vars
  BY DEF S!vars, cache, Finished

\* The call that starts Schedule is Ask, any other call is Consume.
LEMMA BeginRefines ==
  ASSUME NEW query, NEW first \in FanOuts, NEW req \in SUBSET Platform,
         Begin(query, first, req), query # "Schedule" => req = {}
  PROVE  S!Next
<1>1. CASE query = "Schedule"
  <2>1. S!Ask(req)
    BY <1>1, SameEmptyMap DEF S!Ask, S!NoOutcome, S!cache, Begin, FanOuts, cache, Finished
  <2> QED BY <2>1 DEF S!Next
<1>2. CASE query # "Schedule"
  <2>1. S!Consume
    BY <1>2, SameEmptyMap DEF S!Consume, S!NoOutcome, S!cache, Begin, FanOuts, cache, Finished
  <2> QED BY <2>1 DEF S!Next
<1> QED BY <1>1, <1>2

\* Asking a builder is Learn when its sync.Once runs, and invisible otherwise.
LEMMA AskBuilderRefines ==
  ASSUME NEW b \in Builder, AskBuilder(b)
  PROVE  [S!Next]_S!vars
<1>1. UNCHANGED <<op, phase, request, platformBuilders, err>>
  BY DEF AskBuilder
<1>2. CASE once[b] = "fresh" /\ fetchInfo(b)
  <2>1. /\ once[b] = "fresh"
        /\ \/ /\ once' = [once EXCEPT ![b] = "failed"]
              /\ nativePlatforms' = [nativePlatforms EXCEPT ![b] = {}]
              /\ UNCHANGED emulatedPlatforms
           \/ \E n, e \in SUBSET Platform :
                /\ once' = [once EXCEPT ![b] = "ok"]
                /\ nativePlatforms' = [nativePlatforms EXCEPT ![b] = n]
                /\ emulatedPlatforms' = [emulatedPlatforms EXCEPT ![b] = e]
    BY <1>2 DEF fetchInfo
  <2>2. S!Learn(b)
    BY <1>1, <2>1 DEF S!Learn, Finished
  <2> QED BY <2>2 DEF S!Next
<1>3. CASE UNCHANGED cache
  BY <1>1, <1>3, Invisible
<1> QED BY <1>2, <1>3 DEF AskBuilder, platformsDo

\* A Schedule call that returns is Answer: the results of the invariant are the
\* cases of Answer.
LEMMA ReturnRefines ==
  ASSUME IInv, IInv', op = "Schedule", phase \notin {"idle", "done"}, phase' = "done",
         UNCHANGED <<cache, op, request>>,
         \A b \in Builder : once[b] # "fresh",
         err' \in {"query", "nobuilder"} => platformBuilders' = EmptyMap
  PROVE  S!Next
<1> DEFINE out == [err |-> err, platformBuilders |-> platformBuilders]'
<1>1. /\ Finished("Schedule")'
      /\ UNCHANGED <<once, nativePlatforms, emulatedPlatforms>>
      /\ Targets' = Targets /\ S!Targets = Targets
  BY DEF Finished, cache, Targets, AllNative, S!Targets, S!AllNative
<1>2. /\ S!Refuse("query") <=> out = [err |-> "query", platformBuilders |-> EmptyMap]
      /\ S!Refuse("nobuilder") <=> out = [err |-> "nobuilder", platformBuilders |-> EmptyMap]
  BY <1>1, SameEmptyMap DEF S!Refuse
<1>3. err' \in {"none", "query", "nobuilder"} /\ platformBuilders' \in BuilderMap
  BY DEF IInv, TypeOK
<1>4. /\ err' = "query" <=> \E b \in Builder : once[b] = "failed"
      /\ err' # "query" => \A b \in Builder : once[b] = "ok"
  BY <1>1 DEF IInv, TypeOK, Results, ErrorHasCause, Finished
<1>5. CASE err' = "query"
  <2>1. S!Answer
    BY <1>1, <1>2, <1>4, <1>5 DEF S!Answer, S!cache, Finished
  <2> QED BY <2>1 DEF S!Next
<1>6. CASE err' = "nobuilder"
  <2>1. request # {} /\ Unbuildable(request, nativePlatforms, emulatedPlatforms)
    BY <1>1, <1>6 DEF IInv, Results, ErrorHasCause, DefaultAlwaysSchedulable, Finished,
                      Targets, Unbuildable
  <2>2. S!Answer
    BY <1>1, <1>2, <1>4, <1>6, <2>1 DEF S!Answer, S!cache, Finished, Unbuildable, S!Unbuildable
  <2> QED BY <2>2 DEF S!Next
<1>7. CASE err' = "none"
  <2>1. Acceptable(platformBuilders', Targets, nativePlatforms, emulatedPlatforms)
    BY <1>1, <1>7 DEF IInv, Results, ScheduleSound, Acceptable
  <2>2. S!Answer
    BY <1>1, <1>3, <1>4, <1>7, <2>1 DEF S!Answer, S!cache, Finished, Acceptable, S!Acceptable,
      S!BuilderMap, BuilderMap
  <2> QED BY <2>2 DEF S!Next
<1> QED BY <1>3, <1>5, <1>6, <1>7

\* Every step of the farm is a step of the abstract scheduler or invisible.
LEMMA NextRefines == IInv /\ IInv' /\ [Next]_vars => [S!Next]_S!vars
<1> SUFFICES ASSUME IInv, IInv', [Next]_vars PROVE [S!Next]_S!vars
  OBVIOUS
<1>1. CASE NativePlatforms \/ EmulatedPlatforms \/ Status
  BY <1>1, BeginRefines DEF NativePlatforms, EmulatedPlatforms, Status, FanOuts
<1>2. ASSUME NEW req \in SUBSET Platform, Schedule(req) PROVE S!Next
  <2>1. CASE req = {}
    BY <1>2, <2>1, BeginRefines DEF Schedule, FanOuts
  <2>2. CASE req # {}
    BY <1>2, <2>2, BeginRefines DEF Schedule, FanOuts
  <2> QED BY <2>1, <2>2
<1>3. ASSUME NEW b \in Builder, Goroutine(b) PROVE [S!Next]_S!vars
  <2>1. CASE AskBuilder(b)
    BY <2>1, AskBuilderRefines
  <2>2. CASE MergeNative(b) \/ MergeEmulated(b) \/ MergeStatus(b) \/ MergeInfo(b)
    BY <2>2, Invisible DEF MergeNative, MergeEmulated, MergeStatus, MergeInfo
  <2> QED BY <1>3, <2>1, <2>2 DEF Goroutine
<1>4. CASE NativeWait
  <2>1. CASE op = "Schedule" /\ AnyFailed
    <3>1. \A b \in Builder : once[b] # "fresh"
      BY <1>4 DEF NativeWait, Joined, IInv, TaskOK
    <3>2. platformBuilders = EmptyMap
      BY <1>4 DEF NativeWait, IInv, PhaseOK
    <3> QED BY <1>4, <2>1, <3>1, <3>2, ReturnRefines DEF NativeWait, Return
  <2>2. CASE op = "Schedule" /\ ~AnyFailed
    BY <1>4, <2>2, Invisible DEF NativeWait
  <2>3. CASE op # "Schedule"
    BY <1>4, <2>3 DEF NativeWait, S!vars, Finished, cache
  <2> QED BY <2>1, <2>2, <2>3
<1>5. CASE EmulatedWait \/ StatusWait
  <2>1. op # "Schedule"
    BY <1>5 DEF EmulatedWait, StatusWait, IInv, PhaseOK
  <2> QED BY <1>5, <2>1 DEF EmulatedWait, StatusWait, S!vars, Finished, cache
<1>6. CASE InfoWait
  <2>1. CASE AnyFailed
    <3>1. \A b \in Builder : once[b] # "fresh"
      BY <1>6 DEF InfoWait, Joined, IInv, TaskOK
    <3>2. platformBuilders = EmptyMap /\ op = "Schedule"
      BY <1>6 DEF InfoWait, IInv, PhaseOK
    <3> QED BY <1>6, <2>1, <3>1, <3>2, ReturnRefines DEF InfoWait, Return
  <2>2. CASE ~AnyFailed
    BY <1>6, <2>2, Invisible DEF InfoWait
  <2> QED BY <2>1, <2>2
<1>7. CASE Assign
  <2>1. /\ \A b \in Builder : once[b] # "fresh"
        /\ platformBuilders = EmptyMap /\ op = "Schedule"
    BY <1>7 DEF Assign, IInv, TaskOK, PhaseOK
  <2>2. err' \in {"query", "nobuilder"} => platformBuilders' = EmptyMap
    BY <1>7, <2>1 DEF Assign, Return
  <2> QED BY <1>7, <2>1, <2>2, ReturnRefines DEF Assign, Return
<1>8. CASE UNCHANGED vars
  BY <1>8, Invisible DEF vars, cache
<1> QED BY <1>1, <1>2, <1>3, <1>4, <1>5, <1>6, <1>7, <1>8 DEF Next, Continue

\* Schedule behaves like one atomic step that answers once every builder's
\* platforms are known.
THEOREM Refinement == Spec => ImplementsScheduler
<1> QED BY InitRefines, NextRefines, Invariant, PTL DEF Spec, ImplementsScheduler, S!Spec
=============================================================================
