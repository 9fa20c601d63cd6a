----------------------------- MODULE OutputRelay -----------------------------
(***************************************************************************)
(* The output of the builds in Farm.Build: each build writes into two      *)
(* pipes, and a goroutine for each pipe copies lines to the terminal.  A   *)
(* write into an io.Pipe returns when the reader has taken all of it; the  *)
(* reader is a bufio.Reader, which takes what fits into its buffer.  Build *)
(* waits for the builds and not for the readers, and the command exits.    *)
(***************************************************************************)
EXTENDS Naturals, FiniteSets, SequencesExt

CONSTANTS
  Platform,  \* the targets: one build each
  Kind,      \* the streams of a build, "out" and "err"
  Char,      \* what a text is made of
  Newline,   \* ends a line
  Outputs,   \* what may be written to a stream: sequences of calls of Write
  BufSize    \* of the bufio.Reader

ASSUME BufferAssumption == BufSize \in Nat \ {0}

ASSUME TextAssumption == Newline \in Char /\ Outputs \subseteq Seq(Seq(Char))

Stream == Platform \X Kind

VARIABLES
  output,   \* the writes that a build has still to make
  written,  \* the text of the writes that it has begun
  pending,  \* what the reader has not yet taken of the write in progress
  closed,   \* the builds whose writers are closed: the goroutine has ended
  buffer,   \* of the bufio.Reader
  line,     \* the part of a line that did not fit into the buffer
  reader,   \* whether the reading goroutine goes on
  printed,  \* the lines of a stream on the terminal
  process   \* the command: in Build, after it, or ended

vars == <<output, written, pending, closed, buffer, line, reader, printed, process>>

TypeOK ==
  /\ \A s \in Stream : \E o \in Outputs : IsSuffix(output[s], o)
  /\ \A s \in Stream : IsSuffix(pending[s], written[s])
  /\ closed \in SUBSET Platform
  /\ \A s \in Stream : Len(buffer[s]) <= BufSize
  /\ \A s \in Stream : ~Contains(line[s], Newline)
  /\ reader \in [Stream -> {"running", "ended"}]
  /\ \A s \in Stream : \A i \in DOMAIN printed[s] : ~Contains(printed[s][i], Newline)
  /\ process \in {"build", "returned", "exited"}

Init ==
  /\ output \in [Stream -> Outputs]
  /\ written = [s \in Stream |-> <<>>]
  /\ pending = [s \in Stream |-> <<>>]
  /\ closed = {}
  /\ buffer = [s \in Stream |-> <<>>]
  /\ line = [s \in Stream |-> <<>>]
  /\ reader = [s \in Stream |-> "running"]
  /\ printed = [s \in Stream |-> <<>>]
  /\ process = "build"

-----------------------------------------------------------------------------

\* The builder's engine writes: the call returns when pending is empty again.
Write(s) ==
  /\ process # "exited"
  /\ s[1] \notin closed
  /\ pending[s] = <<>>
  /\ output[s] # <<>>
  /\ pending' = [pending EXCEPT ![s] = Head(output[s])]
  /\ written' = [written EXCEPT ![s] = @ \o Head(output[s])]
  /\ output' = [output EXCEPT ![s] = Tail(@)]
  /\ UNCHANGED <<closed, buffer, line, reader, printed, process>>

\* The build is over, or has failed before it wrote everything: the deferred
\* calls close both writers.
Close(p) ==
  /\ process # "exited"
  /\ p \notin closed
  /\ \A k \in Kind : pending[<<p, k>>] = <<>>
  /\ closed' = closed \union {p}
  /\ UNCHANGED <<output, written, pending, buffer, line, reader, printed, process>>

Reading(s) == process # "exited" /\ reader[s] = "running"

\* ReadString needs more: the buffer has room and no newline.
Fill(s) ==
  /\ Reading(s)
  /\ ~Contains(buffer[s], Newline)
  /\ Len(buffer[s]) < BufSize
  /\ pending[s] # <<>>
  /\ LET room == BufSize - Len(buffer[s])
         n == IF Len(pending[s]) < room THEN Len(pending[s]) ELSE room
     IN  /\ buffer' = [buffer EXCEPT ![s] = @ \o SubSeq(pending[s], 1, n)]
         /\ pending' = [pending EXCEPT ![s] = SubSeq(@, n + 1, Len(@))]
  /\ UNCHANGED <<output, written, closed, line, reader, printed, process>>

\* Mutant: a line that does not fit is waited for until it does.
FullStuckMutant(s) ==
  /\ Reading(s)
  /\ Len(buffer[s]) > BufSize
  /\ UNCHANGED vars

\* The buffer is full of one line: it is set aside.
Full(s) ==
  /\ Reading(s)
  /\ ~Contains(buffer[s], Newline)
  /\ Len(buffer[s]) = BufSize
  /\ line' = [line EXCEPT ![s] = @ \o buffer[s]]
  /\ buffer' = [buffer EXCEPT ![s] = <<>>]
  /\ UNCHANGED <<output, written, pending, closed, reader, printed, process>>

\* Mutant: what follows the line in the buffer is forgotten.
PrintLineMutant(s) ==
  /\ Reading(s)
  /\ Contains(buffer[s], Newline)
  /\ LET n == SelectInSeq(buffer[s], LAMBDA c : c = Newline) IN
     printed' = [printed EXCEPT ![s] = Append(@, line[s] \o SubSeq(buffer[s], 1, n - 1))]
  /\ buffer' = [buffer EXCEPT ![s] = <<>>]
  /\ line' = [line EXCEPT ![s] = <<>>]
  /\ UNCHANGED <<output, written, pending, closed, reader, process>>

\* Mutant: the newline stays at the end of the line.
PrintLineEndMutant(s) ==
  /\ Reading(s)
  /\ Contains(buffer[s], Newline)
  /\ LET n == SelectInSeq(buffer[s], LAMBDA c : c = Newline) IN
     /\ printed' = [printed EXCEPT ![s] = Append(@, line[s] \o SubSeq(buffer[s], 1, n))]
     /\ buffer' = [buffer EXCEPT ![s] = SubSeq(@, n + 1, Len(@))]
  /\ line' = [line EXCEPT ![s] = <<>>]
  /\ UNCHANGED <<output, written, pending, closed, reader, process>>

\* ReadString has a line, which is printed with its platform and builder, and
\* without its newline.
PrintLine(s) ==
  /\ Reading(s)
  /\ Contains(buffer[s], Newline)
  /\ LET n == SelectInSeq(buffer[s], LAMBDA c : c = Newline) IN
     /\ printed' = [printed EXCEPT ![s] = Append(@, line[s] \o SubSeq(buffer[s], 1, n - 1))]
     /\ buffer' = [buffer EXCEPT ![s] = SubSeq(@, n + 1, Len(@))]
  /\ line' = [line EXCEPT ![s] = <<>>]
  /\ UNCHANGED <<output, written, pending, closed, reader, process>>

\* The writer is closed and the buffer holds no line: ReadString returns the rest
\* with an error, and the loop ends without printing it.
ReadEOF(s) ==
  /\ Reading(s)
  /\ s[1] \in closed
  /\ pending[s] = <<>>
  /\ ~Contains(buffer[s], Newline)
  /\ Len(buffer[s]) < BufSize
  /\ reader' = [reader EXCEPT ![s] = "ended"]
  /\ UNCHANGED <<output, written, pending, closed, buffer, line, printed, process>>

\* buildGroup.Wait.
BuildWait ==
  /\ process = "build"
  /\ closed = Platform
  /\ process' = "returned"
  /\ UNCHANGED <<output, written, pending, closed, buffer, line, reader, printed>>

\* The command ends with os.Exit, some time after Build has returned.
Exit ==
  /\ process = "returned"
  /\ process' = "exited"
  /\ UNCHANGED <<output, written, pending, closed, buffer, line, reader, printed>>

Read(s) == Fill(s) \/ Full(s) \/ PrintLine(s) \/ ReadEOF(s)

Next ==
  \/ \E s \in Stream : Write(s) \/ Read(s)
  \/ \E p \in Platform : Close(p)
  \/ BuildWait
  \/ Exit

Spec == Init /\ [][Next]_vars

\* Goroutines run when they can, and builds end.
FairSpec ==
  /\ Spec
  /\ \A s \in Stream : WF_vars(Read(s))
  /\ \A p \in Platform : WF_vars(Close(p))
  /\ WF_vars(BuildWait)

-----------------------------------------------------------------------------
(* Properties. *)

\* The places of the newlines of a text, and where its k-th line begins and ends.
Ends(text) == {i \in DOMAIN text : text[i] = Newline}
LineEnd(text, k) == CHOOSE i \in Ends(text) : Cardinality({j \in Ends(text) : j <= i}) = k
LineBegin(text, k) == IF k = 1 THEN 1 ELSE LineEnd(text, k - 1) + 1

\* The complete lines of a text.
LinesOf(text) ==
  [k \in 1 .. Cardinality(Ends(text)) |->
     SubSeq(text, LineBegin(text, k), LineEnd(text, k) - 1)]

\* What was written to a stream is at all times on the terminal, in whole lines and
\* in their order, or in the hands of its reader, or on its way there, however
\* writes and reads overlapped; and nothing is on its way when Build returns, so
\* that only what a reader holds can be missing at the end.
PrintedFaithful ==
  \A s \in Stream :
    /\ LinesOf(written[s]) = printed[s] \o LinesOf(line[s] \o buffer[s] \o pending[s])
    /\ process # "build" => pending[s] = <<>>

\* Output never keeps a build from ending, nor Build from returning, and every whole
\* line gets to the terminal unless the command exits first.
OutputArrives ==
  <>(\/ process = "exited"
     \/ process = "returned" /\ \A s \in Stream : printed[s] = LinesOf(written[s]))
=============================================================================
