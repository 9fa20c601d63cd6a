----------------------------- MODULE BinfmtMisc -----------------------------
(***************************************************************************)
(* emulation/binfmtmisc_linux.go: which platforms the kernel can run under *)
(* emulation.  The walk over /proc/sys/fs/binfmt_misc visits the files in  *)
(* the lexical order of their names; each visit is one step, because the   *)
(* files can change or vanish meanwhile, and because an error ends it.     *)
(***************************************************************************)
EXTENDS Integers, FiniteSets, SequencesExt

CONSTANTS
  Platform,     \* the keys of knownELFPlatformHeaders
  Headers,      \* getKnownELFPlatformHeaders(): Platform -> set of headers
  BitAnd(_, _), \* the & of two bytes
  Entry,        \* what can be registered with the kernel: name -> entry, and the
                \* platforms that it is for
  Directories   \* the listings to look at: sequences of names in lexical order

\* The names of entries, and of the two files that are none.
Names == DOMAIN Entry \union {"register", "status"}

ASSUME NamesAssumption == Directories \subseteq Seq(Names)

\* What the kernel accepts: bytes, and a mask as long as the magic number or none.
Byte == 0 .. 255

ASSUME EntryAssumption ==
  \A n \in DOMAIN Entry : LET e == Entry[n] IN
    /\ e.enabled \in BOOLEAN
    /\ e.offset \in Nat
    /\ e.magic \in Seq(Byte)
    /\ e.mask \in Seq(Byte)
    /\ e.mask # <<>> => Len(e.mask) = Len(e.magic)

ASSUME BitAndAssumption ==
  \A a, b \in Byte : BitAnd(a, b) \in Byte /\ BitAnd(BitAnd(a, b), b) = BitAnd(a, b)

VARIABLES
  phase,          \* where registeredBinfmtMisc is
  files,          \* the files that WalkDir has still to visit
  found,          \* all files of the listing
  status,         \* the contents of the file status
  globalEnabled,
  unread,         \* the entries whose reading failed unnoticed
  registered,     \* a set here: all users enter the list into a map
  err,            \* the error with which WalkDir ended
  binfmt,         \* what registeredBinfmtMisc returned
  emulated        \* what Registered returned

vars == <<phase, files, found, status, globalEnabled, unread, registered, err, binfmt, emulated>>

Error == {"none", "root", "file", "status", "parse"}

TypeOK ==
  /\ phase \in {"start", "walk", "walked", "done", "panic"}
  /\ found \in Seq(Names)
  /\ \E k \in 1 .. Len(found) + 1 : files = SubSeq(found, k, Len(found))
  /\ status \in {"enabled", "disabled", "other"}
  /\ globalEnabled \in BOOLEAN
  /\ unread \subseteq ToSet(found)
  /\ registered \in SUBSET Platform
  /\ err \in Error
  /\ binfmt \in [platforms : SUBSET Platform, err : Error]
  /\ emulated \in SUBSET Platform

Init ==
  /\ phase = "start"
  /\ found \in Directories
  /\ files = found
  /\ status \in {"enabled", "disabled", "other"}
  /\ globalEnabled = FALSE
  /\ unread = {}
  /\ registered = {}
  /\ err = "none"
  /\ binfmt = [platforms |-> {}, err |-> "none"]
  /\ emulated = {}

-----------------------------------------------------------------------------
(* The files of entries.  A line is the sequence of its fields; a magic    *)
(* number and its mask are sequences of bytes.                             *)

\* What the kernel shows of an entry.
lines(e) ==
  <<<<IF e.enabled THEN "enabled" ELSE "disabled">>,
    <<"interpreter", "path">>,
    IF e.flags = {} THEN <<"flags:">> ELSE <<"flags:", e.flags>>>> \o
  IF e.magic = <<>>
  THEN <<<<"extension", "suffix">>>>
  ELSE <<<<"offset", e.offset>>, <<"magic", e.magic>>>> \o
       IF e.mask = <<>> THEN <<>> ELSE <<<<"mask", e.mask>>>>

\* The switch of the scanning loop.  Most lines have a value, and an offset has to
\* be a number of 8 bits.
invalid(l) ==
  LET valued == {"offset", "magic", "mask", "flags", "flags:"} IN
  \/ l[1] \notin valued \union {"disabled", "enabled", "interpreter"}
  \/ l[1] \in valued /\ Len(l) # 2
  \/ l[1] = "offset" /\ l[2] \notin -128 .. 127

\* An emulator without the flag F does not work in other mount namespaces.
ignored(l) == l[1] = "disabled" \/ (l[1] \in {"flags", "flags:"} /\ "F" \notin l[2])

\* How a line ends the loop.
verdict(l) == IF invalid(l) THEN "error" ELSE IF ignored(l) THEN "ignore" ELSE "no"

\* The value in the last line with a name.
field(text, name, default) ==
  LET at == {i \in DOMAIN text : text[i][1] = name}
  IN  IF at = {} THEN default ELSE text[Max(at)][2]

\* The record of offset, magic and mask, or of end = "error" or "ignore" if there
\* is nothing to compare; a negative offset means to ignore the entry, too.
parseBinfmtMisc(text) ==
  LET ends == {i \in DOMAIN text : verdict(text[i]) # "no"}
      p == [end |-> "no", offset |-> field(text, "offset", 0),
            magic |-> field(text, "magic", <<>>), mask |-> field(text, "mask", <<>>)]
  IN  IF ends # {} THEN [end |-> verdict(text[Min(ends)])]
      ELSE IF p.magic = <<>> \/ p.mask = <<>> \/ p.offset < 0 THEN [end |-> "ignore"]
      ELSE p

\* The magic number with its mask applied; bytes without a mask stay.
masked(mask, magic) ==
  [i \in DOMAIN magic |-> IF i <= Len(mask) THEN BitAnd(magic[i], mask[i]) ELSE magic[i]]

\* How many leading bytes of the magic number agree with the header.
agreeing(h, offset, m) ==
  CHOOSE n \in 0 .. Len(m) :
    /\ \A i \in 1 .. n : offset + i - 1 \in DOMAIN h /\ h[offset + i - 1] = m[i]
    /\ n = Len(m) \/ offset + n \notin DOMAIN h \/ h[offset + n] # m[n + 1]

\* Mutant: the last byte of the magic number does not count.
magicMatchMutant(h, offset, mask, magic) ==
  LET n == agreeing(h, offset, masked(mask, magic))
      mismatch == IF n = 0 THEN 0 ELSE offset + n
  IN  mismatch >= offset + Len(magic) - 1

\* mismatch is the index after the last byte that agrees, or 0.
magicMatch(h, offset, mask, magic) ==
  LET n == agreeing(h, offset, masked(mask, magic))
      mismatch == IF n = 0 THEN 0 ELSE offset + n
  IN  mismatch >= offset + Len(magic)

\* The platforms that one entry adds to the list.
matches(p) ==
  {q \in Platform : \E h \in Headers[q] : magicMatch(h, p.offset, p.mask, p.magic)}

\* The kernel's own rule: the program begins with the magic number at the offset
\* as far as the mask goes, and the entry is enabled.
Runs(e, h) ==
  /\ e.enabled
  /\ e.magic # <<>>
  /\ \A i \in DOMAIN e.magic :
       LET at == e.offset + i - 1
           mask == IF e.mask = <<>> THEN 255 ELSE e.mask[i]
       IN  at \in DOMAIN h /\ BitAnd(h[at], mask) = BitAnd(e.magic[i], mask)

\* The mask is applied to the magic number only, so that the code finds a platform by
\* a header without the bits that the mask clears.  If an emulator is for a platform
\* at all, elf.go has such a header of it.
ASSUME HeaderAssumption ==
  \A n \in DOMAIN Entry, q \in Platform : LET e == Entry[n] IN
    e.mask # <<>> /\ (\E h \in Headers[q] : Runs(e, h)) =>
      \E h \in Headers[q] :
        /\ Runs(e, h)
        /\ \A i \in DOMAIN e.magic : BitAnd(h[e.offset + i - 1], e.mask[i]) = h[e.offset + i - 1]

-----------------------------------------------------------------------------

\* The root is looked at.  If it is not there, the callback is given no directory
\* entry, takes the error for one that it can ignore, and dereferences nil.
Root ==
  /\ phase = "start"
  /\ \/ phase' = "walk" /\ UNCHANGED err
     \/ phase' = "walked" /\ err' = "root"
     \/ phase' = "panic" /\ UNCHANGED err
  /\ UNCHANGED <<files, found, status, globalEnabled, unread, registered, binfmt, emulated>>

Skip ==
  /\ Head(files) = "register"
  /\ UNCHANGED <<phase, globalEnabled, unread, registered, err>>

\* The callback returns an error, which ends the walk.
Fail(e) ==
  /\ phase' = "walked"
  /\ err' = e
  /\ UNCHANGED <<globalEnabled, unread, registered>>

\* The file has vanished or cannot be read.
ReadError ==
  /\ Head(files) # "register"
  /\ Fail("file")

\* Mutant: the text of the file is taken for the error.
ReadStatusMutant ==
  /\ Head(files) = "status"
  /\ \/ /\ status # "other"
        /\ globalEnabled' = (status = "enabled")
        /\ UNCHANGED <<phase, unread, registered, err>>
     \/ status = "other" /\ Fail(status)

\* Emulation may be switched off as a whole.
ReadStatus ==
  /\ Head(files) = "status"
  /\ \/ /\ status # "other"
        /\ globalEnabled' = (status = "enabled")
        /\ UNCHANGED <<phase, unread, registered, err>>
     \/ status = "other" /\ Fail("status")

\* The scanner's error is not looked at: an entry that cannot be read seems empty.
ReadEntry ==
  /\ Head(files) \notin {"register", "status"}
  /\ \E broken \in BOOLEAN :
       LET p == parseBinfmtMisc(IF broken THEN <<>> ELSE lines(Entry[Head(files)])) IN
       \/ p.end = "error" /\ Fail("parse")
       \/ /\ p.end # "error"
          /\ registered' = registered \union IF p.end = "ignore" THEN {} ELSE matches(p)
          /\ unread' = unread \union {n \in {Head(files)} : broken}
          /\ UNCHANGED <<phase, globalEnabled, err>>

\* The callback, called for the next file.
Visit ==
  /\ phase = "walk"
  /\ files # <<>>
  /\ files' = Tail(files)
  /\ Skip \/ ReadError \/ ReadStatus \/ ReadEntry
  /\ UNCHANGED <<found, status, binfmt, emulated>>

Walked ==
  /\ phase = "walk"
  /\ files = <<>>
  /\ phase' = "walked"
  /\ UNCHANGED <<files, found, status, globalEnabled, unread, registered, err, binfmt, emulated>>

\* Mutant: what was found before the error is good enough.
RegisteredMutant ==
  /\ phase = "walked"
  /\ phase' = "done"
  /\ binfmt' = IF ~globalEnabled THEN [platforms |-> {}, err |-> "none"]
                                 ELSE [platforms |-> registered, err |-> err]
  /\ emulated' = binfmt'.platforms
  /\ UNCHANGED <<files, found, status, globalEnabled, unread, registered, err>>

\* The end of registeredBinfmtMisc and, in Registered, what becomes of its error.
Registered ==
  /\ phase = "walked"
  /\ phase' = "done"
  /\ binfmt' = IF ~globalEnabled THEN [platforms |-> {}, err |-> "none"]
                                 ELSE [platforms |-> registered, err |-> err]
  /\ emulated' = IF binfmt'.err # "none" THEN {} ELSE binfmt'.platforms
  /\ UNCHANGED <<files, found, status, globalEnabled, unread, registered, err>>

Next == Root \/ Visit \/ Walked \/ Registered

Spec == Init /\ [][Next]_vars

-----------------------------------------------------------------------------
(* Properties. *)

\* The platforms whose programs an entry of the listing runs in containers, too:
\* the emulator has been loaded when it was registered.
Emulable(n) ==
  {p \in Platform : "F" \in Entry[n].flags /\ \E h \in Headers[p] : Runs(Entry[n], h)}

Listed == ToSet(found) \ {"register", "status"}

AllEmulable ==
  UNION {Emulable(n) : n \in {m \in Listed \ unread : Entry[m].mask # <<>>}}

\* A list that is returned is sound and whole.  Emulation is switched on, and each
\* platform has an enabled entry with the flag F that matches by the kernel's rule,
\* which masks the program and not the magic number only.  And whichever file the
\* walk failed at, and whether or not it had seen the status by then, the list has
\* every platform with an emulator that was registered with a mask and was read.
DetectionSound ==
  emulated # {} =>
    /\ status = "enabled"
    /\ emulated \subseteq UNION {Emulable(n) : n \in Listed}
    /\ AllEmulable \subseteq emulated

\* When nothing goes wrong the platforms found are exactly those that the enabled
\* emulators with the flag F are meant for: no header of elf.go is so vague that it
\* answers to another platform's emulator, or so special that it misses its own.
DetectionExact ==
  phase = "done" /\ err = "none" /\ unread = {} /\ status = "enabled" /\ "status" \in ToSet(found) =>
    emulated = {p \in Platform : \E n \in Listed :
                  p \in Entry[n].for /\ Entry[n].enabled /\ "F" \in Entry[n].flags}
=============================================================================
