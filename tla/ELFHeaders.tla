----------------------------- MODULE ELFHeaders -----------------------------
(***************************************************************************)
(* emulation/elf.go: the headers of the programs of each known platform,   *)
(* as far as their first 40 bytes go.  A header is a function from 0..39   *)
(* to bytes.                                                               *)
(***************************************************************************)
EXTENDS Naturals, TLC

HeaderSize == 40

(* The constants of debug/elf. *)
ELFMAG == <<127, 69, 76, 70>>
EI_CLASS == 4
EI_DATA == 5
EI_VERSION == 6
EI_OSABI == 7
ELFDATANONE == 0
LSB == 1
MSB == 2
EV_NONE == 0
EV_CURRENT == 1
ET_EXEC == 2
NONE == 0
LINUX == 3

elfPlatform(class, data, machine) ==
  [osabi |-> {NONE, LINUX}, class |-> class, data |-> data, alsoNone |-> FALSE,
   machine |-> machine, flags |-> {0}]

\* mips: EF_MIPS_PIC set, or not.
withPIC(e) == [e EXCEPT !.flags = {0, 2}]

\* Also try with data=none, version=0.
withNone(e) == [e EXCEPT !.alsoNone = TRUE]

\* ELFCLASS32 is 1 and ELFCLASS64 is 2.
knownELFPlatforms ==
  "linux/386"      :> withNone(elfPlatform(1, LSB, 3)) @@
  "linux/amd64"    :> withNone(elfPlatform(2, LSB, 62)) @@
  "linux/arm"      :> elfPlatform(1, LSB, 40) @@
  "linux/arm64"    :> elfPlatform(2, LSB, 183) @@
  "linux/arm64be"  :> elfPlatform(2, MSB, 183) @@
  "linux/loong64"  :> elfPlatform(2, LSB, 258) @@
  "linux/mips"     :> withPIC(elfPlatform(1, MSB, 8)) @@
  "linux/mipsle"   :> withPIC(elfPlatform(1, LSB, 10)) @@
  "linux/mips64"   :> withPIC(elfPlatform(2, MSB, 8)) @@
  "linux/mips64le" :> withPIC(elfPlatform(2, LSB, 10)) @@
  "linux/ppc"      :> elfPlatform(1, MSB, 20) @@
  "linux/ppc64"    :> elfPlatform(2, MSB, 21) @@
  "linux/ppc64le"  :> elfPlatform(2, LSB, 21) @@
  "linux/riscv32"  :> elfPlatform(1, LSB, 243) @@
  "linux/riscv64"  :> elfPlatform(2, LSB, 243) @@
  "linux/s390x"    :> elfPlatform(2, MSB, 22)

PutUint16(data, at, v) ==
  IF data = LSB THEN at :> v % 256 @@ (at + 1) :> v \div 256
                ELSE at :> v \div 256 @@ (at + 1) :> v % 256

\* For values below 2^16.
PutUint32(data, at, v) ==
  IF data = LSB THEN PutUint16(data, at, v) @@ PutUint16(data, at + 2, 0)
                ELSE PutUint16(data, at, 0) @@ PutUint16(data, at + 2, v)

\* Later fields are written over earlier ones, so they come first here.
headerOf(e, osabi, flags) ==
  LET entrySize == IF e.class = 1 THEN 2 ELSE 4 IN
  PutUint32(e.data, 24 + 3 * entrySize, flags) @@
  PutUint32(e.data, 20, EV_CURRENT) @@
  PutUint16(e.data, 18, e.machine) @@
  PutUint16(e.data, 16, ET_EXEC) @@
  EI_VERSION :> EV_CURRENT @@ EI_DATA :> e.data @@ EI_CLASS :> e.class @@ EI_OSABI :> osabi @@
  [i \in 0 .. HeaderSize - 1 |-> IF i < 4 THEN ELFMAG[i + 1] ELSE 0]

none(e, h) ==
  PutUint32(e.data, 20, EV_NONE) @@ EI_VERSION :> EV_NONE @@ EI_DATA :> ELFDATANONE @@ h

header(e) ==
  LET proper == {headerOf(e, o, f) : o \in e.osabi, f \in e.flags} IN
  proper \union {none(e, h) : h \in {g \in proper : e.alsoNone}}

getKnownELFPlatformHeaders ==
  [p \in DOMAIN knownELFPlatforms |-> header(knownELFPlatforms[p])]
=============================================================================
