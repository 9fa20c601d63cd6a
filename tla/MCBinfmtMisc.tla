---------------------------- MODULE MCBinfmtMisc ----------------------------
(* The emulators of binfmtmisc_linux_test.go, entries that differ from them   *)
(* in one respect, and entries of other kinds that programs register.         *)
EXTENDS ELFHeaders, BinfmtMisc, Bitwise

CONSTANT MaxEntries  \* bound on the entries of a listing

Platforms == DOMAIN knownELFPlatforms

ByteAnd(a, b) == IF b = 255 THEN a ELSE IF b = 0 THEN 0 ELSE a & b

entry(for, class, data, type, machine, identMask, typeMask, machineMask) ==
  [for |-> {for}, enabled |-> TRUE, flags |-> {"F"}, offset |-> 0,
   magic |-> ELFMAG \o <<class, data, 1>> \o [i \in 1 .. 9 |-> 0] \o type \o machine,
   mask |-> <<255, 255, 255, 255, 255>> \o identMask \o [i \in 1 .. 8 |-> 255]
            \o typeMask \o machineMask]

le(for, class, machine, machineMask) ==
  entry(for, class, LSB, <<2, 0>>, machine, <<255, 255, 0>>, <<254, 255>>, machineMask)

intel(for, class, machine) ==
  entry(for, class, LSB, <<2, 0>>, machine, <<254, 254, 0>>, <<254, 255>>, <<255, 255>>)

be(for, class, machine) ==
  entry(for, class, MSB, <<0, 2>>, machine, <<255, 255, 0>>, <<255, 254>>, <<255, 255>>)

other(for, flags, offset, magic, mask) ==
  [for |-> for, enabled |-> TRUE, flags |-> flags, offset |-> offset, magic |-> magic,
   mask |-> mask]

Entries ==
  "qemu-i386"    :> intel("linux/386", 1, <<3, 0>>) @@
  "qemu-x86_64"  :> intel("linux/amd64", 2, <<62, 0>>) @@
  "qemu-arm"     :> le("linux/arm", 1, <<40, 0>>, <<255, 255>>) @@
  "qemu-aarch64" :> le("linux/arm64", 2, <<183, 0>>, <<255, 255>>) @@
  "qemu-ppc64le" :> le("linux/ppc64le", 2, <<21, 0>>, <<255, 0>>) @@
  "qemu-s390x"   :> be("linux/s390x", 2, <<0, 22>>) @@
  \* an emulator with a path that containers do not have, and one switched off
  "qemu-loong64" :> [le("linux/loong64", 2, <<2, 1>>, <<255, 255>>) EXCEPT !.flags = {"O", "C"}] @@
  "qemu-riscv64" :> [le("linux/riscv64", 2, <<243, 0>>, <<255, 255>>) EXCEPT !.enabled = FALSE] @@
  \* the machine alone; more than the header holds; farther than 8 bits go
  "vm-arm"       :> other({"linux/arm"}, {"F"}, 18, <<40, 0>>, <<255, 255>>) @@
  "blank"        :> other({}, {"F"}, 36, <<0, 0, 0, 0, 0, 0>>, <<255, 255, 255, 255, 255, 255>>) @@
  "tar"          :> other({}, {"F"}, 200, <<1>>, <<255>>) @@
  \* no mask; no flags and no mask; a file name extension and no flags
  "DOSWin"       :> other({}, {"F"}, 0, <<77, 90>>, <<>>) @@
  "python3"      :> other({}, {}, 0, <<10, 13>>, <<>>) @@
  "wine"         :> other({}, {}, 0, <<>>, <<>>)

FileNames == <<"DOSWin", "blank", "python3", "qemu-aarch64", "qemu-arm", "qemu-i386",
           "qemu-loong64", "qemu-ppc64le", "qemu-riscv64", "qemu-s390x", "qemu-x86_64",
           "register", "status", "tar", "vm-arm", "wine">>

\* The directory without the file system that belongs there, and with it.
Listings ==
  {<<>>} \union
  {SelectSeq(FileNames, LAMBDA n : n \in {"register", "status"} \union s) :
     s \in {t \in SUBSET DOMAIN Entries : Cardinality(t) <= MaxEntries}}
=============================================================================
