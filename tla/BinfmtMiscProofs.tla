-------------------------- MODULE BinfmtMiscProofs --------------------------
(***************************************************************************)
(* Proofs about BinfmtMisc: whatever is registered, in whichever order the *)
(* files are visited and whichever of them cannot be read, the platforms   *)
(* returned have an emulator by the kernel's rule, and none is missing.    *)
(***************************************************************************)
EXTENDS BinfmtMisc, SequenceTheorems, WellFoundedInduction, TLAPS

-----------------------------------------------------------------------------
(* The comparison of a magic number with a header.                         *)

\* A set of natural numbers has a least element.
LEMMA LeastElement ==
  ASSUME NEW S \in SUBSET Nat, S # {}
  PROVE  \E x \in S : \A y \in S : x <= y
<1> DEFINE R == {ss \in Nat \X Nat : ss[1] < ss[2]}
<1>1. IsWellFoundedOn(R, Nat)
  BY NatLessThanWellFounded DEF OpToRel
<1>2. \A x, y \in Nat : <<y, x>> \in R <=> y < x
  OBVIOUS
<1> HIDE DEF R
<1>3. PICK x \in S : \A y \in S : ~(<<y, x>> \in R)
  <2>1. S \subseteq Nat
    OBVIOUS
  <2> QED
    BY <1>1, <2>1, WFMin, Zenon
<1>4. \A y \in S : ~(y < x)
  BY <1>2, <1>3
<1>5. \A y \in S : x <= y
  BY <1>4
<1> QED
  BY <1>5

\* The masked magic number has the length of the magic number.
LEMMA MaskedProperties ==
  ASSUME NEW mask \in Seq(Byte), NEW magic \in Seq(Byte)
  PROVE  /\ masked(mask, magic) \in Seq(Byte)
         /\ Len(masked(mask, magic)) = Len(magic)
         /\ \A i \in 1 .. Len(magic) :
              masked(mask, magic)[i] =
                IF i <= Len(mask) THEN BitAnd(magic[i], mask[i]) ELSE magic[i]
<1> DEFINE m == masked(mask, magic)
           v(i) == IF i <= Len(mask) THEN BitAnd(magic[i], mask[i]) ELSE magic[i]
<1>1. /\ Len(magic) \in Nat /\ DOMAIN magic = 1 .. Len(magic)
      /\ Len(mask) \in Nat
  BY LenProperties
<1>2. \A i \in 1 .. Len(magic) : v(i) \in Byte
  <2> TAKE i \in 1 .. Len(magic)
  <2>1. magic[i] \in Byte
    BY ElementOfSeq
  <2>2. i <= Len(mask) => mask[i] \in Byte
    BY <1>1, ElementOfSeq
  <2> QED
    BY <2>1, <2>2, BitAndAssumption
<1>3. m = [i \in 1 .. Len(magic) |-> v(i)]
  BY <1>1 DEF masked
<1> HIDE DEF m, v
<1>4. m \in [1 .. Len(magic) -> Byte]
  BY <1>2, <1>3
<1>5. m \in Seq(Byte)
  BY <1>1, <1>4, SeqDef
<1>6. Len(m) = Len(magic)
  BY <1>1, <1>4, <1>5, LenProperties
<1> QED
  BY <1>3, <1>5, <1>6 DEF m, v

\* The loop of magicMatch stops at the first byte that does not agree, so that it
\* finds a match exactly if all bytes agree.
LEMMA MagicMatchIsAgreement ==
  ASSUME NEW h, NEW offset \in Nat, NEW mask \in Seq(Byte), NEW magic \in Seq(Byte),
         magic # <<>>
  PROVE  /\ magicMatch(h, offset, mask, magic) =>
              \A i \in 1 .. Len(magic) :
                offset + i - 1 \in DOMAIN h /\ h[offset + i - 1] = masked(mask, magic)[i]
         /\ (\A i \in 1 .. Len(magic) :
                offset + i - 1 \in DOMAIN h /\ h[offset + i - 1] = masked(mask, magic)[i])
              => magicMatch(h, offset, mask, magic)
<1> DEFINE m == masked(mask, magic)
           L == Len(magic)
           agree(i) == offset + i - 1 \in DOMAIN h /\ h[offset + i - 1] = m[i]
           n == agreeing(h, offset, m)
<1>1. L \in Nat /\ L # 0
  BY LenProperties, EmptySeq
<1>2. Len(m) = L
  BY MaskedProperties
<1> HIDE DEF L, m
<1> DEFINE stop(k) == /\ \A i \in 1 .. k : agree(i)
                      /\ k = L \/ offset + k \notin DOMAIN h \/ h[offset + k] # m[k + 1]
<1>3. \E k \in 0 .. L : stop(k)
  <2> DEFINE S == {k \in 0 .. L : k = L \/ ~agree(k + 1)}
  <2>1. S \in SUBSET Nat /\ L \in S
    BY <1>1
  <2>2. PICK k \in S : \A j \in S : k <= j
    <3> HIDE DEF S
    <3> QED
      BY <2>1, LeastElement
  <2>3. k \in 0 .. L /\ (k = L \/ ~agree(k + 1))
    OBVIOUS
  <2>4. \A i \in 1 .. k : agree(i)
    <3> SUFFICES ASSUME NEW i \in 1 .. k, ~agree(i)
                 PROVE  FALSE
      OBVIOUS
    <3>1. i - 1 \in 0 .. L /\ (i - 1) + 1 = i /\ ~(k <= i - 1)
      BY <1>1, <2>3
    <3>2. i - 1 \in S
      BY <3>1
    <3> QED
      BY <2>2, <3>1, <3>2
  <2>5. offset + (k + 1) - 1 = offset + k
    BY <1>1, <2>3
  <2>6. stop(k)
    BY <2>3, <2>4, <2>5
  <2> QED
    BY <2>3, <2>6
<1>4. n \in 0 .. L /\ stop(n)
  <2>1. n = CHOOSE k \in 0 .. L : stop(k)
    BY <1>2 DEF agreeing
  <2> HIDE DEF n, stop
  <2> QED
    BY <1>3, <2>1
<1>5. magicMatch(h, offset, mask, magic) <=> (IF n = 0 THEN 0 ELSE offset + n) >= offset + L
  BY DEF magicMatch, m, L
<1> HIDE DEF n
<1>6. magicMatch(h, offset, mask, magic) <=> n = L
  BY <1>1, <1>4, <1>5
<1>7. n = L <=> \A i \in 1 .. L : agree(i)
  <2>1. ASSUME \A i \in 1 .. L : agree(i), n # L
        PROVE  FALSE
    <3>1. n + 1 \in 1 .. L /\ offset + (n + 1) - 1 = offset + n
      BY <1>1, <1>4, <2>1
    <3>2. agree(n + 1)
      BY <2>1, <3>1
    <3> QED
      BY <1>4, <2>1, <3>1, <3>2
  <2> QED
    BY <1>4, <2>1
<1> QED
  BY <1>6, <1>7 DEF m, L

\* The same, of one byte.
LEMMA MatchAgrees ==
  ASSUME NEW h, NEW offset \in Nat, NEW mask \in Seq(Byte), NEW magic \in Seq(Byte),
         magic # <<>>, magicMatch(h, offset, mask, magic), NEW i \in 1 .. Len(magic)
  PROVE  offset + i - 1 \in DOMAIN h /\ h[offset + i - 1] = masked(mask, magic)[i]
<1>1. offset + i - 1 \in DOMAIN h
  BY MagicMatchIsAgreement
<1>2. h[offset + i - 1] = masked(mask, magic)[i]
  BY MagicMatchIsAgreement
<1> QED
  BY <1>1, <1>2

-----------------------------------------------------------------------------
(* The parser.                                                             *)

\* A line that ends the loop decides.
LEMMA ParseEnds ==
  ASSUME NEW text, DOMAIN text \subseteq Nat,
         NEW i \in DOMAIN text, verdict(text[i]) # "no"
  PROVE  parseBinfmtMisc(text).end \in {"error", "ignore"}
<1> DEFINE ends == {j \in DOMAIN text : verdict(text[j]) # "no"}
<1>1. ends \in SUBSET Nat /\ ends # {}
  OBVIOUS
<1>2. Min(ends) \in ends
  <2> HIDE DEF ends
  <2>1. \E x \in ends : \A y \in ends : x <= y
    BY <1>1, LeastElement
  <2> QED
    BY <2>1 DEF Min
<1>3. verdict(text[Min(ends)]) \in {"error", "ignore"}
  BY <1>2 DEF verdict
<1>4. parseBinfmtMisc(text) = [end |-> verdict(text[Min(ends)])]
  BY <1>1 DEF parseBinfmtMisc
<1> QED
  BY <1>3, <1>4

\* Without such a line, an entry that lacks its mask is ignored.
LEMMA ParseNoMask ==
  ASSUME NEW text, \A i \in DOMAIN text : verdict(text[i]) = "no",
         \A i \in DOMAIN text : text[i][1] # "mask"
  PROVE  parseBinfmtMisc(text) = [end |-> "ignore"]
<1>1. {i \in DOMAIN text : verdict(text[i]) # "no"} = {}
  OBVIOUS
<1>2. field(text, "mask", <<>>) = <<>>
  BY DEF field
<1> QED
  BY <1>1, <1>2 DEF parseBinfmtMisc

\* An entry that could not be read seems empty, and is ignored.
LEMMA ParseNothing ==
  parseBinfmtMisc(<<>>) = [end |-> "ignore"]
<1>1. DOMAIN <<>> = {}
  OBVIOUS
<1> QED
  BY <1>1, ParseNoMask

\* Three lines and what follows them.
LEMMA ThreeLines ==
  ASSUME NEW a, NEW b, NEW c, NEW S, NEW t \in Seq(S), {a, b, c} \subseteq S
  PROVE  /\ DOMAIN (<<a, b, c>> \o t) = 1 .. 3 + Len(t)
         /\ (<<a, b, c>> \o t)[1] = a
         /\ (<<a, b, c>> \o t)[2] = b
         /\ (<<a, b, c>> \o t)[3] = c
         /\ \A i \in 1 .. Len(t) : (<<a, b, c>> \o t)[3 + i] = t[i]
<1> DEFINE s == <<a, b, c>>
<1>1. s \in Seq(S) /\ Len(s) = 3 /\ s[1] = a /\ s[2] = b /\ s[3] = c
  OBVIOUS
<1> HIDE DEF s
<1> DEFINE r == s \o t
<1>2. Len(t) \in Nat
  BY LenProperties
<1>3. /\ r \in Seq(S)
      /\ Len(r) = Len(s) + Len(t)
      /\ \A i \in 1 .. Len(s) + Len(t) : r[i] = IF i <= Len(s) THEN s[i] ELSE t[i - Len(s)]
  BY <1>1, ConcatProperties
<1>4. DOMAIN r = 1 .. Len(r)
  BY <1>3, LenProperties
<1> HIDE DEF r
<1>5. DOMAIN r = 1 .. 3 + Len(t)
  BY <1>1, <1>3, <1>4
<1>6. \A i \in 1 .. 3 + Len(t) : r[i] = IF i <= 3 THEN s[i] ELSE t[i - 3]
  BY <1>1, <1>3
<1>7. r[1] = a /\ r[2] = b /\ r[3] = c
  BY <1>1, <1>2, <1>6
<1>8. \A i \in 1 .. Len(t) : r[3 + i] = t[i]
  <2> TAKE i \in 1 .. Len(t)
  <2>1. 3 + i \in 1 .. 3 + Len(t) /\ ~(3 + i <= 3) /\ (3 + i) - 3 = i
    BY <1>2
  <2> QED
    BY <1>6, <2>1
<1> QED
  BY <1>5, <1>7, <1>8 DEF r, s

\* Two lines and a third.
LEMMA TwoLines ==
  ASSUME NEW a, NEW b, NEW c
  PROVE  <<a, b>> \o <<c>> = <<a, b, c>>
<1> DEFINE S == {a, b, c}
           s == <<a, b>>
           t == <<c>>
           r == <<a, b, c>>
<1>1. /\ s \in Seq(S) /\ Len(s) = 2 /\ s[1] = a /\ s[2] = b
      /\ t \in Seq(S) /\ Len(t) = 1 /\ t[1] = c
      /\ r \in Seq(S) /\ Len(r) = 3 /\ r[1] = a /\ r[2] = b /\ r[3] = c
  OBVIOUS
<1> HIDE DEF s, t, r, S
<1>2. /\ s \o t \in Seq(S)
      /\ Len(s \o t) = Len(s) + Len(t)
      /\ \A i \in 1 .. Len(s) + Len(t) : (s \o t)[i] = IF i <= Len(s) THEN s[i] ELSE t[i - Len(s)]
  BY <1>1, ConcatProperties
<1>3. Len(s \o t) = 3 /\ \A i \in 1 .. 3 : (s \o t)[i] = IF i <= 2 THEN s[i] ELSE t[i - 2]
  BY <1>1, <1>2
<1>4. \A i \in 1 .. Len(r) : r[i] = (s \o t)[i]
  BY <1>1, <1>3
<1>5. s \o t = r
  BY <1>1, <1>2, <1>3, <1>4, SeqEqual
<1> QED
  BY <1>5 DEF s, t, r

\* The text of an entry with a mask has six lines.
LEMMA LinesWithMask ==
  ASSUME NEW e, e.magic # <<>>, e.mask # <<>>
  PROVE  /\ DOMAIN lines(e) = 1 .. 6
         /\ lines(e)[1] = <<IF e.enabled THEN "enabled" ELSE "disabled">>
         /\ lines(e)[2] = <<"interpreter", "path">>
         /\ lines(e)[3] = IF e.flags = {} THEN <<"flags:">> ELSE <<"flags:", e.flags>>
         /\ lines(e)[4] = <<"offset", e.offset>>
         /\ lines(e)[5] = <<"magic", e.magic>>
         /\ lines(e)[6] = <<"mask", e.mask>>
<1> DEFINE l1 == <<IF e.enabled THEN "enabled" ELSE "disabled">>
           l2 == <<"interpreter", "path">>
           l3 == IF e.flags = {} THEN <<"flags:">> ELSE <<"flags:", e.flags>>
           l4 == <<"offset", e.offset>>
           l5 == <<"magic", e.magic>>
           l6 == <<"mask", e.mask>>
<1>1. lines(e) = <<l1, l2, l3>> \o (<<l4, l5>> \o <<l6>>)
  BY DEF lines
<1> HIDE DEF l1, l2, l3, l4, l5, l6
<1> DEFINE t == <<l4, l5, l6>>
           S == {l1, l2, l3, l4, l5, l6}
<1>2. lines(e) = <<l1, l2, l3>> \o t
  BY <1>1, TwoLines
<1>3. Len(t) = 3 /\ t[1] = l4 /\ t[2] = l5 /\ t[3] = l6
  OBVIOUS
<1>4. t \in Seq(S) /\ {l1, l2, l3} \subseteq S
  OBVIOUS
<1> HIDE DEF t, S
<1>5. /\ DOMAIN lines(e) = 1 .. 3 + Len(t)
      /\ lines(e)[1] = l1 /\ lines(e)[2] = l2 /\ lines(e)[3] = l3
      /\ \A i \in 1 .. Len(t) : lines(e)[3 + i] = t[i]
  BY <1>2, <1>4, ThreeLines
<1>6. /\ DOMAIN lines(e) = 1 .. 6
      /\ lines(e)[4] = l4 /\ lines(e)[5] = l5 /\ lines(e)[6] = l6
  <2>1. 3 + Len(t) = 6 /\ 3 + 1 = 4 /\ 3 + 2 = 5 /\ 3 + 3 = 6
    BY <1>3
  <2>2. 1 \in 1 .. Len(t) /\ 2 \in 1 .. Len(t) /\ 3 \in 1 .. Len(t)
    BY <1>3
  <2>3. lines(e)[3 + 1] = l4 /\ lines(e)[3 + 2] = l5 /\ lines(e)[3 + 3] = l6
    BY <1>3, <1>5, <2>2, Zenon
  <2> QED
    BY <1>5, <2>1, <2>3
<1> QED
  BY <1>5, <1>6 DEF l1, l2, l3, l4, l5, l6

\* The text of an entry without a mask has no line for it.
LEMMA LinesWithoutMask ==
  ASSUME NEW e, e.mask = <<>>
  PROVE  /\ DOMAIN lines(e) \subseteq Nat
         /\ \A i \in DOMAIN lines(e) : lines(e)[i][1] # "mask"
<1> DEFINE l1 == <<IF e.enabled THEN "enabled" ELSE "disabled">>
           l2 == <<"interpreter", "path">>
           l3 == IF e.flags = {} THEN <<"flags:">> ELSE <<"flags:", e.flags>>
           l4 == <<"offset", e.offset>>
           l5 == <<"magic", e.magic>>
           lx == <<"extension", "suffix">>
<1>1. /\ l1[1] # "mask" /\ l2[1] # "mask" /\ l3[1] # "mask"
      /\ l4[1] # "mask" /\ l5[1] # "mask" /\ lx[1] # "mask"
  OBVIOUS
<1> HIDE DEF l1, l2, l3, l4, l5, lx
<1> DEFINE S == {l1, l2, l3, l4, l5, lx}
<1>2. \E t \in Seq(S) : lines(e) = <<l1, l2, l3>> \o t
  <2>1. CASE e.magic = <<>>
    <3>1. lines(e) = <<l1, l2, l3>> \o <<lx>>
      BY <2>1 DEF lines, l1, l2, l3, lx
    <3>2. <<lx>> \in Seq(S)
      OBVIOUS
    <3> QED
      BY <3>1, <3>2
  <2>2. CASE e.magic # <<>>
    <3>1. lines(e) = <<l1, l2, l3>> \o (<<l4, l5>> \o <<>>)
      BY <2>2 DEF lines, l1, l2, l3, l4, l5
    <3>2. <<l4, l5>> \o <<>> \in Seq(S)
      OBVIOUS
    <3> QED
      BY <3>1, <3>2
  <2> QED
    BY <2>1, <2>2
<1>3. PICK t \in Seq(S) : lines(e) = <<l1, l2, l3>> \o t
  BY <1>2
<1>4. {l1, l2, l3} \subseteq S /\ \A l \in S : l[1] # "mask"
  BY <1>1
<1> HIDE DEF S
<1>5. /\ DOMAIN lines(e) = 1 .. 3 + Len(t)
      /\ lines(e)[1] = l1 /\ lines(e)[2] = l2 /\ lines(e)[3] = l3
      /\ \A i \in 1 .. Len(t) : lines(e)[3 + i] = t[i]
  BY <1>3, <1>4, ThreeLines
<1>6. Len(t) \in Nat /\ \A i \in 1 .. Len(t) : t[i] \in S
  BY LenProperties, ElementOfSeq
<1>7. ASSUME NEW i \in DOMAIN lines(e)
      PROVE  lines(e)[i][1] # "mask"
  <2>1. i \in 1 .. 3 \/ (i - 3 \in 1 .. Len(t) /\ 3 + (i - 3) = i)
    BY <1>5, <1>6
  <2>2. CASE i \in 1 .. 3
    BY <1>1, <1>5, <2>2
  <2>3. CASE i - 3 \in 1 .. Len(t) /\ 3 + (i - 3) = i
    <3>1. lines(e)[i] = t[i - 3] /\ t[i - 3] \in S
      BY <1>5, <1>6, <2>3
    <3> QED
      BY <1>4, <3>1
  <2> QED
    BY <2>1, <2>2, <2>3
<1> QED
  BY <1>5, <1>6, <1>7

\* How each line of an entry with a mask is taken.
LEMMA VerdictsWithMask ==
  ASSUME NEW e, e.enabled \in BOOLEAN, e.offset \in Nat, e.magic # <<>>, e.mask # <<>>
  PROVE  /\ verdict(lines(e)[1]) = IF e.enabled THEN "no" ELSE "ignore"
         /\ verdict(lines(e)[2]) = "no"
         /\ verdict(lines(e)[3]) = IF e.flags = {} THEN "error"
                                   ELSE IF "F" \in e.flags THEN "no" ELSE "ignore"
         /\ verdict(lines(e)[4]) = IF e.offset \in -128 .. 127 THEN "no" ELSE "error"
         /\ verdict(lines(e)[5]) = "no"
         /\ verdict(lines(e)[6]) = "no"
<1>1. verdict(<<IF e.enabled THEN "enabled" ELSE "disabled">>) = IF e.enabled THEN "no" ELSE "ignore"
  BY DEF verdict, invalid, ignored
<1>2. verdict(<<"interpreter", "path">>) = "no"
  BY DEF verdict, invalid, ignored
<1>3. verdict(IF e.flags = {} THEN <<"flags:">> ELSE <<"flags:", e.flags>>)
        = IF e.flags = {} THEN "error" ELSE IF "F" \in e.flags THEN "no" ELSE "ignore"
  BY DEF verdict, invalid, ignored
<1>4. verdict(<<"offset", e.offset>>) = IF e.offset \in -128 .. 127 THEN "no" ELSE "error"
  BY DEF verdict, invalid, ignored
<1>5. verdict(<<"magic", e.magic>>) = "no"
  BY DEF verdict, invalid, ignored
<1>6. verdict(<<"mask", e.mask>>) = "no"
  BY DEF verdict, invalid, ignored
<1> HIDE DEF verdict, lines
<1> QED
  BY <1>1, <1>2, <1>3, <1>4, <1>5, <1>6, LinesWithMask

\* The three values are read from their lines.
LEMMA FieldsWithMask ==
  ASSUME NEW e, e.magic # <<>>, e.mask # <<>>
  PROVE  /\ field(lines(e), "offset", 0) = e.offset
         /\ field(lines(e), "magic", <<>>) = e.magic
         /\ field(lines(e), "mask", <<>>) = e.mask
<1> DEFINE text == lines(e)
           At(name) == {i \in DOMAIN text : text[i][1] = name}
<1>1. DOMAIN text = 1 .. 6
  BY LinesWithMask
<1>2. /\ text[1][1] \notin {"offset", "magic", "mask"}
      /\ text[2][1] \notin {"offset", "magic", "mask"}
      /\ text[3][1] \notin {"offset", "magic", "mask"}
      /\ text[4][1] = "offset" /\ text[4][2] = e.offset
      /\ text[5][1] = "magic" /\ text[5][2] = e.magic
      /\ text[6][1] = "mask" /\ text[6][2] = e.mask
  <2>1. /\ text[1] = <<IF e.enabled THEN "enabled" ELSE "disabled">>
        /\ text[2] = <<"interpreter", "path">>
        /\ text[3] = IF e.flags = {} THEN <<"flags:">> ELSE <<"flags:", e.flags>>
    BY LinesWithMask
  <2>2. /\ text[4] = <<"offset", e.offset>>
        /\ text[5] = <<"magic", e.magic>>
        /\ text[6] = <<"mask", e.mask>>
    BY LinesWithMask
  <2> HIDE DEF text
  <2>3. /\ text[1][1] \in {"enabled", "disabled"}
        /\ text[2][1] = "interpreter"
        /\ text[3][1] = "flags:"
    BY <2>1
  <2> QED
    BY <2>2, <2>3
<1> HIDE DEF text
<1>3. At("offset") = {4} /\ At("magic") = {5} /\ At("mask") = {6}
  BY <1>1, <1>2
<1>4. \A x \in Nat : Max({x}) = x
  BY DEF Max
<1>5. Max({4}) = 4 /\ Max({5}) = 5 /\ Max({6}) = 6
  BY <1>4
<1>6. \A name, default : field(text, name, default) =
        IF At(name) = {} THEN default ELSE text[Max(At(name))][2]
  BY DEF field
<1> HIDE DEF At
<1>7. /\ field(text, "offset", 0) = text[Max({4})][2]
      /\ field(text, "magic", <<>>) = text[Max({5})][2]
      /\ field(text, "mask", <<>>) = text[Max({6})][2]
  BY <1>3, <1>6
<1> QED
  BY <1>2, <1>5, <1>7 DEF text

\* What becomes of an entry with a mask: it is compared only if it is enabled and
\* has the flag F, and ignored only if it has not; what remains is an error.
LEMMA ParseWithMask ==
  ASSUME NEW e, e.enabled \in BOOLEAN, e.offset \in Nat, e.magic # <<>>, e.mask # <<>>
  PROVE  \/ /\ parseBinfmtMisc(lines(e)).end \in {"error", "ignore"}
            /\ e.enabled /\ "F" \in e.flags => parseBinfmtMisc(lines(e)).end = "error"
         \/ /\ e.enabled /\ "F" \in e.flags
            /\ parseBinfmtMisc(lines(e)) =
                 [end |-> "no", offset |-> e.offset, magic |-> e.magic, mask |-> e.mask]
<1> DEFINE text == lines(e)
           ends == {i \in DOMAIN text : verdict(text[i]) # "no"}
           good == [end |-> "no", offset |-> e.offset, magic |-> e.magic, mask |-> e.mask]
<1>1. DOMAIN text = 1 .. 6
  BY LinesWithMask
<1>2. /\ verdict(text[1]) = IF e.enabled THEN "no" ELSE "ignore"
      /\ verdict(text[2]) = "no"
      /\ verdict(text[3]) = IF e.flags = {} THEN "error"
                            ELSE IF "F" \in e.flags THEN "no" ELSE "ignore"
      /\ verdict(text[4]) = IF e.offset \in -128 .. 127 THEN "no" ELSE "error"
      /\ verdict(text[5]) = "no"
      /\ verdict(text[6]) = "no"
  BY VerdictsWithMask
<1>3. /\ field(text, "offset", 0) = e.offset
      /\ field(text, "magic", <<>>) = e.magic
      /\ field(text, "mask", <<>>) = e.mask
  BY FieldsWithMask
<1> HIDE DEF text
<1>4. CASE ends = {}
  <2>1. e.enabled /\ "F" \in e.flags
    <3>1. verdict(text[1]) = "no" /\ verdict(text[3]) = "no"
      BY <1>1, <1>4
    <3> QED
      BY <1>2, <3>1
  <2>2. parseBinfmtMisc(text) = good
    BY <1>3, <1>4 DEF parseBinfmtMisc
  <2> QED
    BY <2>1, <2>2 DEF text
<1>5. CASE ends # {}
  <2>1. parseBinfmtMisc(text).end \in {"error", "ignore"}
    <3>1. DOMAIN text \subseteq Nat
      BY <1>1
    <3>2. PICK i \in DOMAIN text : verdict(text[i]) # "no"
      BY <1>5
    <3> QED
      BY <3>1, <3>2, ParseEnds
  <2>2. ASSUME e.enabled, "F" \in e.flags
        PROVE  parseBinfmtMisc(text).end = "error"
    <3>1. ends \subseteq {4}
      BY <1>1, <1>2, <2>2
    <3>2. ends = {4}
      BY <1>5, <3>1
    <3>3. Min(ends) = 4
      BY <3>2 DEF Min
    <3>4. verdict(text[4]) = "error"
      BY <1>2, <3>2
    <3>5. parseBinfmtMisc(text) = [end |-> verdict(text[Min(ends)])]
      BY <1>5 DEF parseBinfmtMisc
    <3> QED
      BY <3>3, <3>4, <3>5
  <2> QED
    BY <2>1, <2>2 DEF text
<1> QED
  BY <1>4, <1>5

\* An entry without a mask adds nothing.
LEMMA ParseWithoutMask ==
  ASSUME NEW e, e.mask = <<>>
  PROVE  parseBinfmtMisc(lines(e)).end \in {"error", "ignore"}
<1>1. CASE \A i \in DOMAIN lines(e) : verdict(lines(e)[i]) = "no"
  BY <1>1, LinesWithoutMask, ParseNoMask
<1>2. CASE \E i \in DOMAIN lines(e) : verdict(lines(e)[i]) # "no"
  BY <1>2, LinesWithoutMask, ParseEnds
<1> QED
  BY <1>1, <1>2

-----------------------------------------------------------------------------
(* What an entry adds.                                                     *)

\* Of an entry with a mask: the bytes compared with a header.
LEMMA MaskedEntry ==
  ASSUME NEW n \in DOMAIN Entry, Entry[n].mask # <<>>
  PROVE  LET e == Entry[n] IN
         /\ e.enabled \in BOOLEAN /\ e.offset \in Nat
         /\ e.magic \in Seq(Byte) /\ e.magic # <<>> /\ e.mask \in Seq(Byte)
         /\ DOMAIN e.magic = 1 .. Len(e.magic)
         /\ \A i \in 1 .. Len(e.magic) :
              /\ e.magic[i] \in Byte /\ e.mask[i] \in Byte
              /\ masked(e.mask, e.magic)[i] = BitAnd(e.magic[i], e.mask[i])
<1> DEFINE e == Entry[n]
<1>1. /\ e.enabled \in BOOLEAN /\ e.offset \in Nat
      /\ e.magic \in Seq(Byte) /\ e.mask \in Seq(Byte)
      /\ Len(e.mask) = Len(e.magic)
  BY EntryAssumption
<1> HIDE DEF e
<1>2. Len(e.magic) \in Nat /\ DOMAIN e.magic = 1 .. Len(e.magic)
  BY <1>1, LenProperties
<1>3. e.magic # <<>>
  <2>1. e.mask # <<>>
    BY DEF e
  <2>2. Len(e.mask) # 0
    BY <1>1, <2>1, EmptySeq
  <2> QED
    BY <1>1, <2>2, EmptySeq
<1>4. \A i \in 1 .. Len(e.magic) : e.magic[i] \in Byte /\ e.mask[i] \in Byte
  BY <1>1, ElementOfSeq
<1>5. \A i \in 1 .. Len(e.magic) : masked(e.mask, e.magic)[i] = BitAnd(e.magic[i], e.mask[i])
  <2>1. \A i \in 1 .. Len(e.magic) : masked(e.mask, e.magic)[i] =
          IF i <= Len(e.mask) THEN BitAnd(e.magic[i], e.mask[i]) ELSE e.magic[i]
    BY <1>1, MaskedProperties
  <2> QED
    BY <1>1, <1>2, <2>1
<1> QED
  BY <1>1, <1>2, <1>3, <1>4, <1>5 DEF e

\* The platforms of an entry, read with the rule of the code: the entry is enabled,
\* has the flag F and a mask, and some header of the platform has the masked magic
\* number at the offset, inside the header.
Detectable(n) ==
  LET e == Entry[n] IN
  {q \in Platform :
     /\ e.enabled /\ "F" \in e.flags /\ e.mask # <<>>
     /\ \E h \in Headers[q] : \A i \in DOMAIN e.magic :
          e.offset + i - 1 \in DOMAIN h /\ h[e.offset + i - 1] = BitAnd(e.magic[i], e.mask[i])}

\* The scanning loop and the comparing loop compute that rule: an entry that is not an
\* error adds its detectable platforms and nothing else.
LEMMA AddedIsDetectable ==
  ASSUME NEW n \in DOMAIN Entry, parseBinfmtMisc(lines(Entry[n])).end # "error"
  PROVE  (IF parseBinfmtMisc(lines(Entry[n])).end = "ignore" THEN {}
          ELSE matches(parseBinfmtMisc(lines(Entry[n])))) = Detectable(n)
<1> DEFINE e == Entry[n]
           p == parseBinfmtMisc(lines(e))
<1>1. CASE e.mask = <<>>
  <2>1. p.end = "ignore"
    <3> HIDE DEF e
    <3> QED
      BY <1>1, ParseWithoutMask DEF e
  <2>2. Detectable(n) = {}
    BY <1>1 DEF Detectable
  <2> HIDE DEF p
  <2> QED
    BY <2>1, <2>2 DEF p
<1>2. CASE e.mask # <<>>
  <2>1. /\ e.enabled \in BOOLEAN /\ e.offset \in Nat
        /\ e.magic \in Seq(Byte) /\ e.magic # <<>> /\ e.mask \in Seq(Byte)
        /\ DOMAIN e.magic = 1 .. Len(e.magic)
        /\ \A i \in 1 .. Len(e.magic) : masked(e.mask, e.magic)[i] = BitAnd(e.magic[i], e.mask[i])
    BY <1>2, MaskedEntry
  <2>2. \/ p.end = "ignore" /\ ~(e.enabled /\ "F" \in e.flags)
        \/ /\ e.enabled /\ "F" \in e.flags
           /\ p = [end |-> "no", offset |-> e.offset, magic |-> e.magic, mask |-> e.mask]
    <3>1. p.end # "error"
      OBVIOUS
    <3>2. \/ /\ p.end \in {"error", "ignore"}
             /\ e.enabled /\ "F" \in e.flags => p.end = "error"
          \/ /\ e.enabled /\ "F" \in e.flags
             /\ p = [end |-> "no", offset |-> e.offset, magic |-> e.magic, mask |-> e.mask]
      <4> HIDE DEF e
      <4> QED
        BY <1>2, <2>1, ParseWithMask
    <3> HIDE DEF p, e
    <3> QED
      BY <3>1, <3>2
  <2>3. CASE p.end = "ignore" /\ ~(e.enabled /\ "F" \in e.flags)
    <3>1. Detectable(n) = {}
      BY <2>3 DEF Detectable
    <3> QED
      BY <2>3, <3>1
  <2>4. CASE /\ e.enabled /\ "F" \in e.flags
             /\ p = [end |-> "no", offset |-> e.offset, magic |-> e.magic, mask |-> e.mask]
    <3>1. p.end = "no" /\ p.offset = e.offset /\ p.mask = e.mask /\ p.magic = e.magic
      BY <2>4
    <3>2. Detectable(n) =
            {q \in Platform : \E h \in Headers[q] : \A i \in 1 .. Len(e.magic) :
               e.offset + i - 1 \in DOMAIN h /\ h[e.offset + i - 1] = BitAnd(e.magic[i], e.mask[i])}
      BY <1>2, <2>1, <2>4 DEF Detectable
    <3> HIDE DEF p, e
    <3>3. ASSUME NEW h, magicMatch(h, e.offset, e.mask, e.magic), NEW i \in 1 .. Len(e.magic)
          PROVE  e.offset + i - 1 \in DOMAIN h /\ h[e.offset + i - 1] = BitAnd(e.magic[i], e.mask[i])
      <4>1. e.offset \in Nat /\ e.magic \in Seq(Byte) /\ e.magic # <<>> /\ e.mask \in Seq(Byte)
        BY <2>1
      <4>2. e.offset + i - 1 \in DOMAIN h
        BY <3>3, <4>1, MatchAgrees, Zenon
      <4>3. h[e.offset + i - 1] = masked(e.mask, e.magic)[i]
        BY <3>3, <4>1, MatchAgrees
      <4> QED
        BY <2>1, <4>2, <4>3
    <3>4. ASSUME NEW h,
                 \A i \in 1 .. Len(e.magic) :
                   /\ e.offset + i - 1 \in DOMAIN h
                   /\ h[e.offset + i - 1] = BitAnd(e.magic[i], e.mask[i])
          PROVE  magicMatch(h, e.offset, e.mask, e.magic)
      <4>1. \A i \in 1 .. Len(e.magic) :
              e.offset + i - 1 \in DOMAIN h /\ h[e.offset + i - 1] = masked(e.mask, e.magic)[i]
        BY <2>1, <3>4
      <4> QED
        BY <2>1, <4>1, MagicMatchIsAgreement
    <3>5. matches(p) = {q \in Platform : \E h \in Headers[q] : magicMatch(h, e.offset, e.mask, e.magic)}
      BY <3>1 DEF matches
    <3>6. matches(p) = Detectable(n)
      <4>1. \A q \in Platform :
              q \in matches(p) <=> \E h \in Headers[q] : magicMatch(h, e.offset, e.mask, e.magic)
        BY <3>5
      <4>2. ASSUME NEW q \in Platform, NEW h \in Headers[q],
                   magicMatch(h, e.offset, e.mask, e.magic)
            PROVE  q \in Detectable(n)
        BY <3>2, <3>3, <4>2
      <4>3. ASSUME NEW q \in Detectable(n)
            PROVE  q \in matches(p)
        <5>1. PICK h \in Headers[q] : \A i \in 1 .. Len(e.magic) :
                e.offset + i - 1 \in DOMAIN h /\ h[e.offset + i - 1] = BitAnd(e.magic[i], e.mask[i])
          BY <3>2, <4>3
        <5>2. magicMatch(h, e.offset, e.mask, e.magic)
          BY <3>4, <5>1
        <5> QED
          BY <3>2, <3>5, <4>3, <5>2
      <4> QED
        BY <3>2, <3>5, <4>2, <4>3
    <3>7. (IF p.end = "ignore" THEN {} ELSE matches(p)) = Detectable(n)
      BY <3>1, <3>6
    <3> QED
      BY <3>7 DEF p, e
  <2> QED
    BY <2>2, <2>3, <2>4
<1> QED
  BY <1>1, <1>2

\* The rule of the code is enough for the kernel's: bytes that agree with the masked
\* magic number agree with the magic number as far as the mask goes.
LEMMA DetectableIsEmulable ==
  ASSUME NEW n \in DOMAIN Entry
  PROVE  Detectable(n) \subseteq Emulable(n)
<1> DEFINE e == Entry[n]
<1> SUFFICES ASSUME NEW q \in Detectable(n)
             PROVE  q \in Emulable(n)
  OBVIOUS
<1>1. q \in Platform /\ e.enabled /\ "F" \in e.flags /\ e.mask # <<>>
  BY DEF Detectable
<1>2. PICK h \in Headers[q] : \A i \in DOMAIN e.magic :
        e.offset + i - 1 \in DOMAIN h /\ h[e.offset + i - 1] = BitAnd(e.magic[i], e.mask[i])
  BY DEF Detectable
<1>3. /\ e.magic # <<>> /\ DOMAIN e.magic = 1 .. Len(e.magic)
      /\ \A i \in 1 .. Len(e.magic) : e.magic[i] \in Byte /\ e.mask[i] \in Byte
  BY <1>1, MaskedEntry
<1> HIDE DEF e
<1>4. \A i \in DOMAIN e.magic :
        /\ e.offset + i - 1 \in DOMAIN h
        /\ BitAnd(h[e.offset + i - 1], e.mask[i]) = BitAnd(e.magic[i], e.mask[i])
  BY <1>2, <1>3, BitAndAssumption
<1>5. Runs(e, h)
  BY <1>1, <1>3, <1>4 DEF Runs
<1> QED
  BY <1>1, <1>5 DEF Emulable, e

\* And of an entry with a mask it misses nothing, with the headers of elf.go.
LEMMA EmulableIsDetectable ==
  ASSUME NEW n \in DOMAIN Entry, Entry[n].mask # <<>>
  PROVE  Emulable(n) \subseteq Detectable(n)
<1> DEFINE e == Entry[n]
<1> SUFFICES ASSUME NEW q \in Emulable(n)
             PROVE  q \in Detectable(n)
  OBVIOUS
<1>1. q \in Platform /\ "F" \in e.flags /\ \E h \in Headers[q] : Runs(e, h)
  BY DEF Emulable
<1>2. e.enabled
  BY <1>1 DEF Runs
<1>3. PICK h \in Headers[q] :
        /\ Runs(e, h)
        /\ \A i \in DOMAIN e.magic : BitAnd(h[e.offset + i - 1], e.mask[i]) = h[e.offset + i - 1]
  BY <1>1, HeaderAssumption
<1>4. e.mask # <<>>
  OBVIOUS
<1> HIDE DEF e
<1>5. \A i \in DOMAIN e.magic :
        e.offset + i - 1 \in DOMAIN h /\ h[e.offset + i - 1] = BitAnd(e.magic[i], e.mask[i])
  BY <1>3, <1>4 DEF Runs
<1> QED
  BY <1>1, <1>2, <1>4, <1>5 DEF Detectable, e

-----------------------------------------------------------------------------
(* The walk.                                                               *)

\* The platforms of a file that was read are in the list, if it is an entry; and the
\* status has been noticed, if it is that.
Covered(n) ==
  /\ n \in Listed \ unread => Detectable(n) \subseteq registered
  /\ n = "status" /\ status = "enabled" => globalEnabled

\* The walk has a position; as long as it has not failed, all files before it are
\* covered.
WalkOK ==
  \E k \in 1 .. Len(found) + 1 :
    /\ files = SubSeq(found, k, Len(found))
    /\ err = "none" => \A i \in 1 .. k - 1 : Covered(found[i])

\* A walk without an error ends at the last file, and nothing is returned before.
PhaseOK ==
  /\ phase \in {"start", "walk"} => err = "none"
  /\ phase = "walked" /\ err = "none" => files = <<>>
  /\ phase # "done" => emulated = {}

StatusOK == globalEnabled => status = "enabled"

ListOK == registered \subseteq UNION {Detectable(n) : n \in Listed}

\* A list that is returned is what the entries show that were read.
ReturnedOK ==
  emulated # {} =>
    /\ status = "enabled"
    /\ emulated \subseteq UNION {Detectable(n) : n \in Listed}
    /\ \A n \in Listed \ unread : Detectable(n) \subseteq emulated

\* When nothing goes wrong, the list has exactly the platforms that the rule of the
\* code finds in the entries.
DetectionComplete ==
  phase = "done" /\ err = "none" /\ unread = {} /\ status = "enabled" /\ "status" \in ToSet(found) =>
    emulated = UNION {Detectable(n) : n \in Listed}

\* The inductive invariant.
IInv == TypeOK /\ WalkOK /\ PhaseOK /\ StatusOK /\ ListOK /\ ReturnedOK /\ DetectionComplete

\* The next file, and the ones after it.
LEMMA NextFile ==
  ASSUME NEW S, NEW s \in Seq(S), NEW k \in 1 .. Len(s) + 1,
         SubSeq(s, k, Len(s)) # <<>>
  PROVE  /\ k \in 1 .. Len(s)
         /\ Head(SubSeq(s, k, Len(s))) = s[k]
         /\ Tail(SubSeq(s, k, Len(s))) = SubSeq(s, k + 1, Len(s))
         /\ s[k] \in S
<1>1. Len(s) \in Nat
  BY LenProperties
<1>2. k \in 1 .. Len(s)
  BY <1>1, SubSeqEmpty
<1>3. Len(s) \in k .. Len(s)
  BY <1>1, <1>2
<1>4. Head(SubSeq(s, k, Len(s))) = s[k] /\ Tail(SubSeq(s, k, Len(s))) = SubSeq(s, k + 1, Len(s))
  BY <1>2, <1>3, HeadTailOfSubSeq
<1> QED
  BY <1>2, <1>4, ElementOfSeq

\* When no file is left, the position is behind the last.
LEMMA NoFile ==
  ASSUME NEW S, NEW s \in Seq(S), NEW k \in 1 .. Len(s) + 1,
         SubSeq(s, k, Len(s)) = <<>>
  PROVE  k = Len(s) + 1
<1>1. Len(s) \in Nat
  BY LenProperties
<1>2. \A i \in k .. Len(s) : s[i] \in S
  BY <1>1, ElementOfSeq
<1>3. Len(SubSeq(s, k, Len(s))) = IF k <= Len(s) THEN Len(s) - k + 1 ELSE 0
  BY <1>1, <1>2, SubSeqProperties
<1> QED
  BY <1>1, <1>3

LEMMA InitIInv == Init => IInv
<1> SUFFICES ASSUME Init
             PROVE  IInv
  OBVIOUS
<1>1. found \in Seq(Names) /\ files = found
  BY NamesAssumption DEF Init
<1>2. Len(found) \in Nat /\ files = SubSeq(found, 1, Len(found))
  BY <1>1, LenProperties, SubSeqFull
<1>3. 1 \in 1 .. Len(found) + 1
  BY <1>2
<1>4. TypeOK
  BY <1>1, <1>2, <1>3 DEF Init, TypeOK, Error
<1>5. WalkOK
  BY <1>2, <1>3 DEF WalkOK
<1>6. PhaseOK /\ StatusOK /\ ListOK /\ ReturnedOK /\ DetectionComplete
  BY DEF Init, PhaseOK, StatusOK, ListOK, ReturnedOK, DetectionComplete
<1> QED
  BY <1>4, <1>5, <1>6 DEF IInv

\* One call of the callback.
LEMMA VisitIInv ==
  ASSUME IInv, Visit
  PROVE  IInv'
<1> DEFINE U == UNION {Detectable(n) : n \in Listed}
<1>1. /\ phase = "walk" /\ err = "none" /\ emulated = {}
      /\ files # <<>> /\ files' = Tail(files)
      /\ found \in Seq(Names) /\ Len(found) \in Nat
  BY LenProperties DEF IInv, TypeOK, PhaseOK, Visit
<1>2. PICK k \in 1 .. Len(found) + 1 :
        /\ files = SubSeq(found, k, Len(found))
        /\ \A i \in 1 .. k - 1 : Covered(found[i])
  BY <1>1 DEF IInv, WalkOK
<1>3. /\ k \in 1 .. Len(found)
      /\ Head(files) = found[k]
      /\ files' = SubSeq(found, k + 1, Len(found))
      /\ found[k] \in Names
  BY <1>1, <1>2, NextFile
<1>4. found[k] \in ToSet(found)
  <2>1. k \in DOMAIN found
    BY <1>1, <1>3, LenProperties
  <2> QED
    BY <2>1 DEF ToSet
<1>5. /\ UNCHANGED <<found, status, binfmt, emulated>>
      /\ U' = U /\ Listed' = Listed
  BY DEF Visit, Listed
<1> DEFINE C == /\ phase' \in {"walk", "walked"} /\ err' \in Error
                /\ phase' = "walked" => err' # "none"
                /\ phase' = "walk" => err' = "none"
                /\ globalEnabled' \in BOOLEAN /\ (globalEnabled' => status = "enabled")
                /\ globalEnabled => globalEnabled'
                /\ unread \subseteq unread' /\ unread' \subseteq ToSet(found)
                /\ registered \subseteq registered'
                /\ registered' \subseteq Platform /\ registered' \subseteq U
                /\ err' = "none" => Covered(found[k])'
<1>6. /\ globalEnabled \in BOOLEAN /\ (globalEnabled => status = "enabled")
      /\ status \in {"enabled", "disabled", "other"}
      /\ unread \subseteq ToSet(found) /\ registered \subseteq Platform /\ registered \subseteq U
  BY DEF IInv, TypeOK, StatusOK, ListOK
<1>7. ASSUME NEW e \in Error \ {"none"}, Fail(e)
      PROVE  C
  BY <1>6, <1>7 DEF Fail
<1>8. C
  <2> HIDE DEF C, U
  <2>1. CASE Skip
    <3>1. Covered(found[k])'
      BY <1>3, <1>5, <2>1 DEF Skip, Covered, Listed
    <3> QED
      BY <1>1, <1>6, <2>1, <3>1 DEF Skip, C, Error
  <2>2. CASE ReadError
    BY <1>7, <2>2 DEF ReadError, Error
  <2>3. CASE ReadStatus
    <3>1. Covered(found[k])'
      BY <1>3, <1>5, <2>3 DEF ReadStatus, Covered, Listed
    <3>2. CASE Fail("status")
      BY <1>7, <3>2 DEF Error
    <3>3. CASE globalEnabled' = (status = "enabled") /\ UNCHANGED <<phase, unread, registered, err>>
      BY <1>1, <1>6, <3>1, <3>3 DEF C, Error
    <3> QED
      BY <2>3, <3>2, <3>3 DEF ReadStatus
  <2>4. CASE ReadEntry
    <3>1. found[k] \in DOMAIN Entry /\ found[k] \in Listed /\ found[k] # "status"
      BY <1>3, <1>4, <2>4 DEF ReadEntry, Names, Listed
    <3>2. PICK broken \in BOOLEAN :
            LET p == parseBinfmtMisc(IF broken THEN <<>> ELSE lines(Entry[Head(files)])) IN
            \/ p.end = "error" /\ Fail("parse")
            \/ /\ p.end # "error"
               /\ registered' = registered \union IF p.end = "ignore" THEN {} ELSE matches(p)
               /\ unread' = unread \union {n \in {Head(files)} : broken}
               /\ UNCHANGED <<phase, globalEnabled, err>>
      BY <2>4 DEF ReadEntry
    <3> DEFINE n == found[k]
               p == parseBinfmtMisc(lines(Entry[n]))
    <3>3. CASE Fail("parse")
      BY <1>7, <3>3 DEF Error
    <3>4. CASE broken /\ ~Fail("parse")
      <4>1. parseBinfmtMisc(<<>>).end = "ignore"
        BY ParseNothing
      <4>2. /\ registered' = registered
            /\ unread' = unread \union {n}
            /\ UNCHANGED <<phase, globalEnabled, err>>
        BY <1>3, <3>2, <3>4, <4>1
      <4>3. Covered(n)'
        BY <1>5, <3>1, <4>2 DEF Covered
      <4> QED
        BY <1>1, <1>4, <1>6, <4>2, <4>3 DEF C, Error
    <3>5. CASE ~broken /\ ~Fail("parse")
      <4>1. /\ p.end # "error"
            /\ registered' = registered \union IF p.end = "ignore" THEN {} ELSE matches(p)
            /\ unread' = unread
            /\ UNCHANGED <<phase, globalEnabled, err>>
        BY <1>3, <3>2, <3>5
      <4>2. registered' = registered \union Detectable(n)
        <5>1. (IF p.end = "ignore" THEN {} ELSE matches(p)) = Detectable(n)
          BY <3>1, <4>1, AddedIsDetectable
        <5> HIDE DEF p
        <5> QED
          BY <4>1, <5>1
      <4>3. Detectable(n) \subseteq U /\ Detectable(n) \subseteq Platform
        BY <3>1 DEF U, Detectable
      <4>5. Covered(n)'
        BY <1>5, <3>1, <4>2 DEF Covered
      <4>6. registered' \subseteq Platform /\ registered' \subseteq U /\ registered \subseteq registered'
        BY <1>6, <4>2, <4>3
      <4> QED
        BY <1>1, <1>6, <4>1, <4>5, <4>6 DEF C, Error
    <3> QED
      BY <3>3, <3>4, <3>5
  <2> QED
    BY <2>1, <2>2, <2>3, <2>4 DEF Visit
<1>9. k + 1 \in 1 .. Len(found) + 1 /\ Len(found') = Len(found) /\ k + 1 - 1 = k
  BY <1>1, <1>3, <1>5
<1>10. TypeOK'
  <2>1. \E j \in 1 .. Len(found') + 1 : files' = SubSeq(found', j, Len(found'))
    BY <1>3, <1>5, <1>9
  <2> QED
    BY <1>5, <1>8, <2>1 DEF IInv, TypeOK, ToSet
<1>11. WalkOK'
  <2>1. ASSUME err' = "none", NEW i \in 1 .. k
        PROVE  Covered(found[i])'
    <3>1. CASE i = k
      BY <1>5, <1>8, <2>1, <3>1
    <3>2. CASE i # k
      <4>1. i \in 1 .. k - 1
        BY <1>1, <1>3, <3>2
      <4>2. Covered(found[i])
        BY <1>2, <4>1
      <4> HIDE DEF U
      <4> QED
        BY <1>5, <1>8, <4>2 DEF Covered
    <3> QED
      BY <3>1, <3>2
  <2>2. /\ k + 1 \in 1 .. Len(found') + 1
        /\ files' = SubSeq(found', k + 1, Len(found'))
        /\ err' = "none" => \A i \in 1 .. (k + 1) - 1 : Covered(found[i])'
    BY <1>3, <1>5, <1>9, <2>1
  <2> QED
    BY <2>2 DEF WalkOK
<1>12. PhaseOK' /\ StatusOK' /\ ListOK' /\ ReturnedOK'
  BY <1>1, <1>5, <1>8 DEF PhaseOK, StatusOK, ListOK, ReturnedOK
<1>13. DetectionComplete'
  BY <1>8 DEF DetectionComplete
<1> QED
  BY <1>10, <1>11, <1>12, <1>13 DEF IInv

\* A walk that ends without an error has covered every file.
LEMMA AllCovered ==
  ASSUME IInv, phase = "walked", err = "none"
  PROVE  \A n \in ToSet(found) : Covered(n)
<1>1. PICK k \in 1 .. Len(found) + 1 :
        /\ files = SubSeq(found, k, Len(found))
        /\ \A i \in 1 .. k - 1 : Covered(found[i])
  BY DEF IInv, WalkOK
<1>2. files = <<>> /\ found \in Seq(Names)
  BY DEF IInv, TypeOK, PhaseOK
<1>3. k - 1 = Len(found) /\ DOMAIN found = 1 .. Len(found)
  <2>1. k = Len(found) + 1
    BY <1>1, <1>2, NoFile
  <2> QED
    BY <1>2, <2>1, LenProperties
<1> QED
  BY <1>1, <1>3 DEF ToSet

\* The files of the listing that are entries are of those that can be registered.
LEMMA ListedEntries ==
  ASSUME IInv
  PROVE  Listed \subseteq DOMAIN Entry
  BY LenProperties DEF IInv, TypeOK, Listed, ToSet, Names

\* What it returns is then what the entries show.
LEMMA RegisteredComplete ==
  ASSUME IInv, Registered
  PROVE  DetectionComplete'
<1>1. /\ UNCHANGED <<files, found, status, globalEnabled, unread, registered, err>>
      /\ phase = "walked" /\ phase' = "done" /\ Listed' = Listed
  BY DEF Registered, Listed
<1> SUFFICES ASSUME err = "none", unread = {}, status = "enabled", "status" \in ToSet(found)
             PROVE  emulated' = UNION {Detectable(n) : n \in Listed}
  BY <1>1 DEF DetectionComplete, ToSet
<1>2. \A n \in ToSet(found) : Covered(n)
  BY <1>1, AllCovered
<1>3. globalEnabled
  BY <1>2 DEF Covered
<1>4. emulated' = registered
  BY <1>3 DEF Registered
<1>5. \A n \in Listed : Detectable(n) \subseteq registered
  BY <1>2 DEF Covered, Listed
<1>6. registered \subseteq UNION {Detectable(n) : n \in Listed}
  BY DEF IInv, ListOK
<1> QED
  BY <1>4, <1>5, <1>6

\* The invariant is inductive.
LEMMA NextIInv ==
  ASSUME IInv, [Next]_vars
  PROVE  IInv'
<1>1. CASE Root
  <2>1. /\ UNCHANGED <<files, found, status, globalEnabled, unread, registered, binfmt, emulated>>
        /\ phase = "start" /\ err = "none" /\ emulated = {}
        /\ \/ phase' \in {"walk", "panic"} /\ UNCHANGED err
           \/ phase' = "walked" /\ err' = "root"
    BY <1>1 DEF Root, IInv, PhaseOK
  <2>2. TypeOK'
    BY <2>1 DEF IInv, TypeOK, Error
  <2>3. WalkOK'
    BY <2>1 DEF IInv, WalkOK, Covered, Listed
  <2>4. PhaseOK' /\ StatusOK' /\ ListOK' /\ ReturnedOK' /\ DetectionComplete'
    BY <2>1 DEF IInv, PhaseOK, StatusOK, ListOK, Listed, ReturnedOK, DetectionComplete
  <2> QED
    BY <2>2, <2>3, <2>4 DEF IInv
<1>2. CASE Visit
  BY <1>2, VisitIInv
<1>3. CASE Walked
  <2>1. /\ UNCHANGED <<files, found, status, globalEnabled, unread, registered, err, binfmt, emulated>>
        /\ phase = "walk" /\ phase' = "walked" /\ files = <<>> /\ emulated = {}
    BY <1>3 DEF Walked, IInv, PhaseOK
  <2>2. TypeOK'
    BY <2>1 DEF IInv, TypeOK
  <2>3. WalkOK'
    BY <2>1 DEF IInv, WalkOK, Covered, Listed
  <2>4. PhaseOK' /\ StatusOK' /\ ListOK' /\ ReturnedOK' /\ DetectionComplete'
    BY <2>1 DEF IInv, PhaseOK, StatusOK, ListOK, Listed, ReturnedOK, DetectionComplete
  <2> QED
    BY <2>2, <2>3, <2>4 DEF IInv
<1>4. CASE Registered
  <2>1. /\ UNCHANGED <<files, found, status, globalEnabled, unread, registered, err>>
        /\ phase = "walked" /\ phase' = "done"
    BY <1>4 DEF Registered
  <2>2. /\ binfmt' \in [platforms : SUBSET Platform, err : Error]
        /\ \/ emulated' = {}
           \/ emulated' = registered /\ globalEnabled /\ err = "none"
    BY <1>4 DEF Registered, IInv, TypeOK, Error
  <2>3. TypeOK'
    BY <2>1, <2>2 DEF IInv, TypeOK
  <2>4. WalkOK'
    BY <2>1 DEF IInv, WalkOK, Covered, Listed
  <2>5. PhaseOK' /\ StatusOK' /\ ListOK'
    BY <2>1 DEF IInv, PhaseOK, StatusOK, ListOK, Listed
  <2>6. ReturnedOK'
    <3>1. CASE emulated' = {}
      BY <3>1 DEF ReturnedOK
    <3>2. CASE emulated' = registered /\ globalEnabled /\ err = "none"
      <4>1. \A n \in Listed : Covered(n)
        BY <2>1, <3>2, AllCovered DEF Listed
      <4>2. \A n \in Listed \ unread : Detectable(n) \subseteq registered
        BY <4>1 DEF Covered
      <4>3. status = "enabled" /\ registered \subseteq UNION {Detectable(n) : n \in Listed}
        BY <3>2 DEF IInv, StatusOK, ListOK
      <4>4. Listed' = Listed
        BY <2>1 DEF Listed
      <4> QED
        BY <2>1, <3>2, <4>2, <4>3, <4>4 DEF ReturnedOK
    <3> QED
      BY <2>2, <3>1, <3>2
  <2>7. DetectionComplete'
    BY <1>4, RegisteredComplete
  <2> QED
    BY <2>3, <2>4, <2>5, <2>6, <2>7 DEF IInv
<1>5. CASE UNCHANGED vars
  <2>1. TypeOK'
    BY <1>5 DEF vars, IInv, TypeOK
  <2>2. WalkOK'
    BY <1>5 DEF vars, IInv, WalkOK, Covered, Listed
  <2>3. PhaseOK' /\ StatusOK' /\ ListOK'
    BY <1>5 DEF vars, IInv, PhaseOK, StatusOK, ListOK, Listed
  <2>4. ReturnedOK'
    BY <1>5 DEF vars, IInv, ReturnedOK, Listed
  <2>5. DetectionComplete'
    BY <1>5 DEF vars, IInv, DetectionComplete, Listed
  <2> QED
    BY <2>1, <2>2, <2>3, <2>4, <2>5 DEF IInv
<1> QED
  BY <1>1, <1>2, <1>3, <1>4, <1>5 DEF Next

\* The position of the walk, what it has listed so far and what is returned of it
\* agree in every reachable state.
THEOREM Invariant == Spec => []IInv
<1>1. Init => IInv
  BY InitIInv
<1>2. IInv /\ [Next]_vars => IInv'
  BY NextIInv
<1> QED
  BY <1>1, <1>2, PTL DEF Spec

\* registeredBinfmtMisc and Registered keep their variables well formed; the files
\* still to be visited are the rest of the listing.
THEOREM TypeInvariant == Spec => []TypeOK
<1>1. IInv => TypeOK
  BY DEF IInv
<1> QED
  BY <1>1, Invariant, PTL

\* For every set of entries that the kernel can hold and every listing of them: a
\* list that Registered returns contains only platforms that have an emulator by the
\* kernel's rule, and all that have one with a mask, whichever files failed.
THEOREM DetectionIsSound == Spec => []DetectionSound
<1>1. IInv => DetectionSound
  <2> SUFFICES ASSUME IInv, emulated # {}
               PROVE  DetectionSound
    BY DEF DetectionSound
  <2>1. /\ status = "enabled"
        /\ emulated \subseteq UNION {Detectable(n) : n \in Listed}
        /\ \A n \in Listed \ unread : Detectable(n) \subseteq emulated
    BY DEF IInv, ReturnedOK
  <2>2. \A n \in Listed : Detectable(n) \subseteq Emulable(n)
    BY ListedEntries, DetectableIsEmulable
  <2>3. emulated \subseteq UNION {Emulable(n) : n \in Listed}
    BY <2>1, <2>2
  <2>4. ASSUME NEW n \in Listed \ unread, Entry[n].mask # <<>>
        PROVE  Emulable(n) \subseteq emulated
    BY <2>1, <2>4, ListedEntries, EmulableIsDetectable
  <2>5. AllEmulable \subseteq emulated
    BY <2>4 DEF AllEmulable
  <2> QED
    BY <2>1, <2>3, <2>5 DEF DetectionSound
<1> QED
  BY <1>1, Invariant, PTL

\* Without errors the list is exactly what the entries show by the code's own rule,
\* for every table of headers: the status is noticed wherever it stands in the
\* listing, no entry is left out, read past its end or compared in part, and none
\* that is disabled, without the flag F or without a mask adds anything.
THEOREM DetectionIsComplete == Spec => []DetectionComplete
<1>1. IInv => DetectionComplete
  BY DEF IInv
<1> QED
  BY <1>1, Invariant, PTL
=============================================================================
