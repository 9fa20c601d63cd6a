-------------------------- MODULE OutputRelayProofs --------------------------
(***************************************************************************)
(* Proofs about OutputRelay: however the writes of the builds, the reads   *)
(* of the relaying goroutines and the end of the command interleave, what  *)
(* was written is what was printed, what the reader holds and what is on   *)
(* its way, in this order.                                                 *)
(***************************************************************************)
EXTENDS OutputRelay, FiniteSetTheorems, SequenceTheorems, TLAPS

Text == Seq(Char)

\* How many lines a text has up to the place i.
Rank(t, i) == Cardinality({j \in Ends(t) : j <= i})

-----------------------------------------------------------------------------
(* The newlines of a text are numbered without gaps and in their order.    *)

\* The newlines of a text are finitely many places in it.
LEMMA EndsFinite ==
  ASSUME NEW t \in Text
  PROVE  /\ Ends(t) \in SUBSET (1 .. Len(t))
         /\ IsFiniteSet(Ends(t))
         /\ Cardinality(Ends(t)) \in Nat
<1>1. Len(t) \in Nat /\ DOMAIN t = 1 .. Len(t)
  BY LenProperties DEF Text
<1>2. Ends(t) \in SUBSET (1 .. Len(t))
  BY <1>1 DEF Ends
<1>3. IsFiniteSet(1 .. Len(t))
  BY <1>1, FS_Interval
<1>4. IsFiniteSet(Ends(t))
  BY <1>2, <1>3, FS_Subset
<1>5. Cardinality(Ends(t)) \in Nat
  BY <1>4, FS_CardinalityType
<1> QED
  BY <1>2, <1>4, <1>5

\* The number of a newline is at least one and at most the number of them all.
LEMMA RankRange ==
  ASSUME NEW t \in Text, NEW i \in Ends(t)
  PROVE  Rank(t, i) \in 1 .. Cardinality(Ends(t))
<1> DEFINE U == {j \in Ends(t) : j <= i}
<1>1. i \in Nat
  BY EndsFinite
<1>2. i \in U /\ U \in SUBSET Ends(t)
  BY <1>1
<1> HIDE DEF U
<1>3. /\ IsFiniteSet(U)
      /\ Cardinality(U) <= Cardinality(Ends(t))
  BY <1>2, EndsFinite, FS_Subset
<1>4. Cardinality(U) \in Nat
  BY <1>3, FS_CardinalityType
<1>5. Cardinality(U) # 0
  BY <1>2, <1>3, FS_EmptySet
<1>6. Rank(t, i) = Cardinality(U)
  BY DEF Rank, U
<1> QED
  BY <1>3, <1>4, <1>5, <1>6, EndsFinite

\* Later newlines have greater numbers.
LEMMA RankMonotone ==
  ASSUME NEW t \in Text, NEW i \in Ends(t), NEW j \in Ends(t), i < j
  PROVE  Rank(t, i) < Rank(t, j)
<1> DEFINE U(x) == {y \in Ends(t) : y <= x}
<1>1. Ends(t) \in SUBSET Nat
  BY EndsFinite
<1>2. U(i) \in SUBSET U(j) /\ j \in U(j) /\ j \notin U(i)
  BY <1>1
<1>3. U(j) \in SUBSET Ends(t)
  OBVIOUS
<1>4. Rank(t, i) = Cardinality(U(i)) /\ Rank(t, j) = Cardinality(U(j))
  BY DEF Rank
<1> HIDE DEF U
<1>5. IsFiniteSet(U(j))
  BY <1>3, EndsFinite, FS_Subset
<1>6. /\ Cardinality(U(i)) <= Cardinality(U(j))
      /\ Cardinality(U(j)) = Cardinality(U(i)) => U(j) = U(i)
  BY <1>2, <1>5, FS_Subset
<1>7. Rank(t, i) \in Nat /\ Rank(t, j) \in Nat
  BY RankRange, EndsFinite
<1> QED
  BY <1>2, <1>4, <1>6, <1>7

\* Every number up to the number of newlines is the number of exactly one: the
\* numbering is an injection between sets of the same size.
LEMMA LineEndProperties ==
  ASSUME NEW t \in Text, NEW k \in 1 .. Cardinality(Ends(t))
  PROVE  /\ LineEnd(t, k) \in Ends(t)
         /\ Rank(t, LineEnd(t, k)) = k
         /\ \A i \in Ends(t) : Rank(t, i) = k => i = LineEnd(t, k)
<1> DEFINE S == Ends(t)
           T == 1 .. Cardinality(S)
           f == [i \in S |-> Rank(t, i)]
<1>1. S \in SUBSET Nat /\ IsFiniteSet(S) /\ Cardinality(S) \in Nat
  BY EndsFinite
<1>2. f \in [S -> T]
  BY RankRange
<1>3. ASSUME NEW i \in S, NEW j \in S, Rank(t, i) = Rank(t, j)
      PROVE  i = j
  <2>1. Rank(t, i) \in Nat /\ Rank(t, j) \in Nat
    BY RankRange, <1>1
  <2>2. ~(i < j) /\ ~(j < i)
    BY <1>3, <2>1, RankMonotone
  <2> QED
    BY <2>2, <1>1
<1>4. f \in Injection(S, T)
  BY <1>2, <1>3 DEF Injection, IsInjective
<1>5. IsFiniteSet(T) /\ Cardinality(T) = Cardinality(S)
  <2>1. /\ IsFiniteSet(T)
        /\ Cardinality(T) = IF 1 > Cardinality(S) THEN 0 ELSE Cardinality(S) - 1 + 1
    BY <1>1, FS_Interval
  <2> QED
    BY <2>1, <1>1
<1> HIDE DEF S, T, f
<1>6. f \in Surjection(S, T)
  BY <1>4, <1>5, FS_Injection
<1>7. \E i \in S : Rank(t, i) = k
  BY <1>6 DEF Surjection, S, T, f
<1>8. /\ LineEnd(t, k) \in S
      /\ Rank(t, LineEnd(t, k)) = k
  BY <1>7 DEF LineEnd, Rank, S
<1> QED
  BY <1>3, <1>8 DEF S

\* Lines do not overlap.
LEMMA LineEndMonotone ==
  ASSUME NEW t \in Text, NEW k \in 1 .. Cardinality(Ends(t)), k # 1
  PROVE  /\ k - 1 \in 1 .. Cardinality(Ends(t))
         /\ LineEnd(t, k - 1) < LineEnd(t, k)
<1>1. k - 1 \in 1 .. Cardinality(Ends(t))
  BY EndsFinite
<1> DEFINE i == LineEnd(t, k - 1)
           j == LineEnd(t, k)
<1>2. i \in Ends(t) /\ j \in Ends(t) /\ Rank(t, i) = k - 1 /\ Rank(t, j) = k
  BY <1>1, LineEndProperties
<1>3. i \in Nat /\ j \in Nat
  BY <1>2, EndsFinite
<1> HIDE DEF i, j
<1>4. ~(j < i) /\ i # j
  BY <1>2, RankMonotone
<1>5. i < j
  BY <1>3, <1>4
<1> QED
  BY <1>1, <1>5 DEF i, j

\* A line begins and ends in the text.
LEMMA LineBounds ==
  ASSUME NEW t \in Text, NEW k \in 1 .. Cardinality(Ends(t))
  PROVE  /\ LineEnd(t, k) \in 1 .. Len(t)
         /\ LineBegin(t, k) \in 1 .. LineEnd(t, k)
<1>1. LineEnd(t, k) \in 1 .. Len(t)
  BY LineEndProperties, EndsFinite
<1>2. CASE k = 1
  BY <1>1, <1>2 DEF LineBegin
<1>3. CASE k # 1
  <2>1. /\ k - 1 \in 1 .. Cardinality(Ends(t))
        /\ LineEnd(t, k - 1) < LineEnd(t, k)
    BY <1>3, LineEndMonotone
  <2>2. LineEnd(t, k - 1) \in 1 .. Len(t)
    BY <2>1, LineEndProperties, EndsFinite
  <2>3. Len(t) \in Nat
    BY LenProperties DEF Text
  <2> QED
    BY <1>1, <1>3, <2>1, <2>2, <2>3 DEF LineBegin
<1> QED
  BY <1>1, <1>2, <1>3

\* The lines of a text are a sequence of texts, one for each newline.
LEMMA LinesType ==
  ASSUME NEW t \in Text
  PROVE  /\ LinesOf(t) \in Seq(Text)
         /\ Len(LinesOf(t)) = Cardinality(Ends(t))
         /\ \A k \in 1 .. Cardinality(Ends(t)) :
              LinesOf(t)[k] = SubSeq(t, LineBegin(t, k), LineEnd(t, k) - 1)
<1> DEFINE n == Cardinality(Ends(t))
           w(k) == SubSeq(t, LineBegin(t, k), LineEnd(t, k) - 1)
<1>1. n \in Nat
  BY EndsFinite
<1>2. ASSUME NEW k \in 1 .. n
      PROVE  w(k) \in Text
  <2> DEFINE b == LineBegin(t, k)
             e == LineEnd(t, k) - 1
  <2>1. b \in Int /\ e \in Int /\ b .. e \subseteq 1 .. Len(t)
    BY LineBounds, LenProperties DEF Text
  <2>2. \A i \in b .. e : t[i] \in Char
    BY <2>1, ElementOfSeq DEF Text
  <2> HIDE DEF b, e
  <2>3. SubSeq(t, b, e) \in Text
    BY <2>1, <2>2, SubSeqProperties DEF Text
  <2> QED
    BY <2>3 DEF b, e
<1>3. LinesOf(t) = [k \in 1 .. n |-> w(k)]
  BY DEF LinesOf
<1> HIDE DEF n, w
<1>4. LinesOf(t) \in [1 .. n -> Text]
  BY <1>2, <1>3
<1>5. LinesOf(t) \in Seq(Text)
  BY <1>1, <1>4, SeqDef
<1>6. Len(LinesOf(t)) = n
  BY <1>1, <1>4, <1>5, LenProperties
<1> QED
  BY <1>3, <1>5, <1>6 DEF n, w

-----------------------------------------------------------------------------
(* The lines of two texts in a row.                                        *)

\* A text that has no unfinished line.
Whole(t) == t = <<>> \/ t[Len(t)] = Newline

\* The newlines of two texts in a row are those of the first and, moved by its
\* length, those of the second.
LEMMA EndsConcat ==
  ASSUME NEW a \in Text, NEW b \in Text
  PROVE  /\ a \o b \in Text
         /\ \A i \in 1 .. Len(a) : i \in Ends(a \o b) <=> i \in Ends(a)
         /\ \A j \in 1 .. Len(b) : Len(a) + j \in Ends(a \o b) <=> j \in Ends(b)
         /\ \A i \in Ends(a \o b) : i \in Ends(a) \/ \E j \in Ends(b) : i = Len(a) + j
<1> DEFINE c == a \o b
           n == Len(a)
           m == Len(b)
<1>1. n \in Nat /\ m \in Nat /\ DOMAIN a = 1 .. n /\ DOMAIN b = 1 .. m
  BY LenProperties DEF Text
<1>2. /\ c \in Text
      /\ Len(c) = n + m
      /\ \A i \in 1 .. n + m : c[i] = IF i <= n THEN a[i] ELSE b[i - n]
  BY ConcatProperties DEF Text
<1>3. DOMAIN c = 1 .. n + m
  BY <1>2, LenProperties DEF Text
<1> HIDE DEF c, n, m
<1>4. \A i \in 1 .. n : i \in Ends(c) <=> i \in Ends(a)
  <2> TAKE i \in 1 .. n
  <2>1. i \in 1 .. n + m /\ i <= n
    BY <1>1
  <2>2. c[i] = a[i]
    BY <1>2, <2>1
  <2> QED
    BY <1>1, <1>3, <2>1, <2>2 DEF Ends
<1>5. \A j \in 1 .. m : n + j \in Ends(c) <=> j \in Ends(b)
  <2> TAKE j \in 1 .. m
  <2>1. n + j \in 1 .. n + m /\ ~(n + j <= n) /\ (n + j) - n = j
    BY <1>1
  <2>2. c[n + j] = b[j]
    BY <1>2, <2>1
  <2> QED
    BY <1>1, <1>3, <2>1, <2>2 DEF Ends
<1>6. \A i \in Ends(c) : i \in Ends(a) \/ \E j \in Ends(b) : i = n + j
  <2> TAKE i \in Ends(c)
  <2>1. i \in 1 .. n + m
    BY <1>3 DEF Ends
  <2>2. CASE i <= n
    <3>1. i \in 1 .. n
      BY <1>1, <2>1, <2>2
    <3> QED
      BY <1>4, <3>1
  <2>3. CASE ~(i <= n)
    <3>1. i - n \in 1 .. m /\ i = n + (i - n)
      BY <1>1, <2>1, <2>3
    <3>2. i - n \in Ends(b)
      BY <1>5, <3>1
    <3> QED
      BY <3>1, <3>2
  <2> QED
    BY <2>2, <2>3
<1> QED
  BY <1>2, <1>4, <1>5, <1>6 DEF c, n, m

\* A set of places that is moved keeps its size.
LEMMA ShiftCardinality ==
  ASSUME NEW S \in SUBSET Nat, NEW n \in Nat, IsFiniteSet(S)
  PROVE  /\ IsFiniteSet({n + j : j \in S})
         /\ Cardinality({n + j : j \in S}) = Cardinality(S)
<1> DEFINE T == {n + j : j \in S}
           f == [j \in S |-> n + j]
<1>1. f \in [S -> T]
  OBVIOUS
<1>2. \A i, j \in S : f[i] = f[j] => i = j
  OBVIOUS
<1>3. \A y \in T : \E j \in S : f[j] = y
  OBVIOUS
<1> HIDE DEF T, f
<1>4. f \in Bijection(S, T)
  BY <1>1, <1>2, <1>3 DEF Bijection, Injection, Surjection, IsInjective
<1>5. ExistsBijection(S, T)
  BY <1>4 DEF ExistsBijection
<1>6. IsFiniteSet(T) /\ Cardinality(T) = Cardinality(S)
  BY <1>5, FS_Bijection
<1> QED
  BY <1>6 DEF T

\* The newlines of a text together with places behind it.
LEMMA CardinalityConcat ==
  ASSUME NEW a \in Text, NEW S \in SUBSET (Nat \ {0}), IsFiniteSet(S)
  PROVE  Cardinality(Ends(a) \union {Len(a) + j : j \in S}) = Cardinality(Ends(a)) + Cardinality(S)
<1> DEFINE A == Ends(a)
           B == {Len(a) + j : j \in S}
<1>1. A \in SUBSET (1 .. Len(a)) /\ IsFiniteSet(A) /\ Cardinality(A) \in Nat
  BY EndsFinite
<1>2. Len(a) \in Nat
  BY LenProperties DEF Text
<1>3. Cardinality(S) \in Nat
  BY FS_CardinalityType
<1>4. IsFiniteSet(B) /\ Cardinality(B) = Cardinality(S)
  <2>1. S \in SUBSET Nat
    OBVIOUS
  <2> QED
    BY <1>2, <2>1, ShiftCardinality
<1>5. A \cap B = {}
  BY <1>1, <1>2
<1> HIDE DEF A, B
<1>6. Cardinality(A \union B) = Cardinality(A) + Cardinality(B) - Cardinality(A \cap B)
  BY <1>1, <1>4, FS_Union
<1>7. Cardinality(A \cap B) = 0
  BY <1>5, FS_EmptySet
<1>8. Cardinality(A \union B) = Cardinality(A) + Cardinality(S)
  BY <1>1, <1>3, <1>4, <1>6, <1>7
<1> QED
  BY <1>8 DEF A, B

\* The newlines of two texts in a row are numbered through.
LEMMA RankConcat ==
  ASSUME NEW a \in Text, NEW b \in Text
  PROVE  /\ Cardinality(Ends(a \o b)) = Cardinality(Ends(a)) + Cardinality(Ends(b))
         /\ \A i \in Ends(a) : i \in Ends(a \o b) /\ Rank(a \o b, i) = Rank(a, i)
         /\ \A j \in Ends(b) : /\ Len(a) + j \in Ends(a \o b)
                               /\ Rank(a \o b, Len(a) + j) = Cardinality(Ends(a)) + Rank(b, j)
<1> DEFINE c == a \o b
           n == Len(a)
<1>1. /\ n \in Nat
      /\ Ends(a) \in SUBSET (1 .. n)
      /\ Ends(b) \in SUBSET (1 .. Len(b))
      /\ Len(b) \in Nat
      /\ IsFiniteSet(Ends(b))
  BY EndsFinite, LenProperties DEF Text
<1>2. /\ \A i \in 1 .. n : i \in Ends(c) <=> i \in Ends(a)
      /\ \A j \in 1 .. Len(b) : n + j \in Ends(c) <=> j \in Ends(b)
      /\ \A i \in Ends(c) : i \in Ends(a) \/ \E j \in Ends(b) : i = n + j
  BY EndsConcat
<1>3. ASSUME NEW S, S \in SUBSET Ends(b)
      PROVE  Cardinality(Ends(a) \union {n + j : j \in S}) = Cardinality(Ends(a)) + Cardinality(S)
  <2>1. S \in SUBSET (Nat \ {0})
    BY <1>1, <1>3
  <2>2. IsFiniteSet(S)
    BY <1>1, <1>3, FS_Subset
  <2> QED
    BY <2>1, <2>2, CardinalityConcat
<1> HIDE DEF c, n
<1>4. Cardinality(Ends(c)) = Cardinality(Ends(a)) + Cardinality(Ends(b))
  <2>1. Ends(c) = Ends(a) \union {n + j : j \in Ends(b)}
    BY <1>1, <1>2
  <2> QED
    BY <1>3, <2>1
<1>5. \A i \in Ends(a) : i \in Ends(c) /\ Rank(c, i) = Rank(a, i)
  <2> TAKE i \in Ends(a)
  <2>1. {j \in Ends(c) : j <= i} = {j \in Ends(a) : j <= i}
    BY <1>1, <1>2
  <2> QED
    BY <1>1, <1>2, <2>1 DEF Rank
<1>6. \A j \in Ends(b) : n + j \in Ends(c) /\ Rank(c, n + j) = Cardinality(Ends(a)) + Rank(b, j)
  <2> TAKE j \in Ends(b)
  <2> DEFINE S == {x \in Ends(b) : x <= j}
  <2>1. {x \in Ends(c) : x <= n + j} = Ends(a) \union {n + x : x \in S}
    <3>1. ASSUME NEW x \in Ends(c), x <= n + j
          PROVE  x \in Ends(a) \union {n + y : y \in S}
      BY <1>1, <1>2, <3>1
    <3>2. ASSUME NEW x \in Ends(a)
          PROVE  x \in Ends(c) /\ x <= n + j
      BY <1>1, <1>2
    <3>3. ASSUME NEW x \in S
          PROVE  n + x \in Ends(c) /\ n + x <= n + j
      BY <1>1, <1>2
    <3> QED
      BY <3>1, <3>2, <3>3
  <2>2. S \in SUBSET Ends(b)
    OBVIOUS
  <2>3. Rank(b, j) = Cardinality(S)
    BY DEF Rank
  <2> HIDE DEF S
  <2>4. Cardinality(Ends(a) \union {n + x : x \in S}) = Cardinality(Ends(a)) + Cardinality(S)
    BY <1>3, <2>2
  <2>5. Rank(c, n + j) = Cardinality(Ends(a)) + Rank(b, j)
    BY <2>1, <2>3, <2>4 DEF Rank
  <2> QED
    BY <1>1, <1>2, <2>5
<1> QED
  BY <1>4, <1>5, <1>6 DEF c, n

\* A line of the first of two texts in a row is a line of both.
LEMMA FirstLines ==
  ASSUME NEW a \in Text, NEW b \in Text, NEW k \in 1 .. Cardinality(Ends(a))
  PROVE  /\ k \in 1 .. Cardinality(Ends(a \o b))
         /\ LineEnd(a \o b, k) = LineEnd(a, k)
         /\ LineBegin(a \o b, k) = LineBegin(a, k)
         /\ LinesOf(a \o b)[k] = LinesOf(a)[k]
<1> DEFINE c == a \o b
           m == Cardinality(Ends(a))
<1>1. c \in Text
  BY EndsConcat
<1>2. 1 .. m \subseteq 1 .. Cardinality(Ends(c))
  BY RankConcat, EndsFinite
<1>3. ASSUME NEW l \in 1 .. m
      PROVE  LineEnd(c, l) = LineEnd(a, l)
  <2>1. LineEnd(a, l) \in Ends(a) /\ Rank(a, LineEnd(a, l)) = l
    BY LineEndProperties
  <2>2. LineEnd(a, l) \in Ends(c) /\ Rank(c, LineEnd(a, l)) = l
    BY <2>1, RankConcat
  <2>3. l \in 1 .. Cardinality(Ends(c))
    BY <1>2
  <2> HIDE DEF c
  <2> QED
    BY <1>1, <2>2, <2>3, LineEndProperties
<1>4. LineBegin(c, k) = LineBegin(a, k)
  <2>1. CASE k = 1
    BY <2>1 DEF LineBegin
  <2>2. CASE k # 1
    <3>1. k - 1 \in 1 .. m
      BY <2>2, EndsFinite
    <3> QED
      BY <1>3, <2>2, <3>1 DEF LineBegin
  <2> QED
    BY <2>1, <2>2
<1> DEFINE x == LineBegin(a, k)
           e == LineEnd(a, k)
<1>5. Len(a) \in Nat /\ e \in 1 .. Len(a) /\ x \in 1 .. e
  BY LineBounds, LenProperties DEF Text
<1>6. SubSeq(c, x, e - 1) = SubSeq(a, x, e - 1)
  <2> HIDE DEF x, e
  <2>1. CASE x = e
    <3>1. e - 1 < x /\ x \in Int /\ e - 1 \in Int
      BY <1>5, <2>1
    <3>2. SubSeq(c, x, e - 1) = <<>> /\ SubSeq(a, x, e - 1) = <<>>
      BY <3>1, SubSeqEmpty
    <3> QED
      BY <3>2
  <2>2. CASE x # e
    <3>1. x \in 1 .. Len(a) /\ e - 1 \in 1 .. Len(a)
      BY <1>5, <2>2
    <3> QED
      BY <3>1, SubSeqOfConcat1 DEF Text
  <2> QED
    BY <2>1, <2>2
<1>7. LinesOf(c)[k] = SubSeq(c, LineBegin(c, k), LineEnd(c, k) - 1)
  <2> HIDE DEF c
  <2> QED
    BY <1>1, <1>2, LinesType
<1>8. LinesOf(a)[k] = SubSeq(a, x, e - 1)
  BY LinesType
<1>9. LineEnd(c, k) = e
  BY <1>3
<1>10. LinesOf(c)[k] = LinesOf(a)[k]
  <2> HIDE DEF c, e
  <2> QED
    BY <1>4, <1>6, <1>7, <1>8, <1>9
<1> QED
  BY <1>2, <1>4, <1>9, <1>10

\* A text that is whole and not empty ends with its last line.
LEMMA WholeEnds ==
  ASSUME NEW a \in Text, Whole(a)
  PROVE  /\ Cardinality(Ends(a)) = 0 => Len(a) = 0
         /\ Cardinality(Ends(a)) # 0 => LineEnd(a, Cardinality(Ends(a))) = Len(a)
<1> DEFINE n == Len(a)
           m == Cardinality(Ends(a))
<1>1. /\ n \in Nat /\ DOMAIN a = 1 .. n
      /\ m \in Nat /\ IsFiniteSet(Ends(a)) /\ Ends(a) \in SUBSET (1 .. n)
  BY LenProperties, EndsFinite DEF Text
<1>2. CASE n = 0
  <2>1. Ends(a) = {}
    BY <1>1, <1>2
  <2>2. m = 0
    BY <2>1, FS_EmptySet
  <2> QED
    BY <1>2, <2>2
<1>3. CASE n # 0
  <2>1. a # <<>>
    BY <1>3, EmptySeq
  <2>2. n \in Ends(a)
    BY <1>1, <1>3, <2>1 DEF Whole, Ends
  <2>3. {j \in Ends(a) : j <= n} = Ends(a)
    BY <1>1
  <2>4. Rank(a, n) = m
    BY <2>3 DEF Rank
  <2>5. m # 0
    BY <1>1, <2>2, FS_EmptySet
  <2>6. m \in 1 .. m
    BY <1>1, <2>5
  <2>7. n = LineEnd(a, m)
    BY <2>2, <2>4, <2>6, LineEndProperties
  <2> QED
    BY <2>5, <2>7
<1> QED
  BY <1>2, <1>3

\* A line of the second of two texts in a row, if the first is whole, is a line of
\* both.
LEMMA SecondLines ==
  ASSUME NEW a \in Text, NEW b \in Text, Whole(a), NEW k \in 1 .. Cardinality(Ends(b))
  PROVE  LinesOf(a \o b)[Cardinality(Ends(a)) + k] = LinesOf(b)[k]
<1> DEFINE c == a \o b
           n == Len(a)
           m == Cardinality(Ends(a))
           x == LineBegin(b, k)
           e == LineEnd(b, k)
<1>1. c \in Text
  BY EndsConcat
<1>2. m \in Nat /\ Cardinality(Ends(b)) \in Nat /\ n \in Nat /\ Len(b) \in Nat
  BY EndsFinite, LenProperties DEF Text
<1>3. Cardinality(Ends(c)) = m + Cardinality(Ends(b))
  BY RankConcat
<1>4. ASSUME NEW l \in 1 .. Cardinality(Ends(b))
      PROVE  /\ m + l \in 1 .. Cardinality(Ends(c))
             /\ LineEnd(c, m + l) = n + LineEnd(b, l)
  <2>1. LineEnd(b, l) \in Ends(b) /\ Rank(b, LineEnd(b, l)) = l
    BY LineEndProperties
  <2>2. /\ n + LineEnd(b, l) \in Ends(c)
        /\ Rank(c, n + LineEnd(b, l)) = m + l
    BY <2>1, RankConcat
  <2>3. m + l \in 1 .. Cardinality(Ends(c))
    BY <1>2, <1>3
  <2> HIDE DEF c, n
  <2>4. LineEnd(c, m + l) = n + LineEnd(b, l)
    BY <1>1, <2>2, <2>3, LineEndProperties
  <2> QED
    BY <2>3, <2>4
<1>5. e \in 1 .. Len(b) /\ x \in 1 .. e
  BY LineBounds
<1>6. LineBegin(c, m + k) = n + x
  <2>1. CASE k # 1
    <3>1. k - 1 \in 1 .. Cardinality(Ends(b)) /\ m + k # 1 /\ (m + k) - 1 = m + (k - 1)
      BY <1>2, <2>1
    <3>2. LineEnd(c, m + (k - 1)) = n + LineEnd(b, k - 1)
      BY <1>4, <3>1
    <3>3. x = LineEnd(b, k - 1) + 1
      BY <2>1 DEF LineBegin
    <3>4. LineBegin(c, m + k) = LineEnd(c, m + (k - 1)) + 1
      BY <3>1 DEF LineBegin
    <3>5. LineEnd(b, k - 1) \in Nat
      BY <3>1, LineBounds
    <3> HIDE DEF c, n, m, x
    <3> QED
      BY <1>2, <3>2, <3>3, <3>4, <3>5
  <2>2. CASE k = 1 /\ m = 0
    <3>1. n = 0
      BY <2>2, WholeEnds
    <3> QED
      BY <2>2, <3>1 DEF LineBegin
  <2>3. CASE k = 1 /\ m # 0
    <3>1. m \in 1 .. m /\ m + k # 1 /\ (m + k) - 1 = m
      BY <1>2, <2>3
    <3>2. LineEnd(c, m) = LineEnd(a, m)
      BY <3>1, FirstLines
    <3>3. LineEnd(a, m) = n
      BY <2>3, WholeEnds
    <3>4. x = 1
      BY <2>3 DEF LineBegin
    <3>5. LineBegin(c, m + k) = LineEnd(c, m) + 1
      BY <3>1 DEF LineBegin
    <3> HIDE DEF c, n, m, x
    <3> QED
      BY <3>2, <3>3, <3>4, <3>5
  <2> QED
    BY <2>1, <2>2, <2>3
<1>7. SubSeq(c, n + x, n + e - 1) = SubSeq(b, x, e - 1)
  <2> HIDE DEF x, e, n
  <2>1. CASE x = e
    <3>1. /\ e - 1 < x /\ x \in Int /\ e - 1 \in Int
          /\ n + e - 1 < n + x /\ n + x \in Int /\ n + e - 1 \in Int
      BY <1>2, <1>5, <2>1
    <3>2. SubSeq(c, n + x, n + e - 1) = <<>>
      BY <3>1, SubSeqEmpty
    <3>3. SubSeq(b, x, e - 1) = <<>>
      BY <3>1, SubSeqEmpty
    <3> QED
      BY <3>2, <3>3
  <2>2. CASE x # e
    <3>1. /\ n + x \in n + 1 .. n + Len(b)
          /\ n + e - 1 \in n + 1 .. n + Len(b)
          /\ (n + x) - n = x
          /\ (n + e - 1) - n = e - 1
      BY <1>2, <1>5, <2>2
    <3>2. SubSeq(c, n + x, n + e - 1) = SubSeq(b, (n + x) - n, (n + e - 1) - n)
      BY <3>1, SubSeqOfConcat2 DEF Text, n
    <3> QED
      BY <3>1, <3>2
  <2> QED
    BY <2>1, <2>2
<1>8. LinesOf(c)[m + k] = SubSeq(c, LineBegin(c, m + k), LineEnd(c, m + k) - 1)
  <2>1. m + k \in 1 .. Cardinality(Ends(c))
    BY <1>4
  <2> HIDE DEF c, m
  <2> QED
    BY <1>1, <2>1, LinesType
<1>9. LinesOf(b)[k] = SubSeq(b, x, e - 1)
  BY LinesType
<1>10. LineEnd(c, m + k) = n + e
  BY <1>4
<1> HIDE DEF c, n, m, x, e
<1>11. LinesOf(c)[m + k] = LinesOf(b)[k]
  BY <1>2, <1>5, <1>6, <1>7, <1>8, <1>9, <1>10
<1> QED
  BY <1>11 DEF c, m

\* If the first of two texts is whole, the lines of both are those of the one and
\* then those of the other.
LEMMA LinesConcat ==
  ASSUME NEW a \in Text, NEW b \in Text, Whole(a)
  PROVE  LinesOf(a \o b) = LinesOf(a) \o LinesOf(b)
<1> DEFINE c == a \o b
           m == Cardinality(Ends(a))
           l == Cardinality(Ends(b))
           A == LinesOf(a)
           B == LinesOf(b)
           C == LinesOf(c)
<1>1. c \in Text
  BY EndsConcat
<1>2. m \in Nat /\ l \in Nat /\ Cardinality(Ends(c)) = m + l
  BY EndsFinite, RankConcat
<1>3. A \in Seq(Text) /\ Len(A) = m /\ B \in Seq(Text) /\ Len(B) = l
  BY LinesType
<1>4. C \in Seq(Text) /\ Len(C) = m + l
  <2> HIDE DEF c
  <2> QED
    BY <1>1, <1>2, LinesType
<1>5. \A k \in 1 .. m : C[k] = A[k]
  BY FirstLines
<1>6. \A k \in 1 .. l : C[m + k] = B[k]
  BY SecondLines
<1> HIDE DEF c, m, l, A, B, C
<1>7. /\ A \o B \in Seq(Text)
      /\ Len(A \o B) = m + l
      /\ \A i \in 1 .. m + l : (A \o B)[i] = IF i <= m THEN A[i] ELSE B[i - m]
  BY <1>3, ConcatProperties
<1>8. \A i \in 1 .. Len(C) : C[i] = (A \o B)[i]
  <2> TAKE i \in 1 .. Len(C)
  <2>1. i \in 1 .. m + l
    BY <1>4
  <2>2. CASE i <= m
    <3>1. i \in 1 .. m
      BY <1>2, <2>1, <2>2
    <3> QED
      BY <1>5, <1>7, <2>1, <2>2, <3>1
  <2>3. CASE ~(i <= m)
    <3>1. i - m \in 1 .. l /\ m + (i - m) = i
      BY <1>2, <2>1, <2>3
    <3>2. C[i] = B[i - m]
      BY <1>6, <3>1
    <3> QED
      BY <1>7, <2>1, <2>3, <3>2
  <2> QED
    BY <2>2, <2>3
<1>9. C = A \o B
  BY <1>4, <1>7, <1>8, SeqEqual
<1> QED
  BY <1>9 DEF A, B, C, c

\* A text without newlines has no lines.
LEMMA LinesNone ==
  ASSUME NEW t \in Text, ~Contains(t, Newline)
  PROVE  LinesOf(t) = <<>>
<1>1. Ends(t) = {}
  BY LenProperties DEF Text, Ends, Contains
<1>2. Cardinality(Ends(t)) = 0
  BY <1>1, FS_EmptySet
<1>3. LinesOf(t) \in Seq(Text) /\ Len(LinesOf(t)) = 0
  BY <1>2, LinesType
<1> QED
  BY <1>3, EmptySeq

\* A text with a newline at its end only is one line.
LEMMA LinesOne ==
  ASSUME NEW t \in Text, ~Contains(t, Newline)
  PROVE  /\ t \o <<Newline>> \in Text
         /\ Whole(t \o <<Newline>>)
         /\ LinesOf(t \o <<Newline>>) = <<t>>
<1> DEFINE u == <<Newline>>
           c == t \o u
           n == Len(t)
<1>1. u \in Text /\ Len(u) = 1 /\ u[1] = Newline
  BY TextAssumption DEF Text
<1>2. n \in Nat
  BY LenProperties DEF Text
<1> HIDE DEF u
<1>3. /\ c \in Text
      /\ Len(c) = n + 1
      /\ \A i \in 1 .. n + 1 : c[i] = IF i <= n THEN t[i] ELSE u[i - n]
  <2>1. /\ c \in Text
        /\ Len(c) = n + Len(u)
        /\ \A i \in 1 .. n + Len(u) : c[i] = IF i <= n THEN t[i] ELSE u[i - n]
    BY <1>1, ConcatProperties DEF Text
  <2> HIDE DEF c, n
  <2> QED
    BY <1>1, <2>1
<1>4. DOMAIN c = 1 .. n + 1
  BY <1>3, LenProperties DEF Text
<1>5. c[n + 1] = Newline
  <2>1. n + 1 \in 1 .. n + 1 /\ ~(n + 1 <= n) /\ (n + 1) - n = 1
    BY <1>2
  <2> QED
    BY <1>1, <1>3, <2>1
<1>6. \A i \in 1 .. n : c[i] # Newline
  <2> TAKE i \in 1 .. n
  <2>1. i \in 1 .. n + 1 /\ i <= n
    BY <1>2
  <2> QED
    BY <1>3, <2>1 DEF Contains
<1> DEFINE E == Ends(c)
<1>7. E = {n + 1}
  BY <1>2, <1>4, <1>5, <1>6 DEF Ends
<1>8. Cardinality(E) = 1
  BY <1>7, FS_Singleton
<1> HIDE DEF c
<1>9. 1 \in 1 .. Cardinality(Ends(c))
  BY <1>8
<1>10. LineEnd(c, 1) = n + 1
  BY <1>3, <1>7, <1>9, LineEndProperties
<1>11. LinesOf(c)[1] = SubSeq(c, 1, n)
  <2>1. LinesOf(c)[1] = SubSeq(c, LineBegin(c, 1), LineEnd(c, 1) - 1)
    BY <1>3, <1>9, LinesType
  <2>2. LineBegin(c, 1) = 1 /\ LineEnd(c, 1) - 1 = n
    BY <1>2, <1>10 DEF LineBegin
  <2> QED
    BY <2>1, <2>2
<1>12. SubSeq(c, 1, n) = t
  <2>1. CASE n = 0
    <3>1. t = <<>>
      BY <2>1, EmptySeq DEF Text
    <3>2. SubSeq(c, 1, n) = <<>>
      BY <2>1, SubSeqEmpty
    <3> QED
      BY <3>1, <3>2
  <2>2. CASE n # 0
    <3>1. 1 \in 1 .. n /\ n \in 1 .. n
      BY <1>2, <2>2
    <3>2. SubSeq(c, 1, n) = SubSeq(t, 1, n)
      BY <1>1, <3>1, SubSeqOfConcat1 DEF Text, c
    <3> QED
      BY <3>2, SubSeqFull DEF Text
  <2> QED
    BY <2>1, <2>2
<1>13. LinesOf(c) \in Seq(Text) /\ Len(LinesOf(c)) = 1
  BY <1>3, <1>8, LinesType
<1>14. LinesOf(c) = <<t>>
  <2>1. <<t>> \in Seq(Text) /\ Len(<<t>>) = 1 /\ <<t>>[1] = t
    OBVIOUS
  <2>2. \A i \in 1 .. Len(LinesOf(c)) : LinesOf(c)[i] = <<t>>[i]
    BY <1>11, <1>12, <1>13, <2>1
  <2> QED
    BY <1>13, <2>1, <2>2, SeqEqual
<1>15. Whole(c)
  BY <1>3, <1>5 DEF Whole
<1> QED
  BY <1>3, <1>14, <1>15 DEF c, u

-----------------------------------------------------------------------------
(* Parts of sequences.                                                     *)

\* The reverse of a sequence.
LEMMA ReverseProperties ==
  ASSUME NEW S, NEW s \in Seq(S)
  PROVE  /\ Reverse(s) \in Seq(S)
         /\ Len(Reverse(s)) = Len(s)
         /\ \A i \in 1 .. Len(s) : Reverse(s)[i] = s[(Len(s) - i) + 1]
<1> DEFINE n == Len(s)
           r == Reverse(s)
<1>1. n \in Nat
  BY LenProperties
<1>2. \A i \in 1 .. n : s[(n - i) + 1] \in S
  <2> TAKE i \in 1 .. n
  <2>1. (n - i) + 1 \in 1 .. n
    BY <1>1
  <2> QED
    BY <2>1, ElementOfSeq
<1>3. r = [i \in 1 .. n |-> s[(n - i) + 1]]
  BY DEF Reverse
<1> HIDE DEF n, r
<1>4. r \in [1 .. n -> S]
  BY <1>2, <1>3
<1>5. r \in Seq(S)
  BY <1>1, <1>4, SeqDef
<1>6. Len(r) = n
  BY <1>1, <1>4, <1>5, LenProperties
<1> QED
  BY <1>3, <1>5, <1>6 DEF n, r

\* The second of two sequences in a row is a suffix of both.
LEMMA SuffixOfConcat ==
  ASSUME NEW S, NEW u \in Seq(S), NEW s \in Seq(S)
  PROVE  IsSuffix(s, u \o s)
<1> DEFINE t == u \o s
           n == Len(s)
           N == Len(t)
           rs == Reverse(s)
           rt == Reverse(t)
<1>1. n \in Nat /\ Len(u) \in Nat
  BY LenProperties
<1>2. /\ t \in Seq(S)
      /\ N = Len(u) + n
      /\ \A i \in 1 .. Len(u) + n : t[i] = IF i <= Len(u) THEN u[i] ELSE s[i - Len(u)]
  BY ConcatProperties
<1> HIDE DEF t
<1>3. rs \in Seq(S) /\ Len(rs) = n /\ \A i \in 1 .. n : rs[i] = s[(n - i) + 1]
  BY ReverseProperties
<1>4. rt \in Seq(S) /\ Len(rt) = N /\ \A i \in 1 .. N : rt[i] = t[(N - i) + 1]
  BY <1>2, ReverseProperties
<1> HIDE DEF n, N, rs, rt
<1>5. \A i \in 1 .. n : i \in 1 .. N /\ rt[i] = rs[i]
  <2> TAKE i \in 1 .. n
  <2>1. /\ i \in 1 .. N
        /\ (N - i) + 1 \in 1 .. Len(u) + n
        /\ ~((N - i) + 1 <= Len(u))
        /\ ((N - i) + 1) - Len(u) = (n - i) + 1
    BY <1>1, <1>2
  <2>2. t[(N - i) + 1] = s[(n - i) + 1]
    BY <1>2, <2>1
  <2> QED
    BY <1>3, <1>4, <2>1, <2>2
<1>6. SubSeq(rs, 1, n) = rs
  BY <1>3, SubSeqFull
<1>7. SubSeq(rt, 1, n) = rs
  <2> DEFINE q == SubSeq(rt, 1, n)
  <2>1. \A i \in 1 .. n : rt[i] \in S
    BY <1>4, <1>5, ElementOfSeq
  <2>2. /\ q \in Seq(S)
        /\ Len(q) = IF 1 <= n THEN n - 1 + 1 ELSE 0
        /\ \A i \in 1 .. n - 1 + 1 : q[i] = rt[1 + i - 1]
    BY <1>1, <2>1, SubSeqProperties
  <2>3. Len(q) = n /\ n - 1 + 1 = n
    BY <1>1, <2>2
  <2> HIDE DEF q
  <2>4. \A i \in 1 .. Len(q) : q[i] = rs[i]
    <3> TAKE i \in 1 .. Len(q)
    <3>1. i \in 1 .. n /\ 1 + i - 1 = i
      BY <1>1, <2>3
    <3> QED
      BY <1>5, <2>2, <2>3, <3>1
  <2>5. q = rs
    BY <1>3, <2>2, <2>3, <2>4, SeqEqual
  <2> QED
    BY <2>5 DEF q
<1>8. n <= N
  BY <1>1, <1>2
<1>9. IsPrefix(rs, rt)
  BY <1>3, <1>4, <1>6, <1>7, <1>8 DEF IsPrefix
<1> QED
  BY <1>9 DEF IsSuffix, rs, rt, t

\* Texts can be put together in any order of the operations.
LEMMA Associative ==
  ASSUME NEW a \in Text, NEW b \in Text, NEW c \in Text
  PROVE  (a \o b) \o c = a \o (b \o c)
BY ConcatAssociative DEF Text

\* Texts in a row are a text.
LEMMA ConcatText ==
  ASSUME NEW a \in Text, NEW b \in Text
  PROVE  a \o b \in Text
BY ConcatProperties DEF Text

\* Texts without newlines in a row have none.
LEMMA ConcatNoNewline ==
  ASSUME NEW a \in Text, NEW b \in Text, ~Contains(a, Newline), ~Contains(b, Newline)
  PROVE  ~Contains(a \o b, Newline)
<1> DEFINE c == a \o b
<1>1. /\ Len(c) = Len(a) + Len(b)
      /\ \A i \in 1 .. Len(a) + Len(b) : c[i] = IF i <= Len(a) THEN a[i] ELSE b[i - Len(a)]
  BY ConcatProperties DEF Text
<1>2. Len(a) \in Nat /\ Len(b) \in Nat
  BY LenProperties DEF Text
<1> HIDE DEF c
<1>3. ASSUME NEW i \in 1 .. Len(c), c[i] = Newline
      PROVE  FALSE
  <2>1. CASE i <= Len(a)
    <3>1. i \in 1 .. Len(a) /\ a[i] = Newline
      BY <1>1, <1>2, <1>3, <2>1
    <3> QED
      BY <3>1 DEF Contains
  <2>2. CASE ~(i <= Len(a))
    <3>1. i - Len(a) \in 1 .. Len(b) /\ b[i - Len(a)] = Newline
      BY <1>1, <1>2, <1>3, <2>2
    <3> QED
      BY <3>1 DEF Contains
  <2> QED
    BY <2>1, <2>2
<1> QED
  BY <1>3 DEF Contains, c

\* The text before the first newline, the newline, and the text after it.
LEMMA FirstNewline ==
  ASSUME NEW b \in Text, Contains(b, Newline)
  PROVE  LET n == SelectInSeq(b, LAMBDA c : c = Newline)
             x == SubSeq(b, 1, n - 1)
             y == SubSeq(b, n + 1, Len(b))
         IN  /\ n \in 1 .. Len(b)
             /\ x \in Text /\ y \in Text
             /\ ~Contains(x, Newline)
             /\ Len(y) <= Len(b)
             /\ b = (x \o <<Newline>>) \o y
<1> DEFINE n == SelectInSeq(b, LAMBDA c : c = Newline)
           x == SubSeq(b, 1, n - 1)
           y == SubSeq(b, n + 1, Len(b))
           u == <<Newline>>
<1>1. Len(b) \in Nat /\ DOMAIN b = 1 .. Len(b)
  BY LenProperties DEF Text
<1>2. n = Min(Ends(b)) /\ Ends(b) # {}
  <2>1. Ends(b) = {i \in 1 .. Len(b) : b[i] = Newline}
    BY <1>1 DEF Ends
  <2>2. Ends(b) # {}
    BY <2>1 DEF Contains
  <2> QED
    BY <2>1, <2>2 DEF SelectInSeq
<1>3. \E i \in Ends(b) : \A j \in Ends(b) : i <= j
  <2>1. Cardinality(Ends(b)) # 0 /\ Cardinality(Ends(b)) \in Nat
    BY <1>2, EndsFinite, FS_EmptySet
  <2>2. 1 \in 1 .. Cardinality(Ends(b))
    BY <2>1
  <2> DEFINE i == LineEnd(b, 1)
  <2>3. i \in Ends(b) /\ Rank(b, i) = 1
    BY <2>2, LineEndProperties
  <2> HIDE DEF i
  <2>4. ASSUME NEW j \in Ends(b), j < i
        PROVE  FALSE
    <3>1. Rank(b, j) < Rank(b, i) /\ Rank(b, j) \in 1 .. Cardinality(Ends(b))
      BY <2>3, <2>4, RankMonotone, RankRange
    <3> QED
      BY <2>1, <2>3, <3>1
  <2>5. \A j \in Ends(b) : i <= j
    BY <2>3, <2>4, EndsFinite
  <2> QED
    BY <2>3, <2>5
<1>4. n \in Ends(b) /\ \A j \in Ends(b) : n <= j
  BY <1>2, <1>3 DEF Min
<1> HIDE DEF n
<1>5. n \in 1 .. Len(b) /\ b[n] = Newline
  BY <1>1, <1>4 DEF Ends
<1>6. \A i \in 1 .. n - 1 : b[i] # Newline
  BY <1>1, <1>4, <1>5 DEF Ends
<1>7. /\ x \in Text
      /\ Len(x) = IF 1 <= n - 1 THEN n - 1 - 1 + 1 ELSE 0
      /\ \A i \in 1 .. n - 1 - 1 + 1 : x[i] = b[1 + i - 1]
  <2>1. \A i \in 1 .. n - 1 : b[i] \in Char
    BY <1>1, <1>5, ElementOfSeq DEF Text
  <2>2. n - 1 \in Int
    BY <1>1, <1>5
  <2> QED
    BY <2>1, <2>2, SubSeqProperties DEF Text
<1>8. /\ y \in Text
      /\ Len(y) = IF n + 1 <= Len(b) THEN Len(b) - (n + 1) + 1 ELSE 0
  <2>1. \A i \in n + 1 .. Len(b) : b[i] \in Char
    BY <1>1, <1>5, ElementOfSeq DEF Text
  <2>2. n + 1 \in Int /\ Len(b) \in Int
    BY <1>1, <1>5
  <2> QED
    BY <2>1, <2>2, SubSeqProperties DEF Text
<1>9. Len(y) <= Len(b)
  BY <1>1, <1>5, <1>8
<1>10. ~Contains(x, Newline)
  <2>1. Len(x) = n - 1
    BY <1>1, <1>5, <1>7
  <2>2. \A i \in 1 .. n - 1 : x[i] = b[i]
    BY <1>1, <1>5, <1>7
  <2> HIDE DEF x
  <2> QED
    BY <1>6, <2>1, <2>2 DEF Contains
<1>11. b = (x \o u) \o y
  <2>1. SubSeq(b, 1, n) = SubSeq(b, 1, n - 1) \o <<b[n]>>
    <3>1. 1 \in 1 .. Len(b) /\ n \in 1 .. Len(b)
      BY <1>1, <1>5
    <3> QED
      BY <3>1, SubSeqRecursiveSecond DEF Text
  <2>2. SubSeq(b, 1, n) \o SubSeq(b, n + 1, Len(b)) = SubSeq(b, 1, Len(b))
    <3>1. 1 \in 1 .. Len(b) + 1 /\ n \in 1 - 1 .. Len(b) /\ Len(b) \in n .. Len(b)
      BY <1>1, <1>5
    <3> QED
      BY <3>1, ConcatAdjacentSubSeq DEF Text
  <2>3. SubSeq(b, 1, Len(b)) = b
    BY SubSeqFull DEF Text
  <2> QED
    BY <1>5, <2>1, <2>2, <2>3
<1> QED
  BY <1>5, <1>7, <1>8, <1>9, <1>10, <1>11 DEF n

-----------------------------------------------------------------------------
(* The inductive invariant.                                                *)

\* The variables are texts, or sequences of texts, of every stream.
SortOK ==
  /\ output \in [Stream -> Seq(Text)]
  /\ written \in [Stream -> Text]
  /\ pending \in [Stream -> Text]
  /\ closed \in SUBSET Platform
  /\ buffer \in [Stream -> Text]
  /\ line \in [Stream -> Text]
  /\ reader \in [Stream -> {"running", "ended"}]
  /\ printed \in [Stream -> Seq(Text)]
  /\ process \in {"build", "returned", "exited"}

\* What a build has still to write is the rest of an output.
OutputOK ==
  \A s \in Stream : \E o \in Outputs : \E u \in Seq(Text) : o = u \o output[s]

\* What the reader of a stream holds, and what it has still to take.
Held(s) == line[s] \o buffer[s] \o pending[s]

\* What was written begins with whole lines, which are the printed ones, and
\* continues with what is held.
TextOK ==
  \A s \in Stream : \E d \in Text :
    Whole(d) /\ LinesOf(d) = printed[s] /\ written[s] = d \o Held(s)

\* What is set aside is part of a line, and the buffer has its size.
ReaderOK ==
  \A s \in Stream : ~Contains(line[s], Newline) /\ Len(buffer[s]) <= BufSize

\* Printed lines are lines.
PrintedOK ==
  \A s \in Stream : \A i \in DOMAIN printed[s] : ~Contains(printed[s][i], Newline)

\* A build ends when its writes have been taken, and Build when all builds have.
ClosedOK ==
  /\ \A s \in Stream : s[1] \in closed => pending[s] = <<>>
  /\ process # "build" => closed = Platform

IInv == SortOK /\ OutputOK /\ TextOK /\ ReaderOK /\ PrintedOK /\ ClosedOK

-----------------------------------------------------------------------------

\* The empty text.
LEMMA EmptyText ==
  /\ <<>> \in Text
  /\ <<>> \in Seq(Text)
  /\ \A S : \A t \in Seq(S) : t \o <<>> = t /\ <<>> \o t = t
  /\ ~Contains(<<>>, Newline)
  /\ Whole(<<>>)
  /\ LinesOf(<<>>) = <<>>
<1>1. <<>> \in Text /\ <<>> \in Seq(Text) /\ Len(<<>>) = 0
  BY EmptySeq DEF Text
<1>2. ~Contains(<<>>, Newline)
  BY <1>1 DEF Contains
<1>3. LinesOf(<<>>) = <<>>
  BY <1>1, <1>2, LinesNone
<1> QED
  BY <1>1, <1>2, <1>3, ConcatEmptySeq DEF Whole

\* The invariant holds before anything is written.
LEMMA InitInvariant ==
  Init => IInv
<1> SUFFICES ASSUME Init PROVE IInv
  OBVIOUS
<1>1. SortOK
  BY EmptyText, TextAssumption DEF Init, SortOK, Text
<1>2. OutputOK
  <2> SUFFICES ASSUME NEW s \in Stream
               PROVE  \E o \in Outputs : \E u \in Seq(Text) : o = u \o output[s]
    BY DEF OutputOK
  <2>1. output[s] \in Outputs /\ output[s] \in Seq(Text)
    BY <1>1 DEF Init, SortOK
  <2>2. output[s] = <<>> \o output[s]
    BY <2>1, EmptyText
  <2> QED
    BY <2>1, <2>2, EmptyText
<1>3. TextOK
  <2> SUFFICES ASSUME NEW s \in Stream
               PROVE  Whole(<<>>) /\ LinesOf(<<>>) = printed[s] /\ written[s] = <<>> \o Held(s)
    BY EmptyText DEF TextOK
  <2>1. <<>> \o <<>> = <<>>
    BY EmptyText
  <2>2. Held(s) = <<>>
    BY <2>1 DEF Init, Held
  <2> QED
    BY <2>1, <2>2, EmptyText DEF Init
<1>4. ReaderOK
  BY EmptyText, EmptySeq, BufferAssumption DEF Init, ReaderOK
<1>5. PrintedOK
  BY EmptySeq DEF Init, PrintedOK
<1>6. ClosedOK
  BY DEF Init, ClosedOK
<1> QED
  BY <1>1, <1>2, <1>3, <1>4, <1>5, <1>6 DEF IInv

\* A write adds to what is written and to what is on its way.
LEMMA WriteStep ==
  ASSUME IInv, NEW s \in Stream, Write(s)
  PROVE  IInv'
<1> DEFINE h == Head(output[s])
<1>1. h \in Text /\ Tail(output[s]) \in Seq(Text)
  BY HeadTailProperties DEF IInv, SortOK, Write
<1> HIDE DEF h
<1>2. /\ pending' = [pending EXCEPT ![s] = h]
      /\ written' = [written EXCEPT ![s] = @ \o h]
      /\ output' = [output EXCEPT ![s] = Tail(@)]
      /\ UNCHANGED <<closed, buffer, line, reader, printed, process>>
      /\ s[1] \notin closed
      /\ pending[s] = <<>>
      /\ output[s] # <<>>
  BY DEF Write, h
<1>3. written[s] \o h \in Text
  BY <1>1, ConcatText DEF IInv, SortOK
<1>4. SortOK'
  BY <1>1, <1>2, <1>3 DEF IInv, SortOK
<1>5. OutputOK'
  <2> SUFFICES ASSUME NEW r \in Stream
               PROVE  \E o \in Outputs : \E u \in Seq(Text) : o = u \o output'[r]
    BY DEF OutputOK
  <2>1. PICK o \in Outputs, u \in Seq(Text) : o = u \o output[r]
    BY DEF IInv, OutputOK
  <2>2. CASE r # s
    BY <1>2, <2>1, <2>2 DEF IInv, SortOK
  <2>3. CASE r = s
    <3> DEFINE w == <<h>>
               q == Tail(output[s])
    <3>1. w \in Seq(Text)
      BY <1>1
    <3>2. output[s] = w \o q
      <4>1. output[s] \in Seq(Text)
        BY DEF IInv, SortOK
      <4> QED
        BY <1>2, <4>1 DEF h
    <3>3. output'[s] = q
      BY <1>2 DEF IInv, SortOK
    <3> HIDE DEF w, q
    <3>4. o = (u \o w) \o q
      <4>1. q \in Seq(Text)
        BY <1>1 DEF q
      <4>2. (u \o w) \o q = u \o (w \o q)
        BY <3>1, <4>1, ConcatAssociative
      <4> QED
        BY <2>1, <2>3, <3>2, <4>2
    <3>5. u \o w \in Seq(Text)
      BY <3>1, ConcatProperties
    <3> QED
      BY <2>3, <3>3, <3>4, <3>5
  <2> QED
    BY <2>2, <2>3
<1>6. TextOK'
  <2> SUFFICES ASSUME NEW r \in Stream
               PROVE  \E d \in Text : Whole(d) /\ LinesOf(d) = printed'[r]
                                      /\ written'[r] = d \o Held(r)'
    BY DEF TextOK
  <2>1. PICK d \in Text : Whole(d) /\ LinesOf(d) = printed[r] /\ written[r] = d \o Held(r)
    BY DEF IInv, TextOK
  <2>2. CASE r # s
    <3>1. Held(r)' = Held(r) /\ written'[r] = written[r]
      BY <1>2, <2>2 DEF Held, IInv, SortOK
    <3> QED
      BY <1>2, <2>1, <3>1
  <2>3. CASE r = s
    <3> DEFINE g == line[s] \o buffer[s]
    <3>1. g \in Text
      BY ConcatText DEF IInv, SortOK
    <3>2. Held(s) = g
      BY <1>2, <3>1, EmptyText DEF Held, Text
    <3>3. Held(s)' = g \o h
      BY <1>2 DEF Held, IInv, SortOK
    <3>4. written'[s] = written[s] \o h
      BY <1>2 DEF IInv, SortOK
    <3> HIDE DEF g
    <3>5. (d \o g) \o h = d \o (g \o h)
      BY <1>1, <3>1, Associative, Zenon
    <3> QED
      BY <1>2, <2>1, <2>3, <3>2, <3>3, <3>4, <3>5
  <2> QED
    BY <2>2, <2>3
<1>7. ReaderOK' /\ PrintedOK'
  BY <1>2 DEF IInv, ReaderOK, PrintedOK
<1>8. ClosedOK'
  BY <1>2 DEF IInv, ClosedOK, SortOK
<1> QED
  BY <1>4, <1>5, <1>6, <1>7, <1>8 DEF IInv

\* A read moves text from the write in progress into the buffer.
LEMMA FillStep ==
  ASSUME IInv, NEW s \in Stream, Fill(s)
  PROVE  IInv'
<1> DEFINE p == pending[s]
           room == BufSize - Len(buffer[s])
           n == IF Len(p) < room THEN Len(p) ELSE room
           x == SubSeq(p, 1, n)
           y == SubSeq(p, n + 1, Len(p))
<1>1. p \in Text /\ buffer[s] \in Text /\ line[s] \in Text
  BY DEF IInv, SortOK
<1>2. Len(p) \in Nat /\ Len(buffer[s]) \in Nat
  BY <1>1, LenProperties DEF Text
<1>3. Len(buffer[s]) < BufSize
  BY DEF Fill
<1>4. n \in 0 .. Len(p) /\ Len(buffer[s]) + n <= BufSize
  <2>1. room \in Nat /\ Len(buffer[s]) + room = BufSize
    BY <1>2, <1>3, BufferAssumption
  <2>2. BufSize \in Nat
    BY BufferAssumption
  <2> HIDE DEF p, room
  <2>3. CASE Len(p) < room
    BY <1>2, <2>1, <2>2, <2>3
  <2>4. CASE ~(Len(p) < room)
    BY <1>2, <2>1, <2>2, <2>4
  <2> QED
    BY <2>3, <2>4
<1>5. /\ buffer' = [buffer EXCEPT ![s] = @ \o x]
      /\ pending' = [pending EXCEPT ![s] = y]
      /\ UNCHANGED <<output, written, closed, line, reader, printed, process>>
      /\ p # <<>>
  BY DEF Fill
<1> HIDE DEF p, n
<1>6. x \in Text /\ Len(x) = n
  <2>1. \A i \in 1 .. n : p[i] \in Char
    BY <1>1, <1>2, <1>4, ElementOfSeq DEF Text
  <2>2. SubSeq(p, 1, n) \in Text /\ Len(SubSeq(p, 1, n)) = IF 1 <= n THEN n - 1 + 1 ELSE 0
    BY <1>2, <1>4, <2>1, SubSeqProperties DEF Text
  <2> QED
    BY <1>2, <1>4, <2>2
<1>7. y \in Text
  <2>1. \A i \in n + 1 .. Len(p) : p[i] \in Char
    BY <1>1, <1>2, <1>4, ElementOfSeq DEF Text
  <2>2. n + 1 \in Int /\ Len(p) \in Int
    BY <1>2, <1>4
  <2> QED
    BY <2>1, <2>2, SubSeqProperties DEF Text
<1>8. p = x \o y
  <2>1. 1 \in 1 .. Len(p) + 1 /\ n \in 1 - 1 .. Len(p) /\ Len(p) \in n .. Len(p)
    BY <1>2, <1>4
  <2>2. x \o y = SubSeq(p, 1, Len(p))
    BY <1>1, <2>1, ConcatAdjacentSubSeq DEF Text
  <2> QED
    BY <1>1, <2>2, SubSeqFull DEF Text
<1> HIDE DEF x, y
<1>9. /\ buffer[s] \o x \in Text
      /\ Len(buffer[s] \o x) = Len(buffer[s]) + Len(x)
  BY <1>1, <1>6, ConcatProperties DEF Text
<1>10. SortOK'
  BY <1>5, <1>7, <1>9 DEF IInv, SortOK
<1>11. OutputOK' /\ PrintedOK'
  BY <1>5 DEF IInv, OutputOK, PrintedOK
<1>12. TextOK'
  <2> SUFFICES ASSUME NEW r \in Stream
               PROVE  \E d \in Text : Whole(d) /\ LinesOf(d) = printed'[r]
                                      /\ written'[r] = d \o Held(r)'
    BY DEF TextOK
  <2>1. PICK d \in Text : Whole(d) /\ LinesOf(d) = printed[r] /\ written[r] = d \o Held(r)
    BY DEF IInv, TextOK
  <2>2. Held(r)' = Held(r)
    <3>1. CASE r # s
      BY <1>5, <3>1 DEF Held, IInv, SortOK
    <3>2. CASE r = s
      <4> DEFINE l == line[s]
                 b == buffer[s]
      <4>1. Held(s)' = (l \o (b \o x)) \o y
        BY <1>5 DEF Held, IInv, SortOK
      <4>2. Held(s) = (l \o b) \o (x \o y)
        BY <1>8 DEF Held, p
      <4> HIDE DEF l, b
      <4>3. l \in Text /\ b \in Text
        BY <1>1 DEF l, b
      <4>4. l \o b \in Text
        BY <4>3, ConcatText
      <4>5. l \o (b \o x) = (l \o b) \o x
        BY <1>6, <4>3, Associative, Zenon
      <4>6. ((l \o b) \o x) \o y = (l \o b) \o (x \o y)
        BY <1>6, <1>7, <4>4, Associative, Zenon
      <4> QED
        BY <3>2, <4>1, <4>2, <4>5, <4>6
    <3> QED
      BY <3>1, <3>2
  <2> QED
    BY <1>5, <2>1, <2>2
<1>13. ReaderOK'
  BY <1>2, <1>4, <1>5, <1>6, <1>9 DEF IInv, ReaderOK, SortOK
<1>14. ClosedOK'
  BY <1>5 DEF IInv, ClosedOK, SortOK, p
<1> QED
  BY <1>10, <1>11, <1>12, <1>13, <1>14 DEF IInv

\* A full buffer is set aside.
LEMMA FullStep ==
  ASSUME IInv, NEW s \in Stream, Full(s)
  PROVE  IInv'
<1>1. buffer[s] \in Text /\ line[s] \in Text /\ pending[s] \in Text
  BY DEF IInv, SortOK
<1>2. /\ line' = [line EXCEPT ![s] = @ \o buffer[s]]
      /\ buffer' = [buffer EXCEPT ![s] = <<>>]
      /\ UNCHANGED <<output, written, pending, closed, reader, printed, process>>
      /\ ~Contains(buffer[s], Newline)
  BY DEF Full
<1>3. line[s] \o buffer[s] \in Text
  BY <1>1, ConcatText
<1>4. SortOK'
  BY <1>2, <1>3, EmptyText DEF IInv, SortOK
<1>5. OutputOK' /\ PrintedOK' /\ ClosedOK'
  BY <1>2 DEF IInv, OutputOK, PrintedOK, ClosedOK
<1>6. TextOK'
  <2> SUFFICES ASSUME NEW r \in Stream
               PROVE  \E d \in Text : Whole(d) /\ LinesOf(d) = printed'[r]
                                      /\ written'[r] = d \o Held(r)'
    BY DEF TextOK
  <2>1. PICK d \in Text : Whole(d) /\ LinesOf(d) = printed[r] /\ written[r] = d \o Held(r)
    BY DEF IInv, TextOK
  <2>2. Held(r)' = Held(r)
    <3>1. CASE r # s
      BY <1>2, <3>1 DEF Held, IInv, SortOK
    <3>2. CASE r = s
      <4>1. Held(s)' = ((line[s] \o buffer[s]) \o <<>>) \o pending[s]
        BY <1>2 DEF Held, IInv, SortOK
      <4>2. (line[s] \o buffer[s]) \o <<>> = line[s] \o buffer[s]
        BY <1>3, EmptyText DEF Text
      <4> QED
        BY <3>2, <4>1, <4>2 DEF Held
    <3> QED
      BY <3>1, <3>2
  <2> QED
    BY <1>2, <2>1, <2>2
<1>7. ReaderOK'
  <2>1. ~Contains(line[s] \o buffer[s], Newline)
    BY <1>1, <1>2, ConcatNoNewline DEF IInv, ReaderOK
  <2>2. Len(<<>>) <= BufSize
    BY EmptySeq, BufferAssumption
  <2> QED
    BY <1>2, <2>1, <2>2 DEF IInv, ReaderOK, SortOK
<1> QED
  BY <1>4, <1>5, <1>6, <1>7 DEF IInv

\* A line that is printed moves from what is held to what is whole.
LEMMA PrintLineStep ==
  ASSUME IInv, NEW s \in Stream, PrintLine(s)
  PROVE  IInv'
<1> DEFINE b == buffer[s]
           l == line[s]
           p == pending[s]
           n == SelectInSeq(b, LAMBDA c : c = Newline)
           x == SubSeq(b, 1, n - 1)
           y == SubSeq(b, n + 1, Len(b))
           u == <<Newline>>
           w == l \o x
<1>1. b \in Text /\ l \in Text /\ p \in Text /\ printed[s] \in Seq(Text)
  BY DEF IInv, SortOK
<1>2. /\ printed' = [printed EXCEPT ![s] = Append(@, w)]
      /\ buffer' = [buffer EXCEPT ![s] = y]
      /\ line' = [line EXCEPT ![s] = <<>>]
      /\ UNCHANGED <<output, written, pending, closed, reader, process>>
      /\ Contains(b, Newline)
  BY DEF PrintLine
<1> HIDE DEF b, n
<1>3. /\ x \in Text /\ y \in Text
      /\ ~Contains(x, Newline)
      /\ Len(y) <= Len(b)
      /\ b = (x \o u) \o y
  BY <1>1, <1>2, FirstNewline DEF n
<1> HIDE DEF x, y
<1>4. w \in Text /\ ~Contains(w, Newline)
  BY <1>1, <1>3, ConcatText, ConcatNoNewline DEF IInv, ReaderOK
<1>5. w \o u \in Text /\ Whole(w \o u) /\ LinesOf(w \o u) = <<w>>
  BY <1>4, LinesOne
<1>6. u \in Text
  BY TextAssumption DEF Text
<1> HIDE DEF l, p, u, w
<1>7. Append(printed[s], w) = printed[s] \o <<w>>
  BY <1>1, <1>4, AppendIsConcat
<1>8. SortOK'
  <2>1. Append(printed[s], w) \in Seq(Text)
    BY <1>1, <1>4, AppendProperties
  <2> QED
    BY <1>2, <1>3, <2>1, EmptyText DEF IInv, SortOK
<1>9. OutputOK' /\ ClosedOK'
  BY <1>2 DEF IInv, OutputOK, ClosedOK
<1>10. TextOK'
  <2> SUFFICES ASSUME NEW r \in Stream
               PROVE  \E d \in Text : Whole(d) /\ LinesOf(d) = printed'[r]
                                      /\ written'[r] = d \o Held(r)'
    BY DEF TextOK
  <2>1. PICK d \in Text : Whole(d) /\ LinesOf(d) = printed[r] /\ written[r] = d \o Held(r)
    BY DEF IInv, TextOK
  <2>2. CASE r # s
    <3>1. Held(r)' = Held(r) /\ printed'[r] = printed[r]
      BY <1>2, <2>2 DEF Held, IInv, SortOK
    <3> QED
      BY <1>2, <2>1, <3>1
  <2>3. CASE r = s
    <3> DEFINE z == w \o u
               v == y \o p
    <3>1. d \o z \in Text
      BY <1>5, ConcatText
    <3>2. Whole(d \o z)
      <4>1. /\ Len(d) \in Nat /\ Len(z) \in Nat
            /\ Len(d \o z) = Len(d) + Len(z)
            /\ \A i \in 1 .. Len(d) + Len(z) : (d \o z)[i] = IF i <= Len(d) THEN d[i] ELSE z[i - Len(d)]
        BY <1>5, ConcatProperties, LenProperties DEF Text
      <4>2. Len(z) = Len(w) + 1 /\ Len(w) \in Nat
        <5>1. Len(u) = 1
          BY DEF u
        <5>2. Len(w) \in Nat /\ Len(z) = Len(w) + Len(u)
          BY <1>4, <1>6, ConcatProperties, LenProperties DEF Text
        <5> QED
          BY <5>1, <5>2
      <4>3. z # <<>>
        BY <4>2, EmptySeq
      <4> HIDE DEF z
      <4>4. z[Len(z)] = Newline
        BY <1>5, <4>3 DEF Whole, z
      <4>5. /\ Len(d) + Len(z) \in 1 .. Len(d) + Len(z)
            /\ ~(Len(d) + Len(z) <= Len(d))
            /\ (Len(d) + Len(z)) - Len(d) = Len(z)
        BY <4>1, <4>2
      <4>6. (d \o z)[Len(d) + Len(z)] = Newline
        BY <4>1, <4>4, <4>5
      <4> QED
        BY <4>1, <4>6 DEF Whole
    <3>3. LinesOf(d \o z) = printed'[s]
      <4>1. LinesOf(d \o z) = LinesOf(d) \o LinesOf(z)
        BY <1>5, <2>1, LinesConcat
      <4>2. printed'[s] = Append(printed[s], w)
        BY <1>2 DEF IInv, SortOK
      <4> QED
        BY <1>5, <1>7, <2>1, <2>3, <4>1, <4>2
    <3>4. Held(s)' = v
      <4>1. Held(s)' = (<<>> \o y) \o p
        BY <1>2 DEF Held, IInv, SortOK, p
      <4> QED
        BY <1>3, <4>1, EmptyText DEF Text
    <3>5. Held(s) = z \o v
      <4>1. Held(s) = (l \o ((x \o u) \o y)) \o p
        BY <1>3 DEF Held, l, b, p
      <4> DEFINE e == x \o u
      <4>2. e \in Text
        BY <1>3, <1>6, ConcatText
      <4> HIDE DEF e, z
      <4>3. (l \o e) \o y = l \o (e \o y)
        <5>1. l \in Text /\ y \in Text
          BY <1>1, <1>3
        <5> QED
          BY <4>2, <5>1, Associative
      <4>4. z = l \o e
        <5>1. l \in Text /\ x \in Text
          BY <1>1, <1>3
        <5>2. (l \o x) \o u = l \o (x \o u)
          BY <1>6, <5>1, Associative
        <5> QED
          BY <5>2 DEF z, e, w
      <4>5. (z \o y) \o p = z \o (y \o p)
        <5>1. z \in Text /\ y \in Text /\ p \in Text
          BY <1>1, <1>3, <1>5 DEF z
        <5> QED
          BY <5>1, Associative
      <4>6. Held(s) = (l \o (e \o y)) \o p
        BY <4>1 DEF e
      <4> QED
        BY <4>3, <4>4, <4>5, <4>6
    <3>6. written'[s] = (d \o z) \o v
      <4>1. v \in Text
        BY <1>1, <1>3, ConcatText
      <4> HIDE DEF v
      <4>2. (d \o z) \o v = d \o (z \o v)
        BY <1>5, <4>1, Associative, Zenon
      <4> QED
        BY <1>2, <2>1, <2>3, <3>5, <4>2
    <3> HIDE DEF z, v
    <3> QED
      BY <2>3, <3>1, <3>2, <3>3, <3>4, <3>6
  <2> QED
    BY <2>2, <2>3
<1>11. ReaderOK'
  <2>1. Len(y) <= BufSize
    <3>1. Len(y) \in Nat /\ Len(b) \in Nat
      BY <1>1, <1>3, LenProperties DEF Text
    <3>2. Len(b) <= BufSize
      BY DEF IInv, ReaderOK, b
    <3> QED
      BY <1>3, <3>1, <3>2, BufferAssumption
  <2> QED
    BY <1>2, <2>1, EmptyText DEF IInv, ReaderOK, SortOK
<1>12. PrintedOK'
  <2> SUFFICES ASSUME NEW r \in Stream, NEW i \in DOMAIN printed'[r]
               PROVE  ~Contains(printed'[r][i], Newline)
    BY DEF PrintedOK
  <2>1. CASE r # s
    BY <1>2, <2>1 DEF IInv, PrintedOK, SortOK
  <2>2. CASE r = s
    <3> DEFINE q == printed[s]
               q1 == Append(q, w)
    <3>1. printed'[s] = q1
      BY <1>2 DEF IInv, SortOK
    <3>2. /\ q1 \in Seq(Text) /\ Len(q1) = Len(q) + 1
          /\ \A j \in 1 .. Len(q) : q1[j] = q[j]
          /\ q1[Len(q) + 1] = w
      BY <1>1, <1>4, AppendProperties
    <3>3. Len(q) \in Nat /\ DOMAIN q = 1 .. Len(q)
      BY <1>1, LenProperties
    <3>4. DOMAIN q1 = 1 .. Len(q) + 1
      BY <3>2, LenProperties
    <3>5. \A j \in 1 .. Len(q) : ~Contains(q[j], Newline)
      BY <3>3 DEF IInv, PrintedOK
    <3> HIDE DEF q, q1
    <3>6. i \in 1 .. Len(q) \/ i = Len(q) + 1
      BY <2>2, <3>1, <3>3, <3>4
    <3> QED
      BY <1>4, <2>2, <3>1, <3>2, <3>5, <3>6
  <2> QED
    BY <2>1, <2>2
<1> QED
  BY <1>8, <1>9, <1>10, <1>11, <1>12 DEF IInv

\* A build ends when both its writes are taken.
LEMMA CloseStep ==
  ASSUME IInv, NEW p \in Platform, Close(p)
  PROVE  IInv'
<1>1. /\ \A k \in Kind : pending[<<p, k>>] = <<>>
      /\ closed' = closed \union {p}
      /\ UNCHANGED <<output, written, pending, buffer, line, reader, printed, process>>
  BY DEF Close
<1>2. SortOK'
  BY <1>1 DEF IInv, SortOK
<1>3. OutputOK' /\ TextOK' /\ ReaderOK' /\ PrintedOK'
  BY <1>1 DEF IInv, OutputOK, TextOK, Held, ReaderOK, PrintedOK
<1>4. ClosedOK'
  <2>1. ASSUME NEW s \in Stream, s[1] \in closed'
        PROVE  pending[s] = <<>>
    <3>1. s = <<s[1], s[2]>> /\ s[2] \in Kind
      BY DEF Stream
    <3> QED
      BY <1>1, <2>1, <3>1 DEF IInv, ClosedOK
  <2>2. process # "build" => closed' = Platform
    BY <1>1 DEF IInv, ClosedOK
  <2> QED
    BY <1>1, <2>1, <2>2 DEF ClosedOK
<1> QED
  BY <1>2, <1>3, <1>4 DEF IInv

\* The other steps only change how far the goroutines and the command are.
LEMMA ControlStep ==
  ASSUME IInv,
         (\E s \in Stream : ReadEOF(s)) \/ BuildWait \/ Exit \/ UNCHANGED vars
  PROVE  IInv'
<1>1. /\ UNCHANGED <<output, written, pending, closed, buffer, line, printed>>
      /\ reader' \in [Stream -> {"running", "ended"}]
      /\ process' \in {"build", "returned", "exited"}
      /\ process' # process => closed = Platform
  <2>1. CASE \E s \in Stream : ReadEOF(s)
    BY <2>1 DEF ReadEOF, IInv, SortOK
  <2>2. CASE BuildWait
    BY <2>2 DEF BuildWait, IInv, SortOK
  <2>3. CASE Exit
    BY <2>3 DEF Exit, IInv, SortOK, ClosedOK
  <2>4. CASE UNCHANGED vars
    BY <2>4 DEF vars, IInv, SortOK
  <2> QED
    BY <2>1, <2>2, <2>3, <2>4
<1>2. SortOK'
  BY <1>1 DEF IInv, SortOK
<1>3. OutputOK' /\ TextOK' /\ ReaderOK' /\ PrintedOK'
  BY <1>1 DEF IInv, OutputOK, TextOK, Held, ReaderOK, PrintedOK
<1>4. ClosedOK'
  BY <1>1 DEF IInv, ClosedOK
<1> QED
  BY <1>2, <1>3, <1>4 DEF IInv

\* Every step of the relay keeps the invariant.
THEOREM Invariant ==
  Spec => []IInv
<1>1. Init => IInv
  BY InitInvariant
<1>2. IInv /\ [Next]_vars => IInv'
  <2> SUFFICES ASSUME IInv, [Next]_vars PROVE IInv'
    OBVIOUS
  <2>1. ASSUME NEW s \in Stream, Write(s) PROVE IInv'
    BY <2>1, WriteStep
  <2>2. ASSUME NEW s \in Stream, Read(s) PROVE IInv'
    <3>1. CASE Fill(s)
      BY <3>1, FillStep
    <3>2. CASE Full(s)
      BY <3>2, FullStep
    <3>3. CASE PrintLine(s)
      BY <3>3, PrintLineStep
    <3>4. CASE ReadEOF(s)
      BY <3>4, ControlStep
    <3> QED
      BY <2>2, <3>1, <3>2, <3>3, <3>4 DEF Read
  <2>3. ASSUME NEW p \in Platform, Close(p) PROVE IInv'
    BY <2>3, CloseStep
  <2>4. CASE BuildWait \/ Exit \/ UNCHANGED vars
    BY <2>4, ControlStep
  <2> QED
    BY <2>1, <2>2, <2>3, <2>4 DEF Next
<1> QED
  BY <1>1, <1>2, PTL DEF Spec

\* The relay's state is well typed for any outputs and any size of the buffer: what
\* is left to write is the rest of an output, what is on its way the rest of what
\* was written, and neither a printed line nor a part of one has a newline in it.
THEOREM TypeInvariant ==
  Spec => []TypeOK
<1>1. IInv => TypeOK
  <2> SUFFICES ASSUME IInv PROVE TypeOK
    OBVIOUS
  <2>1. ASSUME NEW s \in Stream
        PROVE  \E o \in Outputs : IsSuffix(output[s], o)
    <3>1. PICK o \in Outputs, u \in Seq(Text) : o = u \o output[s]
      BY DEF IInv, OutputOK
    <3>2. output[s] \in Seq(Text)
      BY DEF IInv, SortOK
    <3>3. IsSuffix(output[s], u \o output[s])
      BY <3>2, SuffixOfConcat
    <3> QED
      BY <3>1, <3>3
  <2>2. ASSUME NEW s \in Stream
        PROVE  IsSuffix(pending[s], written[s])
    <3> DEFINE g == line[s] \o buffer[s]
               p == pending[s]
    <3>1. PICK d \in Text : written[s] = d \o Held(s)
      BY DEF IInv, TextOK
    <3>2. g \in Text /\ p \in Text
      BY ConcatText DEF IInv, SortOK
    <3>3. Held(s) = g \o p
      BY DEF Held
    <3> HIDE DEF g, p
    <3>4. (d \o g) \o p = d \o (g \o p)
      BY <3>2, Associative, Zenon
    <3>5. d \o g \in Text
      BY <3>2, ConcatText
    <3>6. IsSuffix(p, (d \o g) \o p)
      BY <3>2, <3>5, SuffixOfConcat DEF Text
    <3>7. written[s] = (d \o g) \o p
      BY <3>1, <3>3, <3>4
    <3> QED
      BY <3>6, <3>7 DEF p
  <2> QED
    BY <2>1, <2>2 DEF IInv, SortOK, ReaderOK, PrintedOK, TypeOK
<1> QED
  BY <1>1, Invariant, PTL

\* What was written to a stream is on the terminal in whole lines and in their
\* order, or held by the stream's reader, or on its way, for any number of builds,
\* any outputs and any size of the buffer; and nothing is on its way when Build has
\* returned.
THEOREM PrintedIsFaithful ==
  Spec => []PrintedFaithful
<1>1. IInv => PrintedFaithful
  <2> SUFFICES ASSUME IInv, NEW s \in Stream
               PROVE  /\ LinesOf(written[s]) =
                           printed[s] \o LinesOf(line[s] \o buffer[s] \o pending[s])
                      /\ process # "build" => pending[s] = <<>>
    BY DEF PrintedFaithful
  <2>1. PICK d \in Text : /\ Whole(d)
                          /\ LinesOf(d) = printed[s]
                          /\ written[s] = d \o Held(s)
    BY DEF IInv, TextOK
  <2>2. Held(s) \in Text
    <3>1. /\ line[s] \in Text
          /\ buffer[s] \in Text
          /\ pending[s] \in Text
      BY DEF IInv, SortOK
    <3>2. line[s] \o buffer[s] \in Text
      BY <3>1, ConcatText
    <3> QED
      BY <3>1, <3>2, ConcatText DEF Held
  <2>3. LinesOf(d \o Held(s)) = LinesOf(d) \o LinesOf(Held(s))
    BY <2>1, <2>2, LinesConcat
  <2>4. LinesOf(written[s]) = printed[s] \o LinesOf(Held(s))
    BY <2>1, <2>3
  <2>5. process # "build" => pending[s] = <<>>
    BY DEF IInv, ClosedOK, Stream
  <2> QED
    BY <2>4, <2>5 DEF Held
<1> QED
  BY <1>1, Invariant, PTL
==============================================================================
