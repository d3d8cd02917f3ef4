------------------------- MODULE LineReader_proofs -------------------------
(* Theorems about LineReader, for any size cap and header, and any number   *)
(* of bytes, chunks and connections.                                        *)
EXTENDS LineReader, SequenceTheorems, WellFoundedInduction, TLAPS

(* A buffer with a line end has a first one.                                *)
LEMMA FirstEnd ==
  ASSUME NEW b \in Seq(Bytes), HasLine(b)
  PROVE  /\ FirstCR(b) \in 1..Len(b)
         /\ b[FirstCR(b)] = CR
         /\ \A j \in 1..(FirstCR(b) - 1) : b[j] # CR
<1> DEFINE T == {i \in 1..Len(b) : b[i] = CR}
           R == OpToRel(<, Nat)
           First(i) == b[i] = CR /\ \A j \in 1..(i - 1) : b[j] # CR
<1>1. T \subseteq Nat /\ T # {}
  BY DEF HasLine
<1>2. IsWellFoundedOn(R, Nat)
  BY NatLessThanWellFounded
<1>3. \A x, y \in Nat : <<y, x>> \in R <=> y < x
  BY DEF OpToRel
<1> HIDE DEF R
<1>4. PICK i \in T : \A j \in T : <<j, i>> \notin R
  BY <1>1, <1>2, WFMin
<1>5. \A j \in T : ~(j < i)
  BY <1>1, <1>3, <1>4
<1>6. \E k \in 1..Len(b) : First(k)
  <2>1. \A j \in 1..(i - 1) : j \in 1..Len(b) /\ j < i
    BY <1>4
  <2> QED BY <1>4, <1>5, <2>1
<1>7. FirstCR(b) = CHOOSE k \in 1..Len(b) : First(k)
  BY DEF FirstCR
<1> HIDE DEF First
<1>8. FirstCR(b) \in 1..Len(b) /\ First(FirstCR(b))
  BY <1>6, <1>7
<1> QED BY <1>8 DEF First

-----------------------------------------------------------------------------
(* The lines of a byte sequence.                                            *)

(* Induction over the natural numbers, for a set.                           *)
LEMMA SetInduction ==
  ASSUME NEW S \in SUBSET Nat, 0 \in S, \A n \in S : n + 1 \in S
  PROVE  S = Nat
<1> DEFINE T == Nat \ S
           R == OpToRel(<, Nat)
<1> SUFFICES ASSUME T # {} PROVE FALSE
  OBVIOUS
<1>1. IsWellFoundedOn(R, Nat)
  BY NatLessThanWellFounded
<1>2. \A x, y \in Nat : <<y, x>> \in R <=> y < x
  BY DEF OpToRel
<1> HIDE DEF R
<1>3. PICK t \in T : \A u \in T : <<u, t>> \notin R
  BY <1>1, WFMin
<1>4. t \in Nat /\ t # 0 /\ t - 1 \in Nat /\ t - 1 < t
  OBVIOUS
<1>5. t - 1 \notin T
  BY <1>2, <1>3, <1>4
<1>6. (t - 1) + 1 \in S
  BY <1>4, <1>5
<1> QED BY <1>4, <1>6

(* A non-empty set of positions has a last one.                             *)
LEMMA LastOne ==
  ASSUME NEW n \in Nat, NEW E \in SUBSET (1..n), E # {}
  PROVE  \E i \in E : \A j \in E : j <= i
<1> DEFINE S == {m \in Nat : \E i \in E : m <= i}
<1> SUFFICES ASSUME \A i \in E : \E j \in E : j > i PROVE FALSE
  OBVIOUS
<1>1. 0 \in S
  <2>1. PICK i \in E : TRUE
    OBVIOUS
  <2>2. i \in Nat /\ 0 <= i
    BY <2>1
  <2> QED BY <2>2
<1>2. ASSUME NEW m \in S PROVE m + 1 \in S
  <2>1. PICK i \in E : m <= i
    OBVIOUS
  <2>2. PICK j \in E : j > i
    OBVIOUS
  <2>3. m \in Nat /\ i \in Nat /\ j \in Nat /\ m + 1 <= j
    BY <2>1, <2>2
  <2> QED BY <2>3
<1> HIDE DEF S
<1>3. S = Nat
  <2>1. S \in SUBSET Nat
    BY DEF S
  <2> QED BY <1>1, <1>2, <2>1, SetInduction
<1>4. n + 1 \in S
  BY <1>3
<1> QED BY <1>4 DEF S

LEMMA AppendOver ==
  ASSUME NEW p \in Seq(Seq(Bytes)), NEW q \in Seq(Seq(Bytes)), NEW e \in Seq(Bytes)
  PROVE  Append(p \o q, e) = p \o Append(q, e)
<1>1. p \o q \in Seq(Seq(Bytes)) /\ <<e>> \in Seq(Seq(Bytes))
  BY ConcatProperties
<1>2. Append(p \o q, e) = (p \o q) \o <<e>> /\ Append(q, e) = q \o <<e>>
  BY <1>1, AppendIsConcat
<1>3. (p \o q) \o <<e>> = p \o (q \o <<e>>)
  BY <1>1, ConcatAssociative
<1> QED BY <1>2, <1>3

(* What the byte at position k makes of the lines that end before it.       *)
OneMore(s, k, l) ==
  IF s[k] # CR \/ Spaces(LineAt(s, k)) < HeaderSpaces THEN l ELSE Append(l, LineAt(s, k))

(* LinesUpTo satisfies its equation.                                        *)
LEMMA LinesUpToIs ==
  ASSUME NEW s \in Seq(Bytes)
  PROVE  /\ LinesUpTo(s)[0] = <<>>
         /\ \A k \in 1..Len(s) : LinesUpTo(s)[k] = OneMore(s, k, LinesUpTo(s)[k - 1])
<1> DEFINE Upon(g) == [k \in 0..Len(s) |-> IF k = 0 THEN <<>> ELSE OneMore(s, k, g[k - 1])]
           Right(g, n) == g[0] = <<>> /\ \A k \in 1..n : g[k] = OneMore(s, k, g[k - 1])
           S == {n \in Nat : \E g : Right(g, n)}
<1>1. LinesUpTo(s) = CHOOSE g : g = Upon(g)
  <2>1. \A g, k : OneMore(s, k, g[k - 1]) =
                    (IF s[k] # CR \/ Spaces(LineAt(s, k)) < HeaderSpaces THEN g[k - 1]
                     ELSE Append(g[k - 1], LineAt(s, k)))
    BY DEF OneMore
  <2> QED BY Zenon DEF LinesUpTo, OneMore
<1>2. 0 \in S
  <2>1. Right([k \in {0} |-> <<>>], 0)
    OBVIOUS
  <2> QED BY <2>1
<1>3. ASSUME NEW n \in S PROVE n + 1 \in S
  <2>1. PICK g : Right(g, n)
    OBVIOUS
  <2> DEFINE h == [k \in 0..(n + 1) |-> IF k = n + 1 THEN OneMore(s, n + 1, g[n]) ELSE g[k]]
  <2>2. n \in Nat /\ h[0] = g[0]
    OBVIOUS
  <2>3. ASSUME NEW k \in 1..(n + 1) PROVE h[k] = OneMore(s, k, h[k - 1])
    <3>1. k - 1 \in 0..(n + 1) /\ k - 1 # n + 1 /\ h[k - 1] = g[k - 1]
      BY <2>2
    <3>2. CASE k = n + 1
      BY <2>2, <3>1, <3>2
    <3>3. CASE k # n + 1
      <4>1. k \in 1..n /\ h[k] = g[k]
        BY <2>2, <3>3
      <4> QED BY <2>1, <3>1, <4>1
    <3> QED BY <3>2, <3>3
  <2>4. Right(h, n + 1)
    BY <2>1, <2>2, <2>3
  <2> HIDE DEF h, Right
  <2> QED BY <2>2, <2>4
<1>4. Len(s) \in S
  <2> HIDE DEF S
  <2>1. S \in SUBSET Nat
    BY DEF S
  <2>2. S = Nat
    BY <1>2, <1>3, <2>1, SetInduction
  <2> QED BY <2>2
<1>5. \E g : g = Upon(g)
  <2>1. PICK g : Right(g, Len(s))
    BY <1>4
  <2> DEFINE h == [k \in 0..Len(s) |-> g[k]]
  <2>2. Len(s) \in Nat
    OBVIOUS
  <2>3. \A k \in 1..Len(s) : k - 1 \in 0..Len(s) /\ h[k - 1] = g[k - 1]
    BY <2>2
  <2>4. \A k \in 0..Len(s) : h[k] = IF k = 0 THEN <<>> ELSE OneMore(s, k, h[k - 1])
    BY <2>1, <2>2, <2>3
  <2>5. h = Upon(h)
    BY <2>4
  <2> QED BY <2>5
<1>6. LinesUpTo(s) = Upon(LinesUpTo(s))
  <2> HIDE DEF Upon
  <2> QED BY <1>1, <1>5
<1>7. Len(s) \in Nat
  OBVIOUS
<1> QED BY <1>6, <1>7

First(s, k, i) == (i = 1 \/ s[i - 1] = CR) /\ \A j \in i..(k - 1) : s[j] # CR

(* A line begins after the last line end before it.                         *)
LEMMA HasFirst ==
  ASSUME NEW s \in Seq(Bytes), NEW k \in 1..Len(s)
  PROVE  \E i \in 1..k : First(s, k, i)
<1> DEFINE E == {i \in 1..k : i = 1 \/ s[i - 1] = CR}
<1>1. k \in Nat /\ 1 \in E
  OBVIOUS
<1>2. PICK i \in E : \A j \in E : j <= i
  <2> HIDE DEF E
  <2>1. E \in SUBSET (1..k) /\ E # {}
    BY <1>1 DEF E
  <2> QED BY <1>1, <2>1, LastOne
<1>3. ASSUME NEW j \in i..(k - 1) PROVE s[j] # CR
  <2>1. (j + 1) - 1 = j /\ j + 1 \in 1..k /\ ~(j + 1 <= i)
    OBVIOUS
  <2> QED BY <1>2, <2>1
<1> QED BY <1>3 DEF First

LEMMA LineAtIs ==
  ASSUME NEW s \in Seq(Bytes), NEW k \in 1..Len(s), NEW i \in 1..k, First(s, k, i)
  PROVE  LineAt(s, k) = SubSeq(s, i, k - 1)
<1>1. ASSUME NEW j \in 1..k, First(s, k, j) PROVE j = i
  <2>1. CASE j < i
    <3>1. i - 1 \in j..(k - 1) /\ i # 1
      BY <2>1
    <3> QED BY <1>1, <3>1 DEF First
  <2>2. CASE i < j
    <3>1. j - 1 \in i..(k - 1) /\ j # 1
      BY <2>2
    <3> QED BY <1>1, <3>1 DEF First
  <2> QED BY <2>1, <2>2
<1>2. LineAt(s, k) = SubSeq(s, CHOOSE j \in 1..k : First(s, k, j), k - 1)
  BY DEF LineAt, First
<1>3. (CHOOSE j \in 1..k : First(s, k, j)) = i
  <2> HIDE DEF First
  <2> QED BY <1>1
<1> QED BY <1>2, <1>3

LEMMA LineAtTyped ==
  ASSUME NEW s \in Seq(Bytes), NEW k \in 1..Len(s)
  PROVE  LineAt(s, k) \in Seq(Bytes)
<1>1. PICK i \in 1..k : First(s, k, i)
  BY HasFirst
<1>2. LineAt(s, k) = SubSeq(s, i, k - 1)
  BY <1>1, LineAtIs
<1> QED BY <1>2

(* t is what s has from position n on, at the beginning of a line.          *)
Continues(t, s, n) ==
  /\ n + Len(t) <= Len(s)
  /\ n = 0 \/ s[n] = CR
  /\ \A i \in 1..Len(t) : t[i] = s[n + i]

LEMMA SameLine ==
  ASSUME NEW s \in Seq(Bytes), NEW t \in Seq(Bytes), NEW n \in Nat, Continues(t, s, n),
         NEW k \in 1..Len(t)
  PROVE  LineAt(s, n + k) = LineAt(t, k)
<1>0. n + k \in 1..Len(s) /\ Len(s) \in Nat /\ Len(t) \in Nat
  BY DEF Continues
<1>1. PICK i \in 1..k : First(t, k, i)
  BY HasFirst
<1>2. n + i \in 1..(n + k)
  OBVIOUS
<1>3. First(s, n + k, n + i)
  <2>1. n + i = 1 \/ s[(n + i) - 1] = CR
    <3>1. CASE i = 1
      <4>1. (n + i) - 1 = n /\ (n = 0 => n + i = 1)
        BY <3>1
      <4> QED BY <4>1 DEF Continues
    <3>2. CASE i # 1
      <4>1. (n + i) - 1 = n + (i - 1) /\ i - 1 \in 1..Len(t)
        BY <3>2, <1>0
      <4>2. t[i - 1] = CR
        BY <1>1, <3>2 DEF First
      <4> QED BY <4>1, <4>2 DEF Continues
    <3> QED BY <3>1, <3>2
  <2>2. ASSUME NEW j \in (n + i)..((n + k) - 1) PROVE s[j] # CR
    <3>1. j - n \in i..(k - 1) /\ j - n \in 1..Len(t) /\ j = n + (j - n)
      BY <1>0
    <3>2. t[j - n] # CR
      BY <1>1, <3>1 DEF First
    <3> QED BY <3>1, <3>2 DEF Continues
  <2> QED BY <2>1, <2>2 DEF First
<1>4. LineAt(t, k) = SubSeq(t, i, k - 1)
  BY <1>1, LineAtIs
<1>5. LineAt(s, n + k) = SubSeq(s, n + i, (n + k) - 1)
  BY <1>0, <1>2, <1>3, LineAtIs
<1>6. SubSeq(s, n + i, (n + k) - 1) = SubSeq(t, i, k - 1)
  <2> DEFINE a == SubSeq(s, n + i, (n + k) - 1)
             b == SubSeq(t, i, k - 1)
  <2>1. /\ a \in Seq(Bytes) /\ Len(a) = IF n + i <= (n + k) - 1 THEN ((n + k) - 1) - (n + i) + 1 ELSE 0
        /\ \A j \in 1..(((n + k) - 1) - (n + i) + 1) : a[j] = s[(n + i) + j - 1]
    <3>1. n + i \in Int /\ (n + k) - 1 \in Int
      OBVIOUS
    <3>2. \A j \in (n + i)..((n + k) - 1) : s[j] \in Bytes
      BY <1>0
    <3> QED BY <3>1, <3>2, SubSeqProperties
  <2>2. /\ b \in Seq(Bytes) /\ Len(b) = IF i <= k - 1 THEN (k - 1) - i + 1 ELSE 0
        /\ \A j \in 1..((k - 1) - i + 1) : b[j] = t[i + j - 1]
    <3>1. i \in Int /\ k - 1 \in Int
      OBVIOUS
    <3>2. \A j \in i..(k - 1) : t[j] \in Bytes
      BY <1>0
    <3> QED BY <3>1, <3>2, SubSeqProperties
  <2>3. Len(a) = k - i /\ Len(b) = k - i
    BY <2>1, <2>2
  <2>4. ASSUME NEW j \in 1..(k - i) PROVE a[j] = b[j]
    <3>1. /\ j \in 1..((k - 1) - i + 1) /\ j \in 1..(((n + k) - 1) - (n + i) + 1)
          /\ (n + i) + j - 1 = n + (i + j - 1) /\ i + j - 1 \in 1..Len(t)
      BY <1>0
    <3>2. t[i + j - 1] = s[n + (i + j - 1)]
      BY <3>1 DEF Continues
    <3> QED BY <2>1, <2>2, <3>1, <3>2
  <2> HIDE DEF a, b
  <2>5. \A j \in 1..Len(a) : a[j] = b[j]
    BY <2>3, <2>4
  <2>6. a = b
    BY <2>1, <2>2, <2>3, <2>5, SeqEqual
  <2> QED BY <2>6 DEF a, b
<1> QED BY <1>4, <1>5, <1>6

LEMMA LinesUpToTyped ==
  ASSUME NEW s \in Seq(Bytes), NEW k \in 0..Len(s)
  PROVE  LinesUpTo(s)[k] \in Seq(Seq(Bytes))
<1> DEFINE S == {n \in Nat : n <= Len(s) => LinesUpTo(s)[n] \in Seq(Seq(Bytes))}
<1>1. 0 \in S
  <2>1. PICK none : none = <<>>
    OBVIOUS
  <2>2. none \in Seq(Seq(Bytes)) /\ LinesUpTo(s)[0] = none
    BY <2>1, EmptySeq, LinesUpToIs
  <2> QED BY <2>2
<1>2. ASSUME NEW n \in S PROVE n + 1 \in S
  <2> SUFFICES ASSUME n + 1 <= Len(s) PROVE LinesUpTo(s)[n + 1] \in Seq(Seq(Bytes))
    OBVIOUS
  <2>1. n + 1 \in 1..Len(s) /\ (n + 1) - 1 = n /\ LinesUpTo(s)[n] \in Seq(Seq(Bytes))
    OBVIOUS
  <2>2. LinesUpTo(s)[n + 1] = OneMore(s, n + 1, LinesUpTo(s)[n])
    BY <2>1, LinesUpToIs
  <2>3. LineAt(s, n + 1) \in Seq(Bytes)
    BY <2>1, LineAtTyped
  <2>4. Append(LinesUpTo(s)[n], LineAt(s, n + 1)) \in Seq(Seq(Bytes))
    BY <2>1, <2>3, AppendProperties
  <2> QED BY <2>1, <2>2, <2>4 DEF OneMore
<1> HIDE DEF S
<1>3. S = Nat
  <2>1. S \in SUBSET Nat
    BY DEF S
  <2> QED BY <1>1, <1>2, <2>1, SetInduction
<1> QED BY <1>3 DEF S

(* The lines of what goes on at the beginning of a line come after the lines*)
(* before.                                                                  *)
LEMMA LinesContinue ==
  ASSUME NEW s \in Seq(Bytes), NEW t \in Seq(Bytes), NEW n \in Nat, Continues(t, s, n),
         NEW k \in 0..Len(t)
  PROVE  LinesUpTo(s)[n + k] = LinesUpTo(s)[n] \o LinesUpTo(t)[k]
<1> DEFINE Right(m) == LinesUpTo(s)[n + m] = LinesUpTo(s)[n] \o LinesUpTo(t)[m]
           S == {m \in Nat : m <= Len(t) => Right(m)}
<1>0. Len(s) \in Nat /\ Len(t) \in Nat /\ n + Len(t) <= Len(s) /\ n \in 0..Len(s)
  BY DEF Continues
<1>1. LinesUpTo(s)[n] \in Seq(Seq(Bytes))
  BY <1>0, LinesUpToTyped
<1>2. Right(0)
  <2>1. LinesUpTo(t)[0] = <<>> /\ n + 0 = n
    BY LinesUpToIs
  <2>2. LinesUpTo(s)[n] \o <<>> = LinesUpTo(s)[n]
    BY <1>1, ConcatEmptySeq
  <2> QED BY <2>1, <2>2
<1>3. ASSUME NEW m \in Nat, m + 1 <= Len(t), Right(m) PROVE Right(m + 1)
  <2>1. /\ m + 1 \in 1..Len(t) /\ (m + 1) - 1 = m /\ m \in 0..Len(t)
        /\ n + (m + 1) \in 1..Len(s) /\ (n + (m + 1)) - 1 = n + m
    BY <1>0, <1>3
  <2>2. LinesUpTo(s)[n + (m + 1)] = OneMore(s, n + (m + 1), LinesUpTo(s)[n + m])
    BY <2>1, LinesUpToIs
  <2>3. LinesUpTo(t)[m + 1] = OneMore(t, m + 1, LinesUpTo(t)[m])
    BY <2>1, LinesUpToIs
  <2>4. LineAt(s, n + (m + 1)) = LineAt(t, m + 1) /\ s[n + (m + 1)] = t[m + 1]
    BY <2>1, SameLine DEF Continues
  <2>5. LinesUpTo(t)[m] \in Seq(Seq(Bytes)) /\ LineAt(t, m + 1) \in Seq(Bytes)
    BY <2>1, LinesUpToTyped, LineAtTyped
  <2>6. Append(LinesUpTo(s)[n] \o LinesUpTo(t)[m], LineAt(t, m + 1))
          = LinesUpTo(s)[n] \o Append(LinesUpTo(t)[m], LineAt(t, m + 1))
    <3> DEFINE before == LinesUpTo(s)[n]
               upTo == LinesUpTo(t)[m]
               new == LineAt(t, m + 1)
    <3>1. before \in Seq(Seq(Bytes)) /\ upTo \in Seq(Seq(Bytes)) /\ new \in Seq(Bytes)
      BY <1>1, <2>5
    <3> HIDE DEF before, upTo, new
    <3>2. Append(before \o upTo, new) = before \o Append(upTo, new)
      BY <3>1, AppendOver
    <3> QED BY <3>2 DEF before, upTo, new
  <2> QED BY <1>3, <2>1, <2>2, <2>3, <2>4, <2>6 DEF OneMore
<1> HIDE DEF Right
<1>4. S = Nat
  <2>1. S \in SUBSET Nat /\ 0 \in S
    BY <1>2
  <2>2. \A m \in S : m + 1 \in S
    BY <1>0, <1>3
  <2> HIDE DEF S
  <2> QED BY <2>1, <2>2, SetInduction
<1>5. k \in S /\ k <= Len(t)
  BY <1>0, <1>4
<1> QED BY <1>5 DEF Right

LEMMA SamePrefix ==
  ASSUME NEW s \in Seq(Bytes), NEW t \in Seq(Bytes), Len(t) <= Len(s),
         \A i \in 1..Len(t) : t[i] = s[i], NEW k \in 0..Len(t)
  PROVE  LinesUpTo(s)[k] = LinesUpTo(t)[k]
<1>1. Continues(t, s, 0)
  BY DEF Continues
<1>2. LinesUpTo(s)[0 + k] = LinesUpTo(s)[0] \o LinesUpTo(t)[k]
  BY <1>1, LinesContinue
<1>3. LinesUpTo(t)[k] \in Seq(Seq(Bytes))
  BY LinesUpToTyped
<1>4. <<>> \o LinesUpTo(t)[k] = LinesUpTo(t)[k]
  BY <1>3, ConcatEmptySeq
<1>5. LinesUpTo(s)[0] = <<>> /\ 0 + k = k
  BY LinesUpToIs
<1> QED BY <1>2, <1>4, <1>5

LEMMA NoLineYet ==
  ASSUME NEW s \in Seq(Bytes), NEW k \in 0..Len(s), \A j \in 1..k : s[j] # CR
  PROVE  LinesUpTo(s)[k] = <<>>
<1> DEFINE S == {m \in Nat : m <= k => LinesUpTo(s)[m] = <<>>}
<1>1. S \in SUBSET Nat /\ 0 \in S
  BY LinesUpToIs
<1>2. ASSUME NEW m \in S PROVE m + 1 \in S
  <2>1. m + 1 <= k => m + 1 \in 1..Len(s) /\ (m + 1) - 1 = m /\ m + 1 \in 1..k
    OBVIOUS
  <2>2. m + 1 <= k => LinesUpTo(s)[m + 1] = OneMore(s, m + 1, LinesUpTo(s)[m])
    BY <2>1, LinesUpToIs
  <2>3. m + 1 <= k => LinesUpTo(s)[m] = <<>>
    OBVIOUS
  <2> QED BY <2>1, <2>2, <2>3 DEF OneMore
<1>3. S = Nat
  <2> HIDE DEF S
  <2> QED BY <1>1, <1>2, SetInduction
<1> QED BY <1>3

(* What handling the first line of a buffer adds.                           *)
LEMMA FirstLine ==
  ASSUME NEW b \in Seq(Bytes), HasLine(b), NEW ls \in Seq(Seq(Bytes))
  PROVE  LET line == SubSeq(b, 1, FirstCR(b) - 1)
         IN  ls \o LinesUpTo(b)[FirstCR(b)] =
               IF Spaces(line) < HeaderSpaces THEN ls ELSE Append(ls, line)
<1>1. PICK k \in 1..Len(b) : k = FirstCR(b)
  BY FirstEnd
<1>2. b[k] = CR /\ \A j \in 1..(k - 1) : b[j] # CR
  BY <1>1, FirstEnd
<1>3. k - 1 \in 0..Len(b)
  OBVIOUS
<1>4. LinesUpTo(b)[k - 1] = <<>>
  BY <1>2, <1>3, NoLineYet
<1>5. LineAt(b, k) = SubSeq(b, 1, k - 1)
  <2>1. 1 \in 1..k /\ First(b, k, 1)
    BY <1>2 DEF First
  <2> QED BY <2>1, LineAtIs
<1>6. PICK line \in Seq(Bytes) : line = LineAt(b, k)
  BY LineAtTyped
<1>7. LinesUpTo(b)[k] = IF Spaces(line) < HeaderSpaces THEN <<>> ELSE Append(<<>>, line)
  BY <1>2, <1>4, <1>6, LinesUpToIs DEF OneMore
<1>8. PICK none : none = <<>>
  OBVIOUS
<1>9. none \in Seq(Seq(Bytes)) /\ ls \o none = ls
  BY <1>8, EmptySeq, ConcatEmptySeq
<1>10. Append(ls \o none, line) = ls \o Append(none, line)
  BY <1>9, AppendOver
<1> QED BY <1>1, <1>5, <1>6, <1>7, <1>8, <1>9, <1>10

LEMMA Cut ==
  ASSUME NEW s \in Seq(Bytes), NEW m \in Nat, m <= Len(s)
  PROVE  /\ SubSeq(s, m + 1, Len(s)) \in Seq(Bytes)
         /\ Len(SubSeq(s, m + 1, Len(s))) = Len(s) - m
         /\ \A i \in 1..(Len(s) - m) : SubSeq(s, m + 1, Len(s))[i] = s[m + i]
<1>1. m + 1 \in Int /\ Len(s) \in Int /\ m <= Len(s)
  OBVIOUS
<1>2. \A i \in (m + 1)..Len(s) : s[i] \in Bytes
  OBVIOUS
<1>3. /\ SubSeq(s, m + 1, Len(s)) \in Seq(Bytes)
      /\ Len(SubSeq(s, m + 1, Len(s))) = IF m + 1 <= Len(s) THEN Len(s) - (m + 1) + 1 ELSE 0
      /\ \A i \in 1..(Len(s) - (m + 1) + 1) : SubSeq(s, m + 1, Len(s))[i] = s[(m + 1) + i - 1]
  BY <1>1, <1>2, SubSeqProperties
<1>4. Len(s) - (m + 1) + 1 = Len(s) - m
  BY <1>1
<1>5. ASSUME NEW i \in 1..(Len(s) - m) PROVE SubSeq(s, m + 1, Len(s))[i] = s[m + i]
  <2>1. (m + 1) + i - 1 = m + i
    BY <1>1
  <2> QED BY <1>3, <1>4, <2>1
<1>6. Len(SubSeq(s, m + 1, Len(s))) = Len(s) - m
  BY <1>1, <1>3
<1> QED BY <1>3, <1>5, <1>6

-----------------------------------------------------------------------------
(* The buffer is the end of what the reader has taken, and says where the   *)
(* reader is.                                                               *)
EndOf(b, s, n) ==
  /\ Len(b) <= n
  /\ \A i \in 1..Len(b) : b[i] = s[n - Len(b) + i]

Types ==
  /\ stream \in Seq(Bytes) /\ Len(stream) <= MaxBytes
  /\ got \in 0..Len(stream)
  /\ buffer \in Seq(Bytes)
  /\ pc \in {"read", "drain", "ended", "flooded"}
  /\ connections \in 1..MaxConnections
  /\ lines \in Seq(Seq(Bytes))

Place ==
  /\ pc = "drain" => HasLine(buffer)
  /\ pc = "read" => ~HasLine(buffer) /\ Len(buffer) <= MaxLine
  /\ pc = "flooded" => ~HasLine(buffer) /\ Len(buffer) > MaxLine

Inv == Types /\ Place /\ EndOf(buffer, stream, got)

LEMMA InitInv == ASSUME Init PROVE Inv
<1>1. stream = <<>> /\ got = 0 /\ buffer = <<>> /\ pc = "read" /\ connections = 1 /\ lines = <<>>
  BY DEF Init
<1>2. Types
  <2>1. Len(stream) = 0 /\ stream \in Seq(Bytes) /\ buffer \in Seq(Bytes) /\ lines \in Seq(Seq(Bytes))
    BY <1>1
  <2>2. 1 \in 1..MaxConnections /\ 0 <= MaxBytes
    BY ReaderAssumption
  <2> QED BY <1>1, <2>1, <2>2 DEF Types
<1>3. Place
  BY <1>1, ReaderAssumption DEF Place, HasLine
<1>4. EndOf(buffer, stream, got)
  BY <1>1 DEF EndOf
<1> QED BY <1>2, <1>3, <1>4 DEF Inv

LEMMA ArrivesInv == ASSUME Inv, NEW b \in Bytes, Arrives(b) PROVE Inv'
<1>1. Types'
  <2>1. stream' = Append(stream, b) /\ Len(stream) < MaxBytes
        /\ pc' = pc /\ UNCHANGED <<got, buffer, connections, lines>>
    BY DEF Arrives
  <2>2. stream' \in Seq(Bytes) /\ Len(stream') = Len(stream) + 1
    BY <2>1 DEF Inv, Types
  <2> QED BY <2>1, <2>2, ReaderAssumption DEF Inv, Types
<1>2. Place'
  BY DEF Inv, Types, Place, Arrives
<1>3. EndOf(buffer, stream, got)'
  <2>1. \A i \in 1..Len(stream) : stream'[i] = stream[i]
    BY DEF Inv, Types, Arrives
  <2>2. got \in 0..Len(stream) /\ Len(buffer) \in Nat /\ buffer' = buffer /\ got' = got
    BY DEF Inv, Types, Arrives
  <2> QED BY <2>1, <2>2 DEF Inv, EndOf
<1> QED BY <1>1, <1>2, <1>3 DEF Inv

(* Whatever the drain loop leaves, the reader goes on where it belongs.     *)
LEMMA DrainedPlace ==
  ASSUME Inv, buffer' \in Seq(Bytes), pc' = Drained(buffer')
  PROVE  Place' /\ pc' \in {"read", "drain", "flooded"}
<1>1. Len(buffer') \in Nat
  OBVIOUS
<1> QED BY <1>1, ReaderAssumption DEF Drained, Place, HasLine

LEMMA ReadInv == ASSUME Inv, ReadChunk PROVE Inv'
<1>0. Types /\ EndOf(buffer, stream, got)
  BY DEF Inv
<1> DEFINE new == SubSeq(stream, got + 1, Len(stream))
<1>1. /\ got' = Len(stream) /\ buffer' = buffer \o new /\ pc' = Drained(buffer')
      /\ UNCHANGED <<stream, connections, lines>> /\ got < Len(stream)
  BY DEF ReadChunk
<1>2. /\ new \in Seq(Bytes) /\ Len(new) = Len(stream) - got
      /\ \A i \in 1..Len(new) : new[i] = stream[got + i]
  BY <1>0, <1>1, Cut DEF Types
<1> HIDE DEF new
<1>3. /\ buffer' \in Seq(Bytes) /\ Len(buffer') = Len(buffer) + Len(new)
      /\ \A i \in 1..Len(buffer') :
           buffer'[i] = IF i <= Len(buffer) THEN buffer[i] ELSE new[i - Len(buffer)]
  <2>1. buffer \in Seq(Bytes) /\ new \in Seq(Bytes) /\ buffer' = buffer \o new
    BY <1>0, <1>1, <1>2 DEF Types
  <2>2. /\ buffer \o new \in Seq(Bytes) /\ Len(buffer \o new) = Len(buffer) + Len(new)
        /\ \A i \in 1..(Len(buffer) + Len(new)) : (buffer \o new)[i] =
             IF i <= Len(buffer) THEN buffer[i] ELSE new[i - Len(buffer)]
    BY <2>1, ConcatProperties
  <2> QED BY <2>1, <2>2
<1>4. Types'
  <2>1. pc' \in {"read", "drain", "flooded"}
    BY <1>1, <1>3, DrainedPlace
  <2> QED BY <1>0, <1>1, <1>3, <2>1 DEF Types
<1>5. EndOf(buffer, stream, got)'
  <2>1. Len(buffer') <= got'
    BY <1>0, <1>1, <1>2, <1>3 DEF EndOf, Types
  <2>2. ASSUME NEW i \in 1..Len(buffer') PROVE buffer'[i] = stream[got' - Len(buffer') + i]
    <3>1. got' - Len(buffer') + i = got - Len(buffer) + i
      BY <1>0, <1>1, <1>2, <1>3 DEF Types
    <3>2. CASE i <= Len(buffer)
      <4>1. i \in 1..Len(buffer) /\ buffer'[i] = buffer[i]
        BY <1>0, <1>3, <3>2 DEF Types
      <4>2. buffer[i] = stream[got - Len(buffer) + i]
        BY <1>0, <4>1 DEF EndOf
      <4> QED BY <3>1, <4>1, <4>2
    <3>3. CASE i > Len(buffer)
      <4>1. i - Len(buffer) \in 1..Len(new) /\ got + (i - Len(buffer)) = got - Len(buffer) + i
        BY <1>0, <1>3, <1>2, <3>3 DEF Types
      <4>2. buffer'[i] = new[i - Len(buffer)]
        BY <1>0, <1>3, <3>3 DEF Types
      <4>3. new[i - Len(buffer)] = stream[got + (i - Len(buffer))]
        BY <1>2, <4>1
      <4> QED BY <3>1, <4>1, <4>2, <4>3
    <3> QED BY <3>2, <3>3, <1>0 DEF Types
  <2> QED BY <1>1, <2>1, <2>2 DEF EndOf
<1> QED BY <1>3, <1>1, <1>4, <1>5, DrainedPlace DEF Inv

LEMMA HandleInv == ASSUME Inv, HandleLine PROVE Inv'
<1>0. Types /\ Place /\ EndOf(buffer, stream, got) /\ pc = "drain"
  BY DEF Inv, HandleLine
<1> DEFINE line == SubSeq(buffer, 1, FirstCR(buffer) - 1)
<1>1. /\ buffer' = SubSeq(buffer, FirstCR(buffer) + 1, Len(buffer)) /\ pc' = Drained(buffer')
      /\ lines' = lines \/ lines' = Append(lines, line)
      /\ UNCHANGED <<stream, got, connections>>
  BY DEF HandleLine, Rest
<1>2. FirstCR(buffer) \in 1..Len(buffer)
  BY <1>0, FirstEnd DEF Types, Place
<1>3. line \in Seq(Bytes)
  BY <1>0, <1>2 DEF Types
<1> HIDE DEF line
<1>4. PICK n \in 1..Len(buffer) : n = FirstCR(buffer)
  BY <1>2
<1>5. /\ buffer' \in Seq(Bytes) /\ Len(buffer') = Len(buffer) - n
      /\ \A i \in 1..Len(buffer') : buffer'[i] = buffer[n + i]
  <2>1. buffer \in Seq(Bytes) /\ n \in Nat /\ n <= Len(buffer) /\ Len(buffer) \in Nat
    BY <1>0 DEF Types
  <2>2. buffer' = SubSeq(buffer, n + 1, Len(buffer))
    BY <1>1, <1>4
  <2> QED BY <2>1, <2>2, Cut
<1>6. Types'
  <2>1. pc' \in {"read", "drain", "flooded"}
    BY <1>1, <1>5, DrainedPlace
  <2>2. lines' \in Seq(Seq(Bytes))
    <3>1. lines \in Seq(Seq(Bytes))
      BY <1>0 DEF Types
    <3>2. Append(lines, line) \in Seq(Seq(Bytes))
      BY <1>3, <3>1, AppendProperties
    <3> QED BY <1>1, <3>1, <3>2
  <2> QED BY <1>0, <1>1, <1>5, <2>1, <2>2 DEF Types
<1>7. EndOf(buffer, stream, got)'
  <2>1. Len(buffer) \in Nat /\ got \in Nat /\ Len(buffer) <= got
    BY <1>0 DEF Types, EndOf
  <2>2. ASSUME NEW i \in 1..Len(buffer') PROVE buffer'[i] = stream[got - Len(buffer') + i]
    <3>1. n + i \in 1..Len(buffer) /\ got - Len(buffer') + i = got - Len(buffer) + (n + i)
      BY <1>5, <2>1
    <3>2. buffer[n + i] = stream[got - Len(buffer) + (n + i)]
      BY <1>0, <3>1 DEF EndOf
    <3> QED BY <1>5, <3>1, <3>2
  <2>3. Len(buffer') <= got
    BY <1>5, <2>1
  <2> QED BY <1>1, <2>2, <2>3 DEF EndOf
<1> QED BY <1>1, <1>5, <1>6, <1>7, DrainedPlace DEF Inv

LEMMA EndsInv == ASSUME Inv, Ends PROVE Inv'
  BY DEF Inv, Types, Place, EndOf, Ends

LEMMA ReconnectsInv == ASSUME Inv, Reconnects PROVE Inv'
<1>1. /\ stream' = <<>> /\ got' = 0 /\ buffer' = <<>> /\ lines' = <<>> /\ pc' = "read"
      /\ connections' = connections + 1 /\ connections < MaxConnections
  BY DEF Reconnects
<1>2. Types'
  <2>1. Len(stream') = 0 /\ stream' \in Seq(Bytes) /\ buffer' \in Seq(Bytes) /\ lines' \in Seq(Seq(Bytes))
    BY <1>1
  <2> QED BY <1>1, <2>1, ReaderAssumption DEF Inv, Types
<1>3. Place'
  BY <1>1, ReaderAssumption DEF Place, HasLine
<1>4. EndOf(buffer, stream, got)'
  BY <1>1 DEF EndOf
<1> QED BY <1>2, <1>3, <1>4 DEF Inv

LEMMA AlwaysInv == Spec => []Inv
<1>1. Init => Inv
  BY InitInv
<1>2. Inv /\ [Next]_vars => Inv'
  <2> SUFFICES ASSUME Inv, [Next]_vars PROVE Inv'
    OBVIOUS
  <2>1. CASE \E b \in Bytes : Arrives(b)
    BY <2>1, ArrivesInv
  <2>2. CASE ReadChunk
    BY <2>2, ReadInv
  <2>3. CASE HandleLine
    BY <2>3, HandleInv
  <2>4. CASE Ends
    BY <2>4, EndsInv
  <2>5. CASE Reconnects
    BY <2>5, ReconnectsInv
  <2>6. CASE UNCHANGED vars
    BY <2>6 DEF Inv, Types, Place, EndOf, vars
  <2> QED BY <2>1, <2>2, <2>3, <2>4, <2>5, <2>6 DEF Next
<1> QED BY <1>1, <1>2, PTL DEF Spec

-----------------------------------------------------------------------------
(* The buffer starts at the beginning of a line, and the lines before it    *)
(* have been handed on.                                                     *)
Handed ==
  LET n == got - Len(buffer)
  IN  /\ n = 0 \/ stream[n] = CR
      /\ lines = LinesUpTo(stream)[n]

LEMMA NoBytes == LinesUpTo(<<>>)[0] = <<>> /\ 0 - Len(<<>>) = 0
<1>1. PICK none : none = <<>>
  OBVIOUS
<1>2. none \in Seq(Bytes)
  BY <1>1, EmptySeq
<1>3. LinesUpTo(none)[0] = none
  BY <1>1, <1>2, LinesUpToIs
<1>4. Len(none) = 0 /\ 0 - 0 = 0
  BY <1>1
<1>5. 0 - Len(none) = 0
  BY <1>4
<1> QED BY <1>1, <1>3, <1>5, Zenon

LEMMA InitHanded == Init => Handed
  BY NoBytes, Zenon DEF Init, Handed

LEMMA BufferContinues ==
  ASSUME Inv, Handed
  PROVE  /\ got - Len(buffer) \in 0..Len(stream)
         /\ Continues(buffer, stream, got - Len(buffer))
<1>1. got \in 0..Len(stream) /\ Len(buffer) \in Nat /\ Len(stream) \in Nat /\ Len(buffer) <= got
  BY DEF Inv, Types, EndOf
<1>2. (got - Len(buffer)) + Len(buffer) = got
  BY <1>1
<1> QED BY <1>1, <1>2 DEF Inv, EndOf, Continues, Handed

LEMMA ArrivesHanded ==
  ASSUME Inv, Handed, NEW b \in Bytes, Arrives(b) PROVE Handed'
<1>1. stream \in Seq(Bytes) /\ stream' = Append(stream, b) /\ UNCHANGED <<got, buffer, lines>>
  BY DEF Inv, Types, Arrives
<1>2. PICK new \in Seq(Bytes) : new = stream'
  BY <1>1
<1>3. Len(stream) <= Len(new) /\ \A i \in 1..Len(stream) : stream[i] = new[i]
  BY <1>1, <1>2
<1>4. PICK n \in 0..Len(stream) : n = got - Len(buffer)
  BY BufferContinues
<1>5. LinesUpTo(new)[n] = LinesUpTo(stream)[n]
  BY <1>1, <1>3, SamePrefix
<1>6. n = 0 \/ new[n] = stream[n]
  BY <1>3
<1> QED BY <1>1, <1>2, <1>4, <1>5, <1>6 DEF Handed

LEMMA ReadHanded ==
  ASSUME Inv, Handed, ReadChunk PROVE Handed'
<1>1. /\ got' = Len(stream) /\ buffer' = buffer \o SubSeq(stream, got + 1, Len(stream))
      /\ UNCHANGED <<stream, lines>>
      /\ stream \in Seq(Bytes) /\ buffer \in Seq(Bytes) /\ got \in Nat /\ got <= Len(stream)
  BY DEF ReadChunk, Inv, Types
<1>2. PICK new \in Seq(Bytes) : new = SubSeq(stream, got + 1, Len(stream))
                                /\ Len(new) = Len(stream) - got
  BY <1>1, Cut
<1>3. Len(buffer') = Len(buffer) + Len(new)
  BY <1>1, <1>2, ConcatProperties
<1>4. got' - Len(buffer') = got - Len(buffer)
  <2>1. Len(buffer) \in Nat /\ Len(stream) \in Nat /\ got' = Len(stream)
    BY <1>1
  <2>2. Len(new) = Len(stream) - got /\ got \in Nat
    BY <1>1, <1>2
  <2>3. Len(stream) - (Len(buffer) + (Len(stream) - got)) = got - Len(buffer)
    BY <2>1, <2>2
  <2> QED BY <1>3, <2>1, <2>2, <2>3
<1> QED BY <1>1, <1>4 DEF Handed

LEMMA HandleHanded ==
  ASSUME Inv, Handed, HandleLine PROVE Handed'
<1>1. /\ buffer' = SubSeq(buffer, FirstCR(buffer) + 1, Len(buffer))
      /\ UNCHANGED <<stream, got>>
      /\ lines' = LET line == SubSeq(buffer, 1, FirstCR(buffer) - 1)
                  IN  IF Spaces(line) < HeaderSpaces THEN lines ELSE Append(lines, line)
  BY DEF HandleLine, Rest
<1>2. /\ stream \in Seq(Bytes) /\ buffer \in Seq(Bytes) /\ lines \in Seq(Seq(Bytes))
      /\ HasLine(buffer) /\ got \in Nat /\ Len(buffer) \in Nat
  BY DEF Inv, Types, Place, HandleLine
<1>3. PICK k \in 1..Len(buffer) : k = FirstCR(buffer) /\ buffer[k] = CR
  BY <1>2, FirstEnd
<1>4. PICK n \in 0..Len(stream) : n = got - Len(buffer) /\ Continues(buffer, stream, n)
  BY BufferContinues
<1>5. got' - Len(buffer') = n + k
  <2>1. Len(buffer') = Len(buffer) - k
    BY <1>1, <1>2, <1>3, Cut
  <2>2. got' = got /\ k \in Nat /\ n = got - Len(buffer)
    BY <1>1, <1>4
  <2> QED BY <1>2, <2>1, <2>2
<1>6. stream[n + k] = CR
  BY <1>3, <1>4 DEF Continues
<1>7. LinesUpTo(stream)[n + k] = LinesUpTo(stream)[n] \o LinesUpTo(buffer)[k]
  <2>1. n \in Nat /\ k \in 0..Len(buffer)
    BY <1>2
  <2> QED BY <1>2, <1>4, <2>1, LinesContinue
<1>8. lines' = lines \o LinesUpTo(buffer)[k]
  BY <1>1, <1>2, <1>3, FirstLine
<1>9. lines = LinesUpTo(stream)[n]
  BY <1>4 DEF Handed
<1> QED BY <1>1, <1>5, <1>6, <1>7, <1>8, <1>9 DEF Handed

LEMMA AlwaysHanded == Spec => [](Inv /\ Handed)
<1>1. Init => Inv /\ Handed
  BY InitInv, InitHanded
<1>2. Inv /\ Inv' /\ Handed /\ [Next]_vars => Handed'
  <2> SUFFICES ASSUME Inv, Handed, [Next]_vars PROVE Handed'
    OBVIOUS
  <2>1. CASE \E b \in Bytes : Arrives(b)
    BY <2>1, ArrivesHanded
  <2>2. CASE ReadChunk
    BY <2>2, ReadHanded
  <2>3. CASE HandleLine
    BY <2>3, HandleHanded
  <2>4. CASE Ends
    BY <2>4 DEF Handed, Ends
  <2>5. CASE Reconnects
    BY <2>5, NoBytes, Zenon DEF Handed, Reconnects
  <2>6. CASE UNCHANGED vars
    BY <2>6 DEF Handed, vars
  <2> QED BY <2>1, <2>2, <2>3, <2>4, <2>5, <2>6 DEF Next
<1> QED BY <1>1, <1>2, AlwaysInv, PTL DEF Spec

-----------------------------------------------------------------------------
(* Every variable keeps its type, and the loop over complete lines runs     *)
(* only while there is one (events.py:412).                                 *)
THEOREM TypeCorrect == Spec => []TypeOK
<1>1. Inv => TypeOK
  BY DEF Inv, Types, Place, TypeOK
<1> QED BY <1>1, AlwaysInv, PTL

(* However the bytes come, the reader never waits for the network while it  *)
(* holds a complete line (events.py:412-418).                               *)
THEOREM NothingHeldBack == Spec => []NoLineHeldBack
<1>1. Inv => NoLineHeldBack
  BY DEF Inv, Place, NoLineHeldBack
<1> QED BY <1>1, AlwaysInv, PTL

(* Only an unterminated line over the cap drops the connection, and no more *)
(* than the cap is kept between chunks (events.py:409-423).                 *)
THEOREM OnlyFloodsDropped == Spec => []FloodsAreFloods
<1>1. Inv => FloodsAreFloods
  <2> SUFFICES ASSUME Inv PROVE FloodsAreFloods
    OBVIOUS
  <2>1. Types /\ Place /\ EndOf(buffer, stream, got) /\ Len(buffer) \in Nat /\ got \in Nat /\ MaxLine \in Nat
    BY ReaderAssumption DEF Inv, Types
  <2>2. ASSUME pc = "flooded", NEW k \in (got - MaxLine)..got PROVE stream[k] # CR
    <3>1. k - (got - Len(buffer)) \in 1..Len(buffer)
      BY <2>1, <2>2 DEF Place, EndOf
    <3>2. PICK i \in 1..Len(buffer) : i = k - (got - Len(buffer))
      BY <3>1
    <3>3. buffer[i] = stream[k]
      BY <2>1, <3>2 DEF EndOf
    <3> QED BY <2>1, <2>2, <3>3 DEF Place, HasLine
  <2>3. pc = "flooded" => got > MaxLine
    BY <2>1 DEF Place, EndOf
  <2> QED BY <2>1, <2>2, <2>3 DEF Place, FloodsAreFloods
<1> QED BY <1>1, AlwaysInv, PTL

(* However the bytes of a connection are cut into chunks, and whenever more *)
(* of them arrive, the lines handed on, with those still in the buffer, are *)
(* the lines of the bytes read: none is lost, repeated, merged, or mixed    *)
(* with the rest of an earlier connection (events.py:403-423).              *)
THEOREM NothingLostOrMixed == Spec => []Reassembled
<1>1. Inv /\ Handed => Reassembled
  <2> SUFFICES ASSUME Inv, Handed PROVE Reassembled
    OBVIOUS
  <2>1. /\ stream \in Seq(Bytes) /\ buffer \in Seq(Bytes) /\ got \in 0..Len(stream)
        /\ Len(buffer) \in Nat /\ Len(stream) \in Nat
    BY DEF Inv, Types
  <2>2. PICK n \in 0..Len(stream) : n = got - Len(buffer) /\ Continues(buffer, stream, n)
    BY BufferContinues
  <2>3. LinesUpTo(stream)[n + Len(buffer)] = LinesUpTo(stream)[n] \o LinesUpTo(buffer)[Len(buffer)]
    <3>1. n \in Nat /\ Len(buffer) \in 0..Len(buffer)
      BY <2>1
    <3> QED BY <2>1, <2>2, <3>1, LinesContinue
  <2>4. PICK t \in Seq(Bytes) : /\ t = SubSeq(stream, 1, got) /\ Len(t) = got
                                /\ \A i \in 1..got : t[i] = stream[i]
    <3>1. 1 \in Int /\ got \in Int /\ \A i \in 1..got : stream[i] \in Bytes
      BY <2>1
    <3>2. PICK t : t = SubSeq(stream, 1, got)
      OBVIOUS
    <3>3. t \in Seq(Bytes)
      BY <3>1, <3>2, SubSeqProperties
    <3>4. Len(t) = got
      BY <2>1, <3>1, <3>2, SubSeqProperties
    <3>5. \A i \in 1..got : t[i] = stream[i]
      <4>1. \A i \in 1..(got - 1 + 1) : t[i] = stream[1 + i - 1]
        BY <3>1, <3>2, SubSeqProperties
      <4>2. got - 1 + 1 = got /\ \A i \in 1..got : 1 + i - 1 = i
        BY <2>1
      <4> QED BY <4>1, <4>2
    <3> QED BY <3>2, <3>3, <3>4, <3>5
  <2>5. LinesUpTo(stream)[got] = LinesUpTo(t)[got]
    <3>1. got \in 0..Len(t) /\ Len(t) <= Len(stream)
      BY <2>1, <2>4
    <3> QED BY <2>1, <2>4, <3>1, SamePrefix
  <2>6. n + Len(buffer) = got /\ lines = LinesUpTo(stream)[n]
    BY <2>1, <2>2 DEF Handed
  <2>7. LinesOf(buffer) = LinesUpTo(buffer)[Len(buffer)] /\ LinesOf(t) = LinesUpTo(t)[got]
    BY <2>4 DEF LinesOf
  <2> QED BY <2>3, <2>4, <2>5, <2>6, <2>7 DEF Reassembled
<1> QED BY <1>1, AlwaysHanded, PTL
=============================================================================
