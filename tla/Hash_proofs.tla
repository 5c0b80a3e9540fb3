----------------------------- MODULE Hash_proofs ------------------------------
(***************************************************************************)
(* Proofs about the hash contexts and what is built on them: a digest is   *)
(* that of the padded message however the message was cut into updates,    *)
(* and HMAC and PBKDF2 are the standards', for every length of block,      *)
(* digest, key, salt and message.                                          *)
(***************************************************************************)
EXTENDS HashStream, KeyedHash, SequenceTheorems, FiniteSetTheorems, TLAPS

-----------------------------------------------------------------------------
(* Numbers.                                                                *)

\* A number is its quotient times the divisor, and its remainder.
LEMMA Split ==
  ASSUME NEW a \in Int, NEW b \in Nat \ {0}
  PROVE  /\ a \div b \in Int /\ a % b \in 0 .. (b - 1)
         /\ a = b * (a \div b) + (a % b)
         /\ a \in Nat => a \div b \in Nat
  OBVIOUS

\* And no other two numbers are.
LEMMA Divided ==
  ASSUME NEW a \in Int, NEW b \in Nat \ {0}, NEW q \in Int, NEW r \in 0 .. (b - 1),
         a = b * q + r
  PROVE  a % b = r /\ a \div b = q
<1> DEFINE d == a \div b
           e == a % b
<1>1. d \in Int /\ e \in 0 .. (b - 1) /\ a = b * d + e
  BY Split
<1>2. e - r = b * (q - d)
  BY <1>1
<1> HIDE DEF d, e
<1>3. q - d < 1
  <2>1. SUFFICES ASSUME q - d >= 1 PROVE FALSE
    BY <1>1
  <2>2. b * (q - d) >= b * 1
    BY <2>1, <1>1
  <2> QED
    BY <2>2, <1>1, <1>2
<1>4. q - d > -1
  <2>1. SUFFICES ASSUME q - d <= -1 PROVE FALSE
    BY <1>1
  <2>2. b * (q - d) <= b * (-1)
    BY <2>1, <1>1
  <2> QED
    BY <2>2, <1>1, <1>2
<1>5. q = d
  BY <1>1, <1>3, <1>4
<1>6. e = r
  BY <1>1, <1>2, <1>5
<1> QED
  BY <1>5, <1>6 DEF d, e

\* A remainder stays when a multiple of the divisor is added or removed.
LEMMA RemainderKept ==
  ASSUME NEW a \in Int, NEW b \in Nat \ {0}, NEW q \in Int
  PROVE  /\ (a + b * q) % b = a % b
         /\ (a + b * q) \div b = a \div b + q
<1> DEFINE d == a \div b
           e == a % b
<1>1. d \in Int /\ e \in 0 .. (b - 1) /\ a = b * d + e
  BY Split
<1>2. a + b * q = b * (d + q) + e /\ d + q \in Int /\ a + b * q \in Int
  BY <1>1
<1> HIDE DEF d, e
<1>3. (a + b * q) % b = e /\ (a + b * q) \div b = d + q
  BY <1>1, <1>2, Divided
<1> QED
  BY <1>3 DEF d, e

\* So adding to a remainder is adding to the number.
LEMMA RemainderPlus ==
  ASSUME NEW a \in Int, NEW b \in Nat \ {0}, NEW c \in Int
  PROVE  ((a % b) + c) % b = (a + c) % b
<1> DEFINE d == a \div b
           e == a % b
<1>1. d \in Int /\ e \in 0 .. (b - 1) /\ a = b * d + e
  BY Split
<1>2. a + c = (e + c) + b * d /\ e + c \in Int
  BY <1>1
<1> HIDE DEF d, e
<1>3. ((e + c) + b * d) % b = (e + c) % b
  BY <1>1, <1>2, RemainderKept
<1>4. (a + c) % b = (e + c) % b
  BY <1>2, <1>3
<1> QED
  BY <1>4 DEF e

\* And multiplying a remainder is multiplying the number.
LEMMA RemainderTimes ==
  ASSUME NEW a \in Int, NEW b \in Nat \ {0}, NEW c \in Int
  PROVE  ((a % b) * c) % b = (a * c) % b
<1>1. PICK d, e, s : d = a \div b /\ e = a % b /\ s = d * c
  OBVIOUS
<1>2. d \in Int /\ e \in 0 .. (b - 1) /\ a = b * d + e /\ s \in Int
  BY <1>1, Split
<1>3. a * c = e * c + b * s /\ e * c \in Int
  BY <1>1, <1>2
<1>4. (e * c + b * s) % b = (e * c) % b
  BY <1>2, <1>3, RemainderKept
<1> QED
  BY <1>1, <1>3, <1>4

\* A remainder of a multiple of the divisor has the remainder of the number.
LEMMA RemainderOfRemainder ==
  ASSUME NEW a \in Int, NEW b \in Nat \ {0}, NEW k \in Nat \ {0}
  PROVE  (a % (b * k)) % b = a % b
<1>1. PICK c : c = b * k
  OBVIOUS
<1>2. c \in Nat \ {0}
  <2>1. b * k > 0 /\ b * k \in Nat
    OBVIOUS
  <2> QED
    BY <1>1, <2>1
<1> DEFINE d == a \div c
           e == a % c
<1>3. d \in Int /\ e \in Int /\ a = c * d + e
  BY <1>2, Split
<1> HIDE DEF d, e
<1>4. a = e + b * (k * d) /\ k * d \in Int
  <2>1. k * d \in Int /\ (b * k) * d = b * (k * d) /\ c * d = (b * k) * d
    BY <1>1, <1>3
  <2> QED
    BY <1>3, <2>1
<1>5. (e + b * (k * d)) % b = e % b
  BY <1>3, <1>4, RemainderKept
<1>6. a % b = e % b
  BY <1>4, <1>5
<1> QED
  BY <1>1, <1>6 DEF e

\* The upper and the lower digit of a number.
LEMMA TwoDigits ==
  ASSUME NEW a \in Nat, NEW b \in Nat \ {0}
  PROVE  /\ (a % (b * b)) % b = a % b
         /\ (a % (b * b)) \div b = (a \div b) % b
<1> DEFINE d == a \div b
           e == a % b
           h == d \div b
           l == d % b
<1>1. d \in Nat /\ e \in 0 .. (b - 1) /\ a = b * d + e
  <2>1. a \in Int
    OBVIOUS
  <2>2. d \in Int /\ e \in 0 .. (b - 1) /\ a = b * d + e
    BY <2>1, Split
  <2>3. d \in Nat
    OBVIOUS
  <2> QED
    BY <2>2, <2>3
<1>2. h \in Int /\ l \in 0 .. (b - 1) /\ d = b * h + l
  <2>1. d \in Int
    BY Split
  <2> HIDE DEF d
  <2> QED
    BY <2>1, Split
<1> HIDE DEF d, e, h, l
<1>3. a = (b * b) * h + (b * l + e)
  <2>1. b * d = b * (b * h + l)
    BY <1>2
  <2>2. b * (b * h + l) = (b * b) * h + b * l
    BY <1>2
  <2> QED
    BY <1>1, <1>2, <2>1, <2>2
<1>4. b * l + e \in 0 .. (b * b - 1) /\ b * b \in Nat \ {0}
  <2>1. b * l <= b * (b - 1) /\ b * l >= 0 /\ b * (b - 1) = b * b - b /\ b * b \in Int
    BY <1>2
  <2>2. b * l \in Int /\ b * b > 0
    BY <1>2
  <2> QED
    BY <1>1, <2>1, <2>2
<1>5. a % (b * b) = b * l + e
  <2>1. PICK c : c = b * b
    OBVIOUS
  <2>2. PICK r : r = b * l + e
    OBVIOUS
  <2>3. c \in Nat \ {0} /\ r \in 0 .. (c - 1) /\ a = c * h + r
    BY <1>3, <1>4, <2>1, <2>2
  <2>4. a % c = r
    BY <1>2, <2>3, Divided
  <2> QED
    BY <2>1, <2>2, <2>4
<1>6. (b * l + e) % b = e /\ (b * l + e) \div b = l
  <2>1. b * l + e \in Int
    BY <1>4
  <2> QED
    BY <1>1, <1>2, <2>1, Divided
<1> QED
  BY <1>5, <1>6 DEF d, e, h, l

-----------------------------------------------------------------------------
(* Induction, over a set of numbers.                                       *)

\* Every set of natural numbers has a least one: the numbers of the set up to
\* one of them are a finite set, and there is no endless chain of smaller ones.
LEMMA LeastMember ==
  ASSUME NEW S \in SUBSET Nat, S # {}
  PROVE  \E n \in S : \A m \in S : n <= m
<1> DEFINE below(n) == {m \in S : m <= n}
           T == {below(n) : n \in S}
           R == StrictSubsetOrdering(S)
<1>1. IsWellFoundedOn(R, FiniteSubsetsOf(S))
  BY FS_StrictSubsetOrderingWellFounded
<1>2. T \subseteq FiniteSubsetsOf(S)
  <2>1. ASSUME NEW n \in S  PROVE below(n) \in FiniteSubsetsOf(S)
    <3>1. IsFiniteSet(below(n))
      BY FS_BoundedSetOfNaturals
    <3> QED
      BY <3>1 DEF FiniteSubsetsOf
  <2> QED
    BY <2>1
<1>3. ASSUME NEW m \in S, NEW n \in S, m < n
      PROVE  <<below(m), below(n)>> \in R
  <2>1. m \in Nat /\ n \in Nat
    OBVIOUS
  <2>2. below(m) \in SUBSET S /\ below(n) \in SUBSET S
    OBVIOUS
  <2>3. below(m) \subseteq below(n)
    <3>1. ASSUME NEW k \in S, k <= m PROVE k <= n
      <4>1. k \in Nat
        OBVIOUS
      <4> QED
        BY <1>3, <2>1, <3>1, <4>1
    <3> QED
      BY <3>1
  <2>4. n \in below(n) /\ n \notin below(m)
    BY <1>3, <2>1
  <2> HIDE DEF below
  <2>5. below(m) # below(n)
    BY <2>4
  <2>6. PICK a, b : a = below(m) /\ b = below(n)
    OBVIOUS
  <2>7. <<a, b>> \in StrictSubsetOrdering(S)
    BY <2>2, <2>3, <2>5, <2>6 DEF StrictSubsetOrdering
  <2> QED
    BY <2>6, <2>7
<1>4. T # {}
  OBVIOUS
<1> HIDE DEF R
<1>5. PICK x \in T : \A y \in T : <<y, x>> \notin R
  BY <1>1, <1>2, <1>4, WFMin
<1>6. PICK n \in S : x = below(n)
  OBVIOUS
<1>7. \A m \in S : ~(m < n)
  BY <1>3, <1>5, <1>6
<1> QED
  BY <1>7

LEMMA Induction ==
  ASSUME NEW S, 0 \in S, \A n \in Nat : n \in S => n + 1 \in S
  PROVE  \A n \in Nat : n \in S
<1> DEFINE T == Nat \ S
<1> SUFFICES ASSUME T # {} PROVE FALSE
  OBVIOUS
<1>1. PICK n \in T : \A m \in T : n <= m
  <2>1. T \in SUBSET Nat
    OBVIOUS
  <2> HIDE DEF T
  <2> QED
    BY <2>1, LeastMember
<1>2. n # 0 /\ n - 1 \in Nat /\ n - 1 \notin T
  BY <1>1
<1> QED
  BY <1>1, <1>2

\* A table that starts with a and goes on with what F makes of the place and
\* the entry before: there is one of every length.
IsTable(f, n, a, F) == f = [k \in 0 .. n |-> IF k = 0 THEN a ELSE F[<<k - 1, f[k - 1]>>]]

LEMMA TablesExist ==
  ASSUME NEW S, NEW a \in S, NEW F \in [Nat \X S -> S]
  PROVE  \A n \in Nat : \E f \in [0 .. n -> S] : IsTable(f, n, a, F)
<1> DEFINE T == {n \in Nat : \E f \in [0 .. n -> S] : IsTable(f, n, a, F)}
<1>1. 0 \in T
  <2>1. PICK f : f = [k \in 0 .. 0 |-> a]
    OBVIOUS
  <2>2. f = [k \in 0 .. 0 |-> IF k = 0 THEN a ELSE F[<<k - 1, f[k - 1]>>]]
    BY <2>1
  <2>3. f \in [0 .. 0 -> S]
    BY <2>1
  <2> QED
    BY <2>2, <2>3 DEF IsTable
<1>2. ASSUME NEW n \in Nat, n \in T  PROVE n + 1 \in T
  <2>1. PICK f \in [0 .. n -> S] : IsTable(f, n, a, F)
    BY <1>2
  <2>2. PICK z, m : z = F[<<n, f[n]>>] /\ m = n + 1
    OBVIOUS
  <2>3. z \in S
    BY <2>1, <2>2
  <2>4. PICK g : g = [k \in 0 .. m |-> IF k = m THEN z ELSE f[k]]
    OBVIOUS
  <2>5. ASSUME NEW k \in 0 .. m
        PROVE  g[k] \in S /\ g[k] = IF k = 0 THEN a ELSE F[<<k - 1, g[k - 1]>>]
    <3>1. \A j \in 0 .. n : f[j] = IF j = 0 THEN a ELSE F[<<j - 1, f[j - 1]>>]
      BY <2>1 DEF IsTable
    <3>2. \A j \in 0 .. n : g[j] = f[j] /\ f[j] \in S
      BY <2>1, <2>2, <2>4
    <3>3. CASE k = m
      <4>1. g[k] = z /\ k # 0 /\ k - 1 = n /\ n \in 0 .. n
        BY <2>2, <2>4, <3>3
      <4> QED
        BY <2>2, <2>3, <3>2, <4>1
    <3>4. CASE k # m /\ k # 0
      <4>1. k \in 0 .. n /\ k - 1 \in 0 .. n
        BY <2>2, <3>4
      <4> QED
        BY <3>1, <3>2, <3>4, <4>1
    <3>5. CASE k = 0 /\ k # m
      <4>1. k \in 0 .. n
        BY <3>5
      <4> QED
        BY <3>1, <3>2, <3>5, <4>1
    <3> QED
      BY <3>3, <3>4, <3>5
  <2>6. IsTable(g, m, a, F)
    <3>1. g = [k \in 0 .. m |-> IF k = 0 THEN a ELSE F[<<k - 1, g[k - 1]>>]]
      BY <2>4, <2>5
    <3> QED
      BY <3>1 DEF IsTable
  <2>7. g \in [0 .. m -> S] /\ m \in Nat
    BY <2>2, <2>4, <2>5
  <2> QED
    BY <2>2, <2>6, <2>7
<1> HIDE DEF T
<1>3. \A n \in Nat : n \in T
  BY <1>1, <1>2, Induction
<1> QED
  BY <1>3 DEF T

LEMMA EntriesIn ==
  ASSUME NEW S, NEW f, NEW n \in Nat, f[0] \in S,
         \A k \in 1 .. n : f[k - 1] \in S => f[k] \in S
  PROVE  \A k \in 0 .. n : f[k] \in S
<1> DEFINE T == {k \in Nat : k <= n => f[k] \in S}
<1>1. 0 \in T
  OBVIOUS
<1>2. ASSUME NEW k \in Nat, k \in T  PROVE k + 1 \in T
  <2>1. SUFFICES ASSUME k + 1 <= n  PROVE f[k + 1] \in S
    OBVIOUS
  <2>2. PICK i : i = k + 1
    OBVIOUS
  <2>3. i \in 1 .. n /\ i - 1 = k /\ f[k] \in S
    BY <1>2, <2>1, <2>2
  <2> QED
    BY <2>2, <2>3
<1> HIDE DEF T
<1>3. \A k \in Nat : k \in T
  BY <1>1, <1>2, Induction
<1> QED
  BY <1>3 DEF T

-----------------------------------------------------------------------------
(* Sequences, whatever their cells.                                        *)

Cells(s) == {s[k] : k \in 1 .. Len(s)}
Sequence(s) == s \in Seq(Cells(s))

\* A sequence over some set is one over its own cells, and a function.
LEMMA SequenceOver ==
  ASSUME NEW S, NEW s \in Seq(S)
  PROVE  Sequence(s)
<1>1. Len(s) \in Nat /\ s \in [1 .. Len(s) -> S]
  BY LenProperties
<1>2. s \in [1 .. Len(s) -> Cells(s)]
  BY <1>1 DEF Cells
<1> QED
  BY <1>1, <1>2, SeqDef DEF Sequence

LEMMA SequenceShape ==
  ASSUME NEW s, Sequence(s)
  PROVE  Len(s) \in Nat /\ DOMAIN s = 1 .. Len(s) /\ s = [k \in 1 .. Len(s) |-> s[k]]
<1>1. Len(s) \in Nat /\ s \in [1 .. Len(s) -> Cells(s)] /\ DOMAIN s = 1 .. Len(s)
  BY LenProperties DEF Sequence
<1> QED
  BY <1>1

\* A function on 1 .. n is a sequence of length n.
LEMMA SequenceOfFunction ==
  ASSUME NEW n \in Nat, NEW f, f = [k \in 1 .. n |-> f[k]]
  PROVE  Sequence(f) /\ Len(f) = n
<1> DEFINE S == {f[k] : k \in 1 .. n}
<1>1. f \in [1 .. n -> S]
  OBVIOUS
<1>2. f \in Seq(S)
  BY <1>1, SeqDef
<1> HIDE DEF S
<1>3. Len(f) \in Nat /\ DOMAIN f = 1 .. Len(f) /\ DOMAIN f = 1 .. n
  BY <1>1, <1>2, LenProperties
<1>4. Len(f) = n
  BY <1>3
<1> QED
  BY <1>2, <1>4, SequenceOver

\* Sequences are equal when their lengths and their cells are.
LEMMA SameCells ==
  ASSUME NEW s, NEW t, Sequence(s), Sequence(t), Len(s) = Len(t),
         \A k \in 1 .. Len(s) : s[k] = t[k]
  PROVE  s = t
  BY SequenceShape

\* The cells of a concatenation.
IsJoin(c, s, t) ==
  /\ Sequence(c) /\ Len(c) = Len(s) + Len(t)
  /\ \A k \in 1 .. Len(c) : c[k] = IF k <= Len(s) THEN s[k] ELSE t[k - Len(s)]

LEMMA Joined ==
  ASSUME NEW s, NEW t, Sequence(s), Sequence(t)
  PROVE  IsJoin(s \o t, s, t)
<1> DEFINE S == Cells(s) \cup Cells(t)
<1>1. s \in Seq(S) /\ t \in Seq(S)
  <2>1. Cells(s) \subseteq S /\ Cells(t) \subseteq S
    OBVIOUS
  <2> QED
    BY <2>1, SeqMonotonic DEF Sequence
<1> HIDE DEF S
<1>2. /\ s \o t \in Seq(S)
      /\ Len(s \o t) = Len(s) + Len(t)
      /\ \A k \in 1 .. Len(s) + Len(t) : (s \o t)[k] =
            IF k <= Len(s) THEN s[k] ELSE t[k - Len(s)]
  BY <1>1, ConcatProperties
<1>3. PICK c : c = s \o t
  OBVIOUS
<1>4. /\ c \in Seq(S) /\ Len(c) = Len(s) + Len(t)
      /\ \A k \in 1 .. Len(s) + Len(t) :
           c[k] = IF k <= Len(s) THEN s[k] ELSE t[k - Len(s)]
  BY <1>2, <1>3
<1>5. IsJoin(c, s, t)
  BY <1>4, SequenceOver DEF IsJoin
<1> QED
  BY <1>3, <1>5

LEMMA JoinedTwice ==
  ASSUME NEW r, NEW s, NEW t, Sequence(r), Sequence(s), Sequence(t)
  PROVE  (r \o s) \o t = r \o (s \o t)
<1> DEFINE S == Cells(r) \cup Cells(s) \cup Cells(t)
<1>1. Cells(r) \subseteq S /\ Cells(s) \subseteq S /\ Cells(t) \subseteq S
  OBVIOUS
<1>2. r \in Seq(S) /\ s \in Seq(S) /\ t \in Seq(S)
  BY <1>1, SeqMonotonic DEF Sequence
<1> HIDE DEF S
<1> QED
  BY <1>2, ConcatAssociative

\* The cells of a part.
IsPart(c, s, i, j) ==
  /\ Sequence(c) /\ Len(c) = IF i <= j THEN j - i + 1 ELSE 0
  /\ \A k \in 1 .. Len(c) : c[k] = s[i + k - 1]

LEMMA PartOf ==
  ASSUME NEW s, Sequence(s), NEW i \in Nat \ {0}, NEW j \in Nat, j <= Len(s)
  PROVE  IsPart(SubSeq(s, i, j), s, i, j)
<1>1. Len(s) \in Nat
  BY SequenceShape
<1>2. \A k \in i .. j : s[k] \in Cells(s)
  BY <1>1 DEF Cells
<1>3. PICK c : c = SubSeq(s, i, j)
  OBVIOUS
<1>4. /\ c \in Seq(Cells(s))
      /\ Len(c) = IF i <= j THEN j - i + 1 ELSE 0
      /\ \A k \in 1 .. j - i + 1 : c[k] = s[i + k - 1]
  <2>1. /\ SubSeq(s, i, j) \in Seq(Cells(s))
        /\ Len(SubSeq(s, i, j)) = IF i <= j THEN j - i + 1 ELSE 0
        /\ \A k \in 1 .. j - i + 1 : SubSeq(s, i, j)[k] = s[i + k - 1]
    BY <1>2, SubSeqProperties
  <2> QED
    BY <1>3, <2>1, Zenon
<1>5. Sequence(c)
  BY <1>4, SequenceOver
<1>6. \A k \in 1 .. Len(c) : c[k] = s[i + k - 1]
  BY <1>4
<1>7. IsPart(c, s, i, j)
  BY <1>4, <1>5, <1>6 DEF IsPart
<1> QED
  BY <1>3, <1>7

LEMMA PrefixOf ==
  ASSUME NEW s, Sequence(s), NEW n \in Nat, n <= Len(s), NEW c, c = SubSeq(s, 1, n)
  PROVE  Sequence(c) /\ Len(c) = n /\ \A k \in 1 .. n : c[k] = s[k]
<1>1. PICK i : i = 1
  OBVIOUS
<1>2. IsPart(c, s, i, n)
  BY <1>1, PartOf
<1>3. /\ Sequence(c) /\ Len(c) = IF i <= n THEN n - i + 1 ELSE 0
      /\ \A k \in 1 .. Len(c) : c[k] = s[i + k - 1]
  BY <1>2 DEF IsPart
<1>4. Len(c) = n
  BY <1>1, <1>3
<1>5. ASSUME NEW k \in 1 .. n PROVE c[k] = s[k]
  <2>1. i + k - 1 = k
    BY <1>1
  <2> QED
    BY <1>3, <1>4, <2>1
<1> QED
  BY <1>3, <1>4, <1>5

\* The cells of a buffer that was written over.
IsOver(c, b, at, d) ==
  /\ Sequence(c) /\ Len(c) = BlockLength
  /\ \A k \in 1 .. BlockLength :
        c[k] = IF k > at /\ k <= at + Len(d) THEN d[k - at] ELSE b[k]

LEMMA Overwritten ==
  ASSUME NEW b, NEW at \in Nat, NEW d, Sequence(d)
  PROVE  IsOver(Overwrite(b, at, d), b, at, d)
<1>1. PICK c : c = Overwrite(b, at, d)
  OBVIOUS
<1>2. DOMAIN d = 1 .. Len(d) /\ Len(d) \in Nat /\ BlockLength \in Nat
  BY SequenceShape, BlockAssumption
<1>3. /\ c = [k \in 1 .. BlockLength |-> c[k]]
      /\ \A k \in 1 .. BlockLength :
            c[k] = IF k - at \in 1 .. Len(d) THEN d[k - at] ELSE b[k]
  <2> DEFINE value(k) == IF k - at \in 1 .. Len(d) THEN d[k - at] ELSE b[k]
  <2>1. c = [k \in 1 .. BlockLength |-> value(k)]
    BY <1>1, <1>2 DEF Overwrite
  <2> HIDE DEF value
  <2>2. /\ c = [k \in 1 .. BlockLength |-> c[k]]
        /\ \A k \in 1 .. BlockLength : c[k] = value(k)
    BY <2>1
  <2> QED
    BY <2>2 DEF value
<1>4. Sequence(c) /\ Len(c) = BlockLength
  BY <1>2, <1>3, SequenceOfFunction
<1>5. IsOver(c, b, at, d)
  BY <1>2, <1>3, <1>4 DEF IsOver
<1> QED
  BY <1>1, <1>5

-----------------------------------------------------------------------------
(* Updates.                                                                *)

Context(c) ==
  /\ c = [state |-> c.state, buffer |-> c.buffer, lo |-> c.lo, hi |-> c.hi]
  /\ Sequence(c.state)

\* What is used of a block, and how it grows within the block.
LEMMA UsedOf ==
  ASSUME NEW l \in Nat, NEW u, u = l % BlockLength
  PROVE  /\ u \in 0 .. (BlockLength - 1) /\ u <= l
         /\ \A n \in Nat : u + n < BlockLength => (l + n) % BlockLength = u + n
<1>1. PICK d : d = l \div BlockLength
  OBVIOUS
<1>2. /\ BlockLength \in Nat \ {0} /\ l \in Int
      /\ d \in Nat /\ u \in 0 .. (BlockLength - 1) /\ l = BlockLength * d + u
  <2>1. BlockLength \in Nat \ {0} /\ l \in Int
    BY BlockAssumption
  <2> QED
    BY <1>1, <2>1, Split
<1>3. u <= l
  <2>1. BlockLength * d \in Nat
    BY <1>2
  <2> QED
    BY <1>2, <2>1
<1>4. ASSUME NEW n \in Nat, u + n < BlockLength
      PROVE  (l + n) % BlockLength = u + n
  <2>1. /\ l + n = BlockLength * d + (u + n) /\ l + n \in Int /\ d \in Int
        /\ u + n \in 0 .. (BlockLength - 1)
    BY <1>2, <1>4
  <2> QED
    BY <1>2, <2>1, Divided
<1> QED
  BY <1>2, <1>3, <1>4

\* What is used after the block was filled and whole blocks were taken.
Takes(l, n, u, head, whole) ==
  /\ u = l % BlockLength
  /\ head = (IF u = 0 THEN 0 ELSE BlockLength - u) /\ head <= n
  /\ whole = BlockLength * ((n - head) \div BlockLength)

LEMMA UsedAfter ==
  ASSUME NEW l \in Nat, NEW n \in Nat, NEW u, NEW head, NEW whole,
         Takes(l, n, u, head, whole)
  PROVE  /\ head \in Nat /\ whole \in Nat /\ head + whole <= n
         /\ n - (head + whole) < BlockLength
         /\ (l + n) % BlockLength = n - (head + whole)
<1>0. /\ u = l % BlockLength
      /\ head = (IF u = 0 THEN 0 ELSE BlockLength - u) /\ head <= n
      /\ whole = BlockLength * ((n - head) \div BlockLength)
  BY DEF Takes
<1>1. PICK d : d = l \div BlockLength
  OBVIOUS
<1>2. /\ BlockLength \in Nat \ {0} /\ l \in Int
      /\ d \in Nat /\ u \in 0 .. (BlockLength - 1) /\ l = BlockLength * d + u
  <2>1. BlockLength \in Nat \ {0} /\ l \in Int
    BY BlockAssumption
  <2> QED
    BY <1>0, <1>1, <2>1, Split
<1>3. head \in Nat /\ n - head \in Nat
  BY <1>0, <1>2
<1>4. PICK q, r : q = (n - head) \div BlockLength /\ r = (n - head) % BlockLength
  OBVIOUS
<1>5. /\ q \in Nat /\ r \in 0 .. (BlockLength - 1)
      /\ n - head = BlockLength * q + r
  <2>1. n - head \in Int
    BY <1>3
  <2> QED
    BY <1>2, <1>3, <1>4, <2>1, Split
<1>6. whole = BlockLength * q /\ whole \in Nat
  <2>1. BlockLength * q \in Nat
    BY <1>2, <1>5
  <2> QED
    BY <1>0, <1>4, <2>1
<1>7. n = head + whole + r
  BY <1>3, <1>5, <1>6
<1>8. (l + n) % BlockLength = r
  <2>1. CASE u = 0
    <3>1. BlockLength * (d + q) = BlockLength * d + BlockLength * q
      BY <1>2, <1>5
    <3>2. /\ l + n = BlockLength * (d + q) + r /\ d + q \in Int /\ l + n \in Int
      BY <1>0, <1>2, <1>5, <1>6, <1>7, <2>1, <3>1
    <3> QED
      BY <1>2, <1>5, <3>2, Divided
  <2>2. CASE u # 0
    <3>1. BlockLength * (d + q + 1) = BlockLength * d + BlockLength * q + BlockLength
      BY <1>2, <1>5
    <3>2. l + n = BlockLength * d + BlockLength * q + BlockLength + r
      <4>1. /\ head = BlockLength - u /\ l = BlockLength * d + u
            /\ n = head + BlockLength * q + r
        BY <1>0, <1>2, <1>6, <1>7, <2>2
      <4>2. BlockLength * d \in Int /\ BlockLength * q \in Int
        BY <1>2, <1>5
      <4>3. \A x, y \in Int :
              /\ l = x + u /\ n = (BlockLength - u) + y + r
              => l + n = x + y + BlockLength + r
        BY <1>2, <1>5
      <4> QED
        BY <4>1, <4>2, <4>3
    <3>3. l + n = BlockLength * (d + q + 1) + r /\ d + q + 1 \in Int /\ l + n \in Int
      BY <1>2, <1>5, <3>1, <3>2
    <3> QED
      BY <1>2, <1>5, <3>3, Divided
  <2> QED
    BY <2>1, <2>2
<1>9. BlockLength \in Nat /\ r \in Nat /\ r < BlockLength
  BY <1>2, <1>5
<1>10. /\ head + whole <= n /\ n - (head + whole) = r
  BY <1>3, <1>6, <1>7, <1>9
<1> QED
  BY <1>3, <1>6, <1>8, <1>9, <1>10

\* The message is in the state but for its last u cells, which begin the
\* buffer.
HoldsBut(c, m, u) ==
  /\ Len(c.state) = Len(m) - u
  /\ \A k \in 1 .. Len(m) : m[k] = IF k <= Len(m) - u THEN c.state[k]
                                   ELSE c.buffer[k - (Len(m) - u)]

LEMMA HoldsButUsed ==
  ASSUME NEW c, NEW m
  PROVE  ContextHolds(c, m) <=> HoldsBut(c, m, Len(m) % BlockLength)
  BY DEF ContextHolds, HoldsBut, Cell

\* Data that does not complete the block goes behind what the buffer has.
LEMMA PartialBlock ==
  ASSUME NEW ctx, NEW m, Sequence(m), NEW data, Sequence(data),
         NEW used \in Nat, used <= Len(m), used + Len(data) < BlockLength,
         HoldsBut(ctx, m, used),
         NEW all, IsJoin(all, m, data),
         NEW b, IsOver(b, ctx.buffer, used, data),
         NEW after, after = [state |-> ctx.state, buffer |-> b,
                             lo |-> ctx.lo, hi |-> ctx.hi]
  PROVE  HoldsBut(after, all, used + Len(data))
<1>1. BlockLength \in Nat \ {0} /\ Len(m) \in Nat /\ Len(data) \in Nat
  BY BlockAssumption, SequenceShape
<1>2. Len(all) = Len(m) + Len(data)
      /\ \A k \in 1 .. Len(all) :
            all[k] = IF k <= Len(m) THEN m[k] ELSE data[k - Len(m)]
  BY DEF IsJoin
<1>3. \A k \in 1 .. BlockLength :
         b[k] = IF k > used /\ k <= used + Len(data) THEN data[k - used]
                ELSE ctx.buffer[k]
  BY DEF IsOver
<1>4. Len(ctx.state) = Len(m) - used
      /\ \A k \in 1 .. Len(m) : m[k] = IF k <= Len(m) - used THEN ctx.state[k]
                                       ELSE ctx.buffer[k - (Len(m) - used)]
  BY DEF HoldsBut
<1>5. ASSUME NEW k \in 1 .. Len(all)
      PROVE  all[k] = IF k <= Len(m) - used THEN ctx.state[k]
                      ELSE b[k - (Len(m) - used)]
  <2>1. CASE k <= Len(m) - used
    <3>1. k \in 1 .. Len(m)
      BY <1>1, <1>2, <2>1
    <3>2. all[k] = m[k]
      BY <1>1, <1>2, <3>1
    <3>3. m[k] = ctx.state[k]
      BY <1>4, <2>1, <3>1
    <3> QED
      BY <2>1, <3>2, <3>3
  <2>2. CASE k > Len(m) - used
    <3>1. PICK j : j = k - (Len(m) - used)
      OBVIOUS
    <3>2. j \in 1 .. BlockLength /\ j <= used + Len(data) /\ k = j + (Len(m) - used)
      BY <1>1, <1>2, <2>2, <3>1
    <3>3. CASE k <= Len(m)
      <4>1. k \in 1 .. Len(m) /\ j <= used /\ ~ (k <= Len(m) - used)
        BY <1>1, <2>2, <3>1, <3>2, <3>3
      <4>2. all[k] = m[k]
        BY <1>2, <3>3
      <4>3. m[k] = ctx.buffer[j]
        BY <1>4, <3>1, <4>1
      <4>4. b[j] = ctx.buffer[j]
        <5>1. ~ (j > used)
          BY <3>2, <4>1
        <5> QED
          BY <1>3, <3>2, <5>1
      <4> QED
        BY <3>1, <4>1, <4>2, <4>3, <4>4
    <3>4. CASE k > Len(m)
      <4>1. b[j] = data[j - used] /\ j - used = k - Len(m)
        BY <1>1, <1>3, <3>2, <3>4
      <4>2. all[k] = data[k - Len(m)]
        BY <1>1, <1>2, <3>4
      <4>3. ~ (k <= Len(m) - used)
        BY <1>1, <2>2
      <4> QED
        BY <3>1, <4>1, <4>2, <4>3
    <3> QED
      BY <1>1, <3>3, <3>4
  <2> QED
    BY <1>1, <2>1, <2>2
<1>6. Len(all) - (used + Len(data)) = Len(m) - used
  BY <1>1, <1>2
<1> QED
  BY <1>4, <1>5, <1>6 DEF HoldsBut

\* n cells of which used are of a buffer and the others of the data.
FillsWith(s, n, old, used, data) ==
  /\ Len(s) = n
  /\ \A k \in 1 .. n : s[k] = IF k <= used THEN old[k] ELSE data[k - used]

\* What is compressed when data completes the block: the begun block, and the
\* whole blocks behind it.
LEMMA FilledBlocks ==
  ASSUME NEW used \in Nat, NEW head \in Nat, NEW whole \in Nat, NEW old,
         NEW data, Sequence(data), head + whole <= Len(data),
         NEW filled, FillsWith(filled, used + head, old, used, data),
         NEW mid, IsPart(mid, data, head + 1, head + whole),
         NEW blocks, IsJoin(blocks, filled, mid)
  PROVE  FillsWith(blocks, used + head + whole, old, used, data)
<1>0. /\ Len(filled) = used + head
      /\ \A k \in 1 .. used + head :
            filled[k] = IF k <= used THEN old[k] ELSE data[k - used]
  BY DEF FillsWith
<1>1. /\ Sequence(mid) /\ Len(mid) = IF head + 1 <= head + whole
                                     THEN head + whole - (head + 1) + 1 ELSE 0
      /\ \A k \in 1 .. Len(mid) : mid[k] = data[head + 1 + k - 1]
  BY DEF IsPart
<1>2. Len(mid) = whole
  BY <1>1
<1>3. Len(blocks) = used + head + whole
      /\ \A k \in 1 .. Len(blocks) :
           blocks[k] = IF k <= used + head THEN filled[k] ELSE mid[k - (used + head)]
  BY <1>0, <1>2 DEF IsJoin
<1>4. ASSUME NEW k \in 1 .. used + head + whole
      PROVE  blocks[k] = IF k <= used THEN old[k] ELSE data[k - used]
  <2>1. CASE k <= used + head
    BY <1>0, <1>3, <2>1
  <2>2. CASE k > used + head
    <3>1. PICK j : j = k - (used + head)
      OBVIOUS
    <3>2. j \in 1 .. whole /\ head + 1 + j - 1 = k - used /\ ~ (k <= used)
          /\ ~ (k <= used + head)
      BY <2>2, <3>1
    <3>3. blocks[k] = mid[j]
      BY <1>3, <3>1, <3>2
    <3>4. mid[j] = data[k - used]
      BY <1>1, <1>2, <3>2
    <3> QED
      BY <3>2, <3>3, <3>4
  <2> QED
    BY <2>1, <2>2
<1> QED
  BY <1>3, <1>4 DEF FillsWith

\* Then the state has those blocks too, and the buffer begins with the rest.
Compresses(ctx, m, data, used, taken, all, blocks, state, rest, old, buffer, after) ==
  /\ Sequence(ctx.state) /\ Sequence(m) /\ Sequence(data)
  /\ used \in Nat /\ used <= Len(m) /\ HoldsBut(ctx, m, used)
  /\ taken \in Nat /\ taken <= Len(data) /\ Len(data) - taken < BlockLength
  /\ IsJoin(all, m, data)
  /\ FillsWith(blocks, used + taken, ctx.buffer, used, data)
  /\ IsJoin(state, ctx.state, blocks)
  /\ IsPart(rest, data, taken + 1, Len(data))
  /\ IsOver(buffer, old, 0, rest)
  /\ after = [state |-> state, buffer |-> buffer, lo |-> ctx.lo, hi |-> ctx.hi]

LEMMA WholeBlocks ==
  ASSUME NEW ctx, NEW m, NEW data, NEW used, NEW taken, NEW all, NEW blocks, NEW state,
         NEW rest, NEW old, NEW buffer, NEW after,
         Compresses(ctx, m, data, used, taken, all, blocks, state, rest, old, buffer, after)
  PROVE  HoldsBut(after, all, Len(data) - taken)
<1> USE DEF Compresses
<1>0. /\ Len(blocks) = used + taken
      /\ \A k \in 1 .. used + taken :
            blocks[k] = IF k <= used THEN ctx.buffer[k] ELSE data[k - used]
  BY DEF FillsWith
<1>1. BlockLength \in Nat \ {0} /\ Len(m) \in Nat /\ Len(data) \in Nat
  BY BlockAssumption, SequenceShape
<1>2. PICK n, l : n = Len(data) /\ l = Len(m)
  OBVIOUS
<1>3. Len(all) = l + n
      /\ \A k \in 1 .. Len(all) : all[k] = IF k <= l THEN m[k] ELSE data[k - l]
  BY <1>2 DEF IsJoin
<1>4. Len(ctx.state) = l - used
      /\ \A k \in 1 .. l : m[k] = IF k <= l - used THEN ctx.state[k]
                                  ELSE ctx.buffer[k - (l - used)]
  BY <1>2 DEF HoldsBut
<1>5. Len(state) = l + taken
      /\ \A k \in 1 .. Len(state) :
           state[k] = IF k <= l - used THEN ctx.state[k] ELSE blocks[k - (l - used)]
  <2>1. Len(state) = Len(ctx.state) + Len(blocks)
        /\ \A k \in 1 .. Len(state) :
             state[k] = IF k <= Len(ctx.state) THEN ctx.state[k]
                        ELSE blocks[k - Len(ctx.state)]
    BY DEF IsJoin
  <2> QED
    BY <1>0, <1>1, <1>2, <1>4, <2>1
<1>6. Len(rest) = n - taken /\ \A k \in 1 .. Len(rest) : rest[k] = data[taken + k]
  <2>1. Len(rest) = (IF taken + 1 <= n THEN n - (taken + 1) + 1 ELSE 0)
        /\ \A k \in 1 .. Len(rest) : rest[k] = data[taken + 1 + k - 1]
    BY <1>2 DEF IsPart
  <2>2. Len(rest) = n - taken
    BY <1>1, <1>2, <2>1
  <2>3. ASSUME NEW k \in 1 .. Len(rest) PROVE rest[k] = data[taken + k]
    <3>1. taken + 1 + k - 1 = taken + k
      BY <1>1, <1>2, <2>2
    <3> QED
      BY <2>1, <3>1
  <2> QED
    BY <2>2, <2>3
<1>7. \A k \in 1 .. BlockLength :
         buffer[k] = IF k > 0 /\ k <= 0 + Len(rest) THEN rest[k - 0] ELSE old[k]
  BY DEF IsOver
<1>8. ASSUME NEW k \in 1 .. Len(all), k <= l + taken
      PROVE  all[k] = state[k]
  <2>1. k \in 1 .. Len(state)
    BY <1>5, <1>8
  <2>2. CASE k <= l - used
    <3>1. k \in 1 .. l
      BY <1>1, <1>2, <2>2
    <3> QED
      <4>1. all[k] = m[k]
        BY <1>3, <3>1
      <4>2. m[k] = ctx.state[k]
        BY <1>4, <2>2, <3>1
      <4>3. state[k] = ctx.state[k]
        BY <1>5, <2>1, <2>2
      <4> QED
        BY <4>1, <4>2, <4>3
  <2>3. CASE k > l - used
    <3>1. PICK j : j = k - (l - used)
      OBVIOUS
    <3>2. j \in 1 .. used + taken /\ ~ (k <= l - used)
      BY <1>1, <1>2, <1>8, <2>3, <3>1, SMTT(20)
    <3>3. state[k] = blocks[j]
      BY <1>5, <2>1, <3>1, <3>2
    <3>4. CASE k <= l
      <4>1. k \in 1 .. l /\ j <= used
        BY <1>1, <1>2, <3>1, <3>4
      <4>2. all[k] = ctx.buffer[j]
        <5>1. all[k] = m[k]
          BY <1>1, <1>2, <1>3, <4>1
        <5>2. m[k] = ctx.buffer[j]
          BY <1>4, <3>1, <3>2, <4>1
        <5> QED
          BY <5>1, <5>2
      <4> QED
        BY <1>0, <3>2, <3>3, <4>1, <4>2
    <3>5. CASE k > l
      <4>1. ~ (j <= used) /\ ~ (k <= l) /\ j - used = k - l
        BY <1>1, <1>2, <3>1, <3>2, <3>5
      <4>2. all[k] = data[j - used]
        BY <1>3, <4>1
      <4> QED
        BY <1>0, <3>2, <3>3, <4>1, <4>2
    <3> QED
      BY <1>1, <1>2, <3>4, <3>5
  <2> QED
    BY <1>1, <1>2, <2>2, <2>3
<1>9. ASSUME NEW k \in 1 .. Len(all), k > l + taken
      PROVE  all[k] = buffer[k - (l + taken)]
  <2>1. PICK j : j = k - (l + taken)
    OBVIOUS
  <2>2. j \in 1 .. n - taken /\ j \in 1 .. BlockLength /\ taken + j = k - l /\ ~ (k <= l)
        /\ j - 0 = j /\ 0 + Len(rest) = n - taken
    BY <1>1, <1>2, <1>3, <1>6, <1>9, <2>1
  <2>3. buffer[j] = rest[j]
    BY <1>7, <2>2
  <2>4. rest[j] = data[k - l]
    BY <1>6, <2>2
  <2>5. all[k] = data[k - l]
    BY <1>3, <2>2
  <2> QED
    BY <2>1, <2>3, <2>4, <2>5
<1>10. Len(all) - (n - taken) = l + taken
  BY <1>1, <1>2, <1>3
<1>11. \A k \in 1 .. Len(all) : all[k] = IF k <= l + taken THEN state[k]
                                         ELSE buffer[k - (l + taken)]
  BY <1>1, <1>2, <1>3, <1>8, <1>9
<1>12. after.state = state /\ after.buffer = buffer
  OBVIOUS
<1> QED
  BY <1>2, <1>5, <1>10, <1>11, <1>12 DEF HoldsBut

\* So an update, of any length and at any fill of the block, appends its data
\* to the message that the context holds.
LEMMA AbsorbHolds ==
  ASSUME NEW ctx, Context(ctx), NEW m, Sequence(m), NEW data, Sequence(data),
         ContextHolds(ctx, m), NEW used, used = Len(m) % BlockLength,
         NEW after, after = Absorb(ctx, used, data)
  PROVE  /\ Context(after) /\ Sequence(m \o data) /\ ContextHolds(after, m \o data)
         /\ Len(m \o data) = Len(m) + Len(data)
         /\ after.lo = ctx.lo /\ after.hi = ctx.hi
<1>1. BlockLength \in Nat \ {0} /\ Len(m) \in Nat /\ Len(data) \in Nat
      /\ Sequence(ctx.state)
  BY BlockAssumption, SequenceShape DEF Context
<1>2. /\ used \in 0 .. (BlockLength - 1) /\ used <= Len(m)
      /\ \A n \in Nat : used + n < BlockLength => (Len(m) + n) % BlockLength = used + n
  BY <1>1, UsedOf
<1>3. HoldsBut(ctx, m, used)
  BY HoldsButUsed
<1>4. PICK all : all = m \o data
  OBVIOUS
<1>5. IsJoin(all, m, data)
  BY <1>4, Joined
<1>6. Sequence(all) /\ Len(all) = Len(m) + Len(data)
  BY <1>5 DEF IsJoin
<1>7. PICK head : head = IF used = 0 THEN 0 ELSE BlockLength - used
  OBVIOUS
<1>8. PICK whole : whole = BlockLength * ((Len(data) - head) \div BlockLength)
  OBVIOUS
<1>9. PICK filled : filled = IF used = 0 THEN << >>
                             ELSE Overwrite(ctx.buffer, used, SubSeq(data, 1, head))
  OBVIOUS
<1>10. after =
         IF Len(data) < head
         THEN [ctx EXCEPT !.buffer = Overwrite(@, used, data)]
         ELSE [ctx EXCEPT
                 !.state = Transform(@, filled \o SubSeq(data, head + 1, head + whole)),
                 !.buffer = Overwrite(IF head + whole = 0 THEN @ ELSE StaleBytes, 0,
                                      SubSeq(data, head + whole + 1, Len(data)))]
  BY <1>7, <1>8, <1>9 DEF Absorb
<1>11. head \in Nat /\ head <= BlockLength /\ (used # 0 => used + head = BlockLength)
       /\ (used = 0 => head = 0)
  BY <1>1, <1>2, <1>7
<1>12. ASSUME Context(after), after.lo = ctx.lo, after.hi = ctx.hi,
              HoldsBut(after, all, Len(all) % BlockLength)
       PROVE  /\ Context(after) /\ Sequence(m \o data) /\ ContextHolds(after, m \o data)
              /\ Len(m \o data) = Len(m) + Len(data)
              /\ after.lo = ctx.lo /\ after.hi = ctx.hi
  BY <1>4, <1>6, <1>12, HoldsButUsed
<1>13. CASE Len(data) < head
  <2>1. used + Len(data) < BlockLength /\ used \in Nat
    BY <1>1, <1>2, <1>11, <1>13
  <2>2. PICK b : b = Overwrite(ctx.buffer, used, data)
    OBVIOUS
  <2>3. IsOver(b, ctx.buffer, used, data)
    BY <2>1, <2>2, Overwritten
  <2>4. after = [state |-> ctx.state, buffer |-> b, lo |-> ctx.lo, hi |-> ctx.hi]
    BY <1>10, <1>13, <2>2 DEF Context
  <2>5. HoldsBut(after, all, used + Len(data))
    BY <1>2, <1>3, <1>5, <2>1, <2>3, <2>4, PartialBlock
  <2>6. Len(all) % BlockLength = used + Len(data)
    BY <1>1, <1>2, <1>6, <2>1
  <2>7. Context(after) /\ after.lo = ctx.lo /\ after.hi = ctx.hi
    BY <1>1, <2>4 DEF Context
  <2> QED
    BY <1>12, <2>5, <2>6, <2>7
<1>14. CASE Len(data) >= head
  <2>1. PICK n, taken : n = Len(data) /\ taken = head + whole
    OBVIOUS
  <2>2. /\ head \in Nat /\ whole \in Nat /\ taken \in Nat /\ taken <= n
        /\ n - taken < BlockLength /\ n \in Nat
        /\ (Len(m) + n) % BlockLength = n - taken
    <3>1. PICK l : l = Len(m)
      OBVIOUS
    <3>2. l \in Nat /\ n \in Nat /\ Takes(l, n, used, head, whole)
      BY <1>1, <1>7, <1>8, <1>14, <2>1, <3>1 DEF Takes
    <3>3. /\ head \in Nat /\ whole \in Nat /\ head + whole <= n
          /\ n - (head + whole) < BlockLength
          /\ (l + n) % BlockLength = n - (head + whole)
      BY <3>2, UsedAfter
    <3> QED
      BY <2>1, <3>1, <3>2, <3>3
  <2>3. PICK old : old = IF head + whole = 0 THEN ctx.buffer ELSE StaleBytes
    OBVIOUS
  <2>4. PICK mid, rest : /\ mid = SubSeq(data, head + 1, head + whole)
                         /\ rest = SubSeq(data, taken + 1, n)
    OBVIOUS
  <2>5. PICK blocks : blocks = filled \o mid
    OBVIOUS
  <2>6. PICK state : state = ctx.state \o blocks
    OBVIOUS
  <2>7. PICK buffer : buffer = Overwrite(old, 0, rest)
    OBVIOUS
  <2>8. after = [state |-> state, buffer |-> buffer, lo |-> ctx.lo, hi |-> ctx.hi]
    <3>1. after = [ctx EXCEPT
                 !.state = ctx.state \o (filled \o SubSeq(data, head + 1, head + whole)),
                 !.buffer = Overwrite(IF head + whole = 0 THEN ctx.buffer ELSE StaleBytes, 0,
                                      SubSeq(data, head + whole + 1, Len(data)))]
      BY <1>1, <1>10, <1>11, <1>14 DEF Transform, Context
    <3>2. after = [ctx EXCEPT !.state = state, !.buffer = buffer]
      BY <2>1, <2>3, <2>4, <2>5, <2>6, <2>7, <3>1
    <3> QED
      BY <3>2 DEF Context
  <2>9. IsPart(mid, data, head + 1, taken) /\ IsPart(rest, data, taken + 1, n)
    <3>1. /\ head + 1 \in Nat \ {0} /\ taken + 1 \in Nat \ {0} /\ taken \in Nat
          /\ taken <= Len(data) /\ n <= Len(data) /\ n \in Nat
      BY <2>1, <2>2
    <3>2. IsPart(SubSeq(data, head + 1, taken), data, head + 1, taken)
      BY <3>1, PartOf
    <3>3. IsPart(SubSeq(data, taken + 1, n), data, taken + 1, n)
      BY <3>1, PartOf
    <3> QED
      BY <2>1, <2>4, <3>2, <3>3
  <2>10. Sequence(filled) /\ FillsWith(filled, used + head, ctx.buffer, used, data)
    <3>1. CASE used = 0
      <4>1. filled = << >> /\ Len(filled) = 0 /\ filled \in Seq({})
        BY <1>9, <3>1
      <4>2. Sequence(filled)
        BY <4>1, SequenceOver
      <4> QED
        BY <1>11, <3>1, <4>1, <4>2 DEF FillsWith
    <3>2. CASE used # 0
      <4>1. PICK part : part = SubSeq(data, 1, head)
        OBVIOUS
      <4>2. IsPart(part, data, 1, head)
        BY <1>1, <1>11, <1>14, <4>1, PartOf
      <4>3. /\ Sequence(part) /\ Len(part) = (IF 1 <= head THEN head - 1 + 1 ELSE 0)
            /\ \A k \in 1 .. Len(part) : part[k] = data[1 + k - 1]
        BY <4>2 DEF IsPart
      <4>4. Len(part) = head
        BY <1>11, <4>3
      <4>5. IsOver(filled, ctx.buffer, used, part)
        BY <1>2, <1>9, <3>2, <4>1, <4>3, Overwritten
      <4>6. /\ Sequence(filled) /\ Len(filled) = used + head
            /\ \A k \in 1 .. BlockLength :
                  filled[k] = IF k > used /\ k <= used + head THEN part[k - used]
                              ELSE ctx.buffer[k]
        BY <1>11, <3>2, <4>4, <4>5 DEF IsOver
      <4>7. ASSUME NEW k \in 1 .. used + head
            PROVE  filled[k] = IF k <= used THEN ctx.buffer[k] ELSE data[k - used]
        <5>1. k \in 1 .. BlockLength
          BY <1>11, <3>2
        <5>2. CASE k <= used
          <6>1. ~ (k > used)
            BY <1>2, <5>2
          <6> QED
            BY <4>6, <5>1, <5>2, <6>1
        <5>3. CASE k > used
          <6>1. PICK j : j = k - used
            OBVIOUS
          <6>2. j \in 1 .. head /\ 1 + j - 1 = j /\ ~ (k <= used) /\ k <= used + head
            <7>1. used \in Nat /\ head \in Nat /\ k \in Nat /\ k <= used + head
              BY <1>2, <1>11
            <7> QED
              BY <5>3, <6>1, <7>1
          <6>3. part[j] = data[j]
            BY <4>3, <4>4, <6>2
          <6>4. filled[k] = part[j]
            BY <4>6, <5>1, <5>3, <6>1, <6>2
          <6> QED
            BY <6>1, <6>2, <6>3, <6>4
        <5> QED
          BY <1>2, <5>2, <5>3
      <4> QED
        BY <4>6, <4>7 DEF FillsWith
    <3> QED
      BY <3>1, <3>2
  <2>11. IsJoin(blocks, filled, mid)
    BY <2>5, <2>9, <2>10, Joined DEF IsPart
  <2>12. FillsWith(blocks, used + taken, ctx.buffer, used, data)
    <3>1. used \in Nat /\ head + whole <= Len(data) /\ IsPart(mid, data, head + 1, head + whole)
      BY <1>2, <2>1, <2>2, <2>9
    <3>2. FillsWith(blocks, used + head + whole, ctx.buffer, used, data)
      BY <2>2, <2>10, <2>11, <3>1, FilledBlocks
    <3>3. used + head + whole = used + taken
      BY <2>1, <2>2, <3>1
    <3> QED
      BY <3>2, <3>3
  <2>13. Sequence(rest) /\ Sequence(blocks)
    BY <2>9, <2>11 DEF IsPart, IsJoin
  <2>14. IsJoin(state, ctx.state, blocks)
    BY <1>1, <2>6, <2>13, Joined
  <2>15. IsOver(buffer, old, 0, rest)
    BY <2>7, <2>13, Overwritten
  <2>16. HoldsBut(after, all, Len(data) - taken)
    <3>1. /\ used \in Nat /\ taken <= Len(data) /\ Len(data) - taken < BlockLength
          /\ IsPart(rest, data, taken + 1, Len(data))
      BY <1>2, <2>1, <2>2, <2>9
    <3>2. Compresses(ctx, m, data, used, taken, all, blocks, state, rest, old, buffer, after)
      BY <1>1, <1>2, <1>3, <1>5, <2>2, <2>8, <2>12, <2>14, <2>15, <3>1 DEF Compresses
    <3> QED
      BY ONLY <3>2, WholeBlocks
  <2>17. Len(all) % BlockLength = Len(data) - taken
    BY <1>6, <2>1, <2>2
  <2>18. Context(after) /\ after.lo = ctx.lo /\ after.hi = ctx.hi
    BY <2>8, <2>14 DEF Context, IsJoin
  <2> QED
    BY <1>12, <2>16, <2>17, <2>18
<1> QED
  BY <1>1, <1>11, <1>13, <1>14

-----------------------------------------------------------------------------
(* The counters.                                                           *)

\* A counter of two words counts on, modulo two words.
LEMMA CountAdded ==
  ASSUME NEW ctx, Context(ctx), NEW c \in Nat, Counts(ctx, c), NEW d \in Nat,
         NEW after, after = AddCarry(ctx, d)
  PROVE  /\ Context(after) /\ Counts(after, c + d)
         /\ after.state = ctx.state /\ after.buffer = ctx.buffer
<1>1. WordModulus \in Nat \ {0} /\ c \in Int
  BY WordAssumption
<1>2. PICK h, l : h = c \div WordModulus /\ l = c % WordModulus
  OBVIOUS
<1>3. h \in Int /\ l \in 0 .. (WordModulus - 1) /\ c = WordModulus * h + l
  BY <1>1, <1>2, Split
<1>4. ctx.lo = l /\ ctx.hi = h % WordModulus
  BY <1>2 DEF Counts
<1>5. PICK g : g = (l + d) \div WordModulus
  OBVIOUS
<1>6. g \in Int /\ l + d \in Int
  <2>1. l + d \in Int
    BY <1>1, <1>3
  <2> QED
    BY <1>1, <1>5, <2>1, Split
<1>7. after = [state |-> ctx.state, buffer |-> ctx.buffer,
               lo |-> (l + d) % WordModulus, hi |-> ((h % WordModulus) + g) % WordModulus]
  BY <1>4, <1>5 DEF AddCarry, Context
<1>8. /\ (c + d) % WordModulus = (l + d) % WordModulus
      /\ (c + d) \div WordModulus = g + h
  <2>1. c + d = (l + d) + WordModulus * h
    <3>1. PICK x : x = WordModulus * h
      OBVIOUS
    <3>2. x \in Int
      BY <1>1, <1>3, <3>1
    <3> QED
      BY <1>1, <1>3, <3>1, <3>2
  <2>2. PICK s : s = l + d
    OBVIOUS
  <2>3. s \in Int /\ g = s \div WordModulus
    BY <1>5, <1>6, <2>2
  <2>4. /\ (s + WordModulus * h) % WordModulus = s % WordModulus
        /\ (s + WordModulus * h) \div WordModulus = s \div WordModulus + h
    BY <1>1, <1>3, <2>3, RemainderKept
  <2>5. c + d = s + WordModulus * h
    BY <2>1, <2>2
  <2> QED
    BY <2>2, <2>3, <2>4, <2>5
<1>9. ((h % WordModulus) + g) % WordModulus = (h + g) % WordModulus
  BY <1>1, <1>3, <1>6, RemainderPlus
<1>10. h + g = g + h
  BY <1>3, <1>6
<1>11. Counts(after, c + d)
  BY <1>7, <1>8, <1>9, <1>10 DEF Counts
<1> QED
  BY <1>7, <1>11 DEF Context

\* The bytes in the last block, from the count of bits in the lower word.
LEMMA UsedOfBits ==
  ASSUME NEW n \in Nat, NEW lo, lo = (8 * n) % WordModulus
  PROVE  (lo \div 8) % BlockLength = n % BlockLength
<1>1. BlockLength \in Nat \ {0} /\ WordModulus \in Nat \ {0} /\ 8 * BlockLength \in Nat \ {0}
  BY BlockAssumption, WordAssumption
<1>2. PICK k : k = WordModulus \div (8 * BlockLength)
  OBVIOUS
<1>3. k \in Int /\ WordModulus = (8 * BlockLength) * k
  <2>1. WordModulus \in Int /\ WordModulus % (8 * BlockLength) = 0
    BY <1>1, WordAssumption
  <2>2. /\ k \in Int
        /\ WordModulus = (8 * BlockLength) * k + (WordModulus % (8 * BlockLength))
    BY <1>1, <1>2, <2>1, Split
  <2>3. (8 * BlockLength) * k \in Int
    BY <1>1, <2>2
  <2> QED
    BY <2>1, <2>2, <2>3
<1>4. PICK q : q = (8 * n) \div WordModulus
  OBVIOUS
<1>5. q \in Int /\ lo \in Int /\ 8 * n = WordModulus * q + lo
  <2>1. 8 * n \in Int
    OBVIOUS
  <2> QED
    BY <1>1, <1>4, <2>1, Split
<1>6. WordModulus * q = 8 * (BlockLength * (k * q)) /\ k * q \in Int
      /\ BlockLength * (k * q) \in Int
  <2>1. k * q \in Int
    BY <1>3, <1>5
  <2>2. WordModulus * q = ((8 * BlockLength) * k) * q
    BY <1>3
  <2>3. ((8 * BlockLength) * k) * q = 8 * (BlockLength * (k * q))
    BY <1>1, <1>3, <1>5
  <2>4. BlockLength * (k * q) \in Int
    BY <1>1, <2>1
  <2> QED
    BY <2>1, <2>2, <2>3, <2>4
<1>7. PICK x : x = BlockLength * (k * q)
  OBVIOUS
<1>8. x \in Int /\ lo = 8 * (n - x) + 0
  BY <1>5, <1>6, <1>7
<1>9. lo \div 8 = n - x
  BY <1>5, <1>8, Divided
<1>10. n = (n - x) + BlockLength * (k * q) /\ n - x \in Int
  BY <1>6, <1>7, <1>8
<1>11. n % BlockLength = (n - x) % BlockLength
  <2>1. ((n - x) + BlockLength * (k * q)) % BlockLength = (n - x) % BlockLength
    BY <1>1, <1>6, <1>10, RemainderKept
  <2> QED
    BY <1>10, <2>1
<1> QED
  BY <1>9, <1>11

LEMMA Sha2UpdateHolds ==
  ASSUME NEW ctx, Context(ctx), NEW m, Sequence(m), Sha2Holds(ctx, m),
         NEW data, Sequence(data),
         NEW after, after = Sha2Update(ctx, data)
  PROVE  /\ Context(after) /\ Sequence(m \o data) /\ Sha2Holds(after, m \o data)
         /\ Len(m \o data) = Len(m) + Len(data)
<1>1. Len(m) \in Nat /\ Len(data) \in Nat
  BY SequenceShape
<1>2. PICK used : used = Sha2Used(ctx)
  OBVIOUS
<1>3. used = Len(m) % BlockLength
  <2>1. ctx.lo = (8 * Len(m)) % WordModulus
    BY DEF Sha2Holds, Counts
  <2>2. (ctx.lo \div 8) % BlockLength = Len(m) % BlockLength
    BY <1>1, <2>1, UsedOfBits
  <2> QED
    BY <1>2, <2>2 DEF Sha2Used
<1>4. PICK absorbed : absorbed = Absorb(ctx, used, data)
  OBVIOUS
<1>5. PICK all : all = m \o data
  OBVIOUS
<1>6. /\ Context(absorbed) /\ Sequence(all) /\ ContextHolds(absorbed, all)
      /\ Len(all) = Len(m) + Len(data)
      /\ absorbed.lo = ctx.lo /\ absorbed.hi = ctx.hi
  BY <1>3, <1>4, <1>5, AbsorbHolds DEF Sha2Holds
<1>7. PICK c, d : c = 8 * Len(m) /\ d = 8 * Len(data)
  OBVIOUS
<1>8. c \in Nat /\ d \in Nat /\ 8 * Len(all) = c + d
  BY <1>1, <1>6, <1>7
<1>9. Counts(absorbed, c)
  BY <1>6, <1>7 DEF Sha2Holds, Counts
<1>10. after = AddCarry(absorbed, d)
  BY <1>2, <1>4, <1>7 DEF Sha2Update
<1>11. /\ Context(after) /\ Counts(after, c + d)
       /\ after.state = absorbed.state /\ after.buffer = absorbed.buffer
  <2>1. c \in Nat /\ d \in Nat /\ Context(absorbed)
    BY <1>6, <1>8
  <2> QED
    BY ONLY <1>9, <1>10, <2>1, CountAdded
<1>12. ContextHolds(after, all)
  BY <1>6, <1>11 DEF ContextHolds, Cell
<1>13. Counts(after, 8 * Len(all))
  BY <1>8, <1>11
<1> QED
  BY <1>5, <1>6, <1>11, <1>12, <1>13 DEF Sha2Holds

-----------------------------------------------------------------------------
(* The padding with the length.                                            *)

LEMMA ShortSequences ==
  ASSUME NEW a, NEW b
  PROVE  /\ Sequence(<<a>>) /\ Len(<<a>>) = 1 /\ <<a>>[1] = a
         /\ Sequence(<<a, b>>) /\ Len(<<a, b>>) = 2
         /\ <<a, b>>[1] = a /\ <<a, b>>[2] = b
<1>1. <<a>> \in Seq({a}) /\ <<a, b>> \in Seq({a, b})
  OBVIOUS
<1>2. Sequence(<<a>>) /\ Sequence(<<a, b>>)
  BY <1>1, SequenceOver
<1> QED
  BY <1>2

LEMMA ZeroCells ==
  ASSUME NEW n \in Nat
  PROVE  Sequence(Zeros(n)) /\ Len(Zeros(n)) = n /\ \A k \in 1 .. n : Zeros(n)[k] = Zero
<1>1. PICK f : f = Zeros(n)
  OBVIOUS
<1>2. f = [k \in 1 .. n |-> f[k]] /\ \A k \in 1 .. n : f[k] = Zero
  BY <1>1 DEF Zeros
<1>3. Sequence(f) /\ Len(f) = n
  BY <1>2, SequenceOfFunction
<1> QED
  BY <1>1, <1>2, <1>3

IsPadded(p, m, z, hi, lo) ==
  /\ Sequence(p) /\ Len(p) = Len(m) + z + 3
  /\ \A k \in 1 .. Len(m) : p[k] = m[k]
  /\ p[Len(m) + 1] = Bits({"80"})
  /\ \A k \in Len(m) + 2 .. Len(m) + z + 1 : p[k] = Zero
  /\ p[Len(m) + z + 2] = Counter(hi) /\ p[Len(m) + z + 3] = Counter(lo)

LEMMA SamePadded ==
  ASSUME NEW m, Sequence(m), NEW z \in Nat, NEW hi, NEW lo,
         NEW p, IsPadded(p, m, z, hi, lo), NEW q, IsPadded(q, m, z, hi, lo)
  PROVE  p = q
<1>1. Len(m) \in Nat
  BY SequenceShape
<1>2. PICK l : l = Len(m)
  OBVIOUS
<1>3. /\ Sequence(p) /\ Len(p) = l + z + 3 /\ Sequence(q) /\ Len(q) = l + z + 3
      /\ \A k \in 1 .. l : p[k] = q[k]
      /\ p[l + 1] = q[l + 1]
      /\ \A k \in l + 2 .. l + z + 1 : p[k] = q[k]
      /\ p[l + z + 2] = q[l + z + 2] /\ p[l + z + 3] = q[l + z + 3]
  BY <1>2 DEF IsPadded
<1>4. ASSUME NEW k \in 1 .. Len(p) PROVE p[k] = q[k]
  <2>1. \/ k \in 1 .. l \/ k = l + 1 \/ k \in l + 2 .. l + z + 1
        \/ k = l + z + 2 \/ k = l + z + 3
    BY <1>1, <1>2, <1>3
  <2> QED
    BY <1>3, <2>1
<1> QED
  BY <1>3, <1>4, SameCells

\* Any way of putting the parts together will do.
LEMMA PaddedJoin ==
  ASSUME NEW m, Sequence(m), NEW z \in Nat, NEW hi, NEW lo,
         NEW pad, Sequence(pad), Len(pad) = z + 1, pad[1] = Bits({"80"}),
         \A k \in 2 .. z + 1 : pad[k] = Zero
  PROVE  IsPadded((m \o pad) \o <<Counter(hi), Counter(lo)>>, m, z, hi, lo)
<1>1. Len(m) \in Nat
  BY SequenceShape
<1>2. PICK l : l = Len(m)
  OBVIOUS
<1>3. PICK c : c = <<Counter(hi), Counter(lo)>>
  OBVIOUS
<1>4. Sequence(c) /\ Len(c) = 2 /\ c[1] = Counter(hi) /\ c[2] = Counter(lo)
  BY <1>3, ShortSequences
<1>5. PICK s : s = m \o pad
  OBVIOUS
<1>6. IsJoin(s, m, pad)
  BY <1>5, Joined
<1>7. /\ Sequence(s) /\ Len(s) = l + z + 1
      /\ \A k \in 1 .. Len(s) : s[k] = IF k <= l THEN m[k] ELSE pad[k - l]
  BY <1>1, <1>2, <1>6 DEF IsJoin
<1>8. PICK p : p = s \o c
  OBVIOUS
<1>9. IsJoin(p, s, c)
  BY <1>4, <1>7, <1>8, Joined
<1>10. /\ Sequence(p) /\ Len(p) = l + z + 3
       /\ \A k \in 1 .. Len(p) : p[k] = IF k <= l + z + 1 THEN s[k] ELSE c[k - (l + z + 1)]
  BY <1>1, <1>2, <1>4, <1>7, <1>9 DEF IsJoin
<1>11. ASSUME NEW k \in 1 .. l PROVE p[k] = m[k]
  BY <1>1, <1>2, <1>7, <1>10
<1>12. ASSUME NEW k \in l + 1 .. l + z + 1 PROVE p[k] = pad[k - l]
  <2>1. k \in 1 .. Len(p) /\ k \in 1 .. Len(s) /\ ~ (k <= l) /\ k <= l + z + 1
    BY <1>1, <1>2, <1>7, <1>10
  <2> QED
    BY <1>7, <1>10, <2>1
<1>13. p[l + 1] = Bits({"80"})
  <2>1. l + 1 \in l + 1 .. l + z + 1 /\ (l + 1) - l = 1
    BY <1>1, <1>2
  <2> QED
    BY <1>12, <2>1
<1>14. ASSUME NEW k \in l + 2 .. l + z + 1 PROVE p[k] = Zero
  <2>1. k \in l + 1 .. l + z + 1 /\ k - l \in 2 .. z + 1
    BY <1>1, <1>2
  <2> QED
    BY <1>12, <2>1
<1>15. p[l + z + 2] = Counter(hi) /\ p[l + z + 3] = Counter(lo)
  <2>1. /\ l + z + 2 \in 1 .. Len(p) /\ ~ (l + z + 2 <= l + z + 1)
        /\ (l + z + 2) - (l + z + 1) = 1
    BY <1>1, <1>2, <1>10
  <2>2. /\ l + z + 3 \in 1 .. Len(p) /\ ~ (l + z + 3 <= l + z + 1)
        /\ (l + z + 3) - (l + z + 1) = 2
    BY <1>1, <1>2, <1>10
  <2>3. p[l + z + 2] = c[1]
    BY <1>10, <2>1
  <2>4. p[l + z + 3] = c[2]
    BY <1>10, <2>2
  <2> QED
    BY <1>4, <2>3, <2>4
<1>16. IsPadded(p, m, z, hi, lo)
  BY <1>2, <1>10, <1>11, <1>13, <1>14, <1>15 DEF IsPadded
<1> QED
  BY <1>3, <1>5, <1>8, <1>16

\* The zeros that fill the last block, from what is used of it.
ZerosFor(u) == IF u < ShortLength THEN BlockLength - 3 - u ELSE 2 * BlockLength - 3 - u

LEMMA ZerosLeast ==
  ASSUME NEW n \in Nat
  PROVE  /\ ZerosFor(n % BlockLength) \in 0 .. (BlockLength - 1)
         /\ (n + 1 + ZerosFor(n % BlockLength) + 2) % BlockLength = 0
         /\ (CHOOSE z \in 0 .. (BlockLength - 1) : (n + 1 + z + 2) % BlockLength = 0)
              = ZerosFor(n % BlockLength)
<1>1. BlockLength \in Nat \ {0} /\ BlockLength > 3 /\ n \in Int
  BY BlockAssumption
<1>2. PICK u, d : u = n % BlockLength /\ d = n \div BlockLength
  OBVIOUS
<1>3. u \in 0 .. (BlockLength - 1) /\ d \in Int /\ n = BlockLength * d + u
  BY <1>1, <1>2, Split
<1>4. PICK z : z = ZerosFor(u)
  OBVIOUS
<1>5. z \in 0 .. (BlockLength - 1)
  BY <1>1, <1>3, <1>4 DEF ZerosFor, ShortLength
<1>6. PICK x : x = BlockLength * d
  OBVIOUS
<1>7. x \in Int /\ n = x + u
  BY <1>1, <1>3, <1>6
<1>8. (n + 1 + z + 2) % BlockLength = 0
  <2>1. CASE u < ShortLength
    <3>1. n + 1 + z + 2 = x + BlockLength
      BY <1>1, <1>3, <1>4, <1>7, <2>1 DEF ZerosFor
    <3>2. BlockLength * (d + 1) = BlockLength * d + BlockLength
      BY <1>1, <1>3
    <3>3. n + 1 + z + 2 = BlockLength * (d + 1) + 0 /\ d + 1 \in Int /\ n + 1 + z + 2 \in Int
      BY <1>1, <1>3, <1>6, <1>7, <3>1, <3>2
    <3> QED
      BY <1>1, <3>3, Divided
  <2>2. CASE ~ (u < ShortLength)
    <3>1. n + 1 + z + 2 = x + BlockLength + BlockLength
      BY <1>1, <1>3, <1>4, <1>7, <2>2 DEF ZerosFor
    <3>2. BlockLength * (d + 2) = BlockLength * d + BlockLength + BlockLength
      BY <1>1, <1>3
    <3>3. n + 1 + z + 2 = BlockLength * (d + 2) + 0 /\ d + 2 \in Int /\ n + 1 + z + 2 \in Int
      BY <1>1, <1>3, <1>6, <1>7, <3>1, <3>2
    <3> QED
      BY <1>1, <3>3, Divided
  <2> QED
    BY <2>1, <2>2
<1>9. ASSUME NEW y \in 0 .. (BlockLength - 1), NEW w \in 0 .. (BlockLength - 1),
             (n + 1 + y + 2) % BlockLength = 0, (n + 1 + w + 2) % BlockLength = 0,
             y <= w
      PROVE  y = w
  <2>1. PICK e : e = w - y
    OBVIOUS
  <2>2. PICK a, b : a = n + 1 + y + 2 /\ b = n + 1 + w + 2
    OBVIOUS
  <2>3. e \in 0 .. (BlockLength - 1) /\ a \in Int /\ b = a + e /\ e \in Int
    BY <1>1, <1>9, <2>1, <2>2
  <2>4. a % BlockLength = 0 /\ b % BlockLength = 0
    BY <1>9, <2>2
  <2>5. (0 + e) % BlockLength = 0
    <3>1. ((a % BlockLength) + e) % BlockLength = (a + e) % BlockLength
      BY <1>1, <2>3, RemainderPlus
    <3> QED
      BY <2>3, <2>4, <3>1
  <2>6. e = BlockLength * 0 + e /\ 0 + e = e
    BY <1>1, <2>3
  <2>7. e % BlockLength = e
    BY <1>1, <2>3, <2>6, Divided
  <2>8. e = 0
    BY <2>5, <2>6, <2>7
  <2> QED
    BY <1>9, <2>1, <2>8
<1>10. \A y \in 0 .. (BlockLength - 1) : (n + 1 + y + 2) % BlockLength = 0 => y = z
  <2> SUFFICES ASSUME NEW y \in 0 .. (BlockLength - 1), (n + 1 + y + 2) % BlockLength = 0
               PROVE  y = z
    OBVIOUS
  <2>1. y <= z \/ z <= y
    BY <1>1, <1>5
  <2> QED
    BY <1>5, <1>8, <1>9, <2>1
<1>11. (CHOOSE y \in 0 .. (BlockLength - 1) : (n + 1 + y + 2) % BlockLength = 0) = z
  <2> DEFINE fits(y) == (n + 1 + y + 2) % BlockLength = 0
  <2>1. fits(z) /\ \A y \in 0 .. (BlockLength - 1) : fits(y) => y = z
    BY <1>8, <1>10
  <2> HIDE DEF fits
  <2>2. (CHOOSE y \in 0 .. (BlockLength - 1) : fits(y)) = z
    BY <1>5, <2>1
  <2> QED
    BY <2>2 DEF fits
<1> QED
  BY <1>2, <1>4, <1>5, <1>8, <1>11

\* The padded message as the standard defines it.
LEMMA PaddedStandard ==
  ASSUME NEW m, Sequence(m), NEW lo, NEW hi, lo = (8 * Len(m)) % WordModulus,
         hi = ((8 * Len(m)) \div WordModulus) % WordModulus
  PROVE  IsPadded(PaddedWithLength(m), m, ZerosFor(Len(m) % BlockLength), hi, lo)
<1>1. Len(m) \in Nat /\ 8 * Len(m) \in Nat /\ WordModulus \in Nat \ {0}
      /\ BlockLength \in Nat
  BY SequenceShape, WordAssumption, BlockAssumption
<1>2. PICK z : z = ZerosFor(Len(m) % BlockLength)
  OBVIOUS
<1>3. z \in Nat
      /\ (CHOOSE y \in 0 .. (BlockLength - 1) : (Len(m) + 1 + y + 2) % BlockLength = 0) = z
  <2>1. PICK n : n = Len(m)
    OBVIOUS
  <2>2. n \in Nat
    BY <1>1, <2>1
  <2>3. /\ ZerosFor(n % BlockLength) \in 0 .. (BlockLength - 1)
        /\ (CHOOSE y \in 0 .. (BlockLength - 1) : (n + 1 + y + 2) % BlockLength = 0)
             = ZerosFor(n % BlockLength)
    BY <2>2, ZerosLeast
  <2> QED
    BY <1>1, <1>2, <2>1, <2>3
<1>4. PICK bits : bits = (8 * Len(m)) % (WordModulus * WordModulus)
  OBVIOUS
<1>5. bits % WordModulus = lo /\ bits \div WordModulus = hi
  BY <1>1, <1>4, TwoDigits
<1>6. PaddedWithLength(m) =
        m \o <<Bits({"80"})>> \o Zeros(z) \o <<Counter(hi), Counter(lo)>>
  BY <1>3, <1>4, <1>5 DEF PaddedWithLength
<1>7. PICK one, zeros : one = <<Bits({"80"})>> /\ zeros = Zeros(z)
  OBVIOUS
<1>8. /\ Sequence(one) /\ Len(one) = 1 /\ one[1] = Bits({"80"})
      /\ Sequence(zeros) /\ Len(zeros) = z /\ \A k \in 1 .. z : zeros[k] = Zero
  BY <1>3, <1>7, ShortSequences, ZeroCells
<1>9. PICK pad : pad = one \o zeros
  OBVIOUS
<1>10. IsJoin(pad, one, zeros)
  BY <1>8, <1>9, Joined
<1>11. /\ Sequence(pad) /\ Len(pad) = z + 1
       /\ \A k \in 1 .. Len(pad) : pad[k] = IF k <= 1 THEN one[k] ELSE zeros[k - 1]
  BY <1>3, <1>8, <1>10 DEF IsJoin
<1>12. pad[1] = Bits({"80"})
  BY <1>3, <1>8, <1>11
<1>13. ASSUME NEW k \in 2 .. z + 1 PROVE pad[k] = Zero
  <2>1. k \in 1 .. Len(pad) /\ ~ (k <= 1) /\ k - 1 \in 1 .. z
    BY <1>3, <1>11
  <2> QED
    BY <1>8, <1>11, <2>1
<1>14. IsPadded((m \o pad) \o <<Counter(hi), Counter(lo)>>, m, z, hi, lo)
  BY <1>3, <1>11, <1>12, <1>13, PaddedJoin
<1>15. (m \o one) \o zeros = m \o (one \o zeros)
  BY ONLY Sequence(m), <1>8, JoinedTwice, SMTT(30)
<1> QED
  BY <1>2, <1>6, <1>7, <1>9, <1>14, <1>15

-----------------------------------------------------------------------------
(* The last blocks of SHA-2.                                               *)

IsCounted(c, b, from, hi, lo) ==
  /\ Sequence(c) /\ Len(c) = BlockLength
  /\ \A k \in 1 .. from : c[k] = b[k]
  /\ \A k \in from + 1 .. BlockLength - 2 : c[k] = Zero
  /\ c[BlockLength - 1] = Counter(hi) /\ c[BlockLength] = Counter(lo)

LEMMA CountedBlock ==
  ASSUME NEW b, NEW from \in 0 .. ShortLength, NEW hi, NEW lo,
         NEW c, c = Overwrite(Overwrite(b, from, Zeros(ShortLength - from)),
                              ShortLength, <<Counter(hi), Counter(lo)>>)
  PROVE  IsCounted(c, b, from, hi, lo)
<1>1. BlockLength \in Nat /\ BlockLength > 3 /\ ShortLength = BlockLength - 2
      /\ ShortLength \in Nat /\ ShortLength - from \in Nat /\ from \in Nat
  BY BlockAssumption DEF ShortLength
<1>2. PICK zeros, counter : zeros = Zeros(ShortLength - from)
                            /\ counter = <<Counter(hi), Counter(lo)>>
  OBVIOUS
<1>3. /\ Sequence(zeros) /\ Len(zeros) = ShortLength - from
      /\ \A k \in 1 .. ShortLength - from : zeros[k] = Zero
  BY <1>1, <1>2, ZeroCells
<1>4. /\ Sequence(counter) /\ Len(counter) = 2
      /\ counter[1] = Counter(hi) /\ counter[2] = Counter(lo)
  BY <1>2, ShortSequences
<1>5. PICK d : d = Overwrite(b, from, zeros)
  OBVIOUS
<1>6. IsOver(d, b, from, zeros)
  BY <1>1, <1>3, <1>5, Overwritten
<1>7. IsOver(c, d, ShortLength, counter)
  BY <1>1, <1>2, <1>4, <1>5, Overwritten
<1>8. /\ Sequence(c) /\ Len(c) = BlockLength
      /\ \A k \in 1 .. BlockLength :
            c[k] = IF k > ShortLength /\ k <= ShortLength + 2
                   THEN counter[k - ShortLength] ELSE d[k]
  BY <1>4, <1>7 DEF IsOver
<1>9. \A k \in 1 .. BlockLength :
            d[k] = IF k > from /\ k <= from + (ShortLength - from)
                   THEN zeros[k - from] ELSE b[k]
  BY <1>3, <1>6 DEF IsOver
<1>10. ASSUME NEW k \in 1 .. ShortLength PROVE c[k] = d[k] /\ k \in 1 .. BlockLength
  BY <1>1, <1>8
<1>11. ASSUME NEW k \in 1 .. from PROVE c[k] = b[k]
  <2>1. k \in 1 .. ShortLength /\ ~ (k > from)
    BY <1>1
  <2> QED
    BY <1>9, <1>10, <2>1
<1>12. ASSUME NEW k \in from + 1 .. BlockLength - 2 PROVE c[k] = Zero
  <2>1. k \in 1 .. ShortLength /\ k > from /\ k <= from + (ShortLength - from)
        /\ k - from \in 1 .. ShortLength - from
    BY <1>1
  <2> QED
    BY <1>3, <1>9, <1>10, <2>1
<1>13. c[BlockLength - 1] = Counter(hi)
  <2>1. /\ BlockLength - 1 \in 1 .. BlockLength /\ BlockLength - 1 > ShortLength
        /\ BlockLength - 1 <= ShortLength + 2 /\ (BlockLength - 1) - ShortLength = 1
    BY <1>1
  <2> QED
    BY <1>4, <1>8, <2>1
<1>14. c[BlockLength] = Counter(lo)
  <2>1. /\ BlockLength \in 1 .. BlockLength /\ BlockLength > ShortLength
        /\ BlockLength <= ShortLength + 2 /\ BlockLength - ShortLength = 2
    BY <1>1
  <2> QED
    BY <1>4, <1>8, <2>1
<1> QED
  BY <1>8, <1>11, <1>12, <1>13, <1>14 DEF IsCounted

\* A block of which u cells are used, with the mark behind them.
IsOpened(c, b, u) ==
  /\ Sequence(c) /\ Len(c) = BlockLength
  /\ \A k \in 1 .. u : c[k] = b[k]
  /\ c[u + 1] = Bits({"80"})

LEMMA OpenedBlock ==
  ASSUME NEW b, NEW u \in 0 .. (BlockLength - 1),
         NEW c, c = Overwrite(b, u, <<Bits({"80"})>>)
  PROVE  IsOpened(c, b, u)
<1>1. BlockLength \in Nat /\ u \in Nat
  BY BlockAssumption
<1>2. PICK one : one = <<Bits({"80"})>>
  OBVIOUS
<1>3. Sequence(one) /\ Len(one) = 1 /\ one[1] = Bits({"80"})
  BY <1>2, ShortSequences
<1>4. IsOver(c, b, u, one)
  BY <1>1, <1>2, <1>3, Overwritten
<1>5. /\ Sequence(c) /\ Len(c) = BlockLength
      /\ \A k \in 1 .. BlockLength :
            c[k] = IF k > u /\ k <= u + 1 THEN one[k - u] ELSE b[k]
  BY <1>3, <1>4 DEF IsOver
<1>6. ASSUME NEW k \in 1 .. u PROVE c[k] = b[k]
  <2>1. k \in 1 .. BlockLength /\ ~ (k > u)
    BY <1>1
  <2> QED
    BY <1>5, <2>1
<1>7. c[u + 1] = Bits({"80"})
  <2>1. /\ u + 1 \in 1 .. BlockLength /\ u + 1 > u /\ u + 1 <= u + 1 /\ (u + 1) - u = 1
    BY <1>1
  <2> QED
    BY <1>3, <1>5, <2>1
<1> QED
  BY <1>5, <1>6, <1>7 DEF IsOpened

\* What is compressed last: the cells in the buffer, then the padding.
IsTail(c, b, u, z, hi, lo) ==
  /\ Sequence(c) /\ Len(c) = u + z + 3
  /\ \A k \in 1 .. u : c[k] = b[k]
  /\ c[u + 1] = Bits({"80"})
  /\ \A k \in u + 2 .. u + z + 1 : c[k] = Zero
  /\ c[u + z + 2] = Counter(hi) /\ c[u + z + 3] = Counter(lo)

LEMMA TailIsPadding ==
  ASSUME NEW ctx, Sequence(ctx.state), NEW m, Sequence(m),
         NEW u \in Nat, u <= Len(m), HoldsBut(ctx, m, u),
         NEW z \in Nat, NEW hi, NEW lo, NEW c, IsTail(c, ctx.buffer, u, z, hi, lo)
  PROVE  IsPadded(ctx.state \o c, m, z, hi, lo)
<1>1. Len(m) \in Nat
  BY SequenceShape
<1>2. PICK l, e : l = Len(m) /\ e = l - u
  OBVIOUS
<1>3. e \in Nat /\ l \in Nat /\ l = e + u
  BY <1>1, <1>2
<1>4. /\ Len(ctx.state) = e
      /\ \A k \in 1 .. l : m[k] = IF k <= e THEN ctx.state[k] ELSE ctx.buffer[k - e]
  BY <1>2 DEF HoldsBut
<1>5. /\ Sequence(c) /\ Len(c) = u + z + 3
      /\ \A k \in 1 .. u : c[k] = ctx.buffer[k]
      /\ c[u + 1] = Bits({"80"})
      /\ \A k \in u + 2 .. u + z + 1 : c[k] = Zero
      /\ c[u + z + 2] = Counter(hi) /\ c[u + z + 3] = Counter(lo)
  BY DEF IsTail
<1>6. PICK p : p = ctx.state \o c
  OBVIOUS
<1>7. IsJoin(p, ctx.state, c)
  BY <1>5, <1>6, Joined
<1>8. /\ Sequence(p) /\ Len(p) = l + z + 3
      /\ \A k \in 1 .. Len(p) : p[k] = IF k <= e THEN ctx.state[k] ELSE c[k - e]
  BY <1>3, <1>4, <1>5, <1>7 DEF IsJoin
<1>9. ASSUME NEW j \in 1 .. u + z + 3
       PROVE  p[e + j] = c[j]
  <2>1. e + j \in 1 .. Len(p) /\ ~ (e + j <= e) /\ (e + j) - e = j
    BY <1>3, <1>8
  <2> QED
    BY <1>8, <2>1
<1>10. ASSUME NEW k \in 1 .. l PROVE p[k] = m[k]
  <2>1. CASE k <= e
    <3>1. k \in 1 .. Len(p)
      BY <1>3, <1>8
    <3> QED
      BY <1>4, <1>8, <2>1, <3>1
  <2>2. CASE k > e
    <3>1. PICK j : j = k - e
      OBVIOUS
    <3>2. j \in 1 .. u /\ e + j = k /\ j \in 1 .. u + z + 3 /\ ~ (k <= e)
      BY <1>3, <2>2, <3>1
    <3>3. p[k] = c[j] /\ c[j] = ctx.buffer[j]
      BY <1>5, <1>9, <3>2
    <3>4. m[k] = ctx.buffer[j]
      BY <1>4, <3>1, <3>2
    <3> QED
      BY <3>3, <3>4
  <2> QED
    BY <1>3, <2>1, <2>2
<1>11. p[l + 1] = Bits({"80"})
  <2>1. u + 1 \in 1 .. u + z + 3 /\ e + (u + 1) = l + 1
    BY <1>3
  <2>2. p[l + 1] = c[u + 1]
    BY <1>9, <2>1
  <2> QED
    BY <1>5, <2>1, <2>2
<1>12. ASSUME NEW k \in l + 2 .. l + z + 1 PROVE p[k] = Zero
  <2>1. PICK j : j = k - e
    OBVIOUS
  <2>2. j \in u + 2 .. u + z + 1 /\ j \in 1 .. u + z + 3 /\ e + j = k
    BY <1>3, <2>1
  <2>3. p[k] = c[j]
    BY <1>9, <2>2
  <2> QED
    BY <1>5, <2>2, <2>3
<1>13. p[l + z + 2] = Counter(hi) /\ p[l + z + 3] = Counter(lo)
  <2>1. /\ u + z + 2 \in 1 .. u + z + 3 /\ u + z + 3 \in 1 .. u + z + 3
        /\ e + (u + z + 2) = l + z + 2 /\ e + (u + z + 3) = l + z + 3
    BY ONLY <1>3, u \in Nat, z \in Nat
  <2>2. p[l + z + 2] = c[u + z + 2] /\ p[l + z + 3] = c[u + z + 3]
    BY <1>9, <2>1
  <2> QED
    BY <1>5, <2>2
<1>14. IsPadded(p, m, z, hi, lo)
  BY <1>2, <1>8, <1>10, <1>11, <1>12, <1>13 DEF IsPadded
<1> QED
  BY <1>2, <1>6, <1>14

\* The counter fits the block that was begun.
LEMMA OneLastBlock ==
  ASSUME NEW b, NEW u \in Nat, u < ShortLength, NEW hi, NEW lo,
         NEW opened, IsOpened(opened, b, u),
         NEW c, IsCounted(c, opened, u + 1, hi, lo)
  PROVE  ZerosFor(u) \in Nat /\ IsTail(c, b, u, ZerosFor(u), hi, lo)
<1>1. PICK z : z = ZerosFor(u)
  OBVIOUS
<1>2. z = BlockLength - 3 - u /\ z \in Nat /\ BlockLength = u + z + 3 /\ BlockLength \in Nat
  BY <1>1, BlockAssumption DEF ZerosFor, ShortLength
<1>3. \A k \in 1 .. u : opened[k] = b[k]
  BY DEF IsOpened
<1>4. opened[u + 1] = Bits({"80"})
  BY DEF IsOpened
<1>5. /\ Sequence(c) /\ Len(c) = u + z + 3
      /\ \A k \in 1 .. u + 1 : c[k] = opened[k]
      /\ \A k \in u + 2 .. u + z + 1 : c[k] = Zero
      /\ c[u + z + 2] = Counter(hi) /\ c[u + z + 3] = Counter(lo)
  <2>1. BlockLength - 2 = u + z + 1 /\ BlockLength - 1 = u + z + 2
        /\ BlockLength = u + z + 3 /\ (u + 1) + 1 = u + 2
    BY <1>2
  <2> QED
    BY <2>1 DEF IsCounted
<1>6. ASSUME NEW k \in 1 .. u PROVE c[k] = b[k]
  <2>1. k \in 1 .. u + 1
    OBVIOUS
  <2> QED
    BY <1>3, <1>5, <2>1
<1>7. c[u + 1] = Bits({"80"})
  <2>1. u + 1 \in 1 .. u + 1
    OBVIOUS
  <2> QED
    BY <1>4, <1>5, <2>1
<1> QED
  BY <1>1, <1>2, <1>5, <1>6, <1>7 DEF IsTail

\* Or it does not: that block is filled with zeros, and one more follows.
LEMMA TwoLastBlocks ==
  ASSUME NEW b, NEW u \in Nat, u < BlockLength, ~ (u < ShortLength), NEW hi, NEW lo,
         NEW opened, IsOpened(opened, b, u),
         NEW full, full = Overwrite(opened, u + 1, Zeros(BlockLength - (u + 1))),
         NEW old, NEW c, IsCounted(c, old, 0, hi, lo)
  PROVE  /\ ZerosFor(u) \in Nat /\ Sequence(full)
         /\ IsTail(full \o c, b, u, ZerosFor(u), hi, lo)
<1>1. PICK z, f : z = ZerosFor(u) /\ f = BlockLength - (u + 1)
  OBVIOUS
<1>2. /\ BlockLength \in Nat /\ BlockLength > 3
      /\ z \in Nat /\ 2 * BlockLength = u + z + 3 /\ f \in Nat /\ u + 1 + f = BlockLength
  BY <1>1, BlockAssumption DEF ZerosFor, ShortLength
<1>3. \A k \in 1 .. u : opened[k] = b[k]
  BY DEF IsOpened
<1>4. opened[u + 1] = Bits({"80"})
  BY DEF IsOpened
<1>5. PICK zeros : zeros = Zeros(f)
  OBVIOUS
<1>6. Sequence(zeros) /\ Len(zeros) = f /\ \A k \in 1 .. f : zeros[k] = Zero
  BY <1>2, <1>5, ZeroCells
<1>7. IsOver(full, opened, u + 1, zeros)
  <2>1. u + 1 \in Nat /\ full = Overwrite(opened, u + 1, zeros)
    BY <1>1, <1>5
  <2> QED
    BY <1>6, <2>1, Overwritten
<1>8. /\ Sequence(full) /\ Len(full) = BlockLength
      /\ \A k \in 1 .. BlockLength :
            full[k] = IF k > u + 1 /\ k <= u + 1 + f THEN zeros[k - (u + 1)] ELSE opened[k]
  BY <1>6, <1>7 DEF IsOver
<1>9. /\ Sequence(c) /\ Len(c) = BlockLength
      /\ \A k \in 1 .. BlockLength - 2 : c[k] = Zero
      /\ c[BlockLength - 1] = Counter(hi) /\ c[BlockLength] = Counter(lo)
  <2>1. 0 + 1 = 1
    OBVIOUS
  <2> QED
    BY <2>1 DEF IsCounted
<1>10. PICK t : t = full \o c
  OBVIOUS
<1>11. IsJoin(t, full, c)
  BY <1>8, <1>9, <1>10, Joined
<1>12. /\ Sequence(t) /\ Len(t) = u + z + 3
       /\ \A k \in 1 .. Len(t) : t[k] = IF k <= BlockLength THEN full[k]
                                        ELSE c[k - BlockLength]
  BY <1>2, <1>8, <1>9, <1>11 DEF IsJoin
<1>13. ASSUME NEW k \in 1 .. u + 1 PROVE t[k] = opened[k]
  <2>1. k \in 1 .. Len(t) /\ k <= BlockLength /\ k \in 1 .. BlockLength /\ ~ (k > u + 1)
    BY <1>2, <1>12
  <2> QED
    BY <1>8, <1>12, <2>1
<1>14. ASSUME NEW k \in 1 .. u PROVE t[k] = b[k]
  <2>1. k \in 1 .. u + 1
    OBVIOUS
  <2> QED
    BY <1>3, <1>13, <2>1
<1>15. t[u + 1] = Bits({"80"})
  <2>1. u + 1 \in 1 .. u + 1
    OBVIOUS
  <2> QED
    BY <1>4, <1>13, <2>1
<1>16. ASSUME NEW k \in u + 2 .. u + z + 1 PROVE t[k] = Zero
  <2>1. CASE k <= BlockLength
    <3>1. k \in 1 .. Len(t) /\ k \in 1 .. BlockLength /\ k > u + 1 /\ k <= u + 1 + f
          /\ k - (u + 1) \in 1 .. f
      BY <1>2, <1>12, <2>1
    <3> QED
      BY <1>6, <1>8, <1>12, <2>1, <3>1
  <2>2. CASE k > BlockLength
    <3>1. k \in 1 .. Len(t) /\ ~ (k <= BlockLength) /\ k - BlockLength \in 1 .. BlockLength - 2
      BY <1>2, <1>12, <2>2
    <3> QED
      BY <1>9, <1>12, <3>1
  <2> QED
    BY <1>2, <2>1, <2>2
<1>17. t[u + z + 2] = Counter(hi) /\ t[u + z + 3] = Counter(lo)
  <2>1. /\ u + z + 2 \in 1 .. Len(t) /\ ~ (u + z + 2 <= BlockLength)
        /\ (u + z + 2) - BlockLength = BlockLength - 1
    BY <1>2, <1>12
  <2>2. /\ u + z + 3 \in 1 .. Len(t) /\ ~ (u + z + 3 <= BlockLength)
        /\ (u + z + 3) - BlockLength = BlockLength
    BY <1>2, <1>12
  <2>3. t[u + z + 2] = c[BlockLength - 1]
    BY <1>12, <2>1
  <2>4. t[u + z + 3] = c[BlockLength]
    BY <1>12, <2>2
  <2> QED
    BY <1>9, <2>3, <2>4
<1>18. IsTail(t, b, u, z, hi, lo)
  BY <1>12, <1>14, <1>15, <1>16, <1>17 DEF IsTail
<1> QED
  BY <1>1, <1>2, <1>8, <1>10, <1>18

\* So the blocks of a finished context are those of the padded message.
LEMMA Sha2LastHolds ==
  ASSUME NEW ctx, Context(ctx), NEW m, Sequence(m), Sha2Holds(ctx, m)
  PROVE  /\ Sha2Last(ctx) = PaddedWithLength(m)
         /\ Len(Sha2Last(ctx)) >= 3
<1>1. Len(m) \in Nat /\ BlockLength \in Nat /\ BlockLength > 3 /\ Sequence(ctx.state)
      /\ ShortLength = BlockLength - 2
  BY SequenceShape, BlockAssumption DEF Context, ShortLength
<1>2. PICK u : u = Sha2Used(ctx)
  OBVIOUS
<1>3. /\ ctx.lo = (8 * Len(m)) % WordModulus
      /\ ctx.hi = ((8 * Len(m)) \div WordModulus) % WordModulus
  BY DEF Sha2Holds, Counts
<1>4. u = Len(m) % BlockLength
  <2>1. (ctx.lo \div 8) % BlockLength = Len(m) % BlockLength
    BY <1>1, <1>3, UsedOfBits
  <2> QED
    BY <1>2, <2>1 DEF Sha2Used
<1>5. u \in 0 .. (BlockLength - 1) /\ u <= Len(m) /\ u \in Nat /\ u < BlockLength
  <2>1. u \in 0 .. (BlockLength - 1) /\ u <= Len(m)
    BY <1>1, <1>4, UsedOf
  <2> QED
    BY <1>1, <2>1
<1>6. HoldsBut(ctx, m, u)
  BY <1>4, HoldsButUsed DEF Sha2Holds
<1>7. PICK z, hi, lo : z = ZerosFor(u) /\ hi = ctx.hi /\ lo = ctx.lo
  OBVIOUS
<1>8. IsPadded(PaddedWithLength(m), m, z, hi, lo)
  BY <1>3, <1>4, <1>7, PaddedStandard
<1>9. PICK opened : opened = Overwrite(ctx.buffer, u, <<Bits({"80"})>>)
  OBVIOUS
<1>10. IsOpened(opened, ctx.buffer, u)
  BY <1>5, <1>9, OpenedBlock
<1>11. PICK last : last = Sha2Last(ctx)
  OBVIOUS
<1>12. ASSUME z \in Nat, IsPadded(last, m, z, hi, lo)
       PROVE  Sha2Last(ctx) = PaddedWithLength(m) /\ Len(Sha2Last(ctx)) >= 3
  <2>1. last = PaddedWithLength(m)
    BY <1>8, <1>12, SamePadded
  <2>2. Len(last) = Len(m) + z + 3
    BY <1>12 DEF IsPadded
  <2>3. Len(last) >= 3
    BY <1>1, <1>12, <2>2
  <2> QED
    BY <1>11, <2>1, <2>3
<1>13. (u + 1) - 1 = u
  BY <1>5
<1>14. CASE u < ShortLength
  <2>1. PICK c : c = Overwrite(Overwrite(opened, u + 1, Zeros(ShortLength - (u + 1))),
                               ShortLength, <<Counter(hi), Counter(lo)>>)
    OBVIOUS
  <2>2. u + 1 \in 0 .. ShortLength /\ ~ (u + 1 > ShortLength)
    BY <1>1, <1>5, <1>14
  <2>3. IsCounted(c, opened, u + 1, hi, lo)
    BY <2>1, <2>2, CountedBlock
  <2>4. z \in Nat /\ IsTail(c, ctx.buffer, u, z, hi, lo)
    BY <1>5, <1>7, <1>10, <1>14, <2>3, OneLastBlock
  <2>5. IsPadded(ctx.state \o c, m, z, hi, lo)
    BY <1>1, <1>5, <1>6, <2>4, TailIsPadding
  <2>6. last = ctx.state \o c
    BY <1>2, <1>7, <1>9, <1>11, <1>13, <2>1, <2>2 DEF Sha2Last, Transform
  <2> QED
    BY <1>12, <2>4, <2>5, <2>6
<1>15. CASE ~ (u < ShortLength)
  <2>1. PICK c : c = Overwrite(Overwrite(StaleBytes, 0, Zeros(ShortLength - 0)),
                               ShortLength, <<Counter(hi), Counter(lo)>>)
    OBVIOUS
  <2>2. PICK full : full = Overwrite(opened, u + 1, Zeros(BlockLength - (u + 1)))
    OBVIOUS
  <2>3. 0 \in 0 .. ShortLength /\ u + 1 > ShortLength
    BY <1>1, <1>5, <1>15
  <2>4. IsCounted(c, StaleBytes, 0, hi, lo)
    BY <2>1, <2>3, CountedBlock
  <2>5. z \in Nat /\ Sequence(full) /\ IsTail(full \o c, ctx.buffer, u, z, hi, lo)
    BY <1>5, <1>7, <1>10, <1>15, <2>2, <2>4, TwoLastBlocks
  <2>6. IsPadded(ctx.state \o (full \o c), m, z, hi, lo)
    BY <1>1, <1>5, <1>6, <2>5, TailIsPadding
  <2>7. last = (ctx.state \o full) \o c
    <3>1. last = (ctx.state \o Overwrite(Overwrite(ctx.buffer, (u + 1) - 1, <<Bits({"80"})>>),
                                         u + 1, Zeros(BlockLength - (u + 1))))
                 \o Overwrite(Overwrite(StaleBytes, 0, Zeros(ShortLength - 0)), ShortLength,
                              <<Counter(ctx.hi), Counter(ctx.lo)>>)
      BY <1>2, <1>11, <2>3, Zenon DEF Sha2Last, Transform
    <3> QED
      BY <1>7, <1>9, <1>13, <2>1, <2>2, <3>1
  <2>8. (ctx.state \o full) \o c = ctx.state \o (full \o c)
    <3>1. PICK s : s = ctx.state
      OBVIOUS
    <3>2. Sequence(s) /\ Sequence(full) /\ Sequence(c)
      BY <1>1, <2>4, <2>5, <3>1 DEF IsCounted
    <3>3. (s \o full) \o c = s \o (full \o c)
      BY <3>2, JoinedTwice
    <3> QED
      BY <3>1, <3>3
  <2> QED
    BY <1>12, <2>5, <2>6, <2>7, <2>8
<1> QED
  BY <1>14, <1>15

-----------------------------------------------------------------------------
(* RIPEMD-160, which counts bytes and pads with its own updates.           *)

LEMMA UsedOfBytes ==
  ASSUME NEW n \in Nat, NEW lo, lo = n % WordModulus
  PROVE  lo % BlockLength = n % BlockLength
<1>1. BlockLength \in Nat \ {0} /\ WordModulus \in Nat \ {0} /\ 8 * BlockLength \in Nat \ {0}
  BY BlockAssumption, WordAssumption
<1>2. PICK k : k = WordModulus \div (8 * BlockLength)
  OBVIOUS
<1>3. k \in Int /\ WordModulus = (8 * BlockLength) * k
  <2>1. WordModulus \in Int /\ WordModulus % (8 * BlockLength) = 0
    BY <1>1, WordAssumption
  <2>2. /\ k \in Int
        /\ WordModulus = (8 * BlockLength) * k + (WordModulus % (8 * BlockLength))
    BY <1>1, <1>2, <2>1, Split
  <2>3. (8 * BlockLength) * k \in Int
    BY <1>1, <2>2
  <2> QED
    BY <2>1, <2>2, <2>3
<1>4. PICK q : q = n \div WordModulus
  OBVIOUS
<1>5. q \in Int /\ lo \in Int /\ n = WordModulus * q + lo
  <2>1. n \in Int
    OBVIOUS
  <2> QED
    BY <1>1, <1>4, <2>1, Split
<1>6. WordModulus * q = BlockLength * (8 * (k * q)) /\ 8 * (k * q) \in Int
  <2>1. k * q \in Int
    BY <1>3, <1>5
  <2>2. WordModulus * q = ((8 * BlockLength) * k) * q
    BY <1>3
  <2>3. ((8 * BlockLength) * k) * q = BlockLength * (8 * (k * q))
    BY <1>1, <1>3, <1>5
  <2> QED
    BY <2>1, <2>2, <2>3
<1>7. PICK y : y = 8 * (k * q)
  OBVIOUS
<1>8. y \in Int /\ n = lo + BlockLength * y
  <2>1. PICK x : x = BlockLength * y
    OBVIOUS
  <2>2. x \in Int /\ WordModulus * q = x
    BY <1>1, <1>6, <1>7, <2>1
  <2> QED
    BY <1>5, <1>6, <1>7, <2>1, <2>2
<1>9. (lo + BlockLength * y) % BlockLength = lo % BlockLength
  BY <1>1, <1>5, <1>8, RemainderKept
<1> QED
  BY <1>8, <1>9

\* Three shifts across two words turn the count of bytes into that of bits.
LEMMA BitsOfBytes ==
  ASSUME NEW n \in Nat, NEW lo, NEW hi, lo = n % WordModulus,
         hi = (n \div WordModulus) % WordModulus
  PROVE  /\ (8 * lo) % WordModulus = (8 * n) % WordModulus
         /\ ((8 * lo) \div WordModulus + 8 * hi) % WordModulus
              = ((8 * n) \div WordModulus) % WordModulus
<1>1. WordModulus \in Nat \ {0} /\ n \in Int
  BY WordAssumption
<1>2. PICK q : q = n \div WordModulus
  OBVIOUS
<1>3. q \in Int /\ lo \in Int
  BY <1>1, <1>2, Split
<1>3a. n = WordModulus * q + lo
  BY <1>1, <1>2, Split
<1>4. PICK r : r = q \div WordModulus
  OBVIOUS
<1>4a. hi = q % WordModulus
  BY <1>2
<1>5. r \in Int /\ hi \in Int
  BY ONLY <1>1, <1>3, <1>4, <1>4a, Split
<1>5a. q = WordModulus * r + hi
  BY ONLY <1>1, <1>3, <1>4, <1>4a, Split
<1>6. PICK a, g : a = 8 * lo /\ g = a \div WordModulus
  OBVIOUS
<1>7. a \in Int /\ g \in Int
  <2>1. a \in Int
    BY ONLY <1>3, <1>6
  <2> QED
    BY ONLY <1>1, <1>6, <2>1, Split
<1>8. 8 * n = a + WordModulus * (8 * q) /\ 8 * q \in Int
  <2>1. WordModulus * (8 * q) = 8 * (WordModulus * q)
    BY ONLY <1>1, <1>3
  <2>2. PICK x : x = WordModulus * q
    OBVIOUS
  <2>3. x \in Int /\ WordModulus * (8 * q) = 8 * x
    BY ONLY <1>1, <1>3, <2>1, <2>2
  <2>4. n = x + lo
    BY ONLY <1>3a, <2>2
  <2>5. 8 * n = a + 8 * x /\ 8 * q \in Int
    BY ONLY <1>3, <1>6, <2>3, <2>4
  <2> QED
    BY ONLY <2>3, <2>5
<1>9. /\ (a + WordModulus * (8 * q)) % WordModulus = a % WordModulus
      /\ (a + WordModulus * (8 * q)) \div WordModulus = g + 8 * q
  <2>1. PICK b : b = 8 * q
    OBVIOUS
  <2>2. b \in Int
    BY <1>8, <2>1
  <2>3. /\ (a + WordModulus * b) % WordModulus = a % WordModulus
        /\ (a + WordModulus * b) \div WordModulus = a \div WordModulus + b
    BY <1>1, <1>7, <2>2, RemainderKept
  <2> QED
    BY <1>6, <2>1, <2>3
<1>10. PICK c : c = g + 8 * hi
  OBVIOUS
<1>11. c \in Int /\ g + 8 * q = c + WordModulus * (8 * r) /\ 8 * r \in Int
  <2>1. WordModulus * (8 * r) = 8 * (WordModulus * r)
    BY ONLY <1>1, <1>5
  <2>2. PICK x : x = WordModulus * r
    OBVIOUS
  <2>3. x \in Int /\ WordModulus * (8 * r) = 8 * x
    BY ONLY <1>1, <1>5, <2>1, <2>2
  <2>4. q = x + hi
    BY ONLY <1>5a, <2>2
  <2>5. c \in Int /\ g + 8 * q = c + 8 * x /\ 8 * r \in Int
    BY ONLY <1>3, <1>5, <1>7, <1>10, <2>3, <2>4
  <2> QED
    BY ONLY <2>3, <2>5
<1>12. (c + WordModulus * (8 * r)) % WordModulus = c % WordModulus
  <2>1. PICK b : b = 8 * r
    OBVIOUS
  <2>2. b \in Int
    BY <1>11, <2>1
  <2>3. (c + WordModulus * b) % WordModulus = c % WordModulus
    BY <1>1, <1>11, <2>2, RemainderKept
  <2> QED
    BY <2>1, <2>3
<1> QED
  BY <1>6, <1>8, <1>9, <1>10, <1>11, <1>12

RipemdHolds(ctx, m) == ContextHolds(ctx, m) /\ Counts(ctx, Len(m))

LEMMA RipemdUpdateHolds ==
  ASSUME NEW ctx, Context(ctx), NEW m, Sequence(m), RipemdHolds(ctx, m),
         NEW data, Sequence(data),
         NEW after, after = RipemdUpdate(ctx, data)
  PROVE  /\ Context(after) /\ Sequence(m \o data) /\ RipemdHolds(after, m \o data)
         /\ Len(m \o data) = Len(m) + Len(data)
<1>1. Len(m) \in Nat /\ Len(data) \in Nat
  BY SequenceShape
<1>2. PICK used : used = ctx.lo % BlockLength
  OBVIOUS
<1>3. used = Len(m) % BlockLength
  <2>1. PICK n : n = Len(m)
    OBVIOUS
  <2>2. n \in Nat /\ ctx.lo = n % WordModulus
    BY <1>1, <2>1 DEF RipemdHolds, Counts
  <2>3. ctx.lo % BlockLength = n % BlockLength
    BY <2>2, UsedOfBytes
  <2> QED
    BY <1>2, <2>1, <2>3
<1>4. PICK absorbed : absorbed = Absorb(ctx, used, data)
  OBVIOUS
<1>5. PICK all : all = m \o data
  OBVIOUS
<1>6. /\ Context(absorbed) /\ Sequence(all) /\ ContextHolds(absorbed, all)
      /\ Len(all) = Len(m) + Len(data)
      /\ absorbed.lo = ctx.lo /\ absorbed.hi = ctx.hi
  BY <1>3, <1>4, <1>5, AbsorbHolds DEF RipemdHolds
<1>7. PICK c, d : c = Len(m) /\ d = Len(data)
  OBVIOUS
<1>8. c \in Nat /\ d \in Nat /\ Context(absorbed)
  BY <1>1, <1>6, <1>7
<1>9. Counts(absorbed, c)
  BY <1>6, <1>7 DEF RipemdHolds, Counts
<1>10. after = AddCarry(absorbed, d)
  BY <1>2, <1>4, <1>7 DEF RipemdUpdate
<1>11. /\ Context(after) /\ Counts(after, c + d)
       /\ after.state = absorbed.state /\ after.buffer = absorbed.buffer
  BY ONLY <1>8, <1>9, <1>10, CountAdded
<1>12. ContextHolds(after, all)
  BY <1>6, <1>11 DEF ContextHolds, Cell
<1>13. Counts(after, Len(all))
  BY <1>6, <1>7, <1>11
<1> QED
  BY <1>5, <1>6, <1>11, <1>12, <1>13 DEF RipemdHolds

\* A context that was fed whole blocks only has compressed them all.
LEMMA AllCompressed ==
  ASSUME NEW ctx, Context(ctx), NEW m, Sequence(m), ContextHolds(ctx, m),
         Len(m) % BlockLength = 0
  PROVE  ctx.state = m
<1>1. Len(m) \in Nat /\ Sequence(ctx.state)
  BY SequenceShape DEF Context
<1>2. PICK s, l : s = ctx.state /\ l = Len(m)
  OBVIOUS
<1>3. Len(s) = l - 0 /\ \A k \in 1 .. l : m[k] = IF k <= l - 0 THEN s[k]
                                                 ELSE ctx.buffer[k - (l - 0)]
  <2>1. HoldsBut(ctx, m, 0)
    BY HoldsButUsed
  <2> QED
    BY <1>2, <2>1 DEF HoldsBut
<1>4. Len(s) = l /\ \A k \in 1 .. l : s[k] = m[k]
  BY <1>1, <1>2, <1>3
<1>5. s = m
  BY <1>1, <1>2, <1>4, SameCells
<1> QED
  BY <1>2, <1>5

LEMMA RipemdFinalHolds ==
  ASSUME NEW ctx, Context(ctx), NEW m, Sequence(m), RipemdHolds(ctx, m)
  PROVE  /\ RipemdFinal(ctx).state = PaddedWithLength(m)
         /\ Len(RipemdFinal(ctx).state) >= 3
<1>1. Len(m) \in Nat /\ BlockLength \in Nat /\ BlockLength > 3
      /\ ShortLength = BlockLength - 2
  BY SequenceShape, BlockAssumption DEF ShortLength
<1>2. PICK n : n = Len(m)
  OBVIOUS
<1>3. n \in Nat /\ ctx.lo = n % WordModulus /\ ctx.hi = (n \div WordModulus) % WordModulus
  BY <1>1, <1>2 DEF RipemdHolds, Counts
<1>4. PICK u : u = ctx.lo % BlockLength
  OBVIOUS
<1>5. u = n % BlockLength
  BY <1>3, <1>4, UsedOfBytes
<1>6. u \in 0 .. (BlockLength - 1)
  BY <1>3, <1>5, UsedOf
<1>7. PICK lo, hi : /\ lo = (8 * ctx.lo) % WordModulus
                    /\ hi = ((8 * ctx.lo) \div WordModulus + 8 * ctx.hi) % WordModulus
  OBVIOUS
<1>8. lo = (8 * n) % WordModulus /\ hi = ((8 * n) \div WordModulus) % WordModulus
  BY <1>3, <1>7, BitsOfBytes
<1>9. PICK z : z = ZerosFor(u)
  OBVIOUS
<1>10. z \in 0 .. (BlockLength - 1) /\ (n + 1 + z + 2) % BlockLength = 0
  BY <1>3, <1>5, <1>9, ZerosLeast
<1>11. IsPadded(PaddedWithLength(m), m, z, hi, lo)
  BY <1>2, <1>5, <1>8, <1>9, PaddedStandard
<1>12. PICK padn : padn = IF u < ShortLength THEN ShortLength - u
                          ELSE BlockLength + ShortLength - u
  OBVIOUS
<1>13. padn = z + 1 /\ z + 1 \in Nat /\ z + 1 <= BlockLength /\ z \in Nat
       /\ BlockLength - 1 \in Nat
  BY <1>1, <1>6, <1>9, <1>10, <1>12 DEF ZerosFor
<1>14. PICK one, zeros : one = <<Bits({"80"})>> /\ zeros = Zeros(BlockLength - 1)
  OBVIOUS
<1>15. /\ Sequence(one) /\ Len(one) = 1 /\ one[1] = Bits({"80"})
       /\ Sequence(zeros) /\ Len(zeros) = BlockLength - 1
       /\ \A k \in 1 .. BlockLength - 1 : zeros[k] = Zero
  BY <1>13, <1>14, ShortSequences, ZeroCells
<1>16. PICK padding : padding = one \o zeros
  OBVIOUS
<1>17. IsJoin(padding, one, zeros)
  BY <1>15, <1>16, Joined
<1>18. /\ Sequence(padding) /\ Len(padding) = BlockLength
       /\ \A k \in 1 .. Len(padding) : padding[k] = IF k <= 1 THEN one[k] ELSE zeros[k - 1]
  BY <1>1, <1>13, <1>15, <1>17 DEF IsJoin
<1>19. PICK pad : pad = SubSeq(padding, 1, z + 1)
  OBVIOUS
<1>20. z + 1 \in Nat /\ z + 1 <= Len(padding)
  BY <1>13, <1>18
<1>21. /\ Sequence(pad) /\ Len(pad) = z + 1
       /\ \A k \in 1 .. z + 1 : pad[k] = padding[k]
  BY <1>18, <1>19, <1>20, PrefixOf
<1>22. ASSUME NEW k \in 1 .. z + 1 PROVE pad[k] = padding[k] /\ k \in 1 .. Len(padding)
  BY <1>13, <1>20, <1>21
<1>23. pad[1] = Bits({"80"})
  <2>1. 1 \in 1 .. z + 1 /\ 1 <= 1
    BY <1>13
  <2> QED
    BY <1>15, <1>18, <1>22, <2>1
<1>24. ASSUME NEW k \in 2 .. z + 1 PROVE pad[k] = Zero
  <2>1. k \in 1 .. z + 1 /\ ~ (k <= 1) /\ k - 1 \in 1 .. BlockLength - 1
    BY <1>1, <1>13
  <2> QED
    BY <1>15, <1>18, <1>22, <2>1
<1>25. PICK count : count = <<Counter(hi), Counter(lo)>>
  OBVIOUS
<1>26. Sequence(count) /\ Len(count) = 2
  BY <1>25, ShortSequences
<1>27. PICK p : p = (m \o pad) \o count
  OBVIOUS
<1>28. IsPadded(p, m, z, hi, lo)
  BY <1>13, <1>21, <1>23, <1>24, <1>25, <1>27, PaddedJoin
<1>29. p = PaddedWithLength(m)
  BY <1>11, <1>13, <1>28, SamePadded
<1>30. PICK padded, counted : /\ padded = RipemdUpdate(ctx, pad)
                              /\ counted = RipemdUpdate(padded, count)
  OBVIOUS
<1>31. PICK s : s = m \o pad
  OBVIOUS
<1>32. Context(padded) /\ Sequence(s) /\ RipemdHolds(padded, s)
  BY <1>21, <1>30, <1>31, RipemdUpdateHolds
<1>33. Context(counted) /\ Sequence(p) /\ RipemdHolds(counted, p)
  BY <1>26, <1>27, <1>30, <1>31, <1>32, RipemdUpdateHolds
<1>34. Len(p) = n + 1 + z + 2 /\ Len(p) >= 3
  <2>1. Len(p) = Len(m) + z + 3
    BY <1>28 DEF IsPadded
  <2> QED
    BY <1>1, <1>2, <1>13, <2>1
<1>35. counted.state = p
  BY <1>10, <1>33, <1>34, AllCompressed DEF RipemdHolds
<1>36. RipemdFinal(ctx) = counted
  <2>1. RipemdFinal(ctx) =
          RipemdUpdate(RipemdUpdate(ctx, SubSeq(one \o zeros, 1, padn)),
                       <<Counter(hi), Counter(lo)>>)
    BY <1>4, <1>7, <1>12, <1>14, Zenon DEF RipemdFinal
  <2> QED
    BY <1>13, <1>16, <1>19, <1>25, <1>30, <2>1
<1> QED
  BY <1>29, <1>34, <1>35, <1>36

-----------------------------------------------------------------------------
(* SHA-3, whose padding has no length but the bits of the domain.          *)

\* The bits in cell k of the last block, of which u cells are used.
Marks(k, u, domain) ==
  (IF k = u + 1 THEN {domain} ELSE {}) \cup (IF k = BlockLength THEN {"80"} ELSE {})

IsDomained(p, m, u, domain) ==
  /\ Sequence(p) /\ Len(p) = Len(m) + (BlockLength - u)
  /\ \A k \in 1 .. Len(m) : p[k] = m[k]
  /\ \A j \in 1 .. BlockLength - u : p[Len(m) + j] = Bits(Marks(u + j, u, domain))

LEMMA SameDomained ==
  ASSUME NEW m, Sequence(m), NEW u \in Nat, u < BlockLength, NEW domain,
         NEW p, IsDomained(p, m, u, domain), NEW q, IsDomained(q, m, u, domain)
  PROVE  p = q
<1>1. Len(m) \in Nat /\ BlockLength \in Nat
  BY SequenceShape, BlockAssumption
<1>2. PICK l : l = Len(m)
  OBVIOUS
<1>3. /\ Sequence(p) /\ Len(p) = l + (BlockLength - u)
      /\ Sequence(q) /\ Len(q) = l + (BlockLength - u)
      /\ \A k \in 1 .. l : p[k] = q[k]
      /\ \A j \in 1 .. BlockLength - u : p[l + j] = q[l + j]
  BY <1>2 DEF IsDomained
<1>4. ASSUME NEW k \in 1 .. Len(p) PROVE p[k] = q[k]
  <2>1. CASE k <= l
    <3>1. k \in 1 .. l
      BY <1>1, <1>2, <2>1
    <3> QED
      BY <1>3, <3>1
  <2>2. CASE k > l
    <3>1. k - l \in 1 .. BlockLength - u /\ l + (k - l) = k
      BY <1>1, <1>2, <1>3, <2>2
    <3> QED
      BY <1>3, <3>1
  <2> QED
    BY <1>1, <1>2, <2>1, <2>2
<1> QED
  BY <1>3, <1>4, SameCells

\* The padding as the standard defines it.
DomainPadding(room, domain) ==
  IF room = 1 THEN <<Bits({domain, "80"})>>
  ELSE <<Bits({domain})>> \o Zeros(room - 2) \o <<Bits({"80"})>>

LEMMA PaddingOfDomain ==
  ASSUME NEW u \in Nat, u < BlockLength, NEW domain, NEW room, room = BlockLength - u,
         NEW pad, pad = DomainPadding(room, domain)
  PROVE  /\ Sequence(pad) /\ Len(pad) = room
         /\ \A j \in 1 .. room : pad[j] = Bits(Marks(u + j, u, domain))
<1>1. BlockLength \in Nat /\ room \in Nat \ {0} /\ BlockLength = u + room
  BY BlockAssumption
<1>2. CASE room = 1
  <2>1. Sequence(pad) /\ Len(pad) = 1 /\ pad[1] = Bits({domain, "80"})
    BY <1>2, ShortSequences DEF DomainPadding
  <2>2. Marks(u + 1, u, domain) = {domain, "80"}
    BY <1>1, <1>2 DEF Marks
  <2>3. \A j \in 1 .. room : j = 1
    BY <1>2
  <2> QED
    BY <1>2, <2>1, <2>2, <2>3
<1>3. CASE room # 1
  <2>1. PICK one, zeros, last : /\ one = <<Bits({domain})>> /\ zeros = Zeros(room - 2)
                                /\ last = <<Bits({"80"})>>
    OBVIOUS
  <2>2. room - 2 \in Nat
    BY <1>1, <1>3
  <2>3. /\ Sequence(one) /\ Len(one) = 1 /\ one[1] = Bits({domain})
        /\ Sequence(zeros) /\ Len(zeros) = room - 2
        /\ \A k \in 1 .. room - 2 : zeros[k] = Zero
        /\ Sequence(last) /\ Len(last) = 1 /\ last[1] = Bits({"80"})
    BY <2>1, <2>2, ShortSequences, ZeroCells
  <2>4. PICK s : s = one \o zeros
    OBVIOUS
  <2>5. IsJoin(s, one, zeros)
    BY <2>3, <2>4, Joined
  <2>6. /\ Sequence(s) /\ Len(s) = room - 1
        /\ \A k \in 1 .. Len(s) : s[k] = IF k <= 1 THEN one[k] ELSE zeros[k - 1]
    BY <1>1, <2>3, <2>5 DEF IsJoin
  <2>7. pad = s \o last
    BY <1>3, <2>1, <2>4 DEF DomainPadding
  <2>8. IsJoin(pad, s, last)
    BY <2>3, <2>6, <2>7, Joined
  <2>9. /\ Sequence(pad) /\ Len(pad) = room
        /\ \A k \in 1 .. Len(pad) : pad[k] = IF k <= room - 1 THEN s[k]
                                             ELSE last[k - (room - 1)]
    BY <1>1, <2>3, <2>6, <2>8 DEF IsJoin
  <2>10. ASSUME NEW j \in 1 .. room PROVE pad[j] = Bits(Marks(u + j, u, domain))
    <3>1. CASE j = 1
      <4>1. j \in 1 .. Len(pad) /\ j <= room - 1 /\ j \in 1 .. Len(s) /\ j <= 1
        BY <1>1, <1>3, <2>6, <2>9, <3>1
      <4>2. pad[j] = Bits({domain})
        BY <2>3, <2>6, <2>9, <3>1, <4>1
      <4>3. u + j = u + 1 /\ u + j # BlockLength
        BY <1>1, <1>3, <3>1
      <4>4. Marks(u + j, u, domain) = {domain}
        BY <4>3 DEF Marks
      <4> QED
        BY <4>2, <4>4
    <3>2. CASE j # 1 /\ j # room
      <4>1. j \in 1 .. Len(pad) /\ j <= room - 1 /\ j \in 1 .. Len(s) /\ ~ (j <= 1)
            /\ j - 1 \in 1 .. room - 2
        <5>1. Len(pad) = room /\ Len(s) = room - 1
          BY <2>6, <2>9
        <5>2. j \in Int /\ j >= 1 /\ j <= room
          BY ONLY <1>1
        <5> QED
          BY ONLY <1>1, <3>2, <5>1, <5>2
      <4>2. pad[j] = Zero
        BY <2>3, <2>6, <2>9, <4>1
      <4>3. u + j # u + 1 /\ u + j # BlockLength
        BY <1>1, <3>2
      <4>4. Marks(u + j, u, domain) = {}
        BY <4>3 DEF Marks
      <4> QED
        BY <4>2, <4>4 DEF Zero, Bits
    <3>3. CASE j = room
      <4>1. j \in 1 .. Len(pad) /\ ~ (j <= room - 1) /\ j - (room - 1) = 1
        BY <1>1, <2>9, <3>3
      <4>2. pad[j] = Bits({"80"})
        BY <2>3, <2>9, <4>1
      <4>3. u + j # u + 1 /\ u + j = BlockLength
        BY <1>1, <1>3, <3>3
      <4>4. Marks(u + j, u, domain) = {"80"}
        BY <4>3 DEF Marks
      <4> QED
        BY <4>2, <4>4
    <3> QED
      BY <3>1, <3>2, <3>3
  <2> QED
    BY <2>9, <2>10
<1> QED
  BY <1>2, <1>3

LEMMA DomainedStandard ==
  ASSUME NEW m, Sequence(m), NEW domain, NEW u, u = Len(m) % BlockLength
  PROVE  IsDomained(PaddedWithDomain(m, domain), m, u, domain)
<1>1. PICK l : l = Len(m)
  OBVIOUS
<1>2. l \in Nat /\ BlockLength \in Nat
  BY <1>1, SequenceShape, BlockAssumption
<1>3. u \in Nat /\ u < BlockLength
  <2>1. u \in 0 .. (BlockLength - 1)
    BY <1>1, <1>2, UsedOf
  <2> QED
    BY <1>2, <2>1
<1>4. PICK room : room = BlockLength - u
  OBVIOUS
<1>5. PICK pad : pad = DomainPadding(room, domain)
  OBVIOUS
<1>6. /\ Sequence(pad) /\ Len(pad) = room
      /\ \A j \in 1 .. room : pad[j] = Bits(Marks(u + j, u, domain))
  BY <1>3, <1>4, <1>5, PaddingOfDomain
<1>7. PICK p : p = m \o pad
  OBVIOUS
<1>8. PaddedWithDomain(m, domain) = p
  BY <1>4, <1>5, <1>7 DEF PaddedWithDomain, DomainPadding
<1>9. IsJoin(p, m, pad)
  BY <1>6, <1>7, Joined
<1>10. /\ Sequence(p) /\ Len(p) = l + (BlockLength - u)
       /\ \A k \in 1 .. Len(p) : p[k] = IF k <= l THEN m[k] ELSE pad[k - l]
  BY <1>1, <1>4, <1>6, <1>9 DEF IsJoin
<1>11. ASSUME NEW k \in 1 .. l PROVE p[k] = m[k]
  <2>1. k \in 1 .. Len(p) /\ k <= l
    BY <1>2, <1>3, <1>10
  <2> QED
    BY <1>10, <2>1
<1>12. ASSUME NEW j \in 1 .. BlockLength - u
       PROVE  p[l + j] = Bits(Marks(u + j, u, domain))
  <2>1. l + j \in 1 .. Len(p) /\ ~ (l + j <= l) /\ (l + j) - l = j
    BY <1>2, <1>3, <1>10
  <2> QED
    BY <1>4, <1>6, <1>10, <2>1
<1>13. IsDomained(p, m, u, domain)
  BY <1>1, <1>10, <1>11, <1>12 DEF IsDomained
<1> QED
  BY <1>8, <1>13

RestHolds(ctx, m) ==
  /\ ContextHolds(ctx, m) /\ ctx.lo = Len(m) % BlockLength /\ ctx.hi = 0

LEMMA Sha3UpdateHolds ==
  ASSUME NEW ctx, Context(ctx), NEW m, Sequence(m), RestHolds(ctx, m),
         NEW data, Sequence(data),
         NEW after, after = Sha3Update(ctx, data)
  PROVE  /\ Context(after) /\ Sequence(m \o data) /\ RestHolds(after, m \o data)
         /\ Len(m \o data) = Len(m) + Len(data)
<1>1. PICK l, n : l = Len(m) /\ n = Len(data)
  OBVIOUS
<1>2. l \in Int /\ n \in Int /\ BlockLength \in Nat \ {0}
  BY <1>1, SequenceShape, BlockAssumption
<1>3. PICK u : u = ctx.lo
  OBVIOUS
<1>4. u = Len(m) % BlockLength /\ u = l % BlockLength
  BY <1>1, <1>3 DEF RestHolds
<1>5. PICK absorbed : absorbed = Absorb(ctx, u, data)
  OBVIOUS
<1>6. PICK all : all = m \o data
  OBVIOUS
<1>7. /\ Context(absorbed) /\ Sequence(all) /\ ContextHolds(absorbed, all)
      /\ Len(all) = Len(m) + Len(data)
      /\ absorbed.lo = ctx.lo /\ absorbed.hi = ctx.hi
  BY <1>4, <1>5, <1>6, AbsorbHolds DEF RestHolds
<1>8. after = [absorbed EXCEPT !.lo = (u + n) % BlockLength]
  BY <1>1, <1>3, <1>5 DEF Sha3Update, RestHolds
<1>9. (u + n) % BlockLength = (l + n) % BlockLength
  BY <1>2, <1>4, RemainderPlus
<1>10. after = [state |-> absorbed.state, buffer |-> absorbed.buffer,
                lo |-> (l + n) % BlockLength, hi |-> ctx.hi]
  BY <1>7, <1>8, <1>9 DEF Context
<1>11. Context(after) /\ ContextHolds(after, all)
  BY <1>7, <1>10 DEF Context, ContextHolds, Cell
<1>12. after.lo = Len(all) % BlockLength /\ after.hi = 0
  BY <1>1, <1>7, <1>10 DEF RestHolds
<1> QED
  BY <1>6, <1>7, <1>11, <1>12 DEF RestHolds

LEMMA Sha3FinalHolds ==
  ASSUME NEW ctx, Context(ctx), NEW m, Sequence(m), RestHolds(ctx, m), NEW domain,
         NEW after, after = Sha3Finalize(ctx, domain)
  PROVE  /\ Context(after) /\ after.hi = 1
         /\ after.state = PaddedWithDomain(m, domain) /\ Len(after.state) >= 1
<1>1. PICK l : l = Len(m)
  OBVIOUS
<1>2. PICK u : u = ctx.lo
  OBVIOUS
<1>3. l \in Nat /\ BlockLength \in Nat /\ BlockLength > 3 /\ u = l % BlockLength
      /\ Sequence(ctx.state)
  BY <1>1, <1>2, SequenceShape, BlockAssumption DEF RestHolds, Context
<1>4. u \in Nat /\ u < BlockLength /\ u <= l
  <2>1. u \in 0 .. (BlockLength - 1) /\ u <= l
    BY <1>3, UsedOf
  <2> QED
    BY <1>3, <2>1
<1>5. PICK e : e = l - u
  OBVIOUS
<1>6. e \in Nat /\ l = e + u
  BY <1>3, <1>4, <1>5
<1>7. HoldsBut(ctx, m, u)
  BY <1>1, <1>3, HoldsButUsed DEF RestHolds
<1>8. /\ Len(ctx.state) = e
      /\ \A k \in 1 .. l : m[k] = IF k <= e THEN ctx.state[k] ELSE ctx.buffer[k - e]
  BY <1>1, <1>5, <1>7 DEF HoldsBut
<1>9. PICK zeros : zeros = Zeros(BlockLength - u)
  OBVIOUS
<1>10. /\ Sequence(zeros) /\ Len(zeros) = BlockLength - u
       /\ \A k \in 1 .. BlockLength - u : zeros[k] = Zero
  <2>1. BlockLength - u \in Nat
    BY <1>3, <1>4
  <2> QED
    BY <1>9, <2>1, ZeroCells
<1>11. PICK cleared : cleared = Overwrite(ctx.buffer, u, zeros)
  OBVIOUS
<1>12. IsOver(cleared, ctx.buffer, u, zeros)
  BY <1>4, <1>10, <1>11, Overwritten
<1>13. /\ Sequence(cleared) /\ Len(cleared) = BlockLength
       /\ \A k \in 1 .. BlockLength :
             cleared[k] = IF k > u /\ k <= u + (BlockLength - u) THEN zeros[k - u]
                          ELSE ctx.buffer[k]
  BY <1>10, <1>12 DEF IsOver
<1>14. ASSUME NEW k \in 1 .. u PROVE cleared[k] = ctx.buffer[k]
  <2>1. k \in 1 .. BlockLength /\ ~ (k > u)
    BY <1>3, <1>4
  <2> QED
    BY <1>13, <2>1
<1>15. ASSUME NEW k \in u + 1 .. BlockLength PROVE cleared[k] = Zero
  <2>1. k \in 1 .. BlockLength /\ k > u /\ k <= u + (BlockLength - u)
        /\ k - u \in 1 .. BlockLength - u
    BY <1>3, <1>4
  <2> QED
    BY <1>10, <1>13, <2>1
<1>16. DOMAIN cleared = 1 .. BlockLength
  BY <1>13, SequenceShape
<1>17. PICK marked : marked = [cleared EXCEPT ![u + 1] = Bits(@[2] \cup {domain})]
  OBVIOUS
<1>18. PICK closed : closed = [marked EXCEPT ![BlockLength] = Bits(@[2] \cup {"80"})]
  OBVIOUS
<1>19. \A s : Bits(s)[2] = s /\ Zero = Bits({})
  BY DEF Bits, Zero
<1>20. u + 1 \in 1 .. BlockLength /\ u + 1 \in u + 1 .. BlockLength
       /\ BlockLength \in 1 .. BlockLength /\ BlockLength \in u + 1 .. BlockLength
  BY <1>3, <1>4
<1>21. /\ marked = [k \in 1 .. BlockLength |-> marked[k]]
       /\ marked[u + 1] = Bits({domain})
       /\ \A k \in 1 .. BlockLength : k # u + 1 => marked[k] = cleared[k]
  <2>1. PICK v : v = Bits(cleared[u + 1][2] \cup {domain})
    OBVIOUS
  <2>2. v = Bits({domain})
    <3>1. cleared[u + 1] = Zero
      BY <1>15, <1>20
    <3>2. cleared[u + 1][2] = {}
      BY <1>19, <3>1
    <3> QED
      BY <2>1, <3>2
  <2>3. marked = [cleared EXCEPT ![u + 1] = v]
    BY <1>17, <2>1
  <2> QED
    BY <1>16, <1>20, <2>2, <2>3
<1>22. /\ closed = [k \in 1 .. BlockLength |-> closed[k]]
       /\ closed[BlockLength] = Bits(marked[BlockLength][2] \cup {"80"})
       /\ \A k \in 1 .. BlockLength : k # BlockLength => closed[k] = marked[k]
  <2>1. PICK v : v = Bits(marked[BlockLength][2] \cup {"80"})
    OBVIOUS
  <2>2. closed = [marked EXCEPT ![BlockLength] = v]
    BY <1>18, <2>1
  <2> QED
    BY <1>20, <1>21, <2>1, <2>2
<1>23. Sequence(closed) /\ Len(closed) = BlockLength
  BY <1>3, <1>22, SequenceOfFunction
<1>24. ASSUME NEW k \in 1 .. u PROVE closed[k] = ctx.buffer[k]
  <2>1. k \in 1 .. BlockLength /\ k # u + 1 /\ k # BlockLength
    BY <1>3, <1>4
  <2> QED
    BY <1>14, <1>21, <1>22, <2>1
<1>25. ASSUME NEW k \in u + 1 .. BlockLength
       PROVE  closed[k] = Bits(Marks(k, u, domain))
  <2>1. k \in 1 .. BlockLength
    BY <1>3, <1>4
  <2>2. PICK s : s = IF k = u + 1 THEN {domain} ELSE {}
    OBVIOUS
  <2>3. marked[k] = Bits(s)
    BY <1>15, <1>19, <1>21, <2>1, <2>2
  <2>4. CASE k = BlockLength
    <3>1. closed[k] = Bits(s \cup {"80"})
      BY <1>19, <1>22, <2>3, <2>4
    <3>2. Marks(k, u, domain) = s \cup {"80"}
      BY <2>2, <2>4 DEF Marks
    <3> QED
      BY <3>1, <3>2
  <2>5. CASE k # BlockLength
    <3>1. closed[k] = Bits(s)
      BY <1>22, <2>1, <2>3, <2>5
    <3>2. Marks(k, u, domain) = s
      BY <2>2, <2>5 DEF Marks
    <3> QED
      BY <3>1, <3>2
  <2> QED
    BY <2>4, <2>5
<1>26. PICK p : p = ctx.state \o closed
  OBVIOUS
<1>27. IsJoin(p, ctx.state, closed)
  BY <1>3, <1>23, <1>26, Joined
<1>28. /\ Sequence(p) /\ Len(p) = e + BlockLength
       /\ \A k \in 1 .. Len(p) : p[k] = IF k <= e THEN ctx.state[k] ELSE closed[k - e]
  BY <1>8, <1>23, <1>27 DEF IsJoin
<1>29. ASSUME NEW j \in 1 .. BlockLength PROVE p[e + j] = closed[j]
  <2>1. e + j \in 1 .. Len(p) /\ ~ (e + j <= e) /\ (e + j) - e = j
    BY <1>3, <1>6, <1>28
  <2> QED
    BY <1>28, <2>1
<1>30. ASSUME NEW k \in 1 .. l PROVE p[k] = m[k]
  <2>1. CASE k <= e
    <3>1. k \in 1 .. Len(p)
      BY <1>3, <1>6, <1>28, <2>1
    <3> QED
      BY <1>8, <1>28, <2>1, <3>1
  <2>2. CASE k > e
    <3>1. PICK j : j = k - e
      OBVIOUS
    <3>2. j \in 1 .. u /\ e + j = k /\ j \in 1 .. BlockLength /\ ~ (k <= e)
      BY <1>3, <1>4, <1>6, <2>2, <3>1
    <3>3. p[k] = closed[j] /\ closed[j] = ctx.buffer[j]
      BY <1>24, <1>29, <3>2
    <3>4. m[k] = ctx.buffer[j]
      BY <1>8, <3>1, <3>2
    <3> QED
      BY <3>3, <3>4
  <2> QED
    BY <1>6, <2>1, <2>2
<1>31. ASSUME NEW j \in 1 .. BlockLength - u
       PROVE  p[l + j] = Bits(Marks(u + j, u, domain))
  <2>1. u + j \in u + 1 .. BlockLength /\ u + j \in 1 .. BlockLength /\ e + (u + j) = l + j
    BY <1>3, <1>4, <1>6
  <2> QED
    BY <1>25, <1>29, <2>1
<1>32. Len(p) = l + (BlockLength - u) /\ Len(p) >= 1
  BY <1>3, <1>4, <1>6, <1>28
<1>33. IsDomained(p, m, u, domain)
  BY <1>1, <1>28, <1>30, <1>31, <1>32 DEF IsDomained
<1>34. p = PaddedWithDomain(m, domain)
  <2>1. IsDomained(PaddedWithDomain(m, domain), m, u, domain)
    BY <1>1, <1>3, DomainedStandard
  <2> QED
    BY <1>4, <1>33, <2>1, SameDomained
<1>35. after = [ctx EXCEPT !.state = p, !.buffer = closed, !.lo = 0, !.hi = 1]
  <2>1. ctx.hi # 1
    BY DEF RestHolds
  <2>2. after = [ctx EXCEPT !.state = Transform(ctx.state, closed), !.buffer = closed,
                            !.lo = 0, !.hi = 1]
    BY <1>2, <1>9, <1>11, <1>17, <1>18, <2>1 DEF Sha3Finalize, Context
  <2> QED
    BY <1>26, <2>2 DEF Transform
<1>36. after = [state |-> p, buffer |-> closed, lo |-> 0, hi |-> 1]
  BY <1>35 DEF Context
<1> QED
  BY <1>28, <1>32, <1>34, <1>36 DEF Context

-----------------------------------------------------------------------------
(* The contexts.                                                           *)

LEMMA FreshHolds ==
  ASSUME NEW ctx, ctx = FreshContext, NEW m, m = << >>
  PROVE  /\ Context(ctx) /\ ContextHolds(ctx, m) /\ Sequence(m) /\ Len(m) = 0
         /\ Sha2Holds(ctx, m) /\ RipemdHolds(ctx, m) /\ RestHolds(ctx, m)
<1>1. /\ BlockLength \in Nat \ {0} /\ WordModulus \in Nat \ {0}
      /\ Len(m) = 0 /\ m \in Seq({})
  BY BlockAssumption, WordAssumption
<1>2. Sequence(m)
  BY <1>1, SequenceOver
<1>3. 0 % BlockLength = 0 /\ 0 % WordModulus = 0 /\ 0 \div WordModulus = 0
  <2>1. /\ 0 \in Int /\ 0 = BlockLength * 0 + 0 /\ 0 = WordModulus * 0 + 0
        /\ 0 \in 0 .. (BlockLength - 1) /\ 0 \in 0 .. (WordModulus - 1)
    BY <1>1
  <2> QED
    BY <1>1, <2>1, Divided
<1>4. ctx = [state |-> << >>, buffer |-> NoBytes, lo |-> 0, hi |-> 0]
  BY DEF FreshContext
<1>5. Context(ctx)
  BY <1>2, <1>4 DEF Context
<1>6. ContextHolds(ctx, m)
  <2>1. Len(ctx.state) = 0 /\ 0 - 0 = 0 /\ 1 .. 0 = {}
    BY <1>4
  <2> QED
    BY <1>1, <1>3, <2>1 DEF ContextHolds
<1>7. Counts(ctx, 0) /\ 8 * 0 = 0 /\ ctx.lo = 0 /\ ctx.hi = 0
  BY <1>3, <1>4 DEF Counts
<1> QED
  BY <1>1, <1>2, <1>3, <1>5, <1>6, <1>7 DEF Sha2Holds, RipemdHolds, RestHolds

LEMMA MessageCells ==
  ASSUME NEW n \in Nat, NEW m, m = MessageOf(n)
  PROVE  Sequence(m) /\ Len(m) = n /\ \A k \in 1 .. n : m[k] = Message(k)
<1>1. m = [k \in 1 .. n |-> m[k]] /\ \A k \in 1 .. n : m[k] = Message(k)
  BY DEF MessageOf
<1> QED
  BY <1>1, SequenceOfFunction

\* The cells that an update feeds continue the message.
NextBytes(l, n) == [k \in 1 .. n |-> Message(l + k)]
Continues(m, data, l, n) ==
  Sequence(data) /\ Len(data) = n /\ m \o data = MessageOf(l + n)

LEMMA MessageContinued ==
  ASSUME NEW l \in Nat, NEW n \in Nat, NEW m, m = MessageOf(l),
         NEW data, data = NextBytes(l, n)
  PROVE  Continues(m, data, l, n)
<1>1. data = [k \in 1 .. n |-> data[k]] /\ \A k \in 1 .. n : data[k] = Message(l + k)
  BY DEF NextBytes
<1>2. Sequence(data) /\ Len(data) = n
  BY <1>1, SequenceOfFunction
<1>3. Sequence(m) /\ Len(m) = l /\ \A k \in 1 .. l : m[k] = Message(k)
  BY MessageCells
<1>4. PICK s, t : s = m \o data /\ t = MessageOf(l + n)
  OBVIOUS
<1>5. IsJoin(s, m, data)
  BY <1>2, <1>3, <1>4, Joined
<1>6. /\ Sequence(s) /\ Len(s) = l + n
      /\ \A k \in 1 .. Len(s) : s[k] = IF k <= l THEN m[k] ELSE data[k - l]
  BY <1>2, <1>3, <1>5 DEF IsJoin
<1>7. Sequence(t) /\ Len(t) = l + n /\ \A k \in 1 .. l + n : t[k] = Message(k)
  BY <1>4, MessageCells
<1>8. ASSUME NEW k \in 1 .. Len(s) PROVE s[k] = t[k]
  <2>1. CASE k <= l
    BY <1>3, <1>6, <1>7, <2>1
  <2>2. CASE k > l
    <3>1. ~ (k <= l) /\ k - l \in 1 .. n /\ l + (k - l) = k
      BY <1>6, <2>2
    <3>2. s[k] = data[k - l] /\ data[k - l] = Message(l + (k - l))
      BY <1>1, <1>6, <3>1
    <3> QED
      BY <1>6, <1>7, <3>1, <3>2
  <2> QED
    BY <1>6, <2>1, <2>2
<1>9. s = t
  BY <1>6, <1>7, <1>8, SameCells
<1> QED
  BY <1>2, <1>4, <1>9 DEF Continues

\* What is proved by induction: also that an open context is a context.
HashStrong ==
  /\ HashInv
  /\ alg # "none" /\ digest = << >> => Context(hctx)

LEMMA HashStart ==
  ASSUME HashInit
  PROVE  HashStrong
  BY DEF HashInit, HashStrong, HashInv, DigestIsOfMessage

LEMMA StartStep ==
  ASSUME HashStrong, NEW a \in Algorithms, StartHash(a)
  PROVE  HashStrong'
<1>1. /\ alg' = a /\ a \in Algorithms /\ a # "none" /\ hctx' = FreshContext
      /\ fed' = 0 /\ digest' = << >>
  BY DEF StartHash, Algorithms
<1>2. PICK ctx, m : ctx = FreshContext /\ m = << >>
  OBVIOUS
<1>3. /\ Context(ctx) /\ ContextHolds(ctx, m) /\ Len(m) = 0
      /\ Sha2Holds(ctx, m) /\ RipemdHolds(ctx, m) /\ RestHolds(ctx, m)
  BY <1>2, FreshHolds
<1>4. MessageOf(0) = m
  <2>1. PICK o : o = MessageOf(0)
    OBVIOUS
  <2>2. Sequence(o) /\ Len(o) = 0
    BY <2>1, MessageCells
  <2>3. Sequence(m)
    BY <1>2, FreshHolds
  <2>4. o = m
    BY <1>3, <2>2, <2>3, SameCells
  <2> QED
    BY <2>1, <2>4
<1>5. Counts(ctx, 8 * 0) /\ Counts(ctx, 0) /\ ctx.lo = 0 % BlockLength /\ ctx.hi = 0
  BY <1>3 DEF Sha2Holds, RipemdHolds, RestHolds
<1>6. Open'
  BY <1>1, <1>2, <1>3, <1>4, <1>5 DEF Open
<1>7. DigestIsOfMessage'
  BY <1>1 DEF DigestIsOfMessage
<1> QED
  BY <1>1, <1>2, <1>3, <1>6, <1>7 DEF HashStrong, HashInv

LEMMA UpdateStep ==
  ASSUME HashStrong, NEW n \in Chunks, HashUpdate(n)
  PROVE  HashStrong'
<1>1. n \in Nat /\ fed \in Nat /\ alg # "none" /\ alg \in Algorithms
  BY StreamAssumption DEF HashStrong, HashInv, HashUpdate
<1>2. PICK l, ctx, m : l = fed /\ ctx = hctx /\ m = MessageOf(fed)
  OBVIOUS
<1>3. PICK data : data = [k \in 1 .. n |-> Message(fed + k)]
  OBVIOUS
<1>4. PICK after : after = hctx'
  OBVIOUS
<1>5. CASE digest # << >>
  <2>1. alg \in {"sha3", "keccak"} /\ hctx.hi = 1 /\ hctx.state = digest
    BY <1>1, <1>5 DEF HashUpdate, HashStrong, HashInv, Closed
  <2>2. hctx' = hctx
    BY <2>1 DEF HashUpdate, Sha3Update
  <2>3. UNCHANGED hashVars
    BY <1>5, <2>2 DEF HashUpdate, hashVars
  <2> QED
    BY <2>3 DEF HashStrong, HashInv, Open, Closed, DigestIsOfMessage, Domain, hashVars
<1>6. CASE digest = << >>
  <2>1. /\ fed' = fed + n /\ alg' = alg /\ digest' = << >>
    BY <1>6 DEF HashUpdate
  <2>2. Open /\ Context(ctx)
    BY <1>1, <1>2, <1>6 DEF HashStrong, HashInv
  <2>3. l \in Nat /\ Sequence(m) /\ Len(m) = l
    BY <1>1, <1>2, MessageCells
  <2>4. Sequence(data) /\ Len(data) = n /\ m \o data = MessageOf(l + n)
    <3>1. m = MessageOf(l) /\ data = NextBytes(l, n) /\ n \in Nat
      BY <1>1, <1>2, <1>3 DEF NextBytes
    <3>2. Continues(m, data, l, n)
      BY <2>3, <3>1, MessageContinued
    <3> QED
      BY <3>2 DEF Continues
  <2>5. PICK all : all = m \o data
    OBVIOUS
  <2>6. all = MessageOf(fed') /\ Len(all) = fed'
    <3>1. all = MessageOf(l + n) /\ l + n \in Nat
      BY <1>1, <2>3, <2>4, <2>5
    <3>2. Len(all) = l + n
      BY <3>1, MessageCells
    <3> QED
      BY <1>2, <2>1, <3>1, <3>2
  <2>7. ContextHolds(ctx, m)
    BY <1>2, <2>2 DEF Open
  <2>8. CASE alg = "sha2"
    <3>1. after = Sha2Update(ctx, data)
      BY <1>2, <1>3, <1>4, <2>8 DEF HashUpdate
    <3>2. Sha2Holds(ctx, m)
      BY <1>2, <2>2, <2>3, <2>7, <2>8 DEF Open, Sha2Holds
    <3>3. Context(after) /\ Sha2Holds(after, all)
      BY <2>2, <2>3, <2>4, <2>5, <3>1, <3>2, Sha2UpdateHolds
    <3>4. Open'
      BY <1>4, <2>1, <2>6, <2>8, <3>3 DEF Open, Sha2Holds
    <3> QED
      BY <1>1, <1>4, <2>1, <3>3, <3>4 DEF HashStrong, HashInv, DigestIsOfMessage
  <2>9. CASE alg = "ripemd160"
    <3>1. after = RipemdUpdate(ctx, data)
      BY <1>2, <1>3, <1>4, <2>9 DEF HashUpdate
    <3>2. RipemdHolds(ctx, m)
      BY <1>2, <2>2, <2>3, <2>7, <2>9 DEF Open, RipemdHolds
    <3>3. Context(after) /\ RipemdHolds(after, all)
      BY <2>2, <2>3, <2>4, <2>5, <3>1, <3>2, RipemdUpdateHolds
    <3>4. Open'
      BY <1>4, <2>1, <2>6, <2>9, <3>3 DEF Open, RipemdHolds
    <3> QED
      BY <1>1, <1>4, <2>1, <3>3, <3>4 DEF HashStrong, HashInv, DigestIsOfMessage
  <2>10. CASE alg \in {"sha3", "keccak"}
    <3>1. after = Sha3Update(ctx, data)
      BY <1>2, <1>3, <1>4, <2>10 DEF HashUpdate
    <3>2. RestHolds(ctx, m)
      BY <1>2, <2>2, <2>3, <2>7, <2>10 DEF Open, RestHolds
    <3>3. Context(after) /\ RestHolds(after, all)
      BY <2>2, <2>3, <2>4, <2>5, <3>1, <3>2, Sha3UpdateHolds
    <3>4. Open'
      BY <1>4, <2>1, <2>6, <2>10, <3>3 DEF Open, RestHolds
    <3> QED
      BY <1>1, <1>4, <2>1, <3>3, <3>4 DEF HashStrong, HashInv, DigestIsOfMessage
  <2> QED
    BY <1>1, <2>8, <2>9, <2>10 DEF Algorithms
<1> QED
  BY <1>5, <1>6

LEMMA FinalStep ==
  ASSUME HashStrong, Sha2Final \/ Ripemd160Final \/ Sha3Final
  PROVE  HashStrong'
<1>1. PICK l, ctx, m : l = fed /\ ctx = hctx /\ m = MessageOf(fed)
  OBVIOUS
<1>2. fed \in Nat /\ alg \in Algorithms \cup {"none"} /\ l \in Nat /\ Sequence(m) /\ Len(m) = l
  BY <1>1, MessageCells DEF HashStrong, HashInv
<1>3. ASSUME alg' = alg, fed' = fed, alg # "none", digest' # << >>, Closed',
             digest' = IF alg \in {"sha2", "ripemd160"} THEN PaddedWithLength(m)
                       ELSE PaddedWithDomain(m, Domain)
      PROVE  HashStrong'
  <2>1. DigestIsOfMessage'
    BY <1>1, <1>3 DEF DigestIsOfMessage, Domain
  <2> QED
    BY <1>2, <1>3, <2>1 DEF HashStrong, HashInv
<1>4. Len(<< >>) = 0
  OBVIOUS
<1>5. CASE Sha2Final
  <2>1. /\ alg = "sha2" /\ digest = << >> /\ alg' = alg /\ fed' = fed
        /\ digest' = Sha2Last(ctx)
    BY <1>1, <1>5 DEF Sha2Final
  <2>2. Context(ctx) /\ Sha2Holds(ctx, m)
    BY <1>1, <1>2, <2>1 DEF HashStrong, HashInv, Open, Sha2Holds
  <2>3. Sha2Last(ctx) = PaddedWithLength(m) /\ Len(Sha2Last(ctx)) >= 3
    BY <1>2, <2>2, Sha2LastHolds
  <2>4. digest' # << >>
    BY <1>4, <2>1, <2>3
  <2>5. Closed'
    BY <2>1 DEF Closed
  <2> QED
    BY <1>3, <2>1, <2>3, <2>4, <2>5
<1>6. CASE Ripemd160Final
  <2>1. /\ alg = "ripemd160" /\ digest = << >> /\ alg' = alg /\ fed' = fed
        /\ digest' = RipemdFinal(ctx).state
    BY <1>1, <1>6 DEF Ripemd160Final
  <2>2. Context(ctx) /\ RipemdHolds(ctx, m)
    BY <1>1, <1>2, <2>1 DEF HashStrong, HashInv, Open, RipemdHolds
  <2>3. RipemdFinal(ctx).state = PaddedWithLength(m) /\ Len(RipemdFinal(ctx).state) >= 3
    BY <1>2, <2>2, RipemdFinalHolds
  <2>4. digest' # << >>
    BY <1>4, <2>1, <2>3
  <2>5. Closed'
    BY <2>1 DEF Closed
  <2> QED
    BY <1>3, <2>1, <2>3, <2>4, <2>5
<1>7. CASE Sha3Final
  <2>1. /\ alg \in {"sha3", "keccak"} /\ alg' = alg /\ fed' = fed
        /\ hctx' = Sha3Finalize(ctx, Domain) /\ digest' = hctx'.state
    BY <1>1, <1>7 DEF Sha3Final
  <2>2. CASE digest # << >>
    <3>1. hctx.hi = 1 /\ hctx.state = digest
      BY <2>1, <2>2 DEF HashStrong, HashInv, Closed
    <3>2. hctx' = hctx
      BY <1>1, <2>1, <3>1 DEF Sha3Finalize
    <3>3. UNCHANGED hashVars
      BY <2>1, <3>1, <3>2 DEF hashVars
    <3> QED
      BY <3>3 DEF HashStrong, HashInv, Open, Closed, DigestIsOfMessage, Domain, hashVars
  <2>3. CASE digest = << >>
    <3>1. Context(ctx) /\ RestHolds(ctx, m)
      BY <1>1, <1>2, <2>1, <2>3 DEF HashStrong, HashInv, Open, RestHolds
    <3>2. PICK after, domain : after = hctx' /\ domain = Domain
      OBVIOUS
    <3>3. after = Sha3Finalize(ctx, domain)
      BY <2>1, <3>2
    <3>4. /\ after.hi = 1
          /\ after.state = PaddedWithDomain(m, domain) /\ Len(after.state) >= 1
      BY <1>2, <3>1, <3>3, Sha3FinalHolds
    <3>5. digest' # << >>
      BY <1>4, <2>1, <3>2, <3>4
    <3>6. Closed'
      BY <2>1, <3>2, <3>4 DEF Closed
    <3> QED
      BY <1>3, <2>1, <3>2, <3>4, <3>5, <3>6
  <2> QED
    BY <2>2, <2>3
<1> QED
  BY <1>5, <1>6, <1>7

\* What every context holds, at any point of its life.
THEOREM HashStrongCorrect == HashSpec => []HashStrong
<1>1. HashInit => HashStrong
  BY HashStart
<1>2. HashStrong /\ [HashNext]_hashVars => HashStrong'
  <2> SUFFICES ASSUME HashStrong, [HashNext]_hashVars PROVE HashStrong'
    OBVIOUS
  <2>1. CASE UNCHANGED hashVars
    BY <2>1 DEF HashStrong, HashInv, Open, Closed, DigestIsOfMessage, Domain, hashVars
  <2>2. CASE HashNext
    BY <2>2, StartStep, UpdateStep, FinalStep DEF HashNext
  <2> QED
    BY <2>1, <2>2
<1> QED
  BY <1>1, <1>2, PTL DEF HashSpec

\* The digest that Final returns is that of the whole message, padded as the
\* standard says, whatever the lengths of the message, of the block and of
\* the pieces it came in (sha2.c, ripemd160.c, sha3.c).
THEOREM DigestCorrect == HashSpec => []DigestIsOfMessage
<1>1. HashStrong => DigestIsOfMessage
  BY DEF HashStrong, HashInv
<1> QED
  BY <1>1, HashStrongCorrect, PTL

-----------------------------------------------------------------------------
(* HMAC.                                                                   *)

LEMMA DigestShape ==
  ASSUME NEW s, NEW d, d = DigestOf(s)
  PROVE  /\ Sequence(d) /\ Len(d) = DigestLength
         /\ \A k \in 1 .. DigestLength : d[k] = <<"digest", s, k>>
<1>1. DigestLength \in Nat
  BY DigestAssumption, BlockAssumption DEF ShortLength
<1>2. d = [k \in 1 .. DigestLength |-> d[k]]
      /\ \A k \in 1 .. DigestLength : d[k] = <<"digest", s, k>>
  BY DEF DigestOf
<1> QED
  BY <1>1, <1>2, SequenceOfFunction

LEMMA PadShape ==
  ASSUME NEW block, Sequence(block), NEW pad, NEW c, c = XorPad(pad, block)
  PROVE  /\ Sequence(c) /\ Len(c) = Len(block)
         /\ \A k \in 1 .. Len(block) : c[k] = <<pad, block[k]>>
<1>1. Len(block) \in Nat
  BY SequenceShape
<1>2. PICK n : n = Len(block)
  OBVIOUS
<1>3. c = [k \in 1 .. n |-> c[k]] /\ \A k \in 1 .. n : c[k] = <<pad, block[k]>>
  BY <1>2 DEF XorPad
<1> QED
  BY <1>1, <1>2, <1>3, SequenceOfFunction

\* Nothing before or behind a sequence is the sequence.
LEMMA EmptyJoin ==
  ASSUME NEW s, Sequence(s)
  PROVE  << >> \o s = s /\ s \o << >> = s
  BY ConcatEmptySeq DEF Sequence

\* A new context holds what it was updated with.
LEMMA Sha2Begun ==
  ASSUME NEW data, Sequence(data), NEW ctx, ctx = Sha2Update(FreshContext, data)
  PROVE  Context(ctx) /\ Sha2Holds(ctx, data)
<1>1. PICK fresh, e : fresh = FreshContext /\ e = << >>
  OBVIOUS
<1>2. Context(fresh) /\ Sequence(e) /\ Sha2Holds(fresh, e)
  BY <1>1, FreshHolds
<1>3. Context(ctx) /\ Sha2Holds(ctx, e \o data)
  BY <1>1, <1>2, Sha2UpdateHolds
<1>4. e \o data = data
  BY <1>1, EmptyJoin
<1> QED
  BY <1>3, <1>4

\* The key as one block is the standard's.
LEMMA BlockOfKey ==
  ASSUME NEW k, Sequence(k), NEW block, block = StandardBlock(k)
  PROVE  Sequence(block) /\ Len(block) = BlockLength /\ KeyBlock(k) = block
<1>1. CASE Len(k) > BlockLength
  <2>1. PICK ctx, d : ctx = Sha2Update(FreshContext, k) /\ d = Sha2(k)
    OBVIOUS
  <2>2. Context(ctx) /\ Sha2Holds(ctx, k)
    BY <2>1, Sha2Begun
  <2>3. Sha2Last(ctx) = PaddedWithLength(k)
    BY <2>2, Sha2LastHolds
  <2>4. DigestOf(Sha2Last(Sha2Update(FreshContext, k))) = d
    BY <2>1, <2>3 DEF Sha2
  <2>5. KeyBlock(k) = Overwrite(NoBytes, 0, d) /\ block = Overwrite(NoBytes, 0, d)
    BY <1>1, <2>1, <2>4 DEF KeyBlock, StandardBlock
  <2>6. Sequence(d)
    BY <2>1, DigestShape DEF Sha2
  <2>7. IsOver(block, NoBytes, 0, d)
    BY <2>5, <2>6, Overwritten
  <2> QED
    BY <2>5, <2>7 DEF IsOver
<1>2. CASE ~ (Len(k) > BlockLength)
  <2>1. KeyBlock(k) = Overwrite(NoBytes, 0, k) /\ block = Overwrite(NoBytes, 0, k)
    BY <1>2 DEF KeyBlock, StandardBlock
  <2>2. IsOver(block, NoBytes, 0, k)
    BY <2>1, Overwritten
  <2> QED
    BY <2>1, <2>2 DEF IsOver
<1> QED
  BY <1>1, <1>2

\* The two key blocks, inner and outer.
KeyPads(k, inner, outer) ==
  /\ inner = XorPad("36", StandardBlock(k)) /\ outer = XorPad("5c", StandardBlock(k))
  /\ Sequence(inner) /\ Len(inner) = BlockLength
  /\ Sequence(outer) /\ Len(outer) = BlockLength

LEMMA PadsOfKey ==
  ASSUME NEW k, Sequence(k),
         NEW inner, inner = XorPad("36", StandardBlock(k)),
         NEW outer, outer = XorPad("5c", StandardBlock(k))
  PROVE  /\ KeyPads(k, inner, outer)
         /\ XorPad("36", KeyBlock(k)) = inner /\ XorPad("5c", KeyBlock(k)) = outer
         /\ \A i \in 1 .. BlockLength : inner[i] = <<"36", StandardBlock(k)[i]>>
<1>1. PICK block : block = StandardBlock(k)
  OBVIOUS
<1>2. Sequence(block) /\ Len(block) = BlockLength /\ KeyBlock(k) = block
  BY <1>1, BlockOfKey
<1>3. inner = XorPad("36", block) /\ outer = XorPad("5c", block)
  BY <1>1
<1>4. /\ Sequence(inner) /\ Len(inner) = BlockLength
      /\ \A i \in 1 .. BlockLength : inner[i] = <<"36", block[i]>>
  BY <1>2, <1>3, PadShape
<1>5. Sequence(outer) /\ Len(outer) = BlockLength
  BY <1>2, <1>3, PadShape
<1> QED
  BY <1>1, <1>2, <1>3, <1>4, <1>5 DEF KeyPads

\* HMAC as two nested digests of what follows the key blocks.
LEMMA HmacOf ==
  ASSUME NEW k, NEW inner, NEW outer, KeyPads(k, inner, outer), NEW m
  PROVE  Hmac(k, m) = DigestOf(PaddedWithLength(outer \o DigestOf(PaddedWithLength(inner \o m))))
  BY DEF KeyPads, Hmac, Sha2

-----------------------------------------------------------------------------
(* The padding that PBKDF2 writes once.                                    *)

LEMMA HandPadded ==
  ASSUME NEW x, Sequence(x), Len(x) = BlockLength,
         NEW h, Sequence(h), Len(h) = DigestLength
  PROVE  PaddedWithLength(x \o h) = x \o Overwrite(HandPadding, 0, h)
<1>1. /\ BlockLength \in Nat /\ BlockLength > 3 /\ DigestLength \in Nat \ {0}
      /\ DigestLength < ShortLength /\ ShortLength = BlockLength - 2
      /\ DigestLength < BlockLength
  BY BlockAssumption, DigestAssumption DEF ShortLength
<1>2. PICK one, n : one = <<Bits({"80"})>> /\ n = 8 * (BlockLength + DigestLength)
  OBVIOUS
<1>3. PICK count : count = <<Counter(0), Counter(n)>>
  OBVIOUS
<1>4. /\ Sequence(one) /\ Len(one) = 1 /\ one[1] = Bits({"80"})
      /\ Sequence(count) /\ Len(count) = 2 /\ count[1] = Counter(0) /\ count[2] = Counter(n)
  BY <1>2, <1>3, ShortSequences
<1>5. PICK o : o = Overwrite(NoBytes, DigestLength, one)
  OBVIOUS
<1>6. PICK p : p = Overwrite(o, ShortLength, count)
  OBVIOUS
<1>7. p = HandPadding
  BY <1>2, <1>3, <1>5, <1>6 DEF HandPadding
<1>8. PICK c : c = Overwrite(p, 0, h)
  OBVIOUS
<1>9. \A k \in 1 .. BlockLength :
         o[k] = IF k > DigestLength /\ k <= DigestLength + 1 THEN one[k - DigestLength]
                ELSE NoBytes[k]
  <2>1. IsOver(o, NoBytes, DigestLength, one)
    BY <1>1, <1>4, <1>5, Overwritten
  <2> QED
    BY <1>4, <2>1 DEF IsOver
<1>10. \A k \in 1 .. BlockLength :
          p[k] = IF k > ShortLength /\ k <= ShortLength + 2 THEN count[k - ShortLength]
                 ELSE o[k]
  <2>1. ShortLength \in Nat
    BY <1>1
  <2>2. IsOver(p, o, ShortLength, count)
    BY <1>4, <1>6, <2>1, Overwritten
  <2> QED
    BY <1>4, <2>2 DEF IsOver
<1>11. /\ Sequence(c) /\ Len(c) = BlockLength
       /\ \A k \in 1 .. BlockLength :
             c[k] = IF k > 0 /\ k <= 0 + DigestLength THEN h[k - 0] ELSE p[k]
  <2>1. IsOver(c, p, 0, h)
    BY <1>8, Overwritten
  <2> QED
    BY <2>1 DEF IsOver
<1>12. PICK z : z = BlockLength - 3 - DigestLength
  OBVIOUS
<1>13. z \in Nat /\ BlockLength = DigestLength + z + 3 /\ z = ZerosFor(DigestLength)
  BY <1>1, <1>12 DEF ZerosFor
<1>14. \A k \in 1 .. BlockLength : NoBytes[k] = Zero
  BY <1>1, ZeroCells DEF NoBytes
<1>15. ASSUME NEW k \in 1 .. DigestLength PROVE c[k] = h[k]
  <2>1. k \in 1 .. BlockLength /\ k > 0 /\ k <= 0 + DigestLength /\ k - 0 = k
    BY <1>1
  <2> QED
    BY <1>11, <2>1
<1>16. ASSUME NEW k \in DigestLength + 1 .. BlockLength
       PROVE  k \in 1 .. BlockLength /\ c[k] = p[k]
  <2>1. k \in 1 .. BlockLength /\ ~ (k <= 0 + DigestLength)
    BY <1>1
  <2> QED
    BY <1>11, <2>1
<1>17. c[DigestLength + 1] = Bits({"80"})
  <2>1. PICK k : k = DigestLength + 1
    OBVIOUS
  <2>2. /\ k \in DigestLength + 1 .. BlockLength /\ ~ (k > ShortLength)
        /\ k > DigestLength /\ k <= DigestLength + 1 /\ k - DigestLength = 1
    BY <1>1, <2>1
  <2>3. c[k] = p[k] /\ k \in 1 .. BlockLength
    BY <1>16, <2>2
  <2>4. p[k] = o[k]
    BY <1>10, <2>2, <2>3
  <2>5. o[k] = one[1]
    BY <1>9, <2>2, <2>3
  <2> QED
    BY <1>4, <2>1, <2>3, <2>4, <2>5
<1>18. ASSUME NEW k \in DigestLength + 2 .. DigestLength + z + 1 PROVE c[k] = Zero
  <2>1. /\ k \in DigestLength + 1 .. BlockLength /\ ~ (k > ShortLength)
        /\ ~ (k <= DigestLength + 1)
    BY <1>1, <1>13
  <2>2. c[k] = p[k] /\ k \in 1 .. BlockLength
    BY <1>16, <2>1
  <2>3. p[k] = o[k]
    BY <1>10, <2>1, <2>2
  <2>4. o[k] = NoBytes[k]
    BY <1>9, <2>1, <2>2
  <2> QED
    BY <1>14, <2>2, <2>3, <2>4
<1>19. c[DigestLength + z + 2] = Counter(0)
  <2>1. PICK k : k = DigestLength + z + 2
    OBVIOUS
  <2>2. /\ k \in DigestLength + 1 .. BlockLength /\ k > ShortLength
        /\ k <= ShortLength + 2 /\ k - ShortLength = 1
    BY ONLY <1>1, <1>13, <2>1
  <2>3. c[k] = p[k] /\ k \in 1 .. BlockLength
    BY <1>16, <2>2
  <2>4. p[k] = count[1]
    BY <1>10, <2>2, <2>3
  <2> QED
    BY <1>4, <2>1, <2>3, <2>4
<1>20. c[DigestLength + z + 3] = Counter(n)
  <2>1. PICK k : k = DigestLength + z + 3
    OBVIOUS
  <2>0. k = BlockLength /\ k = ShortLength + 2 /\ k \in Nat /\ k > DigestLength
    BY ONLY <1>1, <1>13, <2>1
  <2>2. /\ k \in DigestLength + 1 .. BlockLength /\ k > ShortLength
        /\ k <= ShortLength + 2 /\ k - ShortLength = 2
    BY ONLY <1>1, <2>0
  <2>3. c[k] = p[k] /\ k \in 1 .. BlockLength
    BY <1>16, <2>2
  <2>4. p[k] = count[2]
    BY <1>10, <2>2, <2>3
  <2> QED
    BY <1>4, <2>1, <2>3, <2>4
<1>21. IsTail(c, h, DigestLength, z, 0, n)
  BY <1>11, <1>13, <1>15, <1>17, <1>18, <1>19, <1>20 DEF IsTail
<1>22. PICK m : m = x \o h
  OBVIOUS
<1>23. IsJoin(m, x, h)
  BY <1>22, Joined
<1>24. /\ Sequence(m) /\ Len(m) = BlockLength + DigestLength
       /\ \A k \in 1 .. Len(m) : m[k] = IF k <= BlockLength THEN x[k] ELSE h[k - BlockLength]
  BY <1>23 DEF IsJoin
<1>25. PICK ctx : ctx = [state |-> x, buffer |-> h]
  OBVIOUS
<1>26. ctx.state = x /\ ctx.buffer = h
  BY <1>25
<1>27. Len(m) - DigestLength = BlockLength /\ DigestLength <= Len(m)
  BY <1>1, <1>24
<1>28. HoldsBut(ctx, m, DigestLength)
  BY <1>24, <1>26, <1>27 DEF HoldsBut
<1>29. IsPadded(x \o c, m, z, 0, n)
  <2>1. Sequence(ctx.state) /\ DigestLength \in Nat /\ IsTail(c, ctx.buffer, DigestLength, z, 0, n)
    BY <1>1, <1>21, <1>26
  <2>2. IsPadded(ctx.state \o c, m, z, 0, n)
    BY <1>13, <1>24, <1>27, <1>28, <2>1, TailIsPadding
  <2> QED
    BY <1>26, <2>2
<1>30. Len(m) % BlockLength = DigestLength
  <2>1. PICK l : l = Len(m)
    OBVIOUS
  <2>2. /\ l \in Int /\ BlockLength \in Nat \ {0} /\ DigestLength \in 0 .. (BlockLength - 1)
        /\ l = BlockLength * 1 + DigestLength
    BY <1>1, <1>24, <2>1
  <2> QED
    BY <2>1, <2>2, Divided
<1>31. (8 * Len(m)) % WordModulus = n /\ ((8 * Len(m)) \div WordModulus) % WordModulus = 0
  <2>1. 8 * Len(m) = n /\ n \in Int /\ WordModulus \in Nat \ {0} /\ n \in 0 .. (WordModulus - 1)
        /\ 0 \in 0 .. (WordModulus - 1)
    BY <1>1, <1>2, <1>24, WordAssumption, KeyedAssumption
  <2>2. PICK q, r : q = 0 /\ r = 0
    OBVIOUS
  <2>3. q \in Int /\ q \in 0 .. (WordModulus - 1) /\ n = WordModulus * q + n
        /\ r \in 0 .. (WordModulus - 1) /\ r \in Int /\ r = WordModulus * q + r
    BY ONLY <2>1, <2>2
  <2>4. n % WordModulus = n /\ n \div WordModulus = q
    BY ONLY <2>1, <2>3, Divided
  <2>5. r % WordModulus = r
    BY ONLY <2>1, <2>3, Divided
  <2>6. PICK l : l = 8 * Len(m)
    OBVIOUS
  <2>7. l = n
    BY ONLY <2>1, <2>6
  <2>8. (l \div WordModulus) % WordModulus = 0
    BY ONLY <2>2, <2>4, <2>5, <2>7, Zenon
  <2>9. l % WordModulus = n
    BY ONLY <2>4, <2>7, Zenon
  <2> QED
    BY ONLY <2>6, <2>8, <2>9, Zenon
<1>32. IsPadded(PaddedWithLength(m), m, z, 0, n)
  BY <1>13, <1>24, <1>30, <1>31, PaddedStandard
<1>33. PaddedWithLength(m) = x \o c
  BY <1>13, <1>24, <1>29, <1>32, SamePadded
<1> QED
  BY <1>7, <1>8, <1>22, <1>33

\* A digest written over a digest leaves the padding alone.
LEMMA WrittenTwice ==
  ASSUME NEW b, NEW h, Sequence(h), NEW g, Sequence(g), Len(g) = Len(h)
  PROVE  Overwrite(Overwrite(b, 0, h), 0, g) = Overwrite(b, 0, g)
<1>1. Len(h) \in Nat /\ BlockLength \in Nat
  BY SequenceShape, BlockAssumption
<1>2. PICK c, d, e : c = Overwrite(b, 0, h) /\ d = Overwrite(c, 0, g) /\ e = Overwrite(b, 0, g)
  OBVIOUS
<1>3. IsOver(c, b, 0, h) /\ IsOver(d, c, 0, g) /\ IsOver(e, b, 0, g)
  BY <1>2, Overwritten
<1>4. /\ Sequence(d) /\ Len(d) = BlockLength /\ Sequence(e) /\ Len(e) = BlockLength
      /\ \A k \in 1 .. BlockLength :
           /\ c[k] = IF k > 0 /\ k <= 0 + Len(h) THEN h[k - 0] ELSE b[k]
           /\ d[k] = IF k > 0 /\ k <= 0 + Len(h) THEN g[k - 0] ELSE c[k]
           /\ e[k] = IF k > 0 /\ k <= 0 + Len(h) THEN g[k - 0] ELSE b[k]
  BY <1>3 DEF IsOver
<1>5. \A k \in 1 .. Len(d) : d[k] = e[k]
  BY <1>4
<1>6. d = e
  BY <1>4, <1>5, SameCells
<1> QED
  BY <1>2, <1>6

-----------------------------------------------------------------------------
(* Different messages have different digests, and different HMACs.         *)

LEMMA DigestInjective ==
  ASSUME NEW s, NEW t, DigestOf(s) = DigestOf(t)
  PROVE  s = t
<1>1. PICK d : d = DigestOf(s) /\ d = DigestOf(t)
  OBVIOUS
<1>2. 1 \in 1 .. DigestLength
  BY DigestAssumption
<1>3. d[1] = <<"digest", s, 1>>
  BY <1>1, <1>2, DigestShape
<1>4. d[1] = <<"digest", t, 1>>
  BY <1>1, <1>2, DigestShape
<1> QED
  BY <1>3, <1>4

\* What is padded begins with the message, and goes on with bits and counters.
PadsOut(p, m) ==
  /\ Sequence(p) /\ Len(m) \in Nat /\ Len(p) \in Nat /\ Len(m) < Len(p)
  /\ \A k \in 1 .. Len(m) : p[k] = m[k]
  /\ \A k \in Len(m) + 1 .. Len(p) : p[k][1] \in {"bits", "counter"}

LEMMA PaddedBegins ==
  ASSUME NEW m, Sequence(m), NEW p, p = PaddedWithLength(m)
  PROVE  PadsOut(p, m)
<1>1. PICK l : l = Len(m)
  OBVIOUS
<1>2. l \in Nat
  BY <1>1, SequenceShape
<1>3. PICK lo, hi, z : /\ lo = (8 * Len(m)) % WordModulus
                       /\ hi = ((8 * Len(m)) \div WordModulus) % WordModulus
                       /\ z = ZerosFor(l % BlockLength)
  OBVIOUS
<1>4. z \in Nat
  BY <1>2, <1>3, ZerosLeast
<1>5. IsPadded(p, m, z, hi, lo)
  BY <1>1, <1>3, PaddedStandard
<1>6. /\ Sequence(p) /\ Len(p) = l + z + 3
      /\ \A k \in 1 .. l : p[k] = m[k]
      /\ p[l + 1] = Bits({"80"})
      /\ \A k \in l + 2 .. l + z + 1 : p[k] = Zero
      /\ p[l + z + 2] = Counter(hi) /\ p[l + z + 3] = Counter(lo)
  BY <1>1, <1>5 DEF IsPadded
<1>7. /\ Bits({"80"})[1] = "bits" /\ Zero[1] = "bits"
      /\ Counter(hi)[1] = "counter" /\ Counter(lo)[1] = "counter"
  BY DEF Bits, Zero, Counter
<1>8. ASSUME NEW k \in l + 1 .. Len(p) PROVE p[k][1] \in {"bits", "counter"}
  <2>1. k = l + 1 \/ k \in l + 2 .. l + z + 1 \/ k = l + z + 2 \/ k = l + z + 3
    BY <1>2, <1>4, <1>6
  <2> QED
    BY <2>1, <1>6, <1>7
<1>9. Len(p) \in Nat /\ l < Len(p)
  BY <1>2, <1>4, <1>6
<1> QED
  BY <1>1, <1>2, <1>6, <1>8, <1>9 DEF PadsOut

LEMMA SameMessage ==
  ASSUME NEW m, Sequence(m), NEW q, Sequence(q), Len(m) = Len(q),
         PaddedWithLength(m) = PaddedWithLength(q)
  PROVE  m = q
<1>1. PICK p : p = PaddedWithLength(m) /\ p = PaddedWithLength(q)
  OBVIOUS
<1>2. PadsOut(p, m) /\ PadsOut(p, q)
  BY <1>1, PaddedBegins
<1>3. \A k \in 1 .. Len(m) : m[k] = q[k]
  BY <1>2 DEF PadsOut
<1> QED
  BY <1>3, SameCells

LEMMA SameEnd ==
  ASSUME NEW r, Sequence(r), NEW s, Sequence(s), NEW t, Sequence(t),
         Len(s) = Len(t), r \o s = r \o t
  PROVE  s = t
<1>1. PICK c : c = r \o s /\ c = r \o t
  OBVIOUS
<1>2. IsJoin(c, r, s) /\ IsJoin(c, r, t)
  BY <1>1, Joined
<1>3. Len(r) \in Nat /\ Len(s) \in Nat
  BY SequenceShape
<1>4. ASSUME NEW k \in 1 .. Len(s) PROVE s[k] = t[k]
  <2>1. PICK i : i = Len(r) + k
    OBVIOUS
  <2>2. i \in 1 .. Len(c) /\ ~ (i <= Len(r)) /\ i - Len(r) = k
    BY <1>2, <1>3, <2>1 DEF IsJoin
  <2>3. c[i] = s[i - Len(r)]
    BY <1>2, <2>2 DEF IsJoin
  <2>4. c[i] = t[i - Len(r)]
    BY <1>2, <2>2 DEF IsJoin
  <2> QED
    BY <2>2, <2>3, <2>4
<1> QED
  BY <1>4, SameCells

\* Equal HMACs have the same inner hash.
LEMMA SameInner ==
  ASSUME NEW k, NEW inner, NEW outer, KeyPads(k, inner, outer),
         NEW m, NEW q, Hmac(k, m) = Hmac(k, q)
  PROVE  PaddedWithLength(inner \o m) = PaddedWithLength(inner \o q)
<1>1. PICK a, b : a = PaddedWithLength(inner \o m) /\ b = PaddedWithLength(inner \o q)
  OBVIOUS
<1>2. PICK d, e : d = DigestOf(a) /\ e = DigestOf(b)
  OBVIOUS
<1>3. PICK x, y : x = outer \o d /\ y = outer \o e
  OBVIOUS
<1>4. DigestOf(PaddedWithLength(x)) = DigestOf(PaddedWithLength(y))
  BY <1>1, <1>2, <1>3, HmacOf
<1>5. PaddedWithLength(x) = PaddedWithLength(y)
  BY <1>4, DigestInjective
<1>6. Sequence(d) /\ Sequence(e) /\ Len(d) = Len(e) /\ Sequence(outer)
  BY <1>2, DigestShape DEF KeyPads
<1>7. IsJoin(x, outer, d) /\ IsJoin(y, outer, e)
  BY <1>3, <1>6, Joined
<1>8. Sequence(x) /\ Sequence(y) /\ Len(x) = Len(y)
  BY <1>6, <1>7 DEF IsJoin
<1>9. x = y
  BY <1>5, <1>8, SameMessage
<1>10. d = e
  BY <1>3, <1>6, <1>9, SameEnd
<1>11. a = b
  BY <1>2, <1>10, DigestInjective
<1> QED
  BY <1>1, <1>11

\* HMAC tells messages of one length apart.
LEMMA SameMac ==
  ASSUME NEW k, NEW inner, NEW outer, KeyPads(k, inner, outer),
         NEW m, Sequence(m), NEW q, Sequence(q), Len(m) = Len(q), Hmac(k, m) = Hmac(k, q)
  PROVE  m = q
<1>1. PICK x, y : x = inner \o m /\ y = inner \o q
  OBVIOUS
<1>2. PaddedWithLength(x) = PaddedWithLength(y)
  BY <1>1, SameInner
<1>3. Sequence(inner)
  BY DEF KeyPads
<1>4. IsJoin(x, inner, m) /\ IsJoin(y, inner, q)
  BY <1>1, <1>3, Joined
<1>5. Sequence(x) /\ Sequence(y) /\ Len(x) = Len(y)
  BY <1>4 DEF IsJoin
<1>6. x = y
  BY <1>2, <1>5, SameMessage
<1> QED
  BY <1>1, <1>3, <1>6, SameEnd

\* The HMAC of a salt with its block number is that of no digest.
LEMMA FirstMac ==
  ASSUME NEW k, NEW inner, NEW outer, KeyPads(k, inner, outer),
         NEW t, Sequence(t), NEW s
  PROVE  Hmac(k, t \o BlockNumber) # Hmac(k, DigestOf(s))
<1> SUFFICES ASSUME Hmac(k, t \o BlockNumber) = Hmac(k, DigestOf(s)) PROVE FALSE
  OBVIOUS
<1>1. PICK b, m, d : b = BlockNumber /\ m = t \o b /\ d = DigestOf(s)
  OBVIOUS
<1>2. PICK x, y : x = inner \o m /\ y = inner \o d
  OBVIOUS
<1>3. PaddedWithLength(x) = PaddedWithLength(y)
  BY <1>1, <1>2, SameInner
<1>4. PICK p : p = PaddedWithLength(x) /\ p = PaddedWithLength(y)
  BY <1>3
<1>5. /\ Sequence(b) /\ Len(b) = 1 /\ b[1] = <<"blocknr", 1>>
      /\ Sequence(d) /\ Len(d) = DigestLength
      /\ \A i \in 1 .. DigestLength : d[i] = <<"digest", s, i>>
      /\ Sequence(inner) /\ Len(inner) = BlockLength /\ BlockLength \in Nat
      /\ DigestLength \in Nat /\ Len(t) \in Nat
  <2>1. PICK number : number = <<"blocknr", 1>>
    OBVIOUS
  <2>2. Sequence(b) /\ Len(b) = 1 /\ b[1] = number
    BY <1>1, <2>1, ShortSequences DEF BlockNumber
  <2>3. /\ Sequence(d) /\ Len(d) = DigestLength
        /\ \A i \in 1 .. DigestLength : d[i] = <<"digest", s, i>>
    BY <1>1, DigestShape
  <2>4. Sequence(inner) /\ Len(inner) = BlockLength
    BY DEF KeyPads
  <2>5. BlockLength \in Nat /\ DigestLength \in Nat
    BY BlockAssumption, DigestAssumption DEF ShortLength
  <2> QED
    BY <2>1, <2>2, <2>3, <2>4, <2>5, SequenceShape
<1>6. IsJoin(m, t, b)
  BY <1>1, <1>5, Joined
<1>7. IsJoin(x, inner, m) /\ IsJoin(y, inner, d)
  BY <1>2, <1>5, <1>6, Joined DEF IsJoin
<1>8. PadsOut(p, x) /\ PadsOut(p, y)
  BY <1>4, <1>7, PaddedBegins DEF IsJoin
<1>9. PICK i, j : j = Len(t) + 1 /\ i = BlockLength + j
  OBVIOUS
<1>10. m[j] = <<"blocknr", 1>>
  <2>1. j \in 1 .. Len(m) /\ ~ (j <= Len(t)) /\ j - Len(t) = 1
    BY <1>5, <1>6, <1>9 DEF IsJoin
  <2>2. m[j] = b[j - Len(t)]
    BY <1>6, <2>1 DEF IsJoin
  <2> QED
    BY <1>5, <2>1, <2>2
<1>11. i \in 1 .. Len(x) /\ x[i] = <<"blocknr", 1>>
  <2>1. i \in 1 .. Len(x) /\ ~ (i <= Len(inner)) /\ i - Len(inner) = j
    BY <1>5, <1>6, <1>7, <1>9 DEF IsJoin
  <2>2. x[i] = m[i - Len(inner)]
    BY <1>7, <2>1 DEF IsJoin
  <2> QED
    BY <1>10, <2>1, <2>2
<1>12. p[i] = <<"blocknr", 1>> /\ i \in 1 .. Len(p)
  BY <1>8, <1>11 DEF PadsOut
<1>13. CASE i <= Len(y)
  <2>1. i \in 1 .. Len(y) /\ ~ (i <= Len(inner)) /\ i - Len(inner) \in 1 .. DigestLength
    BY <1>5, <1>7, <1>9, <1>13 DEF IsJoin
  <2>2. PICK n : n = i - Len(inner)
    OBVIOUS
  <2>3. y[i] = d[n]
    BY <1>7, <2>1, <2>2 DEF IsJoin
  <2>4. p[i] = <<"digest", s, n>>
    BY <1>5, <1>8, <2>1, <2>2, <2>3 DEF PadsOut
  <2>5. p[i][1] = "digest" /\ p[i][1] = "blocknr"
    BY <1>12, <2>4
  <2> QED
    BY <2>5
<1>14. CASE ~ (i <= Len(y))
  <2>1. i \in Len(y) + 1 .. Len(p)
    BY <1>8, <1>12, <1>14 DEF PadsOut
  <2>2. p[i][1] \in {"bits", "counter"}
    BY <1>8, <2>1 DEF PadsOut
  <2> QED
    BY <1>12, <2>2
<1> QED
  BY <1>13, <1>14

-----------------------------------------------------------------------------
(* The chain U_1, U_2, ... of PBKDF2.                                      *)

Link(k, t, u, i) == IF i = 1 THEN Hmac(k, t \o BlockNumber) ELSE Hmac(k, u[i - 1])

LEMMA SameLink ==
  ASSUME NEW k, NEW t, NEW u, NEW v, NEW i, i = 1 \/ u[i - 1] = v[i - 1]
  PROVE  Link(k, t, u, i) = Link(k, t, v, i)
  BY DEF Link

IsChain(u, k, t, n) == u = [i \in 1 .. n |-> Link(k, t, u, i)]

LEMMA ChainLonger ==
  ASSUME NEW k, NEW t, NEW n \in Nat, NEW u, IsChain(u, k, t, n)
  PROVE  \E v : IsChain(v, k, t, n + 1)
<1> DEFINE value(i) == IF i \in 1 .. n THEN u[i] ELSE Link(k, t, u, n + 1)
<1>1. PICK v : v = [i \in 1 .. n + 1 |-> value(i)]
  OBVIOUS
<1>2. \A i \in 1 .. n : value(i) = u[i]
  OBVIOUS
<1>3. value(n + 1) = Link(k, t, u, n + 1)
  OBVIOUS
<1> HIDE DEF value
<1>4. \A i \in 1 .. n + 1 : v[i] = value(i)
  BY <1>1
<1>5. \A i \in 1 .. n : u[i] = Link(k, t, u, i)
  BY DEF IsChain
<1>6. ASSUME NEW i \in 1 .. n + 1 PROVE v[i] = Link(k, t, v, i)
  <2>1. i = 1 \/ u[i - 1] = v[i - 1]
    <3>1. CASE i # 1
      <4>1. PICK j : j = i - 1
        OBVIOUS
      <4>2. j \in 1 .. n /\ j \in 1 .. n + 1
        BY <3>1, <4>1
      <4>3. v[j] = u[j]
        BY <1>2, <1>4, <4>2
      <4> QED
        BY <4>1, <4>3
    <3> QED
      BY <3>1
  <2>2. Link(k, t, u, i) = Link(k, t, v, i)
    BY <2>1, SameLink
  <2>3. CASE i \in 1 .. n
    BY <1>2, <1>4, <1>5, <2>2, <2>3
  <2>4. CASE i = n + 1
    BY <1>3, <1>4, <2>2, <2>4
  <2> QED
    BY <2>3, <2>4
<1>7. v = [i \in 1 .. n + 1 |-> Link(k, t, v, i)]
  <2>1. v = [i \in 1 .. n + 1 |-> v[i]]
    BY <1>1
  <2> QED
    BY <1>6, <2>1
<1> QED
  BY <1>7 DEF IsChain

LEMMA ChainExists ==
  ASSUME NEW k, NEW t
  PROVE  \A n \in Nat : \E u : IsChain(u, k, t, n)
<1> DEFINE S == {n \in Nat : \E u : IsChain(u, k, t, n)}
<1>1. 0 \in S
  <2>1. PICK u : u = [i \in 1 .. 0 |-> Link(k, t, u, i)]
    <3>1. \A f, g : [i \in 1 .. 0 |-> Link(k, t, f, i)] = [i \in 1 .. 0 |-> Link(k, t, g, i)]
      <4>1. 1 .. 0 = {}
        OBVIOUS
      <4> QED
        BY <4>1
    <3> QED
      BY <3>1
  <2> QED
    BY <2>1 DEF IsChain
<1>2. ASSUME NEW n \in Nat, n \in S PROVE n + 1 \in S
  BY <1>2, ChainLonger
<1> HIDE DEF S
<1>3. \A n \in Nat : n \in S
  BY <1>1, <1>2, Induction
<1> QED
  BY <1>3 DEF S

LEMMA ChainIs ==
  ASSUME NEW k, NEW t, NEW n \in Nat
  PROVE  IsChain(Chain(k, t, n), k, t, n)
<1> DEFINE P(u) == IsChain(u, k, t, n)
<1>1. \E u : P(u)
  BY ChainExists
<1>2. Chain(k, t, n) = CHOOSE u : P(u)
  BY DEF Chain, IsChain, Link
<1> HIDE DEF P
<1>3. P(Chain(k, t, n))
  BY <1>1, <1>2
<1> QED
  BY <1>3 DEF P

\* A longer chain begins with the shorter.
LEMMA ChainBegins ==
  ASSUME NEW k, NEW t, NEW n \in Nat, NEW m \in Nat, m <= n,
         NEW u, IsChain(u, k, t, n), NEW v, IsChain(v, k, t, m)
  PROVE  \A i \in 1 .. m : u[i] = v[i]
<1> DEFINE S == {i \in Nat : i \in 1 .. m => u[i] = v[i]}
<1>1. 0 \in S
  OBVIOUS
<1>2. \A i \in 1 .. m : u[i] = Link(k, t, u, i) /\ v[i] = Link(k, t, v, i)
  <2>1. \A i \in 1 .. n : u[i] = Link(k, t, u, i)
    BY DEF IsChain
  <2>2. \A i \in 1 .. m : v[i] = Link(k, t, v, i)
    BY DEF IsChain
  <2>3. \A i \in 1 .. m : i \in 1 .. n
    OBVIOUS
  <2> QED
    BY <2>1, <2>2, <2>3
<1>3. ASSUME NEW i \in Nat, i \in S PROVE i + 1 \in S
  <2>1. PICK j : j = i + 1
    OBVIOUS
  <2>2. SUFFICES ASSUME j \in 1 .. m PROVE u[j] = v[j]
    BY <2>1
  <2>3. j = 1 \/ u[j - 1] = v[j - 1]
    BY <1>3, <2>1, <2>2
  <2>4. Link(k, t, u, j) = Link(k, t, v, j)
    BY <2>3, SameLink
  <2> QED
    BY <1>2, <2>2, <2>4
<1> HIDE DEF S
<1>4. \A i \in Nat : i \in S
  BY <1>1, <1>3, Induction
<1> QED
  BY <1>4 DEF S

\* Its links, which no longer depend on how far the chain goes.
U(k, t, i) == Chain(k, t, i)[i]

LEMMA LinkOfChain ==
  ASSUME NEW k, NEW t, NEW n \in Nat, NEW i \in 1 .. n
  PROVE  Chain(k, t, n)[i] = U(k, t, i)
<1>1. PICK u, v : u = Chain(k, t, n) /\ v = Chain(k, t, i)
  OBVIOUS
<1>2. i \in Nat /\ i <= n /\ i \in 1 .. i
  OBVIOUS
<1>3. IsChain(u, k, t, n) /\ IsChain(v, k, t, i)
  BY <1>1, <1>2, ChainIs
<1>4. u[i] = v[i]
  BY <1>2, <1>3, ChainBegins
<1> QED
  BY <1>1, <1>4 DEF U

LEMMA FirstLink ==
  ASSUME NEW k, NEW t
  PROVE  U(k, t, 1) = Hmac(k, t \o BlockNumber)
<1>1. PICK u : u = Chain(k, t, 1)
  OBVIOUS
<1>2. IsChain(u, k, t, 1)
  BY <1>1, ChainIs
<1>3. u[1] = Link(k, t, u, 1)
  BY <1>2 DEF IsChain
<1> QED
  BY <1>1, <1>3 DEF Link, U

LEMMA NextLink ==
  ASSUME NEW k, NEW t, NEW i \in Nat \ {0}
  PROVE  U(k, t, i + 1) = Hmac(k, U(k, t, i))
<1>1. PICK j : j = i + 1
  OBVIOUS
<1>2. j \in Nat /\ j \in 1 .. j /\ i \in 1 .. j /\ j # 1 /\ j - 1 = i
  BY <1>1
<1>3. PICK u : u = Chain(k, t, j)
  OBVIOUS
<1>4. IsChain(u, k, t, j)
  BY <1>2, <1>3, ChainIs
<1>5. u[j] = Link(k, t, u, j)
  BY <1>2, <1>4 DEF IsChain
<1>6. u[j] = Hmac(k, u[i])
  BY <1>2, <1>5 DEF Link
<1>7. u[i] = U(k, t, i) /\ u[j] = U(k, t, j)
  BY <1>2, <1>3, LinkOfChain
<1> QED
  BY <1>1, <1>6, <1>7

\* Every link is a digest.
LEMMA LinkIsDigest ==
  ASSUME NEW k, NEW t, NEW i \in Nat \ {0}
  PROVE  \E s : U(k, t, i) = DigestOf(s)
<1>1. CASE i = 1
  BY <1>1, FirstLink DEF Hmac, Sha2
<1>2. CASE i # 1
  <2>1. PICK j : j = i - 1
    OBVIOUS
  <2>2. j \in Nat \ {0} /\ i = j + 1
    BY <1>2, <2>1
  <2>3. U(k, t, i) = Hmac(k, U(k, t, j))
    BY <2>2, NextLink
  <2> QED
    BY <2>3 DEF Hmac, Sha2
<1> QED
  BY <1>1, <1>2

\* No two links are the same, so that their XOR forgets none of them.
LEMMA LinksDiffer ==
  ASSUME NEW k, Sequence(k), NEW t, Sequence(t)
  PROVE  \A i, j \in Nat \ {0} : i < j => U(k, t, i) # U(k, t, j)
<1> DEFINE S == {i \in Nat : \A j \in Nat : i # 0 /\ i < j => U(k, t, i) # U(k, t, j)}
<1>1. 0 \in S
  OBVIOUS
<1>2. PICK inner, outer : /\ inner = XorPad("36", StandardBlock(k))
                          /\ outer = XorPad("5c", StandardBlock(k))
  OBVIOUS
<1>3. KeyPads(k, inner, outer)
  BY <1>2, PadsOfKey
<1>4. ASSUME NEW i \in Nat, i \in S, NEW j \in Nat, i + 1 < j, U(k, t, i + 1) = U(k, t, j)
      PROVE  FALSE
  <2>1. PICK h : h = j - 1
    OBVIOUS
  <2>2. h \in Nat \ {0} /\ j = h + 1 /\ i < h
    BY <1>4, <2>1
  <2>3. U(k, t, j) = Hmac(k, U(k, t, h))
    BY <2>2, NextLink
  <2>4. PICK s : U(k, t, h) = DigestOf(s)
    BY <2>2, LinkIsDigest
  <2>5. CASE i = 0
    <3>1. U(k, t, i + 1) = Hmac(k, t \o BlockNumber)
      BY <2>5, FirstLink
    <3>2. Hmac(k, t \o BlockNumber) = Hmac(k, DigestOf(s))
      BY <1>4, <2>3, <2>4, <3>1
    <3> QED
      BY <1>3, <3>2, FirstMac
  <2>6. CASE i # 0
    <3>1. PICK r : U(k, t, i) = DigestOf(r)
      BY <2>6, LinkIsDigest
    <3>2. PICK a, b : a = U(k, t, i) /\ b = U(k, t, h)
      OBVIOUS
    <3>3. Sequence(a) /\ Sequence(b) /\ Len(a) = Len(b)
      BY <2>4, <3>1, <3>2, DigestShape
    <3>4. U(k, t, i + 1) = Hmac(k, a)
      BY <2>6, <3>2, NextLink
    <3>5. Hmac(k, a) = Hmac(k, b)
      BY <1>4, <2>3, <3>2, <3>4
    <3>6. a = b
      BY <1>3, <3>3, <3>5, SameMac
    <3> QED
      BY <1>4, <2>2, <2>6, <3>2, <3>6
  <2> QED
    BY <2>5, <2>6
<1>5. \A i \in Nat : i \in S => i + 1 \in S
  BY <1>4
<1> HIDE DEF S
<1>6. \A i \in Nat : i \in S
  BY <1>1, <1>5, Induction
<1> QED
  BY <1>6 DEF S

-----------------------------------------------------------------------------
(* PBKDF2.                                                                 *)

Pass(c, h, i) == IF i = 0 THEN c ELSE Iterate(h[i - 1])
IsPasses(h, c, n) == h = [i \in 0 .. n |-> Pass(c, h, i)]

LEMMA SamePass ==
  ASSUME NEW c, NEW h, NEW v, NEW i, i = 0 \/ h[i - 1] = v[i - 1]
  PROVE  Pass(c, h, i) = Pass(c, v, i)
  BY DEF Pass

LEMMA PassesLonger ==
  ASSUME NEW c, NEW n \in Nat, NEW h, IsPasses(h, c, n)
  PROVE  \E v : IsPasses(v, c, n + 1)
<1> DEFINE value(i) == IF i \in 0 .. n THEN h[i] ELSE Pass(c, h, n + 1)
<1>1. PICK v : v = [i \in 0 .. n + 1 |-> value(i)]
  OBVIOUS
<1>2. \A i \in 0 .. n : value(i) = h[i]
  OBVIOUS
<1>3. value(n + 1) = Pass(c, h, n + 1)
  OBVIOUS
<1> HIDE DEF value
<1>4. \A i \in 0 .. n + 1 : v[i] = value(i)
  BY <1>1
<1>5. \A i \in 0 .. n : h[i] = Pass(c, h, i)
  BY DEF IsPasses
<1>6. ASSUME NEW i \in 0 .. n + 1 PROVE v[i] = Pass(c, v, i)
  <2>1. i = 0 \/ h[i - 1] = v[i - 1]
    <3>1. CASE i # 0
      <4>1. PICK j : j = i - 1
        OBVIOUS
      <4>2. j \in 0 .. n /\ j \in 0 .. n + 1
        BY <3>1, <4>1
      <4>3. v[j] = h[j]
        BY <1>2, <1>4, <4>2
      <4> QED
        BY <4>1, <4>3
    <3> QED
      BY <3>1
  <2>2. Pass(c, h, i) = Pass(c, v, i)
    BY <2>1, SamePass
  <2>3. CASE i \in 0 .. n
    BY <1>2, <1>4, <1>5, <2>2, <2>3
  <2>4. CASE i = n + 1
    BY <1>3, <1>4, <2>2, <2>4
  <2> QED
    BY <2>3, <2>4
<1>7. v = [i \in 0 .. n + 1 |-> Pass(c, v, i)]
  <2>1. v = [i \in 0 .. n + 1 |-> v[i]]
    BY <1>1
  <2> QED
    BY <1>6, <2>1
<1> QED
  BY <1>7 DEF IsPasses

LEMMA PassesExist ==
  ASSUME NEW c
  PROVE  \A n \in Nat : \E h : IsPasses(h, c, n)
<1> DEFINE S == {n \in Nat : \E h : IsPasses(h, c, n)}
<1>1. 0 \in S
  <2>1. PICK h : h = [i \in 0 .. 0 |-> c]
    OBVIOUS
  <2>2. \A i \in 0 .. 0 : Pass(c, h, i) = c
    BY DEF Pass
  <2>3. h = [i \in 0 .. 0 |-> Pass(c, h, i)]
    BY <2>1, <2>2
  <2> QED
    BY <2>3 DEF IsPasses
<1>2. ASSUME NEW n \in Nat, n \in S PROVE n + 1 \in S
  BY <1>2, PassesLonger
<1> HIDE DEF S
<1>3. \A n \in Nat : n \in S
  BY <1>1, <1>2, Induction
<1> QED
  BY <1>3 DEF S

LEMMA IteratedIs ==
  ASSUME NEW c, NEW n \in Nat
  PROVE  \E h : IsPasses(h, c, n) /\ Iterated(c, n) = h[n]
<1> DEFINE P(h) == IsPasses(h, c, n)
<1>1. \E h : P(h)
  BY PassesExist
<1>2. PICK h : h = CHOOSE v : P(v)
  OBVIOUS
<1>3. Iterated(c, n) = h[n]
  BY <1>2 DEF Iterated, IsPasses, Pass
<1> HIDE DEF P
<1>4. P(h)
  BY <1>1, <1>2
<1> QED
  BY <1>3, <1>4 DEF P

\* A context that has done d iterations holds U_d and the XOR of all so far.
AfterRounds(c, k, t, d) ==
  /\ c = [odig |-> c.odig, idig |-> c.idig, g |-> c.g, f |-> c.f, first |-> c.first]
  /\ c.odig = XorPad("5c", StandardBlock(k))
  /\ c.idig = XorPad("36", StandardBlock(k))
  /\ c.g = Overwrite(HandPadding, 0, U(k, t, d))
  /\ c.f = {U(k, t, i) : i \in 1 .. d}

\* One compression of a hand-padded digest is half of an HMAC.
LEMMA HalfMac ==
  ASSUME NEW x, Sequence(x), Len(x) = BlockLength, NEW h, Sequence(h), Len(h) = DigestLength
  PROVE  Transform(x, Overwrite(HandPadding, 0, h)) = PaddedWithLength(x \o h)
  BY HandPadded DEF Transform

LEMMA IterateHolds ==
  ASSUME NEW k, Sequence(k), NEW t, Sequence(t), NEW d \in Nat \ {0},
         NEW c, AfterRounds(c, k, t, d), NEW after, after = Iterate(c)
  PROVE  AfterRounds(after, k, t, d + 1) /\ after.first = c.first
<1>1. PICK inner, outer : inner = c.idig /\ outer = c.odig
  OBVIOUS
<1>2. KeyPads(k, inner, outer)
  BY <1>1, PadsOfKey DEF AfterRounds
<1>3. PICK u, e, v : u = U(k, t, d) /\ e = d + 1 /\ v = U(k, t, e)
  OBVIOUS
<1>4. Sequence(u) /\ Len(u) = DigestLength
  BY <1>3, LinkIsDigest, DigestShape
<1>5. PICK in, g : in = Transform(inner, c.g) /\ g = Transform(outer, WithDigest(c.g, in))
  OBVIOUS
<1>6. /\ Sequence(inner) /\ Len(inner) = BlockLength
      /\ Sequence(outer) /\ Len(outer) = BlockLength
  BY <1>2 DEF KeyPads
<1>7. in = PaddedWithLength(inner \o u)
  BY <1>3, <1>4, <1>5, <1>6, HalfMac DEF AfterRounds
<1>8. PICK w : w = DigestOf(in)
  OBVIOUS
<1>9. Sequence(w) /\ Len(w) = DigestLength
  BY <1>8, DigestShape
<1>10. WithDigest(c.g, in) = Overwrite(HandPadding, 0, w)
  BY <1>3, <1>4, <1>8, <1>9, WrittenTwice DEF AfterRounds, WithDigest
<1>11. g = PaddedWithLength(outer \o w)
  BY <1>5, <1>6, <1>9, <1>10, HalfMac
<1>12. DigestOf(g) = Hmac(k, u)
  BY <1>2, <1>7, <1>8, <1>11, HmacOf
<1>13. DigestOf(g) = v
  BY <1>3, <1>12, NextLink
<1>14. Sequence(v) /\ Len(v) = DigestLength
  BY <1>13, DigestShape
<1>15. WithDigest(c.g, g) = Overwrite(HandPadding, 0, v)
  BY <1>3, <1>4, <1>13, <1>14, WrittenTwice DEF AfterRounds, WithDigest
<1>16. v \notin c.f
  <2>1. \A i \in 1 .. d : U(k, t, i) # v
    BY <1>3, LinksDiffer
  <2> QED
    BY <2>1 DEF AfterRounds
<1>17. Xor(c.f, v) = {U(k, t, i) : i \in 1 .. e}
  <2>1. 1 .. e = (1 .. d) \cup {e}
    BY <1>3
  <2>2. Xor(c.f, v) = c.f \cup {v}
    BY <1>16 DEF Xor
  <2> QED
    BY <1>3, <2>1, <2>2 DEF AfterRounds
<1>18. after = [c EXCEPT !.g = WithDigest(@, g), !.f = Xor(@, DigestOf(g))]
  BY <1>1, <1>5 DEF Iterate
<1>19. after = [odig |-> outer, idig |-> inner, g |-> WithDigest(c.g, g),
                f |-> Xor(c.f, v), first |-> c.first]
  <2>1. PICK x, y : x = WithDigest(c.g, g) /\ y = Xor(c.f, v)
    OBVIOUS
  <2>2. after = [c EXCEPT !.g = x, !.f = y]
    BY <1>13, <1>18, <2>1
  <2>3. after = [odig |-> outer, idig |-> inner, g |-> x, f |-> y, first |-> c.first]
    BY <1>1, <2>2 DEF AfterRounds
  <2> QED
    BY <2>1, <2>3
<1>20. after.odig = c.odig /\ after.idig = c.idig /\ after.first = c.first
  BY <1>1, <1>19
<1>21. /\ after.g = Overwrite(HandPadding, 0, U(k, t, e))
       /\ after.f = {U(k, t, i) : i \in 1 .. e}
  BY <1>3, <1>15, <1>17, <1>19
<1>22. after = [odig |-> after.odig, idig |-> after.idig, g |-> after.g,
                f |-> after.f, first |-> after.first]
  BY <1>19
<1>23. AfterRounds(after, k, t, e)
  BY <1>20, <1>21, <1>22 DEF AfterRounds
<1> QED
  BY <1>3, <1>20, <1>23

LEMMA IteratedHolds ==
  ASSUME NEW k, Sequence(k), NEW t, Sequence(t), NEW d \in Nat \ {0},
         NEW c, AfterRounds(c, k, t, d), NEW n \in Nat, NEW after, after = Iterated(c, n)
  PROVE  AfterRounds(after, k, t, d + n)
<1>1. PICK h : IsPasses(h, c, n) /\ after = h[n]
  BY IteratedIs
<1>2. \A i \in 0 .. n : h[i] = Pass(c, h, i)
  BY <1>1 DEF IsPasses
<1> DEFINE S == {i \in Nat : i <= n => AfterRounds(h[i], k, t, d + i)}
<1>3. 0 \in S
  <2>1. h[0] = c
    BY <1>2 DEF Pass
  <2> QED
    BY <2>1
<1>4. ASSUME NEW i \in Nat, i \in S PROVE i + 1 \in S
  <2>1. PICK j, e : j = i + 1 /\ e = d + i
    OBVIOUS
  <2>2. SUFFICES ASSUME j <= n PROVE AfterRounds(h[j], k, t, d + j)
    BY <2>1
  <2>3. AfterRounds(h[i], k, t, e) /\ e \in Nat \ {0} /\ e + 1 = d + j
    BY <1>4, <2>1, <2>2
  <2>4. j \in 0 .. n /\ j # 0 /\ j - 1 = i
    BY <2>1, <2>2
  <2>5. h[j] = Iterate(h[i])
    BY <1>2, <2>4 DEF Pass
  <2>6. PICK x, y : x = h[i] /\ y = h[j]
    OBVIOUS
  <2>7. AfterRounds(y, k, t, e + 1)
    BY <2>3, <2>5, <2>6, IterateHolds
  <2> QED
    BY <2>3, <2>6, <2>7
<1> HIDE DEF S
<1>5. \A i \in Nat : i \in S
  BY <1>3, <1>4, Induction
<1> QED
  BY <1>1, <1>5 DEF S

-----------------------------------------------------------------------------
(* What an open context holds, and that each operation keeps it.           *)

LEMMA InputShapes ==
  ASSUME NEW n \in Nat
  PROVE  /\ Sequence(KeyBytes(n)) /\ Sequence(SaltBytes(n))
         /\ \A f : f = [i \in 1 .. n |-> f[i]] => Sequence(f)
<1>1. PICK x, y : x = KeyBytes(n) /\ y = SaltBytes(n)
  OBVIOUS
<1>2. x = [i \in 1 .. n |-> x[i]]
  BY <1>1 DEF KeyBytes
<1>3. y = [i \in 1 .. n |-> y[i]]
  BY <1>1 DEF SaltBytes
<1> QED
  BY <1>1, <1>2, <1>3, SequenceOfFunction

HmacOpen(c, k, t) ==
  /\ c = [okey |-> c.okey, ctx |-> c.ctx] /\ Context(c.ctx)
  /\ c.okey = XorPad("5c", StandardBlock(k))
  /\ Sha2Holds(c.ctx, XorPad("36", StandardBlock(k)) \o t)

LEMMA HmacBegun ==
  ASSUME NEW k, Sequence(k), NEW t, t = << >>, NEW c,
         c = [okey |-> XorPad("5c", KeyBlock(k)),
              ctx |-> Sha2Update(FreshContext, XorPad("36", KeyBlock(k)))]
  PROVE  HmacOpen(c, k, t) /\ Sequence(t)
<1>1. PICK inner, outer : /\ inner = XorPad("36", StandardBlock(k))
                          /\ outer = XorPad("5c", StandardBlock(k))
  OBVIOUS
<1>2. /\ KeyPads(k, inner, outer)
      /\ XorPad("36", KeyBlock(k)) = inner /\ XorPad("5c", KeyBlock(k)) = outer
  BY <1>1, PadsOfKey
<1>3. PICK ctx : ctx = Sha2Update(FreshContext, inner)
  OBVIOUS
<1>4. Context(ctx) /\ Sha2Holds(ctx, inner)
  BY <1>2, <1>3, Sha2Begun DEF KeyPads
<1>5. c = [okey |-> outer, ctx |-> ctx]
  BY <1>2, <1>3
<1>6. inner \o t = inner
  BY <1>2, EmptyJoin DEF KeyPads
<1>7. Sequence(t)
  BY FreshHolds
<1> QED
  BY <1>1, <1>4, <1>5, <1>6, <1>7 DEF HmacOpen

LEMMA HmacFed ==
  ASSUME NEW k, Sequence(k), NEW t, Sequence(t), NEW data, Sequence(data),
         NEW c, HmacOpen(c, k, t),
         NEW after, after = [c EXCEPT !.ctx = Sha2Update(@, data)]
  PROVE  HmacOpen(after, k, t \o data) /\ Sequence(t \o data)
<1>1. PICK inner, outer : /\ inner = XorPad("36", StandardBlock(k))
                          /\ outer = XorPad("5c", StandardBlock(k))
  OBVIOUS
<1>2. Sequence(inner)
  BY <1>1, PadsOfKey DEF KeyPads
<1>3. PICK ctx, fed1, m, a : /\ ctx = c.ctx /\ fed1 = Sha2Update(ctx, data)
                             /\ m = inner \o t /\ a = t \o data
  OBVIOUS
<1>4. Sequence(m) /\ Sequence(a)
  BY <1>2, <1>3, Joined DEF IsJoin
<1>5. Context(ctx) /\ Sha2Holds(ctx, m)
  BY <1>1, <1>3 DEF HmacOpen
<1>6. Context(fed1) /\ Sha2Holds(fed1, m \o data)
  BY <1>3, <1>4, <1>5, Sha2UpdateHolds
<1>7. m \o data = inner \o a
  BY <1>2, <1>3, JoinedTwice
<1>8. after = [okey |-> outer, ctx |-> fed1]
  BY <1>1, <1>3 DEF HmacOpen
<1>9. after = [okey |-> after.okey, ctx |-> after.ctx]
      /\ after.okey = outer /\ after.ctx = fed1
  <2>1. after.okey = outer /\ after.ctx = fed1
    BY ONLY <1>8
  <2> QED
    BY ONLY <1>8, <2>1
<1>10. HmacOpen(after, k, a)
  BY <1>1, <1>6, <1>7, <1>9 DEF HmacOpen
<1> QED
  BY <1>3, <1>4, <1>10

LEMMA HmacDone ==
  ASSUME NEW k, Sequence(k), NEW t, Sequence(t), NEW c, HmacOpen(c, k, t),
         NEW hash, hash = DigestOf(Sha2Last(c.ctx)),
         NEW last, last = Sha2Update(Sha2Update(FreshContext, c.okey), hash)
  PROVE  DigestOf(Sha2Last(last)) = Hmac(k, t)
<1>1. PICK inner, outer : /\ inner = XorPad("36", StandardBlock(k))
                          /\ outer = XorPad("5c", StandardBlock(k))
  OBVIOUS
<1>2. KeyPads(k, inner, outer) /\ Sequence(inner) /\ Sequence(outer)
  BY <1>1, PadsOfKey DEF KeyPads
<1>3. PICK ctx, m, first : /\ ctx = c.ctx /\ m = inner \o t
                           /\ first = Sha2Update(FreshContext, outer)
  OBVIOUS
<1>4. Sequence(m)
  BY <1>2, <1>3, Joined DEF IsJoin
<1>5. Context(ctx) /\ Sha2Holds(ctx, m) /\ c.okey = outer
  BY <1>1, <1>3 DEF HmacOpen
<1>6. Sha2Last(ctx) = PaddedWithLength(m)
  BY <1>4, <1>5, Sha2LastHolds
<1>7. hash = DigestOf(PaddedWithLength(m)) /\ Sequence(hash)
  BY <1>3, <1>6, DigestShape
<1>8. Context(first) /\ Sha2Holds(first, outer)
  BY <1>2, <1>3, Sha2Begun
<1>9. last = Sha2Update(first, hash)
  BY <1>3, <1>5
<1>10. PICK o : o = outer \o hash
  OBVIOUS
<1>11. Context(last) /\ Sha2Holds(last, o) /\ Sequence(o)
  BY <1>2, <1>7, <1>8, <1>9, <1>10, Sha2UpdateHolds
<1>12. Sha2Last(last) = PaddedWithLength(o)
  BY <1>11, Sha2LastHolds
<1> QED
  BY <1>2, <1>3, <1>7, <1>10, <1>12, HmacOf

\* The context that PBKDF2 sets up around the compressed inner key block.
LEMMA AroundBlock ==
  ASSUME NEW x, Sequence(x), Len(x) = BlockLength, NEW inner,
         inner = AddCarry([FreshContext EXCEPT !.state = x, !.buffer = StaleBytes],
                          8 * BlockLength)
  PROVE  Context(inner) /\ Sha2Holds(inner, x)
<1>1. BlockLength \in Nat \ {0} /\ BlockLength \in Nat
  BY BlockAssumption
<1>2. PICK ctx, fresh, e : /\ fresh = FreshContext /\ e = << >>
                           /\ ctx = [fresh EXCEPT !.state = x, !.buffer = StaleBytes]
  OBVIOUS
<1>3. Sha2Holds(fresh, e) /\ Len(e) = 0
  BY <1>2, FreshHolds
<1>4. Counts(fresh, 0)
  <2>1. 8 * 0 = 0
    OBVIOUS
  <2> QED
    BY <1>3, <2>1 DEF Sha2Holds
<1>5. ctx = [state |-> x, buffer |-> StaleBytes, lo |-> fresh.lo, hi |-> fresh.hi]
  BY <1>2 DEF FreshContext
<1>6. Context(ctx)
  BY <1>5 DEF Context
<1>7. Counts(ctx, 0)
  BY <1>4, <1>5 DEF Counts
<1>8. PICK d : d = 8 * BlockLength
  OBVIOUS
<1>9. d \in Nat /\ 0 \in Nat /\ 0 + d = d
  BY <1>1, <1>8
<1>10. inner = AddCarry(ctx, d)
  BY <1>2, <1>8
<1>11. /\ Context(inner) /\ Counts(inner, 0 + d)
       /\ inner.state = ctx.state /\ inner.buffer = ctx.buffer
  BY <1>6, <1>7, <1>9, <1>10, CountAdded
<1>12. inner.state = x
  BY <1>5, <1>11
<1>13. BlockLength % BlockLength = 0
  <2>1. PICK l, r : l = BlockLength /\ r = 0
    OBVIOUS
  <2>2. l \in Int /\ r \in 0 .. (BlockLength - 1) /\ l = BlockLength * 1 + r
    BY <1>1, <2>1
  <2>3. l % BlockLength = r
    BY ONLY <1>1, <2>2, Divided
  <2> QED
    BY <2>1, <2>3
<1>14. ContextHolds(inner, x)
  <2>1. Len(inner.state) = Len(x) - (Len(x) % BlockLength)
    BY <1>1, <1>12, <1>13
  <2>2. \A k \in 1 .. Len(x) : Cell(inner, k) = x[k]
    BY <1>1, <1>12 DEF Cell
  <2> QED
    BY <2>1, <2>2 DEF ContextHolds
<1> QED
  BY <1>8, <1>9, <1>11, <1>14 DEF Sha2Holds

Pbkdf2Open(c, k, t, r) ==
  /\ AfterRounds(c, k, t, IF c.first = 1 THEN 1 ELSE r)
  /\ c.first \in {0, 1} /\ (c.first = 1 <=> r = 0)

LEMMA Pbkdf2Begun ==
  ASSUME NEW k, Sequence(k), NEW t, Sequence(t),
         NEW odig, odig = Transform(<< >>, XorPad("5c", KeyBlock(k))),
         NEW idig, idig = Transform(<< >>, XorPad("36", KeyBlock(k))),
         NEW inner, inner = AddCarry([FreshContext EXCEPT !.state = idig, !.buffer = StaleBytes],
                                     8 * BlockLength),
         NEW salted, salted = Sha2Update(Sha2Update(inner, t), BlockNumber),
         NEW g, g = Transform(odig, WithDigest(HandPadding, Sha2Last(salted))),
         NEW c, c = [odig |-> odig, idig |-> idig, g |-> WithDigest(HandPadding, g),
                     f |-> {DigestOf(g)}, first |-> 1]
  PROVE  Pbkdf2Open(c, k, t, 0)
<1>1. PICK x, y : x = XorPad("36", StandardBlock(k)) /\ y = XorPad("5c", StandardBlock(k))
  OBVIOUS
<1>2. /\ KeyPads(k, x, y)
      /\ XorPad("36", KeyBlock(k)) = x /\ XorPad("5c", KeyBlock(k)) = y
  BY <1>1, PadsOfKey
<1>3. /\ Sequence(x) /\ Len(x) = BlockLength /\ Sequence(y) /\ Len(y) = BlockLength
  BY <1>2 DEF KeyPads
<1>4. idig = x /\ odig = y
  BY <1>2, <1>3, EmptyJoin DEF Transform
<1>5. Context(inner) /\ Sha2Holds(inner, x)
  BY <1>3, <1>4, AroundBlock
<1>6. PICK mid, b, n, m, o : /\ mid = Sha2Update(inner, t) /\ b = BlockNumber
                             /\ n = t \o b /\ m = x \o t /\ o = x \o n
  OBVIOUS
<1>7. Sequence(b)
  BY <1>6, ShortSequences DEF BlockNumber
<1>8. Sequence(n) /\ Sequence(m)
  BY <1>3, <1>6, <1>7, Joined DEF IsJoin
<1>9. Context(mid) /\ Sha2Holds(mid, m)
  BY <1>3, <1>5, <1>6, Sha2UpdateHolds
<1>10. m \o b = o
  <2>1. (x \o t) \o b = x \o (t \o b)
    BY ONLY <1>3, <1>7, Sequence(t), JoinedTwice, SMTT(30)
  <2> QED
    BY ONLY <1>6, <2>1
<1>11. Sequence(o)
  BY <1>3, <1>6, <1>8, Joined DEF IsJoin
<1>12. Context(salted) /\ Sha2Holds(salted, o)
  BY <1>6, <1>7, <1>8, <1>9, <1>10, Sha2UpdateHolds
<1>13. Sha2Last(salted) = PaddedWithLength(o)
  BY <1>11, <1>12, Sha2LastHolds
<1>14. PICK h : h = DigestOf(PaddedWithLength(o))
  OBVIOUS
<1>15. Sequence(h) /\ Len(h) = DigestLength
  BY <1>14, DigestShape
<1>16. g = Transform(y, Overwrite(HandPadding, 0, h))
  BY <1>4, <1>13, <1>14 DEF WithDigest
<1>17. g = PaddedWithLength(y \o h)
  BY <1>3, <1>15, <1>16, HalfMac
<1>18. DigestOf(g) = Hmac(k, n)
  BY <1>2, <1>6, <1>14, <1>17, HmacOf
<1>19. PICK v : v = U(k, t, 1)
  OBVIOUS
<1>20. DigestOf(g) = v
  BY <1>6, <1>18, <1>19, FirstLink
<1>21. c = [odig |-> y, idig |-> x, g |-> Overwrite(HandPadding, 0, v), f |-> {v}, first |-> 1]
  BY <1>4, <1>20 DEF WithDigest
<1>22. {v} = {U(k, t, i) : i \in 1 .. 1}
  BY <1>19
<1>23. /\ c.odig = y /\ c.idig = x /\ c.g = Overwrite(HandPadding, 0, v)
       /\ c.f = {v} /\ c.first = 1
  BY ONLY <1>21
<1>24. c = [odig |-> c.odig, idig |-> c.idig, g |-> c.g, f |-> c.f, first |-> c.first]
  BY ONLY <1>21, <1>23
<1>25. AfterRounds(c, k, t, 1)
  BY <1>1, <1>19, <1>22, <1>23, <1>24 DEF AfterRounds
<1> QED
  BY <1>23, <1>25 DEF Pbkdf2Open

LEMMA Pbkdf2Updated ==
  ASSUME NEW k, Sequence(k), NEW t, Sequence(t), NEW r \in Nat, NEW n \in Nat \ {0},
         NEW c, Pbkdf2Open(c, k, t, r),
         NEW after, after = [Iterated(c, n - c.first) EXCEPT !.first = 0]
  PROVE  Pbkdf2Open(after, k, t, r + n)
<1>1. PICK d, i, h : /\ d = (IF c.first = 1 THEN 1 ELSE r) /\ i = n - c.first
                     /\ h = Iterated(c, i)
  OBVIOUS
<1>2. AfterRounds(c, k, t, d) /\ c.first \in {0, 1} /\ (c.first = 1 <=> r = 0)
  BY <1>1 DEF Pbkdf2Open
<1>3. d \in Nat \ {0} /\ i \in Nat /\ d + i = r + n
  BY <1>1, <1>2
<1>4. AfterRounds(h, k, t, r + n)
  BY <1>1, <1>2, <1>3, IteratedHolds
<1>5. h = [odig |-> h.odig, idig |-> h.idig, g |-> h.g, f |-> h.f, first |-> h.first]
  BY <1>4 DEF AfterRounds
<1>6. after = [h EXCEPT !.first = 0]
  BY <1>1
<1>7. after = [odig |-> h.odig, idig |-> h.idig, g |-> h.g, f |-> h.f, first |-> 0]
  BY ONLY <1>5, <1>6
<1>8. /\ after.odig = h.odig /\ after.idig = h.idig /\ after.g = h.g /\ after.f = h.f
      /\ after.first = 0
  BY ONLY <1>7
<1>9. after = [odig |-> after.odig, idig |-> after.idig, g |-> after.g, f |-> after.f,
               first |-> after.first]
  BY ONLY <1>7, <1>8
<1>10. AfterRounds(after, k, t, r + n)
  BY <1>4, <1>8, <1>9 DEF AfterRounds
<1> QED
  BY <1>8, <1>10 DEF Pbkdf2Open

-----------------------------------------------------------------------------
(* The client of HMAC and PBKDF2.                                          *)

KeyedStrong ==
  /\ job \in {"none", "hmac", "pbkdf2"}
  /\ job = "none" => result = << >>
  /\ rounds \in Nat /\ Sequence(key) /\ Sequence(text)
  /\ job = "hmac" /\ result = << >> => HmacOpen(kctx, key, text)
  /\ job = "pbkdf2" /\ result = << >> => Pbkdf2Open(kctx, key, text, rounds)
  /\ KeyedIsStandard

LEMMA KeyedStart ==
  ASSUME KeyedInit
  PROVE  KeyedStrong
<1>1. Sequence(key) /\ Sequence(text)
  BY FreshHolds DEF KeyedInit
<1> QED
  BY <1>1 DEF KeyedInit, KeyedStrong, KeyedIsStandard

LEMMA HmacInitStep ==
  ASSUME KeyedStrong, NEW n \in KeyLengths, HmacInit(n)
  PROVE  KeyedStrong'
<1>1. PICK k, c, t : k = KeyBytes(n) /\ c = kctx' /\ t = << >>
  OBVIOUS
<1>2. n \in Nat
  BY KeyedAssumption
<1>3. Sequence(k)
  BY <1>1, <1>2, InputShapes
<1>4. /\ job' = "hmac" /\ key' = k /\ text' = t /\ rounds' = 0 /\ result' = << >>
      /\ c = [okey |-> XorPad("5c", KeyBlock(k)),
              ctx |-> Sha2Update(FreshContext, XorPad("36", KeyBlock(k)))]
  BY <1>1 DEF HmacInit
<1>5. HmacOpen(c, k, t) /\ Sequence(t)
  BY <1>1, <1>3, <1>4, HmacBegun
<1>6. HmacOpen(kctx, key, text)'
  BY <1>1, <1>4, <1>5
<1> QED
  BY <1>3, <1>4, <1>5, <1>6 DEF KeyedStrong, KeyedIsStandard

LEMMA HmacUpdateStep ==
  ASSUME KeyedStrong, NEW n \in MessageLengths, HmacUpdate(n)
  PROVE  KeyedStrong'
<1>1. PICK k, c, t, after : k = key /\ c = kctx /\ t = text /\ after = kctx'
  OBVIOUS
<1>2. PICK data : data = [i \in 1 .. n |-> Message(Len(t) + i)]
  OBVIOUS
<1>3. n \in Nat
  BY KeyedAssumption
<1>4. Sequence(data)
  <2>1. data = [i \in 1 .. n |-> data[i]]
    BY <1>2
  <2> QED
    BY <1>3, <2>1, InputShapes
<1>5. /\ job = "hmac" /\ result = << >> /\ text' = t \o data
      /\ after = [c EXCEPT !.ctx = Sha2Update(@, data)]
      /\ job' = job /\ key' = k /\ rounds' = rounds /\ result' = result
  BY <1>1, <1>2 DEF HmacUpdate
<1>6. HmacOpen(c, k, t) /\ Sequence(k) /\ Sequence(t)
  BY <1>1, <1>5 DEF KeyedStrong
<1>7. HmacOpen(after, k, t \o data) /\ Sequence(t \o data)
  BY <1>4, <1>5, <1>6, HmacFed
<1>8. HmacOpen(kctx, key, text)'
  BY <1>1, <1>5, <1>7
<1> QED
  BY <1>1, <1>5, <1>6, <1>7, <1>8 DEF KeyedStrong, KeyedIsStandard

LEMMA HmacFinalStep ==
  ASSUME KeyedStrong, HmacFinal
  PROVE  KeyedStrong'
<1>1. PICK k, c, t : k = key /\ c = kctx /\ t = text
  OBVIOUS
<1>2. PICK hash : hash = DigestOf(Sha2Last(c.ctx))
  OBVIOUS
<1>3. PICK last : last = Sha2Update(Sha2Update(FreshContext, c.okey), hash)
  OBVIOUS
<1>4. PICK r : r = DigestOf(Sha2Last(last))
  OBVIOUS
<1>5. /\ job = "hmac" /\ result = << >> /\ result' = r
      /\ job' = job /\ key' = k /\ text' = t /\ rounds' = rounds
  BY <1>1, <1>2, <1>3, <1>4 DEF HmacFinal
<1>6. HmacOpen(c, k, t) /\ Sequence(k) /\ Sequence(t)
  BY <1>1, <1>5 DEF KeyedStrong
<1>7. r = Hmac(k, t)
  BY <1>2, <1>3, <1>4, <1>6, HmacDone
<1>8. r # << >>
  <2>1. Len(r) = DigestLength
    BY <1>4, DigestShape
  <2>2. DigestLength # 0
    BY DigestAssumption
  <2> QED
    BY <2>1, <2>2
<1>9. KeyedIsStandard'
  BY <1>5, <1>7 DEF KeyedIsStandard
<1> QED
  BY <1>1, <1>5, <1>6, <1>8, <1>9 DEF KeyedStrong

LEMMA Pbkdf2InitStep ==
  ASSUME KeyedStrong, NEW n \in KeyLengths, NEW s \in SaltLengths, Pbkdf2Init(n, s)
  PROVE  KeyedStrong'
<1>1. PICK k, t, c : k = KeyBytes(n) /\ t = SaltBytes(s) /\ c = kctx'
  OBVIOUS
<1>2. n \in Nat /\ s \in Nat
  BY KeyedAssumption
<1>3. Sequence(k) /\ Sequence(t)
  BY <1>1, <1>2, InputShapes
<1>4. job' = "pbkdf2" /\ key' = k /\ text' = t /\ rounds' = 0 /\ result' = << >>
  BY <1>1 DEF Pbkdf2Init
<1>5. PICK odig, idig : /\ odig = Transform(<< >>, XorPad("5c", KeyBlock(k)))
                        /\ idig = Transform(<< >>, XorPad("36", KeyBlock(k)))
  OBVIOUS
<1>6. PICK inner : inner = AddCarry([FreshContext EXCEPT !.state = idig, !.buffer = StaleBytes],
                                    8 * BlockLength)
  OBVIOUS
<1>7. PICK salted : salted = Sha2Update(Sha2Update(inner, t), BlockNumber)
  OBVIOUS
<1>8. PICK g : g = Transform(odig, WithDigest(HandPadding, Sha2Last(salted)))
  OBVIOUS
<1>9. c = [odig |-> odig, idig |-> idig, g |-> WithDigest(HandPadding, g),
           f |-> {DigestOf(g)}, first |-> 1]
  BY <1>1, <1>4, <1>5, <1>6, <1>7, <1>8 DEF Pbkdf2Init
<1>10. Pbkdf2Open(c, k, t, 0)
  BY <1>3, <1>5, <1>6, <1>7, <1>8, <1>9, Pbkdf2Begun
<1>11. Pbkdf2Open(kctx, key, text, rounds)'
  BY <1>1, <1>4, <1>10
<1> QED
  BY <1>3, <1>4, <1>11 DEF KeyedStrong, KeyedIsStandard

LEMMA Pbkdf2UpdateStep ==
  ASSUME KeyedStrong, NEW n \in Iterations, Pbkdf2Update(n)
  PROVE  KeyedStrong'
<1>1. PICK k, t, c, r, after : k = key /\ t = text /\ c = kctx /\ r = rounds /\ after = kctx'
  OBVIOUS
<1>2. n \in Nat \ {0}
  BY KeyedAssumption
<1>3. /\ job = "pbkdf2" /\ result = << >> /\ rounds' = r + n
      /\ after = [Iterated(c, n - c.first) EXCEPT !.first = 0]
      /\ job' = job /\ key' = k /\ text' = t /\ result' = result
  BY <1>1 DEF Pbkdf2Update
<1>4. Pbkdf2Open(c, k, t, r) /\ Sequence(k) /\ Sequence(t) /\ r \in Nat
  BY <1>1, <1>3 DEF KeyedStrong
<1>5. Pbkdf2Open(after, k, t, r + n)
  BY <1>2, <1>3, <1>4, Pbkdf2Updated
<1>6. Pbkdf2Open(kctx, key, text, rounds)'
  BY <1>1, <1>3, <1>5
<1>7. r + n \in Nat
  BY <1>2, <1>4
<1> QED
  BY <1>1, <1>3, <1>4, <1>6, <1>7 DEF KeyedStrong, KeyedIsStandard

\* What the context collected is the standard's chain.
LEMMA LinksOfChain ==
  ASSUME NEW k, NEW t, NEW n \in Nat
  PROVE  {Chain(k, t, n)[i] : i \in 1 .. n} = {U(k, t, i) : i \in 1 .. n}
  BY LinkOfChain

LEMMA Pbkdf2FinalStep ==
  ASSUME KeyedStrong, Pbkdf2Final
  PROVE  KeyedStrong'
<1>1. PICK k, t, c, r : k = key /\ t = text /\ c = kctx /\ r = rounds
  OBVIOUS
<1>2. /\ job = "pbkdf2" /\ result = << >> /\ r > 0 /\ result' = <<c.f>>
      /\ job' = job /\ key' = k /\ text' = t /\ rounds' = r
  BY <1>1 DEF Pbkdf2Final
<1>3. Pbkdf2Open(c, k, t, r) /\ Sequence(k) /\ Sequence(t) /\ r \in Nat
  BY <1>1, <1>2 DEF KeyedStrong
<1>4. AfterRounds(c, k, t, r)
  BY <1>2, <1>3 DEF Pbkdf2Open
<1>5. c.f = {Chain(k, t, r)[i] : i \in 1 .. r}
  <2>1. {Chain(k, t, r)[i] : i \in 1 .. r} = {U(k, t, i) : i \in 1 .. r}
    BY <1>3, LinksOfChain
  <2> QED
    BY <1>4, <2>1 DEF AfterRounds
<1>6. ChainXor(rounds)' = c.f
  BY <1>2, <1>5 DEF ChainXor
<1>7. KeyedIsStandard'
  BY <1>2, <1>6 DEF KeyedIsStandard
<1>8. <<c.f>> # << >>
  OBVIOUS
<1> QED
  BY <1>1, <1>2, <1>3, <1>7, <1>8 DEF KeyedStrong

THEOREM KeyedStrongCorrect == KeyedSpec => []KeyedStrong
<1>1. KeyedInit => KeyedStrong
  BY KeyedStart
<1>2. KeyedStrong /\ [KeyedNext]_keyedVars => KeyedStrong'
  <2> SUFFICES ASSUME KeyedStrong, [KeyedNext]_keyedVars PROVE KeyedStrong'
    OBVIOUS
  <2>1. CASE UNCHANGED keyedVars
    BY <2>1 DEF KeyedStrong, KeyedIsStandard, ChainXor, keyedVars
  <2>2. CASE KeyedNext
    BY <2>2, HmacInitStep, HmacUpdateStep, HmacFinalStep, Pbkdf2InitStep,
       Pbkdf2UpdateStep, Pbkdf2FinalStep DEF KeyedNext
  <2> QED
    BY <2>1, <2>2
<1> QED
  BY <1>1, <1>2, PTL DEF KeyedSpec

\* The invariant as the model states it, which TLC evaluates on every state.
THEOREM KeyedInvCorrect == KeyedSpec => []KeyedInv
<1>1. KeyedStrong => KeyedInv
  <2> SUFFICES ASSUME KeyedStrong PROVE KeyedInv
    OBVIOUS
  <2>1. ASSUME job = "hmac", result = << >> PROVE HmacInv
    BY <2>1 DEF KeyedStrong, HmacOpen, HmacInv
  <2>2. ASSUME job = "pbkdf2", result = << >> PROVE Pbkdf2Inv
    <3>1. PICK k, t, c, r : k = key /\ t = text /\ c = kctx /\ r = rounds
      OBVIOUS
    <3>2. PICK d, x : d = Done /\ x = ChainXor(Done)
      OBVIOUS
    <3>3. Pbkdf2Open(c, k, t, r) /\ r \in Nat
      BY <2>2, <3>1 DEF KeyedStrong
    <3>4. AfterRounds(c, k, t, d) /\ d \in Nat
      BY <3>1, <3>2, <3>3 DEF Pbkdf2Open, Done
    <3>5. {Chain(k, t, d)[i] : i \in 1 .. d} = {U(k, t, i) : i \in 1 .. d}
      BY <3>4, LinksOfChain, SMTT(30)
    <3>6. c.f = x
      BY <3>1, <3>2, <3>4, <3>5 DEF AfterRounds, ChainXor
    <3>7. c.g = Overwrite(HandPadding, 0, Chain(k, t, d)[d])
      BY <3>4 DEF AfterRounds, U
    <3> QED
      BY <3>1, <3>2, <3>3, <3>4, <3>6, <3>7 DEF Pbkdf2Inv, Pbkdf2Open, AfterRounds
  <2> QED
    BY <2>1, <2>2 DEF KeyedStrong, KeyedInv
<1> QED
  BY <1>1, KeyedStrongCorrect, PTL

\* HMAC of a message fed in any pieces is RFC 2104's, and PBKDF2 with its
\* iterations asked for in any portions is the XOR of as many HMACs as RFC 8018
\* says, for every length of key, salt, message, block and digest, although it
\* never computes an HMAC (hmac.c, pbkdf2.c).
THEOREM KeyedCorrect == KeyedSpec => []KeyedIsStandard
<1>1. KeyedStrong => KeyedIsStandard
  BY DEF KeyedStrong
<1> QED
  BY <1>1, KeyedStrongCorrect, PTL
==============================================================================
