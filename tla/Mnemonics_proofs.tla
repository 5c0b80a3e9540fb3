--------------------------- MODULE Mnemonics_proofs ---------------------------
(***************************************************************************)
(* Proofs about ios/Classes/bip39.c: mnemonics hold their entropy and its  *)
(* checksum, are read back, and nothing else is (MnemonicCodec), and the   *)
(* cache of seeds answers with the seed of the request (SeedCache).  The   *)
(* lemmas on numbers, sequences and induction are those of Hash_proofs.    *)
(* The second part is about ios/Classes/base58.c: a text is the number of  *)
(* its bytes, it is read back, and no other text is accepted (Base58).     *)
(* The third is about ios/Classes/aes_modes.c: a stream is that of the     *)
(* standard, however it is cut into calls (CipherModes).                   *)
(***************************************************************************)
EXTENDS SeedCache, MnemonicCodec, Base58, CipherModes, Hash_proofs

-----------------------------------------------------------------------------
(* Powers of two.                                                          *)

IsPowers(u, n) == u = [k \in 0 .. n |-> IF k = 0 THEN 1 ELSE 2 * u[k - 1]]

LEMMA PowersExist == \A n \in Nat : \E u : IsPowers(u, n)
<1> DEFINE S == {n \in Nat : \E u : IsPowers(u, n)}
<1>1. 0 \in S
  <2>1. PICK u : u = [k \in 0 .. 0 |-> 1]
    OBVIOUS
  <2>2. u = [k \in 0 .. 0 |-> IF k = 0 THEN 1 ELSE 2 * u[k - 1]]
    BY <2>1
  <2> QED
    BY <2>2 DEF IsPowers
<1>2. ASSUME NEW n \in Nat, n \in S  PROVE n + 1 \in S
  <2>1. PICK u : IsPowers(u, n)
    BY <1>2
  <2>2. PICK v : v = [k \in 0 .. (n + 1) |-> IF k <= n THEN u[k] ELSE 2 * u[n]]
    OBVIOUS
  <2>3. ASSUME NEW k \in 0 .. (n + 1)
        PROVE  v[k] = IF k = 0 THEN 1 ELSE 2 * v[k - 1]
    <3>1. \A j \in 0 .. n : u[j] = IF j = 0 THEN 1 ELSE 2 * u[j - 1]
      BY <2>1 DEF IsPowers
    <3>2. \A j \in 0 .. n : v[j] = u[j]
      BY <2>2
    <3>3. CASE k = n + 1
      <4>1. v[k] = 2 * u[n] /\ k # 0 /\ k - 1 = n /\ v[n] = u[n]
        BY <2>2, <3>2, <3>3
      <4> QED
        BY <4>1
    <3>4. CASE k # n + 1 /\ k # 0
      <4>1. k \in 0 .. n /\ k - 1 \in 0 .. n
        BY <3>4
      <4> QED
        BY <3>1, <3>2, <3>4, <4>1
    <3>5. CASE k = 0
      BY <3>1, <3>2, <3>5
    <3> QED
      BY <3>3, <3>4, <3>5
  <2>4. v = [k \in 0 .. (n + 1) |-> IF k = 0 THEN 1 ELSE 2 * v[k - 1]]
    BY <2>2, <2>3
  <2>5. IsPowers(v, n + 1)
    BY <2>4 DEF IsPowers
  <2> QED
    BY <2>5
<1> HIDE DEF S
<1>3. \A n \in Nat : n \in S
  BY <1>1, <1>2, Induction
<1> QED
  BY <1>3 DEF S

\* Two tables agree on what both hold, and hold positive numbers.
LEMMA PowersAgree ==
  ASSUME NEW n \in Nat, NEW u, IsPowers(u, n), NEW m \in Nat, NEW v, IsPowers(v, m)
  PROVE  \A k \in 0 .. n : u[k] \in Nat \ {0} /\ (k <= m => u[k] = v[k])
<1> DEFINE S == {k \in Nat : k <= n => u[k] \in Nat \ {0} /\ (k <= m => u[k] = v[k])}
<1>0. /\ \A k \in 0 .. n : u[k] = IF k = 0 THEN 1 ELSE 2 * u[k - 1]
      /\ \A k \in 0 .. m : v[k] = IF k = 0 THEN 1 ELSE 2 * v[k - 1]
  BY DEF IsPowers
<1>1. 0 \in S
  <2>1. u[0] = 1 /\ v[0] = 1
    BY <1>0
  <2> QED
    BY <2>1
<1>2. ASSUME NEW k \in Nat, k \in S  PROVE k + 1 \in S
  <2>1. SUFFICES ASSUME k + 1 <= n
                 PROVE  u[k + 1] \in Nat \ {0} /\ (k + 1 <= m => u[k + 1] = v[k + 1])
    OBVIOUS
  <2>2. u[k] \in Nat \ {0} /\ (k <= m => u[k] = v[k])
    BY <1>2, <2>1
  <2>3. PICK i : i = k + 1
    OBVIOUS
  <2>4. i \in 0 .. n /\ i # 0 /\ i - 1 = k /\ (i <= m => i \in 0 .. m)
    BY <2>1, <2>3
  <2>5. u[i] = 2 * u[k] /\ (i <= m => v[i] = 2 * v[k])
    BY <1>0, <2>4
  <2>6. u[i] \in Nat \ {0} /\ (i <= m => u[i] = v[i])
    BY <2>2, <2>4, <2>5
  <2> QED
    BY <2>3, <2>6
<1> HIDE DEF S
<1>3. \A k \in Nat : k \in S
  BY <1>1, <1>2, Induction
<1> QED
  BY <1>3 DEF S

LEMMA PowerIs ==
  ASSUME NEW n \in Nat
  PROVE  \E u : IsPowers(u, n) /\ Power(n) = u[n]
<1> DEFINE P(u) == IsPowers(u, n)
<1>1. \E u : P(u)
  BY PowersExist
<1>2. Power(n) = (CHOOSE u : P(u))[n]
  BY DEF Power, IsPowers
<1> HIDE DEF P
<1>3. P(CHOOSE u : P(u))
  BY <1>1
<1> QED
  BY <1>2, <1>3 DEF P

\* 1 << n doubles with n.
LEMMA PowerDoubles ==
  /\ Power(0) = 1
  /\ \A n \in Nat : Power(n) \in Nat \ {0} /\ Power(n + 1) = 2 * Power(n)
<1>1. Power(0) = 1
  <2>1. PICK u : IsPowers(u, 0) /\ Power(0) = u[0]
    BY PowerIs
  <2> QED
    BY <2>1 DEF IsPowers
<1>2. ASSUME NEW n \in Nat
      PROVE  Power(n) \in Nat \ {0} /\ Power(n + 1) = 2 * Power(n)
  <2>1. PICK u : IsPowers(u, n) /\ Power(n) = u[n]
    BY PowerIs
  <2>2. PICK m : m = n + 1
    OBVIOUS
  <2>3. m \in Nat /\ m \in 0 .. m /\ m # 0 /\ m - 1 = n /\ n \in 0 .. n /\ n <= m
    BY <2>2
  <2>4. PICK v : IsPowers(v, m) /\ Power(m) = v[m]
    BY <2>3, PowerIs
  <2>5. u[n] \in Nat \ {0} /\ u[n] = v[n]
    BY <2>1, <2>3, <2>4, PowersAgree
  <2>6. v[m] = 2 * v[n]
    BY <2>3, <2>4 DEF IsPowers
  <2> QED
    BY <2>1, <2>2, <2>4, <2>5, <2>6
<1> QED
  BY <1>1, <1>2

\* A bit more at the end of a number, and one less at the end of its quotient.
LEMMA BitAppended ==
  ASSUME NEW a \in Nat, NEW b \in {0, 1}, NEW m \in Nat \ {0}
  PROVE  (2 * a + b) \div (2 * m) = a \div m
<1>1. PICK q, r, t : q = a \div m /\ r = a % m /\ t = 2 * r + b
  OBVIOUS
<1>2. q \in Int /\ r \in 0 .. (m - 1) /\ a = m * q + r
  BY <1>1, Split
<1>3. t \in 0 .. (2 * m - 1) /\ 2 * m \in Nat \ {0} /\ 2 * a + b \in Int
  BY <1>1, <1>2
<1>4. 2 * a + b = (2 * m) * q + t
  BY <1>1, <1>2
<1> QED
  BY <1>1, <1>2, <1>3, <1>4, Divided

LEMMA BitDropped ==
  ASSUME NEW a \in Nat, NEW m \in Nat \ {0}
  PROVE  a \div m = 2 * (a \div (2 * m)) + ((a \div m) % 2)
<1>1. PICK q, r : q = a \div m /\ r = a % m
  OBVIOUS
<1>2. q \in Int /\ r \in 0 .. (m - 1) /\ a = m * q + r
  BY <1>1, Split
<1>3. PICK h, e : h = q \div 2 /\ e = q % 2
  OBVIOUS
<1>4. h \in Int /\ e \in {0, 1} /\ q = 2 * h + e
  <2>1. h \in Int /\ e \in 0 .. 1 /\ q = 2 * h + e
    BY <1>2, <1>3
  <2> QED
    BY <2>1
<1>5. PICK t : t = m * e + r
  OBVIOUS
<1>6. t \in 0 .. (2 * m - 1) /\ 2 * m \in Nat \ {0} /\ a \in Int
  <2>1. CASE e = 0
    BY <1>2, <1>5, <2>1
  <2>2. CASE e = 1
    BY <1>2, <1>5, <2>2
  <2> QED
    BY <1>4, <2>1, <2>2
<1>7. a = (2 * m) * h + t
  <2>1. m * q = m * (2 * h + e) /\ m * (2 * h + e) = (2 * m) * h + m * e
    BY <1>4
  <2> QED
    BY <1>2, <1>4, <1>5, <2>1
<1>8. a \div (2 * m) = h
  BY <1>4, <1>6, <1>7, Divided
<1> QED
  BY <1>1, <1>3, <1>4, <1>8

-----------------------------------------------------------------------------
(* The number of some bits, and the bits of a number.                      *)

IsIndex(u, b, n) == u = [j \in 0 .. n |-> IF j = 0 THEN 0 ELSE 2 * u[j - 1] + b[j]]

LEMMA IndexExists ==
  ASSUME NEW b
  PROVE  \A n \in Nat : \E u : IsIndex(u, b, n)
<1> DEFINE S == {n \in Nat : \E u : IsIndex(u, b, n)}
<1>1. 0 \in S
  <2>1. PICK u : u = [k \in 0 .. 0 |-> 0]
    OBVIOUS
  <2>2. u = [k \in 0 .. 0 |-> IF k = 0 THEN 0 ELSE 2 * u[k - 1] + b[k]]
    BY <2>1
  <2>3. IsIndex(u, b, 0)
    BY <2>2 DEF IsIndex
  <2> QED
    BY <2>3
<1>2. ASSUME NEW n \in Nat, n \in S  PROVE n + 1 \in S
  <2>1. PICK u : IsIndex(u, b, n)
    BY <1>2
  <2>2. PICK v : v = [k \in 0 .. (n + 1) |->
                        IF k <= n THEN u[k] ELSE 2 * u[n] + b[n + 1]]
    OBVIOUS
  <2>3. ASSUME NEW k \in 0 .. (n + 1)
        PROVE  v[k] = IF k = 0 THEN 0 ELSE 2 * v[k - 1] + b[k]
    <3>1. \A j \in 0 .. n : u[j] = IF j = 0 THEN 0 ELSE 2 * u[j - 1] + b[j]
      BY <2>1 DEF IsIndex
    <3>2. \A j \in 0 .. n : v[j] = u[j]
      BY <2>2
    <3>3. CASE k = n + 1
      <4>1. v[k] = 2 * u[n] + b[k] /\ k # 0 /\ k - 1 = n /\ v[n] = u[n]
        BY <2>2, <3>2, <3>3
      <4> QED
        BY <4>1
    <3>4. CASE k # n + 1 /\ k # 0
      <4>1. k \in 0 .. n /\ k - 1 \in 0 .. n
        BY <3>4
      <4> QED
        BY <3>1, <3>2, <3>4, <4>1
    <3>5. CASE k = 0
      BY <3>1, <3>2, <3>5
    <3> QED
      BY <3>3, <3>4, <3>5
  <2>4. v = [k \in 0 .. (n + 1) |-> IF k = 0 THEN 0 ELSE 2 * v[k - 1] + b[k]]
    BY <2>2, <2>3
  <2>5. IsIndex(v, b, n + 1)
    BY <2>4 DEF IsIndex
  <2> QED
    BY <2>5
<1> HIDE DEF S
<1>3. \A n \in Nat : n \in S
  BY <1>1, <1>2, Induction
<1> QED
  BY <1>3 DEF S

LEMMA NumberIs ==
  ASSUME NEW b, Len(b) \in Nat
  PROVE  \E u : IsIndex(u, b, Len(b)) /\ NumberOf(b) = u[Len(b)]
<1> DEFINE P(u) == IsIndex(u, b, Len(b))
<1>1. \E u : P(u)
  BY IndexExists
<1>2. NumberOf(b) = (CHOOSE u : P(u))[Len(b)]
  BY DEF NumberOf, IsIndex
<1> HIDE DEF P
<1>3. P(CHOOSE u : P(u))
  BY <1>1
<1> QED
  BY <1>2, <1>3 DEF P

AreBits(b) == Sequence(b) /\ \A k \in 1 .. Len(b) : b[k] \in {0, 1}

LEMMA BitsAre ==
  ASSUME NEW w \in Nat, NEW n \in Nat
  PROVE  AreBits(BitsOf(w, n)) /\ Len(BitsOf(w, n)) = w
<1>1. PICK b : b = BitsOf(w, n)
  OBVIOUS
<1>2. b = [k \in 1 .. w |-> (n \div Power(w - k)) % 2]
  BY <1>1 DEF BitsOf
<1>3. b = [k \in 1 .. w |-> b[k]]
  BY <1>2
<1>4. Sequence(b) /\ Len(b) = w
  BY <1>3, SequenceOfFunction
<1>5. ASSUME NEW k \in 1 .. w  PROVE b[k] \in {0, 1}
  <2>1. PICK p : p = Power(w - k)
    OBVIOUS
  <2>2. w - k \in Nat
    OBVIOUS
  <2>3. p \in Nat \ {0}
    BY <2>1, <2>2, PowerDoubles
  <2>4. n \div p \in Int
    BY <2>3, Split
  <2>5. b[k] = (n \div p) % 2
    BY <1>2, <2>1
  <2> QED
    BY <2>4, <2>5
<1> QED
  BY <1>1, <1>4, <1>5 DEF AreBits

\* Bits are those of their number, which is below the power of their length.
LEMMA BitsOfNumber ==
  ASSUME NEW b, AreBits(b), NEW w, w = Len(b)
  PROVE  NumberOf(b) \in 0 .. (Power(w) - 1) /\ BitsOf(w, NumberOf(b)) = b
<1>0. w \in Nat
  BY SequenceShape DEF AreBits
<1>1. PICK u : IsIndex(u, b, w) /\ NumberOf(b) = u[w]
  BY <1>0, NumberIs
<1>2. \A j \in 0 .. w : u[j] = IF j = 0 THEN 0 ELSE 2 * u[j - 1] + b[j]
  BY <1>1 DEF IsIndex
<1> DEFINE Holds(j) ==
      /\ u[j] \in 0 .. (Power(j) - 1)
      /\ \A k \in 1 .. j : (u[j] \div Power(j - k)) % 2 = b[k]
<1> DEFINE S == {j \in Nat : j <= w => Holds(j)}
<1>3. 0 \in S
  <2>0. u[0] = 0
    BY <1>0, <1>2
  <2>1. u[0] = 0 /\ Power(0) = 1
    BY <2>0, PowerDoubles, Zenon
  <2>2. u[0] \in 0 .. (Power(0) - 1) /\ 1 .. 0 = {}
    BY <2>1
  <2> QED
    BY <2>2
<1>4. ASSUME NEW j \in Nat, j \in S  PROVE j + 1 \in S
  <2>1. SUFFICES ASSUME j + 1 <= w  PROVE Holds(j + 1)
    OBVIOUS
  <2>2. PICK i : i = j + 1
    OBVIOUS
  <2>3. i \in 1 .. w /\ i - 1 = j /\ i \in 0 .. w /\ i # 0
    BY <1>0, <2>1, <2>2
  <2>4. Holds(j)
    BY <1>4, <2>1
  <2>5. u[j] \in Nat /\ b[i] \in {0, 1} /\ u[i] = 2 * u[j] + b[i]
    <3>1. Power(j) \in Nat
      BY PowerDoubles
    <3> QED
      BY <1>2, <2>3, <2>4, <3>1 DEF AreBits
  <2>6. u[i] \in 0 .. (Power(i) - 1)
    <3>1. Power(i) = 2 * Power(j) /\ Power(j) \in Nat
      BY <2>2, PowerDoubles
    <3> QED
      BY <2>4, <2>5, <3>1
  <2>7. ASSUME NEW k \in 1 .. i  PROVE (u[i] \div Power(i - k)) % 2 = b[k]
    <3>1. CASE k = i
      <4>1. i - k = 0 /\ Power(0) = 1
        BY <2>3, <3>1, PowerDoubles
      <4>2. u[i] \div 1 = u[i] /\ (2 * u[j] + b[i]) % 2 = b[i]
        BY <2>5
      <4> QED
        BY <2>5, <3>1, <4>1, <4>2
    <3>2. CASE k # i
      <4>1. PICK e, p : e = j - k /\ p = Power(e)
        OBVIOUS
      <4>2. k \in 1 .. j /\ e \in Nat /\ i - k = e + 1
        BY <2>2, <2>3, <3>2, <4>1
      <4>3. p \in Nat \ {0} /\ Power(i - k) = 2 * p
        BY <4>1, <4>2, PowerDoubles
      <4>4. (2 * u[j] + b[i]) \div (2 * p) = u[j] \div p
        BY <2>5, <4>3, BitAppended
      <4>5. (u[j] \div p) % 2 = b[k]
        BY <2>4, <4>1, <4>2
      <4> QED
        BY <2>5, <4>3, <4>4, <4>5
    <3> QED
      BY <3>1, <3>2
  <2> QED
    BY <2>2, <2>6, <2>7
<1> HIDE DEF S
<1>5. \A j \in Nat : j \in S
  BY <1>3, <1>4, Induction
<1>6. Holds(w)
  BY <1>0, <1>5 DEF S
<1>7. PICK c : c = BitsOf(w, u[w])
  OBVIOUS
<1>8. u[w] \in Nat
  <2>1. Power(w) \in Nat
    BY <1>0, PowerDoubles
  <2> QED
    BY <1>6, <2>1
<1>9. Sequence(c) /\ Len(c) = w
  BY <1>0, <1>7, <1>8, BitsAre DEF AreBits
<1>10. \A k \in 1 .. w : c[k] = (u[w] \div Power(w - k)) % 2
  BY <1>7 DEF BitsOf
<1>11. c = b
  BY <1>6, <1>9, <1>10, SameCells DEF AreBits
<1> QED
  BY <1>1, <1>6, <1>7, <1>11

\* And a number below that power is the number of its bits.
LEMMA NumberOfBits ==
  ASSUME NEW w \in Nat, NEW n \in 0 .. (Power(w) - 1)
  PROVE  NumberOf(BitsOf(w, n)) = n
<1>0. Power(w) \in Nat \ {0} /\ n \in Nat
  <2>1. Power(w) \in Nat \ {0}
    BY PowerDoubles
  <2> QED
    BY <2>1
<1>1. PICK b : b = BitsOf(w, n)
  OBVIOUS
<1>2. Len(b) = w /\ \A k \in 1 .. w : b[k] = (n \div Power(w - k)) % 2
  <2>1. Len(b) = w
    BY <1>0, <1>1, BitsAre
  <2> QED
    BY <1>1, <2>1 DEF BitsOf
<1>3. PICK u : IsIndex(u, b, w) /\ NumberOf(b) = u[w]
  BY <1>2, NumberIs
<1>4. \A j \in 0 .. w : u[j] = IF j = 0 THEN 0 ELSE 2 * u[j - 1] + b[j]
  BY <1>3 DEF IsIndex
<1> DEFINE S == {j \in Nat : j <= w => u[j] = n \div Power(w - j)}
<1>5. 0 \in S
  <2>1. u[0] = 0 /\ w - 0 = w
    BY <1>4
  <2>2. n = Power(w) * 0 + n /\ 0 \in Int /\ n \in Int
    BY <1>0
  <2>3. n \div Power(w) = 0
    BY <1>0, <2>2, Divided
  <2> QED
    BY <2>1, <2>3
<1>6. ASSUME NEW j \in Nat, j \in S  PROVE j + 1 \in S
  <2>1. SUFFICES ASSUME j + 1 <= w  PROVE u[j + 1] = n \div Power(w - (j + 1))
    OBVIOUS
  <2>2. PICK i, e, p : i = j + 1 /\ e = w - i /\ p = Power(e)
    OBVIOUS
  <2>3. i \in 1 .. w /\ i \in 0 .. w /\ i # 0 /\ i - 1 = j /\ e \in Nat /\ w - j = e + 1
    BY <2>1, <2>2
  <2>4. p \in Nat \ {0} /\ Power(w - j) = 2 * p
    BY <2>2, <2>3, PowerDoubles
  <2>5. u[j] = n \div (2 * p)
    BY <1>6, <2>1, <2>4
  <2>6. u[i] = 2 * u[j] + b[i] /\ b[i] = (n \div p) % 2
    BY <1>2, <1>4, <2>2, <2>3
  <2>7. n \div p = 2 * (n \div (2 * p)) + ((n \div p) % 2)
    BY <1>0, <2>4, BitDropped
  <2> QED
    BY <2>2, <2>5, <2>6, <2>7
<1> HIDE DEF S
<1>7. \A j \in Nat : j \in S
  BY <1>5, <1>6, Induction
<1>8. u[w] = n \div Power(0) /\ Power(0) = 1
  <2>1. w - w = 0
    OBVIOUS
  <2> QED
    BY <1>7, <2>1, PowerDoubles DEF S
<1> QED
  BY <1>0, <1>1, <1>3, <1>8

-----------------------------------------------------------------------------
(* The bits of numbers in a row.                                           *)

\* The place of bit j of number i.
Place(w, i, j) == (i - 1) * w + j

\* The bits of a row are those of its numbers, one number after the other.
IsRow(c, w, s) ==
  /\ AreBits(c) /\ Len(c) = Len(s) * w
  /\ \A i \in 1 .. Len(s), j \in 1 .. w :
        c[Place(w, i, j)] = BitsOf(w, s[i])[j]

\* Every place in a row is one of a number.
LEMMA PlaceInRow ==
  ASSUME NEW w \in Nat \ {0}, NEW n \in Nat, NEW k \in 1 .. n * w
  PROVE  \E i \in 1 .. n, j \in 1 .. w :
            /\ k = Place(w, i, j)
            /\ i = ((k - 1) \div w) + 1 /\ j = ((k - 1) % w) + 1
<1>1. PICK q, r : q = (k - 1) \div w /\ r = (k - 1) % w
  OBVIOUS
<1>2. n * w \in Nat
  OBVIOUS
<1>3. k \in Nat /\ k - 1 \in Nat
  BY <1>2
<1>4. q \in Nat /\ r \in 0 .. (w - 1) /\ k - 1 = w * q + r
  BY <1>1, <1>3, Split
<1>5. q < n
  <2>1. SUFFICES ASSUME q >= n  PROVE FALSE
    BY <1>4
  <2>2. w * q >= w * n /\ w * n = n * w
    BY <1>4, <2>1
  <2>3. w * q \in Int
    BY <1>4
  <2> QED
    BY <1>2, <1>3, <1>4, <2>2, <2>3
<1>6. PICK i, j : i = q + 1 /\ j = r + 1
  OBVIOUS
<1>7. i \in 1 .. n /\ j \in 1 .. w /\ k = (i - 1) * w + j
  <2>1. i - 1 = q /\ q * w = w * q /\ w * q \in Int
    BY <1>4, <1>6
  <2> QED
    BY <1>3, <1>4, <1>5, <1>6, <2>1
<1> QED
  BY <1>1, <1>6, <1>7 DEF Place

HasPlace(w, n, k) == \E i \in 1 .. n, j \in 1 .. w : k = Place(w, i, j)

LEMMA EveryPlace ==
  ASSUME NEW w \in Nat \ {0}, NEW n \in Nat
  PROVE  \A k \in 1 .. n * w : HasPlace(w, n, k)
<1> SUFFICES ASSUME NEW k \in 1 .. n * w  PROVE HasPlace(w, n, k)
  OBVIOUS
<1>1. PICK i \in 1 .. n, j \in 1 .. w : k = Place(w, i, j)
  BY PlaceInRow, ZenonT(30)
<1> QED
  BY <1>1 DEF HasPlace

LeadsTo(w, n, k, i, j) ==
  k \in 1 .. n * w /\ ((k - 1) \div w) + 1 = i /\ ((k - 1) % w) + 1 = j

LEMMA PlaceOf ==
  ASSUME NEW w \in Nat \ {0}, NEW n \in Nat, NEW i \in 1 .. n, NEW j \in 1 .. w
  PROVE  LeadsTo(w, n, Place(w, i, j), i, j)
<1>1. PICK q, r, k : q = i - 1 /\ r = j - 1 /\ k = Place(w, i, j)
  OBVIOUS
<1>2. q \in Nat /\ q <= n - 1 /\ r \in 0 .. (w - 1)
  BY <1>1
<1>3. q * w \in Nat /\ q * w <= (n - 1) * w /\ w * q = q * w
      /\ (n - 1) * w = n * w - w /\ n * w \in Nat
  BY <1>1, <1>2
<1>4. k = q * w + r + 1 /\ k - 1 = w * q + r /\ k - 1 \in Int
  BY <1>1, <1>2, <1>3 DEF Place
<1>5. k \in 1 .. n * w
  BY <1>2, <1>3, <1>4
<1>6. (k - 1) % w = r /\ (k - 1) \div w = q
  BY <1>2, <1>4, Divided
<1> QED
  BY <1>1, <1>2, <1>5, <1>6 DEF LeadsTo

LEMMA RowOf ==
  ASSUME NEW w \in Nat \ {0}, NEW s, Len(s) \in Nat, \A i \in 1 .. Len(s) : s[i] \in Nat
  PROVE  IsRow(AllBits(w, s), w, s)
<1>1. PICK c : c = AllBits(w, s)
  OBVIOUS
<1>2. PICK n : n = Len(s)
  OBVIOUS
<1>3. c = [k \in 1 .. n * w |-> BitsOf(w, s[((k - 1) \div w) + 1])[((k - 1) % w) + 1]]
  BY <1>1, <1>2 DEF AllBits
<1>4. n * w \in Nat
  BY <1>2
<1>5. Sequence(c) /\ Len(c) = n * w
  <2>1. c = [k \in 1 .. n * w |-> c[k]]
    BY <1>3
  <2> QED
    BY <1>4, <2>1, SequenceOfFunction
<1>6. ASSUME NEW k \in 1 .. n * w  PROVE c[k] \in {0, 1}
  <2>1. PICK i \in 1 .. n, j \in 1 .. w :
           i = ((k - 1) \div w) + 1 /\ j = ((k - 1) % w) + 1
    BY <1>2, PlaceInRow
  <2>2. c[k] = BitsOf(w, s[i])[j]
    BY <1>3, <2>1
  <2>3. s[i] \in Nat
    BY <1>2
  <2> QED
    BY <2>2, <2>3, BitsAre, ZenonT(60) DEF AreBits
<1>7. ASSUME NEW i \in 1 .. n, NEW j \in 1 .. w
      PROVE  c[Place(w, i, j)] = BitsOf(w, s[i])[j]
  <2>1. n \in Nat
    BY <1>2
  <2>2. PICK k : k = Place(w, i, j)
    OBVIOUS
  <2>3. k \in 1 .. n * w /\ ((k - 1) \div w) + 1 = i /\ ((k - 1) % w) + 1 = j
    <3>1. LeadsTo(w, n, k, i, j)
      BY <2>1, <2>2, PlaceOf
    <3> QED
      BY <3>1 DEF LeadsTo
  <2>4. c[k] = BitsOf(w, s[((k - 1) \div w) + 1])[((k - 1) % w) + 1]
    BY <1>3, <2>3
  <2> QED
    BY <2>2, <2>3, <2>4, Zenon
<1>8. IsRow(c, w, s)
  BY <1>2, <1>5, <1>6, <1>7 DEF IsRow, AreBits
<1> QED
  BY <1>1, <1>8

\* Rows of as many bits that agree number by number agree.
LEMMA SameRow ==
  ASSUME NEW w \in Nat \ {0}, NEW s, Len(s) \in Nat, NEW c, NEW d,
         Sequence(c), Sequence(d), Len(c) = Len(s) * w, Len(d) = Len(s) * w,
         \A i \in 1 .. Len(s), j \in 1 .. w : c[Place(w, i, j)] = d[Place(w, i, j)]
  PROVE  c = d
<1>1. ASSUME NEW k \in 1 .. Len(s) * w  PROVE c[k] = d[k]
  <2>1. HasPlace(w, Len(s), k)
    BY EveryPlace
  <2>2. PICK i \in 1 .. Len(s), j \in 1 .. w : k = Place(w, i, j)
    BY <2>1 DEF HasPlace
  <2> QED
    BY <2>2, Zenon
<1> QED
  BY <1>1, SameCells

\* The numbers that some bits make.
IsGroup(g, w, n, b) ==
  /\ Sequence(g) /\ Len(g) = n
  /\ \A i \in 1 .. n :
        \E c : /\ AreBits(c) /\ Len(c) = w
               /\ \A j \in 1 .. w : c[j] = b[Place(w, i, j)]
               /\ g[i] = NumberOf(c)

LEMMA GroupIs ==
  ASSUME NEW w \in Nat \ {0}, NEW n \in Nat, NEW b, AreBits(b), n * w <= Len(b)
  PROVE  IsGroup(Group(w, n, b), w, n, b)
<1>0. PICK g : g = Group(w, n, b)
  OBVIOUS
<1>1. g = [i \in 1 .. n |-> NumberOf(SubSeq(b, (i - 1) * w + 1, i * w))]
  BY <1>0 DEF Group
<1>2. Sequence(g) /\ Len(g) = n
  <2>1. g = [i \in 1 .. n |-> g[i]]
    BY <1>1
  <2> QED
    BY <2>1, SequenceOfFunction
<1>3. ASSUME NEW i \in 1 .. n
      PROVE  \E c : /\ AreBits(c) /\ Len(c) = w
                    /\ \A j \in 1 .. w : c[j] = b[Place(w, i, j)]
                    /\ g[i] = NumberOf(c)
  <2>1. PICK lo, hi, c : /\ lo = (i - 1) * w /\ hi = i * w
                         /\ c = SubSeq(b, lo + 1, hi)
    OBVIOUS
  <2>2. lo \in Nat /\ hi = lo + w /\ hi <= n * w /\ n * w \in Nat /\ Len(b) \in Nat
    <3>1. (i - 1) * w \in Nat /\ i * w = (i - 1) * w + w /\ i * w <= n * w /\ n * w \in Nat
      OBVIOUS
    <3> QED
      BY <2>1, <3>1, SequenceShape DEF AreBits
  <2>3. IsPart(c, b, lo + 1, hi)
    <3>1. lo + 1 \in Nat \ {0} /\ hi \in Nat /\ hi <= Len(b)
      BY <2>2
    <3> QED
      BY <2>1, <3>1, PartOf DEF AreBits
  <2>4. Sequence(c) /\ Len(c) = w /\ \A j \in 1 .. w : c[j] = b[lo + j]
    <3>1. Sequence(c) /\ Len(c) = w
      BY <2>2, <2>3 DEF IsPart
    <3>2. ASSUME NEW j \in 1 .. w  PROVE c[j] = b[lo + j]
      <4>1. lo + 1 + j - 1 = lo + j
        BY <2>2
      <4> QED
        BY <2>3, <3>1, <4>1 DEF IsPart
    <3> QED
      BY <3>1, <3>2
  <2>5. \A j \in 1 .. w : lo + j \in 1 .. Len(b)
    BY <2>2
  <2>6. AreBits(c)
    BY <2>4, <2>5 DEF AreBits
  <2>7. g[i] = NumberOf(c)
    BY <1>1, <2>1
  <2>8. \A j \in 1 .. w : c[j] = b[Place(w, i, j)]
    BY <2>1, <2>4 DEF Place
  <2> QED
    BY <2>4, <2>6, <2>7, <2>8
<1>4. IsGroup(g, w, n, b)
  BY <1>2, <1>3 DEF IsGroup
<1> QED
  BY <1>0, <1>4

\* Cutting bits into numbers and writing the numbers out gives the bits back.
IsCut(g, w, n, b) ==
  /\ Sequence(g) /\ Len(g) = n
  /\ \A i \in 1 .. n : g[i] \in 0 .. (Power(w) - 1)
  /\ AllBits(w, g) = SubSeq(b, 1, n * w)

LEMMA BitsOfGroup ==
  ASSUME NEW w \in Nat \ {0}, NEW n \in Nat, NEW b, AreBits(b), n * w <= Len(b)
  PROVE  IsCut(Group(w, n, b), w, n, b)
<1>g. PICK g : g = Group(w, n, b)
  OBVIOUS
<1>0. IsGroup(g, w, n, b)
  BY <1>g, GroupIs
<1>1. Sequence(g) /\ Len(g) = n
  BY <1>0 DEF IsGroup
<1>2. ASSUME NEW i \in 1 .. n
      PROVE  /\ g[i] \in 0 .. (Power(w) - 1)
             /\ \A j \in 1 .. w : BitsOf(w, g[i])[j] = b[Place(w, i, j)]
  <2>1. PICK c : /\ AreBits(c) /\ Len(c) = w
                 /\ \A j \in 1 .. w : c[j] = b[Place(w, i, j)]
                 /\ g[i] = NumberOf(c)
    BY <1>0 DEF IsGroup
  <2>2. g[i] \in 0 .. (Power(w) - 1) /\ BitsOf(w, g[i]) = c
    BY <2>1, BitsOfNumber
  <2> QED
    BY <2>1, <2>2
<1>3. Power(w) \in Nat /\ \A i \in 1 .. n : g[i] \in Nat
  <2>1. Power(w) \in Nat
    BY PowerDoubles
  <2> QED
    BY <1>2, <2>1
<1>4. PICK c, d : c = AllBits(w, g) /\ d = SubSeq(b, 1, n * w)
  OBVIOUS
<1>5. IsRow(c, w, g)
  BY <1>1, <1>3, <1>4, RowOf
<1>6. n * w \in Nat /\ Len(b) \in Nat /\ Sequence(b)
  BY SequenceShape DEF AreBits
<1>7. Sequence(d) /\ Len(d) = n * w /\ \A k \in 1 .. n * w : d[k] = b[k]
  BY <1>4, <1>6, PrefixOf, ZenonT(60)
<1>8. ASSUME NEW i \in 1 .. n, NEW j \in 1 .. w
      PROVE  c[Place(w, i, j)] = d[Place(w, i, j)]
  <2>1. Place(w, i, j) \in 1 .. n * w
    BY PlaceOf DEF LeadsTo
  <2>2. c[Place(w, i, j)] = BitsOf(w, g[i])[j]
    BY <1>1, <1>5 DEF IsRow
  <2> QED
    BY <1>2, <1>7, <2>1, <2>2
<1>9. c = d
  <2>1. Sequence(c) /\ Len(c) = n * w
    BY <1>1, <1>5 DEF IsRow, AreBits
  <2> QED
    BY <1>1, <1>7, <1>8, <2>1, SameRow
<1>10. IsCut(g, w, n, b)
  BY <1>1, <1>2, <1>4, <1>9 DEF IsCut
<1> QED
  BY <1>g, <1>10

\* Writing numbers out and cutting the bits gives the numbers back, whatever
\* comes behind them.
LEMMA GroupOfBits ==
  ASSUME NEW w \in Nat \ {0}, NEW s, Sequence(s),
         \A i \in 1 .. Len(s) : s[i] \in 0 .. (Power(w) - 1),
         NEW b, AreBits(b), Len(s) * w <= Len(b),
         \A k \in 1 .. Len(s) * w : b[k] = AllBits(w, s)[k]
  PROVE  Group(w, Len(s), b) = s
<1>1. PICK n, g : n = Len(s) /\ g = Group(w, n, b)
  OBVIOUS
<1>2. n \in Nat /\ Power(w) \in Nat
  BY <1>1, SequenceShape, PowerDoubles
<1>3. \A i \in 1 .. n : s[i] \in Nat
  BY <1>1, <1>2
<1>4. IsRow(AllBits(w, s), w, s)
  BY <1>1, <1>2, <1>3, RowOf
<1>5. IsGroup(g, w, n, b)
  <2>1. n * w <= Len(b)
    BY <1>1
  <2> QED
    BY <1>1, <1>2, <2>1, GroupIs
<1>6. ASSUME NEW i \in 1 .. n  PROVE g[i] = s[i]
  <2>1. PICK c : /\ AreBits(c) /\ Len(c) = w
                 /\ \A j \in 1 .. w : c[j] = b[Place(w, i, j)]
                 /\ g[i] = NumberOf(c)
    BY <1>5 DEF IsGroup
  <2>2. ASSUME NEW j \in 1 .. w  PROVE c[j] = BitsOf(w, s[i])[j]
    <3>1. Place(w, i, j) \in 1 .. n * w
      BY <1>2, PlaceOf DEF LeadsTo
    <3>2. AllBits(w, s)[Place(w, i, j)] = BitsOf(w, s[i])[j]
      BY <1>1, <1>4 DEF IsRow
    <3> QED
      BY <1>1, <2>1, <3>1, <3>2
  <2>3. AreBits(BitsOf(w, s[i])) /\ Len(BitsOf(w, s[i])) = w
    BY <1>3, BitsAre
  <2>4. c = BitsOf(w, s[i])
    BY <2>1, <2>2, <2>3, SameCells DEF AreBits
  <2> QED
    BY <1>1, <2>1, <2>4, NumberOfBits
<1>7. g = s
  BY <1>1, <1>5, <1>6, SameCells DEF IsGroup
<1> QED
  BY <1>1, <1>7

\* So numbers are known by their bits.
LEMMA KnownByBits ==
  ASSUME NEW w \in Nat \ {0}, NEW s, Sequence(s), NEW t, Sequence(t), Len(s) = Len(t),
         \A i \in 1 .. Len(s) : s[i] \in 0 .. (Power(w) - 1),
         \A i \in 1 .. Len(t) : t[i] \in 0 .. (Power(w) - 1),
         AllBits(w, s) = AllBits(w, t)
  PROVE  s = t
<1>1. PICK b : b = AllBits(w, s)
  OBVIOUS
<1>2. Len(s) \in Nat /\ Power(w) \in Nat
  BY SequenceShape, PowerDoubles
<1>3. \A i \in 1 .. Len(s) : s[i] \in Nat
  BY <1>2
<1>4. IsRow(b, w, s)
  BY <1>1, <1>2, <1>3, RowOf
<1>5. AreBits(b) /\ Len(b) = Len(s) * w /\ Len(s) * w <= Len(b)
  BY <1>2, <1>4 DEF IsRow
<1>6. Group(w, Len(s), b) = s
  BY <1>1, <1>5, GroupOfBits
<1>7. Group(w, Len(t), b) = t
  BY <1>1, <1>5, GroupOfBits
<1> QED
  BY <1>6, <1>7

\* The first n cells of bits.
IsStart(c, b, n) == Sequence(c) /\ Len(c) = n /\ \A k \in 1 .. n : c[k] = b[k]

LEMMA StartIs ==
  ASSUME NEW b, AreBits(b), NEW n \in Nat, n <= Len(b)
  PROVE  IsStart(SubSeq(b, 1, n), b, n)
<1>1. PICK c : c = SubSeq(b, 1, n)
  OBVIOUS
<1>2. Sequence(b)
  BY DEF AreBits
<1>3. Sequence(c) /\ Len(c) = n /\ \A k \in 1 .. n : c[k] = b[k]
  BY <1>1, <1>2, PrefixOf
<1> QED
  BY <1>1, <1>3 DEF IsStart

\* The bits of one more number come behind.
IsLonger(b, w, s, x) ==
  /\ AreBits(b) /\ Len(b) = Len(s) * w + w
  /\ \A k \in 1 .. Len(s) * w : b[k] = AllBits(w, s)[k]
  /\ \A j \in 1 .. w : b[Len(s) * w + j] = BitsOf(w, x)[j]

LEMMA RowLonger ==
  ASSUME NEW w \in Nat \ {0}, NEW s, Sequence(s), \A i \in 1 .. Len(s) : s[i] \in Nat,
         NEW x \in Nat
  PROVE  IsLonger(AllBits(w, Append(s, x)), w, s, x)
<1>0. PICK t : t = Append(s, x)
  OBVIOUS
<1>1. PICK n : n = Len(s)
  OBVIOUS
<1>2. n \in Nat /\ n * w \in Nat
  <2>1. n \in Nat
    BY <1>1, SequenceShape
  <2> QED
    BY <2>1
<1>3. /\ Sequence(t) /\ Len(t) = n + 1 /\ t[n + 1] = x
      /\ \A i \in 1 .. n : t[i] = s[i]
  <2>1. s \in Seq(Cells(s) \cup {x}) /\ x \in Cells(s) \cup {x}
    BY SeqMonotonic DEF Sequence
  <2>2. t \in Seq(Cells(s) \cup {x})
    BY <1>0, <2>1, AppendProperties
  <2>3. Sequence(t)
    BY <2>2, SequenceOver
  <2> QED
    BY <1>0, <1>1, <2>1, <2>3, AppendProperties
<1>4. \A i \in 1 .. Len(t) : t[i] \in Nat
  <2>1. ASSUME NEW i \in 1 .. n + 1  PROVE t[i] \in Nat
    <3>1. i = n + 1 \/ i \in 1 .. n
      BY <1>2
    <3> QED
      BY <1>1, <1>3, <3>1
  <2> QED
    BY <1>3, <2>1
<1>5. PICK b, c : b = AllBits(w, t) /\ c = AllBits(w, s)
  OBVIOUS
<1>6. IsRow(b, w, t) /\ IsRow(c, w, s)
  <2>1. Len(t) \in Nat /\ Len(s) \in Nat
    BY <1>1, <1>2, <1>3
  <2>2. IsRow(b, w, t)
    BY <1>4, <1>5, <2>1, RowOf
  <2>3. IsRow(c, w, s)
    BY <1>5, <2>1, RowOf
  <2> QED
    BY <2>2, <2>3
<1>7. AreBits(b) /\ Len(b) = n * w + w
  <2>1. (n + 1) * w = n * w + w
    BY <1>2
  <2> QED
    BY <1>3, <1>6, <2>1 DEF IsRow
<1>8. ASSUME NEW k \in 1 .. n * w  PROVE b[k] = c[k]
  <2>0. HasPlace(w, n, k)
    BY <1>2, EveryPlace
  <2>1. PICK i \in 1 .. n, j \in 1 .. w : k = Place(w, i, j)
    BY <2>0 DEF HasPlace
  <2>2. i \in 1 .. Len(t) /\ t[i] = s[i]
    BY <1>2, <1>3
  <2>3. b[k] = BitsOf(w, t[i])[j] /\ c[k] = BitsOf(w, s[i])[j]
    BY <1>1, <1>6, <2>1, <2>2 DEF IsRow
  <2> QED
    BY <2>2, <2>3
<1>9. ASSUME NEW j \in 1 .. w  PROVE b[n * w + j] = BitsOf(w, x)[j]
  <2>1. Place(w, n + 1, j) = n * w + j
    BY <1>2 DEF Place
  <2>2. n + 1 \in 1 .. Len(t)
    BY <1>2, <1>3
  <2>3. b[Place(w, n + 1, j)] = BitsOf(w, t[n + 1])[j]
    BY <1>6, <2>2 DEF IsRow
  <2> QED
    BY <1>3, <2>1, <2>3
<1>10. IsLonger(b, w, s, x)
  BY <1>1, <1>5, <1>7, <1>8, <1>9 DEF IsLonger
<1> QED
  BY <1>0, <1>5, <1>10

-----------------------------------------------------------------------------
(* Making and reading a mnemonic.                                          *)

\* The hash gives bytes (uint8_t in bip39.c).
HashIsByte == \A data \in Seq(Bytes) : HashFirst(data) \in Bytes

\* Four bytes and a bit fill three words.
LEMMA Proportions ==
  ASSUME NEW m \in 1 .. ByteBits
  PROVE  /\ ByteBits \in Nat \ {0} /\ WordBits \in Nat \ {0} /\ m \in Nat \ {0}
         /\ (4 * m) \div 4 = m /\ ((4 * m) * 3) \div 4 = 3 * m
         /\ (3 * m) \div 3 = m /\ ((3 * m) * 4) \div 3 = 4 * m
         /\ (4 * m) * ByteBits \in Nat
         /\ (3 * m) * WordBits = (4 * m) * ByteBits + m
         /\ (3 * m) * WordBits <= (4 * m) * ByteBits + ByteBits
<1>1. PICK b, w : b = ByteBits /\ w = WordBits
  OBVIOUS
<1>2. b \in Nat \ {0} /\ 3 * w = 4 * b + 1 /\ w = (4 * b + 1) \div 3
  BY <1>1, MnemonicAssumption DEF WordBits
<1>3. w \in Nat \ {0} /\ m \in Nat \ {0} /\ m <= b
  <2>1. w \in Int
    BY <1>2
  <2> QED
    BY <1>1, <1>2, <2>1
<1>4. /\ (4 * m) * b \in Nat /\ (3 * m) * w = m * (3 * w)
      /\ m * (4 * b + 1) = (4 * m) * b + m
  BY <1>2, <1>3
<1>5. (3 * m) * w = (4 * m) * b + m
  BY <1>2, <1>4
<1>6. (3 * m) * w <= (4 * m) * b + b
  BY <1>2, <1>3, <1>4, <1>5
<1>7. /\ (4 * m) \div 4 = m /\ ((4 * m) * 3) \div 4 = 3 * m
      /\ (3 * m) \div 3 = m /\ ((3 * m) * 4) \div 3 = 4 * m
  BY <1>3
<1> QED
  BY <1>1, <1>2, <1>3, <1>4, <1>5, <1>6, <1>7

\* The checksum of m times four bytes.
Checksum(data, m) == SubSeq(BitsOf(ByteBits, HashFirst(data)), 1, m)

LEMMA ChecksumIs ==
  ASSUME HashIsByte, NEW m \in 1 .. ByteBits, NEW data \in Seq(Bytes),
         NEW h, h = Checksum(data, m)
  PROVE  /\ HashFirst(data) \in Nat /\ AreBits(h) /\ Len(h) = m
         /\ \A j \in 1 .. m : h[j] = BitsOf(ByteBits, HashFirst(data))[j]
<1>1. PICK c : c = BitsOf(ByteBits, HashFirst(data))
  OBVIOUS
<1>2. ByteBits \in Nat /\ m \in Nat /\ m <= ByteBits
  BY Proportions
<1>3. HashFirst(data) \in Nat
  <2>1. Power(ByteBits) \in Nat
    BY <1>2, PowerDoubles
  <2>2. HashFirst(data) \in Bytes
    BY DEF HashIsByte
  <2> QED
    BY <2>1, <2>2 DEF Bytes
<1>4. AreBits(c) /\ Len(c) = ByteBits
  BY <1>1, <1>2, <1>3, BitsAre
<1>5. Sequence(h) /\ Len(h) = m /\ \A j \in 1 .. m : h[j] = c[j]
  <2>1. h = SubSeq(c, 1, m)
    BY <1>1 DEF Checksum
  <2>2. IsStart(SubSeq(c, 1, m), c, m)
    BY <1>2, <1>4, StartIs
  <2> QED
    BY <2>1, <2>2 DEF IsStart
<1>6. AreBits(h)
  <2>1. \A j \in 1 .. m : j \in 1 .. ByteBits
    BY <1>2
  <2> QED
    BY <1>4, <1>5, <2>1 DEF AreBits
<1> QED
  BY <1>1, <1>3, <1>5, <1>6

\* Bytes and words have the bits they are cut into.
LEMMA BytesAre ==
  ASSUME NEW s \in Seq(Bytes)
  PROVE  /\ Sequence(s) /\ Len(s) \in Nat
         /\ \A i \in 1 .. Len(s) : s[i] \in 0 .. (Power(ByteBits) - 1) /\ s[i] \in Nat
<1>1. Len(s) \in Nat /\ \A i \in 1 .. Len(s) : s[i] \in Bytes
  BY LenProperties
<1>2. ByteBits \in Nat
  BY MnemonicAssumption
<1>3. Power(ByteBits) \in Nat
  BY <1>2, PowerDoubles
<1>4. ASSUME NEW x \in Bytes  PROVE x \in 0 .. (Power(ByteBits) - 1) /\ x \in Nat
  BY <1>3 DEF Bytes
<1> QED
  BY <1>1, <1>4, SequenceOver

\* A mnemonic has the bits of its entropy, and then those of its checksum.
LEMMA Made ==
  ASSUME HashIsByte, NEW m \in 1 .. ByteBits, NEW data \in Seq(Bytes), Len(data) = 4 * m,
         NEW t, t = MnemonicFromData(data)
  PROVE  /\ Sequence(t) /\ Len(t) = 3 * m /\ \A i \in 1 .. Len(t) : t[i] \in Words
         /\ AllBits(WordBits, t) = AllBits(ByteBits, data) \o Checksum(data, m)
<1>1. PICK n, z : n = (4 * m) * ByteBits /\ z = (3 * m) * WordBits
  OBVIOUS
<1>2. /\ ByteBits \in Nat \ {0} /\ WordBits \in Nat \ {0} /\ m \in Nat \ {0}
      /\ n \in Nat /\ z = n + m /\ z <= n + ByteBits /\ ((4 * m) * 3) \div 4 = 3 * m
      /\ 3 * m \in Nat
  BY <1>1, Proportions
<1>3. PICK d, b, c, h : /\ d = Append(data, HashFirst(data)) /\ b = AllBits(ByteBits, d)
                        /\ c = AllBits(ByteBits, data) /\ h = Checksum(data, m)
  OBVIOUS
<1>4. /\ HashFirst(data) \in Nat /\ AreBits(h) /\ Len(h) = m
      /\ \A j \in 1 .. m : h[j] = BitsOf(ByteBits, HashFirst(data))[j]
  BY <1>3, ChecksumIs
<1>5. Sequence(data) /\ Len(data) \in Nat /\ \A i \in 1 .. Len(data) : data[i] \in Nat
  BY BytesAre
<1>6. /\ AreBits(b) /\ Len(b) = n + ByteBits
      /\ \A k \in 1 .. n : b[k] = c[k]
      /\ \A j \in 1 .. ByteBits : b[n + j] = BitsOf(ByteBits, HashFirst(data))[j]
  <2>1. Len(data) * ByteBits = n
    BY <1>1
  <2>2. IsLonger(b, ByteBits, data, HashFirst(data))
    BY <1>2, <1>3, <1>4, <1>5, RowLonger
  <2> QED
    BY <1>3, <2>1, <2>2 DEF IsLonger
<1>7. Sequence(c) /\ Len(c) = n
  <2>1. IsRow(c, ByteBits, data)
    BY <1>2, <1>3, <1>5, RowOf
  <2> QED
    BY <1>1, <2>1 DEF IsRow, AreBits
<1>8. t = Group(WordBits, 3 * m, b)
  BY <1>2, <1>3 DEF MnemonicFromData, WithChecksum
<1>9. /\ Sequence(t) /\ Len(t) = 3 * m
      /\ \A i \in 1 .. 3 * m : t[i] \in 0 .. (Power(WordBits) - 1)
      /\ AllBits(WordBits, t) = SubSeq(b, 1, z)
  <2>1. (3 * m) * WordBits <= Len(b)
    BY <1>1, <1>2, <1>6
  <2>2. IsCut(t, WordBits, 3 * m, b)
    BY <1>2, <1>6, <1>8, <2>1, BitsOfGroup
  <2> QED
    BY <1>1, <2>2 DEF IsCut
<1>10. PICK e, j : e = SubSeq(b, 1, z) /\ j = c \o h
  OBVIOUS
<1>11. Sequence(e) /\ Len(e) = z /\ \A k \in 1 .. z : e[k] = b[k]
  <2>1. IsStart(SubSeq(b, 1, z), b, z)
    <3>1. z \in Nat /\ z <= Len(b)
      BY <1>2, <1>6
    <3> QED
      BY <1>6, <3>1, StartIs
  <2> QED
    BY <1>10, <2>1 DEF IsStart
<1>12. IsJoin(j, c, h)
  BY <1>4, <1>7, <1>10, Joined DEF AreBits
<1>13. ASSUME NEW k \in 1 .. z  PROVE e[k] = j[k]
  <2>1. CASE k <= n
    BY <1>2, <1>4, <1>6, <1>7, <1>11, <1>12, <2>1 DEF IsJoin
  <2>2. CASE k > n
    <3>1. PICK i : i = k - n
      OBVIOUS
    <3>2. i \in 1 .. m /\ i \in 1 .. ByteBits /\ k = n + i /\ ~ (k <= n)
      BY <1>2, <2>2, <3>1
    <3>3. b[n + i] = h[i]
      BY <1>4, <1>6, <3>2
    <3>4. j[k] = h[k - n]
      BY <1>2, <1>4, <1>7, <1>12, <3>2 DEF IsJoin
    <3> QED
      BY <1>11, <3>1, <3>2, <3>3, <3>4
  <2> QED
    BY <1>2, <2>1, <2>2
<1>14. e = j
  <2>1. Sequence(j) /\ Len(j) = z
    BY <1>2, <1>4, <1>7, <1>12 DEF IsJoin
  <2> QED
    BY <1>11, <1>13, <2>1, SameCells
<1> QED
  BY <1>3, <1>9, <1>10, <1>14 DEF Words

\* The data and the checksum in a text of 3 * m words.
DataIn(t, m) == Group(ByteBits, 4 * m, AllBits(WordBits, t))
SumIn(t, m) == SubSeq(AllBits(WordBits, t), (4 * m) * ByteBits + 1, (3 * m) * WordBits)

IsText(t, m) ==
  /\ m \in 1 .. ByteBits /\ Sequence(t) /\ Len(t) = 3 * m
  /\ \A i \in 1 .. Len(t) : t[i] \in Words

LEMMA TextBits ==
  ASSUME NEW m, NEW t, IsText(t, m), NEW b, b = AllBits(WordBits, t),
         NEW n, n = (4 * m) * ByteBits
  PROVE  /\ AreBits(b) /\ n \in Nat /\ m \in Nat /\ Len(b) = n + m /\ (3 * m) * WordBits = n + m
         /\ \A i \in 1 .. Len(t) : t[i] \in 0 .. (Power(WordBits) - 1)
<1>1. m \in 1 .. ByteBits /\ Sequence(t) /\ Len(t) = 3 * m
  BY DEF IsText
<1>2. WordBits \in Nat \ {0} /\ m \in Nat /\ n \in Nat /\ (3 * m) * WordBits = n + m
  BY <1>1, Proportions
<1>3. \A i \in 1 .. Len(t) : t[i] \in 0 .. (Power(WordBits) - 1)
  BY DEF IsText, Words
<1>4. Power(WordBits) \in Nat
  BY <1>2, PowerDoubles
<1>5. Len(t) \in Nat /\ \A i \in 1 .. Len(t) : t[i] \in Nat
  BY <1>1, <1>2, <1>3, <1>4
<1>6. IsRow(b, WordBits, t)
  BY <1>2, <1>5, RowOf
<1>7. AreBits(b) /\ Len(b) = n + m
  BY <1>1, <1>2, <1>6 DEF IsRow
<1> QED
  BY <1>2, <1>3, <1>7

LEMMA DataIs ==
  ASSUME NEW m, NEW t, IsText(t, m)
  PROVE  /\ DataIn(t, m) \in Seq(Bytes) /\ Len(DataIn(t, m)) = 4 * m
         /\ AllBits(ByteBits, DataIn(t, m))
                = SubSeq(AllBits(WordBits, t), 1, (4 * m) * ByteBits)
<1>1. PICK b, n, d : /\ b = AllBits(WordBits, t) /\ n = (4 * m) * ByteBits
                     /\ d = DataIn(t, m)
  OBVIOUS
<1>2. AreBits(b) /\ n \in Nat /\ m \in Nat /\ Len(b) = n + m
  BY <1>1, TextBits
<1>3. ByteBits \in Nat \ {0}
  BY MnemonicAssumption
<1>4. IsCut(d, ByteBits, 4 * m, b)
  <2>1. d = Group(ByteBits, 4 * m, b)
    BY <1>1 DEF DataIn
  <2>2. (4 * m) * ByteBits <= Len(b) /\ 4 * m \in Nat
    BY <1>1, <1>2
  <2> QED
    BY <1>2, <1>3, <2>1, <2>2, BitsOfGroup
<1>5. /\ Sequence(d) /\ Len(d) = 4 * m /\ \A i \in 1 .. 4 * m : d[i] \in Bytes
      /\ AllBits(ByteBits, d) = SubSeq(b, 1, n)
  BY <1>1, <1>4 DEF IsCut, Bytes
<1>6. d \in Seq(Bytes)
  <2>1. Len(d) \in Nat /\ DOMAIN d = 1 .. Len(d) /\ d = [k \in 1 .. Len(d) |-> d[k]]
    BY <1>5, SequenceShape
  <2>2. d \in [1 .. Len(d) -> Bytes]
    BY <1>5, <2>1
  <2> QED
    BY <2>1, <2>2, SeqDef
<1> QED
  BY <1>1, <1>5, <1>6

LEMMA SumIs ==
  ASSUME NEW m, NEW t, IsText(t, m)
  PROVE  /\ Sequence(SumIn(t, m)) /\ Len(SumIn(t, m)) = m
         /\ \A j \in 1 .. m :
               SumIn(t, m)[j] = AllBits(WordBits, t)[(4 * m) * ByteBits + j]
<1>1. PICK b, n, c : /\ b = AllBits(WordBits, t) /\ n = (4 * m) * ByteBits
                     /\ c = SumIn(t, m)
  OBVIOUS
<1>2. /\ AreBits(b) /\ n \in Nat /\ m \in Nat /\ Len(b) = n + m
      /\ (3 * m) * WordBits = n + m
  BY <1>1, TextBits
<1>3. c = SubSeq(b, n + 1, n + m)
  BY <1>1, <1>2 DEF SumIn
<1>4. IsPart(c, b, n + 1, n + m)
  <2>1. n + 1 \in Nat \ {0} /\ n + m \in Nat /\ n + m <= Len(b)
    BY <1>2
  <2> QED
    BY <1>2, <1>3, <2>1, PartOf DEF AreBits
<1>5. Sequence(c) /\ Len(c) = m
  <2>1. (IF n + 1 <= n + m THEN n + m - (n + 1) + 1 ELSE 0) = m
    BY <1>2
  <2> QED
    BY <1>2, <1>4 DEF IsPart
<1>6. ASSUME NEW j \in 1 .. m  PROVE c[j] = b[n + j]
  <2>1. n + 1 + j - 1 = n + j
    BY <1>2
  <2> QED
    BY <1>4, <1>5, <2>1 DEF IsPart
<1> QED
  BY <1>1, <1>5, <1>6

Accept(t, m) == [done |-> TRUE, length |-> 4 * m, data |-> DataIn(t, m)]
Refuse == [Unread EXCEPT !.done = TRUE]

\* A text of words that can be counted is read unless its checksum is wrong.
LEMMA ReadIs ==
  ASSUME NEW m, NEW t, IsText(t, m), 3 * m \in WordCounts
  PROVE  DataFromMnemonic(t) =
            IF ChecksumAgrees(DataIn(t, m), SumIn(t, m)) THEN Accept(t, m) ELSE Refuse
<1>1. PICK n, words, length, bits, data, sum :
        /\ n = Len(t) /\ words = IF Last(t) = Empty THEN Front(t) ELSE t
        /\ length = (n * 4) \div 3 /\ bits = AllBits(WordBits, words)
        /\ data = Group(ByteBits, length, bits)
        /\ sum = SubSeq(bits, length * ByteBits + 1, n * WordBits)
  OBVIOUS
<1>2. m \in 1 .. ByteBits /\ Sequence(t) /\ n = 3 * m
  BY <1>1 DEF IsText
<1>3. n \in Nat \ {0} /\ length = 4 * m
  <2>1. m \in Nat \ {0} /\ ((3 * m) * 4) \div 3 = 4 * m
    BY <1>2, Proportions
  <2> QED
    BY <1>1, <1>2, <2>1
<1>4. words = t
  <2>1. t[n] \in Words
    BY <1>1, <1>3 DEF IsText
  <2>2. Power(WordBits) \in Nat
    <3>1. WordBits \in Nat \ {0}
      BY <1>2, Proportions
    <3> QED
      BY <3>1, PowerDoubles
  <2>3. t[n] # Empty
    BY <2>1, <2>2 DEF Words, Empty
  <2> QED
    BY <1>1, <2>3 DEF Last
<1>5. \A k \in DOMAIN words : words[k] \in Words
  BY <1>2, <1>4, SequenceShape DEF IsText
<1>6. data = DataIn(t, m) /\ sum = SumIn(t, m)
  BY <1>1, <1>2, <1>3, <1>4 DEF DataIn, SumIn
<1>7. DataFromMnemonic(t) =
        IF /\ n \in WordCounts
           /\ \A k \in DOMAIN words : words[k] \in Words
           /\ Len(words) = n
           /\ ChecksumAgrees(data, sum)
        THEN [done |-> TRUE, length |-> length, data |-> data]
        ELSE Refuse
  BY <1>1 DEF DataFromMnemonic, Refuse
<1>8. n \in WordCounts /\ Len(words) = n
  BY <1>1, <1>2, <1>4
<1> QED
  BY <1>3, <1>5, <1>6, <1>7, <1>8 DEF Accept

\* Only such a text is read.
LEMMA OnlyTexts ==
  ASSUME NEW t, Sequence(t), DataFromMnemonic(t).length > 0
  PROVE  \E m : /\ IsText(t, m) /\ 3 * m \in WordCounts
                /\ ChecksumAgrees(DataIn(t, m), SumIn(t, m))
                /\ DataFromMnemonic(t) = Accept(t, m)
<1>1. PICK n, words, length, bits, data, sum :
        /\ n = Len(t) /\ words = IF Last(t) = Empty THEN Front(t) ELSE t
        /\ length = (n * 4) \div 3 /\ bits = AllBits(WordBits, words)
        /\ data = Group(ByteBits, length, bits)
        /\ sum = SubSeq(bits, length * ByteBits + 1, n * WordBits)
  OBVIOUS
<1>2. DataFromMnemonic(t) =
        IF /\ n \in WordCounts
           /\ \A k \in DOMAIN words : words[k] \in Words
           /\ Len(words) = n
           /\ ChecksumAgrees(data, sum)
        THEN [done |-> TRUE, length |-> length, data |-> data]
        ELSE Refuse
  BY <1>1 DEF DataFromMnemonic, Refuse
<1>3. /\ n \in WordCounts /\ \A k \in DOMAIN words : words[k] \in Words
      /\ Len(words) = n
  <2>1. Refuse.length = 0
    BY DEF Refuse, Unread
  <2> QED
    BY <1>2, <2>1
<1>4. n \in Nat /\ n % 3 = 0 /\ n \div 3 \in 1 .. ByteBits
  BY <1>1, <1>3, SequenceShape, MnemonicAssumption
<1>5. PICK m : m = n \div 3
  OBVIOUS
<1>6. m \in 1 .. ByteBits /\ n = 3 * m /\ m \in Nat
  <2>1. m \in 1 .. ByteBits /\ ByteBits \in Nat
    BY <1>4, <1>5, MnemonicAssumption
  <2>2. m \in Nat
    BY <2>1
  <2>3. n = 3 * m
    BY <1>4, <1>5
  <2> QED
    BY <2>1, <2>2, <2>3
<1>7. words = t
  <2>1. SUFFICES ASSUME words = Front(t)  PROVE FALSE
    BY <1>1
  <2>2. Front(t) = SubSeq(t, 1, n - 1) /\ n - 1 \in Nat /\ n - 1 <= Len(t) /\ 1 \in Nat \ {0}
    BY <1>1, <1>6 DEF Front
  <2>3. IsPart(Front(t), t, 1, n - 1)
    BY <2>2, PartOf
  <2>4. (IF 1 <= n - 1 THEN n - 1 - 1 + 1 ELSE 0) = n - 1
    BY <2>2
  <2> QED
    BY <1>3, <1>6, <2>1, <2>3, <2>4 DEF IsPart
<1>8. IsText(t, m)
  BY <1>1, <1>3, <1>6, <1>7, SequenceShape DEF IsText
<1>9. 3 * m \in WordCounts
  BY <1>3, <1>6
<1>10. DataFromMnemonic(t) =
        IF ChecksumAgrees(DataIn(t, m), SumIn(t, m)) THEN Accept(t, m) ELSE Refuse
  BY <1>8, <1>9, ReadIs
<1>11. ChecksumAgrees(DataIn(t, m), SumIn(t, m))
  <2>1. Refuse.length = 0
    BY DEF Refuse, Unread
  <2> QED
    BY <1>10, <2>1
<1> QED
  BY <1>8, <1>9, <1>10, <1>11

\* A text whose checksum is right is the one that its data makes.
LEMMA OnlyMade ==
  ASSUME HashIsByte, NEW m, NEW t, IsText(t, m), ChecksumAgrees(DataIn(t, m), SumIn(t, m))
  PROVE  MnemonicFromData(DataIn(t, m)) = t
<1>1. PICK b, n, d, h, u : /\ b = AllBits(WordBits, t) /\ n = (4 * m) * ByteBits
                           /\ d = DataIn(t, m) /\ h = SumIn(t, m) /\ u = MnemonicFromData(d)
  OBVIOUS
<1>2. m \in 1 .. ByteBits /\ Sequence(t) /\ Len(t) = 3 * m /\ WordBits \in Nat \ {0}
  BY Proportions DEF IsText
<1>3. /\ AreBits(b) /\ n \in Nat /\ m \in Nat /\ Len(b) = n + m
      /\ \A i \in 1 .. Len(t) : t[i] \in 0 .. (Power(WordBits) - 1)
  BY <1>1, TextBits
<1>4. d \in Seq(Bytes) /\ Len(d) = 4 * m /\ AllBits(ByteBits, d) = SubSeq(b, 1, n)
  BY <1>1, DataIs
<1>5. Sequence(h) /\ Len(h) = m /\ \A j \in 1 .. m : h[j] = b[n + j]
  BY <1>1, SumIs
<1>6. Checksum(d, m) = h
  BY <1>1, <1>5 DEF ChecksumAgrees, Checksum
<1>7. /\ Sequence(u) /\ Len(u) = 3 * m /\ \A i \in 1 .. Len(u) : u[i] \in Words
      /\ AllBits(WordBits, u) = AllBits(ByteBits, d) \o Checksum(d, m)
  BY <1>1, <1>2, <1>4, Made
<1>8. PICK e, j : e = SubSeq(b, 1, n) /\ j = e \o h
  OBVIOUS
<1>9. Sequence(e) /\ Len(e) = n /\ \A k \in 1 .. n : e[k] = b[k]
  <2>1. IsStart(SubSeq(b, 1, n), b, n)
    BY <1>3, StartIs
  <2> QED
    BY <1>8, <2>1 DEF IsStart
<1>10. IsJoin(j, e, h)
  BY <1>5, <1>8, <1>9, Joined
<1>11. ASSUME NEW k \in 1 .. n + m  PROVE j[k] = b[k]
  <2>1. CASE k <= n
    BY <1>3, <1>5, <1>9, <1>10, <2>1 DEF IsJoin
  <2>2. CASE ~ (k <= n)
    <3>1. k - n \in 1 .. m /\ n + (k - n) = k
      BY <1>3, <2>2
    <3>2. j[k] = h[k - n]
      BY <1>3, <1>5, <1>9, <1>10, <2>2 DEF IsJoin
    <3> QED
      BY <1>5, <3>1, <3>2
  <2> QED
    BY <2>1, <2>2
<1>12. j = b
  <2>1. Sequence(j) /\ Len(j) = n + m
    BY <1>5, <1>9, <1>10 DEF IsJoin
  <2> QED
    BY <1>3, <1>11, <2>1, SameCells DEF AreBits
<1>13. AllBits(WordBits, u) = AllBits(WordBits, t)
  BY <1>1, <1>4, <1>6, <1>7, <1>8, <1>12
<1>14. \A i \in 1 .. Len(u) : u[i] \in 0 .. (Power(WordBits) - 1)
  BY <1>7 DEF Words
<1>15. u = t
  BY <1>2, <1>3, <1>7, <1>13, <1>14, KnownByBits
<1> QED
  BY <1>1, <1>15

\* What was made is read back.
LEMMA ReadBack ==
  ASSUME HashIsByte, NEW m \in 1 .. ByteBits, 3 * m \in WordCounts,
         NEW data \in Seq(Bytes), Len(data) = 4 * m, NEW t, t = MnemonicFromData(data)
  PROVE  DataFromMnemonic(t) = [done |-> TRUE, length |-> 4 * m, data |-> data]
<1>1. PICK b, n, c, h, x : /\ b = AllBits(WordBits, t) /\ n = (4 * m) * ByteBits
                           /\ c = AllBits(ByteBits, data) /\ h = Checksum(data, m)
                           /\ x = SumIn(t, m)
  OBVIOUS
<1>2. /\ Sequence(t) /\ Len(t) = 3 * m /\ \A i \in 1 .. Len(t) : t[i] \in Words
      /\ b = c \o h
  BY <1>1, Made
<1>3. IsText(t, m)
  BY <1>2 DEF IsText
<1>4. AreBits(b) /\ n \in Nat /\ m \in Nat /\ Len(b) = n + m
  BY <1>1, <1>3, TextBits
<1>5. AreBits(h) /\ Len(h) = m
  BY <1>1, ChecksumIs
<1>6. /\ ByteBits \in Nat \ {0} /\ Sequence(data) /\ Len(data) \in Nat
      /\ \A i \in 1 .. Len(data) : data[i] \in 0 .. (Power(ByteBits) - 1) /\ data[i] \in Nat
  BY BytesAre, MnemonicAssumption
<1>7. Sequence(c) /\ Len(c) = n
  <2>1. IsRow(c, ByteBits, data)
    BY <1>1, <1>6, RowOf
  <2> QED
    BY <1>1, <2>1 DEF IsRow, AreBits
<1>8. IsJoin(b, c, h)
  BY <1>2, <1>5, <1>7, Joined DEF AreBits
<1>9. ASSUME NEW k \in 1 .. n  PROVE b[k] = c[k]
  BY <1>4, <1>5, <1>7, <1>8 DEF IsJoin
<1>10. DataIn(t, m) = data
  <2>1. Len(data) * ByteBits = n /\ Len(data) * ByteBits <= Len(b)
    BY <1>1, <1>4
  <2>2. \A k \in 1 .. Len(data) * ByteBits : b[k] = AllBits(ByteBits, data)[k]
    BY <1>1, <1>9, <2>1
  <2>3. Group(ByteBits, Len(data), b) = data
    BY <1>4, <1>6, <2>1, <2>2, GroupOfBits
  <2> QED
    BY <1>1, <2>3 DEF DataIn
<1>11. x = h
  <2>1. Sequence(x) /\ Len(x) = m /\ \A j \in 1 .. m : x[j] = b[n + j]
    BY <1>1, <1>3, SumIs
  <2>2. ASSUME NEW j \in 1 .. m  PROVE x[j] = h[j]
    <3>1. n + j \in 1 .. n + m /\ ~ (n + j <= n) /\ (n + j) - n = j
      BY <1>4
    <3>2. b[n + j] = h[(n + j) - n]
      BY <1>4, <1>5, <1>7, <1>8, <3>1 DEF IsJoin
    <3> QED
      BY <2>1, <3>1, <3>2
  <2> QED
    BY <1>5, <2>1, <2>2, SameCells DEF AreBits
<1>12. ChecksumAgrees(DataIn(t, m), SumIn(t, m))
  BY <1>1, <1>5, <1>10, <1>11 DEF ChecksumAgrees, Checksum
<1>13. DataFromMnemonic(t) = Accept(t, m)
  BY <1>3, <1>12, ReadIs
<1> QED
  BY <1>10, <1>13 DEF Accept

-----------------------------------------------------------------------------
(* MnemonicInv is inductive once the hash gives bytes.                     *)

MnemonicStrong ==
  /\ entropy \in Seq(EntropyBytes) /\ Sequence(mnemonic)
  /\ MnemonicInv

\* A text of m times three words was made from m times four bytes.
LEMMA EntropyIs ==
  ASSUME NEW data \in Seq(EntropyBytes), Len(data) \in EntropyLengths
  PROVE  /\ data \in Seq(Bytes)
         /\ \E m \in 1 .. ByteBits : Len(data) = 4 * m /\ m = Len(data) \div 4
<1>1. EntropyBytes \subseteq Bytes
  BY MnemonicAssumption DEF Bytes
<1>2. data \in Seq(Bytes)
  BY <1>1, SeqMonotonic
<1>3. Len(data) \in Nat /\ Len(data) % 4 = 0 /\ Len(data) \div 4 \in 1 .. ByteBits
  BY LenProperties, MnemonicAssumption
<1>4. Len(data) = 4 * (Len(data) \div 4)
  BY <1>3
<1> QED
  BY <1>2, <1>3, <1>4

LEMMA StandardFromStrong ==
  ASSUME HashIsByte, MnemonicStrong
  PROVE  MnemonicIsStandard
<1> SUFFICES ASSUME entropy # << >>
             PROVE  AllBits(WordBits, mnemonic) =
                      AllBits(ByteBits, entropy)
                        \o SubSeq(BitsOf(ByteBits, HashFirst(entropy)), 1, Len(entropy) \div 4)
  BY DEF MnemonicIsStandard
<1>1. /\ entropy \in Seq(EntropyBytes) /\ Len(entropy) \in EntropyLengths
      /\ mnemonic = MnemonicFromData(entropy)
  BY DEF MnemonicStrong, MnemonicInv
<1>2. entropy \in Seq(Bytes)
  BY <1>1, EntropyIs
<1>3. PICK m \in 1 .. ByteBits : Len(entropy) = 4 * m /\ m = Len(entropy) \div 4
  BY <1>1, EntropyIs
<1>4. AllBits(WordBits, mnemonic) = AllBits(ByteBits, entropy) \o Checksum(entropy, m)
  BY <1>1, <1>2, <1>3, Made
<1> QED
  BY <1>3, <1>4 DEF Checksum

LEMMA CanonicalFromStrong ==
  ASSUME HashIsByte, MnemonicStrong
  PROVE  ReadIsCanonical
<1> SUFFICES ASSUME read.done
             PROVE  /\ entropy # << >> /\ Len(mnemonic) \in WordCounts =>
                            read.length = Len(entropy) /\ read.data = entropy
                    /\ read.length > 0 => MnemonicFromData(read.data) = mnemonic
  BY DEF ReadIsCanonical
<1>1. Sequence(mnemonic) /\ read = DataFromMnemonic(mnemonic)
  BY DEF MnemonicStrong, MnemonicInv
<1>2. ASSUME entropy # << >>, Len(mnemonic) \in WordCounts
      PROVE  read.length = Len(entropy) /\ read.data = entropy
  <2>1. /\ entropy \in Seq(EntropyBytes) /\ Len(entropy) \in EntropyLengths
        /\ mnemonic = MnemonicFromData(entropy)
    BY <1>2 DEF MnemonicStrong, MnemonicInv
  <2>2. entropy \in Seq(Bytes)
    BY <2>1, EntropyIs
  <2>3. PICK m \in 1 .. ByteBits : Len(entropy) = 4 * m
    BY <2>1, EntropyIs
  <2>4. Len(mnemonic) = 3 * m
    BY <2>1, <2>2, <2>3, Made
  <2>5. DataFromMnemonic(mnemonic) = [done |-> TRUE, length |-> 4 * m, data |-> entropy]
    BY <1>2, <2>1, <2>2, <2>3, <2>4, ReadBack
  <2> QED
    BY <1>1, <2>3, <2>5
<1>3. ASSUME read.length > 0
      PROVE  MnemonicFromData(read.data) = mnemonic
  <2>1. PICK m : /\ IsText(mnemonic, m)
                 /\ ChecksumAgrees(DataIn(mnemonic, m), SumIn(mnemonic, m))
                 /\ DataFromMnemonic(mnemonic) = Accept(mnemonic, m)
    BY <1>1, <1>3, OnlyTexts
  <2>2. MnemonicFromData(DataIn(mnemonic, m)) = mnemonic
    BY <2>1, OnlyMade
  <2>3. read.data = DataIn(mnemonic, m)
    BY <1>1, <2>1 DEF Accept
  <2> QED
    BY <2>2, <2>3
<1> QED
  BY <1>2, <1>3

LEMMA MnemonicStrongInit == MnemonicInit => MnemonicStrong
<1> SUFFICES ASSUME MnemonicInit  PROVE MnemonicStrong
  OBVIOUS
<1>1. entropy = << >> /\ mnemonic = << >> /\ read = Unread
  BY DEF MnemonicInit
<1>2. entropy \in Seq(EntropyBytes) /\ mnemonic \in Seq({})
  BY <1>1
<1>3. Sequence(mnemonic)
  BY <1>2, SequenceOver
<1>4. Range(mnemonic) = {} /\ ~ read.done
  BY <1>1 DEF Range, Unread
<1> QED
  BY <1>1, <1>2, <1>3, <1>4 DEF MnemonicStrong, MnemonicInv

LEMMA MnemonicStrongStep ==
  ASSUME HashIsByte, MnemonicStrong, [MnemonicNext]_mnemonicVars
  PROVE  MnemonicStrong'
<1> DEFINE Piece == Words \cup {Empty, Other}
<1>1. /\ entropy \in Seq(EntropyBytes) /\ Sequence(mnemonic)
      /\ entropy # << >> => /\ Len(entropy) \in EntropyLengths
                            /\ Range(entropy) \subseteq EntropyBytes
                            /\ mnemonic = MnemonicFromData(entropy)
      /\ Range(mnemonic) \subseteq Piece
      /\ read.done => mnemonic # << >> /\ read = DataFromMnemonic(mnemonic)
  BY DEF MnemonicStrong, MnemonicInv
<1>2. mnemonic \in Seq(Piece)
  <2>1. \A k \in 1 .. Len(mnemonic) : mnemonic[k] \in Piece
    BY <1>1, SequenceShape DEF Range
  <2>2. Cells(mnemonic) \subseteq Piece
    BY <2>1 DEF Cells
  <2> QED
    BY <1>1, <2>2, SeqMonotonic DEF Sequence
<1>3. ASSUME NEW s \in Seq(Piece)  PROVE Sequence(s) /\ Range(s) \subseteq Piece
  <2>1. Sequence(s)
    BY SequenceOver
  <2>2. \A k \in DOMAIN s : s[k] \in Piece
    BY LenProperties
  <2> QED
    BY <2>1, <2>2 DEF Range
<1> HIDE DEF Piece
<1>4. ASSUME NEW len \in EntropyLengths, NEW data \in [1 .. len -> EntropyBytes], Generate(data)
      PROVE  MnemonicStrong'
  <2>1. /\ Len(data) \in EntropyLengths /\ entropy' = data
        /\ mnemonic' = MnemonicFromData(data) /\ read' = Unread
    BY <1>4 DEF Generate
  <2>2. data \in Seq(EntropyBytes)
    <3>1. len \in Nat
      BY MnemonicAssumption
    <3> QED
      BY <3>1, SeqDef
  <2>3. data \in Seq(Bytes)
    BY <2>1, <2>2, EntropyIs
  <2>4. PICK m \in 1 .. ByteBits : Len(data) = 4 * m
    BY <2>1, <2>2, EntropyIs
  <2>5. PICK t : t = MnemonicFromData(data)
    OBVIOUS
  <2>6. Sequence(t) /\ \A i \in 1 .. Len(t) : t[i] \in Words
    BY <2>3, <2>4, <2>5, Made
  <2>7. Range(t) \subseteq Words \cup {Empty, Other}
    BY <2>6, SequenceShape DEF Range
  <2>8. Range(data) \subseteq EntropyBytes
    BY <2>2, LenProperties DEF Range
  <2>9. ~ read'.done
    BY <2>1 DEF Unread
  <2> QED
    BY <2>1, <2>2, <2>5, <2>6, <2>7, <2>8, <2>9 DEF MnemonicStrong, MnemonicInv
<1>5. CASE Retype
  <2>1. entropy' = << >> /\ ~ read.done /\ UNCHANGED read /\ mnemonic' \in Seq(Piece)
    <3>1. Typed \subseteq Piece
      BY MnemonicAssumption DEF Piece
    <3>2. ASSUME NEW k \in DOMAIN mnemonic, NEW t \in Typed,
                 mnemonic' = ReplaceAt(mnemonic, k, t)
          PROVE  mnemonic' \in Seq(Piece)
      <4>1. t \in Piece /\ k \in 1 .. Len(mnemonic)
        BY <1>2, <3>1, LenProperties
      <4> QED
        BY <1>2, <3>2, <4>1, ExceptSeq DEF ReplaceAt
    <3>3. ASSUME mnemonic' = Front(mnemonic), entropy # << >>  PROVE mnemonic' \in Seq(Piece)
      <4>1. PICK n : n = Len(mnemonic)
        OBVIOUS
      <4>2. n \in Nat /\ mnemonic \in [1 .. n -> Piece]
        BY <1>2, <4>1, LenProperties
      <4>3. mnemonic' = SubSeq(mnemonic, 1, n - 1)
        BY <3>3, <4>1 DEF Front
      <4>4. 1 \in Int /\ n - 1 \in Int /\ \A i \in 1 .. n - 1 : mnemonic[i] \in Piece
        BY <4>2
      <4>5. SubSeq(mnemonic, 1, n - 1) \in Seq(Piece)
        BY <4>4, SubSeqProperties
      <4> QED
        BY <4>3, <4>5
    <3>4. ASSUME NEW t \in Typed, mnemonic' = Append(mnemonic, t)
          PROVE  mnemonic' \in Seq(Piece)
      BY <1>2, <3>1, <3>4, AppendProperties
    <3> QED
      BY <1>5, <3>2, <3>3, <3>4 DEF Retype
  <2>2. Sequence(mnemonic') /\ Range(mnemonic') \subseteq Words \cup {Empty, Other}
    BY <1>3, <2>1 DEF Piece
  <2>3. entropy' \in Seq(EntropyBytes) /\ ~ read'.done
    BY <2>1
  <2> QED
    BY <2>1, <2>2, <2>3 DEF MnemonicStrong, MnemonicInv
<1>6. CASE ReadMnemonic
  <2>1. /\ mnemonic # << >> /\ read' = DataFromMnemonic(mnemonic)
        /\ entropy' = entropy /\ mnemonic' = mnemonic
    BY <1>6 DEF ReadMnemonic
  <2> QED
    BY <1>1, <2>1 DEF MnemonicStrong, MnemonicInv, Piece
<1>7. CASE UNCHANGED mnemonicVars
  BY <1>1, <1>7 DEF mnemonicVars, MnemonicStrong, MnemonicInv, Piece
<1> QED
  BY <1>4, <1>5, <1>6, <1>7 DEF MnemonicNext

\* (the texts and what is read of them)
LEMMA MnemonicStrongCorrect == HashIsByte /\ MnemonicSpec => []MnemonicStrong
<1>1. HashIsByte /\ MnemonicInit => MnemonicStrong
  BY MnemonicStrongInit
<1>2. HashIsByte /\ MnemonicStrong /\ [MnemonicNext]_mnemonicVars => MnemonicStrong'
  BY MnemonicStrongStep
<1>3. HashIsByte => []HashIsByte
  OBVIOUS
<1> QED
  BY <1>1, <1>2, <1>3, PTL DEF MnemonicSpec

(* The strengthening that MnemonicCodec states, which TLC evaluates too.   *)
THEOREM MnemonicInvCorrect == HashIsByte /\ MnemonicSpec => []MnemonicInv
<1>1. MnemonicStrong => MnemonicInv
  BY DEF MnemonicStrong
<1> QED
  BY <1>1, MnemonicStrongCorrect, PTL

(* mnemonic_from_data writes the bits of the entropy and then the first    *)
(* bits of its hash into the words, whatever the width of a byte, the      *)
(* lengths and the hash are.                                               *)
THEOREM StandardCorrect == HashIsByte /\ MnemonicSpec => []MnemonicIsStandard
<1>1. HashIsByte /\ MnemonicStrong => MnemonicIsStandard
  BY StandardFromStrong
<1>2. HashIsByte => []HashIsByte
  OBVIOUS
<1> QED
  BY <1>1, <1>2, MnemonicStrongCorrect, PTL

(* data_from_mnemonic gives the entropy of a generated text back, and it   *)
(* accepts no text but one that mnemonic_from_data makes.                  *)
THEOREM CanonicalCorrect == HashIsByte /\ MnemonicSpec => []ReadIsCanonical
<1>1. HashIsByte /\ MnemonicStrong => ReadIsCanonical
  BY CanonicalFromStrong
<1>2. HashIsByte => []HashIsByte
  OBVIOUS
<1> QED
  BY <1>1, <1>2, MnemonicStrongCorrect, PTL

-----------------------------------------------------------------------------
(* The seed cache answers with the seed of the request, for rings of every *)
(* size and any texts.                                                     *)

Slot == [set : BOOLEAN, mnemonic : Mnemonics \cup {NoText},
         passphrase : Passphrases \cup {NoText},
         seed : {SeedOf(m, p) : m \in Mnemonics \cup {NoText},
                                p \in Passphrases \cup {NoText}}]

(* SeedIsOfRequest alone is not inductive: a hit needs to know whose seed  *)
(* each entry holds.                                                       *)
EntriesHoldTheirSeed ==
    \A j \in SeedSlots : seedCache[j].set =>
        seedCache[j].seed = SeedOf(seedCache[j].mnemonic, seedCache[j].passphrase)

SeedInv ==
    /\ seedCache \in [SeedSlots -> Slot]
    /\ seedIndex \in SeedSlots
    /\ EntriesHoldTheirSeed
    /\ NoDuplicateSeeds
    /\ SeedIsOfRequest

LEMMA SeedInvInit == SeedInit => SeedInv
<1> SUFFICES ASSUME SeedInit PROVE SeedInv
  OBVIOUS
<1>1. 0 \in SeedSlots
  BY SeedCacheAssumption DEF SeedSlots
<1>2. EmptySlot \in Slot /\ EmptySlot.set = FALSE
  BY DEF EmptySlot, Slot, NoSeed
<1>3. seedCache = [j \in SeedSlots |-> EmptySlot] /\ seedIndex = 0
  BY DEF SeedInit
<1>4. SeedIsOfRequest
  BY DEF SeedInit, SeedIsOfRequest, NoSeed
<1> QED BY <1>1, <1>2, <1>3, <1>4 DEF SeedInv, EntriesHoldTheirSeed, NoDuplicateSeeds

LEMMA SeedInvStep ==
    ASSUME SeedInv, [SeedNext]_seedVars
    PROVE  SeedInv'
<1>1. ASSUME NEW m \in Mnemonics, NEW p \in Passphrases, SeedHit(m, p)
      PROVE  SeedInv'
  <2>1. PICK j \in SeedSlots : Matches(seedCache[j], m, p) /\ seed' = seedCache[j].seed
    BY <1>1 DEF SeedHit
  <2>2. seed' = SeedOf(m, p)
    BY <2>1 DEF Matches, SeedInv, EntriesHoldTheirSeed
  <2>3. UNCHANGED <<seedCache, seedIndex>> /\ asked' = <<m, p>>
    BY <1>1 DEF SeedHit
  <2> QED BY <2>2, <2>3 DEF SeedInv, EntriesHoldTheirSeed, NoDuplicateSeeds, SeedIsOfRequest
<1>2. ASSUME NEW m \in Mnemonics, NEW p \in Passphrases, SeedMiss(m, p)
      PROVE  SeedInv'
  <2>1. seed' = SeedOf(m, p) /\ asked' = <<m, p>>
    BY <1>2 DEF SeedMiss
  <2>2. SeedIsOfRequest'
    BY <2>1 DEF SeedIsOfRequest
  <2>3. CASE ~Cacheable(m, p)
    <3>1. UNCHANGED <<seedCache, seedIndex>>
      BY <1>2, <2>3 DEF SeedMiss
    <3> QED BY <2>2, <3>1 DEF SeedInv, EntriesHoldTheirSeed, NoDuplicateSeeds
  <2>4. CASE Cacheable(m, p)
    <3> DEFINE entry == [set |-> TRUE, mnemonic |-> m, passphrase |-> p, seed |-> SeedOf(m, p)]
    <3>1. /\ seedCache' = [seedCache EXCEPT ![seedIndex] = entry]
          /\ seedIndex' = (seedIndex + 1) % SeedCacheSize
          /\ \A j \in SeedSlots : ~Matches(seedCache[j], m, p)
      BY <1>2, <2>1, <2>4 DEF SeedMiss
    <3>2. entry \in Slot
      BY DEF Slot
    <3>3. entry.set /\ entry.mnemonic = m /\ entry.passphrase = p /\ entry.seed = SeedOf(m, p)
      OBVIOUS
    <3> HIDE DEF entry
    <3>4. seedCache' \in [SeedSlots -> Slot]
      BY <3>1, <3>2 DEF SeedInv
    <3>5. seedIndex' \in SeedSlots
      BY <3>1, SeedCacheAssumption DEF SeedInv, SeedSlots
    <3>6. \A j \in SeedSlots :
            seedCache'[j] = IF j = seedIndex THEN entry ELSE seedCache[j]
      BY <3>1 DEF SeedInv
    <3>7. EntriesHoldTheirSeed'
      BY <3>3, <3>6 DEF SeedInv, EntriesHoldTheirSeed
    <3>8. NoDuplicateSeeds'
      BY <3>1, <3>3, <3>6 DEF SeedInv, NoDuplicateSeeds, Matches
    <3> QED BY <2>2, <3>4, <3>5, <3>7, <3>8 DEF SeedInv
  <2> QED BY <2>3, <2>4
<1>3. CASE UNCHANGED seedVars
  BY <1>3 DEF seedVars, SeedInv, EntriesHoldTheirSeed, NoDuplicateSeeds, SeedIsOfRequest
<1> QED BY <1>1, <1>2, <1>3 DEF SeedNext, MnemonicToSeed

LEMMA SeedInvHolds == SeedSpec => []SeedInv
BY SeedInvInit, SeedInvStep, PTL DEF SeedSpec

(* mnemonic_to_seed writes the seed of the texts it was given.             *)
THEOREM SeedIsOfRequestHolds == SeedSpec => []SeedIsOfRequest
<1>1. SeedInv => SeedIsOfRequest
  BY DEF SeedInv
<1> QED BY <1>1, SeedInvHolds, PTL

(* No two entries of the seed cache are for the same texts.                *)
THEOREM NoDuplicateSeedsHolds == SeedSpec => []NoDuplicateSeeds
<1>1. SeedInv => NoDuplicateSeeds
  BY DEF SeedInv
<1> QED BY <1>1, SeedInvHolds, PTL

-----------------------------------------------------------------------------
(* Powers of a radix.                                                      *)

IsRadixTable(u, r, n) == u = [k \in 0 .. n |-> IF k = 0 THEN 1 ELSE r * u[k - 1]]

LEMMA RadixTablesAgree ==
  ASSUME NEW r \in Nat, NEW n \in Nat, NEW u, IsRadixTable(u, r, n),
         NEW m \in Nat, NEW v, IsRadixTable(v, r, m)
  PROVE  \A k \in 0 .. n : u[k] \in Nat /\ (k <= m => u[k] = v[k])
<1> DEFINE S == {k \in Nat : k <= n => u[k] \in Nat /\ (k <= m => u[k] = v[k])}
<1>0. /\ \A k \in 0 .. n : u[k] = IF k = 0 THEN 1 ELSE r * u[k - 1]
      /\ \A k \in 0 .. m : v[k] = IF k = 0 THEN 1 ELSE r * v[k - 1]
  BY DEF IsRadixTable
<1>1. 0 \in S
  <2>1. u[0] = 1 /\ v[0] = 1
    BY <1>0
  <2> QED
    BY <2>1
<1>2. ASSUME NEW k \in Nat, k \in S  PROVE k + 1 \in S
  <2>1. SUFFICES ASSUME k + 1 <= n
                 PROVE  u[k + 1] \in Nat /\ (k + 1 <= m => u[k + 1] = v[k + 1])
    OBVIOUS
  <2>2. u[k] \in Nat /\ (k <= m => u[k] = v[k])
    BY <1>2, <2>1
  <2>3. PICK i : i = k + 1
    OBVIOUS
  <2>4. i \in 0 .. n /\ i # 0 /\ i - 1 = k /\ (i <= m => i \in 0 .. m /\ k <= m)
    BY <2>1, <2>3
  <2>5. u[i] = r * u[k] /\ (i <= m => v[i] = r * v[k])
    BY <1>0, <2>4
  <2>6. u[i] \in Nat /\ (i <= m => u[i] = v[i])
    BY <2>2, <2>4, <2>5
  <2> QED
    BY <2>3, <2>6
<1> HIDE DEF S
<1>3. \A k \in Nat : k \in S
  BY <1>1, <1>2, Induction
<1> QED
  BY <1>3 DEF S

LEMMA RadixTableExists ==
  ASSUME NEW r \in Nat, NEW n \in Nat
  PROVE  \E u : IsRadixTable(u, r, n)
<1>1. PICK F : F = [p \in Nat \X Nat |-> r * p[2]]
  OBVIOUS
<1>2. F \in [Nat \X Nat -> Nat]
  BY <1>1
<1>3. PICK u \in [0 .. n -> Nat] : IsTable(u, n, 1, F)
  <2>1. 1 \in Nat
    OBVIOUS
  <2> QED
    BY <1>2, <2>1, TablesExist
<1>4. ASSUME NEW k \in 0 .. n
      PROVE  u[k] = IF k = 0 THEN 1 ELSE r * u[k - 1]
  <2>1. u[k] = IF k = 0 THEN 1 ELSE F[<<k - 1, u[k - 1]>>]
    BY <1>3 DEF IsTable
  <2>2. k # 0 => k - 1 \in Nat /\ u[k - 1] \in Nat
    BY <1>3
  <2>3. k # 0 => <<k - 1, u[k - 1]>> \in Nat \X Nat
    BY <2>2
  <2>4. k # 0 => F[<<k - 1, u[k - 1]>>] = r * u[k - 1]
    BY <1>1, <2>3
  <2> QED
    BY <2>1, <2>4
<1>5. u = [k \in 0 .. n |-> IF k = 0 THEN 1 ELSE r * u[k - 1]]
  BY <1>3, <1>4
<1> QED
  BY <1>5 DEF IsRadixTable

LEMMA RadixPowerIs ==
  ASSUME NEW r \in Nat, NEW n \in Nat
  PROVE  \E u : IsRadixTable(u, r, n) /\ RadixPower(r, n) = u[n]
<1> DEFINE P(u) == IsRadixTable(u, r, n)
<1>1. \E u : P(u)
  BY RadixTableExists
<1>2. RadixPower(r, n) = (CHOOSE u : P(u))[n]
  BY DEF RadixPower, IsRadixTable
<1> HIDE DEF P
<1>3. P(CHOOSE u : P(u))
  BY <1>1
<1> QED
  BY <1>2, <1>3 DEF P

LEMMA PowersOfRadix ==
  ASSUME NEW r \in Nat
  PROVE  /\ RadixPower(r, 0) = 1
         /\ \A n \in Nat : /\ RadixPower(r, n) \in Nat
                           /\ RadixPower(r, n + 1) = r * RadixPower(r, n)
<1>1. RadixPower(r, 0) = 1
  <2>1. PICK u : IsRadixTable(u, r, 0) /\ RadixPower(r, 0) = u[0]
    BY RadixPowerIs
  <2> QED
    BY <2>1 DEF IsRadixTable
<1>2. ASSUME NEW n \in Nat
      PROVE  RadixPower(r, n) \in Nat /\ RadixPower(r, n + 1) = r * RadixPower(r, n)
  <2>1. PICK u : IsRadixTable(u, r, n) /\ RadixPower(r, n) = u[n]
    BY RadixPowerIs
  <2>2. PICK m : m = n + 1
    OBVIOUS
  <2>3. m \in Nat /\ m \in 0 .. m /\ m # 0 /\ m - 1 = n /\ n \in 0 .. n /\ n <= m
    BY <2>2
  <2>4. PICK v : IsRadixTable(v, r, m) /\ RadixPower(r, m) = v[m]
    BY <2>3, RadixPowerIs
  <2>5. u[n] \in Nat /\ u[n] = v[n]
    BY <2>1, <2>3, <2>4, RadixTablesAgree
  <2>6. v[m] = r * v[n]
    BY <2>3, <2>4 DEF IsRadixTable
  <2> QED
    BY <2>1, <2>2, <2>4, <2>5, <2>6
<1> QED
  BY <1>1, <1>2

\* Powers of a radix that is not zero are not zero, and grow.
LEMMA RadixPowerPositive ==
  ASSUME NEW r \in Nat \ {0}
  PROVE  \A n \in Nat : RadixPower(r, n) \in Nat \ {0}
<1> DEFINE S == {n \in Nat : RadixPower(r, n) \in Nat \ {0}}
<1>0. r \in Nat
  OBVIOUS
<1>1. 0 \in S
  BY <1>0, PowersOfRadix
<1>2. ASSUME NEW n \in Nat, n \in S  PROVE n + 1 \in S
  <2>1. PICK x, y : x = RadixPower(r, n) /\ y = RadixPower(r, n + 1)
    OBVIOUS
  <2>2. y = r * x /\ x \in Nat \ {0}
    BY <1>0, <1>2, <2>1, PowersOfRadix
  <2>3. y \in Nat \ {0}
    <3>1. r * x >= r * 1 /\ r * x \in Nat
      BY <2>2
    <3> QED
      BY <2>2, <3>1
  <2> QED
    BY <2>1, <2>3
<1> HIDE DEF S
<1>3. \A n \in Nat : n \in S
  BY <1>1, <1>2, Induction
<1> QED
  BY <1>3 DEF S

LEMMA RadixPowerPlus ==
  ASSUME NEW r \in Nat, NEW a \in Nat
  PROVE  \A b \in Nat : RadixPower(r, a + b) = RadixPower(r, a) * RadixPower(r, b)
<1> DEFINE S == {b \in Nat : RadixPower(r, a + b) = RadixPower(r, a) * RadixPower(r, b)}
<1>1. 0 \in S
  <2>1. RadixPower(r, 0) = 1 /\ a + 0 = a /\ RadixPower(r, a) \in Nat
    BY PowersOfRadix
  <2> QED
    BY <2>1
<1>2. ASSUME NEW b \in Nat, b \in S  PROVE b + 1 \in S
  <2>1. PICK c, x, y, z : c = a + b /\ x = RadixPower(r, a) /\ y = RadixPower(r, b)
                          /\ z = RadixPower(r, c)
    OBVIOUS
  <2>2. c \in Nat /\ a + (b + 1) = c + 1 /\ z = x * y
    BY <1>2, <2>1
  <2>3. /\ x \in Nat /\ y \in Nat /\ z \in Nat
        /\ RadixPower(r, c + 1) = r * z /\ RadixPower(r, b + 1) = r * y
    BY <2>1, <2>2, PowersOfRadix
  <2>4. r * z = x * (r * y)
    BY <2>2, <2>3
  <2> QED
    BY <2>1, <2>2, <2>3, <2>4
<1> HIDE DEF S
<1>3. \A b \in Nat : b \in S
  BY <1>1, <1>2, Induction
<1> QED
  BY <1>3 DEF S

LEMMA RadixPowerTimes ==
  ASSUME NEW r \in Nat, NEW a \in Nat
  PROVE  \A b \in Nat : RadixPower(RadixPower(r, a), b) = RadixPower(r, a * b)
<1> DEFINE S == {b \in Nat : RadixPower(RadixPower(r, a), b) = RadixPower(r, a * b)}
<1>0. PICK x : x = RadixPower(r, a)
  OBVIOUS
<1>00. x \in Nat
  BY <1>0, PowersOfRadix
<1>1. 0 \in S
  <2>1. RadixPower(r, 0) = 1 /\ a * 0 = 0 /\ RadixPower(x, 0) = 1
    BY <1>00, PowersOfRadix
  <2> QED
    BY <1>0, <2>1
<1>2. ASSUME NEW b \in Nat, b \in S  PROVE b + 1 \in S
  <2>1. PICK c, z : c = a * b /\ z = RadixPower(r, c)
    OBVIOUS
  <2>2. c \in Nat /\ a * (b + 1) = a + c /\ RadixPower(x, b) = z
    BY <1>0, <1>2, <2>1
  <2>3. RadixPower(x, b + 1) = x * z
    BY <1>00, <2>2, PowersOfRadix
  <2>4. RadixPower(r, a + c) = x * z
    BY <1>0, <2>1, <2>2, RadixPowerPlus
  <2> QED
    BY <1>0, <2>2, <2>3, <2>4
<1> HIDE DEF S
<1>3. \A b \in Nat : b \in S
  BY <1>1, <1>2, Induction
<1> QED
  BY <1>3 DEF S

-----------------------------------------------------------------------------
(* The numbers that the beginnings of a row of digits stand for.           *)

IsNumbers(u, r, s, n) == u = [k \in 0 .. n |-> IF k = 0 THEN 0 ELSE u[k - 1] * r + s[k]]
AreInts(s, n) == \A k \in 1 .. n : s[k] \in Int

LEMMA NumberTablesAgree ==
  ASSUME NEW r \in Int, NEW s, NEW n \in Nat, AreInts(s, n), NEW u, IsNumbers(u, r, s, n),
         NEW m \in Nat, NEW v, IsNumbers(v, r, s, m)
  PROVE  \A k \in 0 .. n : u[k] \in Int /\ (k <= m => u[k] = v[k])
<1> DEFINE S == {k \in Nat : k <= n => u[k] \in Int /\ (k <= m => u[k] = v[k])}
<1>0. /\ \A k \in 0 .. n : u[k] = IF k = 0 THEN 0 ELSE u[k - 1] * r + s[k]
      /\ \A k \in 0 .. m : v[k] = IF k = 0 THEN 0 ELSE v[k - 1] * r + s[k]
  BY DEF IsNumbers
<1>1. 0 \in S
  <2>1. u[0] = 0 /\ v[0] = 0
    BY <1>0
  <2> QED
    BY <2>1
<1>2. ASSUME NEW k \in Nat, k \in S  PROVE k + 1 \in S
  <2>1. SUFFICES ASSUME k + 1 <= n
                 PROVE  u[k + 1] \in Int /\ (k + 1 <= m => u[k + 1] = v[k + 1])
    OBVIOUS
  <2>2. u[k] \in Int /\ (k <= m => u[k] = v[k])
    BY <1>2, <2>1
  <2>3. PICK i : i = k + 1
    OBVIOUS
  <2>4. i \in 0 .. n /\ i \in 1 .. n /\ i # 0 /\ i - 1 = k /\ (i <= m => i \in 0 .. m /\ k <= m)
    BY <2>1, <2>3
  <2>5. u[i] = u[k] * r + s[i] /\ (i <= m => v[i] = v[k] * r + s[i])
    BY <1>0, <2>4
  <2>6. s[i] \in Int
    BY <2>4 DEF AreInts
  <2>7. u[i] \in Int /\ (i <= m => u[i] = v[i])
    BY <2>2, <2>4, <2>5, <2>6
  <2> QED
    BY <2>3, <2>7
<1> HIDE DEF S
<1>3. \A k \in Nat : k \in S
  BY <1>1, <1>2, Induction
<1> QED
  BY <1>3 DEF S

LEMMA NumberTableExists ==
  ASSUME NEW r \in Int, NEW s, NEW n \in Nat, AreInts(s, n)
  PROVE  \E u : IsNumbers(u, r, s, n)
<1>1. PICK d : d = [k \in Nat |-> IF k + 1 <= n THEN s[k + 1] ELSE 0]
  OBVIOUS
<1>2. ASSUME NEW k \in Nat  PROVE d[k] \in Int /\ (k + 1 <= n => d[k] = s[k + 1])
  <2>1. CASE k + 1 <= n
    <3>1. k + 1 \in 1 .. n
      BY <2>1
    <3>2. s[k + 1] \in Int
      BY <3>1 DEF AreInts
    <3> QED
      BY <1>1, <2>1, <3>2
  <2>2. CASE ~(k + 1 <= n)
    BY <1>1, <2>2
  <2> QED
    BY <2>1, <2>2
<1>3. PICK F : F = [p \in Nat \X Int |-> p[2] * r + d[p[1]]]
  OBVIOUS
<1>4. F \in [Nat \X Int -> Int]
  BY <1>2, <1>3
<1>5. PICK u \in [0 .. n -> Int] : IsTable(u, n, 0, F)
  <2>1. 0 \in Int
    OBVIOUS
  <2> QED
    BY <1>4, <2>1, TablesExist
<1>6. ASSUME NEW k \in 0 .. n
      PROVE  u[k] = IF k = 0 THEN 0 ELSE u[k - 1] * r + s[k]
  <2>1. u[k] = IF k = 0 THEN 0 ELSE F[<<k - 1, u[k - 1]>>]
    BY <1>5 DEF IsTable
  <2>2. CASE k # 0
    <3>1. PICK j, x : j = k - 1 /\ x = u[j]
      OBVIOUS
    <3>2. j \in Nat /\ j + 1 = k /\ j + 1 <= n /\ x \in Int
      BY <1>5, <2>2, <3>1
    <3>3. <<j, x>> \in Nat \X Int
      BY <3>2
    <3>4. F[<<j, x>>] = x * r + d[j]
      BY <1>3, <3>3
    <3>5. d[j] = s[k]
      BY <1>2, <3>2
    <3> QED
      BY <2>1, <2>2, <3>1, <3>4, <3>5
  <2> QED
    BY <2>1, <2>2
<1>7. u = [k \in 0 .. n |-> IF k = 0 THEN 0 ELSE u[k - 1] * r + s[k]]
  BY <1>5, <1>6
<1> QED
  BY <1>7 DEF IsNumbers

LEMMA NumberIsEntry ==
  ASSUME NEW r \in Int, NEW s, NEW n \in Nat, AreInts(s, n)
  PROVE  \E u : IsNumbers(u, r, s, n) /\ Number(r, s, n) = u[n]
<1> DEFINE P(u) == IsNumbers(u, r, s, n)
<1>1. \E u : P(u)
  BY NumberTableExists
<1>2. Number(r, s, n) = (CHOOSE u : P(u))[n]
  BY DEF Number, IsNumbers
<1> HIDE DEF P
<1>3. P(CHOOSE u : P(u))
  BY <1>1
<1> QED
  BY <1>2, <1>3 DEF P

\* A digit more: the number times the radix, and the digit.
LEMMA NumberStep ==
  ASSUME NEW r \in Int, NEW s, NEW n \in Nat, AreInts(s, n)
  PROVE  /\ Number(r, s, 0) = 0
         /\ \A k \in 0 .. n : Number(r, s, k) \in Int
         /\ \A k \in 1 .. n : Number(r, s, k) = Number(r, s, k - 1) * r + s[k]
<1>1. PICK u : IsNumbers(u, r, s, n) /\ Number(r, s, n) = u[n]
  BY NumberIsEntry
<1>2. \A k \in 0 .. n : u[k] = IF k = 0 THEN 0 ELSE u[k - 1] * r + s[k]
  BY <1>1 DEF IsNumbers
<1>3. ASSUME NEW k \in 0 .. n  PROVE Number(r, s, k) = u[k] /\ u[k] \in Int
  <2>1. AreInts(s, k) /\ k \in Nat /\ k <= n
    BY DEF AreInts
  <2>2. PICK v : IsNumbers(v, r, s, k) /\ Number(r, s, k) = v[k]
    BY <2>1, NumberIsEntry
  <2>3. k \in 0 .. k
    BY <2>1
  <2>4. u[k] \in Int /\ u[k] = v[k]
    BY <1>1, <2>1, <2>2, <2>3, NumberTablesAgree
  <2> QED
    BY <2>2, <2>4
<1>4. \A k \in 1 .. n : k \in 0 .. n /\ k - 1 \in 0 .. n /\ k # 0
  OBVIOUS
<1>5. Number(r, s, 0) = 0
  <2>1. 0 \in 0 .. n
    OBVIOUS
  <2> QED
    BY <1>2, <1>3, <2>1
<1>6. \A k \in 1 .. n : Number(r, s, k) = Number(r, s, k - 1) * r + s[k]
  BY <1>2, <1>3, <1>4
<1> QED
  BY <1>3, <1>5, <1>6

\* Digits are below the radix.
AreDigits(s, r, n) == \A k \in 1 .. n : s[k] \in 0 .. (r - 1)

LEMMA DigitsAreInts ==
  ASSUME NEW s, NEW r \in Nat, NEW n, AreDigits(s, r, n)
  PROVE  AreInts(s, n)
  BY DEF AreDigits, AreInts

\* A number of n digits is below the power of n.
LEMMA NumberBelowPower ==
  ASSUME NEW r \in Nat \ {0}, NEW s, NEW n \in Nat, AreDigits(s, r, n)
  PROVE  \A k \in 0 .. n : Number(r, s, k) \in 0 .. (RadixPower(r, k) - 1)
<1> DEFINE S == {k \in Nat : k <= n => Number(r, s, k) \in 0 .. (RadixPower(r, k) - 1)}
<1>0. r \in Nat /\ r \in Int /\ AreInts(s, n)
  BY DigitsAreInts
<1>1. 0 \in S
  <2>1. Number(r, s, 0) = 0
    BY <1>0, NumberStep
  <2>2. RadixPower(r, 0) = 1
    BY <1>0, PowersOfRadix
  <2> QED
    BY <2>1, <2>2
<1>2. ASSUME NEW k \in Nat, k \in S  PROVE k + 1 \in S
  <2>1. SUFFICES ASSUME k + 1 <= n
                 PROVE  Number(r, s, k + 1) \in 0 .. (RadixPower(r, k + 1) - 1)
    OBVIOUS
  <2>2. PICK i, x, y, p, q, d :
            /\ i = k + 1 /\ x = Number(r, s, k) /\ y = Number(r, s, i)
            /\ p = RadixPower(r, k) /\ q = RadixPower(r, i) /\ d = s[i]
    OBVIOUS
  <2>3. i \in 1 .. n /\ i - 1 = k
    BY <2>1, <2>2
  <2>4. d \in 0 .. (r - 1)
    BY <2>2, <2>3 DEF AreDigits
  <2>5. y = x * r + d
    <3>1. Number(r, s, i) = Number(r, s, i - 1) * r + s[i]
      BY <1>0, <2>3, NumberStep
    <3> QED
      BY <2>2, <2>3, <3>1
  <2>6. p \in Nat /\ q = r * p
    BY <1>0, <2>2, PowersOfRadix
  <2>7. x \in 0 .. (p - 1)
    BY <1>2, <2>1, <2>2
  <2>8. x * r <= (p - 1) * r /\ (p - 1) * r = r * p - r /\ x * r \in Nat /\ r * p \in Nat
    BY <2>6, <2>7
  <2>9. y \in 0 .. (q - 1)
    BY <2>4, <2>5, <2>6, <2>8
  <2> QED
    BY <2>2, <2>9
<1> HIDE DEF S
<1>3. \A k \in Nat : k \in S
  BY <1>1, <1>2, Induction
<1> QED
  BY <1>3 DEF S

\* Leading zeros have no value, so the digits behind them are the number.
LEMMA ZerosAreNothing ==
  ASSUME NEW r \in Int, NEW s, NEW n \in Nat, AreInts(s, n),
         NEW z \in 0 .. n, \A k \in 1 .. z : s[k] = 0
  PROVE  Number(r, s, z) = 0
<1> DEFINE S == {k \in Nat : k <= z => Number(r, s, k) = 0}
<1>1. 0 \in S
  BY NumberStep
<1>2. ASSUME NEW k \in Nat, k \in S  PROVE k + 1 \in S
  <2>1. SUFFICES ASSUME k + 1 <= z  PROVE Number(r, s, k + 1) = 0
    OBVIOUS
  <2>2. PICK i : i = k + 1
    OBVIOUS
  <2>3. i \in 1 .. z /\ i \in 1 .. n /\ i - 1 = k /\ k <= z
    BY <2>1, <2>2
  <2>4. Number(r, s, i) = Number(r, s, k) * r + s[i]
    BY <2>3, NumberStep
  <2>5. s[i] = 0 /\ Number(r, s, k) = 0
    BY <1>2, <2>3
  <2> QED
    BY <2>2, <2>4, <2>5
<1> HIDE DEF S
<1>3. \A k \in Nat : k \in S
  BY <1>1, <1>2, Induction
<1> QED
  BY <1>3 DEF S

SameDigits(s, a, t, b, n) == \A k \in 1 .. n : s[a + k] = t[b + k]

LEMMA SameTail ==
  ASSUME NEW r \in Int, NEW a \in Nat, NEW b \in Nat, NEW n \in Nat,
         NEW l, l = a + n, NEW m, m = b + n,
         NEW s, AreInts(s, l), NEW t, AreInts(t, m),
         Number(r, s, a) = Number(r, t, b), SameDigits(s, a, t, b, n)
  PROVE  Number(r, s, l) = Number(r, t, m)
<1> DEFINE S == {k \in Nat : k <= n => Number(r, s, a + k) = Number(r, t, b + k)}
<1>0. a + n \in Nat /\ b + n \in Nat
  OBVIOUS
<1>1. 0 \in S
  OBVIOUS
<1>2. ASSUME NEW k \in Nat, k \in S  PROVE k + 1 \in S
  <2>1. SUFFICES ASSUME k + 1 <= n
                 PROVE  Number(r, s, a + (k + 1)) = Number(r, t, b + (k + 1))
    OBVIOUS
  <2>2. PICK i, e, f : i = k + 1 /\ e = a + i /\ f = b + i
    OBVIOUS
  <2>3. /\ i \in 1 .. n /\ e \in 1 .. (a + n) /\ f \in 1 .. (b + n)
        /\ e - 1 = a + k /\ f - 1 = b + k
    BY <2>1, <2>2
  <2>4. Number(r, s, e) = Number(r, s, e - 1) * r + s[e]
    <3>2. l \in Nat /\ AreInts(s, l) /\ e \in 1 .. l
      BY <1>0, <2>3
    <3> QED
      BY <3>2, NumberStep
  <2>5. Number(r, t, f) = Number(r, t, f - 1) * r + t[f]
    <3>2. m \in Nat /\ AreInts(t, m) /\ f \in 1 .. m
      BY <1>0, <2>3
    <3> QED
      BY <3>2, NumberStep
  <2>6. s[e] = t[f] /\ Number(r, s, a + k) = Number(r, t, b + k)
    BY <1>2, <2>1, <2>2, <2>3 DEF SameDigits
  <2> QED
    BY <2>2, <2>3, <2>4, <2>5, <2>6
<1> HIDE DEF S
<1>3. \A k \in Nat : k \in S
  BY <1>1, <1>2, Induction
<1>4. n \in S
  BY <1>3
<1> QED
  BY <1>4 DEF S

-----------------------------------------------------------------------------
(* A number times a factor, plus a digit of the factor, in place: from the *)
(* last digit to the first, each leaves a carry for the next.              *)

IsCarries(c, r, q, b, d, n) ==
  /\ c \in [0 .. n -> 0 .. (q - 1)]
  /\ c[0] = d /\ \A k \in 1 .. n : c[k] = (c[k - 1] + q * b[n + 1 - k]) \div r
IsProduct(e, c, r, q, b, n) ==
  \A j \in 1 .. n : e[j] = (c[n - j] + q * b[j]) % r

LEMMA CarryIsSmall ==
  ASSUME NEW r \in Nat \ {0}, NEW q \in Nat \ {0}, NEW c \in 0 .. (q - 1), NEW b \in 0 .. (r - 1)
  PROVE  /\ (c + q * b) \div r \in 0 .. (q - 1)
         /\ (c + q * b) % r \in 0 .. (r - 1)
         /\ c + q * b = r * ((c + q * b) \div r) + ((c + q * b) % r)
<1>1. PICK x, y, z : x = c + q * b /\ y = x \div r /\ z = x % r
  OBVIOUS
<1>2. q * b \in Nat /\ q * b <= q * (r - 1) /\ q * (r - 1) = r * q - q /\ r * q \in Nat
  OBVIOUS
<1>3. x \in Nat /\ x < r * q
  BY <1>1, <1>2
<1>4. y \in Nat /\ z \in 0 .. (r - 1) /\ x = r * y + z
  <2>1. x \in Int
    BY <1>3
  <2> QED
    BY <1>1, <1>3, <2>1, Split
<1>5. y < q
  <2>1. SUFFICES ASSUME y >= q  PROVE FALSE
    BY <1>4
  <2>2. r * y >= r * q /\ r * y \in Nat
    BY <1>4, <2>1
  <2> QED
    BY <1>2, <1>3, <1>4, <2>2
<1> QED
  BY <1>1, <1>4, <1>5

LEMMA CarriesExist ==
  ASSUME NEW r \in Nat \ {0}, NEW q \in Nat \ {0}, NEW d \in 0 .. (q - 1),
         NEW n \in Nat, NEW b, AreDigits(b, r, n)
  PROVE  \E c : IsCarries(c, r, q, b, d, n)
<1>1. PICK S : S = 0 .. (q - 1)
  OBVIOUS
<1>2. PICK e : e = [k \in Nat |-> IF k + 1 <= n THEN b[n - k] ELSE 0]
  OBVIOUS
<1>3. ASSUME NEW k \in Nat  PROVE e[k] \in 0 .. (r - 1) /\ (k + 1 <= n => e[k] = b[n - k])
  <2>1. CASE k + 1 <= n
    <3>1. n - k \in 1 .. n
      BY <2>1
    <3>2. b[n - k] \in 0 .. (r - 1)
      BY <3>1 DEF AreDigits
    <3> QED
      BY <1>2, <2>1, <3>2
  <2>2. CASE ~(k + 1 <= n)
    BY <1>2, <2>2
  <2> QED
    BY <2>1, <2>2
<1>4. PICK F : F = [p \in Nat \X S |-> (p[2] + q * e[p[1]]) \div r]
  OBVIOUS
<1>5. ASSUME NEW k \in Nat, NEW x \in S
      PROVE  F[<<k, x>>] = (x + q * e[k]) \div r /\ F[<<k, x>>] \in S
  <2>1. <<k, x>> \in Nat \X S
    OBVIOUS
  <2>2. F[<<k, x>>] = (x + q * e[k]) \div r
    BY <1>4, <2>1
  <2>3. PICK y : y = e[k]
    OBVIOUS
  <2>4. y \in 0 .. (r - 1) /\ x \in 0 .. (q - 1)
    BY <1>1, <1>3, <2>3
  <2>5. (x + q * y) \div r \in 0 .. (q - 1)
    BY <2>4, CarryIsSmall
  <2> QED
    BY <1>1, <2>2, <2>3, <2>5
<1>6. F \in [Nat \X S -> S]
  <2>1. \A p \in Nat \X S : F[p] \in S
    <3>1. SUFFICES ASSUME NEW p \in Nat \X S PROVE F[p] \in S
      OBVIOUS
    <3>2. p[1] \in Nat /\ p[2] \in S /\ p = <<p[1], p[2]>>
      OBVIOUS
    <3>3. F[<<p[1], p[2]>>] \in S
      BY <1>5, <3>2
    <3> QED
      BY <3>2, <3>3
  <2>2. F = [p \in Nat \X S |-> F[p]]
    BY <1>4
  <2> QED
    BY <2>1, <2>2
<1>7. PICK c \in [0 .. n -> S] : IsTable(c, n, d, F)
  <2>1. d \in S
    BY <1>1
  <2> QED
    BY <1>6, <2>1, TablesExist
<1>8. c[0] = d
  <2>1. 0 \in 0 .. n
    OBVIOUS
  <2> QED
    BY <1>7, <2>1 DEF IsTable
<1>9. ASSUME NEW k \in 1 .. n  PROVE c[k] = (c[k - 1] + q * b[n + 1 - k]) \div r
  <2>1. PICK j : j = k - 1
    OBVIOUS
  <2>2. k \in 0 .. n /\ k # 0 /\ j \in Nat /\ j \in 0 .. n /\ j + 1 <= n /\ n - j = n + 1 - k
    BY <2>1
  <2>3. c[k] = F[<<j, c[j]>>]
    BY <1>7, <2>1, <2>2 DEF IsTable
  <2>4. c[j] \in S
    BY <1>7, <2>2
  <2>5. F[<<j, c[j]>>] = (c[j] + q * e[j]) \div r
    BY <1>5, <2>2, <2>4
  <2>6. e[j] = b[n + 1 - k]
    BY <1>3, <2>2
  <2> QED
    BY <2>1, <2>3, <2>5, <2>6
<1> QED
  BY <1>1, <1>7, <1>8, <1>9 DEF IsCarries

LEMMA CarriesMove ==
  ASSUME NEW r \in Nat \ {0}, NEW q \in Nat \ {0}, NEW d \in 0 .. (q - 1),
         NEW n \in Nat, NEW b, AreDigits(b, r, n),
         NEW c, IsCarries(c, r, q, b, d, n), NEW e, IsProduct(e, c, r, q, b, n)
  PROVE  /\ AreDigits(e, r, n)
         /\ c[n] \in 0 .. (q - 1)
         /\ q * Number(r, b, n) + d = Number(r, e, n) + c[n] * RadixPower(r, n)
<1>0. r \in Nat /\ r \in Int /\ AreInts(b, n)
  BY DigitsAreInts
<1>1. ASSUME NEW j \in 1 .. n
      PROVE  /\ e[j] \in 0 .. (r - 1)
             /\ e[j] + r * c[n - j + 1] = c[n - j] + q * b[j]
             /\ c[n - j] \in 0 .. (q - 1) /\ c[n - j + 1] \in 0 .. (q - 1)
  <2>1. PICK k, x, y, f, g : k = n - j + 1 /\ x = c[n - j] /\ y = c[k] /\ f = b[j] /\ g = e[j]
    OBVIOUS
  <2>2. k \in 1 .. n /\ k - 1 = n - j /\ n + 1 - k = j /\ n - j \in 0 .. n /\ k \in 0 .. n
    BY <2>1
  <2>3. x \in 0 .. (q - 1) /\ y \in 0 .. (q - 1)
    BY <2>1, <2>2 DEF IsCarries
  <2>4. f \in 0 .. (r - 1)
    BY <2>1 DEF AreDigits
  <2>5. y = (x + q * f) \div r
    BY <2>1, <2>2 DEF IsCarries
  <2>6. g = (x + q * f) % r
    BY <2>1 DEF IsProduct
  <2>7. g \in 0 .. (r - 1) /\ x + q * f = r * y + g
    BY <2>3, <2>4, <2>5, <2>6, CarryIsSmall
  <2>8. r * y \in Int /\ q * f \in Int
    BY <2>3, <2>4
  <2> QED
    BY <2>1, <2>3, <2>7, <2>8
<1>2. AreDigits(e, r, n)
  BY <1>1 DEF AreDigits
<1>3. AreInts(e, n)
  BY <1>0, <1>2, DigitsAreInts
<1>4. PICK w : w = c[n]
  OBVIOUS
<1>5. w \in 0 .. (q - 1)
  BY <1>4 DEF IsCarries
<1> DEFINE S == {j \in Nat : j <= n =>
                    q * Number(r, b, j) + c[n - j] = Number(r, e, j) + w * RadixPower(r, j)}
<1>6. 0 \in S
  <2>1. Number(r, b, 0) = 0 /\ Number(r, e, 0) = 0
    BY <1>0, <1>3, NumberStep
  <2>2. RadixPower(r, 0) = 1 /\ n - 0 = n
    BY <1>0, PowersOfRadix
  <2>3. q * 0 + w = 0 + w * 1
    BY <1>5
  <2> QED
    BY <1>4, <2>1, <2>2, <2>3
<1>7. ASSUME NEW j \in Nat, j \in S  PROVE j + 1 \in S
  <2>1. SUFFICES ASSUME j + 1 <= n
                 PROVE  q * Number(r, b, j + 1) + c[n - (j + 1)]
                            = Number(r, e, j + 1) + w * RadixPower(r, j + 1)
    OBVIOUS
  <2>2. PICK i, x, y, p, f, g, s, t :
            /\ i = j + 1 /\ x = Number(r, b, j) /\ y = Number(r, e, j) /\ p = RadixPower(r, j)
            /\ f = b[i] /\ g = e[i] /\ s = c[n - i] /\ t = c[n - i + 1]
    OBVIOUS
  <2>3. i \in 1 .. n /\ i - 1 = j /\ n - i + 1 = n - j /\ j \in 0 .. n
    BY <2>1, <2>2
  <2>4. g + r * t = s + q * f /\ g \in Int /\ s \in Int /\ t \in Int
    BY <1>1, <2>2, <2>3
  <2>5. f \in Int /\ x \in Int /\ y \in Int
    <3>1. x \in Int
      BY <1>0, <2>2, <2>3, NumberStep
    <3>2. y \in Int
      BY <1>0, <1>3, <2>2, <2>3, NumberStep
    <3>3. f \in Int
      BY <1>0, <2>2, <2>3 DEF AreInts
    <3> QED
      BY <3>1, <3>2, <3>3
  <2>6. p \in Nat /\ RadixPower(r, i) = r * p
    BY <1>0, <2>2, PowersOfRadix
  <2>7. q * x + t = y + w * p
    BY <1>7, <2>1, <2>2, <2>3
  <2>8. Number(r, b, i) = x * r + f
    <3>1. Number(r, b, i) = Number(r, b, i - 1) * r + b[i]
      BY <1>0, <2>3, NumberStep
    <3> QED
      BY <2>2, <2>3, <3>1
  <2>9. Number(r, e, i) = y * r + g
    <3>1. Number(r, e, i) = Number(r, e, i - 1) * r + e[i]
      BY <1>0, <1>3, <2>3, NumberStep
    <3> QED
      BY <2>2, <2>3, <3>1
  <2>10. q * (x * r + f) + s = (y * r + g) + w * (r * p)
    <3>1. q * (x * r + f) = r * (q * x) + q * f
      BY <2>5
    <3>2. r * (q * x + t) = r * (y + w * p)
      BY <2>7
    <3>3. r * (q * x + t) = r * (q * x) + r * t
      BY <2>4, <2>5
    <3>4. r * (y + w * p) = y * r + w * (r * p)
      <4>1. PICK m : m = w * p
        OBVIOUS
      <4>2. m \in Int /\ r * (y + m) = y * r + r * m
        BY <1>5, <2>5, <2>6, <4>1
      <4>3. r * (w * p) = w * (r * p)
        BY <1>5, <2>6
      <4> QED
        BY <4>1, <4>2, <4>3
    <3>5. PICK u1, u2, u3, u4, u5 :
              /\ u1 = r * (q * x) /\ u2 = r * t /\ u3 = q * f /\ u4 = y * r /\ u5 = w * (r * p)
      OBVIOUS
    <3>6. u1 \in Int /\ u2 \in Int /\ u3 \in Int /\ u4 \in Int /\ u5 \in Int
      BY <1>5, <2>4, <2>5, <2>6, <3>5
    <3>7. u1 + u2 = u4 + u5 /\ g + u2 = s + u3 /\ q * (x * r + f) = u1 + u3
      BY <2>4, <3>1, <3>2, <3>3, <3>4, <3>5
    <3>8. (u1 + u3) + s = (u4 + g) + u5
      BY <2>4, <3>6, <3>7
    <3> QED
      BY <3>5, <3>7, <3>8
  <2> QED
    BY <2>2, <2>6, <2>8, <2>9, <2>10
<1> HIDE DEF S
<1>8. n \in S
  BY <1>6, <1>7, Induction
<1>9. q * Number(r, b, n) + c[n - n] = Number(r, e, n) + w * RadixPower(r, n)
  BY <1>8 DEF S
<1>10. c[n - n] = d
  <2>1. n - n = 0
    OBVIOUS
  <2> QED
    BY <2>1 DEF IsCarries
<1> QED
  BY <1>2, <1>4, <1>5, <1>9, <1>10

-----------------------------------------------------------------------------
(* One byte into the digits: the loop that stops early does what one that  *)
(* visits all the digits would do.                                         *)

\* What one turn makes of the state before.
ByteTurn(c, r) ==
  LET t == r.carry + ByteRadix * r.buf[r.j]
  IN  IF r.j > c.high \/ r.carry > 0
      THEN [buf |-> ReplaceAt(r.buf, r.j, t % DigitRadix),
            carry |-> t \div DigitRadix, j |-> r.j - 1]
      ELSE r

IsByteRun(u, c, a, n) ==
  u = [k \in 0 .. n |-> IF k = 0 THEN a ELSE ByteTurn(c, u[k - 1])]

LEMMA ByteRunExists ==
  ASSUME NEW c, NEW a
  PROVE  \A n \in Nat : \E u : IsByteRun(u, c, a, n)
<1> DEFINE Is(u, n) == u = [k \in 0 .. n |-> IF k = 0 THEN a ELSE ByteTurn(c, u[k - 1])]
           S == {n \in Nat : \E u : Is(u, n)}
<1>1. 0 \in S
  <2>1. PICK u : u = [k \in 0 .. 0 |-> a]
    OBVIOUS
  <2>2. u = [k \in 0 .. 0 |-> IF k = 0 THEN a ELSE ByteTurn(c, u[k - 1])]
    BY <2>1
  <2> QED
    BY <2>2
<1>2. ASSUME NEW n \in Nat, n \in S  PROVE n + 1 \in S
  <2>1. PICK u : Is(u, n)
    BY <1>2
  <2>2. PICK z, m : z = ByteTurn(c, u[n]) /\ m = n + 1
    OBVIOUS
  <2>3. PICK v : v = [k \in 0 .. m |-> IF k = m THEN z ELSE u[k]]
    OBVIOUS
  <2>4. ASSUME NEW k \in 0 .. m
        PROVE  v[k] = IF k = 0 THEN a ELSE ByteTurn(c, v[k - 1])
    <3>1. \A i \in 0 .. n : u[i] = IF i = 0 THEN a ELSE ByteTurn(c, u[i - 1])
      BY <2>1
    <3>2. \A i \in 0 .. n : v[i] = u[i]
      BY <2>2, <2>3
    <3>3. CASE k = m
      <4>1. v[k] = z /\ k # 0 /\ k - 1 = n /\ n \in 0 .. n
        BY <2>2, <2>3, <3>3
      <4>2. v[k - 1] = u[n]
        BY <3>2, <4>1
      <4> QED
        BY <2>2, <4>1, <4>2
    <3>4. CASE k # m /\ k # 0
      <4>1. k \in 0 .. n /\ k - 1 \in 0 .. n
        BY <2>2, <3>4
      <4>2. v[k] = u[k] /\ v[k - 1] = u[k - 1]
        BY <3>2, <4>1
      <4> QED
        BY <3>1, <3>4, <4>1, <4>2
    <3>5. CASE k # m /\ k = 0
      <4>1. k \in 0 .. n
        BY <3>5
      <4> QED
        BY <3>1, <3>2, <3>5, <4>1
    <3> QED
      BY <3>3, <3>4, <3>5
  <2>5. Is(v, m)
    BY <2>3, <2>4
  <2> QED
    BY <2>2, <2>5
<1> HIDE DEF S
<1>3. \A n \in Nat : n \in S
  BY <1>1, <1>2, Induction
<1> QED
  BY <1>3 DEF S, IsByteRun

IsPushRun(u, c, byte, a, n) ==
  IsByteRun(u, c, a, n) /\ PushByte(c, byte) = [buf |-> u[n].buf, high |-> u[n].j]

LEMMA PushByteIsRun ==
  ASSUME NEW c, NEW byte, NEW n, n = Len(c.buf), n \in Nat,
         NEW a, a = [buf |-> c.buf, carry |-> byte, j |-> n]
  PROVE  \E u : IsPushRun(u, c, byte, a, n)
<1> DEFINE P(u) == IsByteRun(u, c, a, n)
<1>1. \E u : P(u)
  BY ByteRunExists
<1>2. PICK v : v = CHOOSE u : P(u)
  OBVIOUS
<1>3. PushByte(c, byte) = [buf |-> v[n].buf, high |-> v[n].j]
  BY <1>2 DEF PushByte, IsByteRun, ByteTurn
<1> HIDE DEF P
<1>4. P(v)
  BY <1>1, <1>2
<1> QED
  BY <1>3, <1>4 DEF P, IsPushRun

\* After k turns the last k digits are those of the product, the carry is that
\* of a loop that never stops, and where it stopped there is nothing to do.
IsAfter(r, k, b, e, c, n, h) ==
  /\ r.buf = [i \in 1 .. n |-> IF i > n - k THEN e[i] ELSE b[i]]
  /\ r.carry = c[k]
  /\ r.j \in (n - k) .. n
  /\ r.j > n - k => c[k] = 0 /\ r.j <= h /\ \A i \in (n - k + 1) .. r.j : e[i] = 0

LEMMA ByteTurnIs ==
  ASSUME NEW n \in Nat, NEW b, AreDigits(b, DigitRadix, n), NEW d \in 0 .. (ByteRadix - 1),
         NEW c, IsCarries(c, DigitRadix, ByteRadix, b, d, n),
         NEW e, IsProduct(e, c, DigitRadix, ByteRadix, b, n),
         NEW s, NEW h, h = s.high, h \in 0 .. n, \A i \in 1 .. h : b[i] = 0,
         NEW k \in 0 .. (n - 1), NEW r, IsAfter(r, k, b, e, c, n, h)
  PROVE  IsAfter(ByteTurn(s, r), k + 1, b, e, c, n, h)
<1>1. PICK j, m, x, y, f : j = n - k /\ m = k + 1 /\ x = c[k] /\ y = c[m] /\ f = b[j]
  OBVIOUS
<1>2. j \in 1 .. n /\ m \in 1 .. n /\ m - 1 = k /\ n + 1 - m = j /\ n - j = k /\ n - m = j - 1
      /\ k \in 0 .. n /\ m \in 0 .. n
  BY <1>1
<1>3. x \in 0 .. 255 /\ y \in 0 .. 255 /\ y = (x + 256 * f) \div 58
  BY <1>1, <1>2, SMTT(30) DEF IsCarries, DigitRadix, ByteRadix
<1>4. e[j] = (x + 256 * f) % 58
  BY <1>1, <1>2 DEF IsProduct, DigitRadix, ByteRadix
<1>5. f \in 0 .. 57
  BY <1>1, <1>2 DEF AreDigits, DigitRadix
<1>6. /\ r.buf = [i \in 1 .. n |-> IF i > j THEN e[i] ELSE b[i]]
      /\ r.carry = x /\ r.j \in j .. n
      /\ r.j > j => x = 0 /\ r.j <= h /\ \A i \in (j + 1) .. r.j : e[i] = 0
  BY <1>1, <1>2 DEF IsAfter
<1>7. PICK z : z = ByteTurn(s, r)
  OBVIOUS
<1>8. /\ z.buf = [i \in 1 .. n |-> IF i > j - 1 THEN e[i] ELSE b[i]]
      /\ z.carry = y /\ z.j \in (j - 1) .. n
      /\ z.j > j - 1 => y = 0 /\ z.j <= h /\ \A i \in j .. z.j : e[i] = 0
  <2>1. CASE r.j > h \/ r.carry > 0
    <3>1. r.j = j
      BY <1>2, <1>6, <2>1
    <3>2. r.buf[r.j] = f
      BY <1>1, <1>2, <1>6, <3>1
    <3>3. z = [buf |-> [r.buf EXCEPT ![j] = e[j]], carry |-> y, j |-> j - 1]
      <4>1. PICK t : t = r.carry + ByteRadix * r.buf[r.j]
        OBVIOUS
      <4>2. t = x + 256 * f
        BY <1>6, <3>2, <4>1 DEF ByteRadix
      <4>3. t % DigitRadix = e[j] /\ t \div DigitRadix = y
        BY <1>3, <1>4, <4>2 DEF DigitRadix
      <4>4. ByteTurn(s, r) = [buf |-> ReplaceAt(r.buf, r.j, t % DigitRadix),
                              carry |-> t \div DigitRadix, j |-> r.j - 1]
        BY <2>1, <4>1 DEF ByteTurn
      <4> QED
        BY <1>7, <3>1, <4>3, <4>4 DEF ReplaceAt
    <3>4. [r.buf EXCEPT ![j] = e[j]] = [i \in 1 .. n |-> IF i > j - 1 THEN e[i] ELSE b[i]]
      <4>1. [r.buf EXCEPT ![j] = e[j]] = [i \in 1 .. n |-> IF i = j THEN e[j] ELSE r.buf[i]]
        BY <1>6
      <4>2. \A i \in 1 .. n : (IF i = j THEN e[j] ELSE r.buf[i])
                                = IF i > j - 1 THEN e[i] ELSE b[i]
        BY <1>2, <1>6
      <4> QED
        BY <4>1, <4>2
    <3>5. z.j = j - 1 /\ z.carry = y /\ j - 1 \in (j - 1) .. n
      BY <1>2, <3>3
    <3> QED
      BY <1>2, <3>3, <3>4, <3>5
  <2>2. CASE ~(r.j > h \/ r.carry > 0)
    <3>1. z = r /\ x = 0 /\ r.j <= h
      <4>1. z = r
        BY <1>7, <2>2, Zenon DEF ByteTurn
      <4>2. ~(r.j > h) /\ ~(r.carry > 0)
        BY <2>2
      <4>3. r.j \in Int /\ h \in Int /\ r.carry = x
        BY <1>2, <1>6
      <4>4. x = 0
        BY <1>3, <4>2, <4>3
      <4>5. r.j <= h
        BY <4>2, <4>3
      <4> QED
        BY <4>1, <4>4, <4>5
    <3>2. f = 0
      <4>1. j \in 1 .. h
        BY <1>2, <1>6, <3>1
      <4> QED
        BY <1>1, <4>1
    <3>3. y = 0 /\ e[j] = 0
      BY <1>3, <1>4, <3>1, <3>2
    <3>4. r.buf = [i \in 1 .. n |-> IF i > j - 1 THEN e[i] ELSE b[i]]
      <4>1. \A i \in 1 .. n : (IF i > j THEN e[i] ELSE b[i]) = IF i > j - 1 THEN e[i] ELSE b[i]
        <5>1. b[j] = e[j]
          BY <1>1, <3>2, <3>3
        <5>2. \A i \in 1 .. n : (i > j - 1) <=> (i > j \/ i = j)
          BY <1>2
        <5> QED
          BY <5>1, <5>2
      <4> QED
        BY <1>6, <4>1
    <3>5. r.j \in (j - 1) .. n /\ \A i \in j .. r.j : e[i] = 0
      <4>1. ASSUME NEW i \in j .. r.j  PROVE e[i] = 0
        <5>1. CASE i = j
          BY <3>3, <5>1
        <5>2. CASE i # j
          <6>1. r.j > j /\ i \in (j + 1) .. r.j
            BY <1>2, <1>6, <5>2
          <6> QED
            BY <1>6, <6>1
        <5> QED
          BY <5>1, <5>2
      <4> QED
        BY <1>2, <1>6, <4>1
    <3> QED
      BY <1>6, <3>1, <3>3, <3>4, <3>5
  <2> QED
    BY <2>1, <2>2
<1>9. n - m + 1 = j
  BY <1>2
<1> QED
  BY <1>1, <1>2, <1>7, <1>8, <1>9 DEF IsAfter

\* z holds the digits b times the radix of bytes, and d, but for what overflowed.
IsByteMore(z, b, d, n) ==
  /\ z.buf = [i \in 1 .. n |-> z.buf[i]] /\ AreDigits(z.buf, DigitRadix, n)
  /\ z.high \in 0 .. n /\ \A i \in 1 .. z.high : z.buf[i] = 0
  /\ \E w \in Nat : ByteRadix * Number(DigitRadix, b, n) + d
                        = Number(DigitRadix, z.buf, n) + w * RadixPower(DigitRadix, n)

LEMMA PushByteIs ==
  ASSUME NEW n \in Nat, NEW b, b = [i \in 1 .. n |-> b[i]], AreDigits(b, DigitRadix, n),
         NEW d \in 0 .. (ByteRadix - 1),
         NEW s, s.buf = b, s.high \in 0 .. n, \A i \in 1 .. s.high : b[i] = 0
  PROVE  IsByteMore(PushByte(s, d), b, d, n)
<1>0. DigitRadix \in Nat \ {0} /\ ByteRadix \in Nat \ {0}
  BY DEF DigitRadix, ByteRadix
<1>1. PICK c : IsCarries(c, DigitRadix, ByteRadix, b, d, n)
  BY <1>0, CarriesExist
<1>2. PICK e : e = [j \in 1 .. n |-> (c[n - j] + ByteRadix * b[j]) % DigitRadix]
  OBVIOUS
<1>3. IsProduct(e, c, DigitRadix, ByteRadix, b, n)
  BY <1>2 DEF IsProduct
<1>4. /\ AreDigits(e, DigitRadix, n) /\ c[n] \in 0 .. (ByteRadix - 1)
      /\ ByteRadix * Number(DigitRadix, b, n) + d
            = Number(DigitRadix, e, n) + c[n] * RadixPower(DigitRadix, n)
  BY <1>0, <1>1, <1>3, CarriesMove
<1>5. PICK h : h = s.high
  OBVIOUS
<1>6. PICK a : a = [buf |-> b, carry |-> d, j |-> n]
  OBVIOUS
<1>7. Len(b) = n
  BY SequenceOfFunction
<1>8. PICK u : IsPushRun(u, s, d, a, n)
  <2>1. n = Len(s.buf) /\ a = [buf |-> s.buf, carry |-> d, j |-> n]
    BY <1>6, <1>7
  <2> QED
    BY <2>1, PushByteIsRun
<1>9. \A k \in 0 .. n : u[k] = IF k = 0 THEN a ELSE ByteTurn(s, u[k - 1])
  BY <1>8 DEF IsPushRun, IsByteRun
<1> DEFINE S == {k \in Nat : k <= n => IsAfter(u[k], k, b, e, c, n, h)}
<1>10. 0 \in S
  <2>1. u[0] = a
    BY <1>9
  <2>2. c[0] = d
    BY <1>1 DEF IsCarries
  <2>3. b = [i \in 1 .. n |-> IF i > n - 0 THEN e[i] ELSE b[i]]
    <3>1. \A i \in 1 .. n : b[i] = IF i > n - 0 THEN e[i] ELSE b[i]
      OBVIOUS
    <3> QED
      BY <3>1
  <2>4. n \in (n - 0) .. n /\ ~(n > n - 0)
    OBVIOUS
  <2>5. IsAfter(a, 0, b, e, c, n, h)
    BY <1>6, <2>2, <2>3, <2>4 DEF IsAfter
  <2> QED
    BY <2>1, <2>5
<1>11. ASSUME NEW k \in Nat, k \in S  PROVE k + 1 \in S
  <2>1. SUFFICES ASSUME k + 1 <= n  PROVE IsAfter(u[k + 1], k + 1, b, e, c, n, h)
    OBVIOUS
  <2>2. k \in 0 .. (n - 1) /\ k + 1 \in 0 .. n /\ k + 1 # 0 /\ (k + 1) - 1 = k /\ k <= n
    BY <2>1
  <2>3. IsAfter(u[k], k, b, e, c, n, h)
    BY <1>11, <2>2
  <2>4. u[k + 1] = ByteTurn(s, u[k])
    BY <1>9, <2>2
  <2>5. IsAfter(ByteTurn(s, u[k]), k + 1, b, e, c, n, h)
    BY <1>1, <1>3, <1>5, <2>2, <2>3, ByteTurnIs
  <2> QED
    BY <2>4, <2>5
<1> HIDE DEF S
<1>12. n \in S
  BY <1>10, <1>11, Induction
<1>13. IsAfter(u[n], n, b, e, c, n, h)
  BY <1>12 DEF S
<1>14. PICK z : z = PushByte(s, d)
  OBVIOUS
<1>15. z.buf = u[n].buf /\ z.high = u[n].j
  BY <1>8, <1>14 DEF IsPushRun
<1>16. z.buf = [i \in 1 .. n |-> IF i > n - n THEN e[i] ELSE b[i]] /\ z.high \in (n - n) .. n
       /\ (z.high > n - n => \A i \in (n - n + 1) .. z.high : e[i] = 0)
  BY <1>13, <1>15 DEF IsAfter
<1>17. z.buf = e
  <2>1. \A i \in 1 .. n : (IF i > n - n THEN e[i] ELSE b[i]) = e[i]
    OBVIOUS
  <2>2. z.buf = [i \in 1 .. n |-> e[i]]
    BY <1>16, <2>1
  <2>3. e = [i \in 1 .. n |-> e[i]]
    BY <1>2
  <2> QED
    BY <2>2, <2>3
<1>18. z.high \in 0 .. n /\ \A i \in 1 .. z.high : e[i] = 0
  <2>1. n - n = 0 /\ n - n + 1 = 1
    OBVIOUS
  <2>2. z.high \in 0 .. n
    BY <1>16, <2>1
  <2>3. ASSUME NEW i \in 1 .. z.high  PROVE e[i] = 0
    <3>1. z.high > 0
      BY <2>2
    <3> QED
      BY <1>16, <2>1, <3>1
  <2> QED
    BY <2>2, <2>3
<1>19. e = [i \in 1 .. n |-> e[i]]
  BY <1>2
<1>20. c[n] \in Nat
  BY <1>0, <1>4
<1> QED
  BY <1>4, <1>14, <1>17, <1>18, <1>19, <1>20 DEF IsByteMore

-----------------------------------------------------------------------------
(* The estimated number of digits is enough: 8 bytes need no more than 11. *)

LEMMA FewPowers ==
  /\ RadixPower(256, 0) = 1 /\ RadixPower(256, 1) = 256 /\ RadixPower(256, 2) = 65536
  /\ RadixPower(256, 3) = 16777216 /\ RadixPower(256, 4) = 4294967296
  /\ RadixPower(256, 5) = 1099511627776 /\ RadixPower(256, 6) = 281474976710656
  /\ RadixPower(256, 7) = 72057594037927936 /\ RadixPower(256, 8) = 18446744073709551616
  /\ RadixPower(58, 0) = 1 /\ RadixPower(58, 1) = 58 /\ RadixPower(58, 2) = 3364
  /\ RadixPower(58, 3) = 195112 /\ RadixPower(58, 4) = 11316496
  /\ RadixPower(58, 5) = 656356768 /\ RadixPower(58, 6) = 38068692544
  /\ RadixPower(58, 7) = 2207984167552 /\ RadixPower(58, 8) = 128063081718016
  /\ RadixPower(58, 9) = 7427658739644928 /\ RadixPower(58, 10) = 430804206899405824
  /\ RadixPower(58, 11) = 24986644000165537792
<1>0. 256 \in Nat /\ 58 \in Nat
  OBVIOUS
<1>1. /\ RadixPower(256, 0) = 1
      /\ \A n \in Nat : RadixPower(256, n + 1) = 256 * RadixPower(256, n)
  BY <1>0, PowersOfRadix
<1>2. /\ RadixPower(58, 0) = 1
      /\ \A n \in Nat : RadixPower(58, n + 1) = 58 * RadixPower(58, n)
  BY <1>0, PowersOfRadix
<1>3. /\ 0 + 1 = 1 /\ 1 + 1 = 2 /\ 2 + 1 = 3 /\ 3 + 1 = 4 /\ 4 + 1 = 5 /\ 5 + 1 = 6 /\ 6 + 1 = 7
      /\ 7 + 1 = 8 /\ 8 + 1 = 9 /\ 9 + 1 = 10 /\ 10 + 1 = 11
      /\ \A k \in {0, 1, 2, 3, 4, 5, 6, 7, 8, 9, 10} : k \in Nat
  OBVIOUS
<1>4. /\ RadixPower(256, 1) = 256 * RadixPower(256, 0)
      /\ RadixPower(256, 2) = 256 * RadixPower(256, 1)
      /\ RadixPower(256, 3) = 256 * RadixPower(256, 2)
      /\ RadixPower(256, 4) = 256 * RadixPower(256, 3)
      /\ RadixPower(256, 5) = 256 * RadixPower(256, 4)
      /\ RadixPower(256, 6) = 256 * RadixPower(256, 5)
      /\ RadixPower(256, 7) = 256 * RadixPower(256, 6)
      /\ RadixPower(256, 8) = 256 * RadixPower(256, 7)
  BY <1>1, <1>3
<1>5. /\ RadixPower(58, 1) = 58 * RadixPower(58, 0)
      /\ RadixPower(58, 2) = 58 * RadixPower(58, 1)
      /\ RadixPower(58, 3) = 58 * RadixPower(58, 2)
      /\ RadixPower(58, 4) = 58 * RadixPower(58, 3)
      /\ RadixPower(58, 5) = 58 * RadixPower(58, 4)
      /\ RadixPower(58, 6) = 58 * RadixPower(58, 5)
      /\ RadixPower(58, 7) = 58 * RadixPower(58, 6)
      /\ RadixPower(58, 8) = 58 * RadixPower(58, 7)
      /\ RadixPower(58, 9) = 58 * RadixPower(58, 8)
      /\ RadixPower(58, 10) = 58 * RadixPower(58, 9)
      /\ RadixPower(58, 11) = 58 * RadixPower(58, 10)
  BY <1>2, <1>3
<1> QED
  BY <1>1, <1>2, <1>4, <1>5

LEMMA PowerGrows ==
  ASSUME NEW r \in Nat \ {0}, NEW a \in Nat, NEW b \in Nat, a <= b
  PROVE  RadixPower(r, a) <= RadixPower(r, b)
<1>1. PICK c, x, y, z : c = b - a /\ x = RadixPower(r, a) /\ y = RadixPower(r, b)
                        /\ z = RadixPower(r, c)
  OBVIOUS
<1>2. c \in Nat /\ a + c = b /\ r \in Nat
  BY <1>1
<1>3. y = x * z
  BY <1>1, <1>2, RadixPowerPlus
<1>4. x \in Nat \ {0} /\ z \in Nat \ {0}
  BY <1>1, <1>2, RadixPowerPositive
<1>5. x * z >= x * 1
  BY <1>4
<1> QED
  BY <1>1, <1>3, <1>4, <1>5

LEMMA DigitsAreEnough ==
  \A n \in Nat : DigitsFor(n) \in Nat /\ RadixPower(256, n) <= RadixPower(58, DigitsFor(n))
<1> DEFINE Enough(n) == RadixPower(256, n) <= RadixPower(58, DigitsFor(n))
<1>0. 256 \in Nat /\ 58 \in Nat \ {0} /\ 58 \in Nat
  OBVIOUS
<1>1. \A n \in Nat : DigitsFor(n) \in Nat
  BY DEF DigitsFor
<1>2. ASSUME NEW n \in Nat, Enough(n)  PROVE Enough(n + 8)
  <2>1. PICK d, e, m : d = DigitsFor(n) /\ m = n + 8 /\ e = DigitsFor(m)
    OBVIOUS
  <2>2. m \in Nat /\ d \in Nat /\ e \in Nat /\ e >= d + 11
    BY <1>1, <2>1 DEF DigitsFor
  <2>3. RadixPower(256, m) = RadixPower(256, n) * RadixPower(256, 8)
    BY <1>0, <2>1, RadixPowerPlus
  <2>4. RadixPower(58, d + 11) = RadixPower(58, d) * RadixPower(58, 11)
    BY <1>0, <2>2, RadixPowerPlus
  <2>5. RadixPower(58, d + 11) <= RadixPower(58, e)
    BY <1>0, <2>2, PowerGrows
  <2>6. PICK x, y, z, w : x = RadixPower(256, n) /\ y = RadixPower(58, d)
                          /\ z = RadixPower(58, d + 11) /\ w = RadixPower(58, e)
    OBVIOUS
  <2>7. x \in Nat /\ y \in Nat /\ z \in Nat /\ w \in Nat
    BY <1>0, <2>2, <2>6, PowersOfRadix
  <2>8. x <= y
    BY <1>2, <2>1, <2>6
  <2>9. RadixPower(256, m) = x * 18446744073709551616 /\ z = y * 24986644000165537792
    BY <2>3, <2>4, <2>6, FewPowers
  <2>10. x * 18446744073709551616 <= w
    BY <2>5, <2>6, <2>7, <2>8, <2>9
  <2> QED
    BY <2>1, <2>6, <2>9, <2>10
<1>3. Enough(0) /\ Enough(1) /\ Enough(2) /\ Enough(3) /\ Enough(4) /\ Enough(5) /\ Enough(6)
      /\ Enough(7)
  <2>1. /\ DigitsFor(0) = 1 /\ DigitsFor(1) = 2 /\ DigitsFor(2) = 3 /\ DigitsFor(3) = 5
        /\ DigitsFor(4) = 6 /\ DigitsFor(5) = 7 /\ DigitsFor(6) = 9 /\ DigitsFor(7) = 10
    BY DEF DigitsFor
  <2> QED
    BY <2>1, FewPowers
<1> DEFINE S == {m \in Nat : /\ Enough(8 * m) /\ Enough(8 * m + 1) /\ Enough(8 * m + 2)
                             /\ Enough(8 * m + 3) /\ Enough(8 * m + 4) /\ Enough(8 * m + 5)
                             /\ Enough(8 * m + 6) /\ Enough(8 * m + 7)}
<1> HIDE DEF Enough
<1>4. 0 \in S
  BY <1>3
<1>5. ASSUME NEW m \in Nat, m \in S  PROVE m + 1 \in S
  <2>1. PICK k, i : k = 8 * m /\ i = 8 * (m + 1)
    OBVIOUS
  <2>2. k \in Nat /\ i = k + 8 /\ i + 1 = (k + 1) + 8 /\ i + 2 = (k + 2) + 8
        /\ i + 3 = (k + 3) + 8 /\ i + 4 = (k + 4) + 8 /\ i + 5 = (k + 5) + 8
        /\ i + 6 = (k + 6) + 8 /\ i + 7 = (k + 7) + 8
        /\ k + 1 \in Nat /\ k + 2 \in Nat /\ k + 3 \in Nat /\ k + 4 \in Nat /\ k + 5 \in Nat
        /\ k + 6 \in Nat /\ k + 7 \in Nat
    BY <2>1
  <2>3. /\ Enough(k) /\ Enough(k + 1) /\ Enough(k + 2) /\ Enough(k + 3) /\ Enough(k + 4)
        /\ Enough(k + 5) /\ Enough(k + 6) /\ Enough(k + 7)
    BY <1>5, <2>1
  <2>4. /\ Enough(i) /\ Enough(i + 1) /\ Enough(i + 2) /\ Enough(i + 3) /\ Enough(i + 4)
        /\ Enough(i + 5) /\ Enough(i + 6) /\ Enough(i + 7)
    BY <1>2, <2>2, <2>3
  <2> QED
    BY <2>1, <2>4
<1>6. \A m \in Nat : m \in S
  <2> HIDE DEF S
  <2> QED
    BY <1>4, <1>5, Induction
<1>7. ASSUME NEW n \in Nat  PROVE Enough(n)
  <2>1. PICK m, e : m = n \div 8 /\ e = n % 8
    OBVIOUS
  <2>2. m \in Nat /\ e \in 0 .. 7 /\ n = 8 * m + e
    BY <2>1
  <2>3. e \in {0, 1, 2, 3, 4, 5, 6, 7}
    BY <2>2
  <2>4. m \in S
    BY <1>6, <2>2
  <2>5. 8 * m + 0 = 8 * m
    BY <2>2
  <2> QED
    BY <2>2, <2>3, <2>4, <2>5
<1> QED
  BY <1>1, <1>7 DEF Enough

-----------------------------------------------------------------------------
(* Leading zeros.                                                          *)

IsLeading(s, z) ==
  /\ z \in 0 .. Len(s) /\ \A k \in 1 .. z : s[k] = 0
  /\ z < Len(s) => s[z + 1] # 0

LEMMA LeadingUnique ==
  ASSUME NEW s, Len(s) \in Nat, NEW y, IsLeading(s, y), NEW z, IsLeading(s, z)
  PROVE  y = z
<1>1. y \in Nat /\ z \in Nat /\ y <= Len(s) /\ z <= Len(s)
  BY DEF IsLeading
<1>2. ~(y < z)
  <2>1. SUFFICES ASSUME y < z  PROVE FALSE
    OBVIOUS
  <2>2. y + 1 \in 1 .. z /\ y < Len(s)
    BY <1>1, <2>1
  <2> QED
    BY <2>2 DEF IsLeading
<1>3. ~(z < y)
  <2>1. SUFFICES ASSUME z < y  PROVE FALSE
    OBVIOUS
  <2>2. z + 1 \in 1 .. y /\ z < Len(s)
    BY <1>1, <2>1
  <2> QED
    BY <2>2 DEF IsLeading
<1> QED
  BY <1>1, <1>2, <1>3

LEMMA LeadingExists ==
  ASSUME NEW s, Len(s) \in Nat
  PROVE  \E z : IsLeading(s, z)
<1>1. PICK n : n = Len(s)
  OBVIOUS
<1> DEFINE T == {z \in Nat : z <= n /\ (z < n => s[z + 1] # 0)}
<1>2. n \in T
  BY <1>1
<1>3. T \in SUBSET Nat /\ T # {}
  BY <1>2
<1> HIDE DEF T
<1>4. PICK z \in T : \A m \in T : z <= m
  BY <1>3, LeastMember
<1>5. z \in Nat /\ z <= n /\ (z < n => s[z + 1] # 0)
  BY <1>4 DEF T
<1>6. ASSUME NEW k \in 1 .. z  PROVE s[k] = 0
  <2>1. SUFFICES ASSUME s[k] # 0  PROVE FALSE
    OBVIOUS
  <2>2. PICK j : j = k - 1
    OBVIOUS
  <2>3. j \in Nat /\ j + 1 = k /\ j < z /\ j <= n
    BY <1>1, <1>5, <2>2
  <2>4. j \in T
    BY <2>1, <2>3 DEF T
  <2> QED
    BY <1>4, <1>5, <2>3, <2>4
<1>7. IsLeading(s, z)
  BY <1>1, <1>5, <1>6 DEF IsLeading
<1> QED
  BY <1>7

LEMMA LeadingIs ==
  ASSUME NEW s, Len(s) \in Nat
  PROVE  IsLeading(s, LeadingZeros(s))
<1> DEFINE P(z) == /\ \A k \in 1 .. z : s[k] = 0
                   /\ z < Len(s) => s[z + 1] # 0
<1>1. \E z \in 0 .. Len(s) : P(z)
  BY LeadingExists DEF IsLeading
<1>2. LeadingZeros(s) = CHOOSE z \in 0 .. Len(s) : P(z)
  BY DEF LeadingZeros
<1> HIDE DEF P
<1>3. LeadingZeros(s) \in 0 .. Len(s) /\ P(LeadingZeros(s))
  BY <1>1, <1>2
<1> QED
  BY <1>3 DEF IsLeading, P

-----------------------------------------------------------------------------
(* All the bytes into the digits.                                          *)

IsPushes(u, a, s, z, m) ==
  u = [k \in 0 .. m |-> IF k = 0 THEN a ELSE PushByte(u[k - 1], s[z + k])]

LEMMA PushesExist ==
  ASSUME NEW a, NEW s, NEW z
  PROVE  \A m \in Nat : \E u : IsPushes(u, a, s, z, m)
<1> DEFINE S == {m \in Nat : \E u : IsPushes(u, a, s, z, m)}
<1>1. 0 \in S
  <2>1. PICK u : u = [k \in 0 .. 0 |-> a]
    OBVIOUS
  <2>2. u = [k \in 0 .. 0 |-> IF k = 0 THEN a ELSE PushByte(u[k - 1], s[z + k])]
    BY <2>1
  <2>3. IsPushes(u, a, s, z, 0)
    BY <2>2 DEF IsPushes
  <2> QED
    BY <2>3
<1>2. ASSUME NEW n \in Nat, n \in S  PROVE n + 1 \in S
  <2>1. PICK u : IsPushes(u, a, s, z, n)
    BY <1>2
  <2>2. PICK y, m : y = PushByte(u[n], s[z + m]) /\ m = n + 1
    OBVIOUS
  <2>3. PICK v : v = [k \in 0 .. m |-> IF k = m THEN y ELSE u[k]]
    OBVIOUS
  <2>4. ASSUME NEW k \in 0 .. m
        PROVE  v[k] = IF k = 0 THEN a ELSE PushByte(v[k - 1], s[z + k])
    <3>1. \A i \in 0 .. n : u[i] = IF i = 0 THEN a ELSE PushByte(u[i - 1], s[z + i])
      BY <2>1 DEF IsPushes
    <3>2. \A i \in 0 .. n : v[i] = u[i]
      BY <2>2, <2>3
    <3>3. CASE k = m
      <4>1. v[k] = y /\ k # 0 /\ k - 1 = n /\ n \in 0 .. n
        BY <2>2, <2>3, <3>3
      <4>2. v[k - 1] = u[n]
        BY <3>2, <4>1
      <4> QED
        BY <2>2, <3>3, <4>1, <4>2
    <3>4. CASE k # m /\ k # 0
      <4>1. k \in 0 .. n /\ k - 1 \in 0 .. n
        BY <2>2, <3>4
      <4>2. v[k] = u[k] /\ v[k - 1] = u[k - 1]
        BY <3>2, <4>1
      <4> QED
        BY <3>1, <3>4, <4>1, <4>2
    <3>5. CASE k # m /\ k = 0
      <4>1. k \in 0 .. n
        BY <3>5
      <4> QED
        BY <3>1, <3>2, <3>5, <4>1
    <3> QED
      BY <3>3, <3>4, <3>5
  <2>5. v = [k \in 0 .. m |-> IF k = 0 THEN a ELSE PushByte(v[k - 1], s[z + k])]
    BY <2>3, <2>4
  <2>6. IsPushes(v, a, s, z, m) /\ m \in Nat
    BY <2>2, <2>5 DEF IsPushes
  <2> QED
    BY <2>2, <2>6
<1> HIDE DEF S
<1>3. \A m \in Nat : m \in S
  BY <1>1, <1>2, Induction
<1> QED
  BY <1>3 DEF S

\* After k bytes the digits are those of the number of k bytes.
IsPushed(c, n, t, k) ==
  /\ c.buf = [i \in 1 .. n |-> c.buf[i]] /\ AreDigits(c.buf, DigitRadix, n)
  /\ c.high \in 0 .. n /\ \A i \in 1 .. c.high : c.buf[i] = 0
  /\ Number(DigitRadix, c.buf, n) = Number(ByteRadix, t, k)

LEMMA PushedStep ==
  ASSUME NEW m \in Nat, NEW t, AreDigits(t, ByteRadix, m), NEW n, n = DigitsFor(m),
         NEW k \in 0 .. (m - 1), NEW c, IsPushed(c, n, t, k)
  PROVE  IsPushed(PushByte(c, t[k + 1]), n, t, k + 1)
<1>0. /\ DigitRadix = 58 /\ ByteRadix = 256 /\ n \in Nat /\ 58 \in Nat /\ 256 \in Nat
      /\ 58 \in Int /\ 256 \in Int /\ 58 \in Nat \ {0} /\ 256 \in Nat \ {0}
  BY DigitsAreEnough DEF DigitRadix, ByteRadix
<1>1. PICK b, d, i, z : b = c.buf /\ i = k + 1 /\ d = t[i] /\ z = PushByte(c, d)
  OBVIOUS
<1>2. i \in 1 .. m /\ i - 1 = k /\ i \in 0 .. m /\ i <= m /\ i \in Nat
  BY <1>1
<1>3. d \in 0 .. (ByteRadix - 1)
  BY <1>1, <1>2 DEF AreDigits
<1>4. IsByteMore(z, b, d, n)
  <2>1. /\ b = [j \in 1 .. n |-> b[j]] /\ AreDigits(b, DigitRadix, n) /\ c.buf = b
        /\ c.high \in 0 .. n /\ \A j \in 1 .. c.high : b[j] = 0
    BY <1>1 DEF IsPushed
  <2> QED
    BY <1>0, <1>1, <1>3, <2>1, PushByteIs, ZenonT(60)
<1>5. PICK w \in Nat : ByteRadix * Number(DigitRadix, b, n) + d
                            = Number(DigitRadix, z.buf, n) + w * RadixPower(DigitRadix, n)
  BY <1>4 DEF IsByteMore
<1>6. PICK x, y, v, p : /\ x = Number(256, t, k) /\ y = Number(256, t, i)
                        /\ v = Number(58, z.buf, n) /\ p = RadixPower(58, n)
  OBVIOUS
<1>7. y = x * 256 + d
  <2>1. AreInts(t, m)
    BY <1>0, DigitsAreInts
  <2>2. Number(256, t, i) = Number(256, t, i - 1) * 256 + t[i]
    <3>1. PICK r : r = 256
      OBVIOUS
    <3>2. r \in Int
      BY <3>1
    <3>3. Number(r, t, i) = Number(r, t, i - 1) * r + t[i]
      BY <1>2, <2>1, <3>2, NumberStep
    <3> QED
      BY <3>1, <3>3
  <2> QED
    BY <1>1, <1>2, <1>6, <2>2
<1>8. x \in Int /\ d \in Int
  <2>1. AreInts(t, m) /\ k \in 0 .. m
    BY <1>0, DigitsAreInts
  <2>2. x \in Int
    BY <1>0, <1>6, <2>1, NumberStep, ZenonT(60)
  <2> QED
    BY <1>0, <1>3, <2>2
<1>9. 256 * x + d = v + w * p
  <2>1. Number(DigitRadix, b, n) = x
    BY <1>0, <1>1, <1>6 DEF IsPushed
  <2> QED
    BY <1>0, <1>5, <1>6, <2>1
<1>10. y < p
  <2>1. y \in 0 .. (RadixPower(256, i) - 1)
    BY <1>0, <1>2, <1>6, NumberBelowPower
  <2>2. RadixPower(256, i) <= RadixPower(256, m)
    BY <1>0, <1>2, PowerGrows
  <2>3. RadixPower(256, m) <= p
    BY <1>0, <1>6, DigitsAreEnough
  <2>4. RadixPower(256, i) \in Nat /\ RadixPower(256, m) \in Nat /\ p \in Nat
    BY <1>0, <1>2, <1>6, PowersOfRadix
  <2> QED
    BY <2>1, <2>2, <2>3, <2>4
<1>11. v \in Nat /\ p \in Nat \ {0}
  <2>1. p \in Nat \ {0}
    BY <1>0, <1>6, RadixPowerPositive
  <2>2. v \in 0 .. (RadixPower(58, n) - 1)
    <3>1. n \in 0 .. n
      BY <1>0
    <3>2. AreDigits(z.buf, 58, n)
      BY <1>0, <1>4 DEF IsByteMore
    <3>3. Number(58, z.buf, n) \in 0 .. (RadixPower(58, n) - 1)
      BY <1>0, <3>1, <3>2, NumberBelowPower
    <3> QED
      BY <1>6, <3>3
  <2> QED
    BY <1>6, <2>1, <2>2
<1>12. w = 0
  <2>1. SUFFICES ASSUME w >= 1  PROVE FALSE
    OBVIOUS
  <2>2. w * p >= 1 * p /\ w * p \in Nat
    BY <1>11, <2>1
  <2> QED
    BY <1>7, <1>8, <1>9, <1>10, <1>11, <2>2
<1>13. v = y
  BY <1>7, <1>8, <1>9, <1>11, <1>12
<1> QED
  BY <1>0, <1>1, <1>4, <1>6, <1>13 DEF IsPushed, IsByteMore

-----------------------------------------------------------------------------
(* The text of some bytes, if there is room for it.                        *)

IsTextOf(txt, s) ==
  /\ Sequence(txt) /\ AreDigits(txt, DigitRadix, Len(txt))
  /\ LeadingZeros(txt) = LeadingZeros(s)
  /\ Number(DigitRadix, txt, Len(txt)) = Number(ByteRadix, s, Len(s))
  /\ Len(txt) <= LeadingZeros(s) + DigitsFor(Len(s) - LeadingZeros(s))

\* Digits behind other leading zeros.
IsRegrouped(txt, z, b, n, y) ==
  /\ Sequence(txt) /\ Len(txt) = z + (n - y) /\ n - y \in Nat
  /\ AreDigits(txt, DigitRadix, Len(txt)) /\ IsLeading(txt, z)
  /\ Number(DigitRadix, txt, Len(txt)) = Number(DigitRadix, b, n)

LEMMA Regrouped ==
  ASSUME NEW z \in Nat, NEW n \in Nat, NEW b, b = [i \in 1 .. n |-> b[i]],
         AreDigits(b, DigitRadix, n), NEW y, IsLeading(b, y),
         NEW txt, txt = [k \in 1 .. z |-> 0] \o [k \in 1 .. (n - y) |-> b[y + k]]
  PROVE  IsRegrouped(txt, z, b, n, y)
<1>0. DigitRadix \in Nat /\ DigitRadix \in Int /\ 0 \in 0 .. (DigitRadix - 1)
  BY DEF DigitRadix
<1>1. Len(b) = n
  BY SequenceOfFunction
<1>2. y \in 0 .. n /\ n - y \in Nat /\ y + (n - y) = n
  BY <1>1 DEF IsLeading
<1>3. PICK f, g, l : f = [k \in 1 .. z |-> 0] /\ g = [k \in 1 .. (n - y) |-> b[y + k]] /\ l = n - y
  OBVIOUS
<1>4. Sequence(f) /\ Len(f) = z
  <2>1. f = [k \in 1 .. z |-> f[k]]
    BY <1>3
  <2> QED
    BY <2>1, SequenceOfFunction
<1>5. Sequence(g) /\ Len(g) = l
  <2>1. g = [k \in 1 .. l |-> g[k]] /\ l \in Nat
    BY <1>2, <1>3
  <2> QED
    BY <2>1, SequenceOfFunction
<1>6. IsJoin(txt, f, g)
  BY <1>3, <1>4, <1>5, Joined
<1>7. Sequence(txt) /\ Len(txt) = z + l
  BY <1>4, <1>5, <1>6 DEF IsJoin
<1>8. \A k \in 1 .. z : txt[k] = 0
  BY <1>2, <1>3, <1>4, <1>6, <1>7 DEF IsJoin
<1>9. ASSUME NEW k \in 1 .. l  PROVE txt[z + k] = b[y + k] /\ y + k \in 1 .. n
  <2>1. z + k \in 1 .. Len(txt) /\ ~(z + k <= z) /\ (z + k) - z = k /\ y + k \in 1 .. n
    BY <1>2, <1>3, <1>7
  <2>2. txt[z + k] = g[(z + k) - z]
    BY <1>4, <1>6, <2>1 DEF IsJoin
  <2> QED
    BY <1>3, <2>1, <2>2
<1>10. AreDigits(txt, DigitRadix, Len(txt))
  <2>1. ASSUME NEW i \in 1 .. Len(txt)  PROVE txt[i] \in 0 .. (DigitRadix - 1)
    <3>1. CASE i <= z
      <4>1. i \in 1 .. z
        BY <3>1
      <4> QED
        BY <1>0, <1>8, <4>1
    <3>2. CASE ~(i <= z)
      <4>1. PICK k : k = i - z
        OBVIOUS
      <4>2. k \in 1 .. l /\ z + k = i
        <5>1. l \in Nat /\ i \in Nat /\ i <= z + l /\ i > z
          BY <1>2, <1>3, <1>7, <3>2
        <5> QED
          BY <4>1, <5>1
      <4>3. txt[i] = b[y + k] /\ y + k \in 1 .. n
        BY <1>9, <4>2
      <4> QED
        BY <4>3 DEF AreDigits
    <3> QED
      BY <3>1, <3>2
  <2> QED
    BY <2>1 DEF AreDigits
<1>11. IsLeading(txt, z)
  <2>1. ASSUME z < Len(txt)  PROVE txt[z + 1] # 0
    <3>1. 1 \in 1 .. l /\ y < n
      BY <1>2, <1>3, <1>7, <2>1
    <3>2. txt[z + 1] = b[y + 1]
      BY <1>9, <3>1
    <3> QED
      BY <1>1, <3>1, <3>2 DEF IsLeading
  <2>2. z \in 0 .. Len(txt)
    BY <1>2, <1>3, <1>7
  <2> QED
    BY <1>8, <2>1, <2>2 DEF IsLeading
<1>12. Number(DigitRadix, txt, z + l) = Number(DigitRadix, b, y + l)
  <2>1. AreInts(txt, z + l) /\ AreInts(b, y + l)
    <3>1. AreInts(txt, Len(txt))
      BY <1>0, <1>10, DigitsAreInts
    <3>2. AreInts(b, n)
      BY <1>0, DigitsAreInts
    <3> QED
      BY <1>2, <1>3, <1>7, <3>1, <3>2
  <2>2. Number(DigitRadix, txt, z) = 0
    <3>1. z + l \in Nat /\ z \in 0 .. (z + l)
      BY <1>2, <1>3
    <3> QED
      BY <1>0, <1>8, <2>1, <3>1, ZerosAreNothing
  <2>3. Number(DigitRadix, b, y) = 0
    <3>1. y + l \in Nat /\ y \in 0 .. (y + l) /\ \A k \in 1 .. y : b[k] = 0
      BY <1>2, <1>3 DEF IsLeading
    <3> QED
      BY <1>0, <2>1, <3>1, ZerosAreNothing
  <2>4. \A k \in 1 .. l : txt[z + k] = b[y + k]
    BY <1>9
  <2>5. y \in Nat /\ l \in Nat
    BY <1>2, <1>3
  <2>6. Number(DigitRadix, txt, z) = Number(DigitRadix, b, y)
    BY <2>2, <2>3
  <2> QED
    <3>1. PICK e, h : e = z + l /\ h = y + l
      OBVIOUS
    <3>2. AreInts(txt, e) /\ AreInts(b, h)
      BY <2>1, <3>1
    <3>3. Number(DigitRadix, txt, e) = Number(DigitRadix, b, h)
      <4>1. SameDigits(txt, z, b, y, l)
        BY <2>4 DEF SameDigits
      <4> QED
        BY <1>0, <2>5, <2>6, <3>1, <3>2, <4>1, SameTail
    <3> QED
      BY <3>1, <3>3
<1> QED
  BY <1>2, <1>3, <1>7, <1>10, <1>11, <1>12 DEF IsRegrouped

IsEncoder(txt, s) ==
  /\ IsTextOf(txt, s)
  /\ \A room \in Nat : B58enc(s, room) = IF room <= Len(txt) THEN << >> ELSE txt

LEMMA EncodedText ==
  ASSUME NEW s, Sequence(s), AreDigits(s, ByteRadix, Len(s))
  PROVE  \E txt : IsEncoder(txt, s)
<1>0. ByteRadix \in Nat /\ ByteRadix \in Int /\ DigitRadix \in Nat /\ DigitRadix \in Int
  BY DEF ByteRadix, DigitRadix
<1> DEFINE zcount == LeadingZeros(s)
           size == DigitsFor(Len(s) - zcount)
           Table(u) == u = [k \in 0 .. (Len(s) - zcount) |->
              IF k = 0 THEN [buf |-> [j \in 1 .. size |-> 0], high |-> size]
              ELSE PushByte(u[k - 1], s[zcount + k])]
<1>1. PICK z, m, n, a : /\ z = LeadingZeros(s) /\ m = Len(s) - z /\ n = DigitsFor(m)
                        /\ a = [buf |-> [j \in 1 .. n |-> 0], high |-> n]
  OBVIOUS
<1>2. Len(s) \in Nat
  BY SequenceShape
<1>3. IsLeading(s, z)
  BY <1>1, <1>2, LeadingIs
<1>4. z \in Nat /\ m \in Nat /\ z + m = Len(s) /\ \A k \in 1 .. z : s[k] = 0
  BY <1>1, <1>2, <1>3 DEF IsLeading
<1>5. n \in Nat
  BY <1>1, <1>4, DigitsAreEnough
<1>6. \A u : IsPushes(u, a, s, z, m) <=> Table(u)
  BY <1>1 DEF IsPushes
<1>7. PICK v : v = CHOOSE u : Table(u)
  OBVIOUS
<1>8. PICK b, y, txt : b = v[m].buf /\ y = LeadingZeros(b)
          /\ txt = [k \in 1 .. z |-> 0] \o [k \in 1 .. (n - y) |-> b[y + k]]
  OBVIOUS
<1>9. \A room \in Nat : B58enc(s, room) =
          IF room <= z + Len([k \in 1 .. (n - y) |-> b[y + k]]) THEN << >> ELSE txt
  <2>1. z = zcount /\ n = size
    BY <1>1
  <2>2. \A room : B58enc(s, room) =
            IF room <= zcount + Len([k \in 1 .. (size - LeadingZeros(v[Len(s) - zcount].buf)) |->
                            v[Len(s) - zcount].buf[LeadingZeros(v[Len(s) - zcount].buf) + k]])
            THEN << >>
            ELSE [k \in 1 .. zcount |-> 0] \o
                 [k \in 1 .. (size - LeadingZeros(v[Len(s) - zcount].buf)) |->
                            v[Len(s) - zcount].buf[LeadingZeros(v[Len(s) - zcount].buf) + k]]
    BY <1>7 DEF B58enc
  <2>3. y = LeadingZeros(v[Len(s) - zcount].buf) /\ b = v[Len(s) - zcount].buf
    BY <1>1, <1>8, <2>1
  <2> HIDE DEF zcount, size, Table
  <2>4. [k \in 1 .. (size - LeadingZeros(v[Len(s) - zcount].buf)) |->
            v[Len(s) - zcount].buf[LeadingZeros(v[Len(s) - zcount].buf) + k]]
        = [k \in 1 .. (n - y) |-> b[y + k]]
    BY <2>1, <2>3
  <2> QED
    BY <1>8, <2>1, <2>2, <2>4
<1> HIDE DEF zcount, size, Table
<1>10. IsPushes(v, a, s, z, m)
  <2>1. \E u : Table(u)
    BY <1>4, <1>6, PushesExist
  <2>2. Table(v)
    BY <1>7, <2>1
  <2> QED
    BY <1>6, <2>2
<1>11. \A k \in 0 .. m : v[k] = IF k = 0 THEN a ELSE PushByte(v[k - 1], s[z + k])
  BY <1>10 DEF IsPushes
<1>12. PICK t : t = [k \in 1 .. m |-> s[z + k]]
  OBVIOUS
<1>13. AreDigits(t, ByteRadix, m)
  <2>1. ASSUME NEW k \in 1 .. m  PROVE t[k] \in 0 .. (ByteRadix - 1)
    <3>1. z + k \in 1 .. Len(s)
      BY <1>4
    <3> QED
      BY <1>12, <3>1 DEF AreDigits
  <2> QED
    BY <2>1 DEF AreDigits
<1>14. AreInts(t, m)
  BY <1>0, <1>13, DigitsAreInts
<1> DEFINE S == {k \in Nat : k <= m => IsPushed(v[k], n, t, k)}
<1>15. 0 \in S
  <2>1. v[0] = a
    BY <1>4, <1>11
  <2>2. /\ a.buf = [j \in 1 .. n |-> 0] /\ a.high = n
    BY <1>1
  <2>3. AreDigits(a.buf, DigitRadix, n)
    BY <2>2 DEF AreDigits, DigitRadix
  <2>4. AreInts(a.buf, n)
    BY <1>0, <2>3, DigitsAreInts
  <2>5. Number(DigitRadix, a.buf, n) = 0
    <3>1. n \in 0 .. n /\ \A k \in 1 .. n : a.buf[k] = 0
      BY <1>5, <2>2
    <3> QED
      BY <1>0, <1>5, <2>4, <3>1, ZerosAreNothing
  <2>6. Number(ByteRadix, t, 0) = 0
    BY <1>0, <1>4, <1>14, NumberStep
  <2>7. a.high \in 0 .. n /\ \A i \in 1 .. a.high : a.buf[i] = 0
    BY <1>5, <2>2
  <2>8. a.buf = [i \in 1 .. n |-> a.buf[i]]
    BY <2>2
  <2>9. IsPushed(a, n, t, 0)
    BY <2>3, <2>5, <2>6, <2>7, <2>8 DEF IsPushed
  <2> QED
    BY <2>1, <2>9
<1>16. ASSUME NEW k \in Nat, k \in S  PROVE k + 1 \in S
  <2>1. SUFFICES ASSUME k + 1 <= m  PROVE IsPushed(v[k + 1], n, t, k + 1)
    OBVIOUS
  <2>2. PICK i : i = k + 1
    OBVIOUS
  <2>3. k \in 0 .. (m - 1) /\ i \in 0 .. m /\ i \in 1 .. m /\ i # 0 /\ i - 1 = k /\ k <= m
    BY <1>4, <2>1, <2>2
  <2>4. IsPushed(v[k], n, t, k)
    BY <1>16, <2>3
  <2>5. v[i] = PushByte(v[k], t[i])
    <3>1. v[i] = PushByte(v[i - 1], s[z + i])
      BY <1>11, <2>3
    <3> QED
      BY <1>12, <2>3, <3>1
  <2>6. IsPushed(PushByte(v[k], t[k + 1]), n, t, k + 1)
    BY <1>1, <1>4, <1>13, <2>3, <2>4, PushedStep
  <2> QED
    BY <2>2, <2>5, <2>6
<1> HIDE DEF S
<1>17. m \in S
  BY <1>4, <1>15, <1>16, Induction
<1>18. IsPushed(v[m], n, t, m)
  BY <1>4, <1>17 DEF S
<1>19. /\ b = [i \in 1 .. n |-> b[i]] /\ AreDigits(b, DigitRadix, n)
       /\ Number(DigitRadix, b, n) = Number(ByteRadix, t, m)
  BY <1>8, <1>18 DEF IsPushed
<1>20. Len(b) = n
  BY <1>5, <1>19, SequenceOfFunction
<1>21. IsLeading(b, y)
  BY <1>5, <1>8, <1>20, LeadingIs
<1>22. /\ Sequence(txt) /\ Len(txt) = z + (n - y) /\ n - y \in Nat
       /\ AreDigits(txt, DigitRadix, Len(txt)) /\ IsLeading(txt, z)
       /\ Number(DigitRadix, txt, Len(txt)) = Number(DigitRadix, b, n)
  <2>1. IsRegrouped(txt, z, b, n, y)
    BY <1>4, <1>5, <1>8, <1>19, <1>21, Regrouped
  <2> QED
    BY <2>1 DEF IsRegrouped
<1>23. Len([k \in 1 .. (n - y) |-> b[y + k]]) = n - y
  <2>1. PICK g, l : g = [k \in 1 .. (n - y) |-> b[y + k]] /\ l = n - y
    OBVIOUS
  <2>2. g = [k \in 1 .. l |-> g[k]] /\ l \in Nat
    BY <1>22, <2>1
  <2>3. Len(g) = l
    BY <2>2, SequenceOfFunction
  <2> QED
    BY <2>1, <2>3
<1>24. LeadingZeros(txt) = z
  <2>1. Len(txt) \in Nat
    BY <1>4, <1>22
  <2> QED
    BY <1>22, <2>1, LeadingIs, LeadingUnique
<1>25. Number(ByteRadix, s, Len(s)) = Number(ByteRadix, t, m)
  <2>1. AreInts(s, z + m) /\ AreInts(t, 0 + m) /\ z \in 0 .. (z + m) /\ z + m \in Nat /\ 0 + m = m
    BY <1>0, <1>2, <1>4, <1>14, DigitsAreInts
  <2>2. Number(ByteRadix, s, z) = 0
    BY <1>0, <1>4, <2>1, ZerosAreNothing
  <2>3. Number(ByteRadix, t, 0) = 0
    BY <1>0, <1>4, <1>14, NumberStep
  <2>4. PICK o : o = 0
    OBVIOUS
  <2>5. /\ o \in Nat /\ o + m = m /\ \A k \in 1 .. m : s[z + k] = t[o + k]
        /\ AreInts(t, o + m) /\ Number(ByteRadix, s, z) = Number(ByteRadix, t, o)
    BY <1>4, <1>12, <1>14, <2>2, <2>3, <2>4
  <2>6. Number(ByteRadix, s, z + m) = Number(ByteRadix, t, o + m)
    <3>1. PICK e, f : e = z + m /\ f = o + m
      OBVIOUS
    <3>2. AreInts(s, e) /\ AreInts(t, f)
      BY <2>1, <2>5, <3>1
    <3>3. Number(ByteRadix, s, e) = Number(ByteRadix, t, f)
      <4>1. SameDigits(s, z, t, o, m)
        BY <2>5 DEF SameDigits
      <4> QED
        BY <1>0, <1>4, <2>5, <3>1, <3>2, <4>1, SameTail
    <3> QED
      BY <3>1, <3>3
  <2> QED
    BY <1>4, <2>5, <2>6
<1>26. Len(txt) <= z + n
  <2>1. y \in 0 .. n
    BY <1>20, <1>21 DEF IsLeading
  <2> QED
    BY <1>4, <1>5, <1>22, <2>1
<1>27. IsTextOf(txt, s)
  BY <1>1, <1>19, <1>22, <1>24, <1>25, <1>26 DEF IsTextOf
<1>28. \A room \in Nat : B58enc(s, room) = IF room <= Len(txt) THEN << >> ELSE txt
  BY <1>9, <1>22, <1>23
<1> QED
  BY <1>27, <1>28 DEF IsEncoder

-----------------------------------------------------------------------------
(* The encoder of a source and its hash.                                   *)

LEMMA StringIs ==
  ASSUME NEW S, NEW n \in Nat, NEW s \in Strings(S, n)
  PROVE  Sequence(s) /\ Len(s) \in 0 .. n /\ \A k \in 1 .. Len(s) : s[k] \in S
<1>1. PICK l \in 0 .. n : s \in [1 .. l -> S]
  BY DEF Strings
<1>2. s = [k \in 1 .. l |-> s[k]] /\ l \in Nat
  BY <1>1
<1>3. Sequence(s) /\ Len(s) = l
  BY <1>2, SequenceOfFunction
<1> QED
  BY <1>1, <1>3

\* What the encoder turns into a number: the bytes of a source and its hash.
IsChecked(bytes, s) ==
  /\ Sequence(bytes) /\ Len(s) \in 0 .. MaxSource /\ Len(bytes) = Len(s) + 1
  /\ AreDigits(bytes, ByteRadix, Len(bytes))
  /\ Sequence(s) /\ \A k \in 1 .. Len(s) : bytes[k] = s[k]
  /\ bytes[Len(s) + 1] = HashByte(s)

LEMMA CheckedBytes ==
  ASSUME NEW s \in Strings(SourceBytes, MaxSource),
         NEW bytes, bytes = s \o <<HashByte(s)>>
  PROVE  IsChecked(bytes, s)
<1>1. /\ Sequence(s) /\ Len(s) \in 0 .. MaxSource
      /\ \A k \in 1 .. Len(s) : s[k] \in SourceBytes
  BY StringIs, Base58Assumption
<1>2. PICK h, t : h = HashByte(s) /\ t = <<h>>
  OBVIOUS
<1>3. Sequence(t) /\ Len(t) = 1 /\ t[1] = h
  BY <1>2, ShortSequences
<1>4. IsJoin(bytes, s, t)
  BY <1>1, <1>2, <1>3, Joined
<1>5. /\ Sequence(bytes) /\ Len(bytes) = Len(s) + 1
      /\ \A k \in 1 .. (Len(s) + 1) : bytes[k] = IF k <= Len(s) THEN s[k] ELSE t[k - Len(s)]
  BY <1>3, <1>4 DEF IsJoin
<1>6. h \in 0 .. (ByteRadix - 1)
  BY <1>2, Base58Assumption
<1>7. /\ \A k \in 1 .. Len(s) : bytes[k] = s[k]
      /\ bytes[Len(s) + 1] = h
  BY <1>1, <1>3, <1>5
<1>8. ASSUME NEW k \in 1 .. Len(bytes)  PROVE bytes[k] \in 0 .. (ByteRadix - 1)
  <2>1. CASE k \in 1 .. Len(s)
    BY <1>1, <1>7, <2>1, Base58Assumption
  <2>2. CASE k = Len(s) + 1
    BY <1>6, <1>7, <2>2
  <2> QED
    BY <1>1, <1>5, <2>1, <2>2
<1>9. AreDigits(bytes, ByteRadix, Len(bytes))
  BY <1>8 DEF AreDigits
<1> QED
  BY <1>1, <1>2, <1>5, <1>7, <1>9 DEF IsChecked

LEMMA DigitsForGrows ==
  ASSUME NEW a \in Nat, NEW b \in Nat, a <= b
  PROVE  DigitsFor(a) \in Nat /\ DigitsFor(a) <= DigitsFor(b)
         /\ DigitsFor(a) + (b - a) <= DigitsFor(b)
<1>1. PICK x, y : x = a * 138 /\ y = b * 138
  OBVIOUS
<1>2. x \in Nat /\ y \in Nat /\ y >= x + (b - a) * 100 /\ (b - a) \in Nat
  BY <1>1
<1>3. PICK d : d = b - a
  OBVIOUS
<1>4. y \div 100 >= (x \div 100) + d /\ x \div 100 \in Nat
  BY <1>2, <1>3
<1> QED
  BY <1>1, <1>3, <1>4 DEF DigitsFor

\* The text of a source fits the room that the caller has for it.
LEMMA EncodedSource ==
  ASSUME NEW s \in Strings(SourceBytes, MaxSource)
  PROVE  IsTextOf(EncodeCheck(s, 2 * MaxText), s \o <<HashByte(s)>>)
<1>1. PICK bytes : bytes = s \o <<HashByte(s)>>
  OBVIOUS
<1>2. IsChecked(bytes, s)
  BY <1>1, CheckedBytes
<1>3. /\ Sequence(bytes) /\ Len(s) \in 0 .. MaxSource /\ Len(bytes) = Len(s) + 1
      /\ AreDigits(bytes, ByteRadix, Len(bytes))
  BY <1>2 DEF IsChecked
<1>4. PICK txt : IsEncoder(txt, bytes)
  BY <1>3, EncodedText
<1>5. PICK z, l : z = LeadingZeros(bytes) /\ l = Len(bytes)
  OBVIOUS
<1>6. /\ IsTextOf(txt, bytes) /\ Len(txt) <= z + DigitsFor(l - z) /\ Sequence(txt)
      /\ \A room \in Nat : B58enc(bytes, room) = IF room <= Len(txt) THEN << >> ELSE txt
  BY <1>4, <1>5 DEF IsEncoder, IsTextOf
<1>7. l \in Nat /\ MaxSource \in Nat /\ MaxText \in Nat /\ l <= MaxSource + 1
  BY <1>3, <1>5, Base58Assumption
<1>8. z \in 0 .. l
  BY <1>5, <1>7, LeadingIs DEF IsLeading
<1>9. z + DigitsFor(l - z) <= DigitsFor(MaxSource + 1)
  <2>1. PICK a, b : a = l - z /\ b = MaxSource + 1
    OBVIOUS
  <2>2. a \in Nat /\ b \in Nat /\ a <= b /\ z <= b - a
    BY <1>7, <1>8, <2>1
  <2>3. DigitsFor(a) \in Nat /\ DigitsFor(a) + (b - a) <= DigitsFor(b) /\ DigitsFor(b) \in Nat
    BY <2>2, DigitsForGrows
  <2> QED
    BY <1>8, <2>1, <2>2, <2>3
<1>10. Len(txt) < 2 * MaxText
  <2>1. Len(txt) \in Nat
    BY <1>6, SequenceShape
  <2>2. DigitsFor(MaxSource + 1) \in Nat /\ DigitsFor(l - z) \in Nat
    BY <1>7, <1>8, DigitsAreEnough
  <2>3. DigitsFor(MaxSource + 1) < 2 * MaxText
    BY Base58Assumption
  <2> QED
    BY <1>6, <1>7, <1>8, <1>9, <2>1, <2>2, <2>3
<1>11. B58enc(bytes, 2 * MaxText) = txt
  <2>1. Len(txt) \in Nat /\ 2 * MaxText \in Nat
    BY <1>6, <1>7, SequenceShape
  <2> QED
    BY <1>6, <1>10, <2>1
<1> QED
  BY <1>1, <1>6, <1>11 DEF EncodeCheck

-----------------------------------------------------------------------------
(* The specification: what was written is the text of the source.          *)

SourceWritten ==
  source # << >> => /\ source \in Strings(SourceBytes, MaxSource)
                    /\ written = EncodeCheck(source, 2 * MaxText)

LEMMA SourceWrittenHolds == Base58Spec => []SourceWritten
<1>1. Base58Init => SourceWritten
  BY DEF Base58Init, SourceWritten
<1>2. SourceWritten /\ [Base58Next]_base58Vars => SourceWritten'
  <2> SUFFICES ASSUME SourceWritten, [Base58Next]_base58Vars  PROVE SourceWritten'
    OBVIOUS
  <2>1. ASSUME NEW data \in Strings(SourceBytes, MaxSource), Encode(data)
        PROVE  SourceWritten'
    BY <2>1 DEF Encode, SourceWritten
  <2>2. ASSUME NEW b58, NEW n, Decode(b58, n)  PROVE SourceWritten'
    BY <2>2 DEF Decode, SourceWritten
  <2>3. ASSUME NEW n, DecodeOwn(n)  PROVE SourceWritten'
    BY <2>3 DEF DecodeOwn, SourceWritten
  <2>4. CASE UNCHANGED base58Vars
    BY <2>4 DEF SourceWritten, base58Vars
  <2> QED
    BY <2>1, <2>2, <2>3, <2>4 DEF Base58Next
<1> QED
  BY <1>1, <1>2, PTL DEF Base58Spec

\* What b58enc writes for the bytes of a source and its hash is their number,
\* with a leading 1 for each leading zero byte, for every source, hash and
\* length: the estimated room is enough, and no digit that changes is missed.
THEOREM EncodedCorrect == Base58Spec => []EncodedIsNumber
<1>1. SourceWritten => EncodedIsNumber
  <2>1. SUFFICES ASSUME SourceWritten, source # << >>
        PROVE  LET bytes == source \o <<HashByte(source)>>
               IN  /\ ValueIn(DigitRadix, written) = ValueIn(ByteRadix, bytes)
                   /\ LeadingZeros(written) = LeadingZeros(bytes)
    BY DEF EncodedIsNumber
  <2>2. /\ source \in Strings(SourceBytes, MaxSource)
        /\ written = EncodeCheck(source, 2 * MaxText)
    BY <2>1 DEF SourceWritten
  <2>3. IsTextOf(written, source \o <<HashByte(source)>>)
    BY <2>2, EncodedSource
  <2> QED
    BY <2>3 DEF IsTextOf, ValueIn
<1> QED
  BY <1>1, SourceWrittenHolds, PTL

-----------------------------------------------------------------------------
(* The digits of a number.                                                 *)

\* The first digits are a quotient, the rest a remainder.
IsHead(r, s, a, i, e) ==
  \E low \in 0 .. (RadixPower(r, i) - 1) :
      Number(r, s, e) = Number(r, s, a) * RadixPower(r, i) + low

LEMMA HeadAndRest ==
  ASSUME NEW r \in Nat \ {0}, NEW s, NEW n \in Nat, AreDigits(s, r, n), NEW a \in Nat,
         NEW i \in Nat, NEW e, e = a + i, e <= n
  PROVE  IsHead(r, s, a, i, e)
<1> DEFINE S == {k \in Nat : a + k <= n => IsHead(r, s, a, k, a + k)}
<1>1. AreInts(s, n) /\ r \in Nat /\ r \in Int
  BY DigitsAreInts
<1>2. 0 \in S
  <2>1. SUFFICES ASSUME a <= n  PROVE IsHead(r, s, a, 0, a)
    OBVIOUS
  <2>2. RadixPower(r, 0) = 1
    BY <1>1, PowersOfRadix
  <2>3. Number(r, s, a) \in Int
    <3>1. a \in 0 .. n
      BY <2>1
    <3> QED
      BY <1>1, <3>1, NumberStep
  <2>4. 0 \in 0 .. (RadixPower(r, 0) - 1) /\ Number(r, s, a) = Number(r, s, a) * RadixPower(r, 0) + 0
    BY <2>2, <2>3
  <2> QED
    BY <2>4 DEF IsHead
<1>3. ASSUME NEW k \in Nat, k \in S  PROVE k + 1 \in S
  <2>1. SUFFICES ASSUME a + (k + 1) <= n  PROVE IsHead(r, s, a, k + 1, a + (k + 1))
    OBVIOUS
  <2>2. PICK f, g : f = a + k /\ g = a + (k + 1)
    OBVIOUS
  <2>3. f \in 0 .. n /\ g \in 1 .. n /\ g - 1 = f /\ f <= n
    BY <2>1, <2>2
  <2>4. IsHead(r, s, a, k, f)
    BY <1>3, <2>2, <2>3
  <2>5. PICK low \in 0 .. (RadixPower(r, k) - 1) :
            Number(r, s, f) = Number(r, s, a) * RadixPower(r, k) + low
    BY <2>4 DEF IsHead
  <2>6. PICK x, y, z, p, q, d : /\ x = Number(r, s, a) /\ y = Number(r, s, f) /\ z = Number(r, s, g)
                                /\ p = RadixPower(r, k) /\ q = RadixPower(r, k + 1) /\ d = s[g]
    OBVIOUS
  <2>7. z = y * r + d
    BY <1>1, <2>3, <2>6, NumberStep
  <2>8. q = r * p /\ p \in Nat
    BY <1>1, <2>6, PowersOfRadix
  <2>9. d \in 0 .. (r - 1)
    BY <2>3, <2>6 DEF AreDigits
  <2>10. x \in Int /\ y \in Int
    <3>1. a \in 0 .. n
      BY <2>1
    <3> QED
      BY <1>1, <2>3, <2>6, <3>1, NumberStep
  <2>11. y = x * p + low /\ low \in 0 .. (p - 1)
    BY <2>5, <2>6
  <2>12. z = x * q + (low * r + d)
    <3>1. PICK u, v : u = x * p /\ v = low * r
      OBVIOUS
    <3>2. u \in Int /\ v \in Int /\ low \in Int
      BY <2>8, <2>10, <2>11, <3>1
    <3>3. z = (u + low) * r + d
      BY <2>7, <2>11, <3>1
    <3>4. (u + low) * r = u * r + v
      BY <3>1, <3>2
    <3>5. u * r = x * q
      BY <2>8, <2>10, <3>1
    <3>6. u * r \in Int
      BY <3>2
    <3> QED
      BY <2>9, <3>1, <3>2, <3>3, <3>4, <3>5, <3>6
  <2>13. low * r + d \in 0 .. (q - 1)
    <3>1. low \in Nat /\ low + 1 <= p /\ d \in Nat /\ d < r
      BY <2>8, <2>9, <2>11
    <3>2. (low + 1) * r <= p * r /\ (low + 1) * r = low * r + r /\ low * r \in Nat /\ p * r \in Nat
      BY <2>8, <3>1
    <3>3. p * r = q
      BY <2>8
    <3> QED
      BY <3>1, <3>2, <3>3
  <2> QED
    BY <2>2, <2>6, <2>12, <2>13 DEF IsHead
<1> HIDE DEF S
<1>4. i \in S
  BY <1>2, <1>3, Induction
<1> QED
  BY <1>4 DEF S

IsDigitsOf(s, r, n, x) == \A j \in 1 .. n : s[j] = (x \div RadixPower(r, n - j)) % r

LEMMA DigitsAre ==
  ASSUME NEW r \in Nat \ {0}, NEW s, NEW n \in Nat, AreDigits(s, r, n)
  PROVE  IsDigitsOf(s, r, n, Number(r, s, n))
<1>1. AreInts(s, n) /\ r \in Nat /\ r \in Int
  BY DigitsAreInts
<1>2. ASSUME NEW j \in 1 .. n
      PROVE  s[j] = (Number(r, s, n) \div RadixPower(r, n - j)) % r
  <2>1. PICK i, x, y, w, p : /\ i = n - j /\ x = Number(r, s, n) /\ y = Number(r, s, j)
                             /\ w = Number(r, s, j - 1) /\ p = RadixPower(r, i)
    OBVIOUS
  <2>2. i \in Nat /\ n = j + i /\ j \in Nat /\ j - 1 \in 0 .. n /\ j \in 0 .. n /\ n \in 0 .. n
    BY <2>1
  <2>3. p \in Nat \ {0}
    BY <2>1, <2>2, RadixPowerPositive
  <2>4. x \in Int /\ y \in Int /\ w \in Int
    BY <1>1, <2>1, <2>2, NumberStep
  <2>5. IsHead(r, s, j, i, n)
    BY <2>2, HeadAndRest
  <2>6. PICK low \in 0 .. (p - 1) : x = y * p + low
    BY <2>1, <2>5 DEF IsHead
  <2>7. x = p * y + low
    BY <2>3, <2>4, <2>6
  <2>8. x \div p = y
    BY <2>3, <2>4, <2>6, <2>7, Divided
  <2>9. y = w * r + s[j]
    BY <1>1, <2>1, NumberStep
  <2>10. s[j] \in 0 .. (r - 1)
    BY DEF AreDigits
  <2>11. y = r * w + s[j]
    BY <1>1, <2>4, <2>9, <2>10
  <2>12. y % r = s[j]
    BY <2>4, <2>10, <2>11, Divided
  <2> QED
    BY <2>1, <2>8, <2>12
<1> QED
  BY <1>2 DEF IsDigitsOf

LEMMA NumberOfDigits ==
  ASSUME NEW r \in Nat \ {0}, NEW s, NEW n \in Nat, NEW x \in Nat, x < RadixPower(r, n),
         IsDigitsOf(s, r, n, x)
  PROVE  AreDigits(s, r, n) /\ Number(r, s, n) = x
<1> DEFINE Q(j) == x \div RadixPower(r, n - j)
<1>1. \A j \in 0 .. n : RadixPower(r, n - j) \in Nat \ {0}
  <2>1. \A j \in 0 .. n : n - j \in Nat
    OBVIOUS
  <2> QED
    BY <2>1, RadixPowerPositive
<1>2. ASSUME NEW j \in 1 .. n
      PROVE  /\ s[j] = Q(j) % r /\ s[j] \in 0 .. (r - 1) /\ s[j] \in Int /\ Q(j) \in Int
             /\ Q(j) = Q(j - 1) * r + s[j]
  <2>1. PICK p, q, i : i = n - j /\ p = RadixPower(r, i) /\ q = RadixPower(r, i + 1)
    OBVIOUS
  <2>2. i \in Nat /\ i + 1 = n - (j - 1)
    BY <2>1
  <2>3. q = r * p /\ p \in Nat \ {0} /\ q \in Nat \ {0}
    <3>1. i + 1 \in Nat /\ r \in Nat
      BY <2>2
    <3> QED
      BY <2>1, <2>2, <3>1, RadixPowerPositive, PowersOfRadix
  <2>4. s[j] = (x \div p) % r
    BY <2>1 DEF IsDigitsOf
  <2>5. PICK y : y = x \div p
    OBVIOUS
  <2>6. y \in Int /\ x % p \in 0 .. (p - 1) /\ x = p * y + (x % p)
    <3>1. x \in Int
      OBVIOUS
    <3> QED
      BY <2>3, <2>5, <3>1, Split
  <2>7. PICK h, d, l : h = y \div r /\ d = y % r /\ l = x % p
    OBVIOUS
  <2>8. h \in Int /\ d \in 0 .. (r - 1) /\ y = r * h + d
    BY <2>6, <2>7, Split
  <2>9. x \div q = h
    <3>1. l \in 0 .. (p - 1)
      BY <2>6, <2>7
    <3>2. x = q * h + (p * d + l)
      <4>1. PICK u, v, w : u = r * h /\ v = p * d /\ w = p * u
        OBVIOUS
      <4>2. u \in Int /\ v \in Int /\ w \in Int
        BY <2>3, <2>8, <4>1
      <4>3. p * (u + d) = w + v
        BY <2>3, <2>8, <4>1, <4>2
      <4>4. w = q * h
        BY <2>3, <2>8, <4>1
      <4>5. x = p * (u + d) + l
        BY <2>6, <2>7, <2>8, <4>1
      <4> QED
        BY <3>1, <4>1, <4>2, <4>3, <4>4, <4>5
    <3>3. p * d + l \in 0 .. (q - 1)
      <4>1. d \in Nat /\ d + 1 <= r /\ l \in Nat /\ l < p
        BY <2>3, <2>8, <3>1
      <4>2. p * (d + 1) <= p * r /\ p * (d + 1) = p * d + p /\ p * d \in Nat
        BY <2>3, <4>1
      <4>3. p * r = q
        BY <2>3
      <4> QED
        BY <2>3, <4>1, <4>2, <4>3
    <3> QED
      BY <2>3, <2>8, <3>2, <3>3, Divided
  <2>10. Q(j) = y /\ Q(j - 1) = h /\ s[j] = d
    BY <2>1, <2>2, <2>4, <2>5, <2>7, <2>9
  <2>11. y = h * r + d /\ d = y % r
    BY <2>7, <2>8
  <2> HIDE DEF Q
  <2> QED
    BY <2>6, <2>8, <2>10, <2>11
<1>3. Q(0) = 0 /\ Q(n) = x
  <2>1. PICK p : p = RadixPower(r, n)
    OBVIOUS
  <2>2. p \in Nat \ {0} /\ x \in 0 .. (p - 1) /\ x = p * 0 + x
    BY <1>1, <2>1
  <2>3. x \div p = 0
    BY <2>2, Divided
  <2>4. n - 0 = n /\ n - n = 0 /\ RadixPower(r, 0) = 1
    BY PowersOfRadix
  <2>5. x \div 1 = x
    OBVIOUS
  <2> QED
    BY <2>1, <2>3, <2>4, <2>5
<1> HIDE DEF Q
<1>4. AreDigits(s, r, n)
  BY <1>2 DEF AreDigits
<1>5. AreInts(s, n) /\ r \in Int
  BY <1>4, DigitsAreInts
<1> DEFINE S == {k \in Nat : k <= n => Number(r, s, k) = Q(k)}
<1>6. 0 \in S
  BY <1>3, <1>5, NumberStep
<1>7. ASSUME NEW k \in Nat, k \in S  PROVE k + 1 \in S
  <2>1. SUFFICES ASSUME k + 1 <= n  PROVE Number(r, s, k + 1) = Q(k + 1)
    OBVIOUS
  <2>2. PICK g : g = k + 1
    OBVIOUS
  <2>3. g \in 1 .. n /\ g - 1 = k /\ k <= n
    BY <2>1, <2>2
  <2>4. Number(r, s, k) = Q(k)
    BY <1>7, <2>3
  <2>5. Number(r, s, g) = Number(r, s, g - 1) * r + s[g]
    BY <1>5, <2>3, NumberStep
  <2>6. Q(g) = Q(g - 1) * r + s[g]
    BY <1>2, <2>3
  <2> QED
    BY <2>2, <2>3, <2>4, <2>5, <2>6
<1> HIDE DEF S
<1>8. n \in S
  BY <1>6, <1>7, Induction
<1> QED
  BY <1>3, <1>4, <1>8 DEF S

-----------------------------------------------------------------------------
(* A number has one representation with a given count of leading zeros.    *)

\* A sequence of digits, its leading zeros and its number.
IsNumeral(s, r, z, m, x) ==
  /\ Sequence(s) /\ AreDigits(s, r, Len(s)) /\ IsLeading(s, z)
  /\ m = Len(s) - z /\ x = Number(r, s, Len(s))

LEMMA SignificantDigits ==
  ASSUME NEW r \in Nat \ {0}, NEW s, NEW z, NEW m, NEW x, IsNumeral(s, r, z, m, x)
  PROVE  /\ m \in Nat /\ z \in Nat /\ x \in 0 .. (RadixPower(r, m) - 1)
         /\ \A k \in Nat : k < m => RadixPower(r, k) <= x
<1>1. PICK l : l = Len(s)
  OBVIOUS
<1>2. /\ Sequence(s) /\ AreDigits(s, r, l) /\ IsLeading(s, z)
      /\ m = l - z /\ x = Number(r, s, l)
  BY <1>1 DEF IsNumeral
<1>3. l \in Nat
  BY <1>1, <1>2, SequenceShape
<1>4. /\ z \in 0 .. l /\ \A k \in 1 .. z : s[k] = 0
      /\ z < l => s[z + 1] # 0
  BY <1>1, <1>2 DEF IsLeading
<1>5. m \in Nat /\ l = z + m /\ z \in Nat /\ r \in Nat /\ r \in Int /\ l \in 0 .. l /\ l <= l
  BY <1>2, <1>3, <1>4
<1>6. AreInts(s, l)
  BY <1>2, <1>5, DigitsAreInts
<1>7. x \in 0 .. (RadixPower(r, m) - 1)
  <2>1. PICK p, w : p = RadixPower(r, m) /\ w = Number(r, s, z)
    OBVIOUS
  <2>2. w = 0
    BY <1>3, <1>4, <1>5, <1>6, <2>1, ZerosAreNothing
  <2>3. IsHead(r, s, z, m, l)
    BY <1>2, <1>3, <1>5, HeadAndRest
  <2>4. PICK low \in 0 .. (p - 1) : x = w * p + low
    BY <1>2, <2>1, <2>3 DEF IsHead
  <2>5. p \in Nat \ {0}
    BY <1>5, <2>1, RadixPowerPositive
  <2> QED
    BY <2>1, <2>2, <2>4, <2>5
<1>8. ASSUME NEW k \in Nat, k < m  PROVE RadixPower(r, k) <= x
  <2>1. PICK i, a : a = z + 1 /\ i = m - 1
    OBVIOUS
  <2>2. i \in Nat /\ a \in Nat /\ l = a + i /\ a \in 1 .. l /\ a - 1 = z /\ k <= i /\ z \in 0 .. l
    BY <1>3, <1>4, <1>5, <1>8, <2>1
  <2>3. PICK p, w : p = RadixPower(r, i) /\ w = Number(r, s, a)
    OBVIOUS
  <2>4. s[a] \in 0 .. (r - 1) /\ s[a] # 0
    <3>1. s[a] # 0
      BY <1>4, <1>5, <2>1, <2>2
    <3> QED
      BY <1>2, <2>2, <3>1 DEF AreDigits
  <2>5. w = Number(r, s, z) * r + s[a]
    BY <1>3, <1>5, <1>6, <2>2, <2>3, NumberStep
  <2>6. Number(r, s, z) = 0
    BY <1>3, <1>4, <1>5, <1>6, ZerosAreNothing
  <2>7. w \in Nat /\ w >= 1
    BY <1>5, <2>4, <2>5, <2>6
  <2>8. IsHead(r, s, a, i, l)
    BY <1>2, <1>3, <1>5, <2>2, HeadAndRest
  <2>9. PICK low \in 0 .. (p - 1) : x = w * p + low
    BY <1>2, <2>3, <2>8 DEF IsHead
  <2>10. p \in Nat \ {0}
    BY <2>2, <2>3, RadixPowerPositive
  <2>11. w * p >= p /\ w * p \in Nat /\ low \in Nat
    BY <2>7, <2>9, <2>10
  <2>12. p <= x
    BY <2>9, <2>10, <2>11
  <2>13. RadixPower(r, k) <= p /\ RadixPower(r, k) \in Nat
    <3>1. RadixPower(r, k) <= p
      BY <2>2, <2>3, PowerGrows
    <3> QED
      BY <3>1, RadixPowerPositive
  <2>14. x \in Nat
    BY <2>9, <2>11
  <2> QED
    BY <2>10, <2>12, <2>13, <2>14
<1> QED
  BY <1>5, <1>7, <1>8

LEMMA SameSignificant ==
  ASSUME NEW r \in Nat \ {0}, NEW x,
         NEW s, NEW y, NEW m, IsNumeral(s, r, y, m, x),
         NEW t, NEW z, NEW n, IsNumeral(t, r, z, n, x)
  PROVE  m = n
<1>1. /\ m \in Nat /\ x \in 0 .. (RadixPower(r, m) - 1)
      /\ \A k \in Nat : k < m => RadixPower(r, k) <= x
  BY SignificantDigits
<1>2. /\ n \in Nat /\ x \in 0 .. (RadixPower(r, n) - 1)
      /\ \A k \in Nat : k < n => RadixPower(r, k) <= x
  BY SignificantDigits
<1>3. RadixPower(r, m) \in Nat /\ RadixPower(r, n) \in Nat
  BY <1>1, <1>2, RadixPowerPositive
<1> QED
  BY <1>1, <1>2, <1>3

LEMMA SameNumeral ==
  ASSUME NEW r \in Nat \ {0}, NEW x, NEW z,
         NEW s, NEW m, IsNumeral(s, r, z, m, x),
         NEW t, NEW n, IsNumeral(t, r, z, n, x)
  PROVE  s = t
<1>1. m = n
  BY SameSignificant
<1>2. PICK l : l = Len(s)
  OBVIOUS
<1>3. /\ Sequence(s) /\ AreDigits(s, r, l) /\ m = l - z /\ x = Number(r, s, l)
  BY <1>2 DEF IsNumeral
<1>4. /\ Sequence(t) /\ AreDigits(t, r, Len(t)) /\ n = Len(t) - z /\ x = Number(r, t, Len(t))
  BY DEF IsNumeral
<1>5. z \in Nat /\ l \in Nat /\ Len(t) \in Nat
  <2>1. z \in Nat
    BY SignificantDigits
  <2>2. Len(s) \in Nat /\ Len(t) \in Nat
    BY <1>3, <1>4, SequenceShape
  <2> QED
    BY <1>2, <2>1, <2>2
<1>6. Len(t) = l
  <2>1. PICK g : g = Len(t)
    OBVIOUS
  <2>2. g - z = l - z /\ g \in Nat /\ l \in Nat /\ z \in Nat
    BY <1>1, <1>3, <1>4, <1>5, <2>1
  <2>3. g = l
    BY <2>2
  <2> QED
    BY <2>1, <2>3
<1>7. IsDigitsOf(s, r, l, x)
  BY <1>3, <1>5, DigitsAre
<1>8. IsDigitsOf(t, r, l, x)
  BY <1>4, <1>5, <1>6, DigitsAre
<1>9. \A k \in 1 .. Len(s) : s[k] = t[k]
  BY <1>2, <1>7, <1>8 DEF IsDigitsOf
<1> QED
  BY <1>2, <1>3, <1>4, <1>6, <1>9, SameCells

-----------------------------------------------------------------------------
(* One digit into the limbs.                                               *)

\* What one turn makes of the state before.
DigitTurn(r, j) ==
  LET t == r.outi[j] * DigitRadix + r.c
  IN  [outi |-> ReplaceAt(r.outi, j, t % LimbRadix), c |-> (t \div LimbRadix) % 64]

IsDigitRun(u, a, n, l) ==
  u = [k \in 0 .. l |-> IF k = 0 THEN a ELSE DigitTurn(u[k - 1], n + 1 - k)]

LEMMA DigitRunExists ==
  ASSUME NEW a, NEW n
  PROVE  \A l \in Nat : \E u : IsDigitRun(u, a, n, l)
<1> DEFINE Is(u, l) == u = [k \in 0 .. l |-> IF k = 0 THEN a ELSE DigitTurn(u[k - 1], n + 1 - k)]
           S == {l \in Nat : \E u : Is(u, l)}
<1>1. 0 \in S
  <2>1. PICK u : u = [k \in 0 .. 0 |-> a]
    OBVIOUS
  <2>2. u = [k \in 0 .. 0 |-> IF k = 0 THEN a ELSE DigitTurn(u[k - 1], n + 1 - k)]
    BY <2>1
  <2> QED
    BY <2>2
<1>2. ASSUME NEW l \in Nat, l \in S  PROVE l + 1 \in S
  <2>1. PICK u : Is(u, l)
    BY <1>2
  <2>2. PICK m : m = l + 1
    OBVIOUS
  <2>3. PICK z : z = DigitTurn(u[l], n + 1 - m)
    OBVIOUS
  <2>4. PICK v : v = [k \in 0 .. m |-> IF k = m THEN z ELSE u[k]]
    OBVIOUS
  <2>5. ASSUME NEW k \in 0 .. m
        PROVE  v[k] = IF k = 0 THEN a ELSE DigitTurn(v[k - 1], n + 1 - k)
    <3>1. \A i \in 0 .. l : u[i] = IF i = 0 THEN a ELSE DigitTurn(u[i - 1], n + 1 - i)
      BY <2>1
    <3>2. \A i \in 0 .. l : v[i] = u[i]
      BY <2>2, <2>4
    <3>3. CASE k = m
      <4>1. v[k] = z /\ k # 0 /\ k - 1 = l /\ l \in 0 .. l
        BY <2>2, <2>4, <3>3
      <4>2. v[k - 1] = u[l]
        BY <3>2, <4>1
      <4> QED
        BY <2>3, <3>3, <4>1, <4>2
    <3>4. CASE k # m /\ k # 0
      <4>1. k \in 0 .. l /\ k - 1 \in 0 .. l
        BY <2>2, <3>4
      <4>2. v[k] = u[k] /\ v[k - 1] = u[k - 1]
        BY <3>2, <4>1
      <4> QED
        BY <3>1, <3>4, <4>1, <4>2
    <3>5. CASE k # m /\ k = 0
      <4>1. k \in 0 .. l
        BY <3>5
      <4> QED
        BY <3>1, <3>2, <3>5, <4>1
    <3> QED
      BY <3>3, <3>4, <3>5
  <2>6. Is(v, m)
    BY <2>4, <2>5
  <2> QED
    BY <2>2, <2>6
<1> HIDE DEF S
<1>3. \A l \in Nat : l \in S
  BY <1>1, <1>2, Induction
<1> QED
  BY <1>3 DEF S, IsDigitRun

\* The outcome of PushDigit, from the last state of the run.
IsPushedFrom(z, s, bytesleft, last) ==
  z = [outi |-> last.outi,
       ok |-> /\ s.ok
              /\ last.c = 0
              /\ bytesleft > 0 => last.outi[1] < RadixPower(ByteRadix, bytesleft)]

LEMMA PushDigitIsRun ==
  ASSUME NEW s, NEW digit, NEW bytesleft, NEW n, n = Len(s.outi), n \in Nat,
         NEW a, a = [outi |-> s.outi, c |-> digit]
  PROVE  \E u : IsDigitRun(u, a, n, n) /\ IsPushedFrom(PushDigit(s, digit, bytesleft), s, bytesleft, u[n])
<1> DEFINE P(u) == IsDigitRun(u, a, n, n)
<1>1. \E u : P(u)
  BY DigitRunExists
<1>2. PICK v : v = CHOOSE u : P(u)
  OBVIOUS
<1>3. IsPushedFrom(PushDigit(s, digit, bytesleft), s, bytesleft, v[n])
  BY <1>2 DEF PushDigit, IsDigitRun, DigitTurn, IsPushedFrom
<1> HIDE DEF P
<1>4. P(v)
  BY <1>1, <1>2
<1> QED
  BY <1>3, <1>4 DEF P

\* After k turns the last k limbs are those of the product.
IsLimbsAfter(r, k, b, e, c, n) ==
  /\ r.outi = [i \in 1 .. n |-> IF i > n - k THEN e[i] ELSE b[i]]
  /\ r.c = c[k]

LEMMA LimbRadixIs ==
  /\ LimbRadix \in Nat \ {0} /\ LimbBytes \in Nat \ {0} /\ ByteRadix \in Nat \ {0}
  /\ DigitRadix \in Nat \ {0} /\ LimbRadix = RadixPower(ByteRadix, LimbBytes)
<1>1. ByteRadix \in Nat \ {0} /\ DigitRadix \in Nat \ {0}
  BY DEF ByteRadix, DigitRadix
<1>2. LimbBytes \in Nat \ {0}
  BY Base58Assumption
<1>3. RadixPower(ByteRadix, LimbBytes) \in Nat \ {0}
  BY <1>1, <1>2, RadixPowerPositive
<1> QED
  BY <1>1, <1>2, <1>3 DEF LimbRadix

LEMMA DigitTurnIs ==
  ASSUME NEW n \in Nat, NEW b, AreDigits(b, LimbRadix, n), NEW d \in 0 .. (DigitRadix - 1),
         NEW c, IsCarries(c, LimbRadix, DigitRadix, b, d, n),
         NEW e, IsProduct(e, c, LimbRadix, DigitRadix, b, n),
         NEW k \in 0 .. (n - 1), NEW r, IsLimbsAfter(r, k, b, e, c, n)
  PROVE  IsLimbsAfter(DigitTurn(r, n - k), k + 1, b, e, c, n)
<1>1. PICK j, m, x, y, f, w : /\ j = n - k /\ m = k + 1 /\ x = c[k] /\ y = c[m] /\ f = b[j]
                              /\ w = LimbRadix
  OBVIOUS
<1>2. j \in 1 .. n /\ m \in 1 .. n /\ m - 1 = k /\ n + 1 - m = j /\ n - j = k /\ n - m = j - 1
      /\ k \in 0 .. n /\ m \in 0 .. n
  BY <1>1
<1>3. x \in 0 .. 57 /\ y \in 0 .. 57 /\ y = (x + 58 * f) \div w
  BY <1>1, <1>2 DEF IsCarries, DigitRadix
<1>4. e[j] = (x + 58 * f) % w
  BY <1>1, <1>2 DEF IsProduct, DigitRadix
<1>5. f \in Int
  <2>1. f \in 0 .. (LimbRadix - 1)
    BY <1>1, <1>2 DEF AreDigits
  <2> QED
    BY <2>1
<1>6. /\ r.outi = [i \in 1 .. n |-> IF i > j THEN e[i] ELSE b[i]]
      /\ r.c = x
  BY <1>1, <1>2 DEF IsLimbsAfter
<1>7. PICK t : t = r.outi[j] * DigitRadix + r.c
  OBVIOUS
<1>8. t = x + 58 * f
  <2>1. r.outi[j] = f
    BY <1>1, <1>2, <1>6
  <2>2. t = f * 58 + x
    BY <1>6, <1>7, <2>1 DEF DigitRadix
  <2>3. x \in Int
    BY <1>3
  <2> QED
    BY <1>5, <2>2, <2>3
<1>9. t % w = e[j] /\ (t \div w) % 64 = y
  <2>1. t \div w = y /\ t % w = e[j]
    BY <1>3, <1>4, <1>8
  <2>2. y % 64 = y
    BY <1>3
  <2> QED
    BY <2>1, <2>2
<1>10. PICK z : z = DigitTurn(r, j)
  OBVIOUS
<1>11. z = [outi |-> [r.outi EXCEPT ![j] = e[j]], c |-> y]
  <2>1. DigitTurn(r, j) = [outi |-> ReplaceAt(r.outi, j, t % LimbRadix),
                           c |-> (t \div LimbRadix) % 64]
    BY <1>7 DEF DigitTurn
  <2> QED
    BY <1>1, <1>9, <1>10, <2>1 DEF ReplaceAt
<1>12. [r.outi EXCEPT ![j] = e[j]] = [i \in 1 .. n |-> IF i > j - 1 THEN e[i] ELSE b[i]]
  <2>1. [r.outi EXCEPT ![j] = e[j]] = [i \in 1 .. n |-> IF i = j THEN e[j] ELSE r.outi[i]]
    BY <1>6
  <2>2. \A i \in 1 .. n : (IF i = j THEN e[j] ELSE r.outi[i]) = IF i > j - 1 THEN e[i] ELSE b[i]
    BY <1>2, <1>6
  <2> QED
    BY <2>1, <2>2
<1>13. z.outi = [i \in 1 .. n |-> IF i > n - m THEN e[i] ELSE b[i]] /\ z.c = c[m]
  BY <1>1, <1>2, <1>11, <1>12
<1> QED
  BY <1>1, <1>10, <1>13 DEF IsLimbsAfter

\* z holds the limbs b times 58, and d, but for what overflowed, and says whether
\* it did or the first limb went beyond its bytes.
IsDigitMore(z, s, b, d, n, bytesleft) ==
  /\ z.outi = [i \in 1 .. n |-> z.outi[i]] /\ AreDigits(z.outi, LimbRadix, n)
  /\ \E w \in 0 .. (DigitRadix - 1) :
        /\ DigitRadix * Number(LimbRadix, b, n) + d
              = Number(LimbRadix, z.outi, n) + w * RadixPower(LimbRadix, n)
        /\ z.ok <=> /\ s.ok
                    /\ w = 0
                    /\ bytesleft > 0 => z.outi[1] < RadixPower(ByteRadix, bytesleft)

LEMMA PushDigitIs ==
  ASSUME NEW n \in Nat, NEW b, b = [i \in 1 .. n |-> b[i]], AreDigits(b, LimbRadix, n),
         NEW d \in 0 .. (DigitRadix - 1), NEW s, s.outi = b, NEW bytesleft
  PROVE  IsDigitMore(PushDigit(s, d, bytesleft), s, b, d, n, bytesleft)
<1>1. PICK c : IsCarries(c, LimbRadix, DigitRadix, b, d, n)
  BY LimbRadixIs, CarriesExist
<1>2. PICK e : e = [j \in 1 .. n |-> (c[n - j] + DigitRadix * b[j]) % LimbRadix]
  OBVIOUS
<1>3. IsProduct(e, c, LimbRadix, DigitRadix, b, n)
  BY <1>2 DEF IsProduct
<1>4. /\ AreDigits(e, LimbRadix, n) /\ c[n] \in 0 .. (DigitRadix - 1)
      /\ DigitRadix * Number(LimbRadix, b, n) + d
            = Number(LimbRadix, e, n) + c[n] * RadixPower(LimbRadix, n)
  BY <1>1, <1>3, LimbRadixIs, CarriesMove
<1>5. PICK a : a = [outi |-> b, c |-> d]
  OBVIOUS
<1>6. Len(b) = n
  BY SequenceOfFunction
<1>7. PICK z : z = PushDigit(s, d, bytesleft)
  OBVIOUS
<1>8. PICK u : IsDigitRun(u, a, n, n) /\ IsPushedFrom(z, s, bytesleft, u[n])
  <2>1. n = Len(s.outi) /\ a = [outi |-> s.outi, c |-> d]
    BY <1>5, <1>6
  <2>2. \E u : IsDigitRun(u, a, n, n) /\ IsPushedFrom(PushDigit(s, d, bytesleft), s, bytesleft, u[n])
    BY <2>1, PushDigitIsRun
  <2> QED
    BY <1>7, <2>2
<1>9. \A k \in 0 .. n : u[k] = IF k = 0 THEN a ELSE DigitTurn(u[k - 1], n + 1 - k)
  BY <1>8 DEF IsDigitRun
<1> DEFINE S == {k \in Nat : k <= n => IsLimbsAfter(u[k], k, b, e, c, n)}
<1>10. 0 \in S
  <2>1. u[0] = a
    BY <1>9
  <2>2. c[0] = d
    BY <1>1 DEF IsCarries
  <2>3. b = [i \in 1 .. n |-> IF i > n - 0 THEN e[i] ELSE b[i]]
    <3>1. \A i \in 1 .. n : b[i] = IF i > n - 0 THEN e[i] ELSE b[i]
      OBVIOUS
    <3> QED
      BY <3>1
  <2>4. IsLimbsAfter(a, 0, b, e, c, n)
    BY <1>5, <2>2, <2>3 DEF IsLimbsAfter
  <2> QED
    BY <2>1, <2>4
<1>11. ASSUME NEW k \in Nat, k \in S  PROVE k + 1 \in S
  <2>1. SUFFICES ASSUME k + 1 <= n  PROVE IsLimbsAfter(u[k + 1], k + 1, b, e, c, n)
    OBVIOUS
  <2>2. /\ k \in 0 .. (n - 1) /\ k + 1 \in 0 .. n /\ k + 1 # 0 /\ (k + 1) - 1 = k /\ k <= n
        /\ n + 1 - (k + 1) = n - k
    BY <2>1
  <2>3. IsLimbsAfter(u[k], k, b, e, c, n)
    BY <1>11, <2>2
  <2>4. u[k + 1] = DigitTurn(u[k], n - k)
    BY <1>9, <2>2
  <2>5. IsLimbsAfter(DigitTurn(u[k], n - k), k + 1, b, e, c, n)
    BY <1>1, <1>3, <2>2, <2>3, DigitTurnIs
  <2> QED
    BY <2>4, <2>5
<1> HIDE DEF S
<1>12. n \in S
  BY <1>10, <1>11, Induction
<1>13. IsLimbsAfter(u[n], n, b, e, c, n)
  BY <1>12 DEF S
<1>14. u[n].outi = e /\ u[n].c = c[n]
  <2>1. /\ u[n].outi = [i \in 1 .. n |-> IF i > n - n THEN e[i] ELSE b[i]]
        /\ u[n].c = c[n]
    BY <1>13 DEF IsLimbsAfter
  <2>2. \A i \in 1 .. n : (IF i > n - n THEN e[i] ELSE b[i]) = e[i]
    OBVIOUS
  <2>3. u[n].outi = [i \in 1 .. n |-> e[i]]
    BY <2>1, <2>2
  <2>4. e = [i \in 1 .. n |-> e[i]]
    BY <1>2
  <2> QED
    BY <2>1, <2>3, <2>4
<1>15. z = [outi |-> e,
            ok |-> /\ s.ok
                   /\ c[n] = 0
                   /\ bytesleft > 0 => e[1] < RadixPower(ByteRadix, bytesleft)]
  BY <1>8, <1>14, Zenon DEF IsPushedFrom
<1>16. /\ z.outi = e
       /\ z.ok <=> /\ s.ok
                   /\ c[n] = 0
                   /\ bytesleft > 0 => e[1] < RadixPower(ByteRadix, bytesleft)
  BY <1>15
<1>17. e = [i \in 1 .. n |-> e[i]]
  BY <1>2
<1> QED
  BY <1>4, <1>7, <1>16, <1>17 DEF IsDigitMore

-----------------------------------------------------------------------------
(* The limbs of a buffer: the first may have fewer bytes than the others.  *)

IsFit(n, left, size) ==
  /\ n \in Nat \ {0} /\ left \in Nat /\ size \in Nat
  /\ left = 0 => RadixPower(ByteRadix, size) = RadixPower(LimbRadix, n)
  /\ left > 0 => /\ RadixPower(ByteRadix, size)
                      = RadixPower(LimbRadix, n - 1) * RadixPower(ByteRadix, left)
                 /\ RadixPower(ByteRadix, size) <= RadixPower(LimbRadix, n)

LEMMA LimbsFit ==
  ASSUME NEW size \in Nat \ {0}, NEW n, n = (size + LimbBytes - 1) \div LimbBytes,
         NEW left, left = size % LimbBytes
  PROVE  IsFit(n, left, size) /\ size <= LimbBytes * n
<1>1. PICK l, r, q : l = LimbBytes /\ r = ByteRadix /\ q = LimbRadix
  OBVIOUS
<1>2. l \in Nat \ {0} /\ r \in Nat \ {0} /\ q \in Nat \ {0} /\ q = RadixPower(r, l)
  BY <1>1, LimbRadixIs
<1>3. PICK m : m = size \div l
  OBVIOUS
<1>4. m \in Nat /\ left \in 0 .. (l - 1) /\ size = l * m + left
  <2>1. size \in Int /\ size \in Nat /\ left = size % l
    BY <1>1
  <2>2. /\ size \div l \in Int /\ size % l \in 0 .. (l - 1)
        /\ size = l * (size \div l) + (size % l) /\ size \div l \in Nat
    BY <1>2, <2>1, Split
  <2> QED
    BY <1>3, <2>1, <2>2
<1>5. size + l - 1 \in Int /\ n = (size + l - 1) \div l
  BY <1>1, <1>2
<1>6. left = 0 => n = m
  <2>1. SUFFICES ASSUME left = 0  PROVE n = m
    OBVIOUS
  <2>2. size + l - 1 = l * m + (l - 1) /\ l - 1 \in 0 .. (l - 1) /\ m \in Int
    <3>1. PICK u : u = l * m
      OBVIOUS
    <3>2. u \in Int /\ size = u
      BY <1>2, <1>4, <2>1, <3>1
    <3>3. m \in Int /\ l \in Int /\ l - 1 \in Nat
      BY <1>2, <1>4
    <3>4. l - 1 \in 0 .. (l - 1)
      BY <3>3
    <3>5. size + l - 1 = u + (l - 1)
      BY <3>2, <3>3
    <3> QED
      BY <3>1, <3>3, <3>4, <3>5
  <2> QED
    BY <1>2, <1>5, <2>2, Divided
<1>7. left > 0 => n = m + 1
  <2>1. SUFFICES ASSUME left > 0  PROVE n = m + 1
    OBVIOUS
  <2>2. PICK k : k = m + 1
    OBVIOUS
  <2>3. size + l - 1 = l * k + (left - 1) /\ left - 1 \in 0 .. (l - 1) /\ k \in Int
    <3>1. PICK u : u = l * m
      OBVIOUS
    <3>2. u \in Int /\ l * k = u + l
      BY <1>2, <1>4, <2>2, <3>1
    <3>3. left - 1 \in 0 .. (l - 1) /\ k \in Int
      BY <1>2, <1>4, <2>1, <2>2
    <3>4. size = u + left /\ left \in Int /\ l \in Int
      BY <1>2, <1>4, <3>1
    <3>5. size + l - 1 = (u + l) + (left - 1)
      BY <3>2, <3>4
    <3> QED
      BY <3>2, <3>3, <3>5
  <2> QED
    BY <1>2, <1>5, <2>2, <2>3, Divided
<1>8. CASE left = 0
  <2>1. n = m /\ size = l * n
    <3>1. l * m \in Int
      BY <1>2, <1>4
    <3> QED
      BY <1>4, <1>6, <1>8, <3>1
  <2>2. n \in Nat \ {0}
    <3>1. n # 0
      <4>1. SUFFICES ASSUME n = 0  PROVE FALSE
        OBVIOUS
      <4>2. l * n = 0
        BY <1>2, <4>1
      <4> QED
        BY <2>1, <4>2
    <3> QED
      BY <1>4, <2>1, <3>1
  <2>3. n \in Nat /\ r \in Nat /\ l \in Nat
    BY <1>2, <2>2
  <2>4. RadixPower(RadixPower(r, l), n) = RadixPower(r, l * n)
    BY <2>3, RadixPowerTimes
  <2> QED
    BY <1>1, <1>2, <1>4, <1>8, <2>1, <2>2, <2>4 DEF IsFit
<1>9. CASE left > 0
  <2>1. n = m + 1 /\ n - 1 = m /\ n \in Nat \ {0} /\ left \in Nat
    BY <1>4, <1>7, <1>9
  <2>2. PICK k : k = l * m
    OBVIOUS
  <2>3. k \in Nat /\ size = k + left /\ r \in Nat /\ q \in Nat /\ l \in Nat /\ m + 1 = n
    BY <1>2, <1>4, <2>1, <2>2
  <2>4. RadixPower(r, k + left) = RadixPower(r, k) * RadixPower(r, left)
    BY <2>1, <2>3, RadixPowerPlus
  <2>5. RadixPower(RadixPower(r, l), m) = RadixPower(r, l * m)
    BY <1>4, <2>3, RadixPowerTimes
  <2>6. PICK a, b, c, d : /\ a = RadixPower(q, m) /\ b = RadixPower(r, left)
                          /\ c = RadixPower(q, n) /\ d = RadixPower(r, size)
    OBVIOUS
  <2>7. d = a * b
    BY <1>2, <2>2, <2>3, <2>4, <2>5, <2>6
  <2>8. c = q * a
    BY <1>4, <2>3, <2>6, PowersOfRadix
  <2>9. b <= q
    <3>1. left \in Nat /\ left <= l
      BY <1>2, <1>4, <2>1
    <3> QED
      BY <1>2, <2>3, <2>6, <3>1, PowerGrows
  <2>10. a \in Nat /\ b \in Nat
    BY <1>2, <1>4, <2>1, <2>6, RadixPowerPositive
  <2>11. d <= c
    <3>1. a * b <= a * q
      BY <1>2, <2>9, <2>10
    <3>2. a * q = q * a
      BY <1>2, <2>10
    <3> QED
      BY <2>7, <2>8, <3>1, <3>2
  <2>12. size <= l * n
    <3>1. l * n = k + l
      BY <1>2, <1>4, <2>1, <2>2
    <3> QED
      BY <1>2, <1>4, <2>3, <3>1
  <2> QED
    BY <1>1, <1>2, <1>9, <2>1, <2>6, <2>7, <2>11, <2>12 DEF IsFit
<1> QED
  BY <1>4, <1>8, <1>9

\* What PushDigit looks at tells whether the number fits the buffer.
LEMMA FitsWhen ==
  ASSUME NEW n, NEW left, NEW size, IsFit(n, left, size),
         NEW e, AreDigits(e, LimbRadix, n), NEW w \in Nat,
         NEW v, v = Number(LimbRadix, e, n) + w * RadixPower(LimbRadix, n)
  PROVE  (w = 0 /\ (left > 0 => e[1] < RadixPower(ByteRadix, left)))
            <=> v < RadixPower(ByteRadix, size)
<1>1. PICK x, p, b, q, r : /\ x = Number(LimbRadix, e, n) /\ p = RadixPower(LimbRadix, n)
                           /\ b = RadixPower(ByteRadix, size) /\ q = LimbRadix
                           /\ r = RadixPower(ByteRadix, left)
  OBVIOUS
<1>2. n \in Nat \ {0} /\ left \in Nat /\ size \in Nat /\ n \in Nat /\ q \in Nat \ {0}
  BY <1>1, LimbRadixIs DEF IsFit
<1>3. p \in Nat \ {0} /\ b \in Nat \ {0} /\ r \in Nat \ {0}
  BY <1>1, <1>2, LimbRadixIs, RadixPowerPositive
<1>4. x \in 0 .. (p - 1)
  <2>1. n \in 0 .. n
    BY <1>2
  <2> QED
    BY <1>1, <1>2, <2>1, NumberBelowPower
<1>5. v = x + w * p /\ w * p \in Nat
  BY <1>1, <1>3
<1>6. w > 0 => v >= p
  <2>1. SUFFICES ASSUME w > 0  PROVE v >= p
    OBVIOUS
  <2>2. w * p >= p
    BY <1>3, <2>1
  <2> QED
    BY <1>3, <1>4, <1>5, <2>2
<1>7. w = 0 => v = x
  BY <1>3, <1>4, <1>5
<1>8. CASE left = 0
  <2>1. b = p
    BY <1>1, <1>8 DEF IsFit
  <2>2. v \in Nat
    BY <1>4, <1>5
  <2>3. w = 0 <=> v < b
    BY <1>3, <1>4, <1>6, <1>7, <2>1, <2>2
  <2>4. ~(left > 0)
    BY <1>8
  <2> QED
    BY <1>1, <2>3, <2>4
<1>9. CASE left > 0
  <2>1. PICK i, a, f : i = n - 1 /\ a = RadixPower(q, i) /\ f = e[1]
    OBVIOUS
  <2>2. b = a * r /\ b <= p
    BY <1>1, <1>9, <2>1 DEF IsFit
  <2>3. i \in Nat /\ n = 1 + i /\ n <= n /\ 1 \in 1 .. n /\ 1 - 1 = 0
    BY <1>2, <2>1
  <2>4. a \in Nat \ {0}
    BY <1>2, <2>1, <2>3, RadixPowerPositive
  <2>5. f \in 0 .. (q - 1)
    BY <1>1, <2>1, <2>3 DEF AreDigits
  <2>6. Number(q, e, 1) = f
    <3>1. AreInts(e, n) /\ q \in Int /\ q \in Nat
      BY <1>1, <1>2, DigitsAreInts
    <3>2. Number(q, e, 0) = 0
      BY <1>2, <3>1, NumberStep
    <3>3. Number(q, e, 1) = Number(q, e, 1 - 1) * q + e[1]
      BY <1>2, <2>3, <3>1, NumberStep
    <3> QED
      BY <1>2, <2>1, <2>3, <2>5, <3>2, <3>3
  <2>7. IsHead(q, e, 1, i, n)
    <3>1. PICK o : o = 1
      OBVIOUS
    <3>2. o \in Nat /\ n = o + i
      BY <2>3, <3>1
    <3>3. IsHead(q, e, o, i, n)
      BY <1>1, <1>2, <2>3, <3>2, HeadAndRest
    <3> QED
      BY <3>1, <3>3
  <2>8. PICK low \in 0 .. (a - 1) : x = f * a + low
    BY <1>1, <2>1, <2>6, <2>7 DEF IsHead
  <2>9. f < r => x < b
    <3>1. SUFFICES ASSUME f < r  PROVE x < b
      OBVIOUS
    <3>2. f + 1 <= r /\ f \in Nat
      BY <1>3, <2>5, <3>1
    <3>3. (f + 1) * a <= r * a /\ (f + 1) * a = f * a + a /\ r * a = a * r /\ f * a \in Nat
      BY <1>3, <2>4, <3>2
    <3>4. a * r \in Nat
      BY <1>3, <2>4
    <3> QED
      BY <2>2, <2>4, <2>8, <3>3, <3>4
  <2>10. x < b => f < r
    <3>1. SUFFICES ASSUME f >= r  PROVE x >= b
      BY <1>2, <1>3, <1>4, <2>5
    <3>2. f * a >= r * a /\ r * a = a * r /\ f * a \in Nat /\ a * r \in Nat
      BY <1>2, <1>3, <2>4, <2>5, <3>1
    <3> QED
      BY <2>2, <2>4, <2>8, <3>2
  <2>11. v \in Nat /\ (w > 0 => ~(v < b))
    BY <1>3, <1>4, <1>5, <1>6, <2>2
  <2>12. (w = 0 /\ f < r) <=> v < b
    <3>1. CASE w = 0
      BY <1>7, <2>9, <2>10, <3>1
    <3>2. CASE w > 0
      BY <2>11, <3>2
    <3> QED
      BY <3>1, <3>2
  <2> QED
    BY <1>1, <1>9, <2>1, <2>12
<1> QED
  BY <1>2, <1>8, <1>9

\* After k digits: the limbs hold their number, unless it does not fit.
IsDecoded(c, n, t, k, size) ==
  /\ c.outi = [i \in 1 .. n |-> c.outi[i]] /\ AreDigits(c.outi, LimbRadix, n)
  /\ c.ok <=> Number(DigitRadix, t, k) < RadixPower(ByteRadix, size)
  /\ c.ok => Number(LimbRadix, c.outi, n) = Number(DigitRadix, t, k)

LEMMA DecodedStep ==
  ASSUME NEW m \in Nat, NEW t, AreDigits(t, DigitRadix, m),
         NEW n, NEW left, NEW size, IsFit(n, left, size),
         NEW k \in 0 .. (m - 1), NEW c, IsDecoded(c, n, t, k, size)
  PROVE  IsDecoded(PushDigit(c, t[k + 1], left), n, t, k + 1, size)
<1>1. PICK b, d, g, z : b = c.outi /\ g = k + 1 /\ d = t[g] /\ z = PushDigit(c, d, left)
  OBVIOUS
<1>2. n \in Nat /\ left \in Nat /\ size \in Nat
  BY DEF IsFit
<1>3. g \in 1 .. m /\ g - 1 = k /\ k \in 0 .. m /\ g \in 0 .. m
  BY <1>1
<1>4. d \in 0 .. (DigitRadix - 1)
  BY <1>1, <1>3 DEF AreDigits
<1>5. /\ b = [i \in 1 .. n |-> b[i]] /\ AreDigits(b, LimbRadix, n)
      /\ c.ok <=> Number(DigitRadix, t, k) < RadixPower(ByteRadix, size)
      /\ c.ok => Number(LimbRadix, b, n) = Number(DigitRadix, t, k)
  BY <1>1 DEF IsDecoded
<1>6. IsDigitMore(z, c, b, d, n, left)
  BY <1>1, <1>2, <1>4, <1>5, PushDigitIs
<1>7. /\ z.outi = [i \in 1 .. n |-> z.outi[i]] /\ AreDigits(z.outi, LimbRadix, n)
  BY <1>6 DEF IsDigitMore
<1>8. PICK w \in 0 .. (DigitRadix - 1) :
        /\ DigitRadix * Number(LimbRadix, b, n) + d
              = Number(LimbRadix, z.outi, n) + w * RadixPower(LimbRadix, n)
        /\ z.ok <=> /\ c.ok
                    /\ w = 0
                    /\ left > 0 => z.outi[1] < RadixPower(ByteRadix, left)
  BY <1>6 DEF IsDigitMore
<1>9. PICK x, y, u, v, p, q : /\ x = Number(LimbRadix, b, n) /\ y = Number(LimbRadix, z.outi, n)
                              /\ u = Number(DigitRadix, t, k) /\ v = Number(DigitRadix, t, g)
                              /\ p = RadixPower(ByteRadix, size) /\ q = RadixPower(LimbRadix, n)
  OBVIOUS
<1>10. v = u * DigitRadix + d /\ u \in Nat
  <2>1. AreInts(t, m) /\ DigitRadix \in Int /\ DigitRadix \in Nat /\ DigitRadix \in Nat \ {0}
    <3>1. DigitRadix \in Int /\ DigitRadix \in Nat /\ DigitRadix \in Nat \ {0}
      BY DEF DigitRadix
    <3> QED
      BY <3>1, DigitsAreInts
  <2>2. v = u * DigitRadix + d
    <3>1. Number(DigitRadix, t, g) = Number(DigitRadix, t, g - 1) * DigitRadix + t[g]
      BY <1>3, <2>1, NumberStep
    <3> QED
      BY <1>1, <1>3, <1>9, <3>1
  <2>3. u \in 0 .. (RadixPower(DigitRadix, k) - 1)
    BY <1>3, <1>9, <2>1, NumberBelowPower
  <2> QED
    BY <2>2, <2>3
<1>11. p \in Nat /\ q \in Nat /\ x \in Nat /\ y \in Nat
  <2>1. n \in 0 .. n
    BY <1>2
  <2>2. x \in 0 .. (q - 1) /\ y \in 0 .. (q - 1)
    BY <1>2, <1>5, <1>7, <1>9, <2>1, LimbRadixIs, NumberBelowPower
  <2>3. p \in Nat /\ q \in Nat
    BY <1>2, <1>9, LimbRadixIs, RadixPowerPositive
  <2> QED
    BY <2>2, <2>3
<1>12. PICK s : s = y + w * q
  OBVIOUS
<1>13. w \in Nat /\ s = DigitRadix * x + d
  BY <1>8, <1>9, <1>12 DEF DigitRadix
<1>14. (w = 0 /\ (left > 0 => z.outi[1] < RadixPower(ByteRadix, left))) <=> s < p
  BY <1>7, <1>9, <1>12, <1>13, FitsWhen
<1>15. z.ok <=> c.ok /\ s < p
  BY <1>8, <1>14
<1>16. CASE c.ok
  <2>1. x = u /\ s = v
    BY <1>5, <1>9, <1>10, <1>11, <1>13, <1>16 DEF DigitRadix
  <2>2. z.ok <=> v < p
    BY <1>15, <1>16, <2>1
  <2>3. ASSUME z.ok  PROVE y = v
    <3>1. w = 0
      BY <1>8, <2>3
    <3>2. w * q = 0
      BY <1>11, <3>1
    <3> QED
      BY <1>11, <1>12, <2>1, <3>2
  <2> QED
    BY <1>1, <1>7, <1>9, <2>2, <2>3 DEF IsDecoded
<1>17. CASE ~c.ok
  <2>1. ~z.ok
    BY <1>15, <1>17
  <2>2. ~(u < p)
    BY <1>5, <1>9, <1>17
  <2>3. ~(v < p)
    BY <1>4, <1>10, <1>11, <2>2 DEF DigitRadix
  <2> QED
    BY <1>1, <1>7, <1>9, <2>1, <2>3 DEF IsDecoded
<1> QED
  BY <1>16, <1>17

-----------------------------------------------------------------------------
(* The bytes of the limbs are the bytes of their number.                   *)

LEMMA DividedTwice ==
  ASSUME NEW x \in Nat, NEW a \in Nat \ {0}, NEW b \in Nat \ {0}
  PROVE  (x \div a) \div b = x \div (a * b)
<1>1. PICK q, r : q = x \div a /\ r = x % a
  OBVIOUS
<1>2. q \in Int /\ r \in 0 .. (a - 1) /\ x = a * q + r /\ x \in Int
  <2>1. x \in Int
    OBVIOUS
  <2> QED
    BY <1>1, <2>1, Split
<1>3. PICK h, l : h = q \div b /\ l = q % b
  OBVIOUS
<1>4. h \in Int /\ l \in 0 .. (b - 1) /\ q = b * h + l
  BY <1>2, <1>3, Split
<1>5. PICK c, u, v, w : c = a * b /\ u = b * h /\ v = a * l /\ w = a * u
  OBVIOUS
<1>6. u \in Int /\ v \in Nat /\ w \in Int /\ c \in Nat \ {0}
  BY <1>4, <1>5
<1>7. x = c * h + (v + r)
  <2>1. a * (u + l) = w + v
    BY <1>4, <1>5, <1>6
  <2>2. w = c * h
    BY <1>4, <1>5
  <2>3. x = a * (u + l) + r
    BY <1>2, <1>4, <1>5
  <2> QED
    BY <1>2, <1>6, <2>1, <2>2, <2>3
<1>8. v + r \in 0 .. (c - 1)
  <2>1. l \in Nat /\ l + 1 <= b /\ r \in Nat /\ r < a
    BY <1>2, <1>4
  <2>2. a * (l + 1) <= a * b /\ a * (l + 1) = v + a
    BY <1>5, <2>1
  <2> QED
    BY <1>5, <1>6, <2>1, <2>2
<1>9. x \div c = h
  BY <1>2, <1>4, <1>6, <1>7, <1>8, Divided
<1> QED
  BY <1>1, <1>3, <1>5, <1>9

\* A digit within a remainder is a digit of the number.
LEMMA DigitWithin ==
  ASSUME NEW x \in Nat, NEW p \in Nat \ {0}, NEW r \in Nat \ {0}, NEW w \in Nat \ {0},
         NEW q, q = (p * r) * w
  PROVE  ((x % q) \div p) % r = (x \div p) % r
<1>1. PICK s, h, l : s = p * r /\ h = x \div q /\ l = x % q
  OBVIOUS
<1>2. s \in Nat \ {0} /\ q \in Nat \ {0} /\ x \in Int
  <2>1. s \in Nat \ {0}
    BY <1>1
  <2> QED
    BY <1>1, <2>1
<1>3. h \in Int /\ l \in 0 .. (q - 1) /\ x = q * h + l
  BY <1>1, <1>2, Split
<1>4. PICK d, f : d = l \div p /\ f = w * h
  OBVIOUS
<1>5. d \in Int /\ l \in Int /\ f \in Int
  <2>1. l \in Int /\ f \in Int
    BY <1>3, <1>4
  <2>2. d \in Int
    BY <1>4, <2>1, Split
  <2> QED
    BY <2>1, <2>2
<1>6. PICK g : g = r * f
  OBVIOUS
<1>7. g \in Int /\ q * h = p * g
  <2>1. q * h = ((p * r) * w) * h
    OBVIOUS
  <2>2. ((p * r) * w) * h = (p * r) * (w * h)
    BY <1>3
  <2>3. (p * r) * f = p * (r * f)
    BY <1>5
  <2>4. g \in Int
    BY <1>5, <1>6
  <2> QED
    BY <1>4, <1>6, <2>1, <2>2, <2>3, <2>4
<1>8. x = l + p * g
  <2>1. p * g \in Int
    BY <1>7
  <2> QED
    BY <1>3, <1>5, <1>7, <2>1
<1>9. x \div p = d + g
  BY <1>4, <1>5, <1>7, <1>8, RemainderKept
<1>10. (d + r * f) % r = d % r
  BY <1>5, RemainderKept
<1> QED
  BY <1>1, <1>4, <1>6, <1>9, <1>10

\* The bytes bin of a number x.
IsBytes(bin, size, x) ==
  /\ Sequence(bin) /\ Len(bin) = size
  /\ AreDigits(bin, ByteRadix, size) /\ Number(ByteRadix, bin, size) = x

LEMMA BytesOfLimbs ==
  ASSUME NEW size \in Nat \ {0}, NEW n \in Nat, size <= LimbBytes * n,
         NEW outi, outi = [i \in 1 .. n |-> outi[i]], AreDigits(outi, LimbRadix, n),
         NEW x, x = Number(LimbRadix, outi, n), x < RadixPower(ByteRadix, size)
  PROVE  IsBytes(BytesOf(outi, size), size, x)
<1>1. PICK l, r, q, bin : l = LimbBytes /\ r = ByteRadix /\ q = LimbRadix /\ bin = BytesOf(outi, size)
  OBVIOUS
<1>2. l \in Nat \ {0} /\ r \in Nat \ {0} /\ q \in Nat \ {0} /\ q = RadixPower(r, l)
  BY <1>1, LimbRadixIs
<1>3. x \in Nat
  <2>1. n \in 0 .. n
    OBVIOUS
  <2>2. x \in 0 .. (RadixPower(q, n) - 1)
    BY <1>1, <1>2, <2>1, NumberBelowPower
  <2> QED
    BY <2>2
<1>4. Len(outi) = n
  BY SequenceOfFunction
<1>5. bin = [i \in 1 .. size |->
               (outi[n - ((size - i) \div l)] \div RadixPower(r, (size - i) % l)) % r]
  BY <1>1, <1>4 DEF BytesOf
<1>6. IsDigitsOf(outi, q, n, x)
  BY <1>1, <1>2, DigitsAre
<1>7. ASSUME NEW i \in 1 .. size
      PROVE  bin[i] = (x \div RadixPower(r, size - i)) % r
  <2>1. PICK place, a, b, j : place = size - i /\ a = place \div l /\ b = place % l /\ j = n - a
    OBVIOUS
  <2>2. place \in Nat /\ place \in Int /\ place < size
    BY <2>1
  <2>3. a \in Nat /\ b \in 0 .. (l - 1) /\ place = l * a + b
    <3>1. /\ place \div l \in Int /\ place % l \in 0 .. (l - 1)
          /\ place = l * (place \div l) + (place % l) /\ place \div l \in Nat
      BY <1>2, <2>2, Split
    <3> QED
      BY <2>1, <3>1
  <2>4. a < n
    <3>1. SUFFICES ASSUME a >= n  PROVE FALSE
      BY <2>3
    <3>2. l * a >= l * n /\ l * a \in Nat /\ l * n \in Nat
      BY <1>2, <2>3, <3>1
    <3> QED
      BY <1>1, <1>2, <2>2, <2>3, <3>2
  <2>5. j \in 1 .. n /\ n - j = a
    BY <2>1, <2>3, <2>4
  <2>6. bin[i] = (outi[j] \div RadixPower(r, b)) % r
    BY <1>5, <2>1
  <2>7. PICK s, p, w, y : /\ s = RadixPower(q, a) /\ p = RadixPower(r, b) /\ y = x \div s
                          /\ w = RadixPower(r, l - (b + 1))
    OBVIOUS
  <2>8. outi[j] = y % q
    BY <1>6, <2>5, <2>7 DEF IsDigitsOf
  <2>9. s \in Nat \ {0} /\ p \in Nat \ {0} /\ w \in Nat \ {0}
    <3>1. b \in Nat /\ l - (b + 1) \in Nat
      BY <1>2, <2>3
    <3> QED
      BY <1>2, <2>3, <2>7, <3>1, RadixPowerPositive
  <2>10. y \in Nat
    <3>1. x \in Int
      BY <1>3
    <3> QED
      BY <1>3, <2>7, <2>9, <3>1, Split
  <2>11. q = (p * r) * w
    <3>1. PICK g, h : g = b + 1 /\ h = l - g
      OBVIOUS
    <3>2. g \in Nat /\ h \in Nat /\ g + h = l /\ b \in Nat /\ r \in Nat
      <4>1. b \in Nat /\ r \in Nat /\ l \in Nat /\ b < l
        BY <1>2, <2>3
      <4>2. g \in Nat /\ g <= l
        BY <3>1, <4>1
      <4>3. h \in Nat /\ g + h = l
        BY <3>1, <4>1, <4>2
      <4> QED
        BY <4>1, <4>2, <4>3
    <3>3. RadixPower(r, g + h) = RadixPower(r, g) * RadixPower(r, h)
      BY <3>2, RadixPowerPlus
    <3>4. RadixPower(r, g) = r * p
      BY <2>7, <3>1, <3>2, PowersOfRadix
    <3>5. r * p = p * r
      BY <1>2, <2>9
    <3> QED
      BY <1>2, <2>7, <3>1, <3>2, <3>3, <3>4, <3>5
  <2>12. ((y % q) \div p) % r = (y \div p) % r
    BY <1>2, <2>9, <2>10, <2>11, DigitWithin
  <2>13. y \div p = x \div (s * p)
    BY <1>3, <2>7, <2>9, DividedTwice
  <2>14. RadixPower(r, place) = s * p
    <3>1. PICK k : k = l * a
      OBVIOUS
    <3>2. k \in Nat /\ b \in Nat /\ place = k + b /\ r \in Nat /\ l \in Nat
      BY <1>2, <2>3, <3>1
    <3>3. RadixPower(r, k + b) = RadixPower(r, k) * RadixPower(r, b)
      BY <3>2, RadixPowerPlus
    <3>4. RadixPower(RadixPower(r, l), a) = RadixPower(r, l * a)
      BY <2>3, <3>2, RadixPowerTimes
    <3> QED
      BY <1>2, <2>7, <3>1, <3>2, <3>3, <3>4
  <2> QED
    BY <2>1, <2>6, <2>7, <2>8, <2>12, <2>13, <2>14
<1>8. IsDigitsOf(bin, r, size, x)
  BY <1>7 DEF IsDigitsOf
<1>9. AreDigits(bin, r, size) /\ Number(r, bin, size) = x
  <2>1. x < RadixPower(r, size) /\ size \in Nat
    BY <1>1
  <2> QED
    BY <1>2, <1>3, <1>8, <2>1, NumberOfDigits
<1>10. bin = [i \in 1 .. size |-> bin[i]] /\ size \in Nat
  BY <1>5
<1>11. Sequence(bin) /\ Len(bin) = size
  BY <1>10, SequenceOfFunction
<1> QED
  BY <1>1, <1>9, <1>11 DEF IsBytes

-----------------------------------------------------------------------------
(* All the digits into the limbs.                                          *)

IsDigitPushes(u, a, s, z, left, m) ==
  u = [k \in 0 .. m |-> IF k = 0 THEN a ELSE PushDigit(u[k - 1], s[z + k], left)]

LEMMA DigitPushesExist ==
  ASSUME NEW a, NEW s, NEW z, NEW left
  PROVE  \A m \in Nat : \E u : IsDigitPushes(u, a, s, z, left, m)
<1> DEFINE S == {m \in Nat : \E u : IsDigitPushes(u, a, s, z, left, m)}
<1>1. 0 \in S
  <2>1. PICK u : u = [k \in 0 .. 0 |-> a]
    OBVIOUS
  <2>2. u = [k \in 0 .. 0 |-> IF k = 0 THEN a ELSE PushDigit(u[k - 1], s[z + k], left)]
    BY <2>1
  <2>3. IsDigitPushes(u, a, s, z, left, 0)
    BY <2>2 DEF IsDigitPushes
  <2> QED
    BY <2>3
<1>2. ASSUME NEW n \in Nat, n \in S  PROVE n + 1 \in S
  <2>1. PICK u : IsDigitPushes(u, a, s, z, left, n)
    BY <1>2
  <2>2. PICK y, m : y = PushDigit(u[n], s[z + m], left) /\ m = n + 1
    OBVIOUS
  <2>3. PICK v : v = [k \in 0 .. m |-> IF k = m THEN y ELSE u[k]]
    OBVIOUS
  <2>4. ASSUME NEW k \in 0 .. m
        PROVE  v[k] = IF k = 0 THEN a ELSE PushDigit(v[k - 1], s[z + k], left)
    <3>1. \A i \in 0 .. n : u[i] = IF i = 0 THEN a ELSE PushDigit(u[i - 1], s[z + i], left)
      BY <2>1 DEF IsDigitPushes
    <3>2. \A i \in 0 .. n : v[i] = u[i]
      BY <2>2, <2>3
    <3>3. CASE k = m
      <4>1. v[k] = y /\ k # 0 /\ k - 1 = n /\ n \in 0 .. n
        BY <2>2, <2>3, <3>3
      <4>2. v[k - 1] = u[n]
        BY <3>2, <4>1
      <4> QED
        BY <2>2, <3>3, <4>1, <4>2
    <3>4. CASE k # m /\ k # 0
      <4>1. k \in 0 .. n /\ k - 1 \in 0 .. n
        BY <2>2, <3>4
      <4>2. v[k] = u[k] /\ v[k - 1] = u[k - 1]
        BY <3>2, <4>1
      <4> QED
        BY <3>1, <3>4, <4>1, <4>2
    <3>5. CASE k # m /\ k = 0
      <4>1. k \in 0 .. n
        BY <3>5
      <4> QED
        BY <3>1, <3>2, <3>5, <4>1
    <3> QED
      BY <3>3, <3>4, <3>5
  <2>5. v = [k \in 0 .. m |-> IF k = 0 THEN a ELSE PushDigit(v[k - 1], s[z + k], left)]
    BY <2>3, <2>4
  <2>6. IsDigitPushes(v, a, s, z, left, m) /\ m \in Nat
    BY <2>2, <2>5 DEF IsDigitPushes
  <2> QED
    BY <2>2, <2>6
<1> HIDE DEF S
<1>3. \A m \in Nat : m \in S
  BY <1>1, <1>2, Induction
<1> QED
  BY <1>3 DEF S

\* Zeros in front do not count: the number of s is that of t, its part after a.
AreZeros(s, a) == \A k \in 1 .. a : s[k] = 0
IsRest(t, s, a, n) == \A k \in 1 .. n : t[k] = s[a + k]

LEMMA WithoutZeros ==
  ASSUME NEW r \in Int, NEW a \in Nat, NEW n \in Nat, NEW l, l = a + n,
         NEW s, AreInts(s, l), AreZeros(s, a), NEW t, AreInts(t, n), IsRest(t, s, a, n)
  PROVE  Number(r, s, l) = Number(r, t, n)
<1>1. PICK o : o = 0
  OBVIOUS
<1>2. o \in Nat /\ n = o + n /\ l \in Nat /\ a \in 0 .. l
  BY <1>1
<1>3. Number(r, s, a) = 0
  BY <1>2, ZerosAreNothing DEF AreZeros
<1>4. Number(r, t, o) = 0
  BY <1>1, NumberStep
<1>5. SameDigits(s, a, t, o, n)
  <2>1. ASSUME NEW k \in 1 .. n  PROVE s[a + k] = t[o + k]
    <3>1. o + k = k
      BY <1>1
    <3> QED
      BY <3>1 DEF IsRest
  <2> QED
    BY <2>1 DEF SameDigits
<1> QED
  BY <1>2, <1>3, <1>4, <1>5, SameTail

\* What b58tobin gives for the text b58 of digits and a buffer of size bytes.
IsBinary(r, b58, size) ==
  /\ r.ok <=> Number(DigitRadix, b58, Len(b58)) < RadixPower(ByteRadix, size)
  /\ r.ok => /\ IsBytes(r.bin, size, Number(DigitRadix, b58, Len(b58)))
             /\ r.size = SizeOf(r.bin, LeadingZeros(b58))

LEMMA BinaryOfText ==
  ASSUME NEW b58, Sequence(b58), AreDigits(b58, DigitRadix, Len(b58)), NEW size \in Nat \ {0}
  PROVE  IsBinary(B58tobin(b58, size), b58, size)
<1> DEFINE bytesleft == size % LimbBytes
           outisz == (size + LimbBytes - 1) \div LimbBytes
           zerocount == LeadingZeros(b58)
           Table(u) == u = [k \in 0 .. (Len(b58) - zerocount) |->
              IF k = 0 THEN [outi |-> [j \in 1 .. outisz |-> 0], ok |-> TRUE]
              ELSE PushDigit(u[k - 1], b58[zerocount + k], bytesleft)]
<1>1. PICK z, m, n, left, a : /\ z = LeadingZeros(b58) /\ m = Len(b58) - z
                              /\ n = (size + LimbBytes - 1) \div LimbBytes
                              /\ left = size % LimbBytes
                              /\ a = [outi |-> [j \in 1 .. n |-> 0], ok |-> TRUE]
  OBVIOUS
<1>2. Len(b58) \in Nat
  BY SequenceShape
<1>3. IsLeading(b58, z)
  BY <1>1, <1>2, LeadingIs
<1>4. z \in Nat /\ m \in Nat /\ z + m = Len(b58) /\ \A k \in 1 .. z : b58[k] = 0
  BY <1>1, <1>2, <1>3 DEF IsLeading
<1>5. IsFit(n, left, size) /\ size <= LimbBytes * n
  BY <1>1, LimbsFit
<1>6. n \in Nat \ {0} /\ n \in Nat /\ size \in Nat
  BY <1>5 DEF IsFit
<1>7. \A u : IsDigitPushes(u, a, b58, z, left, m) <=> Table(u)
  BY <1>1 DEF IsDigitPushes
<1>8. PICK v : v = CHOOSE u : Table(u)
  OBVIOUS
<1>9. PICK c, bin : c = v[m] /\ bin = BytesOf(c.outi, size)
  OBVIOUS
<1>10. NoDigit \notin {b58[k] : k \in DOMAIN b58}
  <2>1. DOMAIN b58 = 1 .. Len(b58)
    BY SequenceShape
  <2>2. \A k \in 1 .. Len(b58) : b58[k] \in 0 .. 57
    BY DEF AreDigits, DigitRadix
  <2>3. \A k \in DOMAIN b58 : b58[k] # -1
    <3>1. \A d \in 0 .. 57 : d # -1
      OBVIOUS
    <3> QED
      BY <2>1, <2>2, <3>1
  <2>4. PICK o : o = -1
    OBVIOUS
  <2>5. o \notin {b58[k] : k \in DOMAIN b58}
    BY <2>3, <2>4
  <2> QED
    BY <2>4, <2>5 DEF NoDigit
<1>11. B58tobin(b58, size) =
          IF ~c.ok THEN [ok |-> FALSE, size |-> 0, bin |-> << >>]
          ELSE [ok |-> TRUE, size |-> SizeOf(bin, z), bin |-> bin]
  <2>1. B58tobin(b58, size) =
          IF NoDigit \in {b58[k] : k \in DOMAIN b58} \/ ~v[Len(b58) - zerocount].ok
          THEN [ok |-> FALSE, size |-> 0, bin |-> << >>]
          ELSE [ok |-> TRUE, size |-> SizeOf(BytesOf(v[Len(b58) - zerocount].outi, size), zerocount),
                bin |-> BytesOf(v[Len(b58) - zerocount].outi, size)]
    BY <1>8 DEF B58tobin
  <2>2. z = zerocount /\ c = v[Len(b58) - zerocount] /\ bin = BytesOf(v[Len(b58) - zerocount].outi, size)
    BY <1>1, <1>9
  <2> HIDE DEF zerocount, outisz, bytesleft, Table
  <2> QED
    BY <1>10, <2>1, <2>2
<1> HIDE DEF bytesleft, outisz, zerocount, Table
<1>12. IsDigitPushes(v, a, b58, z, left, m)
  <2>1. \E u : Table(u)
    BY <1>4, <1>7, DigitPushesExist
  <2>2. Table(v)
    BY <1>8, <2>1
  <2> QED
    BY <1>7, <2>2
<1>13. \A k \in 0 .. m : v[k] = IF k = 0 THEN a ELSE PushDigit(v[k - 1], b58[z + k], left)
  BY <1>12 DEF IsDigitPushes
<1>14. PICK t : t = [k \in 1 .. m |-> b58[z + k]]
  OBVIOUS
<1>15. AreDigits(t, DigitRadix, m)
  <2>1. ASSUME NEW k \in 1 .. m  PROVE t[k] \in 0 .. (DigitRadix - 1)
    <3>1. z + k \in 1 .. Len(b58)
      BY <1>4
    <3> QED
      BY <1>14, <3>1 DEF AreDigits
  <2> QED
    BY <2>1 DEF AreDigits
<1>16. DigitRadix \in Int /\ DigitRadix \in Nat
  BY DEF DigitRadix
<1>17. AreInts(t, m)
  BY <1>15, <1>16, DigitsAreInts
<1> DEFINE S == {k \in Nat : k <= m => IsDecoded(v[k], n, t, k, size)}
<1>18. 0 \in S
  <2>1. v[0] = a
    BY <1>4, <1>13
  <2>2. a.outi = [j \in 1 .. n |-> 0] /\ a.ok = TRUE
    BY <1>1
  <2>3. AreDigits(a.outi, LimbRadix, n)
    BY <2>2, LimbRadixIs DEF AreDigits
  <2>4. AreInts(a.outi, n) /\ LimbRadix \in Int
    BY <2>3, LimbRadixIs, DigitsAreInts
  <2>5. Number(LimbRadix, a.outi, n) = 0
    <3>1. n \in 0 .. n /\ \A k \in 1 .. n : a.outi[k] = 0
      BY <1>6, <2>2
    <3> QED
      BY <1>6, <2>4, <3>1, ZerosAreNothing
  <2>6. Number(DigitRadix, t, 0) = 0
    BY <1>4, <1>16, <1>17, NumberStep
  <2>7. RadixPower(ByteRadix, size) \in Nat \ {0}
    BY <1>6, LimbRadixIs, RadixPowerPositive
  <2>8. a.outi = [i \in 1 .. n |-> a.outi[i]]
    BY <2>2
  <2>9. a.ok /\ Number(DigitRadix, t, 0) < RadixPower(ByteRadix, size)
    BY <2>2, <2>6, <2>7
  <2>10. IsDecoded(a, n, t, 0, size)
    BY <2>3, <2>5, <2>6, <2>8, <2>9 DEF IsDecoded
  <2> QED
    BY <2>1, <2>10
<1>19. ASSUME NEW k \in Nat, k \in S  PROVE k + 1 \in S
  <2>1. SUFFICES ASSUME k + 1 <= m  PROVE IsDecoded(v[k + 1], n, t, k + 1, size)
    OBVIOUS
  <2>2. PICK i : i = k + 1
    OBVIOUS
  <2>3. k \in 0 .. (m - 1) /\ i \in 0 .. m /\ i \in 1 .. m /\ i # 0 /\ i - 1 = k /\ k <= m
    BY <1>4, <2>1, <2>2
  <2>4. IsDecoded(v[k], n, t, k, size)
    BY <1>19, <2>3
  <2>5. v[i] = PushDigit(v[k], t[i], left)
    <3>1. v[i] = PushDigit(v[i - 1], b58[z + i], left)
      BY <1>13, <2>3
    <3> QED
      BY <1>14, <2>3, <3>1
  <2>6. IsDecoded(PushDigit(v[k], t[k + 1], left), n, t, k + 1, size)
    BY <1>4, <1>5, <1>15, <2>3, <2>4, DecodedStep
  <2> QED
    BY <2>2, <2>5, <2>6
<1> HIDE DEF S
<1>20. m \in S
  BY <1>4, <1>18, <1>19, Induction
<1>21. IsDecoded(c, n, t, m, size)
  BY <1>4, <1>9, <1>20 DEF S
<1>22. PICK x : x = Number(DigitRadix, b58, Len(b58))
  OBVIOUS
<1>23. x = Number(DigitRadix, t, m)
  <2>1. PICK l : l = Len(b58)
    OBVIOUS
  <2>2. l \in Nat /\ l = z + m /\ AreInts(b58, l)
    BY <1>2, <1>4, <1>16, <2>1, DigitsAreInts
  <2>3. AreZeros(b58, z) /\ IsRest(t, b58, z, m)
    BY <1>4, <1>14 DEF AreZeros, IsRest
  <2>4. Number(DigitRadix, b58, l) = Number(DigitRadix, t, m)
    BY <1>4, <1>16, <1>17, <2>2, <2>3, WithoutZeros
  <2> QED
    BY <1>22, <2>1, <2>4
<1>24. /\ c.outi = [i \in 1 .. n |-> c.outi[i]] /\ AreDigits(c.outi, LimbRadix, n)
       /\ c.ok <=> x < RadixPower(ByteRadix, size)
       /\ c.ok => Number(LimbRadix, c.outi, n) = x
  BY <1>21, <1>23 DEF IsDecoded
<1>25. PICK r : r = B58tobin(b58, size)
  OBVIOUS
<1>26. CASE c.ok
  <2>1. r.ok = TRUE /\ r.bin = bin /\ r.size = SizeOf(bin, z)
    BY <1>11, <1>25, <1>26
  <2>2. IsBytes(bin, size, x)
    BY <1>5, <1>6, <1>9, <1>24, <1>26, BytesOfLimbs
  <2> QED
    BY <1>1, <1>22, <1>24, <1>25, <1>26, <2>1, <2>2 DEF IsBinary
<1>27. CASE ~c.ok
  <2>1. r.ok = FALSE
    BY <1>11, <1>25, <1>27
  <2> QED
    BY <1>22, <1>24, <1>25, <1>27, <2>1 DEF IsBinary
<1> QED
  BY <1>26, <1>27

-----------------------------------------------------------------------------
(* What base58_decode_check accepts.                                       *)

\* The bytes that are compared: the last ones of the buffer.
LastBytes(r) == SubSeq(r.bin, Len(r.bin) - r.size + 1, Len(r.bin))

LEMMA BinaryNumeral ==
  ASSUME NEW bin, NEW size \in Nat, NEW x, IsBytes(bin, size, x), NEW y, y = LeadingZeros(bin)
  PROVE  IsNumeral(bin, ByteRadix, y, size - y, x)
<1>1. /\ Sequence(bin) /\ Len(bin) = size
      /\ AreDigits(bin, ByteRadix, size) /\ Number(ByteRadix, bin, size) = x
  BY DEF IsBytes
<1>2. IsLeading(bin, y)
  BY <1>1, LeadingIs
<1> QED
  BY <1>1, <1>2 DEF IsNumeral

LEMMA LastBytesAre ==
  ASSUME NEW b58, NEW size \in Nat, NEW r, IsBinary(r, b58, size), r.ok, r.size <= size,
         NEW x, x = Number(DigitRadix, b58, Len(b58)), NEW z, z = LeadingZeros(b58), z \in Nat,
         NEW nd, nd = LastBytes(r)
  PROVE  IsNumeral(nd, ByteRadix, z, r.size - z, x) /\ Len(nd) = r.size /\ r.size \in Nat
<1>1. PICK bin, y : bin = r.bin /\ y = LeadingZeros(bin)
  OBVIOUS
<1>2. IsBytes(bin, size, x) /\ r.size = SizeOf(bin, z)
  BY <1>1 DEF IsBinary
<1>3. /\ Sequence(bin) /\ Len(bin) = size
      /\ AreDigits(bin, ByteRadix, size) /\ Number(ByteRadix, bin, size) = x
  BY <1>2 DEF IsBytes
<1>4. IsLeading(bin, y)
  BY <1>1, <1>3, LeadingIs
<1>5. /\ y \in 0 .. size /\ \A k \in 1 .. y : bin[k] = 0
      /\ y < size => bin[y + 1] # 0
  BY <1>3, <1>4 DEF IsLeading
<1>6. PICK n, a, i : n = r.size /\ a = size - n /\ i = a + 1
  OBVIOUS
<1>7. n = size - y + z
  BY <1>1, <1>2, <1>3, <1>6 DEF SizeOf
<1>8. n \in Nat /\ a \in Nat /\ size = a + n /\ y = a + z /\ i \in Nat \ {0} /\ z <= n
      /\ (z < n <=> y < size)
  <2>1. n <= size
    BY <1>6
  <2>2. y \in Nat /\ y <= size
    BY <1>5
  <2>3. n \in Nat /\ z <= n /\ (z < n <=> y < size)
    BY <1>7, <2>2
  <2>4. a \in Nat /\ size = a + n /\ i \in Nat \ {0}
    BY <1>6, <2>1, <2>3, SMTT(30)
  <2>5. y = a + z
    BY <1>6, <1>7, <2>2, <2>3, SMTT(30)
  <2> QED
    BY <2>3, <2>4, <2>5
<1>9. IsPart(nd, bin, i, size)
  <2>1. nd = SubSeq(bin, i, size)
    <3>1. nd = SubSeq(bin, Len(bin) - n + 1, Len(bin))
      BY <1>1, <1>6 DEF LastBytes
    <3> QED
      BY <1>3, <1>6, <3>1
  <2>2. size <= Len(bin)
    BY <1>3
  <2> QED
    BY <1>3, <1>8, <2>1, <2>2, PartOf
<1>10. /\ Sequence(nd) /\ Len(nd) = IF i <= size THEN size - i + 1 ELSE 0
       /\ \A k \in 1 .. Len(nd) : nd[k] = bin[i + k - 1]
  BY <1>9 DEF IsPart
<1>11. Len(nd) = n
  <2>1. i = a + 1
    BY <1>6
  <2>2. CASE n = 0
    <3>1. ~(i <= size)
      BY <1>8, <2>1, <2>2
    <3> QED
      BY <1>10, <2>2, <3>1
  <2>3. CASE n > 0
    <3>1. i <= size /\ size - i + 1 = n
      BY <1>8, <2>1, <2>3
    <3> QED
      BY <1>10, <3>1
  <2> QED
    BY <1>8, <2>2, <2>3
<1>12. \A k \in 1 .. n : nd[k] = bin[a + k]
  <2>1. ASSUME NEW k \in 1 .. n  PROVE nd[k] = bin[a + k]
    <3>1. i + k - 1 = a + k
      BY <1>6, <1>8
    <3> QED
      BY <1>10, <1>11, <3>1
  <2> QED
    BY <2>1
<1>13. AreDigits(nd, ByteRadix, n)
  <2>1. ASSUME NEW k \in 1 .. n  PROVE nd[k] \in 0 .. (ByteRadix - 1)
    <3>1. a + k \in 1 .. size
      BY <1>8
    <3> QED
      BY <1>3, <1>12, <3>1 DEF AreDigits
  <2> QED
    BY <2>1 DEF AreDigits
<1>14. Number(ByteRadix, nd, n) = x
  <2>1. ByteRadix \in Int /\ ByteRadix \in Nat
    BY DEF ByteRadix
  <2>2. AreInts(nd, n) /\ AreInts(bin, size)
    BY <1>3, <1>13, <2>1, DigitsAreInts
  <2>3. AreZeros(bin, a) /\ IsRest(nd, bin, a, n)
    <3>1. \A k \in 1 .. a : k \in 1 .. y
      BY <1>8
    <3> QED
      BY <1>5, <1>12, <3>1 DEF AreZeros, IsRest
  <2>4. Number(ByteRadix, bin, size) = Number(ByteRadix, nd, n)
    BY <1>8, <2>1, <2>2, <2>3, WithoutZeros
  <2> QED
    BY <1>3, <2>4
<1>15. IsLeading(nd, z)
  <2>1. ASSUME NEW k \in 1 .. z  PROVE nd[k] = 0
    <3>1. k \in 1 .. n /\ a + k \in 1 .. y
      BY <1>8
    <3> QED
      BY <1>5, <1>12, <3>1
  <2>2. ASSUME z < n  PROVE nd[z + 1] # 0
    <3>1. PICK k : k = z + 1
      OBVIOUS
    <3>2. k \in 1 .. n /\ a + k = y + 1 /\ y < size
      BY <1>8, <2>2, <3>1
    <3> QED
      BY <1>5, <1>12, <3>1, <3>2
  <2>3. z \in 0 .. n
    BY <1>8
  <2> QED
    BY <1>11, <2>1, <2>2, <2>3 DEF IsLeading
<1> QED
  BY <1>6, <1>8, <1>10, <1>11, <1>13, <1>14, <1>15 DEF IsNumeral

LEMMA DecodeCheckIs ==
  ASSUME NEW b58, NEW datalen \in Nat, NEW size, size = datalen + 1,
         NEW r, r = B58tobin(b58, size), NEW nd, nd = LastBytes(r)
  PROVE  DecodeCheck(b58, datalen) =
            IF r.ok /\ B58check(nd, b58) THEN Taken(SubSeq(nd, 1, r.size - 1)) ELSE Refused
  BY DEF DecodeCheck, LastBytes

LEMMA NoDigitRefused ==
  ASSUME NEW b58 \in Strings(TextDigits, MaxText), ~AreDigits(b58, DigitRadix, Len(b58)),
         NEW size
  PROVE  ~B58tobin(b58, size).ok
<1>1. Sequence(b58) /\ \A k \in 1 .. Len(b58) : b58[k] \in TextDigits
  BY StringIs, Base58Assumption
<1>2. PICK k \in 1 .. Len(b58) : b58[k] \notin 0 .. (DigitRadix - 1)
  BY DEF AreDigits
<1>3. b58[k] = NoDigit
  BY <1>1, <1>2, Base58Assumption
<1>4. k \in DOMAIN b58
  BY <1>1, SequenceShape
<1>5. NoDigit \in {b58[j] : j \in DOMAIN b58}
  BY <1>3, <1>4, Zenon
<1>6. B58tobin(b58, size) = [ok |-> FALSE, size |-> 0, bin |-> << >>]
  BY <1>5 DEF B58tobin
<1> QED
  BY <1>6

\* Only the text that the encoder would write is accepted.
LEMMA DecodedIsCanonical ==
  ASSUME NEW b58 \in Strings(TextDigits, MaxText), NEW datalen \in Nat,
         HasRoom(b58, datalen + 1), DecodeCheck(b58, datalen).ok
  PROVE  EncodeCheck(DecodeCheck(b58, datalen).bytes, 2 * MaxText) = b58
<1>1. PICK size, r, nd, z, x : /\ size = datalen + 1 /\ r = B58tobin(b58, size)
                               /\ nd = LastBytes(r) /\ z = LeadingZeros(b58)
                               /\ x = Number(DigitRadix, b58, Len(b58))
  OBVIOUS
<1>2. DecodeCheck(b58, datalen) =
            IF r.ok /\ B58check(nd, b58) THEN Taken(SubSeq(nd, 1, r.size - 1)) ELSE Refused
  BY <1>1, DecodeCheckIs
<1>3. r.ok /\ B58check(nd, b58)
  <2>1. Refused.ok = FALSE
    BY DEF Refused, Untried
  <2> QED
    BY <1>2, <2>1
<1>4. AreDigits(b58, DigitRadix, Len(b58))
  BY <1>1, <1>3, NoDigitRefused
<1>5. Sequence(b58) /\ Len(b58) \in 0 .. MaxText /\ MaxText \in Nat
  <2>1. MaxText \in Nat
    BY Base58Assumption
  <2> QED
    BY <2>1, StringIs
<1>6. size \in Nat \ {0} /\ size \in Nat
  BY <1>1
<1>7. IsBinary(r, b58, size)
  BY <1>1, <1>4, <1>5, <1>6, BinaryOfText
<1>8. r.size <= size
  BY <1>1, <1>3 DEF HasRoom
<1>9. IsLeading(b58, z) /\ z \in Nat
  <2>1. IsLeading(b58, z)
    BY <1>1, <1>5, LeadingIs
  <2> QED
    BY <2>1 DEF IsLeading
<1>10. IsNumeral(nd, ByteRadix, z, r.size - z, x) /\ Len(nd) = r.size /\ r.size \in Nat
  BY <1>1, <1>3, <1>6, <1>7, <1>8, <1>9, LastBytesAre
<1>11. /\ Sequence(nd) /\ AreDigits(nd, ByteRadix, Len(nd)) /\ IsLeading(nd, z)
       /\ x = Number(ByteRadix, nd, Len(nd))
  BY <1>10 DEF IsNumeral
<1>12. PICK n, bytes, h : n = Len(nd) - 1 /\ bytes = SubSeq(nd, 1, n) /\ h = HashByte(bytes)
  OBVIOUS
<1>13. n \in Nat /\ nd[Len(nd)] = h /\ r.size - 1 = n /\ n + 1 = Len(nd) /\ n <= Len(nd)
  BY <1>3, <1>10, <1>12 DEF B58check
<1>14. DecodeCheck(b58, datalen).bytes = bytes
  BY <1>2, <1>3, <1>12, <1>13 DEF Taken
<1>15. bytes \o <<HashByte(bytes)>> = nd
  <2>1. Sequence(bytes) /\ Len(bytes) = n /\ \A k \in 1 .. n : bytes[k] = nd[k]
    BY <1>11, <1>12, <1>13, PrefixOf, ZenonT(60)
  <2>2. PICK t, c : t = <<h>> /\ c = bytes \o t
    OBVIOUS
  <2>3. Sequence(t) /\ Len(t) = 1 /\ t[1] = h
    BY <2>2, ShortSequences
  <2>4. IsJoin(c, bytes, t)
    BY <2>1, <2>2, <2>3, Joined
  <2>5. /\ Sequence(c) /\ Len(c) = n + 1
        /\ \A k \in 1 .. (n + 1) : c[k] = IF k <= n THEN bytes[k] ELSE t[k - n]
    BY <2>1, <2>3, <2>4 DEF IsJoin
  <2>6. ASSUME NEW k \in 1 .. Len(c)  PROVE c[k] = nd[k]
    <3>1. CASE k <= n
      BY <1>13, <2>1, <2>5, <3>1
    <3>2. CASE k = n + 1
      <4>1. c[k] = t[k - n] /\ k - n = 1 /\ k = Len(nd)
        BY <1>13, <2>5, <3>2
      <4> QED
        BY <1>13, <2>3, <4>1
    <3> QED
      BY <1>13, <2>5, <3>1, <3>2
  <2>7. c = nd
    BY <1>11, <1>13, <2>5, <2>6, SameCells
  <2> QED
    BY <1>12, <2>2, <2>7
<1>16. PICK txt : IsEncoder(txt, nd)
  BY <1>11, EncodedText
<1>17. /\ IsTextOf(txt, nd)
       /\ \A room \in Nat : B58enc(nd, room) = IF room <= Len(txt) THEN << >> ELSE txt
  BY <1>16 DEF IsEncoder
<1>18. LeadingZeros(nd) = z
  <2>1. Len(nd) \in Nat
    BY <1>10
  <2> QED
    BY <1>11, <2>1, LeadingIs, LeadingUnique
<1>19. IsNumeral(txt, DigitRadix, z, Len(txt) - z, x)
  <2>1. /\ Sequence(txt) /\ AreDigits(txt, DigitRadix, Len(txt))
        /\ LeadingZeros(txt) = z /\ Number(DigitRadix, txt, Len(txt)) = x
    BY <1>11, <1>17, <1>18 DEF IsTextOf
  <2>2. Len(txt) \in Nat
    BY <2>1, SequenceShape
  <2>3. IsLeading(txt, z)
    BY <2>1, <2>2, LeadingIs
  <2> QED
    BY <2>1, <2>3 DEF IsNumeral
<1>20. IsNumeral(b58, DigitRadix, z, Len(b58) - z, x)
  BY <1>1, <1>4, <1>5, <1>9 DEF IsNumeral
<1>21. txt = b58
  BY <1>19, <1>20, LimbRadixIs, SameNumeral
<1>22. 2 * MaxText \in Nat /\ ~(2 * MaxText <= Len(b58))
  <2>1. DigitsFor(MaxSource + 1) \in Nat /\ DigitsFor(MaxSource + 1) < 2 * MaxText
    <3>1. MaxSource + 1 \in Nat
      BY Base58Assumption
    <3>2. DigitsFor(MaxSource + 1) \in Nat
      BY <3>1, DigitsAreEnough
    <3> QED
      BY <3>2, Base58Assumption
  <2> QED
    BY <1>5, <2>1
<1>23. B58enc(nd, 2 * MaxText) = b58
  BY <1>17, <1>21, <1>22
<1> QED
  BY <1>14, <1>15, <1>23 DEF EncodeCheck

\* What was encoded is accepted, and read back, in every buffer that holds it.
LEMMA DecodedOwn ==
  ASSUME NEW s \in Strings(SourceBytes, MaxSource), NEW datalen \in Nat, datalen >= Len(s),
         NEW txt, txt = EncodeCheck(s, 2 * MaxText)
  PROVE  DecodeCheck(txt, datalen) = Taken(s)
<1>1. PICK bytes, h : h = HashByte(s) /\ bytes = s \o <<h>>
  OBVIOUS
<1>2. IsChecked(bytes, s)
  BY <1>1, CheckedBytes
<1>3. /\ Sequence(bytes) /\ Len(s) \in Nat /\ Len(bytes) = Len(s) + 1
      /\ AreDigits(bytes, ByteRadix, Len(bytes))
      /\ Sequence(s) /\ \A k \in 1 .. Len(s) : bytes[k] = s[k]
      /\ bytes[Len(s) + 1] = h
  BY <1>1, <1>2 DEF IsChecked
<1>4. IsTextOf(txt, bytes)
  BY <1>1, EncodedSource
<1>5. PICK size, r, nd, z, x, l : /\ size = datalen + 1 /\ r = B58tobin(txt, size)
                                  /\ nd = LastBytes(r) /\ z = LeadingZeros(txt)
                                  /\ x = Number(DigitRadix, txt, Len(txt)) /\ l = Len(bytes)
  OBVIOUS
<1>6. l \in Nat /\ size \in Nat \ {0} /\ size \in Nat /\ l <= size /\ l = Len(s) + 1
  BY <1>3, <1>5
<1>7. /\ Sequence(txt) /\ AreDigits(txt, DigitRadix, Len(txt))
      /\ LeadingZeros(bytes) = z /\ Number(ByteRadix, bytes, l) = x
  BY <1>4, <1>5 DEF IsTextOf
<1>8. IsBinary(r, txt, size)
  BY <1>5, <1>6, <1>7, BinaryOfText
<1>9. IsNumeral(bytes, ByteRadix, z, l - z, x)
  <2>1. IsLeading(bytes, z)
    BY <1>5, <1>6, <1>7, LeadingIs
  <2> QED
    BY <1>3, <1>5, <1>7, <2>1 DEF IsNumeral
<1>10. z \in Nat
  BY <1>9, LimbRadixIs, SignificantDigits
<1>11. r.ok
  <2>1. x \in 0 .. (RadixPower(ByteRadix, l) - 1)
    <3>1. l \in 0 .. l
      BY <1>6
    <3> QED
      BY <1>3, <1>5, <1>6, <1>7, <3>1, LimbRadixIs, NumberBelowPower
  <2>2. RadixPower(ByteRadix, l) <= RadixPower(ByteRadix, size)
    BY <1>6, LimbRadixIs, PowerGrows
  <2>3. RadixPower(ByteRadix, l) \in Nat /\ RadixPower(ByteRadix, size) \in Nat
    BY <1>6, LimbRadixIs, RadixPowerPositive
  <2>4. x < RadixPower(ByteRadix, size)
    BY <2>1, <2>2, <2>3
  <2> QED
    BY <1>5, <1>8, <2>4 DEF IsBinary
<1>12. r.size = l /\ r.size <= size
  <2>1. PICK bin, y : bin = r.bin /\ y = LeadingZeros(bin)
    OBVIOUS
  <2>2. IsBytes(bin, size, x) /\ r.size = SizeOf(bin, z)
    BY <1>5, <1>8, <1>11, <2>1 DEF IsBinary
  <2>3. IsNumeral(bin, ByteRadix, y, size - y, x)
    BY <1>6, <2>1, <2>2, BinaryNumeral
  <2>4. size - y = l - z
    BY <1>9, <2>3, LimbRadixIs, SameSignificant
  <2>5. Len(bin) = size
    BY <2>2 DEF IsBytes
  <2>6. r.size = (size - y) + z
    BY <2>1, <2>2, <2>5 DEF SizeOf
  <2>7. r.size = (l - z) + z
    BY <2>4, <2>6
  <2> QED
    BY <1>6, <1>10, <2>7
<1>13. IsNumeral(nd, ByteRadix, z, r.size - z, x)
  BY <1>5, <1>6, <1>8, <1>10, <1>11, <1>12, LastBytesAre
<1>14. nd = bytes
  BY <1>9, <1>13, LimbRadixIs, SameNumeral
<1>15. SubSeq(bytes, 1, Len(s)) = s
  <2>1. PICK c : c = SubSeq(bytes, 1, Len(s))
    OBVIOUS
  <2>2. Sequence(c) /\ Len(c) = Len(s) /\ \A k \in 1 .. Len(s) : c[k] = bytes[k]
    <3>1. Len(s) <= Len(bytes)
      BY <1>3
    <3> QED
      BY <1>3, <2>1, <3>1, PrefixOf
  <2>3. \A k \in 1 .. Len(c) : c[k] = s[k]
    BY <1>3, <2>2
  <2>4. c = s
    BY <1>3, <2>2, <2>3, SameCells
  <2> QED
    BY <2>1, <2>4
<1>16. B58check(bytes, txt)
  <2>1. Len(bytes) >= 1 /\ Len(bytes) - 1 = Len(s)
    BY <1>3
  <2>2. bytes[Len(bytes)] = HashByte(SubSeq(bytes, 1, Len(bytes) - 1))
    BY <1>1, <1>3, <1>15, <2>1
  <2> QED
    BY <1>5, <1>7, <2>1, <2>2 DEF B58check
<1>17. r.size - 1 = Len(s)
  BY <1>3, <1>6, <1>12
<1>18. DecodeCheck(txt, datalen) = Taken(SubSeq(nd, 1, r.size - 1))
  <2>1. DecodeCheck(txt, datalen) =
            IF r.ok /\ B58check(nd, txt) THEN Taken(SubSeq(nd, 1, r.size - 1)) ELSE Refused
    BY <1>5, DecodeCheckIs
  <2> QED
    BY <1>11, <1>14, <1>16, <2>1
<1> QED
  BY <1>14, <1>15, <1>17, <1>18

\* base58_decode_check accepts what was encoded, in every buffer that holds it,
\* and gives the source back; and it accepts no text but the one that the encoder
\* writes for the bytes that it gives, for every hash, text and buffer length.
THEOREM AcceptedCorrect == Base58Spec => []AcceptedIsCanonical
<1>1. Base58Init => AcceptedIsCanonical
  BY DEF Base58Init, AcceptedIsCanonical, Untried
<1>2. SourceWritten /\ AcceptedIsCanonical /\ [Base58Next]_base58Vars => AcceptedIsCanonical'
  <2> SUFFICES ASSUME SourceWritten, AcceptedIsCanonical, [Base58Next]_base58Vars
               PROVE  AcceptedIsCanonical'
    OBVIOUS
  <2>1. ASSUME NEW data \in Strings(SourceBytes, MaxSource), Encode(data)
        PROVE  AcceptedIsCanonical'
    BY <2>1 DEF Encode, AcceptedIsCanonical, Untried
  <2>2. ASSUME NEW b58 \in Strings(TextDigits, MaxText), NEW n \in 0 .. MaxSource, Decode(b58, n)
        PROVE  AcceptedIsCanonical'
    <3>1. /\ HasRoom(b58, n + 1) /\ source' = << >> /\ written' = b58
          /\ taken' = DecodeCheck(b58, n)
      BY <2>2 DEF Decode
    <3>2. n \in Nat
      OBVIOUS
    <3>3. taken'.ok => EncodeCheck(taken'.bytes, 2 * MaxText) = written'
      BY <3>1, <3>2, DecodedIsCanonical
    <3> QED
      BY <3>1, <3>3 DEF AcceptedIsCanonical
  <2>3. ASSUME NEW n \in 0 .. MaxSource, DecodeOwn(n)  PROVE AcceptedIsCanonical'
    <3>1. /\ source # << >> /\ n >= Len(source) /\ taken' = DecodeCheck(written, n)
          /\ source' = source /\ written' = written
      BY <2>3 DEF DecodeOwn
    <3>2. /\ source \in Strings(SourceBytes, MaxSource)
          /\ written = EncodeCheck(source, 2 * MaxText)
      BY <3>1 DEF SourceWritten
    <3>3. n \in Nat
      OBVIOUS
    <3>4. taken' = Taken(source)
      BY <3>1, <3>2, <3>3, DecodedOwn
    <3>5. taken'.bytes = source
      BY <3>4 DEF Taken
    <3> QED
      BY <3>1, <3>2, <3>4, <3>5 DEF AcceptedIsCanonical
  <2>4. CASE UNCHANGED base58Vars
    BY <2>4 DEF AcceptedIsCanonical, base58Vars
  <2> QED
    BY <2>1, <2>2, <2>3, <2>4 DEF Base58Next
<1> QED
  BY <1>1, <1>2, SourceWrittenHolds, PTL DEF Base58Spec

-----------------------------------------------------------------------------
(* The steps of a call, given what stands before and after each of them.   *)

LEMMA RunBytesIs ==
  ASSUME NEW m, NEW e, NEW c, NEW d, NEW f, NEW n \in Nat, NEW s, s[0] = c,
         \A k \in 1 .. n : s[k] = ByteStep(m, e, s[k - 1], d[f + k])
  PROVE  RunBytes(m, e, c, d, f, n) = s[n]
<1> DEFINE P(u) == u = [k \in 0 .. n |-> IF k = 0 THEN c
                                         ELSE ByteStep(m, e, u[k - 1], d[f + k])]
           S == {k \in Nat : k <= n => (CHOOSE u : P(u))[k] = s[k]}
<1>1. \E u : P(u)
  <2>1. PICK v : v = [k \in 0 .. n |-> s[k]]
    OBVIOUS
  <2>2. ASSUME NEW k \in 0 .. n
        PROVE  v[k] = IF k = 0 THEN c ELSE ByteStep(m, e, v[k - 1], d[f + k])
    <3>1. CASE k = 0
      BY <2>1, <3>1
    <3>2. CASE k # 0
      <4>1. k \in 1 .. n /\ k - 1 \in 0 .. n
        BY <3>2
      <4>2. v[k] = s[k] /\ v[k - 1] = s[k - 1]
        BY <2>1, <4>1
      <4> QED
        BY <3>2, <4>1, <4>2
    <3> QED
      BY <3>1, <3>2
  <2>3. v = [k \in 0 .. n |-> IF k = 0 THEN c ELSE ByteStep(m, e, v[k - 1], d[f + k])]
    BY <2>1, <2>2
  <2> QED
    BY <2>3
<1>2. RunBytes(m, e, c, d, f, n) = (CHOOSE u : P(u))[n]
  BY DEF RunBytes
<1> HIDE DEF P
<1>3. P(CHOOSE u : P(u))
  BY <1>1
<1>4. PICK w : w = CHOOSE u : P(u)
  OBVIOUS
<1>5. \A k \in 0 .. n : w[k] = IF k = 0 THEN c ELSE ByteStep(m, e, w[k - 1], d[f + k])
  BY <1>3, <1>4 DEF P
<1>6. 0 \in S
  <2>1. 0 \in 0 .. n
    OBVIOUS
  <2> QED
    BY <1>4, <1>5, <2>1
<1>7. ASSUME NEW k \in Nat, k \in S  PROVE k + 1 \in S
  <2>1. SUFFICES ASSUME k + 1 <= n  PROVE w[k + 1] = s[k + 1]
    BY <1>4
  <2>2. PICK i : i = k + 1
    OBVIOUS
  <2>3. i \in 0 .. n /\ i \in 1 .. n /\ i # 0 /\ i - 1 = k /\ k <= n
    BY <2>1, <2>2
  <2>4. w[k] = s[k]
    BY <1>4, <1>7, <2>3
  <2>5. w[i] = ByteStep(m, e, w[k], d[f + i]) /\ s[i] = ByteStep(m, e, s[k], d[f + i])
    BY <1>5, <2>3
  <2> QED
    BY <2>2, <2>4, <2>5
<1> HIDE DEF S
<1>8. n \in S
  BY <1>6, <1>7, Induction
<1> QED
  BY <1>2, <1>8 DEF S

LEMMA RunBlocksIs ==
  ASSUME NEW m, NEW e, NEW c, NEW d, NEW f, NEW n \in Nat, NEW s, s[0] = c,
         \A k \in 1 .. n : s[k] = BlockStep(m, e, s[k - 1], BlockOf(d, f, k))
  PROVE  RunBlocks(m, e, c, d, f, n) = s[n]
<1> DEFINE P(u) == u = [k \in 0 .. n |-> IF k = 0 THEN c
                                         ELSE BlockStep(m, e, u[k - 1], BlockOf(d, f, k))]
           S == {k \in Nat : k <= n => (CHOOSE u : P(u))[k] = s[k]}
<1>1. \E u : P(u)
  <2>1. PICK v : v = [k \in 0 .. n |-> s[k]]
    OBVIOUS
  <2>2. ASSUME NEW k \in 0 .. n
        PROVE  v[k] = IF k = 0 THEN c ELSE BlockStep(m, e, v[k - 1], BlockOf(d, f, k))
    <3>1. CASE k = 0
      BY <2>1, <3>1
    <3>2. CASE k # 0
      <4>1. k \in 1 .. n /\ k - 1 \in 0 .. n
        BY <3>2
      <4>2. v[k] = s[k] /\ v[k - 1] = s[k - 1]
        BY <2>1, <4>1
      <4> QED
        BY <3>2, <4>1, <4>2
    <3> QED
      BY <3>1, <3>2
  <2>3. v = [k \in 0 .. n |-> IF k = 0 THEN c ELSE BlockStep(m, e, v[k - 1], BlockOf(d, f, k))]
    BY <2>1, <2>2
  <2> QED
    BY <2>3
<1>2. RunBlocks(m, e, c, d, f, n) = (CHOOSE u : P(u))[n]
  BY DEF RunBlocks
<1> HIDE DEF P
<1>3. P(CHOOSE u : P(u))
  BY <1>1
<1>4. PICK w : w = CHOOSE u : P(u)
  OBVIOUS
<1>5. \A k \in 0 .. n : w[k] = IF k = 0 THEN c ELSE BlockStep(m, e, w[k - 1], BlockOf(d, f, k))
  BY <1>3, <1>4 DEF P
<1>6. 0 \in S
  <2>1. 0 \in 0 .. n
    OBVIOUS
  <2> QED
    BY <1>4, <1>5, <2>1
<1>7. ASSUME NEW k \in Nat, k \in S  PROVE k + 1 \in S
  <2>1. SUFFICES ASSUME k + 1 <= n  PROVE w[k + 1] = s[k + 1]
    BY <1>4
  <2>2. PICK i : i = k + 1
    OBVIOUS
  <2>3. i \in 0 .. n /\ i \in 1 .. n /\ i # 0 /\ i - 1 = k /\ k <= n
    BY <2>1, <2>2
  <2>4. w[k] = s[k]
    BY <1>4, <1>7, <2>3
  <2>5. w[i] = BlockStep(m, e, w[k], BlockOf(d, f, i)) /\ s[i] = BlockStep(m, e, s[k], BlockOf(d, f, i))
    BY <1>5, <2>3
  <2> QED
    BY <2>2, <2>4, <2>5
<1> HIDE DEF S
<1>8. n \in S
  BY <1>6, <1>7, Induction
<1> QED
  BY <1>2, <1>8 DEF S

-----------------------------------------------------------------------------
(* What the blocks of a mode hand to each other.                           *)

IsFed(u, m, t, n) ==
  u = [b \in 0 .. n |-> IF b = 0 THEN t ELSE Feedback(m, u[b - 1], PlainBlock(b))]

LEMMA FedExists ==
  ASSUME NEW m, NEW t
  PROVE  \A n \in Nat : \E u : IsFed(u, m, t, n)
<1> DEFINE S == {n \in Nat : \E u : IsFed(u, m, t, n)}
<1>1. 0 \in S
  <2>1. PICK u : u = [k \in 0 .. 0 |-> t]
    OBVIOUS
  <2>2. u = [b \in 0 .. 0 |-> IF b = 0 THEN t ELSE Feedback(m, u[b - 1], PlainBlock(b))]
    BY <2>1
  <2> QED
    BY <2>2 DEF IsFed
<1>2. ASSUME NEW n \in Nat, n \in S  PROVE n + 1 \in S
  <2>1. PICK u : IsFed(u, m, t, n)
    BY <1>2
  <2>2. PICK l : l = n + 1
    OBVIOUS
  <2>3. PICK x : x = Feedback(m, u[n], PlainBlock(l))
    OBVIOUS
  <2>4. PICK v : v = [b \in 0 .. l |-> IF b <= n THEN u[b] ELSE x]
    OBVIOUS
  <2>5. \A b \in 0 .. n : u[b] = IF b = 0 THEN t ELSE Feedback(m, u[b - 1], PlainBlock(b))
    BY <2>1 DEF IsFed
  <2>6. \A b \in 0 .. n : v[b] = u[b]
    BY <2>2, <2>4
  <2>7. ASSUME NEW b \in 0 .. l
        PROVE  v[b] = IF b = 0 THEN t ELSE Feedback(m, v[b - 1], PlainBlock(b))
    <3>1. CASE b = l
      <4>1. v[b] = x /\ b # 0 /\ b - 1 = n /\ n \in 0 .. n
        BY <2>2, <2>4, <3>1
      <4>2. v[n] = u[n]
        BY <2>6, <4>1
      <4> QED
        BY <2>3, <3>1, <4>1, <4>2
    <3>2. CASE b # l /\ b # 0
      <4>1. b \in 0 .. n /\ b - 1 \in 0 .. n
        BY <2>2, <3>2
      <4>2. v[b] = u[b] /\ v[b - 1] = u[b - 1]
        BY <2>6, <4>1
      <4> QED
        BY <2>5, <3>2, <4>1, <4>2
    <3>3. CASE b = 0
      BY <2>5, <2>6, <3>3
    <3> QED
      BY <3>1, <3>2, <3>3
  <2>8. v = [b \in 0 .. l |-> IF b = 0 THEN t ELSE Feedback(m, v[b - 1], PlainBlock(b))]
    BY <2>4, <2>7
  <2>9. IsFed(v, m, t, l)
    BY <2>8 DEF IsFed
  <2> QED
    BY <2>2, <2>9
<1> HIDE DEF S
<1>3. \A n \in Nat : n \in S
  BY <1>1, <1>2, Induction
<1> QED
  BY <1>3 DEF S

\* The blocks of a stream, and one that may be begun.
StreamBlocks == MaxStream \div AesBlockSize + 1

LEMMA BlocksOfStream ==
  /\ AesBlockSize \in Nat \ {0} /\ MaxStream \in Nat /\ StreamBlocks \in Nat \ {0}
  /\ \A k \in 0 .. MaxStream : k \div AesBlockSize \in Nat /\ k \div AesBlockSize + 1 <= StreamBlocks
<1>1. AesBlockSize \in Nat \ {0} /\ MaxStream \in Nat
  BY CipherAssumption
<1>2. PICK q, r : q = MaxStream \div AesBlockSize /\ r = MaxStream % AesBlockSize
  OBVIOUS
<1>3. q \in Nat /\ r \in 0 .. (AesBlockSize - 1) /\ MaxStream = AesBlockSize * q + r
  <2>1. MaxStream \in Int
    BY <1>1
  <2> QED
    BY <1>1, <1>2, <2>1, Split
<1>4. ASSUME NEW k \in 0 .. MaxStream
      PROVE  k \div AesBlockSize \in Nat /\ k \div AesBlockSize <= q
  <2>1. PICK x, y : x = k \div AesBlockSize /\ y = k % AesBlockSize
    OBVIOUS
  <2>2. x \in Nat /\ y \in 0 .. (AesBlockSize - 1) /\ k = AesBlockSize * x + y
    <3>1. k \in Int /\ k \in Nat
      BY <1>1
    <3> QED
      BY <1>1, <2>1, <3>1, Split
  <2>3. AesBlockSize * x <= AesBlockSize * q + r
    BY <1>1, <1>3, <2>2
  <2>4. CASE x >= q + 1
    <3>1. AesBlockSize * x >= AesBlockSize * (q + 1)
      BY <1>1, <1>3, <2>2, <2>4
    <3>2. AesBlockSize * (q + 1) = AesBlockSize * q + AesBlockSize
      BY <1>1, <1>3
    <3>3. AesBlockSize * x \in Int /\ AesBlockSize * q \in Int
      BY <1>1, <1>3, <2>2
    <3> QED
      BY <1>1, <1>3, <2>3, <3>1, <3>2, <3>3
  <2> QED
    BY <1>3, <2>1, <2>2, <2>4
<1>5. StreamBlocks = q + 1
  BY <1>2 DEF StreamBlocks
<1> QED
  BY <1>1, <1>3, <1>4, <1>5

LEMMA FedIs ==
  ASSUME NEW m, NEW t
  PROVE  /\ FedOf(m, t)[0] = t
         /\ \A b \in 1 .. StreamBlocks :
                FedOf(m, t)[b] = Feedback(m, FedOf(m, t)[b - 1], PlainBlock(b))
<1> DEFINE P(u) == IsFed(u, m, t, StreamBlocks)
<1>1. \E u : P(u)
  BY BlocksOfStream, FedExists
<1>2. FedOf(m, t) = CHOOSE u : P(u)
  BY DEF FedOf, IsFed, StreamBlocks
<1> HIDE DEF P
<1>3. P(CHOOSE u : P(u))
  BY <1>1
<1>4. IsFed(FedOf(m, t), m, t, StreamBlocks)
  BY <1>2, <1>3 DEF P
<1>5. PICK w : w = FedOf(m, t)
  OBVIOUS
<1>6. \A b \in 0 .. StreamBlocks :
          w[b] = IF b = 0 THEN t ELSE Feedback(m, w[b - 1], PlainBlock(b))
  BY <1>4, <1>5 DEF IsFed
<1>7. StreamBlocks \in Nat
  BY BlocksOfStream
<1> QED
  BY <1>5, <1>6, <1>7

-----------------------------------------------------------------------------
(* Bytes and blocks: what was XORed in comes out again.                    *)

IsBlock(u) == u = [k \in 1 .. AesBlockSize |-> u[k]]

LEMMA XorTwice ==
  ASSUME NEW a, NEW b
  PROVE  /\ Xor2(a, b) = Xor2(b, a)
         /\ Xor2(Xor2(a, b), b) = a
         /\ Xor2(b, Xor2(a, b)) = a
<1>1. Xor2(a, b) = Xor2(b, a)
  BY DEF Xor2
<1>2. Xor2(Xor2(a, b), b) = a
  BY DEF Xor2
<1>3. Xor2(b, Xor2(a, b)) = a
  BY DEF Xor2
<1> QED
  BY <1>1, <1>2, <1>3

LEMMA XorBlocks ==
  ASSUME NEW u, NEW v, IsBlock(u), IsBlock(v)
  PROVE  /\ IsBlock(XorBytes(u, v))
         /\ \A k \in 1 .. AesBlockSize : XorBytes(u, v)[k] = Xor2(u[k], v[k])
         /\ XorBytes(u, v) = XorBytes(v, u)
         /\ XorBytes(XorBytes(u, v), v) = u
         /\ XorBytes(v, XorBytes(u, v)) = u
<1>1. ASSUME NEW f, NEW g, IsBlock(f)
      PROVE  XorBytes(f, g) = [k \in 1 .. AesBlockSize |-> Xor2(f[k], g[k])]
  <2>1. DOMAIN f = 1 .. AesBlockSize
    BY <1>1 DEF IsBlock
  <2> QED
    BY <2>1 DEF XorBytes
<1>2. PICK x, y : x = XorBytes(u, v) /\ y = XorBytes(v, u)
  OBVIOUS
<1>3. /\ x = [k \in 1 .. AesBlockSize |-> Xor2(u[k], v[k])]
      /\ y = [k \in 1 .. AesBlockSize |-> Xor2(v[k], u[k])]
  BY <1>1, <1>2
<1>4. IsBlock(x) /\ \A k \in 1 .. AesBlockSize : x[k] = Xor2(u[k], v[k])
  BY <1>3 DEF IsBlock
<1>5. \A k \in 1 .. AesBlockSize : Xor2(u[k], v[k]) = Xor2(v[k], u[k])
  BY XorTwice
<1>6. x = y
  BY <1>3, <1>5
<1>7. XorBytes(x, v) = u
  <2>1. XorBytes(x, v) = [k \in 1 .. AesBlockSize |-> Xor2(x[k], v[k])]
    BY <1>1, <1>4
  <2>2. \A k \in 1 .. AesBlockSize : Xor2(x[k], v[k]) = u[k]
    BY <1>4, XorTwice
  <2>3. [k \in 1 .. AesBlockSize |-> Xor2(x[k], v[k])] = [k \in 1 .. AesBlockSize |-> u[k]]
    BY <2>2
  <2> QED
    BY <2>1, <2>3 DEF IsBlock
<1>8. XorBytes(v, x) = u
  <2>1. XorBytes(v, x) = [k \in 1 .. AesBlockSize |-> Xor2(v[k], x[k])]
    BY <1>1
  <2>2. \A k \in 1 .. AesBlockSize : Xor2(v[k], x[k]) = u[k]
    BY <1>4, XorTwice
  <2>3. [k \in 1 .. AesBlockSize |-> Xor2(v[k], x[k])] = [k \in 1 .. AesBlockSize |-> u[k]]
    BY <2>2
  <2> QED
    BY <2>1, <2>3 DEF IsBlock
<1> QED
  BY <1>2, <1>4, <1>6, <1>7, <1>8

\* aes_encrypt makes a block, which aes_decrypt takes back.
LEMMA EncryptIsBlock ==
  ASSUME NEW u
  PROVE  IsBlock(Encrypt(u)) /\ Decrypt(Encrypt(u)) = u
<1>1. IsBlock(Encrypt(u))
  BY DEF IsBlock, Encrypt
<1>2. 1 \in 1 .. AesBlockSize
  BY BlocksOfStream
<1>3. Encrypt(u)[1] = {<<"E", u, 1>>}
  BY <1>2 DEF Encrypt
<1>4. PICK a : a = CHOOSE atom \in {<<"E", u, 1>>} : TRUE
  OBVIOUS
<1>5. a = <<"E", u, 1>>
  BY <1>4
<1>6. Decrypt(Encrypt(u)) = a[2]
  BY <1>3, <1>4 DEF Decrypt
<1> QED
  BY <1>1, <1>5, <1>6

-----------------------------------------------------------------------------
(* Byte n + 1 of a stream is byte n % AesBlockSize + 1 of the block behind *)
(* n \div AesBlockSize others.                                             *)

PlainByte(k) == {<<"plain", k>>}
MadeByte(m, t, k) == MadeOf(m, t, (k - 1) \div AesBlockSize + 1)[((k - 1) % AesBlockSize) + 1]

LEMMA PlainBlockIs ==
  ASSUME NEW b \in Nat \ {0}
  PROVE  /\ IsBlock(PlainBlock(b))
         /\ \A k \in 1 .. AesBlockSize : PlainBlock(b)[k] = PlainByte((b - 1) * AesBlockSize + k)
  BY DEF PlainBlock, PlainBytes, PlainByte, IsBlock

LEMMA PlaceInBlock ==
  ASSUME NEW q \in Nat, NEW j \in 1 .. AesBlockSize, NEW k, k = AesBlockSize * q + j
  PROVE  /\ k \in Nat \ {0}
         /\ \A m, t : MadeByte(m, t, k) = MadeOf(m, t, q + 1)[j]
         /\ PlainBlock(q + 1)[j] = PlainByte(k)
<1>1. AesBlockSize \in Nat \ {0}
  BY BlocksOfStream
<1>2. PICK l : l = k - 1
  OBVIOUS
<1>3. l \in Int /\ k \in Nat \ {0} /\ j - 1 \in 0 .. (AesBlockSize - 1) /\ l = AesBlockSize * q + (j - 1)
  BY <1>1, <1>2
<1>4. l % AesBlockSize = j - 1 /\ l \div AesBlockSize = q
  <2>1. q \in Int
    OBVIOUS
  <2> QED
    BY <1>1, <1>3, <2>1, Divided
<1>5. (l % AesBlockSize) + 1 = j
  BY <1>4
<1>6. \A m, t : MadeByte(m, t, k) = MadeOf(m, t, q + 1)[j]
  BY <1>2, <1>4, <1>5 DEF MadeByte
<1>7. PICK b : b = q + 1
  OBVIOUS
<1>8. b \in Nat \ {0} /\ (b - 1) * AesBlockSize + j = k
  <2>1. b - 1 = q
    BY <1>7
  <2>2. q * AesBlockSize + j = k
    BY <1>1
  <2> QED
    BY <1>7, <2>1, <2>2
<1>9. PlainBlock(b)[j] = PlainByte(k)
  BY <1>8, PlainBlockIs
<1> QED
  BY <1>3, <1>6, <1>7, <1>9

-----------------------------------------------------------------------------
(* A caller's context after n bytes of the stream, and what it has written *)
(* since byte a: the sender takes the plaintext, the receiver gives it.    *)

TakenByte(m, e, t, k) == IF e THEN PlainByte(k) ELSE MadeByte(m, t, k)
GivenByte(m, e, t, k) == IF e THEN MadeByte(m, t, k) ELSE PlainByte(k)

Given(m, e, t, a, n) == [j \in 1 .. (n - a) |-> GivenByte(m, e, t, a + j)]

\* The block of which r bytes are done, in CFB.
Begun(t, q, r) ==
  [k \in 1 .. AesBlockSize |->
      IF k <= r THEN FedOf("cfb", t)[q + 1][k] ELSE Encrypt(FedOf("cfb", t)[q])[k]]

IvAt(m, t, q, r) ==
  IF r = 0 THEN FedOf(m, t)[q]
  ELSE IF m = "cfb" THEN Begun(t, q, r) ELSE FedOf(m, t)[q + 1]

CallAt(m, e, t, a, n) ==
  [iv |-> IvAt(m, t, n \div AesBlockSize, n % AesBlockSize),
   pos |-> n % AesBlockSize,
   out |-> Given(m, e, t, a, n)]

\* s holds the l bytes that are given after byte a.
Gives(s, m, e, t, a, l) ==
  /\ Sequence(s) /\ Len(s) = l
  /\ \A j \in 1 .. l : s[j] = GivenByte(m, e, t, a + j)

LEMMA GivenIs ==
  ASSUME NEW m, NEW e, NEW t, NEW a \in Nat, NEW n \in Nat, a <= n, NEW l, l = n - a
  PROVE  Gives(Given(m, e, t, a, n), m, e, t, a, l)
<1>1. PICK g : g = Given(m, e, t, a, n)
  OBVIOUS
<1>2. l \in Nat /\ g = [j \in 1 .. l |-> GivenByte(m, e, t, a + j)]
  BY <1>1 DEF Given
<1>3. g = [j \in 1 .. l |-> g[j]]
  BY <1>2
<1>4. Sequence(g) /\ Len(g) = l
  BY <1>2, <1>3, SequenceOfFunction
<1> QED
  BY <1>1, <1>2, <1>4 DEF Gives

Extends(m, e, t, a, n, s, z) == Given(m, e, t, a, n) \o s = Given(m, e, t, a, z)

LEMMA GivenMore ==
  ASSUME NEW m, NEW e, NEW t, NEW a \in Nat, NEW n \in Nat, a <= n, NEW l \in Nat,
         NEW s, Gives(s, m, e, t, n, l), NEW z \in {n + l}
  PROVE  Extends(m, e, t, a, n, s, z)
<1>1. PICK g, h, c, i, w : /\ g = Given(m, e, t, a, n) /\ h = Given(m, e, t, a, z)
                           /\ c = g \o s /\ i = n - a /\ w = z - a
  OBVIOUS
<1>2. z \in Nat /\ a <= z /\ w = i + l /\ i \in Nat
  BY <1>1
<1>3. /\ Sequence(g) /\ Len(g) = i
      /\ \A j \in 1 .. i : g[j] = GivenByte(m, e, t, a + j)
  <2>1. Gives(g, m, e, t, a, i)
    BY <1>1, GivenIs
  <2> QED
    BY <2>1 DEF Gives
<1>4. /\ Sequence(h) /\ Len(h) = w
      /\ \A j \in 1 .. w : h[j] = GivenByte(m, e, t, a + j)
  <2>1. Gives(h, m, e, t, a, w)
    BY <1>1, <1>2, GivenIs
  <2> QED
    BY <2>1 DEF Gives
<1>5. /\ Sequence(s) /\ Len(s) = l
      /\ \A k \in 1 .. l : s[k] = GivenByte(m, e, t, n + k)
  BY DEF Gives
<1>6. IsJoin(c, g, s)
  BY <1>1, <1>3, <1>5, Joined
<1>7. /\ Sequence(c) /\ Len(c) = w
      /\ \A k \in 1 .. w : c[k] = IF k <= i THEN g[k] ELSE s[k - i]
  <2>1. /\ Sequence(c) /\ Len(c) = Len(g) + Len(s)
        /\ \A k \in 1 .. Len(c) : c[k] = IF k <= Len(g) THEN g[k] ELSE s[k - Len(g)]
    BY <1>6 DEF IsJoin
  <2>2. Len(c) = w
    BY <1>2, <1>3, <1>5, <2>1
  <2> QED
    BY <1>3, <2>1, <2>2
<1>8. ASSUME NEW k \in 1 .. w  PROVE c[k] = h[k]
  <2>1. CASE k <= i
    <3>1. k \in 1 .. i
      BY <1>2, <2>1
    <3> QED
      BY <1>3, <1>4, <1>7, <2>1, <3>1
  <2>2. CASE ~(k <= i)
    <3>1. PICK x : x = k - i
      OBVIOUS
    <3>2. x \in 1 .. l /\ n + x = a + k
      BY <1>1, <1>2, <2>2, <3>1
    <3>3. s[x] = GivenByte(m, e, t, a + k)
      BY <1>5, <3>2
    <3> QED
      BY <1>4, <1>7, <2>2, <3>1, <3>3
  <2> QED
    BY <2>1, <2>2
<1>9. c = h
  BY <1>4, <1>7, <1>8, SameCells
<1> QED
  BY <1>1, <1>9 DEF Extends

\* One byte on.
LEMMA NextPlace ==
  ASSUME NEW n \in Nat, NEW q, NEW r, q = n \div AesBlockSize, r = n % AesBlockSize,
         NEW z, z = n + 1
  PROVE  /\ q \in Nat /\ r \in 0 .. (AesBlockSize - 1) /\ n = AesBlockSize * q + r
         /\ z \in Nat /\ r + 1 \in 1 .. AesBlockSize /\ z = AesBlockSize * q + (r + 1)
         /\ z % AesBlockSize = Next1(r)
         /\ r + 1 = AesBlockSize => z \div AesBlockSize = q + 1 /\ Next1(r) = 0
         /\ r + 1 # AesBlockSize => z \div AesBlockSize = q /\ Next1(r) = r + 1
<1>1. AesBlockSize \in Nat \ {0} /\ n \in Int
  BY BlocksOfStream
<1>2. q \in Nat /\ r \in 0 .. (AesBlockSize - 1) /\ n = AesBlockSize * q + r
  BY <1>1, Split
<1>3. /\ z \in Nat /\ z \in Int /\ r + 1 \in 1 .. AesBlockSize
      /\ z = AesBlockSize * q + (r + 1)
  BY <1>1, <1>2
<1>4. CASE r + 1 = AesBlockSize
  <2>1. z = AesBlockSize * (q + 1) + 0
    BY <1>1, <1>2, <1>3, <1>4
  <2>2. 0 \in 0 .. (AesBlockSize - 1) /\ q + 1 \in Int
    BY <1>1, <1>2
  <2>3. z % AesBlockSize = 0 /\ z \div AesBlockSize = q + 1
    BY <1>1, <1>3, <2>1, <2>2, Divided
  <2>4. Next1(r) = 0
    BY <1>4 DEF Next1
  <2> QED
    BY <1>2, <1>3, <1>4, <2>3, <2>4
<1>5. CASE r + 1 # AesBlockSize
  <2>1. r + 1 \in 0 .. (AesBlockSize - 1) /\ q \in Int
    <3>1. PICK x : x = r + 1
      OBVIOUS
    <3>2. x \in Nat /\ x <= AesBlockSize /\ x # AesBlockSize
      BY <1>1, <1>2, <1>5, <3>1
    <3> QED
      BY <1>1, <1>2, <3>1, <3>2
  <2>2. z % AesBlockSize = r + 1 /\ z \div AesBlockSize = q
    <3>1. PICK x : x = r + 1
      OBVIOUS
    <3>2. x \in 0 .. (AesBlockSize - 1) /\ q \in Int /\ z = AesBlockSize * q + x
      BY <1>3, <2>1, <3>1
    <3>3. z % AesBlockSize = x /\ z \div AesBlockSize = q
      BY <1>1, <1>3, <3>2, Divided
    <3> QED
      BY <3>1, <3>3
  <2>3. Next1(r) = r + 1
    BY <1>5 DEF Next1
  <2> QED
    BY <1>2, <1>3, <1>5, <2>2, <2>3
<1> QED
  BY <1>4, <1>5

\* One byte of output.
LEMMA OneByte ==
  ASSUME NEW m, NEW e, NEW t, NEW a \in Nat, NEW n \in Nat, a <= n,
         NEW y, y = GivenByte(m, e, t, n + 1), NEW z, z = n + 1
  PROVE  Extends(m, e, t, a, n, <<y>>, z)
<1>1. PICK s : s = <<y>>
  OBVIOUS
<1>2. Len(s) = 1 /\ s[1] = y /\ s = [k \in 1 .. 1 |-> s[k]]
  BY <1>1
<1>3. PICK l : l = 1
  OBVIOUS
<1>4. l \in Nat /\ s = [k \in 1 .. l |-> s[k]] /\ z = n + l
  BY <1>2, <1>3
<1>5. Sequence(s) /\ Len(s) = l
  BY <1>4, SequenceOfFunction
<1>6. \A k \in 1 .. l : s[k] = GivenByte(m, e, t, n + k)
  <2>1. SUFFICES ASSUME NEW k \in 1 .. l  PROVE s[k] = GivenByte(m, e, t, n + k)
    OBVIOUS
  <2>2. k = 1
    BY <1>3
  <2> QED
    BY <1>2, <2>2
<1>7. Gives(s, m, e, t, n, l)
  BY <1>5, <1>6 DEF Gives
<1>8. l \in Nat /\ z \in {n + l}
  BY <1>4
<1>9. Extends(m, e, t, a, n, s, z)
  BY <1>7, <1>8, GivenMore
<1> QED
  BY <1>1, <1>9

-----------------------------------------------------------------------------
(* One byte.                                                               *)

LEMMA StepsAre ==
  ASSUME NEW c, NEW x
  PROVE  /\ ByteStep("cfb", TRUE, c, x) = CfbEncryptByte(c, x)
         /\ ByteStep("cfb", FALSE, c, x) = CfbDecryptByte(c, x)
         /\ \A e : ByteStep("ofb", e, c, x) = OfbByte(c, x)
         /\ BlockStep("ecb", TRUE, c, x) = EcbEncrypt(c, x)
         /\ BlockStep("ecb", FALSE, c, x) = EcbDecrypt(c, x)
         /\ BlockStep("cbc", TRUE, c, x) = CbcEncrypt(c, x)
         /\ BlockStep("cbc", FALSE, c, x) = CbcDecrypt(c, x)
         /\ BlockStep("cfb", TRUE, c, x) = CfbEncryptBlock(c, x)
         /\ BlockStep("cfb", FALSE, c, x) = CfbDecryptBlock(c, x)
         /\ \A e : BlockStep("ofb", e, c, x) = OfbBlock(c, x)
<1>1. ByteStep("cfb", TRUE, c, x) = CfbEncryptByte(c, x)
  BY DEF ByteStep
<1>2. ByteStep("cfb", FALSE, c, x) = CfbDecryptByte(c, x)
  BY DEF ByteStep
<1>3. \A e : ByteStep("ofb", e, c, x) = OfbByte(c, x)
  BY DEF ByteStep
<1>4. /\ BlockStep("ecb", TRUE, c, x) = EcbEncrypt(c, x)
      /\ BlockStep("ecb", FALSE, c, x) = EcbDecrypt(c, x)
  BY DEF BlockStep
<1>5. /\ BlockStep("cbc", TRUE, c, x) = CbcEncrypt(c, x)
      /\ BlockStep("cbc", FALSE, c, x) = CbcDecrypt(c, x)
  BY DEF BlockStep
<1>6. /\ BlockStep("cfb", TRUE, c, x) = CfbEncryptBlock(c, x)
      /\ BlockStep("cfb", FALSE, c, x) = CfbDecryptBlock(c, x)
  BY DEF BlockStep
<1>7. \A e : BlockStep("ofb", e, c, x) = OfbBlock(c, x)
  BY DEF BlockStep
<1> QED
  BY <1>1, <1>2, <1>3, <1>4, <1>5, <1>6, <1>7

LEMMA MadeBlockIs ==
  ASSUME NEW t, NEW b
  PROVE  /\ MadeOf("ecb", t, b) = Encrypt(PlainBlock(b))
         /\ MadeOf("cbc", t, b) = FedOf("cbc", t)[b]
         /\ MadeOf("cfb", t, b) = FedOf("cfb", t)[b]
         /\ MadeOf("ofb", t, b) = XorBytes(PlainBlock(b), FedOf("ofb", t)[b])
         /\ MadeOf("ctr", t, b) = XorBytes(PlainBlock(b), Encrypt(CounterOf(t, b)))
<1>1. MadeOf("ecb", t, b) = Encrypt(PlainBlock(b))
  BY DEF MadeOf
<1>2. MadeOf("cbc", t, b) = FedOf("cbc", t)[b] /\ MadeOf("cfb", t, b) = FedOf("cfb", t)[b]
  BY DEF MadeOf
<1>3. MadeOf("ofb", t, b) = XorBytes(PlainBlock(b), FedOf("ofb", t)[b])
  BY DEF MadeOf
<1>4. MadeOf("ctr", t, b) = XorBytes(PlainBlock(b), Encrypt(CounterOf(t, b)))
  BY DEF MadeOf
<1> QED
  BY <1>1, <1>2, <1>3, <1>4

LEMMA FeedbackIs ==
  ASSUME NEW t, NEW b \in 1 .. StreamBlocks
  PROVE  /\ FedOf("cbc", t)[b] = Encrypt(XorBytes(PlainBlock(b), FedOf("cbc", t)[b - 1]))
         /\ FedOf("cfb", t)[b] = XorBytes(PlainBlock(b), Encrypt(FedOf("cfb", t)[b - 1]))
         /\ FedOf("ofb", t)[b] = Encrypt(FedOf("ofb", t)[b - 1])
<1>1. ASSUME NEW x, NEW y
      PROVE  /\ Feedback("cbc", x, y) = Encrypt(XorBytes(y, x))
             /\ Feedback("cfb", x, y) = XorBytes(y, Encrypt(x))
             /\ Feedback("ofb", x, y) = Encrypt(x)
  BY DEF Feedback
<1>2. \A m : FedOf(m, t)[b] = Feedback(m, FedOf(m, t)[b - 1], PlainBlock(b))
  BY FedIs
<1> QED
  BY <1>1, <1>2

\* The context of a call at a byte, and one byte on.
LEMMA CallIs ==
  ASSUME NEW m, NEW e, NEW t, NEW a, NEW n, NEW q, NEW r,
         q = n \div AesBlockSize, r = n % AesBlockSize
  PROVE  /\ CallAt(m, e, t, a, n).iv = IvAt(m, t, q, r)
         /\ CallAt(m, e, t, a, n).pos = r
         /\ CallAt(m, e, t, a, n).out = Given(m, e, t, a, n)
         /\ \A s : CallAt(m, e, t, s, n).iv = IvAt(m, t, q, r) /\ CallAt(m, e, t, s, n).pos = r
         /\ \A iv, p, o : iv = IvAt(m, t, q, r) /\ p = r /\ o = Given(m, e, t, a, n)
                          => [iv |-> iv, pos |-> p, out |-> o] = CallAt(m, e, t, a, n)
  BY DEF CallAt

\* A byte in its block.
LEMMA ByteIs ==
  ASSUME NEW n \in Nat, n < MaxStream, NEW q, NEW r,
         q = n \div AesBlockSize, r = n % AesBlockSize, NEW z, z = n + 1
  PROVE  /\ q + 1 \in 1 .. StreamBlocks /\ r + 1 \in 1 .. AesBlockSize
         /\ \A m, t : MadeByte(m, t, z) = MadeOf(m, t, q + 1)[r + 1]
         /\ PlainBlock(q + 1)[r + 1] = PlainByte(z)
<1>1. /\ q \in Nat /\ r + 1 \in 1 .. AesBlockSize
      /\ z = AesBlockSize * q + (r + 1)
  BY NextPlace
<1>2. q + 1 \in 1 .. StreamBlocks
  <2>1. n \in 0 .. MaxStream
    BY BlocksOfStream
  <2> QED
    BY <1>1, <2>1, BlocksOfStream
<1>3. PICK j : j = r + 1
  OBVIOUS
<1>4. j \in 1 .. AesBlockSize /\ z = AesBlockSize * q + j
  BY <1>1, <1>3
<1>5. /\ \A m, t : MadeByte(m, t, z) = MadeOf(m, t, q + 1)[j]
      /\ PlainBlock(q + 1)[j] = PlainByte(z)
  BY <1>1, <1>4, PlaceInBlock, SMTT(30)
<1> QED
  BY <1>1, <1>2, <1>3, <1>5

\* The block in iv while CFB fills it.
LEMMA BegunIs ==
  ASSUME NEW t, NEW q \in Nat, q + 1 \in 1 .. StreamBlocks,
         NEW r \in 0 .. (AesBlockSize - 1)
  PROVE  /\ Begun(t, q, 0) = Encrypt(FedOf("cfb", t)[q])
         /\ Begun(t, q, r)[r + 1] = Encrypt(FedOf("cfb", t)[q])[r + 1]
         /\ [Begun(t, q, r) EXCEPT ![r + 1] = FedOf("cfb", t)[q + 1][r + 1]]
                = Begun(t, q, r + 1)
         /\ Begun(t, q, AesBlockSize) = FedOf("cfb", t)[q + 1]
<1>1. PICK E, G, p : /\ E = Encrypt(FedOf("cfb", t)[q]) /\ G = FedOf("cfb", t)[q + 1]
                     /\ p = r + 1
  OBVIOUS
<1>2. AesBlockSize \in Nat \ {0} /\ p \in 1 .. AesBlockSize /\ p = r + 1 /\ r \in Int
  BY <1>1, BlocksOfStream
<1>3. E = [k \in 1 .. AesBlockSize |-> E[k]]
  BY <1>1, EncryptIsBlock DEF IsBlock
<1>4. G = [k \in 1 .. AesBlockSize |-> G[k]]
  <2>1. PICK b : b = q + 1
    OBVIOUS
  <2>2. b \in 1 .. StreamBlocks /\ b \in Nat \ {0} /\ b - 1 = q
    BY <2>1
  <2>3. G = XorBytes(PlainBlock(b), E)
    BY <1>1, <2>1, <2>2, FeedbackIs
  <2>4. IsBlock(PlainBlock(b)) /\ IsBlock(E)
    BY <1>1, <2>2, PlainBlockIs, EncryptIsBlock
  <2>5. IsBlock(G)
    BY <2>3, <2>4, XorBlocks
  <2> QED
    BY <2>5 DEF IsBlock
<1>5. \A i : Begun(t, q, i) = [k \in 1 .. AesBlockSize |-> IF k <= i THEN G[k] ELSE E[k]]
  BY <1>1 DEF Begun
<1>6. Begun(t, q, 0) = E
  <2>1. Begun(t, q, 0) = [k \in 1 .. AesBlockSize |-> IF k <= 0 THEN G[k] ELSE E[k]]
    BY <1>5
  <2>2. \A k \in 1 .. AesBlockSize : ~(k <= 0)
    BY <1>2
  <2>3. [k \in 1 .. AesBlockSize |-> IF k <= 0 THEN G[k] ELSE E[k]] = [k \in 1 .. AesBlockSize |-> E[k]]
    BY <2>2
  <2> QED
    BY <1>3, <2>1, <2>3
<1>7. Begun(t, q, AesBlockSize) = G
  <2>1. Begun(t, q, AesBlockSize)
            = [k \in 1 .. AesBlockSize |-> IF k <= AesBlockSize THEN G[k] ELSE E[k]]
    BY <1>5
  <2>2. \A k \in 1 .. AesBlockSize : k <= AesBlockSize
    BY <1>2
  <2>3. [k \in 1 .. AesBlockSize |-> IF k <= AesBlockSize THEN G[k] ELSE E[k]]
            = [k \in 1 .. AesBlockSize |-> G[k]]
    BY <2>2
  <2> QED
    BY <1>4, <2>1, <2>3
<1>8. PICK u, v : u = Begun(t, q, r) /\ v = Begun(t, q, p)
  OBVIOUS
<1>9. /\ u = [k \in 1 .. AesBlockSize |-> IF k <= r THEN G[k] ELSE E[k]]
      /\ v = [k \in 1 .. AesBlockSize |-> IF k <= p THEN G[k] ELSE E[k]]
  BY <1>5, <1>8
<1>10. u[p] = E[p]
  <2>1. ~(p <= r)
    BY <1>2
  <2> QED
    BY <1>2, <1>9, <2>1
<1>11. [u EXCEPT ![p] = G[p]] = v
  <2>1. \A k \in 1 .. AesBlockSize : (k <= p <=> k <= r \/ k = p)
    BY <1>2
  <2>2. \A k \in 1 .. AesBlockSize : v[k] = IF k = p THEN G[p] ELSE u[k]
    BY <1>9, <2>1
  <2>3. [u EXCEPT ![p] = G[p]] = [k \in 1 .. AesBlockSize |-> IF k = p THEN G[p] ELSE u[k]]
    BY <1>9
  <2> QED
    BY <1>9, <2>2, <2>3
<1> QED
  BY <1>1, <1>6, <1>7, <1>8, <1>10, <1>11

LEMMA CfbByte ==
  ASSUME NEW e \in BOOLEAN, NEW t, NEW a \in Nat, NEW n \in Nat, a <= n, n < MaxStream,
         NEW z, z = n + 1
  PROVE  ByteStep("cfb", e, CallAt("cfb", e, t, a, n), TakenByte("cfb", e, t, z))
             = CallAt("cfb", e, t, a, z)
<1>1. PICK q, r, b, p : /\ q = n \div AesBlockSize /\ r = n % AesBlockSize
                        /\ b = q + 1 /\ p = r + 1
  OBVIOUS
<1>2. PICK F, E, G : /\ F = FedOf("cfb", t)[q] /\ E = Encrypt(FedOf("cfb", t)[q])
                     /\ G = FedOf("cfb", t)[b]
  OBVIOUS
<1>3. PICK c, x, f : /\ c = CallAt("cfb", e, t, a, n) /\ x = TakenByte("cfb", e, t, z)
                     /\ f = Fresh(c)
  OBVIOUS
<1>4. /\ q \in Nat /\ r \in 0 .. (AesBlockSize - 1) /\ z \in Nat
      /\ z % AesBlockSize = Next1(r)
      /\ p = AesBlockSize => z \div AesBlockSize = b /\ Next1(r) = 0
      /\ p # AesBlockSize => z \div AesBlockSize = q /\ Next1(r) = p
  BY <1>1, NextPlace, SMTT(30)
<1>5. /\ b \in 1 .. StreamBlocks /\ p \in 1 .. AesBlockSize
      /\ MadeByte("cfb", t, z) = MadeOf("cfb", t, b)[p]
      /\ PlainBlock(b)[p] = PlainByte(z)
  BY <1>1, ByteIs
<1>6. /\ c.iv = IvAt("cfb", t, q, r) /\ c.pos = r /\ c.out = Given("cfb", e, t, a, n)
  BY <1>1, <1>3, CallIs
<1>7. /\ Begun(t, q, 0) = E /\ Begun(t, q, r)[p] = E[p]
      /\ [Begun(t, q, r) EXCEPT ![p] = G[p]] = Begun(t, q, p)
      /\ Begun(t, q, AesBlockSize) = G
  <2>1. q + 1 \in 1 .. StreamBlocks
    BY <1>1, <1>5
  <2> QED
    BY <1>1, <1>2, <1>4, <2>1, BegunIs
<1>8. f = Begun(t, q, r)
  <2>1. CASE r = 0
    <3>1. c.iv = F
      BY <1>2, <1>6, <2>1 DEF IvAt
    <3>2. f = E
      BY <1>2, <1>3, <1>6, <2>1, <3>1 DEF Fresh
    <3> QED
      BY <1>7, <2>1, <3>2
  <2>2. CASE r # 0
    <3>1. c.iv = Begun(t, q, r)
      BY <1>6, <2>2 DEF IvAt
    <3> QED
      BY <1>3, <1>6, <2>2, <3>1 DEF Fresh
  <2> QED
    BY <2>1, <2>2
<1>9. G[p] = Xor2(PlainByte(z), E[p]) /\ MadeByte("cfb", t, z) = G[p]
  <2>1. b - 1 = q /\ b \in Nat \ {0}
    BY <1>1, <1>4
  <2>2. G = XorBytes(PlainBlock(b), E)
    BY <1>2, <1>5, <2>1, FeedbackIs
  <2>3. IsBlock(PlainBlock(b)) /\ IsBlock(E)
    BY <1>2, <2>1, PlainBlockIs, EncryptIsBlock
  <2>4. G[p] = Xor2(PlainBlock(b)[p], E[p])
    BY <1>5, <2>2, <2>3, XorBlocks
  <2>5. MadeOf("cfb", t, b) = G
    BY <1>2, MadeBlockIs
  <2> QED
    BY <1>5, <2>4, <2>5
<1>10. [f EXCEPT ![p] = G[p]] = IvAt("cfb", t, z \div AesBlockSize, z % AesBlockSize)
  <2>1. [f EXCEPT ![p] = G[p]] = Begun(t, q, p)
    BY <1>7, <1>8
  <2>2. CASE p = AesBlockSize
    <3>1. IvAt("cfb", t, b, 0) = G
      BY <1>2 DEF IvAt
    <3> QED
      BY <1>4, <1>7, <2>1, <2>2, <3>1
  <2>3. CASE p # AesBlockSize
    <3>1. p # 0
      BY <1>5
    <3>2. IvAt("cfb", t, q, p) = Begun(t, q, p)
      BY <3>1 DEF IvAt
    <3> QED
      BY <1>4, <2>1, <2>3, <3>2
  <2> QED
    BY <2>2, <2>3
<1>11. PICK y : y = GivenByte("cfb", e, t, z)
  OBVIOUS
<1>12. c.out \o <<y>> = Given("cfb", e, t, a, z)
  <2>1. y = GivenByte("cfb", e, t, n + 1)
    BY <1>11
  <2>2. Extends("cfb", e, t, a, n, <<y>>, z)
    BY <2>1, OneByte
  <2> QED
    BY <1>6, <2>2 DEF Extends
<1>13. ByteStep("cfb", e, c, x) = Put(c, [f EXCEPT ![p] = G[p]], Next1(r), <<y>>)
  <2>1. f[p] = E[p]
    BY <1>7, <1>8
  <2>2. c.pos + 1 = p /\ Next1(c.pos) = Next1(r)
    BY <1>1, <1>6
  <2>3. CASE e
    <3>1. x = PlainByte(z) /\ y = G[p]
      BY <1>3, <1>9, <1>11, <2>3 DEF TakenByte, GivenByte
    <3>2. Xor2(f[p], x) = G[p]
      BY <1>9, <2>1, <3>1, XorTwice
    <3>3. ByteStep("cfb", e, c, x) = CfbEncryptByte(c, x)
      BY <2>3, StepsAre
    <3>4. CfbEncryptByte(c, x) = Put(c, [f EXCEPT ![p] = Xor2(f[p], x)], Next1(r), <<Xor2(f[p], x)>>)
      BY <1>3, <2>2 DEF CfbEncryptByte
    <3> QED
      BY <3>1, <3>2, <3>3, <3>4
  <2>4. CASE ~e
    <3>1. x = G[p] /\ y = PlainByte(z)
      BY <1>3, <1>9, <1>11, <2>4 DEF TakenByte, GivenByte
    <3>2. Xor2(x, f[p]) = y
      BY <1>9, <2>1, <3>1, XorTwice
    <3>3. e = FALSE
      BY <2>4
    <3>4. ByteStep("cfb", e, c, x) = CfbDecryptByte(c, x)
      BY <3>3, StepsAre
    <3>5. CfbDecryptByte(c, x) = Put(c, [f EXCEPT ![p] = x], Next1(r), <<Xor2(x, f[p])>>)
      BY <1>3, <2>2 DEF CfbDecryptByte
    <3> QED
      BY <3>1, <3>2, <3>4, <3>5
  <2> QED
    BY <2>3, <2>4
<1>14. ByteStep("cfb", e, c, x) = CallAt("cfb", e, t, a, z)
  <2>1. ByteStep("cfb", e, c, x) = [iv |-> [f EXCEPT ![p] = G[p]], pos |-> Next1(r),
                                    out |-> c.out \o <<y>>]
    BY <1>13 DEF Put
  <2> QED
    BY <1>4, <1>10, <1>12, <2>1 DEF CallAt
<1> QED
  BY <1>3, <1>14

LEMMA OfbByteIs ==
  ASSUME NEW e \in BOOLEAN, NEW t, NEW a \in Nat, NEW n \in Nat, a <= n, n < MaxStream,
         NEW z, z = n + 1
  PROVE  ByteStep("ofb", e, CallAt("ofb", e, t, a, n), TakenByte("ofb", e, t, z))
             = CallAt("ofb", e, t, a, z)
<1>1. PICK q, r, b, p : /\ q = n \div AesBlockSize /\ r = n % AesBlockSize
                        /\ b = q + 1 /\ p = r + 1
  OBVIOUS
<1>2. PICK F, G : F = FedOf("ofb", t)[q] /\ G = FedOf("ofb", t)[b]
  OBVIOUS
<1>3. PICK c, x, f : /\ c = CallAt("ofb", e, t, a, n) /\ x = TakenByte("ofb", e, t, z)
                     /\ f = Fresh(c)
  OBVIOUS
<1>4. /\ q \in Nat /\ r \in 0 .. (AesBlockSize - 1) /\ z \in Nat
      /\ z % AesBlockSize = Next1(r)
      /\ p = AesBlockSize => z \div AesBlockSize = b /\ Next1(r) = 0
      /\ p # AesBlockSize => z \div AesBlockSize = q /\ Next1(r) = p
  BY <1>1, NextPlace, SMTT(30)
<1>5. /\ b \in 1 .. StreamBlocks /\ p \in 1 .. AesBlockSize
      /\ MadeByte("ofb", t, z) = MadeOf("ofb", t, b)[p]
      /\ PlainBlock(b)[p] = PlainByte(z)
  BY <1>1, ByteIs
<1>6. /\ c.iv = IvAt("ofb", t, q, r) /\ c.pos = r /\ c.out = Given("ofb", e, t, a, n)
  BY <1>1, <1>3, CallIs
<1>7. b - 1 = q /\ b \in Nat \ {0}
  BY <1>1, <1>4
<1>8. G = Encrypt(F)
  BY <1>2, <1>5, <1>7, FeedbackIs
<1>9. f = G
  <2>1. CASE r = 0
    <3>1. c.iv = F
      BY <1>2, <1>6, <2>1 DEF IvAt
    <3> QED
      BY <1>3, <1>6, <1>8, <2>1, <3>1 DEF Fresh
  <2>2. CASE r # 0
    <3>1. c.iv = G
      BY <1>1, <1>2, <1>6, <2>2 DEF IvAt
    <3> QED
      BY <1>3, <1>6, <2>2, <3>1 DEF Fresh
  <2> QED
    BY <2>1, <2>2
<1>10. MadeByte("ofb", t, z) = Xor2(PlainByte(z), G[p])
  <2>1. IsBlock(PlainBlock(b)) /\ IsBlock(G)
    BY <1>7, <1>8, PlainBlockIs, EncryptIsBlock
  <2>2. MadeOf("ofb", t, b) = XorBytes(PlainBlock(b), G)
    BY <1>2, MadeBlockIs
  <2>3. MadeOf("ofb", t, b)[p] = Xor2(PlainBlock(b)[p], G[p])
    BY <1>5, <2>1, <2>2, XorBlocks
  <2> QED
    BY <1>5, <2>3
<1>11. G = IvAt("ofb", t, z \div AesBlockSize, z % AesBlockSize)
  <2>1. CASE p = AesBlockSize
    <3>1. IvAt("ofb", t, b, 0) = G
      BY <1>2 DEF IvAt
    <3> QED
      BY <1>4, <2>1, <3>1
  <2>2. CASE p # AesBlockSize
    <3>1. p # 0
      BY <1>5
    <3>2. IvAt("ofb", t, q, p) = G
      BY <1>1, <1>2, <3>1 DEF IvAt
    <3> QED
      BY <1>4, <2>2, <3>2
  <2> QED
    BY <2>1, <2>2
<1>12. PICK y : y = GivenByte("ofb", e, t, z)
  OBVIOUS
<1>13. c.out \o <<y>> = Given("ofb", e, t, a, z)
  <2>1. y = GivenByte("ofb", e, t, n + 1)
    BY <1>12
  <2>2. Extends("ofb", e, t, a, n, <<y>>, z)
    BY <2>1, OneByte
  <2> QED
    BY <1>6, <2>2 DEF Extends
<1>14. Xor2(G[p], x) = y
  <2>1. CASE e
    <3>1. x = PlainByte(z) /\ y = MadeByte("ofb", t, z)
      BY <1>3, <1>12, <2>1 DEF TakenByte, GivenByte
    <3> QED
      BY <1>10, <3>1, XorTwice
  <2>2. CASE ~e
    <3>1. x = MadeByte("ofb", t, z) /\ y = PlainByte(z)
      BY <1>3, <1>12, <2>2 DEF TakenByte, GivenByte
    <3> QED
      BY <1>10, <3>1, XorTwice
  <2> QED
    BY <2>1, <2>2
<1>15. ByteStep("ofb", e, c, x) = [iv |-> G, pos |-> Next1(r), out |-> c.out \o <<y>>]
  <2>1. c.pos + 1 = p /\ Next1(c.pos) = Next1(r)
    BY <1>1, <1>6
  <2>2. ByteStep("ofb", e, c, x) = OfbByte(c, x)
    BY StepsAre
  <2>3. OfbByte(c, x) = Put(c, f, Next1(r), <<Xor2(f[p], x)>>)
    BY <1>3, <2>1 DEF OfbByte
  <2>4. OfbByte(c, x) = Put(c, G, Next1(r), <<y>>)
    BY <1>9, <1>14, <2>3
  <2> QED
    BY <2>2, <2>4 DEF Put
<1>16. ByteStep("ofb", e, c, x) = CallAt("ofb", e, t, a, z)
  BY <1>4, <1>11, <1>13, <1>15 DEF CallAt
<1> QED
  BY <1>3, <1>16

-----------------------------------------------------------------------------
(* One block, which begins where a block of the stream begins.             *)

TakenBlock(m, e, t, b) == IF e THEN PlainBlock(b) ELSE MadeOf(m, t, b)
GivenBlock(m, e, t, b) == IF e THEN MadeOf(m, t, b) ELSE PlainBlock(b)

ByteModes == {"ecb", "cbc", "cfb", "ofb"}

LEMMA MadeShape ==
  ASSUME NEW m \in ByteModes, NEW t, NEW b \in 1 .. StreamBlocks
  PROVE  IsBlock(MadeOf(m, t, b))
<1>1. b \in Nat \ {0}
  BY BlocksOfStream
<1>2. IsBlock(PlainBlock(b))
  BY <1>1, PlainBlockIs
<1>3. CASE m = "ecb"
  <2>1. IsBlock(MadeOf("ecb", t, b))
    BY MadeBlockIs, EncryptIsBlock
  <2> QED
    BY <1>3, <2>1
<1>4. CASE m = "cbc"
  <2>1. IsBlock(FedOf("cbc", t)[b])
    BY FeedbackIs, EncryptIsBlock
  <2> QED
    BY <1>4, <2>1, MadeBlockIs
<1>5. CASE m = "cfb"
  <2>1. PICK f : f = Encrypt(FedOf("cfb", t)[b - 1])
    OBVIOUS
  <2>2. FedOf("cfb", t)[b] = XorBytes(PlainBlock(b), f) /\ IsBlock(f)
    BY <2>1, FeedbackIs, EncryptIsBlock
  <2>3. IsBlock(FedOf("cfb", t)[b])
    BY <1>2, <2>2, XorBlocks
  <2> QED
    BY <1>5, <2>3, MadeBlockIs
<1>6. CASE m = "ofb"
  <2>1. IsBlock(FedOf("ofb", t)[b])
    BY FeedbackIs, EncryptIsBlock
  <2>2. PICK f : f = FedOf("ofb", t)[b]
    OBVIOUS
  <2>3. MadeOf("ofb", t, b) = XorBytes(PlainBlock(b), f) /\ IsBlock(f)
    BY <2>1, <2>2, MadeBlockIs
  <2>4. IsBlock(MadeOf("ofb", t, b))
    BY <1>2, <2>3, XorBlocks
  <2> QED
    BY <1>6, <2>4
<1> QED
  BY <1>3, <1>4, <1>5, <1>6 DEF ByteModes

TakenFrom(m, e, t, n) == [k \in 1 .. AesBlockSize |-> TakenByte(m, e, t, n + k)]

\* The block behind n bytes.
LEMMA WholeBlock ==
  ASSUME NEW m \in ByteModes, NEW t, NEW e \in BOOLEAN,
         NEW n \in Nat, n <= MaxStream, n % AesBlockSize = 0,
         NEW q, q = n \div AesBlockSize, NEW b, b = q + 1, NEW z, z = n + AesBlockSize
  PROVE  /\ q \in Nat /\ b \in 1 .. StreamBlocks /\ b \in Nat \ {0} /\ b - 1 = q
         /\ z \in Nat /\ z % AesBlockSize = 0 /\ z \div AesBlockSize = b
         /\ TakenFrom(m, e, t, n) = TakenBlock(m, e, t, b)
         /\ Gives(GivenBlock(m, e, t, b), m, e, t, n, AesBlockSize)
<1>1. AesBlockSize \in Nat \ {0} /\ n \in Int /\ MaxStream \in Nat
  BY BlocksOfStream
<1>2. q \in Nat /\ n = AesBlockSize * q
  BY <1>1, Split
<1>3. b \in 1 .. StreamBlocks /\ b \in Nat \ {0} /\ b - 1 = q
  <2>1. n \in 0 .. MaxStream
    BY <1>1
  <2>2. b <= StreamBlocks
    BY <2>1, BlocksOfStream
  <2>3. b \in Nat \ {0} /\ b - 1 = q
    BY <1>2
  <2> QED
    BY <2>2, <2>3, BlocksOfStream
<1>4. z \in Nat /\ z % AesBlockSize = 0 /\ z \div AesBlockSize = b
  <2>1. PICK o : o = 0
    OBVIOUS
  <2>2. z \in Nat /\ z \in Int /\ z = AesBlockSize * b + o /\ o \in 0 .. (AesBlockSize - 1) /\ b \in Int
    BY <1>1, <1>2, <1>3, <2>1
  <2>3. z % AesBlockSize = o /\ z \div AesBlockSize = b
    BY <1>1, <2>2, Divided
  <2> QED
    BY <2>1, <2>2, <2>3
<1>5. ASSUME NEW k \in 1 .. AesBlockSize
      PROVE  /\ MadeByte(m, t, n + k) = MadeOf(m, t, b)[k]
             /\ PlainByte(n + k) = PlainBlock(b)[k]
  <2>1. PICK l : l = n + k
    OBVIOUS
  <2>2. l = AesBlockSize * q + k
    BY <1>2, <2>1
  <2> QED
    BY <1>2, <2>1, <2>2, PlaceInBlock
<1>6. PICK u, v : u = PlainBlock(b) /\ v = MadeOf(m, t, b)
  OBVIOUS
<1>7. /\ u = [k \in 1 .. AesBlockSize |-> u[k]] /\ v = [k \in 1 .. AesBlockSize |-> v[k]]
  <2>1. IsBlock(u)
    BY <1>3, <1>6, PlainBlockIs
  <2>2. IsBlock(v)
    BY <1>3, <1>6, MadeShape
  <2> QED
    BY <2>1, <2>2 DEF IsBlock
<1>8. /\ Sequence(u) /\ Len(u) = AesBlockSize
      /\ Sequence(v) /\ Len(v) = AesBlockSize
  BY <1>1, <1>7, SequenceOfFunction
<1>9. CASE e
  <2>1. \A k \in 1 .. AesBlockSize : TakenByte(m, e, t, n + k) = u[k]
    BY <1>5, <1>6, <1>9 DEF TakenByte
  <2>2. \A k \in 1 .. AesBlockSize : GivenByte(m, e, t, n + k) = v[k]
    BY <1>5, <1>6, <1>9 DEF GivenByte
  <2>3. TakenBlock(m, e, t, b) = u /\ GivenBlock(m, e, t, b) = v
    BY <1>6, <1>9 DEF TakenBlock, GivenBlock
  <2>4. TakenFrom(m, e, t, n) = u
    BY <1>7, <2>1 DEF TakenFrom
  <2>5. Gives(v, m, e, t, n, AesBlockSize)
    BY <1>8, <2>2 DEF Gives
  <2> QED
    BY <1>2, <1>3, <1>4, <2>3, <2>4, <2>5
<1>10. CASE ~e
  <2>1. \A k \in 1 .. AesBlockSize : TakenByte(m, e, t, n + k) = v[k]
    BY <1>5, <1>6, <1>10 DEF TakenByte
  <2>2. \A k \in 1 .. AesBlockSize : GivenByte(m, e, t, n + k) = u[k]
    BY <1>5, <1>6, <1>10 DEF GivenByte
  <2>3. TakenBlock(m, e, t, b) = v /\ GivenBlock(m, e, t, b) = u
    BY <1>6, <1>10 DEF TakenBlock, GivenBlock
  <2>4. TakenFrom(m, e, t, n) = v
    BY <1>7, <2>1 DEF TakenFrom
  <2>5. Gives(u, m, e, t, n, AesBlockSize)
    BY <1>8, <2>2 DEF Gives
  <2> QED
    BY <1>2, <1>3, <1>4, <2>3, <2>4, <2>5
<1> QED
  BY <1>9, <1>10


LEMMA EcbMade ==
  ASSUME NEW t, NEW e \in BOOLEAN, NEW b \in 1 .. StreamBlocks, NEW c,
         c.iv = FedOf("ecb", t)[b - 1]
  PROVE  BlockStep("ecb", e, c, TakenBlock("ecb", e, t, b))
             = Put(c, FedOf("ecb", t)[b], c.pos, GivenBlock("ecb", e, t, b))
<1>1. FedOf("ecb", t)[b] = c.iv
  <2>1. \A x, y : Feedback("ecb", x, y) = x
    BY DEF Feedback
  <2> QED
    BY <2>1, FedIs
<1>2. MadeOf("ecb", t, b) = Encrypt(PlainBlock(b))
  BY MadeBlockIs
<1>3. CASE e
  <2>1. TakenBlock("ecb", e, t, b) = PlainBlock(b) /\ GivenBlock("ecb", e, t, b) = Encrypt(PlainBlock(b))
    BY <1>2, <1>3 DEF TakenBlock, GivenBlock
  <2>2. BlockStep("ecb", e, c, PlainBlock(b)) = EcbEncrypt(c, PlainBlock(b))
    BY <1>3, StepsAre
  <2> QED
    BY <1>1, <2>1, <2>2 DEF EcbEncrypt
<1>4. CASE ~e
  <2>1. TakenBlock("ecb", e, t, b) = Encrypt(PlainBlock(b)) /\ GivenBlock("ecb", e, t, b) = PlainBlock(b)
    BY <1>2, <1>4 DEF TakenBlock, GivenBlock
  <2>2. e = FALSE
    BY <1>4
  <2>3. BlockStep("ecb", e, c, Encrypt(PlainBlock(b))) = EcbDecrypt(c, Encrypt(PlainBlock(b)))
    BY <2>2, StepsAre
  <2>4. Decrypt(Encrypt(PlainBlock(b))) = PlainBlock(b)
    BY EncryptIsBlock
  <2> QED
    BY <1>1, <2>1, <2>3, <2>4 DEF EcbDecrypt
<1> QED
  BY <1>3, <1>4

LEMMA CbcMade ==
  ASSUME NEW t, IsBlock(t), NEW e \in BOOLEAN, NEW b \in 1 .. StreamBlocks, NEW c,
         c.iv = FedOf("cbc", t)[b - 1]
  PROVE  BlockStep("cbc", e, c, TakenBlock("cbc", e, t, b))
             = Put(c, FedOf("cbc", t)[b], c.pos, GivenBlock("cbc", e, t, b))
<1>1. PICK u, f, g : u = PlainBlock(b) /\ f = FedOf("cbc", t)[b - 1] /\ g = FedOf("cbc", t)[b]
  OBVIOUS
<1>2. b \in Nat \ {0}
  BY BlocksOfStream
<1>3. IsBlock(u)
  BY <1>1, <1>2, PlainBlockIs
<1>4. IsBlock(f)
  <2>1. CASE b = 1
    <3>1. b - 1 = 0
      BY <2>1
    <3> QED
      BY <1>1, <3>1, FedIs
  <2>2. CASE b # 1
    <3>1. PICK i : i = b - 1
      OBVIOUS
    <3>2. i \in 1 .. StreamBlocks
      BY <1>2, <2>2, <3>1, BlocksOfStream
    <3>3. FedOf("cbc", t)[i] = Encrypt(XorBytes(PlainBlock(i), FedOf("cbc", t)[i - 1]))
      BY <3>2, FeedbackIs
    <3> QED
      BY <1>1, <3>1, <3>3, EncryptIsBlock
  <2> QED
    BY <2>1, <2>2
<1>5. g = Encrypt(XorBytes(u, f)) /\ MadeOf("cbc", t, b) = g
  BY <1>1, FeedbackIs, MadeBlockIs
<1>6. XorBytes(u, f) = XorBytes(f, u) /\ XorBytes(XorBytes(u, f), f) = u
  BY <1>3, <1>4, XorBlocks
<1>7. CASE e
  <2>1. TakenBlock("cbc", e, t, b) = u /\ GivenBlock("cbc", e, t, b) = g
    BY <1>1, <1>5, <1>7 DEF TakenBlock, GivenBlock
  <2>2. BlockStep("cbc", e, c, u) = CbcEncrypt(c, u)
    BY <1>7, StepsAre
  <2>3. CbcEncrypt(c, u) = Put(c, g, c.pos, g)
    BY <1>1, <1>5, <1>6 DEF CbcEncrypt
  <2> QED
    BY <1>1, <2>1, <2>2, <2>3
<1>8. CASE ~e
  <2>1. TakenBlock("cbc", e, t, b) = g /\ GivenBlock("cbc", e, t, b) = u
    BY <1>1, <1>5, <1>8 DEF TakenBlock, GivenBlock
  <2>2. e = FALSE
    BY <1>8
  <2>3. BlockStep("cbc", e, c, g) = CbcDecrypt(c, g)
    BY <2>2, StepsAre
  <2>4. Decrypt(g) = XorBytes(u, f)
    BY <1>5, EncryptIsBlock
  <2>5. CbcDecrypt(c, g) = Put(c, g, c.pos, u)
    BY <1>1, <1>6, <2>4 DEF CbcDecrypt
  <2> QED
    BY <1>1, <2>1, <2>3, <2>5
<1> QED
  BY <1>7, <1>8

LEMMA CfbMade ==
  ASSUME NEW t, NEW e \in BOOLEAN, NEW b \in 1 .. StreamBlocks, NEW c,
         c.iv = FedOf("cfb", t)[b - 1]
  PROVE  BlockStep("cfb", e, c, TakenBlock("cfb", e, t, b))
             = Put(c, FedOf("cfb", t)[b], c.pos, GivenBlock("cfb", e, t, b))
<1>1. PICK u, f, g : /\ u = PlainBlock(b) /\ f = Encrypt(FedOf("cfb", t)[b - 1])
                     /\ g = FedOf("cfb", t)[b]
  OBVIOUS
<1>2. b \in Nat \ {0}
  BY BlocksOfStream
<1>3. IsBlock(u) /\ IsBlock(f)
  BY <1>1, <1>2, PlainBlockIs, EncryptIsBlock
<1>4. g = XorBytes(u, f) /\ MadeOf("cfb", t, b) = g
  BY <1>1, FeedbackIs, MadeBlockIs
<1>5. XorBytes(f, u) = g /\ XorBytes(f, g) = u
  BY <1>3, <1>4, XorBlocks
<1>6. Encrypt(c.iv) = f
  BY <1>1
<1>7. CASE e
  <2>1. TakenBlock("cfb", e, t, b) = u /\ GivenBlock("cfb", e, t, b) = g
    BY <1>1, <1>4, <1>7 DEF TakenBlock, GivenBlock
  <2>2. BlockStep("cfb", e, c, u) = CfbEncryptBlock(c, u)
    BY <1>7, StepsAre
  <2>3. CfbEncryptBlock(c, u) = Put(c, g, c.pos, g)
    BY <1>5, <1>6 DEF CfbEncryptBlock
  <2> QED
    BY <1>1, <2>1, <2>2, <2>3
<1>8. CASE ~e
  <2>1. TakenBlock("cfb", e, t, b) = g /\ GivenBlock("cfb", e, t, b) = u
    BY <1>1, <1>4, <1>8 DEF TakenBlock, GivenBlock
  <2>2. e = FALSE
    BY <1>8
  <2>3. BlockStep("cfb", e, c, g) = CfbDecryptBlock(c, g)
    BY <2>2, StepsAre
  <2>4. CfbDecryptBlock(c, g) = Put(c, g, c.pos, u)
    BY <1>5, <1>6 DEF CfbDecryptBlock
  <2> QED
    BY <1>1, <2>1, <2>3, <2>4
<1> QED
  BY <1>7, <1>8

LEMMA OfbMade ==
  ASSUME NEW t, NEW e \in BOOLEAN, NEW b \in 1 .. StreamBlocks, NEW c,
         c.iv = FedOf("ofb", t)[b - 1]
  PROVE  BlockStep("ofb", e, c, TakenBlock("ofb", e, t, b))
             = Put(c, FedOf("ofb", t)[b], c.pos, GivenBlock("ofb", e, t, b))
<1>1. PICK u, g, v, x, y : /\ u = PlainBlock(b) /\ g = FedOf("ofb", t)[b] /\ v = XorBytes(u, g)
                           /\ x = TakenBlock("ofb", e, t, b) /\ y = GivenBlock("ofb", e, t, b)
  OBVIOUS
<1>2. b \in Nat \ {0}
  BY BlocksOfStream
<1>3. g = Encrypt(c.iv)
  BY <1>1, FeedbackIs
<1>4. IsBlock(u) /\ IsBlock(g)
  BY <1>1, <1>2, <1>3, PlainBlockIs, EncryptIsBlock
<1>5. MadeOf("ofb", t, b) = v
  BY <1>1, MadeBlockIs
<1>6. XorBytes(g, u) = v /\ XorBytes(g, v) = u
  BY <1>1, <1>4, XorBlocks
<1>7. XorBytes(g, x) = y
  <2>1. CASE e
    <3>1. x = u /\ y = v
      BY <1>1, <1>5, <2>1 DEF TakenBlock, GivenBlock
    <3> QED
      BY <1>6, <3>1
  <2>2. CASE ~e
    <3>1. x = v /\ y = u
      BY <1>1, <1>5, <2>2 DEF TakenBlock, GivenBlock
    <3> QED
      BY <1>6, <3>1
  <2> QED
    BY <2>1, <2>2
<1>8. BlockStep("ofb", e, c, x) = OfbBlock(c, x)
  BY StepsAre
<1>9. OfbBlock(c, x) = Put(c, g, c.pos, y)
  BY <1>3, <1>7 DEF OfbBlock
<1> QED
  BY <1>1, <1>8, <1>9

LEMMA BlockDone ==
  ASSUME NEW m \in ByteModes, NEW t, IsBlock(t), NEW e \in BOOLEAN, NEW a \in Nat,
         NEW n \in Nat, a <= n, n <= MaxStream, n % AesBlockSize = 0,
         NEW z, z = n + AesBlockSize
  PROVE  BlockStep(m, e, CallAt(m, e, t, a, n),
                   TakenFrom(m, e, t, n))
             = CallAt(m, e, t, a, z)
<1>1. PICK q, b, c, o : /\ q = n \div AesBlockSize /\ b = q + 1 /\ o = 0
                        /\ c = CallAt(m, e, t, a, n)
  OBVIOUS
<1>2. /\ b \in 1 .. StreamBlocks /\ b - 1 = q
      /\ z \in Nat /\ z % AesBlockSize = 0 /\ z \div AesBlockSize = b
      /\ TakenFrom(m, e, t, n) = TakenBlock(m, e, t, b)
      /\ Gives(GivenBlock(m, e, t, b), m, e, t, n, AesBlockSize)
  BY <1>1, WholeBlock
<1>3. /\ c.iv = IvAt(m, t, q, o) /\ c.pos = o /\ c.out = Given(m, e, t, a, n)
  BY <1>1, CallIs
<1>4. c.iv = FedOf(m, t)[b - 1]
  BY <1>1, <1>2, <1>3 DEF IvAt
<1>5. PICK g : g = GivenBlock(m, e, t, b)
  OBVIOUS
<1>6. BlockStep(m, e, c, TakenBlock(m, e, t, b)) = Put(c, FedOf(m, t)[b], c.pos, g)
  <2>1. CASE m = "ecb"
    BY <1>2, <1>4, <1>5, <2>1, EcbMade
  <2>2. CASE m = "cbc"
    BY <1>2, <1>4, <1>5, <2>2, CbcMade
  <2>3. CASE m = "cfb"
    BY <1>2, <1>4, <1>5, <2>3, CfbMade
  <2>4. CASE m = "ofb"
    BY <1>2, <1>4, <1>5, <2>4, OfbMade
  <2> QED
    BY <2>1, <2>2, <2>3, <2>4 DEF ByteModes
<1>7. c.out \o g = Given(m, e, t, a, z)
  <2>1. AesBlockSize \in Nat /\ z \in {n + AesBlockSize}
    BY BlocksOfStream
  <2>2. Gives(g, m, e, t, n, AesBlockSize)
    BY <1>2, <1>5
  <2>3. Extends(m, e, t, a, n, g, z)
    BY <2>1, <2>2, GivenMore
  <2> QED
    BY <1>3, <2>3 DEF Extends
<1>8. FedOf(m, t)[b] = IvAt(m, t, z \div AesBlockSize, z % AesBlockSize)
  BY <1>2 DEF IvAt
<1>9. Put(c, FedOf(m, t)[b], c.pos, g) = CallAt(m, e, t, a, z)
  BY <1>1, <1>2, <1>3, <1>7, <1>8 DEF Put, CallAt
<1> QED
  BY <1>1, <1>2, <1>6, <1>9

-----------------------------------------------------------------------------
(* One call: n bytes of data from byte a on.                               *)

IsTaken(d, m, e, t, a, n) ==
  Len(d) = n /\ \A k \in 1 .. n : d[k] = TakenByte(m, e, t, a + k)

\* The bytes from f on, l of them, of a call with n bytes at a: the stream's from y to z.
StretchIs(a, n, f, l, y, z) ==
  /\ f \in Nat /\ l \in Nat /\ f + l <= n
  /\ y = a + f /\ z = y + l /\ a + n <= MaxStream

LEMMA BytesRun ==
  ASSUME NEW m \in {"cfb", "ofb"}, NEW t, NEW e \in BOOLEAN, NEW a \in Nat,
         NEW d, NEW n \in Nat, IsTaken(d, m, e, t, a, n),
         NEW f, NEW l, NEW y, NEW z, StretchIs(a, n, f, l, y, z)
  PROVE  RunBytes(m, e, CallAt(m, e, t, a, y), d, f, l) = CallAt(m, e, t, a, z)
<1>0. /\ f \in Nat /\ l \in Nat /\ f + l <= n
      /\ y = a + f /\ z = y + l /\ a + n <= MaxStream
  BY DEF StretchIs
<1>1. PICK s : s = [k \in 0 .. l |-> CallAt(m, e, t, a, y + k)]
  OBVIOUS
<1>2. s[0] = CallAt(m, e, t, a, y)
  <2>1. 0 \in 0 .. l /\ y + 0 = y
    BY <1>0
  <2> QED
    BY <1>0, <1>1, <2>1
<1>3. ASSUME NEW k \in 1 .. l
      PROVE  s[k] = ByteStep(m, e, s[k - 1], d[f + k])
  <2>1. PICK i, j, h : i = y + (k - 1) /\ j = y + k /\ h = f + k
    OBVIOUS
  <2>2. /\ i \in Nat /\ a <= i /\ i < MaxStream /\ j = i + 1 /\ h \in 1 .. n /\ j = a + h
        /\ k \in 0 .. l /\ k - 1 \in 0 .. l
    BY <1>0, <2>1, BlocksOfStream
  <2>3. s[k] = CallAt(m, e, t, a, j) /\ s[k - 1] = CallAt(m, e, t, a, i)
    BY <1>0, <1>1, <2>1, <2>2
  <2>4. d[h] = TakenByte(m, e, t, j)
    BY <2>2 DEF IsTaken
  <2>5. ByteStep(m, e, CallAt(m, e, t, a, i), TakenByte(m, e, t, j)) = CallAt(m, e, t, a, j)
    <3>1. CASE m = "cfb"
      BY <2>2, <3>1, CfbByte
    <3>2. CASE m = "ofb"
      BY <2>2, <3>2, OfbByteIs
    <3> QED
      BY <3>1, <3>2
  <2> QED
    BY <2>1, <2>3, <2>4, <2>5
<1>4. RunBytes(m, e, CallAt(m, e, t, a, y), d, f, l) = s[l]
  BY <1>0, <1>2, <1>3, RunBytesIs
<1>5. s[l] = CallAt(m, e, t, a, z)
  BY <1>0, <1>1
<1> QED
  BY <1>4, <1>5

LEMMA BlocksRun ==
  ASSUME NEW m \in ByteModes, NEW t, IsBlock(t), NEW e \in BOOLEAN, NEW a \in Nat,
         NEW d, NEW n \in Nat, IsTaken(d, m, e, t, a, n), a + n <= MaxStream,
         NEW f \in Nat, NEW l \in Nat, f + l * AesBlockSize <= n,
         NEW y, y = a + f, y % AesBlockSize = 0, NEW z, z = y + l * AesBlockSize
  PROVE  RunBlocks(m, e, CallAt(m, e, t, a, y), d, f, l) = CallAt(m, e, t, a, z)
<1>0. AesBlockSize \in Nat \ {0} /\ MaxStream \in Nat
  BY BlocksOfStream
<1>1. PICK s : s = [k \in 0 .. l |-> CallAt(m, e, t, a, y + k * AesBlockSize)]
  OBVIOUS
<1>2. s[0] = CallAt(m, e, t, a, y)
  <2>1. 0 \in 0 .. l /\ y + 0 * AesBlockSize = y
    BY <1>0
  <2> QED
    BY <1>1, <2>1
<1>3. ASSUME NEW k \in 1 .. l
      PROVE  s[k] = BlockStep(m, e, s[k - 1], BlockOf(d, f, k))
  <2>1. PICK i, j, h, w : /\ i = y + w /\ j = y + k * AesBlockSize /\ h = f + w
                          /\ w = (k - 1) * AesBlockSize
    OBVIOUS
  <2>2. w \in Nat /\ k * AesBlockSize = w + AesBlockSize /\ k * AesBlockSize <= l * AesBlockSize
    <3>1. k - 1 \in Nat /\ k <= l
      OBVIOUS
    <3> QED
      BY <1>0, <2>1, <3>1
  <2>3. /\ i \in Nat /\ a <= i /\ i <= MaxStream /\ j = i + AesBlockSize
        /\ h \in Nat /\ h + AesBlockSize <= n /\ i = a + h
        /\ k \in 0 .. l /\ k - 1 \in 0 .. l
    <3>1. l * AesBlockSize \in Nat /\ k * AesBlockSize \in Nat
      BY <1>0
    <3> QED
      BY <1>0, <2>1, <2>2, <3>1
  <2>4. i % AesBlockSize = 0
    <3>1. PICK g : g = k - 1
      OBVIOUS
    <3>2. g \in Int /\ i = y + AesBlockSize * g /\ y \in Int
      BY <1>0, <2>1, <3>1
    <3>3. i % AesBlockSize = y % AesBlockSize
      BY <1>0, <3>2, RemainderKept, ZenonT(60)
    <3> QED
      BY <3>3
  <2>5. s[k] = CallAt(m, e, t, a, j) /\ s[k - 1] = CallAt(m, e, t, a, i)
    BY <1>1, <2>1, <2>3
  <2>6. BlockOf(d, f, k) = TakenFrom(m, e, t, i)
    <3>1. ASSUME NEW x \in 1 .. AesBlockSize
          PROVE  d[f + w + x] = TakenByte(m, e, t, i + x)
      <4>1. PICK u : u = h + x
        OBVIOUS
      <4>2. u \in 1 .. n /\ a + u = i + x /\ f + w + x = u
        BY <1>0, <2>1, <2>2, <2>3, <4>1
      <4> QED
        BY <4>2 DEF IsTaken
    <3>2. BlockOf(d, f, k) = [x \in 1 .. AesBlockSize |-> d[f + w + x]]
      BY <2>1 DEF BlockOf
    <3> QED
      BY <3>1, <3>2 DEF TakenFrom
  <2>7. BlockStep(m, e, CallAt(m, e, t, a, i), TakenFrom(m, e, t, i)) = CallAt(m, e, t, a, j)
    BY <2>3, <2>4, BlockDone
  <2> QED
    BY <2>5, <2>6, <2>7
<1>4. RunBlocks(m, e, CallAt(m, e, t, a, y), d, f, l) = s[l]
  BY <1>2, <1>3, RunBlocksIs
<1>5. s[l] = CallAt(m, e, t, a, z)
  BY <1>1
<1> QED
  BY <1>4, <1>5

\* ECB and CBC.
LEMMA BlockCall ==
  ASSUME NEW m \in {"ecb", "cbc"}, NEW t, IsBlock(t), NEW e \in BOOLEAN, NEW a \in Nat,
         NEW d, NEW n \in Nat, IsTaken(d, m, e, t, a, n), NEW z, z = a + n, z <= MaxStream,
         a % AesBlockSize = 0, n % AesBlockSize = 0
  PROVE  ByBlocks(m, e, CallAt(m, e, t, a, a), d) = CallAt(m, e, t, a, z)
<1>1. PICK l, o : l = n \div AesBlockSize /\ o = 0
  OBVIOUS
<1>2. AesBlockSize \in Nat \ {0} /\ n \in Int
  BY BlocksOfStream
<1>3. l \in Nat /\ n = AesBlockSize * l
  <2>1. n = AesBlockSize * (n \div AesBlockSize) + (n % AesBlockSize) /\ n \div AesBlockSize \in Nat
    BY <1>2, Split
  <2>2. n = AesBlockSize * l + (n % AesBlockSize) /\ l \in Nat
    BY <1>1, <2>1
  <2> QED
    BY <1>2, <2>2
<1>4. l * AesBlockSize = n
  BY <1>2, <1>3
<1>5. /\ o \in Nat /\ o + l * AesBlockSize <= n /\ a = a + o /\ z = a + l * AesBlockSize
      /\ a + n <= MaxStream
  BY <1>1, <1>4
<1>6. m \in ByteModes
  BY DEF ByteModes
<1>7. RunBlocks(m, e, CallAt(m, e, t, a, a), d, o, l) = CallAt(m, e, t, a, z)
  BY <1>3, <1>5, <1>6, BlocksRun
<1>8. Len(d) = n
  BY DEF IsTaken
<1> QED
  BY <1>1, <1>7, <1>8 DEF ByBlocks

\* CFB and OFB.
LEMMA PhasesCall ==
  ASSUME NEW m \in {"cfb", "ofb"}, NEW t, IsBlock(t), NEW e \in BOOLEAN, NEW a \in Nat,
         NEW d, NEW n \in Nat, IsTaken(d, m, e, t, a, n), NEW z, z = a + n, z <= MaxStream
  PROVE  ByPhases(m, e, CallAt(m, e, t, a, a), d) = CallAt(m, e, t, a, z)
<1>1. PICK r, c, o : r = a % AesBlockSize /\ c = CallAt(m, e, t, a, a) /\ o = 0
  OBVIOUS
<1>2. AesBlockSize \in Nat \ {0} /\ a \in Int /\ n \in Int /\ MaxStream \in Nat
  BY BlocksOfStream
<1>3. r \in 0 .. (AesBlockSize - 1)
  BY <1>1, <1>2, Split
<1>4. c.pos = r
  BY <1>1, CallIs
<1>5. Len(d) = n
  BY DEF IsTaken
<1>6. PICK left, head, rest, blocks, whole, tail :
          /\ left = AesBlockSize - r
          /\ head = IF r = 0 THEN 0 ELSE IF n < left THEN n ELSE left
          /\ rest = n - head
          /\ blocks = rest \div AesBlockSize
          /\ whole = head + blocks * AesBlockSize
          /\ tail = n - whole
  OBVIOUS
<1>7. PICK c1, c2, c3 : /\ c1 = RunBytes(m, e, c, d, o, head)
                        /\ c2 = RunBlocks(m, e, c1, d, head, blocks)
                        /\ c3 = RunBytes(m, e, c2, d, whole, tail)
  OBVIOUS
<1>8. ByPhases(m, e, c, d) = c3
  <2>1. ByPhases(m, e, c, d) =
          LET lft == AesBlockSize - r
              hd == IF r = 0 THEN 0 ELSE IF n < lft THEN n ELSE lft
              bks == (n - hd) \div AesBlockSize
              whl == hd + bks * AesBlockSize
              d1 == RunBytes(m, e, c, d, 0, hd)
              d2 == RunBlocks(m, e, d1, d, hd, bks)
          IN  RunBytes(m, e, d2, d, whl, n - whl)
    BY <1>4, <1>5 DEF ByPhases
  <2> QED
    BY <1>1, <1>6, <1>7, <2>1
<1>9. head \in Nat /\ head <= n /\ rest \in Nat /\ head + rest = n
  <2>1. left \in Nat
    BY <1>2, <1>3, <1>6
  <2> QED
    BY <1>6, <2>1
<1>10. blocks \in Nat /\ rest % AesBlockSize \in 0 .. (AesBlockSize - 1)
       /\ rest = AesBlockSize * blocks + (rest % AesBlockSize)
  <2>1. rest \in Int
    BY <1>9
  <2> QED
    BY <1>2, <1>6, <1>9, <2>1, Split
<1>11. whole \in Nat /\ whole <= n /\ tail \in Nat /\ whole + tail = n
  <2>1. blocks * AesBlockSize = AesBlockSize * blocks /\ blocks * AesBlockSize \in Nat
    BY <1>2, <1>10
  <2> QED
    BY <1>6, <1>9, <1>10, <2>1
<1>12. PICK y, w : y = a + head /\ w = a + whole
  OBVIOUS
<1>13. c1 = CallAt(m, e, t, a, y)
  <2>1. StretchIs(a, n, o, head, a, y)
    BY <1>1, <1>9, <1>12 DEF StretchIs
  <2>2. RunBytes(m, e, CallAt(m, e, t, a, a), d, o, head) = CallAt(m, e, t, a, y)
    BY <2>1, BytesRun
  <2> QED
    BY <1>1, <1>7, <2>2
<1>14. c2 = CallAt(m, e, t, a, w)
  <2>1. CASE blocks = 0
    <3>1. whole = head
      BY <1>2, <1>6, <1>9, <2>1
    <3>2. PICK s : s = [k \in 0 .. 0 |-> c1]
      OBVIOUS
    <3>3. s[0] = c1 /\ \A k \in 1 .. 0 : s[k] = BlockStep(m, e, s[k - 1], BlockOf(d, head, k))
      BY <3>2
    <3>4. RunBlocks(m, e, c1, d, head, 0) = s[0]
      BY <3>3, RunBlocksIs
    <3> QED
      BY <1>7, <1>12, <1>13, <2>1, <3>1, <3>3, <3>4
  <2>2. CASE blocks # 0
    <3>1. y % AesBlockSize = 0
      <4>1. CASE r = 0
        <5>1. y = a
          BY <1>6, <1>12, <4>1
        <5> QED
          BY <1>1, <4>1, <5>1
      <4>2. CASE r # 0
        <5>1. head = left
          <6>1. CASE n < left
            <7>1. rest = 0
              BY <1>6, <1>9, <4>2, <6>1
            <7>2. PICK u, v : u = AesBlockSize * blocks /\ v = rest % AesBlockSize
              OBVIOUS
            <7>3. u >= AesBlockSize /\ u \in Int
              BY <1>2, <1>10, <2>2, <7>2
            <7>4. v \in Nat /\ rest = u + v
              BY <1>10, <7>2
            <7> QED
              BY <1>2, <7>1, <7>3, <7>4
          <6>2. CASE ~(n < left)
            BY <1>6, <4>2, <6>2
          <6> QED
            BY <6>1, <6>2
        <5>2. PICK q, p : q = a \div AesBlockSize /\ p = q + 1
          OBVIOUS
        <5>3. q \in Int /\ a = AesBlockSize * q + r
          BY <1>1, <1>2, <5>2, Split
        <5>4. y = AesBlockSize * p + o
          <6>1. AesBlockSize * p = AesBlockSize * q + AesBlockSize
            BY <1>2, <5>2, <5>3
          <6> QED
            BY <1>1, <1>2, <1>3, <1>6, <1>12, <5>1, <5>3, <6>1
        <5>5. p \in Int /\ o \in 0 .. (AesBlockSize - 1) /\ y \in Int
          BY <1>1, <1>2, <1>9, <1>12, <5>2, <5>3
        <5>6. y % AesBlockSize = o
          BY <1>2, <5>4, <5>5, Divided
        <5> QED
          BY <1>1, <5>6
      <4> QED
        BY <4>1, <4>2
    <3>2. /\ head + blocks * AesBlockSize <= n /\ w = y + blocks * AesBlockSize
          /\ a + n <= MaxStream
      <4>1. blocks * AesBlockSize \in Nat
        BY <1>2, <1>10
      <4> QED
        BY <1>6, <1>9, <1>11, <1>12, <4>1
    <3>3. m \in ByteModes
      BY DEF ByteModes
    <3>4. RunBlocks(m, e, CallAt(m, e, t, a, y), d, head, blocks) = CallAt(m, e, t, a, w)
      BY <1>9, <1>10, <1>12, <3>1, <3>2, <3>3, BlocksRun
    <3> QED
      BY <1>7, <1>13, <3>4
  <2> QED
    BY <2>1, <2>2
<1>15. c3 = CallAt(m, e, t, a, z)
  <2>1. StretchIs(a, n, whole, tail, w, z)
    BY <1>11, <1>12 DEF StretchIs
  <2>2. RunBytes(m, e, CallAt(m, e, t, a, w), d, whole, tail) = CallAt(m, e, t, a, z)
    BY <2>1, BytesRun
  <2> QED
    BY <1>7, <1>14, <2>2
<1> QED
  BY <1>1, <1>8, <1>15

-----------------------------------------------------------------------------
(* The counter block.                                                      *)

DigitAt(v, i) == (v \div RadixPower(CounterRadix, i)) % CounterRadix
LowAreFull(v, i) == \A j \in 0 .. (i - 1) : DigitAt(v, j) = CounterRadix - 1
LastOf(v, i) == v % RadixPower(CounterRadix, i) = RadixPower(CounterRadix, i) - 1

LEMMA RadixIs == CounterRadix \in Nat \ {0, 1} /\ CounterRadix \in Nat \ {0} /\ CounterRadix \in Nat
  BY CipherAssumption

\* The carry comes as far as the digits below are all at their end.
LEMMA LowDigitsFull ==
  ASSUME NEW v \in Nat
  PROVE  \A i \in Nat : LowAreFull(v, i) <=> LastOf(v, i)
<1> DEFINE S == {i \in Nat : LowAreFull(v, i) <=> LastOf(v, i)}
<1>1. 0 \in S
  <2>1. RadixPower(CounterRadix, 0) = 1
    BY RadixIs, PowersOfRadix
  <2>2. v % 1 = 0
    OBVIOUS
  <2>3. LastOf(v, 0)
    BY <2>1, <2>2 DEF LastOf
  <2>4. LowAreFull(v, 0)
    BY DEF LowAreFull
  <2> QED
    BY <2>3, <2>4
<1>2. ASSUME NEW i \in Nat, i \in S  PROVE i + 1 \in S
  <2>1. PICK r, p, w, l : /\ r = CounterRadix /\ p = RadixPower(r, i) /\ l = i + 1
                          /\ w = RadixPower(r, l)
    OBVIOUS
  <2>2. r \in Nat \ {0} /\ p \in Nat \ {0} /\ w = r * p /\ w \in Nat \ {0} /\ l \in Nat
    <3>1. r \in Nat \ {0} /\ l \in Nat
      BY <2>1, RadixIs
    <3> QED
      BY <2>1, <3>1, PowersOfRadix, RadixPowerPositive
  <2>3. PICK y, x : y = v \div p /\ x = v % p
    OBVIOUS
  <2>4. y \in Nat /\ x \in 0 .. (p - 1) /\ v = p * y + x
    <3>1. v \in Int
      OBVIOUS
    <3> QED
      BY <2>2, <2>3, <3>1, Split
  <2>5. PICK h, d : h = y \div r /\ d = y % r
    OBVIOUS
  <2>6. h \in Nat /\ d \in 0 .. (r - 1) /\ y = r * h + d
    <3>1. y \in Int
      BY <2>4
    <3> QED
      BY <2>2, <2>4, <2>5, <3>1, Split
  <2>7. PICK f, g : f = p * d /\ g = f + x
    OBVIOUS
  <2>8. f \in Nat /\ g \in 0 .. (w - 1)
    <3>1. d \in Nat /\ d + 1 <= r
      BY <2>2, <2>6
    <3>2. p * (d + 1) <= p * r /\ p * (d + 1) = f + p /\ f \in Nat
      BY <2>2, <2>7, <3>1
    <3>3. p * r = w
      BY <2>2
    <3> QED
      BY <2>2, <2>4, <2>7, <3>2, <3>3
  <2>9. v = w * h + g
    <3>1. PICK u : u = r * h
      OBVIOUS
    <3>2. u \in Nat
      BY <2>2, <2>6, <3>1
    <3>3. p * (u + d) = p * u + f
      BY <2>2, <2>6, <2>7, <3>2
    <3>4. p * u = w * h
      BY <2>2, <2>6, <3>1
    <3>5. p * u \in Nat
      BY <2>2, <3>2
    <3>6. v = p * (u + d) + x
      BY <2>4, <2>6, <3>1
    <3> QED
      BY <2>4, <2>7, <2>8, <3>3, <3>4, <3>5, <3>6
  <2>10. v % w = g
    <3>1. v \in Int /\ h \in Int
      BY <2>6
    <3> QED
      BY <2>2, <2>8, <2>9, <3>1, Divided
  <2>11. LastOf(v, l) <=> g = w - 1
    BY <2>1, <2>10 DEF LastOf
  <2>12. LowAreFull(v, l) <=> LowAreFull(v, i) /\ d = r - 1
    <3>1. DigitAt(v, i) = d
      BY <2>1, <2>3, <2>5 DEF DigitAt
    <3>2. \A j : j \in 0 .. (l - 1) <=> j \in 0 .. (i - 1) \/ j = i
      BY <2>1
    <3> QED
      BY <2>1, <3>1, <3>2 DEF LowAreFull
  <2>13. LowAreFull(v, i) <=> x = p - 1
    BY <1>2, <2>1, <2>3 DEF LastOf
  <2>14. g = w - 1 <=> d = r - 1 /\ x = p - 1
    <3>1. PICK n, o : n = r - 1 /\ o = p - 1
      OBVIOUS
    <3>2. n \in Nat /\ o \in 0 .. (p - 1) /\ n \in Int
      BY <2>2, <3>1
    <3>3. w - 1 = p * n + o
      <4>1. p * n = p * r - p
        BY <2>2, <3>1
      <4>2. p * r = w
        BY <2>2
      <4> QED
        BY <2>2, <3>1, <4>1, <4>2
    <3>4. d = n /\ x = o => g = w - 1
      BY <2>7, <3>3
    <3>5. ASSUME g = w - 1  PROVE d = n /\ x = o
      <4>1. g = p * n + o /\ g = p * d + x /\ g \in Int /\ d \in Int
        BY <2>6, <2>7, <2>8, <3>3, <3>5
      <4>2. g % p = o /\ g \div p = n
        BY <2>2, <3>2, <4>1, Divided
      <4>3. g % p = x /\ g \div p = d
        BY <2>2, <2>4, <4>1, Divided
      <4> QED
        BY <4>2, <4>3
    <3> QED
      BY <3>1, <3>4, <3>5
  <2>15. LowAreFull(v, l) <=> LastOf(v, l)
    BY <2>11, <2>12, <2>13, <2>14
  <2> QED
    BY <2>1, <2>2, <2>15
<1> HIDE DEF S
<1>3. \A i \in Nat : i \in S
  BY <1>1, <1>2, Induction
<1> QED
  BY <1>3 DEF S

\* One more carries into a quotient when the remainder is at its end.
LEMMA QuotientOfNext ==
  ASSUME NEW v \in Nat, NEW p \in Nat \ {0}, NEW u, u = v + 1
  PROVE  u \div p = IF v % p = p - 1 THEN v \div p + 1 ELSE v \div p
<1>1. PICK y, x : y = v \div p /\ x = v % p
  OBVIOUS
<1>2. y \in Int /\ x \in 0 .. (p - 1) /\ v = p * y + x
  <2>1. v \in Int
    OBVIOUS
  <2> QED
    BY <1>1, <2>1, Split
<1>3. u \in Int
  OBVIOUS
<1>4. CASE x = p - 1
  <2>1. PICK l, o : l = y + 1 /\ o = 0
    OBVIOUS
  <2>2. p * l = p * y + p
    BY <1>2, <2>1
  <2>3. l \in Int /\ o \in 0 .. (p - 1) /\ u = p * l + o
    BY <1>2, <1>4, <2>1, <2>2
  <2>4. u \div p = l
    BY <1>3, <2>3, Divided
  <2> QED
    BY <1>1, <1>4, <2>1, <2>4
<1>5. CASE x # p - 1
  <2>1. PICK o : o = x + 1
    OBVIOUS
  <2>2. o \in 0 .. (p - 1) /\ u = p * y + o
    BY <1>2, <1>5, <2>1
  <2>3. u \div p = y
    BY <1>2, <1>3, <2>2, Divided
  <2> QED
    BY <1>1, <1>5, <2>3
<1> QED
  BY <1>4, <1>5

StartValue(t) == Number(CounterRadix, t, AesBlockSize)

IsCounter(f, v) == f = [k \in 1 .. AesBlockSize |-> DigitAt(v, AesBlockSize - k)]

LEMMA CounterDigits ==
  ASSUME NEW t, NEW b, NEW v, v = StartValue(t) + b - 1
  PROVE  IsCounter(CounterOf(t, b), v)
  BY DEF CounterOf, StartValue, DigitAt, IsCounter

LEMMA StartIsNumber ==
  ASSUME NEW t \in Counters
  PROVE  StartValue(t) \in Nat /\ CounterOf(t, 1) = t
<1>1. AesBlockSize \in Nat /\ t \in [1 .. AesBlockSize -> 0 .. (CounterRadix - 1)]
  BY BlocksOfStream DEF Counters
<1>2. AreDigits(t, CounterRadix, AesBlockSize)
  BY <1>1 DEF AreDigits
<1>3. PICK n, x : n = AesBlockSize /\ x = StartValue(t)
  OBVIOUS
<1>4. x \in Nat
  <2>1. n \in 0 .. n /\ n \in Nat
    BY <1>1, <1>3
  <2>2. Number(CounterRadix, t, n) \in 0 .. (RadixPower(CounterRadix, n) - 1)
    BY <1>2, <1>3, <2>1, RadixIs, NumberBelowPower
  <2> QED
    BY <1>3, <2>2 DEF StartValue
<1>5. IsDigitsOf(t, CounterRadix, AesBlockSize, x)
  <2>1. IsDigitsOf(t, CounterRadix, AesBlockSize, Number(CounterRadix, t, AesBlockSize))
    BY <1>1, <1>2, RadixIs, DigitsAre
  <2> QED
    BY <1>3, <2>1 DEF StartValue
<1>6. x = StartValue(t) + 1 - 1
  BY <1>3, <1>4
<1>7. CounterOf(t, 1) = [k \in 1 .. AesBlockSize |-> DigitAt(x, AesBlockSize - k)]
  <2>1. IsCounter(CounterOf(t, 1), x)
    BY <1>6, CounterDigits
  <2> QED
    BY <2>1 DEF IsCounter
<1>8. \A k \in 1 .. AesBlockSize : t[k] = DigitAt(x, AesBlockSize - k)
  BY <1>5 DEF IsDigitsOf, DigitAt
<1> QED
  BY <1>1, <1>3, <1>4, <1>7, <1>8

\* aes_ctr_cbuf_inc is one more.
LEMMA CounterNext ==
  ASSUME NEW t \in Counters, NEW b \in Nat \ {0}, NEW c, c = b + 1
  PROVE  CounterInc(CounterOf(t, b)) = CounterOf(t, c)
<1>1. AesBlockSize \in Nat \ {0} /\ StartValue(t) \in Nat
  BY BlocksOfStream, StartIsNumber
<1>2. PICK v, u, f, g : /\ v = StartValue(t) + b - 1 /\ u = v + 1
                        /\ f = CounterOf(t, b) /\ g = CounterOf(t, c)
  OBVIOUS
<1>3. v \in Nat /\ u \in Nat /\ u = StartValue(t) + c - 1
  BY <1>1, <1>2
<1>4. \A k \in 1 .. AesBlockSize : f[k] = DigitAt(v, AesBlockSize - k)
  <2>1. IsCounter(f, v)
    BY <1>2, CounterDigits
  <2> QED
    BY <2>1 DEF IsCounter
<1>5. g = [k \in 1 .. AesBlockSize |-> DigitAt(u, AesBlockSize - k)]
  <2>1. IsCounter(g, u)
    BY <1>2, <1>3, CounterDigits
  <2> QED
    BY <2>1 DEF IsCounter
<1>6. ASSUME NEW k \in 1 .. AesBlockSize
      PROVE  DigitAt(u, AesBlockSize - k) =
               IF \A j \in (k + 1) .. AesBlockSize : f[j] = CounterRadix - 1
               THEN (f[k] + 1) % CounterRadix ELSE f[k]
  <2>1. PICK i, p, y : /\ i = AesBlockSize - k /\ p = RadixPower(CounterRadix, i) /\ y = v \div p
    OBVIOUS
  <2>2. i \in Nat
    BY <1>1, <2>1
  <2>3. p \in Nat \ {0}
    BY <2>1, <2>2, RadixIs, RadixPowerPositive
  <2>4. y \in Int
    <3>1. v \in Int
      BY <1>3
    <3> QED
      BY <2>1, <2>3, <3>1, Split
  <2>5. (\A j \in (k + 1) .. AesBlockSize : f[j] = CounterRadix - 1) <=> LowAreFull(v, i)
    <3>1. ASSUME NEW j \in (k + 1) .. AesBlockSize, LowAreFull(v, i)
          PROVE  f[j] = CounterRadix - 1
      <4>1. j \in 1 .. AesBlockSize /\ AesBlockSize - j \in 0 .. (i - 1)
        BY <1>1, <2>1
      <4> QED
        BY <1>4, <3>1, <4>1 DEF LowAreFull
    <3>2. ASSUME NEW l \in 0 .. (i - 1),
                 \A j \in (k + 1) .. AesBlockSize : f[j] = CounterRadix - 1
          PROVE  DigitAt(v, l) = CounterRadix - 1
      <4>1. PICK j : j = AesBlockSize - l
        OBVIOUS
      <4>2. j \in (k + 1) .. AesBlockSize /\ j \in 1 .. AesBlockSize /\ AesBlockSize - j = l
        BY <1>1, <2>1, <4>1
      <4>3. f[j] = DigitAt(v, l)
        BY <1>4, <4>2
      <4> QED
        BY <3>2, <4>2, <4>3
    <3> QED
      BY <3>1, <3>2 DEF LowAreFull
  <2>6. LowAreFull(v, i) <=> v % p = p - 1
    BY <1>3, <2>1, <2>2, LowDigitsFull DEF LastOf
  <2>7. f[k] = y % CounterRadix
    BY <1>4, <2>1 DEF DigitAt
  <2>8. u \div p = IF v % p = p - 1 THEN y + 1 ELSE y
    BY <1>2, <1>3, <2>1, <2>3, QuotientOfNext, ZenonT(60)
  <2>9. DigitAt(u, i) = (u \div p) % CounterRadix
    BY <2>1 DEF DigitAt
  <2>10. ((y % CounterRadix) + 1) % CounterRadix = (y + 1) % CounterRadix
    <3>1. PICK o : o = 1
      OBVIOUS
    <3>2. o \in Int
      BY <3>1
    <3>3. ((y % CounterRadix) + o) % CounterRadix = (y + o) % CounterRadix
      BY <2>4, <3>2, RadixIs, RemainderPlus
    <3> QED
      BY <3>1, <3>3
  <2> QED
    BY <2>1, <2>5, <2>6, <2>7, <2>8, <2>9, <2>10
<1>7. CounterInc(f) = [k \in 1 .. AesBlockSize |->
          IF \A j \in (k + 1) .. AesBlockSize : f[j] = CounterRadix - 1
          THEN (f[k] + 1) % CounterRadix ELSE f[k]]
  BY DEF CounterInc
<1>8. CounterInc(f) = g
  BY <1>5, <1>6, <1>7
<1> QED
  BY <1>2, <1>8

-----------------------------------------------------------------------------
(* CTR.                                                                    *)

CountersFrom(first, full) ==
  LET cbuf[b \in 0 .. full] == IF b = 0 THEN first ELSE CounterInc(cbuf[b - 1]) IN cbuf

LEMMA CountersAre ==
  ASSUME NEW t \in Counters, NEW q \in Nat, NEW full \in Nat, NEW first,
         first = CounterOf(t, q + 1)
  PROVE  \A b \in 0 .. full : CountersFrom(first, full)[b] = CounterOf(t, q + b + 1)
<1> DEFINE P(u) == u = [b \in 0 .. full |-> IF b = 0 THEN first ELSE CounterInc(u[b - 1])]
           S == {b \in Nat : b <= full =>
                                CountersFrom(first, full)[b] = CounterOf(t, q + b + 1)}
<1>1. ASSUME NEW b \in 1 .. full
      PROVE  CounterOf(t, q + b + 1) = CounterInc(CounterOf(t, q + (b - 1) + 1))
  <2>1. PICK l, i : l = q + b /\ i = q + b + 1
    OBVIOUS
  <2>2. l \in Nat \ {0} /\ i = l + 1 /\ q + (b - 1) + 1 = l
    BY <2>1
  <2>3. CounterInc(CounterOf(t, l)) = CounterOf(t, i)
    BY <2>2, CounterNext
  <2> QED
    BY <2>1, <2>2, <2>3
<1>2. \E u : P(u)
  <2>1. PICK v : v = [b \in 0 .. full |-> CounterOf(t, q + b + 1)]
    OBVIOUS
  <2>2. ASSUME NEW b \in 0 .. full
        PROVE  v[b] = IF b = 0 THEN first ELSE CounterInc(v[b - 1])
    <3>1. CASE b = 0
      <4>1. q + b + 1 = q + 1
        BY <3>1
      <4> QED
        BY <2>1, <3>1, <4>1
    <3>2. CASE b # 0
      <4>1. b \in 1 .. full /\ b - 1 \in 0 .. full
        BY <3>2
      <4>2. v[b] = CounterOf(t, q + b + 1) /\ v[b - 1] = CounterOf(t, q + (b - 1) + 1)
        BY <2>1, <4>1
      <4> QED
        BY <1>1, <3>2, <4>1, <4>2
    <3> QED
      BY <3>1, <3>2
  <2>3. v = [b \in 0 .. full |-> IF b = 0 THEN first ELSE CounterInc(v[b - 1])]
    BY <2>1, <2>2
  <2> QED
    BY <2>3
<1>3. CountersFrom(first, full) = CHOOSE u : P(u)
  BY DEF CountersFrom
<1> HIDE DEF P
<1>4. P(CHOOSE u : P(u))
  BY <1>2
<1>5. PICK w : w = CountersFrom(first, full)
  OBVIOUS
<1>6. \A b \in 0 .. full : w[b] = IF b = 0 THEN first ELSE CounterInc(w[b - 1])
  BY <1>3, <1>4, <1>5 DEF P
<1>7. 0 \in S
  <2>1. 0 \in 0 .. full /\ q + 0 + 1 = q + 1
    OBVIOUS
  <2> QED
    BY <1>5, <1>6, <2>1
<1>8. ASSUME NEW b \in Nat, b \in S  PROVE b + 1 \in S
  <2>1. PICK i : i = b + 1
    OBVIOUS
  <2>2. SUFFICES ASSUME i <= full  PROVE w[i] = CounterOf(t, q + i + 1)
    BY <1>5, <2>1
  <2>3. i \in 0 .. full /\ i \in 1 .. full /\ i # 0 /\ i - 1 = b /\ b <= full
    BY <2>1, <2>2
  <2>4. w[b] = CounterOf(t, q + b + 1)
    BY <1>5, <1>8, <2>3
  <2>5. w[i] = CounterInc(w[b])
    BY <1>6, <2>3
  <2>6. CounterOf(t, q + i + 1) = CounterInc(CounterOf(t, q + (i - 1) + 1))
    BY <1>1, <2>3
  <2> QED
    BY <2>3, <2>4, <2>5, <2>6
<1> HIDE DEF S
<1>9. \A b \in Nat : b \in S
  BY <1>7, <1>8, Induction
<1> QED
  BY <1>9 DEF S

\* A byte of the key stream turns what is taken into what is given.
LEMMA CtrByte ==
  ASSUME NEW t, NEW e \in BOOLEAN, NEW q \in Nat, NEW x \in 1 .. AesBlockSize,
         NEW i, i = AesBlockSize * q + x
  PROVE  Xor2(TakenByte("ctr", e, t, i), Encrypt(CounterOf(t, q + 1))[x])
             = GivenByte("ctr", e, t, i)
<1>1. PICK b, E, u, y : /\ b = q + 1 /\ E = Encrypt(CounterOf(t, b)) /\ u = PlainByte(i)
                        /\ y = MadeByte("ctr", t, i)
  OBVIOUS
<1>2. b \in Nat \ {0}
  BY <1>1
<1>3. IsBlock(PlainBlock(b)) /\ IsBlock(E)
  BY <1>1, <1>2, PlainBlockIs, EncryptIsBlock
<1>4. y = MadeOf("ctr", t, b)[x] /\ PlainBlock(b)[x] = u
  BY <1>1, PlaceInBlock
<1>5. MadeOf("ctr", t, b) = XorBytes(PlainBlock(b), E)
  BY <1>1, MadeBlockIs
<1>6. y = Xor2(u, E[x])
  BY <1>3, <1>4, <1>5, XorBlocks
<1>7. Xor2(u, E[x]) = y /\ Xor2(y, E[x]) = u
  BY <1>6, XorTwice
<1>8. CASE e
  BY <1>1, <1>7, <1>8 DEF TakenByte, GivenByte
<1>9. CASE ~e
  BY <1>1, <1>7, <1>9 DEF TakenByte, GivenByte
<1> QED
  BY <1>8, <1>9

\* iv has the counter of block q + 1, p bytes of which are used.
CtrStands(iv, pos, t, a) ==
  \E q \in Nat, p \in 0 .. AesBlockSize :
      a = AesBlockSize * q + p /\ iv = CounterOf(t, q + 1) /\ pos = p

\* A result before a call, and after it.
CtrBegins(c, t, a) == c.out = << >> /\ CtrStands(c.iv, c.pos, t, a)
CtrMoved(c, e, t, a, z) ==
  CtrStands(c.iv, c.pos, t, z) /\ c.out = Given("ctr", e, t, a, z)

LEMMA CtrCall ==
  ASSUME NEW t \in Counters, NEW e \in BOOLEAN, NEW a \in Nat, NEW c, CtrBegins(c, t, a),
         NEW d, NEW n \in Nat, IsTaken(d, "ctr", e, t, a, n), NEW z, z = a + n
  PROVE  CtrMoved(CtrCrypt(c, d), e, t, a, z)
<1> SUFFICES ASSUME NEW after, after = CtrCrypt(c, d),
                    c.out = << >>, CtrStands(c.iv, c.pos, t, a)
             PROVE  CtrStands(after.iv, after.pos, t, z) /\ after.out = Given("ctr", e, t, a, z)
  BY DEF CtrBegins, CtrMoved
<1>1. AesBlockSize \in Nat \ {0}
  BY BlocksOfStream
<1>2. PICK q \in Nat, p \in 0 .. AesBlockSize :
          a = AesBlockSize * q + p /\ c.iv = CounterOf(t, q + 1) /\ c.pos = p
  BY DEF CtrStands
<1>3. Len(d) = n /\ \A k \in 1 .. n : d[k] = TakenByte("ctr", e, t, a + k)
  BY DEF IsTaken
<1>4. PICK left, head, rest, full, used, h, first :
          /\ left = AesBlockSize - p
          /\ head = IF p = 0 THEN 0 ELSE IF n < left THEN n ELSE left
          /\ rest = n - head
          /\ full = rest \div AesBlockSize
          /\ used = rest % AesBlockSize
          /\ h = IF p # 0 /\ rest > 0 THEN q + 1 ELSE q
          /\ first = IF p # 0 /\ rest > 0 THEN CounterInc(c.iv) ELSE c.iv
  OBVIOUS
<1>5. PICK cf, opening, body :
          /\ cf = CountersFrom(first, full)
          /\ opening = [k \in 1 .. head |-> Xor2(d[k], Encrypt(c.iv)[p + k])]
          /\ body = [k \in 1 .. rest |->
                       Xor2(d[head + k],
                            Encrypt(cf[(k - 1) \div AesBlockSize])[((k - 1) % AesBlockSize) + 1])]
  OBVIOUS
<1>6. after = [iv |-> cf[full], pos |-> IF rest > 0 THEN used ELSE p + head,
               out |-> << >> \o (opening \o body)]
  <2>1. CtrCrypt(c, d) =
          LET lft == AesBlockSize - p
              hd == IF p = 0 THEN 0 ELSE IF n < lft THEN n ELSE lft
              rst == n - hd
              fll == rst \div AesBlockSize
              fst == IF p # 0 /\ rst > 0 THEN CounterInc(c.iv) ELSE c.iv
              cb == CountersFrom(fst, fll)
              op == [k \in 1 .. hd |-> Xor2(d[k], Encrypt(c.iv)[p + k])]
              bd == [k \in 1 .. rst |->
                       Xor2(d[hd + k],
                            Encrypt(cb[(k - 1) \div AesBlockSize])[((k - 1) % AesBlockSize) + 1])]
          IN  Put(c, cb[fll], IF rst > 0 THEN rst % AesBlockSize ELSE p + hd, op \o bd)
    BY <1>2, <1>3, SMTT(30) DEF CtrCrypt, CountersFrom
  <2>2. CtrCrypt(c, d) = Put(c, cf[full], IF rest > 0 THEN used ELSE p + head, opening \o body)
    BY <1>4, <1>5, <2>1
  <2> QED
    BY <2>2 DEF Put
<1>7. head \in Nat /\ rest \in Nat /\ head + rest = n /\ p + head <= AesBlockSize
  <2>1. left \in Nat /\ p + left = AesBlockSize /\ p \in Nat /\ p <= AesBlockSize
    <3>1. left = AesBlockSize - p
      BY <1>4
    <3> QED
      BY <1>1, <3>1
  <2>2. head = (IF p = 0 THEN 0 ELSE IF n < left THEN n ELSE left) /\ rest = n - head
    BY <1>4
  <2>3. CASE p = 0
    BY <2>1, <2>2, <2>3
  <2>4. CASE p # 0 /\ n < left
    BY <2>1, <2>2, <2>4
  <2>5. CASE p # 0 /\ ~(n < left)
    BY <2>1, <2>2, <2>5
  <2> QED
    BY <2>3, <2>4, <2>5
<1>8. h \in Nat /\ (rest > 0 => a + head = AesBlockSize * h)
  <2>1. CASE p # 0 /\ rest > 0
    <3>1. head = left /\ h = q + 1
      BY <1>4, <1>7, <2>1
    <3>2. AesBlockSize * h = AesBlockSize * q + AesBlockSize
      BY <1>1, <3>1
    <3>3. AesBlockSize * q \in Nat
      BY <1>1
    <3> QED
      BY <1>1, <1>2, <1>4, <3>1, <3>2, <3>3
  <2>2. CASE ~(p # 0 /\ rest > 0)
    <3>1. h = q
      BY <1>4, <2>2
    <3>2. AesBlockSize * q \in Nat
      BY <1>1
    <3>3. rest > 0 => p = 0 /\ head = 0
      BY <1>4, <2>2
    <3> QED
      BY <1>2, <3>1, <3>2, <3>3
  <2> QED
    BY <2>1, <2>2
<1>9. first = CounterOf(t, h + 1)
  <2>1. CASE p # 0 /\ rest > 0
    <3>1. PICK b, l : b = q + 1 /\ l = b + 1
      OBVIOUS
    <3>2. b \in Nat \ {0} /\ l = h + 1
      BY <1>4, <2>1, <3>1
    <3>3. CounterInc(CounterOf(t, b)) = CounterOf(t, l)
      BY <3>1, <3>2, CounterNext
    <3> QED
      BY <1>2, <1>4, <2>1, <3>1, <3>2, <3>3
  <2>2. CASE ~(p # 0 /\ rest > 0)
    <3>1. h = q /\ first = c.iv
      BY <1>4, <2>2
    <3> QED
      BY <1>2, <3>1
  <2> QED
    BY <2>1, <2>2
<1>10. full \in Nat /\ used \in 0 .. (AesBlockSize - 1) /\ rest = AesBlockSize * full + used
  <2>1. rest \in Int
    BY <1>7
  <2> QED
    BY <1>1, <1>4, <1>7, <2>1, Split
<1>11. \A b \in 0 .. full : cf[b] = CounterOf(t, h + b + 1)
  BY <1>5, <1>8, <1>9, <1>10, CountersAre, SMTT(30)
<1>12. \A k \in 1 .. head : opening[k] = GivenByte("ctr", e, t, a + k)
  <2>1. SUFFICES ASSUME NEW k \in 1 .. head
                 PROVE  opening[k] = GivenByte("ctr", e, t, a + k)
    OBVIOUS
  <2>2. PICK x, i : x = p + k /\ i = a + k
    OBVIOUS
  <2>3. x \in 1 .. AesBlockSize /\ i = AesBlockSize * q + x /\ k \in 1 .. n
    <3>1. PICK y : y = AesBlockSize * q
      OBVIOUS
    <3>2. y \in Nat /\ a = y + p /\ p \in Nat /\ k \in Nat /\ 1 <= k /\ k <= head
      BY <1>1, <1>2, <1>7, <3>1
    <3>3. x \in Nat /\ 1 <= x /\ x <= AesBlockSize /\ i = y + x /\ k <= n
      BY <1>1, <1>7, <2>2, <3>2
    <3> QED
      BY <1>1, <3>1, <3>2, <3>3
  <2>4. Xor2(TakenByte("ctr", e, t, i), Encrypt(CounterOf(t, q + 1))[x]) = GivenByte("ctr", e, t, i)
    BY <2>3, CtrByte
  <2>5. d[k] = TakenByte("ctr", e, t, i)
    BY <1>3, <2>2, <2>3
  <2>6. opening[k] = Xor2(d[k], Encrypt(c.iv)[x])
    BY <1>5, <2>2
  <2> QED
    BY <1>2, <2>2, <2>4, <2>5, <2>6
<1>13. \A k \in 1 .. rest : body[k] = GivenByte("ctr", e, t, a + head + k)
  <2>1. SUFFICES ASSUME NEW k \in 1 .. rest
                 PROVE  body[k] = GivenByte("ctr", e, t, a + head + k)
    OBVIOUS
  <2>2. PICK l, u, v : l = k - 1 /\ u = l \div AesBlockSize /\ v = l % AesBlockSize
    OBVIOUS
  <2>3. u \in Nat /\ v \in 0 .. (AesBlockSize - 1) /\ l = AesBlockSize * u + v /\ l \in Nat
    <3>1. l \in Int /\ l \in Nat
      BY <2>2
    <3> QED
      BY <1>1, <2>2, <3>1, Split
  <2>4. u <= full
    <3>1. CASE u >= full + 1
      <4>1. AesBlockSize * u >= AesBlockSize * (full + 1)
        BY <1>1, <1>10, <2>3, <3>1
      <4>2. AesBlockSize * (full + 1) = AesBlockSize * full + AesBlockSize
        BY <1>1, <1>10
      <4>3. PICK f, g : f = AesBlockSize * full /\ g = AesBlockSize * u
        OBVIOUS
      <4>4. f \in Int /\ g \in Int /\ g >= f + AesBlockSize /\ l = g + v /\ rest = f + used
        BY <1>1, <1>10, <2>3, <4>1, <4>2, <4>3
      <4>5. l < rest
        BY <1>7, <2>2
      <4> QED
        BY <1>1, <1>10, <2>3, <4>4, <4>5
    <3> QED
      BY <1>10, <2>3, <3>1
  <2>5. PICK b, x, i, j : /\ b = h + u /\ x = v + 1 /\ i = a + head + k /\ j = head + k
    OBVIOUS
  <2>6. b \in Nat /\ x \in 1 .. AesBlockSize /\ j \in 1 .. n /\ a + j = i
    BY <1>1, <1>7, <1>8, <2>3, <2>5
  <2>7. i = AesBlockSize * b + x
    <3>1. AesBlockSize * (h + u) = AesBlockSize * h + AesBlockSize * u
      BY <1>1, <1>8, <2>3
    <3>2. PICK f, g : f = AesBlockSize * h /\ g = AesBlockSize * u
      OBVIOUS
    <3>3. f \in Int /\ g \in Int /\ a + head = f /\ l = g + v
      BY <1>1, <1>7, <1>8, <2>3, <3>2
    <3>4. v \in Int /\ k = l + 1 /\ i = (a + head) + k /\ l \in Int
      BY <1>7, <2>2, <2>3, <2>5
    <3>5. i = f + (g + (v + 1))
      BY <3>3, <3>4
    <3>6. AesBlockSize * b = f + g /\ x = v + 1
      BY <2>5, <3>1, <3>2
    <3> QED
      BY <3>3, <3>4, <3>5, <3>6
  <2>8. Xor2(TakenByte("ctr", e, t, i), Encrypt(CounterOf(t, b + 1))[x]) = GivenByte("ctr", e, t, i)
    BY <2>6, <2>7, CtrByte
  <2>9. d[j] = TakenByte("ctr", e, t, i)
    BY <1>3, <2>6
  <2>10. cf[u] = CounterOf(t, b + 1)
    <3>1. u \in 0 .. full
      BY <1>10, <2>3, <2>4
    <3> QED
      BY <1>11, <2>5, <3>1
  <2>11. body[k] = Xor2(d[j], Encrypt(cf[u])[x])
    BY <1>5, <2>2, <2>5
  <2> QED
    BY <2>5, <2>8, <2>9, <2>10, <2>11
<1>14. after.out = Given("ctr", e, t, a, z)
  <2>1. opening = [k \in 1 .. head |-> opening[k]] /\ body = [k \in 1 .. rest |-> body[k]]
    BY <1>5
  <2>2. Sequence(opening) /\ Len(opening) = head /\ Sequence(body) /\ Len(body) = rest
    BY <1>7, <2>1, SequenceOfFunction
  <2>3. PICK y, s, w : y = a + head /\ s = opening \o body /\ w = Given("ctr", e, t, a, y)
    OBVIOUS
  <2>4. y \in Nat /\ a <= y /\ z \in {y + rest} /\ head = y - a
    BY <1>7, <2>3
  <2>5. Gives(w, "ctr", e, t, a, head)
    BY <2>3, <2>4, GivenIs
  <2>6. w = opening
    <3>1. Sequence(w) /\ Len(w) = head /\ \A k \in 1 .. head : w[k] = GivenByte("ctr", e, t, a + k)
      BY <2>5 DEF Gives
    <3> QED
      BY <1>12, <2>2, <3>1, SameCells
  <2>7. Gives(body, "ctr", e, t, y, rest)
    BY <1>13, <2>2, <2>3 DEF Gives
  <2>8. Extends("ctr", e, t, a, y, body, z)
    BY <1>7, <2>4, <2>7, GivenMore
  <2>9. s = Given("ctr", e, t, a, z)
    BY <2>3, <2>6, <2>8 DEF Extends
  <2>10. << >> \o s = s
    <3>1. IsJoin(s, opening, body)
      BY <2>2, <2>3, Joined
    <3>2. Sequence(s)
      BY <3>1 DEF IsJoin
    <3> QED
      BY <3>2, ConcatEmptySeq DEF Sequence
  <2> QED
    BY <1>6, <2>3, <2>9, <2>10
<1>15. CtrStands(after.iv, after.pos, t, z)
  <2>1. cf[full] = CounterOf(t, h + full + 1)
    <3>1. full \in 0 .. full
      BY <1>10
    <3> QED
      BY <1>11, <3>1
  <2>2. CASE rest > 0
    <3>1. PICK b : b = h + full
      OBVIOUS
    <3>2. b \in Nat /\ used \in 0 .. AesBlockSize
      BY <1>1, <1>8, <1>10, <3>1
    <3>3. z = AesBlockSize * b + used
      <4>1. AesBlockSize * (h + full) = AesBlockSize * h + AesBlockSize * full
        BY <1>1, <1>8, <1>10
      <4>2. PICK f, g : f = AesBlockSize * h /\ g = AesBlockSize * full
        OBVIOUS
      <4>3. f \in Int /\ g \in Int /\ a + head = f /\ rest = g + used
        BY <1>1, <1>8, <1>10, <2>2, <4>2
      <4>4. used \in Int /\ z = (a + head) + rest
        BY <1>7, <1>10
      <4>5. z = f + (g + used)
        BY <4>3, <4>4
      <4>6. AesBlockSize * b = f + g
        BY <3>1, <4>1, <4>2
      <4> QED
        BY <4>3, <4>4, <4>5, <4>6
    <3>4. after.iv = CounterOf(t, b + 1) /\ after.pos = used
      BY <1>6, <2>1, <2>2, <3>1
    <3> QED
      BY <3>2, <3>3, <3>4 DEF CtrStands
  <2>3. CASE ~(rest > 0)
    <3>1. rest = 0 /\ h = q
      BY <1>4, <1>7, <2>3, SMTT(30)
    <3>2. full = 0
      <4>1. CASE full >= 1
        <5>1. AesBlockSize * full >= AesBlockSize
          BY <1>1, <1>10, <4>1
        <5>2. PICK f : f = AesBlockSize * full
          OBVIOUS
        <5>3. f \in Int /\ rest = f + used /\ f >= AesBlockSize
          BY <1>1, <1>10, <5>1, <5>2
        <5> QED
          BY <1>1, <1>10, <3>1, <5>3
      <4> QED
        BY <1>10, <4>1
    <3>3. PICK x : x = p + head
      OBVIOUS
    <3>4. x \in 0 .. AesBlockSize /\ z = AesBlockSize * q + x
      <4>1. AesBlockSize * q \in Nat
        BY <1>1
      <4> QED
        BY <1>1, <1>2, <1>7, <3>1, <3>3, <4>1
    <3>5. after.iv = CounterOf(t, q + 1) /\ after.pos = x
      <4>1. h + full + 1 = q + 1
        BY <3>1, <3>2
      <4> QED
        BY <1>6, <2>1, <2>3, <3>3, <4>1
    <3> QED
      BY <3>4, <3>5 DEF CtrStands
  <2> QED
    BY <2>2, <2>3
<1> QED
  BY <1>14, <1>15

-----------------------------------------------------------------------------
(* The stream.                                                             *)

\* A context that n bytes went through.
Stands(ctx, m, t, n) ==
  IF m = "ctr" THEN CtrStands(ctx.iv, ctx.pos, t, n)
  ELSE /\ ctx.iv = IvAt(m, t, n \div AesBlockSize, n % AesBlockSize)
       /\ ctx.pos = n % AesBlockSize
       /\ m \in {"ecb", "cbc"} => n % AesBlockSize = 0

StreamStarts(m, t) ==
  \/ m \in ByteModes /\ IsBlock(t)
  \/ m = "ctr" /\ t \in Counters

CipherStrong ==
  mode # "none" =>
    /\ StreamStarts(mode, start)
    /\ \E n \in Nat, l \in Nat :
         /\ n <= MaxStream /\ l <= n
         /\ Stands(sender, mode, start, n) /\ sent = Given(mode, TRUE, start, 0, n)
         /\ Stands(receiver, mode, start, l) /\ received = Given(mode, FALSE, start, 0, l)

\* A call moves a context on by the bytes it gives, or refuses them all.
\* A result that says the context was moved on by at most n bytes.
Emptied(ctx) == [iv |-> ctx.iv, pos |-> ctx.pos, out |-> << >>]
Kept(c) == [iv |-> c.iv, pos |-> c.pos]
MovedOn(c, m, e, t, a, n) ==
  \E l \in 0 .. n : /\ Stands(Kept(c), m, t, a + l)
                    /\ c.out = Given(m, e, t, a, a + l)

LEMMA CallStands ==
  ASSUME NEW m, NEW t, StreamStarts(m, t), NEW e \in BOOLEAN, NEW a \in Nat,
         NEW ctx, Stands(ctx, m, t, a),
         NEW d, NEW n \in Nat, IsTaken(d, m, e, t, a, n), a + n <= MaxStream
  PROVE  MovedOn(Crypted(m, e, Emptied(ctx), d), m, e, t, a, n)
<1> SUFFICES ASSUME NEW c, c = Crypted(m, e, [iv |-> ctx.iv, pos |-> ctx.pos, out |-> << >>], d),
                    NEW after, after = [iv |-> c.iv, pos |-> c.pos]
             PROVE  \E l \in 0 .. n : /\ Stands(after, m, t, a + l)
                                      /\ c.out = Given(m, e, t, a, a + l)
  BY DEF MovedOn, Emptied, Kept
<1>1. PICK c0, z, o : /\ c0 = [iv |-> ctx.iv, pos |-> ctx.pos, out |-> << >>]
                      /\ z = a + n /\ o = a + 0
  OBVIOUS
<1>2. c = Crypted(m, e, c0, d)
  BY <1>1
<1>3. n \in 0 .. n /\ 0 \in 0 .. n /\ o = a /\ z \in Nat /\ z <= MaxStream
  BY <1>1
<1>4. Given(m, e, t, a, a) = << >>
  <2>1. Given(m, e, t, a, a) = [j \in 1 .. 0 |-> GivenByte(m, e, t, a + j)]
    BY DEF Given
  <2> QED
    BY <2>1
<1>5. CASE m = "ctr"
  <2>1. t \in Counters
    BY <1>5 DEF StreamStarts, ByteModes
  <2>2. c = CtrCrypt(c0, d)
    BY <1>2, <1>5 DEF Crypted
  <2>3. CtrBegins(c0, t, a)
    BY <1>1, <1>5 DEF Stands, CtrBegins
  <2>4. IsTaken(d, "ctr", e, t, a, n)
    BY <1>5
  <2>5. CtrStands(c.iv, c.pos, t, z) /\ c.out = Given("ctr", e, t, a, z)
    <3>1. CtrMoved(CtrCrypt(c0, d), e, t, a, z)
      BY <1>1, <2>1, <2>3, <2>4, CtrCall
    <3> QED
      BY <2>2, <3>1 DEF CtrMoved
  <2>6. Stands(after, m, t, z)
    BY <1>5, <2>5 DEF Stands
  <2> QED
    BY <1>1, <1>3, <1>5, <2>5, <2>6
<1>6. CASE m \in ByteModes
  <2>1. m # "ctr" /\ IsBlock(t)
    BY <1>6 DEF StreamStarts, ByteModes
  <2>2. c0 = CallAt(m, e, t, a, a)
    BY <1>1, <1>4, <2>1 DEF Stands, CallAt
  <2>3. ASSUME c = CallAt(m, e, t, a, z), m \in {"ecb", "cbc"} => z % AesBlockSize = 0
        PROVE  Stands(after, m, t, z) /\ c.out = Given(m, e, t, a, z)
    <3>1. /\ c.iv = IvAt(m, t, z \div AesBlockSize, z % AesBlockSize)
          /\ c.pos = z % AesBlockSize /\ c.out = Given(m, e, t, a, z)
      BY <2>3 DEF CallAt
    <3> QED
      BY <2>1, <2>3, <3>1 DEF Stands
  <2>4. CASE m \in {"ecb", "cbc"}
    <3>1. c = ByBlocks(m, e, c0, d)
      BY <1>2, <2>4 DEF Crypted
    <3>2. a % AesBlockSize = 0
      BY <2>1, <2>4 DEF Stands
    <3>3. CASE n % AesBlockSize = 0
      <4>1. ByBlocks(m, e, CallAt(m, e, t, a, a), d) = CallAt(m, e, t, a, z)
        BY <1>1, <1>3, <2>1, <2>4, <3>2, <3>3, BlockCall
      <4>2. z % AesBlockSize = 0
        <5>1. AesBlockSize \in Nat \ {0} /\ a \in Int /\ n \in Int
          BY BlocksOfStream
        <5>2. PICK q : q = n \div AesBlockSize
          OBVIOUS
        <5>3. q \in Int /\ n = AesBlockSize * q + (n % AesBlockSize)
          BY <5>1, <5>2, Split
        <5>4. z = a + AesBlockSize * q
          BY <1>1, <3>3, <5>1, <5>3
        <5>5. z % AesBlockSize = a % AesBlockSize
          BY <5>1, <5>3, <5>4, RemainderKept
        <5> QED
          BY <3>2, <5>5
      <4>3. Stands(after, m, t, z) /\ c.out = Given(m, e, t, a, z)
        BY <2>2, <2>3, <3>1, <4>1, <4>2
      <4> QED
        BY <1>1, <1>3, <4>3
    <3>4. CASE n % AesBlockSize # 0
      <4>1. Len(d) = n
        BY DEF IsTaken
      <4>2. c = c0
        BY <3>1, <3>4, <4>1 DEF ByBlocks
      <4>3. Stands(after, m, t, a) /\ c.out = Given(m, e, t, a, a)
        <5>1. c.iv = ctx.iv /\ c.pos = ctx.pos /\ c.out = << >>
          BY <1>1, <4>2
        <5>2. after.iv = ctx.iv /\ after.pos = ctx.pos
          BY <5>1
        <5> QED
          BY <1>4, <2>1, <5>1, <5>2 DEF Stands
      <4> QED
        BY <1>1, <1>3, <4>3
    <3> QED
      BY <3>3, <3>4
  <2>5. CASE m \in {"cfb", "ofb"}
    <3>1. c = ByPhases(m, e, c0, d)
      BY <1>2, <2>5 DEF Crypted
    <3>2. ByPhases(m, e, CallAt(m, e, t, a, a), d) = CallAt(m, e, t, a, z)
      BY <1>1, <1>3, <2>1, <2>5, PhasesCall
    <3>3. ~(m \in {"ecb", "cbc"})
      BY <2>5
    <3>4. Stands(after, m, t, z) /\ c.out = Given(m, e, t, a, z)
      BY <2>2, <2>3, <3>1, <3>2, <3>3
    <3> QED
      BY <1>1, <1>3, <3>4
  <2> QED
    BY <1>6, <2>4, <2>5 DEF ByteModes
<1> QED
  BY <1>5, <1>6 DEF StreamStarts

LEMMA GivenAppended ==
  ASSUME NEW m, NEW e, NEW t, NEW n \in Nat, NEW l \in Nat, NEW z, z = n + l
  PROVE  Extends(m, e, t, 0, n, Given(m, e, t, n, z), z)
<1>1. PICK s, a : s = Given(m, e, t, n, z) /\ a = 0
  OBVIOUS
<1>2. z \in Nat /\ n <= z /\ l = z - n /\ z \in {n + l} /\ a \in Nat /\ a <= n
  BY <1>1
<1>3. Gives(s, m, e, t, n, l)
  BY <1>1, <1>2, GivenIs
<1>4. Extends(m, e, t, a, n, s, z)
  BY <1>2, <1>3, GivenMore
<1> QED
  BY <1>1, <1>4

LEMMA CipherStrongInit == CipherInit => CipherStrong
  BY DEF CipherInit, CipherStrong

\* The first n bytes are on their way.
LEMMA StreamLength ==
  ASSUME NEW m, NEW e, NEW t, NEW n \in Nat
  PROVE  /\ Sequence(Given(m, e, t, 0, n)) /\ Len(Given(m, e, t, 0, n)) = n
         /\ \A k \in 1 .. n : Given(m, e, t, 0, n)[k] = GivenByte(m, e, t, k)
<1>1. PICK g, a : g = Given(m, e, t, a, n) /\ a = 0
  OBVIOUS
<1>2. a \in Nat /\ a <= n /\ n = n - a
  BY <1>1
<1>3. Gives(g, m, e, t, a, n)
  BY <1>1, <1>2, GivenIs
<1>4. Sequence(g) /\ Len(g) = n /\ \A k \in 1 .. n : g[k] = GivenByte(m, e, t, a + k)
  BY <1>3 DEF Gives
<1>5. \A k \in 1 .. n : a + k = k
  BY <1>1
<1> QED
  BY <1>1, <1>4, <1>5

LEMMA PlainTaken ==
  ASSUME NEW m, NEW t, NEW a \in Nat, NEW n \in Nat
  PROVE  IsTaken(PlainBytes(a, n), m, TRUE, t, a, n)
<1>1. PICK d : d = PlainBytes(a, n)
  OBVIOUS
<1>2. d = [k \in 1 .. n |-> {<<"plain", a + k>>}]
  BY <1>1 DEF PlainBytes
<1>3. d = [k \in 1 .. n |-> d[k]]
  BY <1>2
<1>4. Len(d) = n
  BY <1>3, SequenceOfFunction
<1>5. \A k \in 1 .. n : d[k] = TakenByte(m, TRUE, t, a + k)
  BY <1>2 DEF TakenByte, PlainByte
<1> QED
  BY <1>1, <1>4, <1>5 DEF IsTaken

LEMMA CipherTaken ==
  ASSUME NEW m, NEW t, NEW i \in Nat, NEW a \in Nat, NEW n \in Nat, a + n <= i,
         NEW s, s = Given(m, TRUE, t, 0, i),
         NEW d, d = SubSeq(s, a + 1, a + n)
  PROVE  IsTaken(d, m, FALSE, t, a, n)
<1>1. Sequence(s) /\ Len(s) = i /\ \A k \in 1 .. i : s[k] = GivenByte(m, TRUE, t, k)
  BY StreamLength
<1>2. PICK x, y : x = a + 1 /\ y = a + n
  OBVIOUS
<1>3. x \in Nat \ {0} /\ y \in Nat /\ y <= Len(s)
  <2>1. a + 1 \in Nat \ {0} /\ a + n \in Nat
    OBVIOUS
  <2> QED
    BY <1>1, <1>2, <2>1
<1>4. IsPart(d, s, x, y)
  BY <1>1, <1>2, <1>3, PartOf
<1>5. /\ Len(d) = IF x <= y THEN y - x + 1 ELSE 0
      /\ \A k \in 1 .. Len(d) : d[k] = s[x + k - 1]
  BY <1>4 DEF IsPart
<1>6. Len(d) = n
  <2>1. x <= y <=> n # 0
    BY <1>2
  <2>2. y - x + 1 = n
    BY <1>2
  <2> QED
    BY <1>5, <2>1, <2>2
<1>7. ASSUME NEW k \in 1 .. n  PROVE d[k] = TakenByte(m, FALSE, t, a + k)
  <2>1. PICK j : j = a + k
    OBVIOUS
  <2>2. j \in 1 .. i /\ x + k - 1 = j
    BY <1>2, <2>1
  <2>3. d[k] = s[x + k - 1]
    BY <1>5, <1>6
  <2>4. s[j] = GivenByte(m, TRUE, t, j)
    BY <1>1, <2>2
  <2> QED
    BY <2>1, <2>2, <2>3, <2>4 DEF GivenByte, TakenByte
<1> QED
  BY <1>6, <1>7 DEF IsTaken

LEMMA CipherStrongStep == CipherStrong /\ [CipherNext]_cipherVars => CipherStrong'
<1>0. AesBlockSize \in Nat \ {0} /\ MaxStream \in Nat /\ CallLengths \subseteq Nat
  BY CipherAssumption
<1>1. SUFFICES ASSUME CipherStrong, [CipherNext]_cipherVars  PROVE CipherStrong'
  OBVIOUS
<1>2. ASSUME NEW m, NEW t, AesModeReset(m, t), StreamStarts(m, t)
      PROVE  CipherStrong'
  <2>1. /\ mode' = m /\ start' = t /\ sender' = [iv |-> t, pos |-> 0]
        /\ receiver' = [iv |-> t, pos |-> 0] /\ sent' = << >> /\ received' = << >>
    BY <1>2 DEF AesModeReset
  <2>2. PICK c, o : c = [iv |-> t, pos |-> 0] /\ o = 0
    OBVIOUS
  <2>3. c.iv = t /\ c.pos = o /\ o \in Nat /\ o <= MaxStream /\ o <= o
    BY <1>0, <2>2
  <2>4. o \div AesBlockSize = 0 /\ o % AesBlockSize = 0
    <3>1. o \in Int /\ o \in 0 .. (AesBlockSize - 1) /\ o = AesBlockSize * o + o
      BY <1>0, <2>2
    <3>2. o % AesBlockSize = o /\ o \div AesBlockSize = o
      BY <1>0, <3>1, Divided
    <3> QED
      BY <2>2, <3>2
  <2>5. Stands(c, m, t, o)
    <3>1. CASE m = "ctr"
      <4>1. t \in Counters
        BY <1>2, <3>1 DEF StreamStarts, ByteModes
      <4>2. CounterOf(t, 0 + 1) = t
        BY <4>1, StartIsNumber
      <4>3. 0 \in Nat /\ o \in 0 .. AesBlockSize /\ o = AesBlockSize * 0 + o
        BY <1>0, <2>2
      <4>4. CtrStands(c.iv, c.pos, t, o)
        BY <2>3, <4>2, <4>3 DEF CtrStands
      <4> QED
        BY <3>1, <4>4 DEF Stands
    <3>2. CASE m # "ctr"
      <4>1. IvAt(m, t, 0, 0) = t
        BY FedIs DEF IvAt
      <4> QED
        BY <2>2, <2>3, <2>4, <3>2, <4>1 DEF Stands
    <3> QED
      BY <3>1, <3>2
  <2>6. \A e \in BOOLEAN : Given(m, e, t, 0, o) = << >>
    <3>1. \A e \in BOOLEAN : Given(m, e, t, 0, o) = [j \in 1 .. 0 |-> GivenByte(m, e, t, 0 + j)]
      BY <2>2 DEF Given
    <3> QED
      BY <3>1
  <2> QED
    BY <1>2, <2>1, <2>2, <2>3, <2>5, <2>6 DEF CipherStrong
<1>3. CASE StartStream
  <2>1. CASE \E m \in {"ecb", "cbc", "cfb", "ofb"} : AesModeReset(m, SomeIv)
    <3>1. PICK m \in {"ecb", "cbc", "cfb", "ofb"} : AesModeReset(m, SomeIv)
      BY <2>1
    <3>2. IsBlock(SomeIv)
      BY DEF IsBlock, SomeIv
    <3>3. StreamStarts(m, SomeIv)
      BY <3>2 DEF StreamStarts, ByteModes
    <3> QED
      BY <1>2, <3>1, <3>3
  <2>2. CASE \E t \in Counters : AesModeReset("ctr", t)
    <3>1. PICK t \in Counters : AesModeReset("ctr", t)
      BY <2>2
    <3>2. StreamStarts("ctr", t)
      BY DEF StreamStarts
    <3> QED
      BY <1>2, <3>1, <3>2
  <2> QED
    BY <1>3, <2>1, <2>2 DEF StartStream
<1>4. ASSUME NEW n \in CallLengths, EncryptCall(n)  PROVE CipherStrong'
  <2>1. mode # "none" /\ Len(sent) + n <= MaxStream
    BY <1>4 DEF EncryptCall
  <2>2. PICK i \in Nat, l \in Nat :
           /\ i <= MaxStream /\ l <= i
           /\ Stands(sender, mode, start, i) /\ sent = Given(mode, TRUE, start, 0, i)
           /\ Stands(receiver, mode, start, l) /\ received = Given(mode, FALSE, start, 0, l)
    BY <1>1, <2>1 DEF CipherStrong
  <2>3. StreamStarts(mode, start)
    BY <1>1, <2>1 DEF CipherStrong
  <2>4. n \in Nat /\ Len(sent) = i /\ i + n <= MaxStream
    <3>1. Len(sent) = i
      <4>1. Len(Given(mode, TRUE, start, 0, i)) = i
        BY StreamLength
      <4> QED
        BY <2>2, <4>1
    <3> QED
      BY <1>0, <2>1, <3>1
  <2>5. PICK d, c, after : /\ d = PlainBytes(i, n)
                           /\ c = Crypted(mode, TRUE, Emptied(sender), d) /\ after = Kept(c)
    OBVIOUS
  <2>6. /\ sender' = after /\ sent' = sent \o c.out
        /\ UNCHANGED <<mode, start, receiver, received>>
    BY <1>4, <2>4, <2>5 DEF EncryptCall, Encrypted, Emptied, Kept
  <2>7. IsTaken(d, mode, TRUE, start, i, n)
    BY <2>4, <2>5, PlainTaken
  <2>8. PICK w \in 0 .. n : /\ Stands(after, mode, start, i + w)
                            /\ c.out = Given(mode, TRUE, start, i, i + w)
    <3>1. MovedOn(Crypted(mode, TRUE, Emptied(sender), d), mode, TRUE, start, i, n)
      BY <2>2, <2>3, <2>4, <2>7, CallStands
    <3> QED
      BY <2>5, <3>1 DEF MovedOn
  <2>9. PICK z : z = i + w
    OBVIOUS
  <2>10. w \in Nat /\ z \in Nat /\ z <= MaxStream /\ l <= z
    BY <1>0, <2>2, <2>4, <2>9
  <2>11. sent' = Given(mode, TRUE, start, 0, z)
    <3>1. Extends(mode, TRUE, start, 0, i, Given(mode, TRUE, start, i, z), z)
      BY <2>9, <2>10, GivenAppended
    <3> QED
      BY <2>2, <2>6, <2>8, <2>9, <3>1 DEF Extends
  <2>12. Stands(sender', mode, start, z)
    BY <2>6, <2>8, <2>9
  <2> QED
    BY <2>2, <2>3, <2>6, <2>10, <2>11, <2>12 DEF CipherStrong
<1>5. ASSUME NEW n \in CallLengths, DecryptCall(n)  PROVE CipherStrong'
  <2>1. mode # "none" /\ Len(received) + n <= Len(sent)
    BY <1>5 DEF DecryptCall
  <2>2. PICK i \in Nat, l \in Nat :
           /\ i <= MaxStream /\ l <= i
           /\ Stands(sender, mode, start, i) /\ sent = Given(mode, TRUE, start, 0, i)
           /\ Stands(receiver, mode, start, l) /\ received = Given(mode, FALSE, start, 0, l)
    BY <1>1, <2>1 DEF CipherStrong
  <2>3. StreamStarts(mode, start)
    BY <1>1, <2>1 DEF CipherStrong
  <2>4. n \in Nat /\ Len(received) = l /\ l + n <= i /\ l + n <= MaxStream
    <3>1. Len(sent) = i /\ Len(received) = l
      <4>1. Len(Given(mode, TRUE, start, 0, i)) = i /\ Len(Given(mode, FALSE, start, 0, l)) = l
        BY StreamLength
      <4> QED
        BY <2>2, <4>1
    <3>2. n \in Nat
      BY <1>0
    <3>3. l + n <= i
      BY <2>1, <3>1
    <3>4. PICK x : x = l + n
      OBVIOUS
    <3>5. x \in Nat /\ x <= i /\ i <= MaxStream
      BY <2>2, <3>2, <3>3, <3>4
    <3>6. x <= MaxStream
      BY <1>0, <3>5
    <3> QED
      BY <3>1, <3>2, <3>3, <3>4, <3>6
  <2>5. PICK d, c, after : /\ d = SubSeq(sent, l + 1, l + n)
                           /\ c = Crypted(mode, FALSE, Emptied(receiver), d) /\ after = Kept(c)
    OBVIOUS
  <2>6. /\ receiver' = after /\ received' = received \o c.out
        /\ UNCHANGED <<mode, start, sender, sent>>
    BY <1>5, <2>4, <2>5 DEF DecryptCall, Decrypted, Emptied, Kept
  <2>7. IsTaken(d, mode, FALSE, start, l, n)
    BY <2>2, <2>4, <2>5, CipherTaken
  <2>8. PICK w \in 0 .. n : /\ Stands(after, mode, start, l + w)
                            /\ c.out = Given(mode, FALSE, start, l, l + w)
    <3>1. MovedOn(Crypted(mode, FALSE, Emptied(receiver), d), mode, FALSE, start, l, n)
      BY <2>2, <2>3, <2>4, <2>7, CallStands
    <3> QED
      BY <2>5, <3>1 DEF MovedOn
  <2>9. PICK z : z = l + w
    OBVIOUS
  <2>10. w \in Nat /\ z \in Nat /\ z <= i
    BY <2>2, <2>4, <2>9
  <2>11. received' = Given(mode, FALSE, start, 0, z)
    <3>1. Extends(mode, FALSE, start, 0, l, Given(mode, FALSE, start, l, z), z)
      BY <2>9, <2>10, GivenAppended
    <3> QED
      BY <2>2, <2>6, <2>8, <2>9, <3>1 DEF Extends
  <2>12. Stands(receiver', mode, start, z)
    BY <2>6, <2>8, <2>9
  <2> QED
    BY <2>2, <2>3, <2>6, <2>10, <2>11, <2>12 DEF CipherStrong
<1>6. CASE UNCHANGED cipherVars
  BY <1>1, <1>6 DEF cipherVars, CipherStrong
<1> QED
  BY <1>1, <1>3, <1>4, <1>5, <1>6 DEF CipherNext

LEMMA StandardFromCipher == CipherStrong => StreamIsStandard
<1>1. SUFFICES ASSUME CipherStrong, mode # "none"
               PROVE  /\ sent = SubSeq(Standard, 1, Len(sent))
                      /\ received = PlainBytes(0, Len(received))
  BY DEF StreamIsStandard
<1>2. PICK n \in Nat, l \in Nat :
         /\ n <= MaxStream /\ l <= n
         /\ sent = Given(mode, TRUE, start, 0, n) /\ received = Given(mode, FALSE, start, 0, l)
  BY <1>1 DEF CipherStrong
<1>3. MaxStream \in Nat
  BY BlocksOfStream
<1>4. /\ Sequence(sent) /\ Len(sent) = n
      /\ \A k \in 1 .. n : sent[k] = GivenByte(mode, TRUE, start, k)
  BY <1>2, StreamLength
<1>5. /\ Sequence(received) /\ Len(received) = l
      /\ \A k \in 1 .. l : received[k] = GivenByte(mode, FALSE, start, k)
  BY <1>2, StreamLength
<1>6. PICK s, f : s = Standard /\ f = SubSeq(Standard, 1, n)
  OBVIOUS
<1>7. s = [k \in 1 .. MaxStream |-> MadeByte(mode, start, k)]
  BY <1>6 DEF Standard, MadeByte
<1>8. Sequence(s) /\ Len(s) = MaxStream
  <2>1. s = [k \in 1 .. MaxStream |-> s[k]]
    BY <1>7
  <2> QED
    BY <1>3, <2>1, SequenceOfFunction
<1>9. Sequence(f) /\ Len(f) = n /\ \A k \in 1 .. n : f[k] = s[k]
  BY <1>2, <1>6, <1>8, PrefixOf
<1>10. \A k \in 1 .. n : sent[k] = f[k]
  <2>1. \A k \in 1 .. n : k \in 1 .. MaxStream
    BY <1>2, <1>3
  <2> QED
    BY <1>4, <1>7, <1>9, <2>1 DEF GivenByte
<1>11. sent = f
  BY <1>4, <1>9, <1>10, SameCells
<1>12. received = PlainBytes(0, l)
  <2>1. received = [k \in 1 .. l |-> received[k]]
    BY <1>5, SequenceShape
  <2>2. \A k \in 1 .. l : received[k] = {<<"plain", 0 + k>>}
    <3>1. \A k \in 1 .. l : 0 + k = k
      OBVIOUS
    <3> QED
      BY <1>5, <3>1 DEF GivenByte, PlainByte
  <2> QED
    BY <2>1, <2>2 DEF PlainBytes
<1> QED
  BY <1>4, <1>5, <1>6, <1>11, <1>12

\* In every mode, with blocks, counters and streams of any length that are
\* cut into calls of any length, the bytes written are those of the standard,
\* and the receiver, who cuts the stream elsewhere, gets the plaintext.
THEOREM StreamCorrect == CipherSpec => []StreamIsStandard
<1>1. CipherInit => CipherStrong
  BY CipherStrongInit
<1>2. CipherStrong /\ [CipherNext]_cipherVars => CipherStrong'
  BY CipherStrongStep
<1>3. CipherStrong => StreamIsStandard
  BY StandardFromCipher
<1> QED
  BY <1>1, <1>2, <1>3, PTL DEF CipherSpec
=============================================================================
