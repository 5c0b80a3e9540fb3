---------------------------- MODULE HDNode_proofs ----------------------------
(***************************************************************************)
(* Proofs about ios/Classes/ecdsa.c and bip32.c.  Signatures (Ecdsa): what *)
(* is signed is verified, what is accepted is a signature, the recovery    *)
(* byte leads to the signer's key, and the keys that are read are points.  *)
(* Nodes (HDNode): a watcher's are the public halves of the holder's.      *)
(* Multiples (ScalarMultiply): the formulas in Jacobian coordinates and    *)
(* both loops give the multiple.  All of it is for every hash and every    *)
(* curve that is a group of prime order.  Cached derivation implements     *)
(* plain derivation (NodeCache).                                           *)
(***************************************************************************)
EXTENDS HDNode, NodeCache, ScalarMultiply, Hash_proofs

-----------------------------------------------------------------------------
(* Inverses modulo the order.                                              *)

LEMMA CurveIs ==
  ASSUME NEW c \in Curves, NEW n, n = c.order, NEW p, p = c.prime, NEW q, q = 2 ^ NumberBits
  PROVE  /\ n \in Nat /\ p \in Nat /\ q \in Nat
         /\ 3 <= n /\ n % 2 = 1 /\ n <= p /\ p < q /\ q < 2 * n /\ 2 * q <= 3 * n
         /\ p % 2 = 1 /\ 3 <= p
         /\ \A d \in 2 .. (n - 1) : n % d # 0
         /\ \A d \in 2 .. (p - 1) : p % d # 0
         /\ c.a \in -3 .. 0 /\ c.b \in 1 .. (p - 1)
<1>1. PICK h : h = ByteRange
  OBVIOUS
<1>2. h * h = q /\ h % 2 = 0
  BY <1>1, EcdsaAssumption
<1>3. q \in Int
  BY FieldAssumption
<1>4. PICK w : w = 2 ^ (NumberBits - WindowBits) + 1
  OBVIOUS
<1>5. /\ p \in 1 .. (q - 1) /\ p % 4 = 3 /\ n \in w .. p
      /\ 2 * q <= 3 * n
      /\ \A d \in 2 .. (n - 1) : n % d # 0
      /\ \A d \in 2 .. (p - 1) : p % d # 0
      /\ c.a \in -3 .. 0 /\ c.b \in 1 .. (p - 1)
  BY <1>4, CurveAssumption
<1>6. n \in Int /\ p \in Int
  BY <1>3, <1>5
<1>7. q > 0
  BY <1>3, <1>5
<1>8. n > 0 /\ q < 2 * n
  BY <1>3, <1>5, <1>6, <1>7
<1>9. 3 <= p /\ p % 2 = 1
  <2>1. p % 4 = 3 /\ p >= 1
    BY <1>5
  <2> QED
    BY <1>6, <2>1
<1>10. 3 <= n
  <2>1. q >= 4
    BY <1>5, <1>6, <1>9, <1>3
  <2> QED
    BY <2>1, <1>3, <1>5, <1>6
<1>11. n % 2 = 1
  <2>1. n % 2 # 0
    <3>1. \A d \in 2 .. (n - 1) : n % d # 0
      BY <1>5
    <3> QED
      BY <1>6, <1>10, <3>1
  <2> QED
    BY <1>6, <2>1
<1> QED
  BY <1>3, <1>5, <1>6, <1>7, <1>8, <1>9, <1>10, <1>11

NextInverse(m, v, f) == IF v <= 1 THEN v ELSE ((m - m \div v) * f[m % v]) % m
IsInverses(f, m) == f = [v \in 0 .. (m - 1) |-> NextInverse(m, v, f)]

LEMMA InversesExist ==
  ASSUME NEW m \in Nat, 2 <= m
  PROVE  \E f \in [0 .. (m - 1) -> Int] : IsInverses(f, m)
<1> DEFINE T == {n \in Nat : \E f \in [0 .. n -> Int] :
                                \A v \in 0 .. n : f[v] = NextInverse(m, v, f)}
<1>1. 0 \in T
  <2>1. PICK f : f = [v \in 0 .. 0 |-> 0]
    OBVIOUS
  <2>2. f \in [0 .. 0 -> Int] /\ \A v \in 0 .. 0 : f[v] = NextInverse(m, v, f)
    BY <2>1 DEF NextInverse
  <2> QED
    BY <2>2
<1>2. ASSUME NEW n \in Nat, n \in T  PROVE n + 1 \in T
  <2>1. PICK f \in [0 .. n -> Int] : \A v \in 0 .. n : f[v] = NextInverse(m, v, f)
    BY <1>2
  <2>2. PICK k, z : k = n + 1 /\ z = NextInverse(m, k, f)
    OBVIOUS
  <2>3. k \in Nat \ {0} /\ n \in Nat /\ n = k - 1
    BY <2>2
  <2>4. ASSUME NEW v \in 0 .. k, v > 1  PROVE m % v \in 0 .. n
    <3>1. v \in Nat \ {0} /\ m \in Int /\ v - 1 <= n
      BY <2>3, <2>4
    <3>2. m % v \in 0 .. (v - 1)
      BY <3>1, Split
    <3> QED
      BY <2>3, <3>1, <3>2
  <2>5. z \in Int
    <3>1. CASE k <= 1
      BY <2>2, <2>3, <3>1 DEF NextInverse
    <3>2. CASE k > 1
      <4>1. PICK d, e : d = m \div k /\ e = f[m % k]
        OBVIOUS
      <4>2. d \in Int /\ e \in Int
        <5>1. m % k \in 0 .. n
          BY <2>3, <2>4, <3>2
        <5>2. d \in Int
          BY <2>3, <4>1, Split
        <5> QED
          BY <2>1, <4>1, <5>1, <5>2
      <4>3. z = ((m - d) * e) % m
        BY <2>2, <2>3, <3>2, <4>1 DEF NextInverse
      <4> QED
        BY <4>2, <4>3
    <3> QED
      BY <2>3, <3>1, <3>2
  <2>6. PICK g : g = [v \in 0 .. k |-> IF v = k THEN z ELSE f[v]]
    OBVIOUS
  <2>7. g \in [0 .. k -> Int] /\ \A v \in 0 .. n : g[v] = f[v]
    BY <2>1, <2>3, <2>5, <2>6
  <2>8. ASSUME NEW v \in 0 .. k  PROVE g[v] = NextInverse(m, v, g)
    <3>1. NextInverse(m, v, g) = NextInverse(m, v, f)
      <4>1. v > 1 => g[m % v] = f[m % v]
        BY <2>4, <2>7
      <4> QED
        BY <4>1, <2>3 DEF NextInverse
    <3>2. CASE v = k
      BY <2>2, <2>6, <3>1, <3>2
    <3>3. CASE v # k
      BY <2>1, <2>3, <2>7, <3>1, <3>3
    <3> QED
      BY <3>2, <3>3
  <2>9. k \in T
    BY <2>3, <2>7, <2>8
  <2> QED
    BY <2>2, <2>9
<1> HIDE DEF T
<1>3. \A n \in Nat : n \in T
  BY <1>1, <1>2, Induction
<1>4. m - 1 \in T
  BY <1>3
<1>5. PICK f \in [0 .. (m - 1) -> Int] : \A v \in 0 .. (m - 1) : f[v] = NextInverse(m, v, f)
  BY <1>4 DEF T
<1>6. f = [v \in 0 .. (m - 1) |-> NextInverse(m, v, f)]
  BY <1>5
<1> QED
  BY <1>6 DEF IsInverses

\* For a prime, the entry of a number is its inverse: each leads to that of a
\* smaller number, which the prime leaves when it is divided.
LEMMA InversesAre ==
  ASSUME NEW m \in Nat, 2 <= m, \A d \in 2 .. (m - 1) : m % d # 0,
         NEW f, IsInverses(f, m)
  PROVE  \A v \in 1 .. (m - 1) : f[v] \in 1 .. (m - 1) /\ (v * f[v]) % m = 1
<1> DEFINE Good(v) == f[v] \in 1 .. (m - 1) /\ (v * f[v]) % m = 1
           T == {n \in Nat : \A v \in 1 .. (m - 1) : v <= n => Good(v)}
<1>0. \A v \in 0 .. (m - 1) : f[v] = NextInverse(m, v, f)
  BY DEF IsInverses
<1>1. 0 \in T
  OBVIOUS
<1>2. ASSUME NEW n \in Nat, n \in T  PROVE n + 1 \in T
  <2>1. SUFFICES ASSUME NEW v \in 1 .. (m - 1), v = n + 1  PROVE Good(v)
    BY <1>2
  <2>2. CASE v = 1
    <3>1. f[v] = 1
      BY <1>0, <2>2 DEF NextInverse
    <3>2. 1 % m = 1
      BY Divided
    <3> QED
      BY <2>2, <3>1, <3>2
  <2>3. CASE v # 1
    <3>1. PICK d, r, e, w : d = m \div v /\ r = m % v /\ e = f[r] /\ w = f[v]
      OBVIOUS
    <3>2. v \in Nat \ {0} /\ v > 1 /\ v < m
      BY <2>1, <2>3
    <3>3. d \in Int /\ r \in 0 .. (v - 1) /\ m = v * d + r
      BY <3>1, <3>2, Split
    <3>4. r # 0
      BY <2>3, <3>1
    <3>5. Good(r)
      <4>1. r \in 1 .. (m - 1) /\ r <= n
        BY <2>1, <3>2, <3>3, <3>4
      <4> QED
        BY <1>2, <4>1
    <3>6. e \in 1 .. (m - 1) /\ (r * e) % m = 1
      BY <3>1, <3>5
    <3>7. w = ((m - d) * e) % m
      BY <1>0, <3>1, <3>2 DEF NextInverse
    <3>8. PICK t : t = (m - d) * e
      OBVIOUS
    <3>9. t \in Int /\ w \in 0 .. (m - 1) /\ w = t % m
      BY <3>3, <3>6, <3>7, <3>8, Split
    <3>10. (w * v) % m = (t * v) % m
      BY <3>2, <3>9, RemainderTimes
    <3>11. t * v = r * e + m * ((v - 1) * e)
      <4>1. PICK s : s = v * d
        OBVIOUS
      <4>2. s \in Int /\ s = m - r
        BY <3>2, <3>3, <4>1
      <4>3. t * v = (m * v - s) * e
        BY <3>2, <3>3, <3>6, <3>8, <4>1
      <4>4. (m * v - s) * e = (m * (v - 1) + r) * e
        BY <3>2, <3>3, <4>2
      <4>5. (m * (v - 1) + r) * e = r * e + m * ((v - 1) * e)
        BY <3>2, <3>3, <3>6
      <4> QED
        BY <4>3, <4>4, <4>5
    <3>12. (r * e + m * ((v - 1) * e)) % m = (r * e) % m
      <4>1. r * e \in Int /\ (v - 1) * e \in Int
        BY <3>2, <3>3, <3>6
      <4> QED
        BY <4>1, RemainderKept
    <3>13. (v * w) % m = 1
      <4>1. v * w = w * v
        BY <3>2, <3>9
      <4> QED
        BY <4>1, <3>6, <3>10, <3>11, <3>12
    <3>14. w # 0
      <4>1. ASSUME w = 0  PROVE FALSE
        <5>1. v * w = 0 /\ 0 % m = 0
          BY <3>2, <4>1
        <5> QED
          BY <3>13, <5>1
      <4> QED
        BY <4>1
    <3> QED
      BY <3>1, <3>9, <3>13, <3>14
  <2> QED
    BY <2>2, <2>3
<1>3. \A n \in Nat : n \in T
  <2> HIDE DEF T
  <2> QED
    BY <1>1, <1>2, Induction
<1>4. m \in T
  BY <1>3
<1> QED
  BY <1>4

\* A partly reduced number still has its remainder.
LEMMA ProductIs ==
  ASSUME ProductsAreReduced(Nat), NEW c \in Curves, NEW m \in {c.prime, c.order}, NEW x \in Nat
  PROVE  /\ PartlyReduced(x, m) \in Nat
         /\ Reduced(PartlyReduced(x, m), m) = x % m
         /\ PartlyReduced(x, m) % m = x % m
<1>1. m \in Nat \ {0}
  BY CurveIs
<1>2. PICK r, z : r = x % m /\ z = PartlyReduced(x, m)
  OBVIOUS
<1>3. r \in 0 .. (m - 1)
  BY <1>1, <1>2, Split
<1>4. z \in {r, r + m}
  BY <1>2 DEF ProductsAreReduced, Representatives
<1>5. r = m * 0 + r /\ r + m = m * 1 + r
  BY <1>1, <1>3
<1>6. r % m = r /\ (r + m) % m = r
  BY <1>1, <1>3, <1>5, Divided
<1>7. z \in Nat /\ z % m = r /\ (IF z < m THEN z ELSE z - m) = r
  BY <1>1, <1>3, <1>4, <1>6
<1> QED
  BY <1>2, <1>7 DEF Reduced

\* One subtraction fully reduces what is less than twice the order.
LEMMA ReducedIs ==
  ASSUME NEW m \in Nat \ {0}, NEW x \in 0 .. (2 * m - 1)
  PROVE  Reduced(x, m) = x % m
<1>1. CASE x < m
  <2>1. x = m * 0 + x /\ x \in 0 .. (m - 1)
    BY <1>1
  <2>2. x % m = x
    BY <2>1, Divided
  <2> QED
    BY <1>1, <2>2 DEF Reduced
<1>2. CASE ~ (x < m)
  <2>1. x = m * 1 + (x - m) /\ x - m \in 0 .. (m - 1)
    BY <1>2
  <2>2. x % m = x - m
    BY <2>1, Divided
  <2> QED
    BY <1>2, <2>2 DEF Reduced
<1> QED
  BY <1>1, <1>2

LEMMA NumberReduced ==
  ASSUME NEW c \in Curves, NEW x, IsNumber(x)
  PROVE  x \in Nat /\ FullyReduced(x, c.order) = x % c.order /\ c.order \in Nat \ {0}
<1>1. PICK n, q : n = c.order /\ q = 2 ^ NumberBits
  OBVIOUS
<1>2. n \in Nat \ {0} /\ q \in Nat \ {0} /\ q < 2 * n
  BY <1>1, CurveIs
<1>3. x \in 0 .. (q - 1)
  BY <1>1 DEF IsNumber
<1>4. x \div q = 0
  <2>1. x = q * 0 + x
    BY <1>2, <1>3
  <2> QED
    BY <1>2, <1>3, <2>1, Divided
<1>5. FastMod(x, n) = x
  BY <1>1, <1>2, <1>3, <1>4 DEF FastMod
<1>6. Reduced(x, n) = x % n
  BY <1>2, <1>3, ReducedIs
<1> QED
  BY <1>1, <1>2, <1>3, <1>5, <1>6 DEF FullyReduced

\* bn_inverse, for the order of a curve.
LEMMA InverseIs ==
  ASSUME NEW c \in Curves, NEW x, IsNumber(x), NEW n, n = c.order,
         NEW i, i = FieldInverse(x, n)
  PROVE  /\ i = FieldInverse(x % n, n)
         /\ x % n = 0 => i = 0
         /\ x % n # 0 => i \in 1 .. (n - 1) /\ (x * i) % n = 1
<1> DEFINE P(f) == IsInverses(f, n)
<1>1. n \in Nat /\ 3 <= n /\ 2 <= n /\ \A d \in 2 .. (n - 1) : n % d # 0
  BY CurveIs
<1>2. \E f : P(f)
  BY <1>1, InversesExist
<1>3. PICK r : r = x % n
  OBVIOUS
<1>4. x \in Nat /\ r \in 0 .. (n - 1) /\ FullyReduced(x, n) = r
  <2>1. x \in Int /\ x \in Nat /\ n \in Nat \ {0} /\ FullyReduced(x, n) = x % n
    BY NumberReduced
  <2>2. x % n \in 0 .. (n - 1)
    BY <2>1, Split
  <2> QED
    BY <1>3, <2>1, <2>2
<1>5. FullyReduced(r, n) = r
  <2>1. n <= c.prime /\ c.prime < 2 ^ NumberBits /\ 2 ^ NumberBits \in Nat /\ c.prime \in Nat
    BY CurveIs
  <2>2. IsNumber(r)
    BY <1>1, <1>4, <2>1 DEF IsNumber
  <2>3. r = n * 0 + r
    BY <1>1, <1>4
  <2>4. r % n = r
    BY <1>1, <1>4, <2>3, Divided
  <2> QED
    BY <2>2, <2>4, NumberReduced
<1>6. PICK f : P(f) /\ i = f[FullyReduced(x, n)] /\ FieldInverse(r, n) = f[FullyReduced(r, n)]
  <2>1. ASSUME NEW z  PROVE FieldInverse(z, n) = (CHOOSE f : P(f))[FullyReduced(z, n)]
    BY DEF FieldInverse, IsInverses, NextInverse
  <2> HIDE DEF P
  <2>2. P(CHOOSE f : P(f))
    BY <1>2
  <2> QED
    BY <2>1, <2>2
<1>7. i = f[r] /\ FieldInverse(r, n) = f[r]
  BY <1>4, <1>5, <1>6
<1>8. r = 0 => f[r] = 0
  BY <1>1, <1>6 DEF IsInverses, NextInverse
<1>9. r # 0 => f[r] \in 1 .. (n - 1) /\ (r * f[r]) % n = 1
  <2>1. IsInverses(f, n)
    BY <1>6
  <2>2. \A v \in 1 .. (n - 1) : f[v] \in 1 .. (n - 1) /\ (v * f[v]) % n = 1
    BY <1>1, <2>1, InversesAre
  <2> QED
    BY <1>1, <1>4, <2>2
<1>10. r # 0 => (x * i) % n = 1
  <2>1. SUFFICES ASSUME r # 0  PROVE (x * i) % n = 1
    OBVIOUS
  <2>2. i \in Int /\ (r * i) % n = 1
    BY <1>7, <1>9, <2>1
  <2>3. ((x % n) * i) % n = (x * i) % n
    BY <1>1, <1>4, <2>2, RemainderTimes
  <2> QED
    BY <1>3, <2>2, <2>3
<1> QED
  BY <1>3, <1>7, <1>8, <1>9, <1>10

-----------------------------------------------------------------------------
(* Numbers with the same remainder.                                        *)

LEMMA SameSum ==
  ASSUME NEW n \in Nat \ {0}, NEW a \in Int, NEW b \in Int, a % n = b % n, NEW k \in Int
  PROVE  (a + k) % n = (b + k) % n
<1>1. ((a % n) + k) % n = (a + k) % n /\ ((b % n) + k) % n = (b + k) % n
  BY RemainderPlus
<1> QED
  BY <1>1

LEMMA SameProduct ==
  ASSUME NEW n \in Nat \ {0}, NEW a \in Int, NEW b \in Int, a % n = b % n, NEW k \in Int
  PROVE  (a * k) % n = (b * k) % n
<1>1. ((a % n) * k) % n = (a * k) % n /\ ((b % n) * k) % n = (b * k) % n
  BY RemainderTimes
<1> QED
  BY <1>1

LEMMA SmallRemainder ==
  ASSUME NEW n \in Nat \ {0}, NEW a \in 0 .. (n - 1)
  PROVE  a % n = a
<1>1. a = n * 0 + a /\ a \in Int
  OBVIOUS
<1> QED
  BY <1>1, Divided

LEMMA RemainderTwice ==
  ASSUME NEW n \in Nat \ {0}, NEW a \in Int
  PROVE  (a % n) % n = a % n
<1>1. a % n \in 0 .. (n - 1)
  BY Split
<1>2. PICK r : r = a % n
  OBVIOUS
<1> QED
  BY <1>1, <1>2, SmallRemainder

\* Multiplying with a number and its inverse leaves the remainder.
LEMMA InverseUndoes ==
  ASSUME NEW n \in Nat \ {0}, NEW k \in Int, NEW i \in Int, (k * i) % n = 1, NEW a \in Int
  PROVE  ((a * k) * i) % n = a % n
<1>1. PICK u : u = k * i
  OBVIOUS
<1>2. u \in Int /\ u % n = 1 /\ (a * k) * i = u * a
  BY <1>1
<1>3. ((u % n) * a) % n = (u * a) % n
  BY <1>2, RemainderTimes
<1>4. (u % n) * a = a
  BY <1>2
<1> QED
  BY <1>2, <1>3, <1>4

LEMMA Cancelled ==
  ASSUME NEW n \in Nat \ {0}, NEW k \in Int, NEW i \in Int, (k * i) % n = 1,
         NEW a \in Int, NEW b \in Int, (a * k) % n = (b * k) % n
  PROVE  a % n = b % n
<1>1. ((a * k) * i) % n = ((b * k) * i) % n
  <2>1. PICK u, v : u = a * k /\ v = b * k
    OBVIOUS
  <2>2. u \in Int /\ v \in Int /\ u % n = v % n
    BY <2>1
  <2>3. (u * i) % n = (v * i) % n
    BY <2>2, SameProduct, ZenonT(60)
  <2> QED
    BY <2>1, <2>3
<1>2. ((a * k) * i) % n = a % n /\ ((b * k) * i) % n = b % n
  BY InverseUndoes, ZenonT(60)
<1> QED
  BY <1>1, <1>2

\* s * k = m exactly for k = m / s.
AreInverse(s, i, n) == n \in Nat \ {0} /\ s \in Int /\ i \in Int /\ (s * i) % n = 1
FieldQuotient(m, i, n) == ((m % n) * i) % n

LEMMA FieldQuotientIs ==
  ASSUME NEW n, NEW s, NEW i, AreInverse(s, i, n), NEW m \in Int, NEW k \in 0 .. (n - 1)
  PROVE  k = FieldQuotient(m, i, n) <=> (s * k) % n = m % n
<1>0. n \in Nat \ {0} /\ s \in Int /\ i \in Int /\ (s * i) % n = 1
  BY DEF AreInverse
<1>1. ((m % n) * i) % n = (m * i) % n
  BY <1>0, RemainderTimes
<1>2. k \in Int /\ m * i \in Int /\ k % n = k
  BY <1>0, SmallRemainder
<1>3. ((k * s) * i) % n = k % n
  BY <1>0, <1>2, InverseUndoes, ZenonT(60)
<1>4. s * k = k * s /\ i * s = s * i /\ k * s \in Int
  BY <1>0, <1>2
<1>5. ASSUME k = (m * i) % n  PROVE (s * k) % n = m % n
  <2>1. PICK w : w = m * i
    OBVIOUS
  <2>2. w \in Int /\ w * s = (m * s) * i
    BY <1>0, <2>1
  <2>3. ((w % n) * s) % n = (w * s) % n
    BY <1>0, <2>2, RemainderTimes
  <2>4. ((m * s) * i) % n = m % n
    BY <1>0, InverseUndoes
  <2> QED
    BY <1>4, <1>5, <2>1, <2>2, <2>3, <2>4
<1>6. ASSUME (s * k) % n = m % n  PROVE k = (m * i) % n
  <2>1. PICK w : w = k * s
    OBVIOUS
  <2>2. w \in Int /\ w % n = m % n
    BY <1>4, <1>6, <2>1
  <2>3. (w * i) % n = (m * i) % n
    BY <1>0, <2>2, SameProduct
  <2> QED
    BY <1>2, <1>3, <2>1, <2>3
<1> QED
  BY <1>1, <1>5, <1>6 DEF FieldQuotient

-----------------------------------------------------------------------------
(* Multiples of the base.                                                  *)

LEMMA GroupIs ==
  ASSUME NEW c \in Curves, IsGroup(c)
  PROVE  /\ Times(c, 0) = Infinity
         /\ \A j \in ResiduesOf(c), k \in ResiduesOf(c) :
               /\ PointAdd(c, Times(c, j), Times(c, k)) = Times(c, (j + k) % c.order)
               /\ TextSum(c, Times(c, j), Times(c, k)) = Times(c, (j + k) % c.order)
               /\ Multiple(c, j, Times(c, k)) = Times(c, (j * k) % c.order)
         /\ \A k \in KeysOf(c) :
               /\ Times(c, k) # Infinity /\ Times(c, k) \in [x : Nat, y : Nat]
               /\ ReadPubkey(c, PublicKey33(c, k)) = Times(c, k)
               /\ ReadPubkey(c, PublicKey65(c, k)) = Times(c, k)
  BY DEF IsGroup, TimesAdd, TimesMultiply, TimesAreRead

LEMMA ResiduesAre ==
  ASSUME NEW c \in Curves
  PROVE  /\ c.order \in Nat \ {0} /\ 0 \in ResiduesOf(c)
         /\ ResiduesOf(c) \subseteq Nat /\ KeysOf(c) = ResiduesOf(c) \ {0}
         /\ \A a \in Int : a % c.order \in ResiduesOf(c)
<1>1. PICK n : n = c.order
  OBVIOUS
<1>2. n \in Nat \ {0}
  BY <1>1, CurveIs
<1>3. \A a \in Int : a % n \in 0 .. (n - 1)
  BY <1>2, Split
<1> QED
  BY <1>1, <1>2, <1>3 DEF ResiduesOf, KeysOf

LEMMA PointIs ==
  ASSUME NEW c \in Curves, IsGroup(c), NEW k \in KeysOf(c), NEW g, g = Times(c, k)
  PROVE  /\ g # Infinity /\ g = [x |-> g.x, y |-> g.y]
         /\ g.x \in 0 .. (c.prime - 1) /\ g.y \in 0 .. (c.prime - 1)
         /\ ValidatePubkey(c, g)
<1>1. g # Infinity /\ g \in [x : Nat, y : Nat] /\ ReadPubkey(c, PublicKey65(c, k)) = g
  BY GroupIs
<1>2. g = [x |-> g.x, y |-> g.y] /\ g.x \in Nat /\ g.y \in Nat
  BY <1>1
<1>3. PICK q : q = PublicKey65(c, k)
  OBVIOUS
<1>4. q = [form |-> 4, x |-> g.x, y |-> g.y]
  BY <1>3 DEF PublicKey65, Times
<1>5. q.form = 4 /\ q.x = g.x /\ q.y = g.y
  BY <1>4
<1>6. ReadPubkey(c, q) = IF ValidatePubkey(c, [x |-> q.x, y |-> q.y])
                         THEN [x |-> q.x, y |-> q.y] ELSE Infinity
  BY <1>5 DEF ReadPubkey
<1>7. ValidatePubkey(c, g)
  BY <1>1, <1>2, <1>3, <1>5, <1>6
<1>8. g.x < c.prime /\ g.y < c.prime /\ c.prime \in Nat
  BY <1>7, CurveIs DEF ValidatePubkey
<1> QED
  BY <1>1, <1>2, <1>7, <1>8

\* No two numbers below the order have the same multiple.
LEMMA TimesDiffer ==
  ASSUME NEW c \in Curves, IsGroup(c), NEW j \in ResiduesOf(c), NEW k \in ResiduesOf(c),
         Times(c, j) = Times(c, k)
  PROVE  j = k
<1>1. PICK n, e, z : n = c.order /\ e = (n - k) % n /\ z = (j + e) % n
  OBVIOUS
<1>2. n \in Nat \ {0} /\ j \in Nat /\ k \in Nat /\ n - k \in Int /\ n - k >= 0
      /\ j \in 0 .. (n - 1) /\ k \in 0 .. (n - 1)
  BY <1>1, ResiduesAre DEF ResiduesOf
<1>3. e \in ResiduesOf(c)
  BY <1>1, <1>2, ResiduesAre
<1>4. e \in Int /\ z \in ResiduesOf(c)
  BY <1>1, <1>2, <1>3, ResiduesAre
<1>5. /\ PointAdd(c, Times(c, j), Times(c, e)) = Times(c, z)
      /\ PointAdd(c, Times(c, k), Times(c, e)) = Times(c, (k + e) % n)
  BY <1>1, <1>3, GroupIs
<1>6. \A i \in Int : (e + i) % n = (n - k + i) % n
  BY <1>1, <1>2, RemainderPlus
<1>7. (k + e) % n = 0
  <2>1. k + e = e + k /\ n - k + k = n * 1 + 0 /\ n \in Int
    BY <1>2, <1>4
  <2>2. n % n = 0
    BY <1>2, <2>1, Divided
  <2> QED
    BY <1>2, <1>6, <2>1, <2>2
<1>8. Times(c, z) = Infinity
  BY <1>5, <1>7, GroupIs
<1>9. z = 0
  BY <1>4, <1>8, GroupIs, ResiduesAre
<1>10. (n - k + j) % n = 0
  <2>1. j + e = e + j
    BY <1>2, <1>4
  <2> QED
    BY <1>1, <1>2, <1>6, <1>9, <2>1
<1>11. PICK d, a : a = n - k + j /\ d = a \div n
  OBVIOUS
<1>12. a = n * d /\ d \in Int /\ a > 0 /\ a < 2 * n
  <2>1. a \in Int /\ a > 0 /\ a < 2 * n
    BY <1>2, <1>11
  <2>2. d \in Int /\ a = n * d + 0
    BY <1>2, <1>10, <1>11, <2>1, Split
  <2> QED
    BY <1>2, <2>1, <2>2
<1>13. d = 1
  <2>1. d > 0
    <3>1. ASSUME d <= 0  PROVE n * d <= 0
      BY <1>2, <1>12, <3>1
    <3> QED
      BY <1>12, <1>2, <3>1
  <2>2. d < 2
    <3>1. ASSUME d >= 2  PROVE n * d >= 2 * n
      BY <1>2, <1>12, <3>1
    <3> QED
      BY <1>12, <1>2, <3>1
  <2> QED
    BY <1>12, <2>1, <2>2
<1> QED
  BY <1>2, <1>11, <1>12, <1>13

-----------------------------------------------------------------------------
(* Signing.                                                                *)

\* The signature sig of the digest m by the key d, for the nonce k.
IsSigned(c, d, m, sig, k) ==
  /\ sig.r \in KeysOf(c) /\ sig.s \in KeysOf(c) /\ 2 * sig.s < c.order
  /\ Times(c, k).x % c.order = sig.r
  /\ (sig.s * k) % c.order = (m + sig.r * d) % c.order
  /\ sig.by = (Times(c, k).y % 2) + (IF Times(c, k).x >= c.order THEN 2 ELSE 0)

\* The number that the nonce k gives, before the lower of two is taken.
LEMMA EquationHolds ==
  ASSUME ProductsAreReduced(Nat), NEW c \in Curves, NEW n, n = c.order,
         NEW d \in KeysOf(c), NEW m \in Nat, NEW k \in KeysOf(c), NEW r \in Nat,
         NEW s, s = Reduced(Multiply(FieldInverse(k, n), Multiply(r, d, n) + m, n), n)
  PROVE  s \in ResiduesOf(c) /\ (s * k) % n = (m + r * d) % n
<1>1. n \in Nat \ {0} /\ k \in Nat /\ d \in Nat /\ k % n = k /\ k # 0 /\ IsNumber(k)
  <2>1. n \in Nat \ {0} /\ n <= c.prime /\ c.prime < 2 ^ NumberBits
        /\ c.prime \in Nat /\ 2 ^ NumberBits \in Nat
    BY CurveIs
  <2>2. k \in 0 .. (n - 1) /\ d \in Nat /\ k # 0
    BY ResiduesAre DEF KeysOf
  <2>3. k % n = k
    BY <2>1, <2>2, SmallRemainder
  <2> QED
    BY <2>1, <2>2, <2>3 DEF IsNumber
<1>2. PICK i : i = FieldInverse(k, n)
  OBVIOUS
<1>3. i \in Nat /\ (k * i) % n = 1
  <2>1. i \in 1 .. (n - 1)
    BY <1>1, <1>2, InverseIs
  <2>2. (k * i) % n = 1
    BY <1>1, <1>2, InverseIs
  <2> QED
    BY <2>1, <2>2
<1>4. PICK w, u, v : w = r * d /\ u = PartlyReduced(w, n) /\ v = u + m
  OBVIOUS
<1>5. w \in Nat
  BY <1>1, <1>4
<1>6. u \in Nat /\ u % n = w % n
  BY <1>4, <1>5, ProductIs
<1>7. v \in Nat /\ v % n = (m + w) % n
  <2>1. (u + m) % n = (w + m) % n
    <3>1. u \in Int /\ w \in Int /\ m \in Int
      BY <1>5, <1>6
    <3> QED
      BY <1>1, <1>6, <3>1, SameSum
  <2>2. w + m = m + w
    BY <1>5
  <2> QED
    BY <1>4, <1>6, <2>1, <2>2
<1>8. PICK t : t = i * v
  OBVIOUS
<1>9. t \in Nat /\ s = t % n
  <2>1. t \in Nat
    BY <1>3, <1>7, <1>8
  <2>2. s = Reduced(PartlyReduced(t, n), n)
    BY <1>2, <1>4, <1>8 DEF Multiply
  <2> QED
    BY <2>1, <2>2, ProductIs
<1>10. s \in ResiduesOf(c)
  BY <1>9, ResiduesAre
<1>11. ((t % n) * k) % n = (t * k) % n
  BY <1>1, <1>9, RemainderTimes
<1>12. ((v * i) * k) % n = v % n
  <2>1. (i * k) % n = 1
    <3>1. i * k = k * i
      BY <1>1, <1>3
    <3> QED
      BY <1>3, <3>1
  <2>2. i \in Int /\ k \in Int /\ v \in Int /\ n \in Nat \ {0}
    BY <1>1, <1>3, <1>7
  <2> QED
    BY <2>1, <2>2, InverseUndoes
<1>13. t = v * i
  BY <1>3, <1>7, <1>8
<1> QED
  BY <1>4, <1>7, <1>9, <1>10, <1>11, <1>12, <1>13

\* The other number is what the opposite nonce gives, and the byte follows.
LEMMA OppositeHolds ==
  ASSUME NEW c \in Curves, IsGroup(c), NEW n, n = c.order, NEW k \in KeysOf(c),
         NEW s \in KeysOf(c)
  PROVE  /\ n - k \in KeysOf(c) /\ n - s \in KeysOf(c)
         /\ ((n - s) * (n - k)) % n = (s * k) % n
         /\ Times(c, n - k).x = Times(c, k).x
         /\ Times(c, n - k).y % 2 = 1 - (Times(c, k).y % 2)
<1>1. n \in Nat \ {0} /\ k \in 1 .. (n - 1) /\ s \in 1 .. (n - 1)
  BY ResiduesAre DEF KeysOf
<1>2. n - k \in KeysOf(c) /\ n - s \in KeysOf(c)
  BY <1>1 DEF KeysOf
<1>3. ((n - s) * (n - k)) % n = (s * k) % n
  <2>1. PICK u, v : u = s * k /\ v = n - s - k
    OBVIOUS
  <2>2. (n - s) * (n - k) = u + n * v /\ u \in Int /\ v \in Int
    BY <1>1, <2>1
  <2>3. (u + n * v) % n = u % n
    BY <1>1, <2>2, RemainderKept
  <2> QED
    BY <2>1, <2>2, <2>3
<1>4. Times(c, n - k) = [x |-> Times(c, k).x, y |-> c.prime - Times(c, k).y]
  BY DEF IsGroup, TimesMirror
<1>5. PICK y, p : y = Times(c, k).y /\ p = c.prime
  OBVIOUS
<1>6. y \in Nat /\ p \in Nat /\ p % 2 = 1
  BY <1>5, PointIs, CurveIs
<1>7. (p - y) % 2 = 1 - (y % 2)
  BY <1>6
<1> QED
  BY <1>2, <1>3, <1>4, <1>5, <1>7

\* A nonce that gives a signature, or its opposite, is the signature's.
LEMMA SignIs ==
  ASSUME ProductsAreReduced(Nat), NEW c \in Curves, IsGroup(c), NEW d \in KeysOf(c),
         NEW m \in Nat, NEW k \in KeysOf(c), NEW sig, sig = SignWith(c, d, m, k), sig.ok
  PROVE  \E j \in KeysOf(c) : IsSigned(c, d, m, sig, j)
<1>1. PICK n, R : n = c.order /\ R = Times(c, k)
  OBVIOUS
<1>2. n \in Nat \ {0} /\ n % 2 = 1 /\ R.x \in 0 .. (2 * n - 1) /\ R.y \in Nat
  <2>1. n \in Nat \ {0} /\ n % 2 = 1 /\ c.prime < 2 * n /\ c.prime \in Nat
    BY <1>1, CurveIs
  <2>2. R.x \in 0 .. (c.prime - 1) /\ R.y \in 0 .. (c.prime - 1)
    BY <1>1, PointIs
  <2> QED
    BY <2>1, <2>2
<1>3. PICK r, s, by, low :
        /\ r = (IF R.x >= n THEN R.x - n ELSE R.x)
        /\ s = Reduced(Multiply(FieldInverse(k, n), Multiply(r, d, n) + m, n), n)
        /\ by = (R.y % 2) + (IF R.x >= n THEN 2 ELSE 0)
        /\ low = LowS(c, s, by)
  OBVIOUS
<1>4. sig = [ok |-> r # 0 /\ s # 0, r |-> r, s |-> low.s, by |-> low.by]
  BY <1>1, <1>3 DEF SignWith, Times
<1>5. r = R.x % n
  <2>1. r = Reduced(R.x, n)
    BY <1>2, <1>3 DEF Reduced
  <2> QED
    BY <1>2, <2>1, ReducedIs
<1>6. r # 0 /\ s # 0
  <2>1. PICK good : good = (r # 0 /\ s # 0)
    OBVIOUS
  <2>2. sig = [ok |-> good, r |-> r, s |-> low.s, by |-> low.by]
    BY <1>4, <2>1
  <2>3. sig.ok = good
    BY <2>2
  <2> QED
    BY <2>1, <2>3, Zenon
<1>7. r \in KeysOf(c)
  BY <1>1, <1>2, <1>5, <1>6, ResiduesAre
<1>8. s \in KeysOf(c) /\ (s * k) % n = (m + r * d) % n
  <2>1. r \in Nat
    BY <1>7, ResiduesAre
  <2>2. s \in ResiduesOf(c) /\ (s * k) % n = (m + r * d) % n
    BY <1>1, <1>3, <2>1, EquationHolds
  <2> QED
    BY <1>6, <2>2, ResiduesAre
<1>9. s \in 1 .. (n - 1)
  BY <1>1, <1>8 DEF KeysOf
<1>10. CASE n \div 2 < s
  <2>1. low.s = n - s /\ low.by = (IF by % 2 = 1 THEN by - 1 ELSE by + 1)
    BY <1>1, <1>3, <1>10 DEF LowS
  <2>2. PICK j : j = n - k
    OBVIOUS
  <2>3. /\ j \in KeysOf(c) /\ n - s \in KeysOf(c)
        /\ ((n - s) * j) % n = (s * k) % n
        /\ Times(c, j).x = R.x
        /\ Times(c, j).y % 2 = 1 - (R.y % 2)
    BY <1>1, <1>8, <2>2, OppositeHolds
  <2>4. 2 * (n - s) < n
    BY <1>2, <1>9, <1>10
  <2>5. low.by = (1 - (R.y % 2)) + (IF R.x >= n THEN 2 ELSE 0)
    <3>1. PICK e, b : e = R.y % 2 /\ b = (IF R.x >= n THEN 2 ELSE 0)
      OBVIOUS
    <3>2. e \in {0, 1} /\ b \in {0, 2} /\ by = e + b
      BY <1>2, <1>3, <3>1
    <3>3. by % 2 = e
      BY <3>2
    <3>4. low.by = (1 - e) + b
      BY <2>1, <3>2, <3>3
    <3> QED
      BY <3>1, <3>4
  <2>6. sig.r = r /\ sig.s = n - s /\ sig.by = low.by
    BY <1>4, <2>1
  <2>7. IsSigned(c, d, m, sig, j)
    BY <1>1, <1>3, <1>5, <1>7, <1>8, <2>3, <2>4, <2>5, <2>6 DEF IsSigned
  <2> QED
    BY <2>3, <2>7
<1>11. CASE ~ (n \div 2 < s)
  <2>1. sig.r = r /\ sig.s = s /\ sig.by = by
    BY <1>1, <1>3, <1>4, <1>11 DEF LowS
  <2>2. 2 * s < n
    BY <1>2, <1>9, <1>11
  <2>3. IsSigned(c, d, m, sig, k)
    BY <1>1, <1>3, <1>5, <1>7, <1>8, <2>1, <2>2 DEF IsSigned
  <2> QED
    BY <2>3
<1> QED
  BY <1>10, <1>11

\* The nonce of a signature is what the signing equation says it is.
LEMMA SignedIsSignature ==
  ASSUME NEW c \in Curves, IsGroup(c), NEW d \in KeysOf(c), NEW m \in Nat,
         NEW sig, NEW k \in KeysOf(c), IsSigned(c, d, m, sig, k)
  PROVE  IsSignature(c, d, sig.r, sig.s, m)
<1>1. PICK n, r, s, i, w, h :
        /\ n = c.order /\ r = sig.r /\ s = sig.s /\ i = FieldInverse(s % n, n)
        /\ w = m + r * d /\ h = ((w % n) * i) % n
  OBVIOUS
<1>2. n \in Nat \ {0} /\ r \in 1 .. (n - 1) /\ s \in 1 .. (n - 1) /\ k \in 0 .. (n - 1) /\ k # 0
      /\ d \in Nat
  BY <1>1, ResiduesAre DEF IsSigned, KeysOf
<1>3. s % n = s /\ IsNumber(s)
  <2>1. n <= c.prime /\ c.prime < 2 ^ NumberBits
        /\ c.prime \in Nat /\ 2 ^ NumberBits \in Nat
    BY <1>1, CurveIs
  <2>2. s % n = s
    BY <1>2, SmallRemainder
  <2> QED
    BY <1>2, <2>1, <2>2 DEF IsNumber
<1>4. i \in Int /\ (s * i) % n = 1
  <2>1. i = FieldInverse(s, n) /\ s % n # 0
    BY <1>1, <1>2, <1>3
  <2>2. i \in 1 .. (n - 1) /\ (s * i) % n = 1
    BY <1>1, <1>3, <2>1, InverseIs
  <2> QED
    BY <2>2
<1>5. w \in Int /\ (s * k) % n = w % n
  BY <1>1, <1>2 DEF IsSigned
<1>6. k = h
  <2>1. s \in Int /\ k \in 0 .. (n - 1) /\ n \in Nat \ {0}
    BY <1>2
  <2>2. AreInverse(s, i, n)
    BY <1>4, <2>1 DEF AreInverse
  <2>3. k = FieldQuotient(w, i, n)
    BY <1>5, <2>1, <2>2, FieldQuotientIs
  <2> QED
    BY <1>1, <2>3 DEF FieldQuotient
<1>7. Times(c, h).x % n = r
  BY <1>1, <1>6 DEF IsSigned
<1>8. InOrder(c, r) /\ InOrder(c, s)
  BY <1>1, <1>2 DEF InOrder
<1> QED
  BY <1>1, <1>2, <1>6, <1>7, <1>8 DEF IsSignature, Times

-----------------------------------------------------------------------------
(* DER.                                                                    *)

LEMMA JoinedNumbers ==
  ASSUME NEW a \in Seq(Nat), NEW b \in Seq(Nat), NEW s, s = a \o b
  PROVE  /\ s \in Seq(Nat) /\ Len(s) = Len(a) + Len(b)
         /\ \A k \in 1 .. Len(a) : s[k] = a[k]
         /\ \A k \in 1 .. Len(b) : s[Len(a) + k] = b[k]
  OBVIOUS

LEMMA FewNumbers ==
  ASSUME NEW a \in Nat, NEW b \in Nat
  PROVE  /\ <<a, b>> \in Seq(Nat) /\ Len(<<a, b>>) = 2 /\ <<a, b>>[1] = a /\ <<a, b>>[2] = b
         /\ <<a>> \in Seq(Nat) /\ Len(<<a>>) = 1 /\ <<a>>[1] = a
         /\ << >> \in Seq(Nat) /\ Len(<< >>) = 0
  OBVIOUS

\* What an integer of DER has, from the place at on.
DerValue(s, at, len) ==
  IF len = 1 THEN s[at]
  ELSE IF len = 2 THEN s[at] * ByteRange + s[at + 1]
  ELSE s[at + 1] * ByteRange + s[at + 2]
DerShortest(s, at, len) ==
  /\ s[at] < ByteRange \div 2
  /\ len > 1 /\ s[at] = 0 => s[at + 1] >= ByteRange \div 2
IsDer(s, n) ==
  /\ s \in Seq(Nat) /\ Len(s) \in 3 .. 5 /\ s[1] = 2 /\ s[2] = Len(s) - 2
  /\ DerValue(s, 3, Len(s) - 2) = n /\ DerShortest(s, 3, Len(s) - 2)

LEMMA DerIntegerIs ==
  ASSUME NEW n \in Nat \ {0}, IsNumber(n)
  PROVE  IsDer(DerInteger(n), n)
<1>1. PICK r, half, hi, lo :
        r = ByteRange /\ half = r \div 2 /\ hi = n \div r /\ lo = n % r
  OBVIOUS
<1>2. r \in Nat \ {0} /\ 2 * half = r /\ half \in Nat \ {0} /\ n < r * r
  <2>1. r * r = 2 ^ NumberBits /\ r % 2 = 0
    BY <1>1, EcdsaAssumption
  <2>2. 2 ^ NumberBits \in Int
    BY FieldAssumption
  <2>3. r \in Nat
    BY <1>1, EcdsaAssumption
  <2>4. n < r * r
    BY <2>1, <2>2 DEF IsNumber
  <2>5. r # 0
    <3>1. ASSUME r = 0  PROVE FALSE
      <4>1. r * r = 0
        BY <3>1
      <4> QED
        BY <2>4, <4>1
    <3> QED
      BY <3>1
  <2> QED
    BY <1>1, <2>1, <2>3, <2>4, <2>5
<1>3. hi \in Nat /\ lo \in 0 .. (r - 1) /\ n = r * hi + lo
  <2>1. n \in Int /\ n \in Nat
    OBVIOUS
  <2>2. n \div r \in Nat /\ n % r \in 0 .. (r - 1) /\ n = r * (n \div r) + (n % r)
    BY <1>2, <2>1, Split
  <2> QED
    BY <1>1, <2>2
<1>4. hi < r
  <2>1. ASSUME hi >= r  PROVE FALSE
    <3>1. r * hi >= r * r
      BY <1>2, <1>3, <2>1
    <3> QED
      BY <1>2, <1>3, <3>1
  <2> QED
    BY <1>2, <1>3, <2>1
<1>5. PICK bytes, pad : /\ bytes = (IF n >= r THEN <<hi, lo>> ELSE <<n>>)
                        /\ pad = (IF bytes[1] >= half THEN <<0>> ELSE << >>)
  OBVIOUS
<1>6. /\ bytes \in Seq(Nat) /\ bytes[1] \in Nat
      /\ n >= r => Len(bytes) = 2 /\ bytes[1] = hi /\ bytes[2] = lo
      /\ ~ (n >= r) => Len(bytes) = 1 /\ bytes[1] = n
  <2>1. CASE n >= r
    <3>1. bytes = <<hi, lo>> /\ hi \in Nat /\ lo \in Nat
      BY <1>2, <1>3, <1>5, <2>1
    <3> QED
      BY <2>1, <3>1, FewNumbers
  <2>2. CASE ~ (n >= r)
    <3>1. bytes = <<n>> /\ n \in Nat
      BY <1>5, <2>2
    <3> QED
      BY <2>2, <3>1, FewNumbers
  <2> QED
    BY <2>1, <2>2
<1>7. /\ pad \in Seq(Nat)
      /\ bytes[1] >= half => Len(pad) = 1 /\ pad[1] = 0
      /\ ~ (bytes[1] >= half) => Len(pad) = 0
  BY <1>5, FewNumbers
<1>8. Len(pad) \in {0, 1} /\ Len(bytes) \in {1, 2}
  BY <1>6, <1>7
<1>9. PICK f, g : f = Len(pad) /\ g = Len(bytes)
  OBVIOUS
<1>10. f \in {0, 1} /\ g \in {1, 2}
  BY <1>8, <1>9
<1>11. PICK l : l = f + g
  OBVIOUS
<1>12. l = Len(pad) + Len(bytes)
  BY <1>9, <1>11
<1>13. PICK head, front, d : head = <<2, l>> /\ front = head \o pad /\ d = front \o bytes
  OBVIOUS
<1>14. d = DerInteger(n)
  BY <1>1, <1>5, <1>12, <1>13 DEF DerInteger
<1>15. l \in 1 .. 3 /\ head \in Seq(Nat) /\ Len(head) = 2 /\ head[1] = 2 /\ head[2] = l
  <2>1. l \in 1 .. 3 /\ l \in Nat /\ 2 \in Nat
    BY <1>10, <1>11
  <2> QED
    BY <1>13, <2>1, FewNumbers
<1>16. /\ front \in Seq(Nat) /\ Len(front) = 2 + Len(pad) /\ front[1] = 2 /\ front[2] = l
       /\ \A k \in 1 .. Len(pad) : front[2 + k] = pad[k]
  <2>1. /\ front \in Seq(Nat) /\ Len(front) = Len(head) + Len(pad)
        /\ \A k \in 1 .. Len(head) : front[k] = head[k]
        /\ \A k \in 1 .. Len(pad) : front[Len(head) + k] = pad[k]
    BY <1>7, <1>15, <1>13, JoinedNumbers
  <2> QED
    BY <1>15, <2>1
<1>17. /\ d \in Seq(Nat) /\ Len(d) = l + 2
       /\ \A k \in 1 .. (2 + Len(pad)) : d[k] = front[k]
       /\ \A k \in 1 .. Len(bytes) : d[2 + Len(pad) + k] = bytes[k]
  <2>1. /\ d \in Seq(Nat) /\ Len(d) = Len(front) + Len(bytes)
        /\ \A k \in 1 .. Len(front) : d[k] = front[k]
        /\ \A k \in 1 .. Len(bytes) : d[Len(front) + k] = bytes[k]
    BY <1>6, <1>16, <1>13, JoinedNumbers, SMTT(30)
  <2> QED
    BY <1>8, <1>12, <1>16, <2>1
<1>18. d[1] = 2 /\ d[2] = l
  <2>1. 1 \in 1 .. (2 + Len(pad)) /\ 2 \in 1 .. (2 + Len(pad))
    BY <1>8
  <2> QED
    BY <1>16, <1>17, <2>1
<1>19. ASSUME DerValue(d, 3, l) = n, DerShortest(d, 3, l)  PROVE IsDer(DerInteger(n), n)
  <2>1. Len(d) - 2 = l /\ Len(d) \in 3 .. 5
    BY <1>15, <1>17
  <2>2. DerValue(d, 3, Len(d) - 2) = n /\ DerShortest(d, 3, Len(d) - 2)
    BY <1>19, <2>1
  <2> QED
    BY <1>14, <1>17, <1>18, <2>1, <2>2 DEF IsDer
<1>20. CASE n >= r /\ hi >= half
  <2>1. Len(pad) = 1 /\ Len(bytes) = 2 /\ l = 3 /\ pad[1] = 0
    <3>1. f = 1 /\ g = 2
      BY <1>6, <1>7, <1>9, <1>20
    <3>2. l = 3
      BY <1>11, <3>1
    <3> QED
      BY <1>6, <1>7, <1>20, <3>2
  <2>2. d[3] = 0 /\ d[4] = hi /\ d[5] = lo
    BY <1>6, <1>16, <1>17, <1>20, <2>1
  <2>3. DerValue(d, 3, l) = hi * r + lo
    BY <1>1, <2>1, <2>2 DEF DerValue
  <2>4. DerShortest(d, 3, l)
    BY <1>1, <1>2, <1>20, <2>1, <2>2 DEF DerShortest
  <2>5. hi * r + lo = n
    BY <1>2, <1>3
  <2> QED
    BY <1>19, <2>3, <2>4, <2>5
<1>21. CASE n >= r /\ ~ (hi >= half)
  <2>1. Len(pad) = 0 /\ Len(bytes) = 2 /\ l = 2
    <3>1. f = 0 /\ g = 2
      BY <1>6, <1>7, <1>9, <1>21
    <3>2. l = 2
      BY <1>11, <3>1
    <3> QED
      BY <1>6, <1>7, <1>21, <3>2
  <2>2. d[3] = hi /\ d[4] = lo
    BY <1>6, <1>17, <1>21, <2>1
  <2>3. hi # 0
    BY <1>2, <1>3, <1>21
  <2>4. DerValue(d, 3, l) = hi * r + lo
    BY <1>1, <2>1, <2>2 DEF DerValue
  <2>5. DerShortest(d, 3, l)
    BY <1>1, <1>2, <1>3, <1>21, <2>1, <2>2, <2>3 DEF DerShortest
  <2>6. hi * r + lo = n
    BY <1>2, <1>3
  <2> QED
    BY <1>19, <2>4, <2>5, <2>6
<1>22. CASE ~ (n >= r) /\ n >= half
  <2>1. Len(pad) = 1 /\ Len(bytes) = 1 /\ l = 2 /\ pad[1] = 0
    <3>1. f = 1 /\ g = 1
      BY <1>6, <1>7, <1>9, <1>22
    <3>2. l = 2
      BY <1>11, <3>1
    <3> QED
      BY <1>6, <1>7, <1>22, <3>2
  <2>2. d[3] = 0 /\ d[4] = n
    BY <1>6, <1>16, <1>17, <1>22, <2>1
  <2>3. DerValue(d, 3, l) = 0 * r + n
    BY <1>1, <2>1, <2>2 DEF DerValue
  <2>4. DerShortest(d, 3, l)
    BY <1>1, <1>2, <1>22, <2>1, <2>2 DEF DerShortest
  <2>5. 0 * r + n = n
    BY <1>2
  <2> QED
    BY <1>19, <2>3, <2>4, <2>5
<1>23. CASE ~ (n >= r) /\ ~ (n >= half)
  <2>1. Len(pad) = 0 /\ Len(bytes) = 1 /\ l = 1
    <3>1. f = 0 /\ g = 1
      BY <1>6, <1>7, <1>9, <1>23
    <3>2. l = 1
      BY <1>11, <3>1
    <3> QED
      BY <1>6, <1>7, <1>23, <3>2
  <2>2. d[3] = n
    BY <1>6, <1>17, <1>23, <2>1
  <2>3. DerValue(d, 3, l) = n
    BY <2>1, <2>2 DEF DerValue
  <2>4. DerShortest(d, 3, l)
    BY <1>1, <1>2, <1>23, <2>1, <2>2 DEF DerShortest
  <2> QED
    BY <1>19, <2>3, <2>4
<1> QED
  BY <1>20, <1>21, <1>22, <1>23

\* An integer stays one behind other cells.
IsBehind(a, s, at) == \A k \in 1 .. Len(a) : s[at + k] = a[k]

LEMMA DerWithin ==
  ASSUME NEW a, NEW n, IsDer(a, n), NEW s, NEW at, at \in Nat, IsBehind(a, s, at),
         NEW l, l = Len(a) - 2, NEW first, first = at + 3
  PROVE  /\ l \in 1 .. 3 /\ s[at + 1] = 2 /\ s[at + 2] = l
         /\ DerValue(s, first, l) = n /\ DerShortest(s, first, l)
<1>1. PICK m : m = Len(a)
  OBVIOUS
<1>9. m \in 3 .. 5 /\ l = m - 2
  BY <1>1 DEF IsDer
<1>2. \A k \in 1 .. m : s[at + k] = a[k]
  BY <1>1 DEF IsBehind
<1>3. a[1] = 2 /\ a[2] = l /\ DerValue(a, 3, l) = n /\ DerShortest(a, 3, l)
  BY DEF IsDer
<1>4. l \in 1 .. 3 /\ s[at + 1] = 2 /\ s[at + 2] = l
  <2>1. 1 \in 1 .. m /\ 2 \in 1 .. m /\ l \in 1 .. 3
    BY <1>9
  <2>2. s[at + 1] = a[1] /\ s[at + 2] = a[2]
    BY <1>2, <2>1
  <2> QED
    BY <1>3, <2>1, <2>2
<1>6. /\ s[first] = a[3]
      /\ l > 1 => s[first + 1] = a[3 + 1]
      /\ l > 2 => s[first + 2] = a[3 + 2]
  <2>1. first + 1 = at + 4 /\ first + 2 = at + 5
    OBVIOUS
  <2>2. 3 \in 1 .. m /\ (l > 1 => 4 \in 1 .. m) /\ (l > 2 => 5 \in 1 .. m)
    BY <1>9
  <2> QED
    BY <1>2, <2>1, <2>2
<1>7. DerValue(s, first, l) = DerValue(a, 3, l)
  BY <1>4, <1>6, SMTT(30) DEF DerValue
<1>8. DerShortest(s, first, l)
  BY <1>3, <1>4, <1>6 DEF DerShortest
<1> QED
  BY <1>3, <1>4, <1>7, <1>8

LEMMA DerIs ==
  ASSUME NEW r \in Nat \ {0}, IsNumber(r), NEW s \in Nat \ {0}, IsNumber(s),
         NEW d, d = SigToDer(r, s), NEW l, l = d[4], NEW m, m = d[6 + l]
  PROVE  /\ d[1] = 48 /\ d[2] = Len(d) - 2 /\ d[3] = 2 /\ d[5 + l] = 2
         /\ Len(d) = 6 + l + m
         /\ DerValue(d, 5, l) = r /\ DerShortest(d, 5, l)
         /\ DerValue(d, 7 + l, m) = s /\ DerShortest(d, 7 + l, m)
<1>1. PICK a, b : a = DerInteger(r) /\ b = DerInteger(s)
  OBVIOUS
<1>2. IsDer(a, r) /\ IsDer(b, s)
  BY <1>1, DerIntegerIs
<1>3. PICK body : body = a \o b
  OBVIOUS
<1>4. PICK e, f : e = Len(a) /\ f = Len(b)
  OBVIOUS
<1>5. a \in Seq(Nat) /\ b \in Seq(Nat) /\ e \in 3 .. 5 /\ f \in 3 .. 5
  BY <1>2, <1>4 DEF IsDer
<1>6. /\ body \in Seq(Nat) /\ Len(body) = e + f
      /\ \A k \in 1 .. e : body[k] = a[k]
      /\ \A k \in 1 .. f : body[e + k] = b[k]
  BY <1>3, <1>4, <1>5, JoinedNumbers
<1>7. PICK h, g : h = <<48, g>> /\ g = e + f
  OBVIOUS
<1>8. g \in Nat /\ h \in Seq(Nat) /\ Len(h) = 2 /\ h[1] = 48 /\ h[2] = g
  <2>1. g \in Nat /\ 48 \in Nat
    BY <1>5, <1>7
  <2> QED
    BY <1>7, <2>1, FewNumbers
<1>9. d = h \o body
  BY <1>1, <1>3, <1>6, <1>7 DEF SigToDer
<1>10. /\ Len(d) = 2 + g
       /\ \A k \in 1 .. 2 : d[k] = h[k]
       /\ \A k \in 1 .. g : d[2 + k] = body[k]
  BY <1>6, <1>7, <1>8, <1>9, JoinedNumbers
<1>11. d[1] = 48 /\ d[2] = g /\ Len(d) - 2 = g
  BY <1>8, <1>10
<1>12. \A k \in 1 .. e : d[2 + k] = a[k]
  BY <1>5, <1>6, <1>7, <1>10
<1>13. PICK at : at = 2 + e
  OBVIOUS
<1>14. \A k \in 1 .. f : d[at + k] = b[k]
  <2>1. ASSUME NEW k \in 1 .. f  PROVE d[at + k] = b[k]
    <3>1. e + k \in 1 .. g /\ 2 + (e + k) = at + k
      BY <1>5, <1>7, <1>13
    <3>2. d[2 + (e + k)] = body[e + k]
      BY <1>10, <3>1
    <3> QED
      BY <1>6, <3>1, <3>2
  <2> QED
    BY <2>1
<1>15. PICK u, v : u = e - 2 /\ v = f - 2
  OBVIOUS
<1>16. /\ u \in 1 .. 3 /\ d[2 + 1] = 2 /\ d[2 + 2] = u
       /\ DerValue(d, 5, u) = r /\ DerShortest(d, 5, u)
  <2>1. PICK two, first : two = 2 /\ first = two + 3
    OBVIOUS
  <2>2. two \in Nat /\ u = Len(a) - 2 /\ IsBehind(a, d, two)
    BY <1>4, <1>12, <1>15, <2>1 DEF IsBehind
  <2>3. IsDer(a, r)
    BY <1>2
  <2>4. /\ u \in 1 .. 3 /\ d[two + 1] = 2 /\ d[two + 2] = u
        /\ DerValue(d, first, u) = r /\ DerShortest(d, first, u)
    BY <2>1, <2>2, <2>3, DerWithin, SMTT(30)
  <2>5. first = 5
    BY <2>1
  <2> QED
    BY <2>1, <2>4, <2>5
<1>17. /\ v \in 1 .. 3 /\ d[at + 1] = 2 /\ d[at + 2] = v
       /\ DerValue(d, at + 3, v) = s /\ DerShortest(d, at + 3, v)
  <2>1. at \in Nat /\ v = Len(b) - 2 /\ IsBehind(b, d, at)
    BY <1>4, <1>5, <1>13, <1>14, <1>15 DEF IsBehind
  <2>2. PICK first : first = at + 3
    OBVIOUS
  <2>3. IsDer(b, s)
    BY <1>2
  <2>4. /\ v \in 1 .. 3 /\ d[at + 1] = 2 /\ d[at + 2] = v
        /\ DerValue(d, first, v) = s /\ DerShortest(d, first, v)
    BY <2>1, <2>2, <2>3, DerWithin, SMTT(30)
  <2> QED
    BY <2>2, <2>4
<1>18. l = u /\ 5 + l = at + 1 /\ 6 + l = at + 2 /\ 7 + l = at + 3
  <2>1. l = u
    BY <1>16
  <2> QED
    BY <1>5, <1>13, <1>15, <2>1
<1>19. m = v
  BY <1>17, <1>18
<1>20. Len(d) = 6 + l + m
  <2>1. 2 + g = 6 + u + v
    BY <1>5, <1>7, <1>15
  <2> QED
    BY <1>10, <1>18, <1>19, <2>1
<1>21. d[3] = 2 /\ d[5 + l] = 2
  BY <1>16, <1>17, <1>18
<1>22. DerValue(d, 5, l) = r /\ DerShortest(d, 5, l)
  BY <1>16, <1>18
<1>23. DerValue(d, 7 + l, m) = s /\ DerShortest(d, 7 + l, m)
  BY <1>17, <1>18, <1>19
<1> QED
  BY <1>11, <1>20, <1>21, <1>22, <1>23

-----------------------------------------------------------------------------
(* Verifying.                                                              *)

LEMMA ProductReduced ==
  ASSUME ProductsAreReduced(Nat), NEW c \in Curves, NEW a \in Nat, NEW b \in Nat
  PROVE  Reduced(Multiply(a, b, c.order), c.order) = (a * b) % c.order
<1>1. PICK x : x = a * b
  OBVIOUS
<1>2. x \in Nat
  BY <1>1
<1>3. Reduced(PartlyReduced(x, c.order), c.order) = x % c.order
  BY <1>2, ProductIs
<1> QED
  BY <1>1, <1>3 DEF Multiply

LEMMA KeyInOrder ==
  ASSUME NEW c \in Curves, NEW x, x \in Nat, InOrder(c, x)
  PROVE  /\ x \in KeysOf(c) /\ IsNumber(x) /\ x % c.order = x
         /\ FieldInverse(x, c.order) \in KeysOf(c)
         /\ AreInverse(x, FieldInverse(x, c.order), c.order)
<1>1. PICK n, i : n = c.order /\ i = FieldInverse(x, n)
  OBVIOUS
<1>2. n \in Nat \ {0} /\ x \in 0 .. (n - 1) /\ x # 0
  BY <1>1, ResiduesAre DEF InOrder
<1>3. x % n = x
  BY <1>2, SmallRemainder
<1>4. IsNumber(x)
  <2>1. n <= c.prime /\ c.prime < 2 ^ NumberBits
        /\ c.prime \in Nat /\ 2 ^ NumberBits \in Nat
    BY <1>1, CurveIs
  <2> QED
    BY <1>2, <2>1 DEF IsNumber
<1>5. i \in 1 .. (n - 1) /\ (x * i) % n = 1
  BY <1>1, <1>2, <1>3, <1>4, InverseIs
<1> QED
  BY <1>1, <1>2, <1>3, <1>4, <1>5 DEF KeysOf, AreInverse

\* The verifier adds up the point of the nonce of the signing equation.
LEMMA NonceAdded ==
  ASSUME NEW c \in Curves, IsGroup(c), NEW n, n = c.order, NEW d \in ResiduesOf(c),
         NEW r \in Nat, NEW m \in Nat, NEW i \in Nat, NEW u, u = (r * i) % n, NEW z, z = (i * m) % n
  PROVE  /\ FieldQuotient(m + r * d, i, n) \in ResiduesOf(c)
         /\ PointAdd(c, Multiple(c, u, Times(c, d)), Times(c, z))
              = Times(c, FieldQuotient(m + r * d, i, n))
         /\ TextSum(c, Times(c, z), Multiple(c, u, Times(c, d)))
              = Times(c, FieldQuotient(m + r * d, i, n))
<1>1. n \in Nat \ {0} /\ d \in Nat /\ d \in ResiduesOf(c)
  BY ResiduesAre
<1>2. PICK w, v, a, b, k : w = m + r * d /\ v = r * i /\ a = i * m /\ b = v * d /\ k = w * i
  OBVIOUS
<1>3. w \in Nat /\ v \in Nat /\ a \in Nat /\ b \in Nat /\ k \in Nat /\ k = b + a
  BY <1>1, <1>2
<1>4. u = v % n /\ z = a % n
  BY <1>2
<1>5. u \in ResiduesOf(c) /\ z \in ResiduesOf(c)
  BY <1>3, <1>4, ResiduesAre
<1>6. PICK e, f : e = u * d /\ f = e % n
  OBVIOUS
<1>7. e \in Nat /\ f \in ResiduesOf(c) /\ f = b % n
  <2>1. u \in Nat
    BY <1>5, ResiduesAre
  <2>2. e \in Nat
    BY <1>1, <1>6, <2>1
  <2>3. f \in ResiduesOf(c)
    BY <1>6, <2>2, ResiduesAre
  <2>4. ((v % n) * d) % n = (v * d) % n
    BY <1>1, <1>3, RemainderTimes
  <2> QED
    BY <1>2, <1>4, <1>6, <2>2, <2>3, <2>4
<1>8. Multiple(c, u, Times(c, d)) = Times(c, f)
  BY <1>1, <1>5, <1>6, GroupIs
<1>9. f \in Nat /\ z \in Nat
  BY <1>5, <1>7, ResiduesAre
<1>10. (f + z) % n = k % n
  <2>1. (f + z) % n = (b + z) % n
    BY <1>1, <1>3, <1>7, <1>9, RemainderPlus
  <2>2. (z + b) % n = (a + b) % n
    BY <1>1, <1>3, <1>4, RemainderPlus
  <2>3. z + b = b + z /\ a + b = k
    BY <1>3, <1>9
  <2> QED
    BY <2>1, <2>2, <2>3
<1>11. FieldQuotient(w, i, n) = k % n
  BY <1>1, <1>2, <1>3, RemainderTimes DEF FieldQuotient
<1>12. z + f = f + z
  BY <1>9
<1>13. k % n \in ResiduesOf(c)
  BY <1>3, ResiduesAre
<1>14. PointAdd(c, Times(c, f), Times(c, z)) = Times(c, k % n)
       /\ TextSum(c, Times(c, z), Times(c, f)) = Times(c, k % n)
  BY <1>5, <1>7, <1>10, <1>12, GroupIs
<1> QED
  BY <1>2, <1>8, <1>11, <1>13, <1>14

\* What ecdsa_verify_digest accepts is what the equation says.
LEMMA AcceptedIs ==
  ASSUME ProductsAreReduced(Nat), NEW c \in Curves, IsGroup(c), NEW d \in KeysOf(c),
         NEW txt \in {PublicKey33(c, d), PublicKey65(c, d)}, NEW r, IsNumber(r),
         NEW s, IsNumber(s), NEW m, IsNumber(m)
  PROVE  VerifyDigest(c, txt, r, s, m) = 0 <=> IsSignature(c, d, r, s, m) /\ m % c.order # 0
<1>1. PICK n, pub : n = c.order /\ pub = ReadPubkey(c, txt)
  OBVIOUS
<1>2. pub = Times(c, d) /\ pub # Infinity
  BY <1>1, GroupIs
<1>3. n \in Nat \ {0} /\ r \in Nat /\ s \in Nat /\ m \in Nat
  BY <1>1, NumberReduced
<1>4. CASE ~ (InOrder(c, r) /\ InOrder(c, s))
  <2>1. VerifyDigest(c, txt, r, s, m) = 2
    BY <1>1, <1>2, <1>4 DEF VerifyDigest
  <2> QED
    BY <1>4, <2>1 DEF IsSignature
<1>5. CASE InOrder(c, r) /\ InOrder(c, s)
  <2>1. PICK i, z, u, res :
          /\ i = FieldInverse(s, n) /\ z = Reduced(Multiply(i, m, n), n)
          /\ u = Reduced(Multiply(r, i, n), n)
          /\ res = PointAdd(c, Multiple(c, u, pub), Multiple(c, z, c.base))
    OBVIOUS
  <2>2. VerifyDigest(c, txt, r, s, m) =
          IF z = 0 THEN 3 ELSE IF ~ MatchesR(c, res, r) THEN 5 ELSE 0
    BY <1>1, <1>2, <1>5, <2>1 DEF VerifyDigest
  <2>3. /\ s % n = s /\ i \in KeysOf(c) /\ AreInverse(s, i, n)
        /\ s \in KeysOf(c) /\ r \in KeysOf(c)
    BY <1>1, <1>3, <1>5, <2>1, KeyInOrder
  <2>4. i \in Nat
    BY <2>3, ResiduesAre
  <2>5. z = (i * m) % n /\ u = (r * i) % n
    BY <1>1, <1>3, <2>1, <2>4, ProductReduced
  <2>6. PICK k : k = FieldQuotient(m + r * d, i, n)
    OBVIOUS
  <2>7. k \in ResiduesOf(c) /\ res = Times(c, k)
    <3>1. res = PointAdd(c, Multiple(c, u, Times(c, d)), Times(c, z))
      BY <1>2, <2>1 DEF Times
    <3>2. d \in ResiduesOf(c) /\ r \in Nat /\ m \in Nat /\ i \in Nat /\ n = c.order
      BY <1>1, <1>3, <2>4, ResiduesAre
    <3>3. z = (i * m) % n /\ u = (r * i) % n
      BY <2>5
    <3>4. FieldQuotient(m + r * d, i, n) \in ResiduesOf(c)
      BY <3>2, <3>3, NonceAdded
    <3>5. PointAdd(c, Multiple(c, u, Times(c, d)), Times(c, z))
               = Times(c, FieldQuotient(m + r * d, i, n))
      BY <3>2, <3>3, NonceAdded
    <3> QED
      BY <2>6, <3>1, <3>4, <3>5
  <2>8. z = 0 <=> m % n = 0
    <3>1. (s * i) % n = 1 /\ i \in Int /\ s \in Int
      BY <2>3 DEF AreInverse
    <3>2. ASSUME m % n = 0  PROVE z = 0
      <4>1. ((m % n) * i) % n = (m * i) % n
        <5>1. m \in Int
          BY <1>3
        <5> QED
          BY <1>3, <3>1, <5>1, RemainderTimes
      <4>2. (m % n) * i = 0 /\ m * i = i * m /\ 0 % n = 0
        BY <1>3, <3>1, <3>2
      <4> QED
        BY <2>5, <4>1, <4>2
    <3>3. ASSUME z = 0  PROVE m % n = 0
      <4>1. ((m * i) * s) % n = m % n
        <5>1. (i * s) % n = 1
          <6>1. i * s = s * i
            BY <3>1
          <6> QED
            BY <3>1, <6>1
        <5>2. m \in Int
          BY <1>3
        <5> QED
          BY <1>3, <3>1, <5>1, <5>2, InverseUndoes
      <4>2. PICK w : w = m * i
        OBVIOUS
      <4>3. w \in Int /\ w % n = 0
        <5>1. m * i = i * m
          BY <1>3, <3>1
        <5> QED
          BY <1>3, <2>5, <3>1, <3>3, <4>2, <5>1
      <4>4. ((w % n) * s) % n = (w * s) % n
        BY <1>3, <3>1, <4>3, RemainderTimes
      <4>5. (w % n) * s = 0 /\ 0 % n = 0
        BY <1>3, <3>1, <4>3
      <4> QED
        BY <4>1, <4>2, <4>4, <4>5
    <3> QED
      BY <3>2, <3>3
  <2>9. MatchesR(c, res, r) <=> k # 0 /\ Times(c, k).x % n = r
    <3>1. r # 0
      BY <1>5 DEF InOrder
    <3>2. CASE k = 0
      <4>1. res.x = 0
        BY <2>7, <3>2, GroupIs DEF Infinity
      <4>2. Reduced(res.x, n) = 0
        BY <1>3, <4>1 DEF Reduced
      <4> QED
        BY <1>1, <3>1, <3>2, <4>2 DEF MatchesR
    <3>3. CASE k # 0
      <4>1. k \in KeysOf(c)
        BY <2>7, <3>3, ResiduesAre
      <4>2. res.x \in 0 .. (c.prime - 1)
        BY <2>7, <4>1, PointIs
      <4>3. c.prime < 2 * n /\ c.prime \in Nat
        BY <1>1, CurveIs
      <4>4. res.x \in 0 .. (2 * n - 1)
        BY <1>3, <4>2, <4>3
      <4>5. Reduced(res.x, n) = res.x % n
        BY <1>3, <4>4, ReducedIs
      <4> QED
        BY <1>1, <2>7, <3>3, <4>5 DEF MatchesR
    <3> QED
      BY <3>2, <3>3
  <2>10. IsSignature(c, d, r, s, m) <=> k # 0 /\ Times(c, k).x % n = r
    <3>1. k = (((m + r * d) % n) * FieldInverse(s % n, n)) % n
      BY <2>1, <2>3, <2>6 DEF FieldQuotient
    <3> QED
      BY <1>1, <1>5, <3>1 DEF IsSignature, Times
  <2> QED
    BY <1>1, <2>2, <2>8, <2>9, <2>10
<1> QED
  BY <1>4, <1>5

-----------------------------------------------------------------------------
(* Reading a point.                                                        *)

LEMMA RootIsNumber ==
  ASSUME ProductsAreReduced(Nat), NEW c \in Curves, NEW x \in Nat
  PROVE  SquareRoot(x, c.prime) \in Int
<1> DEFINE p == c.prime
           P(f) == f = [i \in 0 .. NumberBits |->
                            IF i = 0 THEN x ELSE Square(f[i - 1], p)]
           power == CHOOSE f : P(f)
           Bit(i) == (((p + 1) \div 4) \div 2 ^ i) % 2 = 1
           R(f) == f = [i \in 0 .. NumberBits |->
                            IF i = 0 THEN 1
                            ELSE IF Bit(i - 1) THEN Multiply(power[i - 1], f[i - 1], p)
                            ELSE f[i - 1]]
           root == CHOOSE f : R(f)
<1>1. SquareRoot(x, p) = Reduced(root[NumberBits], p)
  BY DEF SquareRoot
<1>2. NumberBits \in Nat /\ p \in Nat
  BY FieldAssumption, CurveIs
<1>3. \A a \in Nat, b \in Nat : Multiply(a, b, p) \in Nat
  <2>1. ASSUME NEW a \in Nat, NEW b \in Nat  PROVE Multiply(a, b, p) \in Nat
    <3>1. PICK z : z = a * b
      OBVIOUS
    <3>2. z \in Nat
      BY <3>1
    <3>3. PartlyReduced(z, p) \in Nat
      BY <3>2, ProductIs
    <3> QED
      BY <3>1, <3>3 DEF Multiply
  <2> QED
    BY <2>1
<1>4. \A a \in Nat : Square(a, p) \in Nat
  BY <1>3 DEF Square
<1> HIDE DEF p
<1>5. P(power)
  <2>1. PICK F : F = [z \in Nat \X Nat |-> Square(z[2], p)]
    OBVIOUS
  <2>2. F \in [Nat \X Nat -> Nat]
    BY <1>4, <2>1
  <2>3. PICK f \in [0 .. NumberBits -> Nat] : IsTable(f, NumberBits, x, F)
    BY <1>2, <2>2, TablesExist
  <2>4. ASSUME NEW i \in 0 .. NumberBits, i # 0  PROVE F[<<i - 1, f[i - 1]>>] = Square(f[i - 1], p)
    <3>1. i - 1 \in Nat /\ f[i - 1] \in Nat
      BY <1>2, <2>4
    <3> QED
      BY <2>1, <3>1
  <2>5. P(f)
    BY <2>3, <2>4 DEF IsTable
  <2> HIDE DEF P
  <2> QED
    BY <2>5
<1>6. \A i \in 0 .. NumberBits : power[i] \in Nat
  <2>1. PICK f : f = power
    OBVIOUS
  <2>2. f = [i \in 0 .. NumberBits |-> IF i = 0 THEN x ELSE Square(f[i - 1], p)]
    BY <1>5, <2>1
  <2>3. f[0] = x /\ \A i \in 1 .. NumberBits : f[i] = Square(f[i - 1], p)
    <3>1. \A i \in 0 .. NumberBits : f[i] = IF i = 0 THEN x ELSE Square(f[i - 1], p)
      BY <2>2
    <3> QED
      BY <1>2, <3>1
  <2>4. \A i \in 1 .. NumberBits : f[i - 1] \in Nat => f[i] \in Nat
    BY <1>4, <2>3
  <2>5. \A i \in 0 .. NumberBits : f[i] \in Nat
    BY <1>2, <2>3, <2>4, EntriesIn
  <2> QED
    BY <2>1, <2>5
<1> HIDE DEF power, Bit
<1>7. R(root)
  <2>1. PICK F : F = [z \in Nat \X Nat |->
                        IF z[1] <= NumberBits /\ Bit(z[1]) THEN Multiply(power[z[1]], z[2], p)
                        ELSE z[2]]
    OBVIOUS
  <2>2. F \in [Nat \X Nat -> Nat]
    <3>1. ASSUME NEW z \in Nat \X Nat
          PROVE  (IF z[1] <= NumberBits /\ Bit(z[1]) THEN Multiply(power[z[1]], z[2], p)
                  ELSE z[2]) \in Nat
      <4>1. z[1] \in Nat /\ z[2] \in Nat
        OBVIOUS
      <4>2. z[1] <= NumberBits => power[z[1]] \in Nat
        BY <1>2, <1>6, <4>1
      <4> QED
        BY <1>3, <4>1, <4>2
    <3> QED
      BY <2>1, <3>1
  <2>3. PICK f \in [0 .. NumberBits -> Nat] : IsTable(f, NumberBits, 1, F)
    BY <1>2, <2>2, TablesExist
  <2>4. ASSUME NEW i \in 0 .. NumberBits, i # 0
        PROVE  F[<<i - 1, f[i - 1]>>] = IF Bit(i - 1) THEN Multiply(power[i - 1], f[i - 1], p)
                                        ELSE f[i - 1]
    <3>1. i - 1 \in Nat /\ i - 1 <= NumberBits /\ f[i - 1] \in Nat
      BY <1>2, <2>4
    <3>2. PICK j, g : j = i - 1 /\ g = f[i - 1]
      OBVIOUS
    <3>3. F[<<j, g>>] = IF j <= NumberBits /\ Bit(j) THEN Multiply(power[j], g, p) ELSE g
      BY <2>1, <3>1, <3>2
    <3> QED
      BY <3>1, <3>2, <3>3
  <2>5. R(f)
    BY <2>3, <2>4 DEF IsTable
  <2> HIDE DEF R
  <2> QED
    BY <2>5
<1>8. \A i \in 0 .. NumberBits : root[i] \in Nat
  <2>1. PICK f : f = root
    OBVIOUS
  <2>2. R(f)
    BY <1>7, <2>1
  <2>3. f[0] = 1 /\ \A i \in 1 .. NumberBits :
          f[i] = IF Bit(i - 1) THEN Multiply(power[i - 1], f[i - 1], p) ELSE f[i - 1]
    <3>1. \A i \in 0 .. NumberBits :
            f[i] = IF i = 0 THEN 1
                   ELSE IF Bit(i - 1) THEN Multiply(power[i - 1], f[i - 1], p) ELSE f[i - 1]
      BY <2>2
    <3> QED
      BY <1>2, <3>1
  <2>4. ASSUME NEW i \in 1 .. NumberBits, f[i - 1] \in Nat  PROVE f[i] \in Nat
    <3>1. power[i - 1] \in Nat
      BY <1>2, <1>6
    <3> QED
      BY <1>3, <2>3, <2>4, <3>1
  <2>5. \A i \in 1 .. NumberBits : f[i - 1] \in Nat => f[i] \in Nat
    BY <2>4
  <2>6. f[0] \in Nat
    BY <2>3
  <2>7. \A i \in 0 .. NumberBits : f[i] \in Nat
    BY <1>2, <2>5, <2>6, EntriesIn
  <2> QED
    BY <2>1, <2>7
<1> HIDE DEF root
<1>9. Reduced(root[NumberBits], p) \in Int
  <2>1. PICK z : z = root[NumberBits]
    OBVIOUS
  <2>2. z \in Nat
    BY <1>2, <1>8, <2>1
  <2> QED
    BY <1>2, <2>1, <2>2 DEF Reduced
<1> QED
  BY <1>1, <1>9 DEF p

\* x ^ 3 + a * x, as a partly reduced number.
Cubic(c, x) == Multiply(x, SubtractSmall(Square(x, c.prime), -c.a, c.prime), c.prime)

LEMMA CubicIs ==
  ASSUME ProductsAreReduced(Nat), NEW c \in Curves, NEW x \in Nat
  PROVE  /\ Cubic(c, x) \in Nat
         /\ Cubic(c, x) % c.prime = ((((x * x) % c.prime) + c.a) * x) % c.prime
<1>1. PICK p, a, w, v : p = c.prime /\ a = c.a /\ w = x * x /\ v = PartlyReduced(w, p)
  OBVIOUS
<1>2. p \in Nat \ {0} /\ 3 <= p /\ a \in -3 .. 0 /\ w \in Nat
  BY <1>1, CurveIs
<1>3. v \in Nat /\ v % p = w % p
  BY <1>1, <1>2, ProductIs
<1>4. PICK s, t : s = v + p - (-a) /\ t = x * s
  OBVIOUS
<1>5. s \in Nat /\ s = v + a + p * 1 /\ t \in Nat
  BY <1>2, <1>3, <1>4
<1>6. Cubic(c, x) = PartlyReduced(t, p)
  BY <1>1, <1>4 DEF Cubic, Multiply, SubtractSmall, Square
<1>7. Cubic(c, x) \in Nat /\ Cubic(c, x) % p = t % p
  BY <1>1, <1>5, <1>6, ProductIs
<1>8. PICK e : e = w % p
  OBVIOUS
<1>9. e \in Int
  BY <1>2, <1>8
<1>10. s % p = (e + a) % p
  <2>1. PICK g : g = v + a
    OBVIOUS
  <2>2. g \in Int /\ s = g + p * 1
    BY <1>2, <1>3, <1>5, <2>1
  <2>3. s % p = g % p
    <3>1. PICK one : one = 1
      OBVIOUS
    <3>2. (g + p * one) % p = g % p
      <4>1. g \in Int /\ one \in Int /\ p \in Nat \ {0}
        BY <1>2, <2>2, <3>1
      <4> QED
        BY <4>1, RemainderKept
    <3>3. g + p * one = s
      BY <1>2, <2>2, <3>1
    <3> QED
      BY <3>2, <3>3
  <2>4. ((v % p) + a) % p = (v + a) % p
    <3>1. v \in Int /\ a \in Int /\ p \in Nat \ {0}
      BY <1>2, <1>3
    <3> QED
      BY <3>1, RemainderPlus
  <2> QED
    BY <1>3, <1>8, <2>1, <2>3, <2>4
<1>11. (s * x) % p = ((e + a) * x) % p
  <2>1. PICK g : g = e + a
    OBVIOUS
  <2>2. g \in Int /\ s \in Int /\ x \in Int /\ s % p = g % p
    BY <1>2, <1>5, <1>9, <1>10, <2>1
  <2> QED
    BY <1>2, <2>1, <2>2, SameProduct
<1>12. t = s * x
  BY <1>4, <1>5
<1> QED
  BY <1>1, <1>7, <1>8, <1>11, <1>12

\* The y of an x has the parity that is asked for.
LEMMA UncompressIs ==
  ASSUME ProductsAreReduced(Nat), NEW c \in Curves, NEW odd \in {0, 1}, NEW x \in Nat
  PROVE  /\ UncompressCoords(c, odd, x) \in Int
         /\ UncompressCoords(c, odd, x) % 2 = odd
<1>1. PICK p, t, root : /\ p = c.prime /\ t = Cubic(c, x) + c.b
                        /\ root = SquareRoot(t, p)
  OBVIOUS
<1>2. p \in Nat /\ p % 2 = 1 /\ t \in Nat
  <2>1. Cubic(c, x) \in Nat
    BY CubicIs
  <2>2. p \in Nat /\ p % 2 = 1 /\ c.b \in 1 .. (p - 1)
    BY <1>1, CurveIs
  <2> QED
    BY <1>1, <2>1, <2>2
<1>3. root \in Int
  BY <1>1, <1>2, RootIsNumber
<1>4. UncompressCoords(c, odd, x) = IF root % 2 = odd THEN root ELSE p - root
  BY <1>1 DEF UncompressCoords, Cubic
<1>5. root % 2 # odd => (p - root) % 2 = odd
  BY <1>2, <1>3
<1> QED
  BY <1>2, <1>3, <1>4, <1>5

OnCurve(c, x, y) ==
  (y * y - (((x * x) % c.prime) + c.a) * x - c.b) % c.prime = 0

\* ecdsa_validate_pubkey accepts the points of the curve.
LEMMA ValidIs ==
  ASSUME ProductsAreReduced(Nat), NEW c \in Curves, NEW x \in Nat, NEW y \in Nat
  PROVE  ValidatePubkey(c, [x |-> x, y |-> y])
            <=> x < c.prime /\ y < c.prime /\ OnCurve(c, x, y)
<1>1. PICK p, pt, b, z, u, w :
        /\ p = c.prime /\ pt = [x |-> x, y |-> y] /\ b = c.b /\ z = Cubic(c, x)
        /\ u = y * y /\ w = (((x * x) % p) + c.a) * x
  OBVIOUS
<1>2. p \in Nat \ {0} /\ c.a \in -3 .. 0 /\ b \in 1 .. (p - 1)
  BY <1>1, CurveIs
<1>3. z \in Nat /\ z % p = w % p
  BY <1>1, CubicIs
<1>4. u \in Nat /\ w \in Int
  <2>1. (x * x) % p \in Int
    BY <1>2
  <2>2. PICK e : e = (x * x) % p
    OBVIOUS
  <2>3. (e + c.a) * x \in Int
    BY <1>2, <2>1, <2>2
  <2> QED
    BY <1>1, <2>2, <2>3
<1>5. pt.x = x /\ pt.y = y
  BY <1>1
<1>6. PICK t : t = z + b
  OBVIOUS
<1>7. t \in Nat
  BY <1>2, <1>3, <1>6
<1>8. ValidatePubkey(c, pt) <=>
        /\ pt # Infinity /\ x < p /\ y < p
        /\ Reduced(PartlyReduced(t, p), p) = Reduced(PartlyReduced(u, p), p)
  BY <1>1, <1>5, <1>6 DEF ValidatePubkey, Cubic, AddMod, Square, Multiply
<1>9. Reduced(PartlyReduced(t, p), p) = t % p /\ Reduced(PartlyReduced(u, p), p) = u % p
  BY <1>1, <1>4, <1>7, ProductIs
<1>10. OnCurve(c, x, y) <=> (u - w - b) % p = 0
  BY <1>1 DEF OnCurve
<1>11. PICK v : v = w + b
  OBVIOUS
<1>12. v \in Int /\ t % p = v % p /\ u - w - b = u - v
  <2>1. (z + b) % p = (w + b) % p
    <3>1. z \in Int /\ w \in Int /\ b \in Int /\ p \in Nat \ {0}
      BY <1>2, <1>3, <1>4
    <3> QED
      BY <1>3, <3>1, SameSum
  <2> QED
    BY <1>2, <1>4, <1>6, <1>11, <2>1
<1>13. (u - v) % p = 0 <=> u % p = v % p
  <2>1. ASSUME u % p = v % p  PROVE (u - v) % p = 0
    <3>1. (u + (-v)) % p = (v + (-v)) % p
      <4>1. -v \in Int /\ u \in Int
        BY <1>4, <1>12
      <4> QED
        BY <1>2, <1>12, <2>1, <4>1, SameSum
    <3>2. v + (-v) = 0 /\ u + (-v) = u - v /\ 0 % p = 0
      BY <1>2, <1>4, <1>12
    <3> QED
      BY <3>1, <3>2
  <2>2. ASSUME (u - v) % p = 0  PROVE u % p = v % p
    <3>1. PICK d : d = u - v
      OBVIOUS
    <3>2. d \in Int /\ d % p = 0 /\ d + v = u
      BY <1>4, <1>12, <2>2, <3>1
    <3>3. ((d % p) + v) % p = (d + v) % p
      BY <1>2, <1>12, <3>2, RemainderPlus
    <3>4. (d % p) + v = v
      BY <1>12, <3>2
    <3> QED
      BY <3>2, <3>3, <3>4
  <2> QED
    BY <2>1, <2>2
<1>14. ASSUME OnCurve(c, x, y)  PROVE pt # Infinity
  <2>1. SUFFICES ASSUME pt = Infinity  PROVE FALSE
    OBVIOUS
  <2>2. x = 0 /\ y = 0
    BY <1>5, <2>1 DEF Infinity
  <2>3. u = 0 /\ w = 0
    <3>1. PICK e : e = ((x * x) % p) + c.a
      OBVIOUS
    <3>2. e \in Int
      BY <1>2, <3>1
    <3>3. e * x = 0
      BY <2>2, <3>2
    <3> QED
      BY <1>1, <2>2, <3>1, <3>3
  <2>4. v = b
    BY <1>2, <1>11, <2>3
  <2>5. v % p = 0
    <3>1. u % p = 0
      BY <1>2, <2>3
    <3> QED
      BY <1>10, <1>12, <1>13, <1>14, <3>1
  <2>6. b % p = b
    BY <1>2, SmallRemainder
  <2> QED
    BY <1>2, <2>4, <2>5, <2>6
<1> QED
  BY <1>1, <1>8, <1>9, <1>10, <1>12, <1>13, <1>14

\* What ecdsa_read_pubkey answers, for the texts that it reads.
LEMMA ReadIs ==
  ASSUME NEW c, NEW txt, NEW y,
         \/ txt.form = 4 /\ y = txt.y
         \/ txt.form \in {2, 3} /\ y = UncompressCoords(c, txt.form % 2, txt.x)
  PROVE  ReadPubkey(c, txt) = IF ValidatePubkey(c, [x |-> txt.x, y |-> y])
                              THEN [x |-> txt.x, y |-> y] ELSE Infinity
<1>1. CASE txt.form = 4 /\ y = txt.y
  BY <1>1 DEF ReadPubkey
<1>2. CASE txt.form \in {2, 3} /\ y = UncompressCoords(c, txt.form % 2, txt.x)
  <2>1. txt.form # 4
    BY <1>2
  <2> QED
    BY <1>2, <2>1 DEF ReadPubkey
<1> QED
  BY <1>1, <1>2

\* Every point of the curve is a multiple of the base.
LEMMA PointIsTimes ==
  ASSUME NEW c \in Curves, IsGroup(c), NEW txt \in PublicKeys, ReadPubkey(c, txt) # Infinity
  PROVE  \E k \in KeysOf(c) : ReadPubkey(c, txt) = Times(c, k)
  BY DEF IsGroup, PointsAreTimes

LEMMA CurvePointIsTimes ==
  ASSUME ProductsAreReduced(Nat), NEW c \in Curves, IsGroup(c), NEW x \in Nat, NEW y \in Nat,
         NEW pt, pt = [x |-> x, y |-> y], ValidatePubkey(c, pt)
  PROVE  \E k \in KeysOf(c) : pt = Times(c, k)
<1>1. PICK txt : txt = [form |-> 4, x |-> x, y |-> y]
  OBVIOUS
<1>2. txt \in PublicKeys /\ txt.form = 4 /\ txt.x = x /\ txt.y = y
  BY <1>1 DEF PublicKeys
<1>3. ReadPubkey(c, txt) = pt
  BY <1>2, ReadIs
<1>4. pt # Infinity
  BY DEF ValidatePubkey
<1> QED
  BY <1>2, <1>3, <1>4, PointIsTimes

\* The compressed key of a multiple is read as it.
LEMMA CompressedIsRead ==
  ASSUME NEW c \in Curves, IsGroup(c), NEW k \in KeysOf(c), NEW odd \in {0, 1},
         odd = Times(c, k).y % 2
  PROVE  UncompressCoords(c, odd, Times(c, k).x) = Times(c, k).y
<1>1. PICK g, txt, y : /\ g = Times(c, k) /\ txt = PublicKey33(c, k)
                       /\ y = UncompressCoords(c, odd, g.x)
  OBVIOUS
<1>2. txt = [form |-> 2 + odd, x |-> g.x, y |-> 0]
  BY <1>1 DEF PublicKey33, Times
<1>3. txt.form = 2 + odd /\ txt.x = g.x
  BY <1>2
<1>4. txt.form \in {2, 3} /\ txt.form % 2 = odd
  <2>1. odd = 0 \/ odd = 1
    OBVIOUS
  <2>2. (2 + odd) \in {2, 3} /\ (2 + odd) % 2 = odd
    BY <2>1
  <2> QED
    BY <1>3, <2>2
<1>5. ReadPubkey(c, txt) = IF ValidatePubkey(c, [x |-> g.x, y |-> y])
                           THEN [x |-> g.x, y |-> y] ELSE Infinity
  BY <1>1, <1>3, <1>4, ReadIs
<1>6. ReadPubkey(c, txt) = g /\ g # Infinity
  BY <1>1, GroupIs
<1>7. g = [x |-> g.x, y |-> y]
  BY <1>5, <1>6
<1> QED
  BY <1>1, <1>7

\* A key that is read is a point of the curve, and every such text is read.
LEMMA KeyReadIs ==
  ASSUME ProductsAreReduced(Nat), NEW c \in Curves, IsGroup(c),
         NEW form \in {0, 2, 3, 4}, NEW x \in Nat, NEW u \in Nat,
         NEW txt, txt = [form |-> form, x |-> x, y |-> u], NEW q, q = ReadPubkey(c, txt)
  PROVE  /\ q # Infinity => /\ q.x = x /\ x < c.prime /\ q.y \in 0 .. (c.prime - 1)
                            /\ OnCurve(c, x, q.y)
                            /\ form = 4 => q.y = u
                            /\ form \in {2, 3} => q.y % 2 = form % 2
         /\ \A y \in 0 .. (c.prime - 1) :
              /\ form \in {2, 3, 4} /\ x < c.prime /\ OnCurve(c, x, y)
              /\ form = 4 => y = u
              /\ form \in {2, 3} => y % 2 = form % 2
              => q # Infinity
<1>1. txt.form = form /\ txt.x = x /\ txt.y = u
  OBVIOUS
<1>2. c.prime \in Nat
  BY CurveIs
<1>3. CASE form = 0
  <2>1. q = Infinity
    BY <1>1, <1>3 DEF ReadPubkey
  <2> QED
    BY <1>3, <2>1
<1>4. CASE form \in {2, 3, 4}
  <2>1. PICK v : v = IF form = 4 THEN u ELSE UncompressCoords(c, form % 2, x)
    OBVIOUS
  <2>2. PICK pt : pt = [x |-> x, y |-> v]
    OBVIOUS
  <2>3. q = IF ValidatePubkey(c, pt) THEN pt ELSE Infinity
    BY <1>1, <1>4, <2>1, <2>2, ReadIs
  <2>4. form \in {2, 3} => form % 2 \in {0, 1}
    BY <1>4
  <2>5. txt \in PublicKeys
    BY <1>4 DEF PublicKeys
  <2>6. ASSUME q # Infinity
        PROVE  /\ q.x = x /\ x < c.prime /\ q.y \in 0 .. (c.prime - 1)
               /\ OnCurve(c, x, q.y)
               /\ form = 4 => q.y = u
               /\ form \in {2, 3} => q.y % 2 = form % 2
    <3>1. q = pt /\ ValidatePubkey(c, pt)
      BY <2>3, <2>6
    <3>2. PICK k \in KeysOf(c) : q = Times(c, k)
      BY <2>5, <2>6, PointIsTimes
    <3>3. q.y \in 0 .. (c.prime - 1)
      BY <3>2, PointIs
    <3>4. q.x = x /\ q.y = v
      BY <2>2, <3>1
    <3>5. v \in Nat
      BY <1>2, <3>3, <3>4
    <3>6. x < c.prime /\ OnCurve(c, x, v)
      BY <2>2, <3>1, <3>5, ValidIs
    <3>7. form \in {2, 3} => v % 2 = form % 2
      <4>1. SUFFICES ASSUME form \in {2, 3}  PROVE v % 2 = form % 2
        OBVIOUS
      <4>2. PICK odd : odd = form % 2
        OBVIOUS
      <4>3. v = UncompressCoords(c, odd, x) /\ odd \in {0, 1}
        BY <2>1, <2>4, <4>1, <4>2
      <4> QED
        BY <4>2, <4>3, UncompressIs
    <3> QED
      BY <2>1, <3>3, <3>4, <3>6, <3>7
  <2>7. ASSUME NEW y \in 0 .. (c.prime - 1), x < c.prime, OnCurve(c, x, y), form = 4 => y = u,
               form \in {2, 3} => y % 2 = form % 2
        PROVE  q # Infinity
    <3>1. PICK r : r = [x |-> x, y |-> y]
      OBVIOUS
    <3>2. y \in Nat /\ y < c.prime
      BY <1>2
    <3>3. ValidatePubkey(c, r)
      BY <2>7, <3>1, <3>2, ValidIs
    <3>4. v = y
      <4>1. CASE form = 4
        BY <2>1, <2>7, <4>1
      <4>2. CASE form \in {2, 3}
        <5>1. PICK k \in KeysOf(c) : r = Times(c, k)
          BY <3>1, <3>2, <3>3, CurvePointIsTimes
        <5>2. Times(c, k).x = x /\ Times(c, k).y = y
          BY <3>1, <5>1
        <5>3. PICK odd : odd = form % 2
          OBVIOUS
        <5>4. odd \in {0, 1} /\ odd = y % 2
          BY <2>4, <2>7, <4>2, <5>3
        <5>5. UncompressCoords(c, odd, x) = y
          BY <5>2, <5>4, CompressedIsRead
        <5> QED
          BY <2>1, <4>2, <5>3, <5>5
      <4> QED
        BY <1>4, <4>1, <4>2
    <3>5. pt = r
      BY <2>2, <3>1, <3>4
    <3>6. r # Infinity
      BY <3>3 DEF ValidatePubkey
    <3> QED
      BY <2>3, <3>3, <3>5, <3>6
  <2> QED
    BY <1>4, <2>6, <2>7
<1> QED
  BY <1>3, <1>4

-----------------------------------------------------------------------------
(* Recovering.                                                             *)

\* The negative of a digest, from three times the order.
LEMMA NegativeIs ==
  ASSUME NEW c \in Curves, NEW n, n = c.order, NEW m, IsNumber(m),
         NEW e, e = FullyReduced(SubtractMod(n, m, n), n)
  PROVE  e \in ResiduesOf(c) /\ (e + m) % n = 0
<1>1. PICK q, x, k, y : /\ q = 2 ^ NumberBits /\ x = n + 2 * n - m /\ k = x \div q
                        /\ y = x - k * n
  OBVIOUS
<1>2. /\ n \in Nat \ {0} /\ q \in Nat \ {0} /\ n < q /\ q < 2 * n /\ 2 * q <= 3 * n
      /\ m \in 0 .. (q - 1)
  <2>1. n \in Nat /\ q \in Nat /\ 3 <= n /\ n <= c.prime /\ c.prime < q /\ c.prime \in Nat
        /\ q < 2 * n /\ 2 * q <= 3 * n
    BY <1>1, CurveIs
  <2> QED
    BY <1>1, <2>1 DEF IsNumber
<1>3. x \in Int /\ q < x /\ x <= 3 * n
  BY <1>1, <1>2
<1>4. k \in Int /\ x >= q * k /\ x < q * k + q
  <2>1. PICK t : t = x % q
    OBVIOUS
  <2>2. k \in Int /\ t \in 0 .. (q - 1) /\ x = q * k + t
    BY <1>1, <1>2, <1>3, <2>1, Split
  <2>3. PICK w : w = q * k
    OBVIOUS
  <2>4. w \in Int /\ x = w + t
    BY <1>2, <2>2, <2>3
  <2> QED
    BY <1>2, <2>2, <2>3, <2>4
<1>5. k \in {1, 2}
  <2>1. k > 0
    <3>1. ASSUME k <= 0  PROVE q * k <= 0
      BY <1>2, <1>4, <3>1
    <3> QED
      BY <1>2, <1>3, <1>4, <3>1
  <2>2. k < 3
    <3>1. ASSUME k >= 3  PROVE q * k >= 3 * q
      BY <1>2, <1>4, <3>1
    <3> QED
      BY <1>2, <1>3, <1>4, <3>1
  <2> QED
    BY <1>4, <2>1, <2>2
<1>6. y \in 0 .. (2 * n - 1)
  <2>1. CASE k = 1
    <3>1. x >= q /\ x < 2 * q /\ y = x - n
      BY <1>1, <1>2, <1>3, <1>4, <2>1
    <3> QED
      BY <1>2, <1>3, <3>1
  <2>2. CASE k = 2
    <3>1. x >= 2 * q /\ y = x - 2 * n
      BY <1>1, <1>2, <1>3, <1>4, <2>2
    <3> QED
      BY <1>2, <1>3, <3>1
  <2> QED
    BY <1>5, <2>1, <2>2
<1>7. e = y % n
  <2>1. FastMod(x, n) = y
    BY <1>1 DEF FastMod
  <2>2. e = Reduced(y, n)
    BY <1>1, <2>1 DEF FullyReduced, SubtractMod
  <2> QED
    BY <1>2, <1>6, <2>2, ReducedIs
<1>8. e \in ResiduesOf(c)
  BY <1>6, <1>7, ResiduesAre
<1>9. ((y % n) + m) % n = (y + m) % n
  <2>1. y \in Int /\ m \in Int /\ n \in Nat \ {0}
    BY <1>2, <1>6
  <2> QED
    BY <2>1, RemainderPlus
<1>10. PICK j : j = 3 - k
  OBVIOUS
<1>11. y + m = n * j + 0 /\ j \in Int
  <2>1. CASE k = 1
    <3>1. y = 3 * n - m - n /\ j = 2
      BY <1>1, <1>2, <1>10, <2>1
    <3> QED
      BY <1>2, <3>1
  <2>2. CASE k = 2
    <3>1. y = 3 * n - m - 2 * n /\ j = 1
      BY <1>1, <1>2, <1>10, <2>2
    <3> QED
      BY <1>2, <3>1
  <2> QED
    BY <1>5, <2>1, <2>2
<1>12. (y + m) % n = 0
  <2>1. y + m \in Int /\ 0 \in 0 .. (n - 1) /\ n \in Nat \ {0}
    BY <1>2, <1>6
  <2> QED
    BY <1>11, <2>1, Divided
<1> QED
  BY <1>7, <1>8, <1>9, <1>12

\* The point is given as the key; only with infinity the call may not return.
IsFound(found, c, t) ==
  /\ found.point = Times(c, t)
  /\ found = [code |-> 0, point |-> Times(c, t)] \/ (t = 0 /\ found.code = -1)

\* A point that is recovered belongs to the point of a nonce, whose x is r,
\* and satisfies the signing equation with it.
IsRecovered(c, r, s, m, recid, k, t) ==
  /\ \A found \in Recover(c, r, s, m, recid) : IsFound(found, c, t)
  /\ NoncePoint(c, r, recid) = Times(c, k)
  /\ Times(c, k).x = IF recid >= 2 THEN r + c.order ELSE r
  /\ Times(c, k).y % 2 = recid % 2
  /\ (r * t + m) % c.order = (s * k) % c.order

LEMMA RecoverIs ==
  ASSUME ProductsAreReduced(Nat), NEW c \in Curves, IsGroup(c), NEW n, n = c.order,
         NEW r, IsNumber(r), NEW s, IsNumber(s), NEW m, IsNumber(m), NEW recid \in 0 .. 3,
         InOrder(c, r), InOrder(c, s), ValidatePubkey(c, NoncePoint(c, r, recid))
  PROVE  \E k \in KeysOf(c), t \in ResiduesOf(c) : IsRecovered(c, r, s, m, recid, k, t)
<1>1. PICK R, odd, x : /\ R = NoncePoint(c, r, recid) /\ odd = recid % 2
                       /\ x = IF recid >= 2 THEN r + n ELSE r
  OBVIOUS
<1>2. n \in Nat \ {0} /\ r \in Nat /\ s \in Nat /\ m \in Nat
  BY NumberReduced
<1>3. odd \in {0, 1} /\ x \in Nat
  BY <1>1, <1>2
<1>4. R # Infinity /\ ValidatePubkey(c, R)
  BY <1>1 DEF ValidatePubkey
<1>5. PICK y : y = UncompressCoords(c, odd, x)
  OBVIOUS
<1>6. R = [x |-> x, y |-> y]
  BY <1>1, <1>4, <1>5 DEF NoncePoint
<1>7. y % 2 = odd
  BY <1>3, <1>5, UncompressIs
<1>8. PICK k \in KeysOf(c) : R = Times(c, k)
  <2>1. PICK txt : txt = [form |-> 2 + odd, x |-> x, y |-> 0]
    OBVIOUS
  <2>2. (2 + odd) \in {2, 3} /\ (2 + odd) % 2 = odd
    <3>1. odd = 0 \/ odd = 1
      BY <1>3
    <3> QED
      BY <3>1
  <2>3. txt \in PublicKeys /\ txt.form \in {2, 3} /\ txt.form % 2 = odd /\ txt.x = x
    BY <1>3, <2>1, <2>2 DEF PublicKeys
  <2>4. ReadPubkey(c, txt) = R
    BY <1>4, <1>5, <1>6, <2>3, ReadIs
  <2> QED
    BY <1>4, <2>3, <2>4, PointIsTimes
<1>9. /\ r \in KeysOf(c) /\ s \in KeysOf(c)
      /\ FieldInverse(r, n) \in KeysOf(c) /\ AreInverse(r, FieldInverse(r, n), n)
  BY <1>2, KeyInOrder
<1>10. PICK e, i, h, f, g, j, t :
         /\ e = FullyReduced(SubtractMod(n, m, n), n) /\ i = FieldInverse(r, n)
         /\ h = s * k /\ f = h % n /\ g = (e + f) % n /\ j = i * g /\ t = j % n
  OBVIOUS
<1>11. e \in ResiduesOf(c) /\ (e + m) % n = 0
  BY <1>10, NegativeIs
<1>12. k \in ResiduesOf(c) /\ s \in ResiduesOf(c) /\ i \in ResiduesOf(c) /\ k \in Nat /\ i \in Nat
  BY <1>9, <1>10, ResiduesAre
<1>13. h \in Nat
  BY <1>2, <1>10, <1>12
<1>14. f \in ResiduesOf(c)
  BY <1>10, <1>13, ResiduesAre
<1>15. e \in Nat /\ f \in Nat
  BY <1>11, <1>14, ResiduesAre
<1>16. g \in ResiduesOf(c) /\ g \in Nat
  <2>1. e + f \in Int
    BY <1>15
  <2>2. g \in ResiduesOf(c)
    BY <1>10, <2>1, ResiduesAre
  <2> QED
    BY <2>2, ResiduesAre
<1>17. j \in Nat /\ t \in ResiduesOf(c)
  <2>1. j \in Nat
    BY <1>10, <1>12, <1>16
  <2>2. t \in ResiduesOf(c)
    BY <1>10, <2>1, ResiduesAre
  <2> QED
    BY <2>1, <2>2
<1>18. Multiple(c, s, Times(c, k)) = Times(c, f)
  BY <1>10, <1>12, GroupIs
<1>19. PointAdd(c, Times(c, e), Times(c, f)) = Times(c, g)
  BY <1>10, <1>11, <1>14, GroupIs
<1>20. Multiple(c, i, Times(c, g)) = Times(c, t)
  BY <1>10, <1>12, <1>16, GroupIs
<1>21. \A found \in Recover(c, r, s, m, recid) : IsFound(found, c, t)
  <2>1. Multiple(c, e, c.base) = Times(c, e)
    BY DEF Times
  <2>2. PICK one : one = [code |-> 0, point |-> Times(c, t)]
    OBVIOUS
  <2>3. Recover(c, r, s, m, recid)
          = IF Times(c, g) = Infinity THEN {one, NeverReturns} ELSE {one}
    BY <1>1, <1>4, <1>8, <1>10, <1>18, <1>19, <1>20, <2>1, <2>2 DEF Recover
  <2>4. IsFound(one, c, t)
    BY <2>2 DEF IsFound
  <2>5. ASSUME Times(c, g) = Infinity  PROVE IsFound(NeverReturns, c, t)
    <3>1. 0 \in ResiduesOf(c) /\ Times(c, 0) = Infinity
      BY ResiduesAre, GroupIs
    <3>2. g = 0
      BY <1>16, <2>5, <3>1, TimesDiffer
    <3>3. j = 0 /\ t = 0
      BY <1>2, <1>10, <1>12, <3>2
    <3> QED
      BY <3>1, <3>3 DEF IsFound, NeverReturns
  <2> QED
    BY <2>3, <2>4, <2>5
<1>22. (r * t) % n = g % n
  <2>1. t \in 0 .. (n - 1) /\ g \in 0 .. (n - 1)
    BY <1>16, <1>17 DEF ResiduesOf
  <2>2. g % n = g
    BY <1>2, <2>1, SmallRemainder
  <2>3. g * i = j
    BY <1>10, <1>12, <1>16
  <2>4. t = FieldQuotient(g, i, n)
    BY <1>10, <2>2, <2>3 DEF FieldQuotient
  <2>5. g \in Int
    BY <1>16
  <2> QED
    BY <1>9, <1>10, <2>1, <2>4, <2>5, FieldQuotientIs
<1>23. PICK a : a = r * t
  OBVIOUS
<1>24. a \in Int /\ a % n = g % n
  <2>1. t \in Nat
    BY <1>17, ResiduesAre
  <2> QED
    BY <1>2, <1>22, <1>23, <2>1
<1>25. (a + m) % n = h % n
  <2>1. m \in Int /\ g \in Int /\ h \in Int /\ f \in Int /\ e + f \in Int
    BY <1>2, <1>13, <1>15, <1>16
  <2>2. (a + m) % n = (g + m) % n
    BY <1>2, <1>24, <2>1, SameSum
  <2>3. (g + m) % n = ((e + f) + m) % n
    <3>1. PICK d : d = e + f
      OBVIOUS
    <3>2. d \in Int /\ g = d % n
      BY <1>10, <2>1, <3>1
    <3>3. ((d % n) + m) % n = (d + m) % n
      BY <1>2, <2>1, <3>2, RemainderPlus
    <3> QED
      BY <3>1, <3>2, <3>3
  <2>4. PICK b : b = e + m
    OBVIOUS
  <2>5. b \in Int /\ b % n = 0 /\ (e + f) + m = b + f
    BY <1>2, <1>11, <1>15, <2>4
  <2>6. ((b % n) + f) % n = (b + f) % n
    BY <1>2, <2>1, <2>5, RemainderPlus
  <2>7. (b % n) + f = f
    BY <1>15, <2>5
  <2>8. f % n = f
    BY <1>2, <1>14, SmallRemainder DEF ResiduesOf
  <2> QED
    BY <1>10, <2>2, <2>3, <2>5, <2>6, <2>7, <2>8
<1>26. Times(c, k).x = x /\ Times(c, k).y % 2 = odd
  BY <1>6, <1>7, <1>8
<1> QED
  <2>1. IsRecovered(c, r, s, m, recid, k, t)
    BY <1>1, <1>8, <1>10, <1>21, <1>23, <1>25, <1>26 DEF IsRecovered
  <2> QED
    BY <1>17, <2>1

\* Whatever is recovered, the signature is good for it.
LEMMA RecoveredIsGood ==
  ASSUME NEW c \in Curves, IsGroup(c), NEW n, n = c.order, NEW r \in Nat, InOrder(c, r),
         NEW s \in Nat, InOrder(c, s), NEW m \in Nat, NEW k \in KeysOf(c),
         NEW t \in ResiduesOf(c), NEW v \in {r, r + n}, Times(c, k).x = v,
         (r * t + m) % n = (s * k) % n, NEW i, i = FieldInverse(s % n, n)
  PROVE  TextSum(c, Multiple(c, (m * i) % n, c.base),
                    Multiple(c, (r * i) % n, Times(c, t))).x % n = r
<1>1. n \in Nat \ {0} /\ r \in 0 .. (n - 1)
  BY ResiduesAre DEF InOrder
<1>2. s % n = s /\ i \in KeysOf(c) /\ AreInverse(s, i, n)
  BY KeyInOrder
<1>3. i \in Nat /\ t \in Nat /\ k \in 0 .. (n - 1)
  BY <1>2, ResiduesAre DEF ResiduesOf
<1>4. PICK u, z, w : u = (r * i) % n /\ z = (i * m) % n /\ w = m + r * t
  OBVIOUS
<1>5. TextSum(c, Times(c, z), Multiple(c, u, Times(c, t))) = Times(c, FieldQuotient(w, i, n))
  <2>1. r \in Nat /\ m \in Nat /\ i \in Nat /\ t \in ResiduesOf(c) /\ n = c.order
    BY <1>3
  <2>2. TextSum(c, Times(c, z), Multiple(c, u, Times(c, t)))
          = Times(c, FieldQuotient(m + r * t, i, n))
    BY <1>4, <2>1, NonceAdded
  <2> QED
    BY <1>4, <2>2
<1>6. w \in Int /\ w % n = (s * k) % n
  <2>1. m + r * t = r * t + m /\ m + r * t \in Int
    BY <1>3
  <2> QED
    BY <1>4, <2>1
<1>7. k = FieldQuotient(w, i, n)
  BY <1>2, <1>3, <1>6, FieldQuotientIs
<1>8. m * i = i * m
  BY <1>3
<1>9. v % n = r
  <2>1. r % n = r
    BY <1>1, SmallRemainder
  <2>2. PICK one : one = 1
    OBVIOUS
  <2>3. r \in Int /\ n \in Nat \ {0} /\ one \in Int
    BY <1>1, <2>2
  <2>4. (r + n * one) % n = r % n
    BY <2>3, RemainderKept
  <2>5. r + n * one = r + n
    BY <2>2, <2>3
  <2> QED
    BY <2>1, <2>4, <2>5
<1> QED
  BY <1>4, <1>5, <1>7, <1>8, <1>9 DEF Times

LEMMA SameFactor ==
  ASSUME NEW n, NEW s, NEW i, AreInverse(s, i, n), NEW m \in Int,
         NEW j \in 0 .. (n - 1), NEW k \in 0 .. (n - 1),
         (s * j) % n = m % n, (s * k) % n = m % n
  PROVE  j = k
<1>1. j = FieldQuotient(m, i, n)
  BY FieldQuotientIs
<1>2. k = FieldQuotient(m, i, n)
  BY FieldQuotientIs
<1> QED
  BY <1>1, <1>2

LEMMA SameTerm ==
  ASSUME NEW n \in Nat \ {0}, NEW a \in Int, NEW b \in Int, NEW m \in Int,
         (a + m) % n = (b + m) % n
  PROVE  a % n = b % n
<1>1. PICK e, f, g : e = a + m /\ f = b + m /\ g = -m
  OBVIOUS
<1>2. e \in Int /\ f \in Int /\ g \in Int /\ e % n = f % n
  BY <1>1
<1>3. (e + g) % n = (f + g) % n
  BY <1>2, SameSum, ZenonT(60)
<1>4. e + g = a /\ f + g = b
  BY <1>1
<1> QED
  BY <1>3, <1>4

\* A key is recovered when what is asked for is in order.
LEMMA RecoveredWhen ==
  ASSUME NEW c, NEW r, NEW s, NEW m, NEW recid,
         NEW found \in Recover(c, r, s, m, recid), found.code # 1
  PROVE  InOrder(c, r) /\ InOrder(c, s) /\ ValidatePubkey(c, NoncePoint(c, r, recid))
<1> SUFFICES ASSUME \/ ~ InOrder(c, r) \/ ~ InOrder(c, s)
                    \/ ~ ValidatePubkey(c, NoncePoint(c, r, recid))
             PROVE  FALSE
  OBVIOUS
<1>1. Recover(c, r, s, m, recid) = {NoPoint}
  BY DEF Recover
<1> QED
  BY <1>1 DEF NoPoint

\* The recovery byte leads back to the signer's key, and no other does.
LEMMA OwnRecovered ==
  ASSUME ProductsAreReduced(Nat), NEW c \in Curves, IsGroup(c), NEW d \in KeysOf(c),
         NEW m, IsNumber(m), NEW sig, NEW j \in KeysOf(c), IsSigned(c, d, m, sig, j),
         NEW r, r = sig.r, NEW s, s = sig.s, NEW recid \in 0 .. 3,
         NEW found \in Recover(c, r, s, m, recid)
  PROVE  found = [code |-> 0, point |-> Times(c, d)] <=> recid = sig.by
<1>1. PICK n, g, b, w : n = c.order /\ g = Times(c, j) /\ b = r * d /\ w = m + b
  OBVIOUS
<1>2. n \in Nat \ {0} /\ m \in Nat
  BY <1>1, NumberReduced
<1>3. r \in 1 .. (n - 1) /\ s \in 1 .. (n - 1) /\ d \in 0 .. (n - 1) /\ j \in 0 .. (n - 1)
      /\ d \in ResiduesOf(c) /\ j \in ResiduesOf(c) /\ r \in Nat /\ s \in Nat
  BY <1>1, <1>2, ResiduesAre DEF IsSigned, KeysOf
<1>4. InOrder(c, r) /\ InOrder(c, s)
  BY <1>1, <1>2, <1>3 DEF InOrder
<1>5. IsNumber(r) /\ IsNumber(s) /\ AreInverse(r, FieldInverse(r, n), n)
      /\ AreInverse(s, FieldInverse(s, n), n)
  BY <1>1, <1>3, <1>4, KeyInOrder
<1>6. b \in Int /\ w \in Int
  BY <1>1, <1>2, <1>3
<1>7. /\ g.x % n = r /\ (s * j) % n = w % n
      /\ sig.by = (g.y % 2) + (IF g.x >= n THEN 2 ELSE 0)
  BY <1>1 DEF IsSigned
<1>8. g.x \in 0 .. (c.prime - 1) /\ g.y \in Nat /\ c.prime \in Nat /\ c.prime < 2 * n
      /\ g = [x |-> g.x, y |-> g.y] /\ ValidatePubkey(c, g)
  <2>1. c.prime \in Nat /\ c.prime < 2 * n
    BY <1>1, CurveIs
  <2> QED
    BY <1>1, <2>1, PointIs
<1>9. ASSUME ValidatePubkey(c, NoncePoint(c, r, recid))
      PROVE  \E k \in KeysOf(c), t \in ResiduesOf(c) : IsRecovered(c, r, s, m, recid, k, t)
  <2>1. /\ n = c.order /\ IsNumber(r) /\ IsNumber(s) /\ IsNumber(m) /\ recid \in 0 .. 3
        /\ InOrder(c, r) /\ InOrder(c, s)
    BY <1>1, <1>4, <1>5
  <2> QED
    BY <1>9, <2>1, RecoverIs
<1>10. ASSUME NEW t \in ResiduesOf(c), (r * t + m) % n = (s * j) % n  PROVE t = d
  <2>1. PICK a : a = r * t
    OBVIOUS
  <2>2. t \in 0 .. (n - 1)
    BY <1>1 DEF ResiduesOf
  <2>3. a \in Int
    BY <1>2, <1>3, <2>1, <2>2
  <2>4. (a + m) % n = (b + m) % n
    <3>1. w = b + m
      BY <1>1, <1>2, <1>6
    <3> QED
      BY <1>7, <1>10, <2>1, <3>1
  <2>5. a % n = b % n
    <3>1. m \in Int
      BY <1>2
    <3> QED
      BY <1>2, <1>6, <2>3, <2>4, <3>1, SameTerm, ZenonT(60)
  <2>6. (r * t) % n = b % n /\ (r * d) % n = b % n
    BY <1>1, <2>1, <2>5
  <2> QED
    BY <1>3, <1>5, <1>6, <2>2, <2>6, SameFactor
<1>11. ASSUME recid = sig.by
       PROVE  found = [code |-> 0, point |-> Times(c, d)]
  <2>1. PICK odd : odd = g.y % 2
    OBVIOUS
  <2>2. odd \in {0, 1} /\ recid % 2 = odd /\ (recid >= 2 <=> g.x >= n)
    <3>1. odd = 0 \/ odd = 1
      BY <1>8, <2>1
    <3>2. CASE g.x >= n
      BY <1>7, <1>11, <2>1, <3>1, <3>2
    <3>3. CASE ~ (g.x >= n)
      BY <1>7, <1>11, <2>1, <3>1, <3>3
    <3> QED
      BY <3>1, <3>2, <3>3
  <2>3. g.x = IF recid >= 2 THEN r + n ELSE r
    <3>1. CASE g.x >= n
      <4>1. PICK h : h = g.x - n
        OBVIOUS
      <4>2. h \in 0 .. (n - 1) /\ g.x = n * 1 + h /\ g.x \in Int /\ 1 \in Int
        BY <1>2, <1>8, <3>1, <4>1
      <4>3. g.x % n = h
        BY <1>2, <4>2, Divided
      <4> QED
        BY <1>2, <1>7, <1>8, <2>2, <3>1, <4>1, <4>3
    <3>2. CASE ~ (g.x >= n)
      <4>1. g.x \in 0 .. (n - 1)
        BY <1>2, <1>8, <3>2
      <4>2. g.x % n = g.x
        BY <1>2, <4>1, SmallRemainder
      <4> QED
        BY <1>7, <2>2, <3>2, <4>2
    <3> QED
      BY <3>1, <3>2
  <2>4. UncompressCoords(c, odd, g.x) = g.y
    BY <1>1, <2>1, <2>2, CompressedIsRead
  <2>5. NoncePoint(c, r, recid) = g
    <3>1. ~ (g.x >= c.prime)
      BY <1>8
    <3> QED
      BY <1>1, <1>8, <2>2, <2>3, <2>4, <3>1 DEF NoncePoint
  <2>6. PICK k \in KeysOf(c), t \in ResiduesOf(c) :
                /\ IsFound(found, c, t)
                /\ NoncePoint(c, r, recid) = Times(c, k)
                /\ (r * t + m) % n = (s * k) % n
    BY <1>1, <1>8, <1>9, <2>5 DEF IsRecovered
  <2>7. k = j
    <3>1. k \in ResiduesOf(c) /\ Times(c, k) = Times(c, j)
      BY <1>1, <2>5, <2>6, ResiduesAre
    <3> QED
      BY <1>3, <3>1, TimesDiffer
  <2>8. t = d
    BY <1>10, <2>6, <2>7
  <2>9. d # 0
    BY DEF KeysOf
  <2> QED
    BY <2>6, <2>8, <2>9 DEF IsFound
<1>12. ASSUME found = [code |-> 0, point |-> Times(c, d)]
       PROVE  recid = sig.by
  <2>1. ValidatePubkey(c, NoncePoint(c, r, recid))
    <3>1. found.code # 1
      BY <1>12
    <3> QED
      BY <3>1, RecoveredWhen
  <2>2. PICK k \in KeysOf(c), t \in ResiduesOf(c) :
                /\ IsFound(found, c, t)
                /\ Times(c, k).x = IF recid >= 2 THEN r + n ELSE r
                /\ Times(c, k).y % 2 = recid % 2
                /\ (r * t + m) % n = (s * k) % n
    BY <1>1, <1>9, <2>1 DEF IsRecovered
  <2>3. t = d
    <3>1. Times(c, t) = Times(c, d)
      BY <1>12, <2>2 DEF IsFound
    <3> QED
      BY <1>3, <3>1, TimesDiffer
  <2>4. k = j
    <3>1. r * d + m = w
      BY <1>1, <1>2, <1>6
    <3>2. (s * k) % n = w % n
      BY <2>2, <2>3, <3>1
    <3>3. k \in 0 .. (n - 1)
      BY <1>1, ResiduesAre DEF ResiduesOf
    <3> QED
      BY <1>3, <1>5, <1>6, <1>7, <3>2, <3>3, SameFactor
  <2>5. g.x = (IF recid >= 2 THEN r + n ELSE r) /\ g.y % 2 = recid % 2
    BY <1>1, <2>2, <2>4
  <2>6. g.x >= n <=> recid >= 2
    BY <1>2, <1>3, <2>5
  <2>7. sig.by = (recid % 2) + (IF recid >= 2 THEN 2 ELSE 0)
    BY <1>7, <2>5, <2>6
  <2>8. recid \in {0, 1, 2, 3}
    OBVIOUS
  <2> QED
    BY <2>7, <2>8
<1> QED
  BY <1>11, <1>12

-----------------------------------------------------------------------------
(* The inductive invariant: a call of ecdsa_sign_digest ends with a        *)
(* signature for some nonce, and an answer is that of the code to what the *)
(* checker was given.                                                      *)

IsCall(f) ==
  /\ f = [phase |-> f.phase, curve |-> f.curve, key |-> f.key, digest |-> f.digest,
          tries |-> f.tries, sig |-> f.sig]
  /\ f.phase \in {"signing", "signed", "failed"}
  /\ f.curve \in Curves /\ f.key \in Keys /\ f.digest \in Digests
  /\ f.phase = "signed" =>
        \E j \in KeysOf(f.curve) : IsSigned(f.curve, f.key, f.digest, f.sig, j)

IsVerified(v) ==
  v.kind = "verify" =>
    /\ v.curve \in Curves /\ v.key \in Keys
    /\ IsNumber(v.r) /\ IsNumber(v.s) /\ IsNumber(v.digest)
    /\ \E txt \in {PublicKey33(v.curve, v.key), PublicKey65(v.curve, v.key)} :
          v.code = VerifyDigest(v.curve, txt, v.r, v.s, v.digest)

WasRecovered(v, f) ==
  v.kind = "recover" =>
    /\ f.phase = "signed" /\ v.curve = f.curve /\ v.digest = f.digest
    /\ IsNumber(v.r) /\ IsNumber(v.s) /\ v.recid \in 0 .. 3
    /\ v.result \in Recover(v.curve, v.r, v.s, v.digest, v.recid)

WasRead(v) ==
  v.kind = "key" =>
    /\ v.curve \in Curves /\ v.point = ReadPubkey(v.curve, v.key)
    /\ v.key = [form |-> v.key.form, x |-> v.key.x, y |-> v.key.y]
    /\ v.key.form \in {0, 2, 3, 4} /\ v.key.x \in Nat /\ v.key.y \in Nat

WasWritten(v, f) ==
  v.kind = "der" =>
    /\ f.phase = "signed" /\ v.r = f.sig.r /\ v.s = f.sig.s
    /\ v.der = SigToDer(v.r, v.s)

IsAnswer(v, f) == IsVerified(v) /\ WasRecovered(v, f) /\ WasRead(v) /\ WasWritten(v, f)

EcdsaInv ==
  /\ signer \in {NoSigner, [phase |-> "read"]} \/ IsCall(signer)
  /\ IsAnswer(verdict, signer)

LEMMA SignersAre ==
  /\ \A c \in Curves, d \in Keys : d \in KeysOf(c)
  /\ \A m \in Digests : IsNumber(m) /\ m \in Nat
  /\ \A k \in Nonces : IsNumber(k) /\ k \in Nat
  /\ \A x \in Coordinates : x \in Nat
<1>1. 2 ^ NumberBits \in Nat
  <2>1. PICK b, q : b = ByteRange /\ q = 2 ^ NumberBits
    OBVIOUS
  <2>2. b \in Nat /\ q = b * b
    BY <2>1, EcdsaAssumption
  <2> QED
    BY <2>1, <2>2
<1>2. \A x \in Digests \cup Nonces \cup Coordinates : IsNumber(x) /\ x \in Nat
  BY <1>1, EcdsaAssumption DEF IsNumber
<1>3. \A c \in Curves, d \in Keys : d \in KeysOf(c)
  BY EcdsaAssumption DEF KeysOf
<1> QED
  BY <1>2, <1>3

LEMMA NoVerdictIs ==
  ASSUME NEW v, v = NoVerdict, NEW f
  PROVE  IsAnswer(v, f)
<1>1. v.kind = "none"
  BY DEF NoVerdict
<1> QED
  BY <1>1 DEF IsAnswer, IsVerified, WasRecovered, WasRead, WasWritten

\* While nothing is signed, nothing was recovered or written.
LEMMA AnswerStays ==
  ASSUME NEW v, NEW f, IsAnswer(v, f), f.phase # "signed", NEW g
  PROVE  IsAnswer(v, g)
  BY DEF IsAnswer, WasRecovered, WasWritten

LEMMA BeginKeeps ==
  ASSUME NEW c \in Curves, NEW d \in Keys, NEW m \in Digests, BeginSign(c, d, m)
  PROVE  EcdsaInv'
<1>1. signer' = [phase |-> "signing", curve |-> c, key |-> d, digest |-> m,
                 tries |-> 0, sig |-> << >>]
  BY DEF BeginSign
<1>2. /\ signer'.phase = "signing" /\ signer'.curve = c /\ signer'.key = d
      /\ signer'.digest = m /\ signer'.tries = 0 /\ signer'.sig = << >>
  BY <1>1
<1>3. IsCall(signer')
  BY <1>1, <1>2 DEF IsCall
<1>4. IsAnswer(verdict', signer')
  BY NoVerdictIs DEF BeginSign
<1> QED
  BY <1>3, <1>4 DEF EcdsaInv

LEMMA ReadKeeps ==
  ASSUME NEW c \in Curves, NEW form \in {0, 2, 3, 4},
         NEW x \in Coordinates, NEW y \in Coordinates,
         ReadKey(c, [form |-> form, x |-> x, y |-> y])
  PROVE  EcdsaInv'
<1>1. PICK txt : txt = [form |-> form, x |-> x, y |-> y]
  OBVIOUS
<1>2. txt.form = form /\ txt.x = x /\ txt.y = y /\ x \in Nat /\ y \in Nat
  BY <1>1, SignersAre
<1>3. verdict' = [kind |-> "key", curve |-> c, key |-> txt, point |-> ReadPubkey(c, txt)]
      /\ signer' = [phase |-> "read"]
  BY <1>1 DEF ReadKey
<1>4. /\ verdict'.kind = "key" /\ verdict'.curve = c /\ verdict'.key = txt
      /\ verdict'.point = ReadPubkey(c, txt)
  BY <1>3
<1>5. WasRead(verdict')
  BY <1>1, <1>2, <1>4 DEF WasRead
<1>6. IsAnswer(verdict', signer')
  BY <1>4, <1>5 DEF IsAnswer, IsVerified, WasRecovered, WasWritten
<1> QED
  BY <1>3, <1>6 DEF EcdsaInv

\* A call is one record of these fields.
LEMMA CallIs ==
  ASSUME EcdsaInv, signer.phase \notin {"idle", "read"}
  PROVE  IsCall(signer) /\ IsAnswer(verdict, signer)
<1>1. signer # NoSigner /\ signer # [phase |-> "read"]
  BY DEF NoSigner
<1> QED
  BY <1>1 DEF EcdsaInv

LEMMA TryKeeps ==
  ASSUME CurvesAreGroups, ProductsAreReduced(Nat), EcdsaInv,
         NEW k \in Nonces, NEW canonical \in BOOLEAN, TryNonce(k, canonical)
  PROVE  EcdsaInv'
<1>1. PICK c, d, m, n, e :
        c = signer.curve /\ d = signer.key /\ m = signer.digest /\ n = signer.tries
        /\ e = signer.sig
  OBVIOUS
<1>2. PICK sig : sig = SignWith(c, d, m, k)
  OBVIOUS
<1>3. signer.phase = "signing" /\ verdict' = verdict
  BY DEF TryNonce
<1>4. IsCall(signer) /\ IsAnswer(verdict, signer)
  BY <1>3, CallIs
<1>5. signer = [phase |-> "signing", curve |-> c, key |-> d, digest |-> m,
                tries |-> n, sig |-> e]
      /\ c \in Curves /\ d \in Keys /\ m \in Digests
  BY <1>1, <1>3, <1>4 DEF IsCall
<1>6. IsAnswer(verdict', signer')
  <2>1. signer.phase # "signed"
    BY <1>3
  <2> QED
    BY <1>3, <1>4, <2>1, AnswerStays
<1>7. CASE k # 0 /\ k < c.order /\ sig.ok /\ canonical
  <2>1. signer' = [signer EXCEPT !.phase = "signed", !.sig = sig]
    BY <1>1, <1>2, <1>7 DEF TryNonce
  <2>2. signer' = [phase |-> "signed", curve |-> c, key |-> d, digest |-> m,
                   tries |-> n, sig |-> sig]
    BY <1>5, <2>1
  <2>3. /\ signer'.phase = "signed" /\ signer'.curve = c /\ signer'.key = d
        /\ signer'.digest = m /\ signer'.tries = n /\ signer'.sig = sig
    BY <2>2
  <2>4. \E j \in KeysOf(c) : IsSigned(c, d, m, sig, j)
    <3>1. IsGroup(c)
      BY <1>5 DEF CurvesAreGroups
    <3>2. d \in KeysOf(c) /\ m \in Nat /\ k \in Nat
      BY <1>5, SignersAre
    <3>3. k \in KeysOf(c)
      <4>1. c.order \in Nat
        BY <1>5, CurveIs
      <4> QED
        BY <1>7, <3>2, <4>1 DEF KeysOf
    <3>4. sig.ok
      BY <1>7
    <3> QED
      BY <1>2, <1>5, <3>1, <3>2, <3>3, <3>4, SignIs
  <2>5. IsCall(signer')
    BY <1>5, <2>2, <2>3, <2>4 DEF IsCall
  <2> QED
    BY <1>6, <2>5 DEF EcdsaInv
<1>8. CASE ~ (k # 0 /\ k < c.order /\ sig.ok /\ canonical)
  <2>1. signer' = [signer EXCEPT !.tries = @ + 1]
    BY <1>1, <1>2, <1>8 DEF TryNonce
  <2>2. PICK t : t = n + 1
    OBVIOUS
  <2>3. signer' = [phase |-> "signing", curve |-> c, key |-> d, digest |-> m,
                   tries |-> t, sig |-> e]
    BY <1>5, <2>1, <2>2
  <2>4. /\ signer'.phase = "signing" /\ signer'.curve = c /\ signer'.key = d
        /\ signer'.digest = m /\ signer'.tries = t /\ signer'.sig = e
    BY <2>3
  <2>5. IsCall(signer')
    BY <1>5, <2>3, <2>4 DEF IsCall
  <2> QED
    BY <1>6, <2>5 DEF EcdsaInv
<1> QED
  BY <1>7, <1>8

LEMMA GiveUpKeeps ==
  ASSUME EcdsaInv, GiveUp
  PROVE  EcdsaInv'
<1>1. PICK c, d, m, n, e :
        c = signer.curve /\ d = signer.key /\ m = signer.digest /\ n = signer.tries
        /\ e = signer.sig
  OBVIOUS
<1>2. signer.phase = "signing" /\ verdict' = verdict
  BY DEF GiveUp
<1>3. IsCall(signer) /\ IsAnswer(verdict, signer)
  BY <1>2, CallIs
<1>4. signer = [phase |-> "signing", curve |-> c, key |-> d, digest |-> m,
                tries |-> n, sig |-> e]
      /\ c \in Curves /\ d \in Keys /\ m \in Digests
  BY <1>1, <1>2, <1>3 DEF IsCall
<1>5. signer' = [phase |-> "failed", curve |-> c, key |-> d, digest |-> m,
                 tries |-> n, sig |-> e]
  BY <1>4 DEF GiveUp
<1>6. /\ signer'.phase = "failed" /\ signer'.curve = c /\ signer'.key = d
      /\ signer'.digest = m /\ signer'.tries = n /\ signer'.sig = e
  BY <1>5
<1>7. IsCall(signer')
  BY <1>4, <1>5, <1>6 DEF IsCall
<1>8. IsAnswer(verdict', signer')
  <2>1. signer.phase # "signed"
    BY <1>2
  <2> QED
    BY <1>2, <1>3, <2>1, AnswerStays
<1> QED
  BY <1>7, <1>8 DEF EcdsaInv

LEMMA VerifyKeeps ==
  ASSUME EcdsaInv, NEW d \in Keys, NEW r, NEW s, NEW m, NEW c, c = signer.curve,
         NEW txt \in {PublicKey33(c, d), PublicKey65(c, d)}, Verify(txt, d, r, s, m)
  PROVE  EcdsaInv'
<1>1. signer.phase = "signed" /\ signer' = signer
      /\ IsNumber(r) /\ IsNumber(s) /\ IsNumber(m)
  BY DEF Verify
<1>2. IsCall(signer)
  BY <1>1, CallIs
<1>3. c \in Curves
  BY <1>2 DEF IsCall
<1>4. PICK code : code = VerifyDigest(c, txt, r, s, m)
  OBVIOUS
<1>5. verdict' = [kind |-> "verify", curve |-> c, key |-> d, r |-> r, s |-> s,
                  digest |-> m, code |-> code]
  BY <1>4 DEF Verify
<1>6. /\ verdict'.kind = "verify" /\ verdict'.curve = c /\ verdict'.key = d
      /\ verdict'.r = r /\ verdict'.s = s /\ verdict'.digest = m /\ verdict'.code = code
  BY <1>5
<1>7. IsVerified(verdict')
  BY <1>1, <1>3, <1>4, <1>6 DEF IsVerified
<1>8. IsAnswer(verdict', signer')
  BY <1>6, <1>7 DEF IsAnswer, WasRecovered, WasRead, WasWritten
<1> QED
  BY <1>1, <1>2, <1>8 DEF EcdsaInv

LEMMA RecoverKeeps ==
  ASSUME EcdsaInv, NEW r, NEW s, NEW m, m = signer.digest, NEW recid \in 0 .. 3,
         RecoverKey(r, s, m, recid)
  PROVE  EcdsaInv'
<1>1. signer.phase = "signed" /\ signer' = signer /\ IsNumber(r) /\ IsNumber(s)
  BY DEF RecoverKey
<1>2. IsCall(signer)
  BY <1>1, CallIs
<1>3. PICK c : c = signer.curve
  OBVIOUS
<1>4. PICK found \in Recover(c, r, s, m, recid) :
           verdict' = [kind |-> "recover", curve |-> c, r |-> r, s |-> s,
                       digest |-> m, recid |-> recid, result |-> found]
  BY <1>3 DEF RecoverKey
<1>5. /\ verdict'.kind = "recover" /\ verdict'.curve = c
      /\ verdict'.r = r /\ verdict'.s = s /\ verdict'.digest = m
      /\ verdict'.recid = recid /\ verdict'.result = found
  BY <1>4
<1>6. WasRecovered(verdict', signer')
  BY <1>1, <1>3, <1>5 DEF WasRecovered
<1>7. IsAnswer(verdict', signer')
  BY <1>5, <1>6 DEF IsAnswer, IsVerified, WasRead, WasWritten
<1> QED
  BY <1>1, <1>2, <1>7 DEF EcdsaInv

LEMMA WriteKeeps ==
  ASSUME EcdsaInv, WriteDer
  PROVE  EcdsaInv'
<1>1. signer.phase = "signed" /\ signer' = signer
  BY DEF WriteDer
<1>2. IsCall(signer)
  BY <1>1, CallIs
<1>3. PICK r, s, der : r = signer.sig.r /\ s = signer.sig.s /\ der = SigToDer(r, s)
  OBVIOUS
<1>4. verdict' = [kind |-> "der", r |-> r, s |-> s, der |-> der]
  BY <1>3 DEF WriteDer
<1>5. verdict'.kind = "der" /\ verdict'.r = r /\ verdict'.s = s /\ verdict'.der = der
  BY <1>4
<1>6. WasWritten(verdict', signer')
  BY <1>1, <1>3, <1>5 DEF WasWritten
<1>7. IsAnswer(verdict', signer')
  BY <1>5, <1>6 DEF IsAnswer, IsVerified, WasRead, WasRecovered
<1> QED
  BY <1>1, <1>2, <1>7 DEF EcdsaInv

LEMMA EcdsaStart == EcdsaInit => EcdsaInv
  BY NoVerdictIs DEF EcdsaInit, EcdsaInv

LEMMA EcdsaStep ==
  ASSUME CurvesAreGroups, ProductsAreReduced(Nat), EcdsaInv, [EcdsaNext]_ecdsaVars
  PROVE  EcdsaInv'
<1>1. CASE \E c \in Curves, d \in Keys, m \in Digests : BeginSign(c, d, m)
  BY <1>1, BeginKeeps
<1>2. CASE \E c \in Curves, form \in {0, 2, 3, 4}, x \in Coordinates, y \in Coordinates :
             ReadKey(c, [form |-> form, x |-> x, y |-> y])
  BY <1>2, ReadKeeps
<1>3. CASE \E k \in Nonces, canonical \in BOOLEAN : TryNonce(k, canonical)
  BY <1>3, TryKeeps
<1>4. CASE GiveUp
  BY <1>4, GiveUpKeeps
<1>5. CASE Check
  <2>1. PICK rs, m :
          \/ \E d \in Keys : \/ Verify(PublicKey33(signer.curve, d), d, rs[1], rs[2], m)
                             \/ Verify(PublicKey65(signer.curve, d), d, rs[1], rs[2], m)
          \/ \E recid \in 0 .. 3 : RecoverKey(rs[1], rs[2], signer.digest, recid)
    BY <1>5 DEF Check
  <2>2. ASSUME NEW d \in Keys, Verify(PublicKey33(signer.curve, d), d, rs[1], rs[2], m)
        PROVE  EcdsaInv'
    BY <2>2, VerifyKeeps
  <2>3. ASSUME NEW d \in Keys, Verify(PublicKey65(signer.curve, d), d, rs[1], rs[2], m)
        PROVE  EcdsaInv'
    BY <2>3, VerifyKeeps
  <2>4. ASSUME NEW recid \in 0 .. 3, RecoverKey(rs[1], rs[2], signer.digest, recid)
        PROVE  EcdsaInv'
    BY <2>4, RecoverKeeps
  <2> QED
    BY <2>1, <2>2, <2>3, <2>4
<1>6. CASE WriteDer
  BY <1>6, WriteKeeps
<1>7. CASE UNCHANGED ecdsaVars
  BY <1>7 DEF ecdsaVars, EcdsaInv
<1> QED
  BY <1>1, <1>2, <1>3, <1>4, <1>5, <1>6, <1>7 DEF EcdsaNext

-----------------------------------------------------------------------------
(* What the invariant says of the answers.                                 *)

LEMMA AcceptedSound ==
  ASSUME CurvesAreGroups, ProductsAreReduced(Nat), EcdsaInv
  PROVE  AcceptedIsSignature
<1> SUFFICES ASSUME verdict.kind = "verify"
             PROVE  verdict.code = 0 <=>
                      /\ IsSignature(verdict.curve, verdict.key, verdict.r, verdict.s,
                                     verdict.digest)
                      /\ ~ (verdict.digest % verdict.curve.order = 0)
  BY Zenon DEF AcceptedIsSignature
<1>1. IsVerified(verdict)
  BY DEF EcdsaInv, IsAnswer
<1>2. PICK c, d, r, s, m : /\ c = verdict.curve /\ d = verdict.key /\ r = verdict.r
                           /\ s = verdict.s /\ m = verdict.digest
  OBVIOUS
<1>3. PICK txt \in {PublicKey33(c, d), PublicKey65(c, d)} :
        verdict.code = VerifyDigest(c, txt, r, s, m)
  BY <1>1, <1>2 DEF IsVerified
<1>4. c \in Curves /\ d \in KeysOf(c) /\ IsGroup(c) /\ IsNumber(r) /\ IsNumber(s) /\ IsNumber(m)
  <2>1. c \in Curves /\ d \in Keys /\ IsNumber(r) /\ IsNumber(s) /\ IsNumber(m)
    BY <1>1, <1>2 DEF IsVerified
  <2> QED
    BY <2>1, SignersAre DEF CurvesAreGroups
<1>5. VerifyDigest(c, txt, r, s, m) = 0 <=> IsSignature(c, d, r, s, m) /\ m % c.order # 0
  BY <1>4, AcceptedIs
<1> QED
  BY <1>2, <1>3, <1>5

\* The curve, the key and the digest of a call, and the signature's nonce.
LEMMA SignedIs ==
  ASSUME CurvesAreGroups, EcdsaInv, signer.phase = "signed",
         NEW c, c = signer.curve, NEW d, d = signer.key, NEW m, m = signer.digest
  PROVE  /\ c \in Curves /\ IsGroup(c) /\ d \in KeysOf(c) /\ IsNumber(m) /\ m \in Nat
         /\ \E j \in KeysOf(c) : IsSigned(c, d, m, signer.sig, j)
<1>1. IsCall(signer)
  BY CallIs
<1>2. c \in Curves /\ d \in Keys /\ m \in Digests
  BY <1>1 DEF IsCall
<1>3. \E j \in KeysOf(c) : IsSigned(c, d, m, signer.sig, j)
  BY <1>1 DEF IsCall
<1> QED
  BY <1>2, <1>3, SignersAre DEF CurvesAreGroups

LEMMA RecoveredSound ==
  ASSUME CurvesAreGroups, ProductsAreReduced(Nat), EcdsaInv
  PROVE  RecoveredIsSigner
<1> SUFFICES ASSUME verdict.kind = "recover"
             PROVE  RecoveredIsSigner
  BY DEF RecoveredIsSigner
<1>1. WasRecovered(verdict, signer)
  BY DEF EcdsaInv, IsAnswer
<1>2. PICK c, d, r, s, m, recid, found, n :
        /\ c = signer.curve /\ d = signer.key /\ m = signer.digest
        /\ r = verdict.r /\ s = verdict.s /\ recid = verdict.recid
        /\ found = verdict.result /\ n = c.order
  OBVIOUS
<1>3. /\ signer.phase = "signed" /\ verdict.curve = c /\ verdict.digest = m
      /\ IsNumber(r) /\ IsNumber(s) /\ recid \in 0 .. 3
      /\ found \in Recover(c, r, s, m, recid)
  BY <1>1, <1>2 DEF WasRecovered
<1>4. c \in Curves /\ IsGroup(c) /\ d \in KeysOf(c) /\ IsNumber(m) /\ m \in Nat
  BY <1>2, <1>3, SignedIs
<1>5. ASSUME r = signer.sig.r, s = signer.sig.s
      PROVE  found = [code |-> 0, point |-> Times(c, d)] <=> recid = signer.sig.by
  <2>1. PICK j \in KeysOf(c) : IsSigned(c, d, m, signer.sig, j)
    BY <1>2, <1>3, SignedIs
  <2> QED
    BY <1>3, <1>4, <1>5, <2>1, OwnRecovered
<1>6. PICK i : i = FieldInverse(s % n, n)
  OBVIOUS
<1>7. ASSUME found.code # 1
      PROVE  TextSum(c, Multiple(c, (m * i) % n, c.base),
                        Multiple(c, (r * i) % n, found.point)).x % n = r
  <2>1. InOrder(c, r) /\ InOrder(c, s) /\ ValidatePubkey(c, NoncePoint(c, r, recid))
    BY <1>3, <1>7, RecoveredWhen
  <2>2. PICK k \in KeysOf(c), t \in ResiduesOf(c) : IsRecovered(c, r, s, m, recid, k, t)
    BY <1>2, <1>3, <1>4, <2>1, RecoverIs
  <2>3. found.point = Times(c, t)
    BY <1>3, <2>2 DEF IsRecovered, IsFound
  <2>4. PICK v : v = Times(c, k).x
    OBVIOUS
  <2>5. v \in {r, r + n} /\ Times(c, k).x = v
    BY <1>2, <2>2, <2>4 DEF IsRecovered
  <2>6. (r * t + m) % n = (s * k) % n
    BY <1>2, <2>2 DEF IsRecovered
  <2>7. r \in Nat /\ s \in Nat
    BY <1>3, <1>4, NumberReduced
  <2>8. TextSum(c, Multiple(c, (m * i) % n, c.base),
                   Multiple(c, (r * i) % n, Times(c, t))).x % n = r
    BY <1>2, <1>4, <1>6, <2>1, <2>5, <2>6, <2>7, RecoveredIsGood
  <2> QED
    BY <2>3, <2>8
<1> QED
  BY <1>2, <1>3, <1>5, <1>6, <1>7 DEF RecoveredIsSigner, Times

LEMMA KeyReadSound ==
  ASSUME CurvesAreGroups, ProductsAreReduced(Nat), EcdsaInv
  PROVE  KeyReadIsPoint
<1> SUFFICES ASSUME verdict.kind = "key"
             PROVE  KeyReadIsPoint
  BY DEF KeyReadIsPoint
<1>1. WasRead(verdict)
  BY DEF EcdsaInv, IsAnswer
<1>2. PICK c, txt, form, x, u, q :
        /\ c = verdict.curve /\ txt = verdict.key /\ q = verdict.point
        /\ form = txt.form /\ x = txt.x /\ u = txt.y
  OBVIOUS
<1>3. /\ c \in Curves /\ q = ReadPubkey(c, txt) /\ txt = [form |-> form, x |-> x, y |-> u]
      /\ form \in {0, 2, 3, 4} /\ x \in Nat /\ u \in Nat
  <2>1. verdict.curve \in Curves /\ verdict.point = ReadPubkey(verdict.curve, verdict.key)
    BY <1>1 DEF WasRead
  <2>2. verdict.key = [form |-> verdict.key.form, x |-> verdict.key.x, y |-> verdict.key.y]
    BY <1>1, Zenon DEF WasRead
  <2>3. verdict.key.form \in {0, 2, 3, 4} /\ verdict.key.x \in Nat /\ verdict.key.y \in Nat
    BY <1>1 DEF WasRead
  <2>4. txt = [form |-> txt.form, x |-> txt.x, y |-> txt.y]
    BY <1>2, <2>2, Zenon
  <2> QED
    BY <1>2, <2>1, <2>3, <2>4
<1>4. IsGroup(c)
  BY <1>3 DEF CurvesAreGroups
<1>5. q # Infinity => /\ q.x = x /\ x < c.prime /\ q.y \in 0 .. (c.prime - 1)
                      /\ OnCurve(c, x, q.y)
                      /\ form = 4 => q.y = u
                      /\ form \in {2, 3} => q.y % 2 = form % 2
  BY <1>3, <1>4, KeyReadIs
<1>6. \A y \in 0 .. (c.prime - 1) :
        /\ form \in {2, 3, 4} /\ x < c.prime /\ OnCurve(c, x, y)
        /\ form = 4 => y = u
        /\ form \in {2, 3} => y % 2 = form % 2
        => q # Infinity
  BY <1>3, <1>4, KeyReadIs
<1>7. CASE q # Infinity
  BY <1>2, <1>5, <1>7, Zenon DEF KeyReadIsPoint, OnCurve
<1>8. CASE q = Infinity
  BY <1>2, <1>6, <1>8, Zenon DEF KeyReadIsPoint, OnCurve
<1> QED
  BY <1>7, <1>8

LEMMA OwnSound ==
  ASSUME CurvesAreGroups, ProductsAreReduced(Nat), EcdsaInv
  PROVE  OwnSignatureIsGood
<1>1. PICK c, d, m, sig, der, l :
        /\ c = signer.curve /\ d = signer.key /\ m = signer.digest /\ sig = signer.sig
        /\ der = verdict.der /\ l = der[4]
  OBVIOUS
<1>2. ASSUME signer.phase = "signed"
      PROVE  /\ IsSignature(c, d, sig.r, sig.s, m) /\ 2 * sig.s < c.order
             /\ sig.r \in KeysOf(c) /\ sig.s \in KeysOf(c) /\ c \in Curves
  <2>1. /\ c \in Curves /\ IsGroup(c) /\ d \in KeysOf(c) /\ m \in Nat
        /\ \E j \in KeysOf(c) : IsSigned(c, d, m, sig, j)
    BY <1>1, <1>2, SignedIs
  <2>2. PICK j \in KeysOf(c) : IsSigned(c, d, m, sig, j)
    BY <2>1
  <2>3. IsSignature(c, d, sig.r, sig.s, m)
    BY <2>1, <2>2, SignedIsSignature
  <2> QED
    BY <2>1, <2>2, <2>3 DEF IsSigned
<1>3. ASSUME verdict.kind = "der"
      PROVE  /\ der[1] = 48 /\ der[2] = Len(der) - 2 /\ der[3] = 2 /\ der[5 + l] = 2
             /\ Len(der) = 6 + l + der[6 + l]
             /\ DerValue(der, 5, l) = verdict.r /\ DerShortest(der, 5, l)
             /\ DerValue(der, 7 + l, der[6 + l]) = verdict.s
             /\ DerShortest(der, 7 + l, der[6 + l])
  <2>1. WasWritten(verdict, signer)
    BY DEF EcdsaInv, IsAnswer
  <2>2. PICK r, s : r = sig.r /\ s = sig.s
    OBVIOUS
  <2>3. /\ signer.phase = "signed" /\ verdict.r = r /\ verdict.s = s /\ der = SigToDer(r, s)
    BY <1>1, <1>3, <2>1, <2>2 DEF WasWritten
  <2>4. r \in KeysOf(c) /\ s \in KeysOf(c) /\ c \in Curves
    BY <1>2, <2>2, <2>3
  <2>5. r \in Nat \ {0} /\ s \in Nat \ {0} /\ InOrder(c, r) /\ InOrder(c, s)
    <3>1. c.order \in Nat
      BY <2>4, CurveIs
    <3> QED
      BY <2>4, <3>1 DEF KeysOf, InOrder
  <2>6. IsNumber(r) /\ IsNumber(s)
    BY <2>4, <2>5, KeyInOrder
  <2>7. PICK k : k = der[6 + l]
    OBVIOUS
  <2>8. der = SigToDer(r, s) /\ l = der[4] /\ k = der[6 + l]
    BY <1>1, <2>3, <2>7
  <2>9. /\ der[1] = 48 /\ der[2] = Len(der) - 2 /\ der[3] = 2 /\ der[5 + l] = 2
        /\ Len(der) = 6 + l + k
        /\ DerValue(der, 5, l) = r /\ DerShortest(der, 5, l)
        /\ DerValue(der, 7 + l, k) = s /\ DerShortest(der, 7 + l, k)
    BY <2>5, <2>6, <2>8, DerIs, SMTT(30)
  <2> QED
    BY <2>3, <2>7, <2>9
<1>4. signer.phase = "signed" =>
        /\ IsSignature(signer.curve, signer.key, signer.sig.r, signer.sig.s, signer.digest)
        /\ 2 * signer.sig.s < signer.curve.order
  BY <1>1, <1>2
<1>5. verdict.kind = "der" =>
        /\ der[1] = 48 /\ der[2] = Len(der) - 2 /\ der[3] = 2 /\ der[5 + l] = 2
        /\ Len(der) = 6 + l + der[6 + l]
        /\ DerValue(der, 5, l) = verdict.r /\ DerShortest(der, 5, l)
        /\ DerValue(der, 7 + l, der[6 + l]) = verdict.s
        /\ DerShortest(der, 7 + l, der[6 + l])
  BY <1>3
<1> QED
  BY <1>1, <1>4, <1>5, Zenon DEF OwnSignatureIsGood, DerValue, DerShortest

-----------------------------------------------------------------------------
(* A signature that ecdsa_sign_digest gives satisfies the signing          *)
(* equation, whatever the nonces before it were; its s is the lower of     *)
(* two, and ecdsa_sig_to_der writes each number in its shortest form.      *)
THEOREM SignatureCorrect ==
  ASSUME CurvesAreGroups, ProductsAreReduced(Nat)
  PROVE  EcdsaSpec => []OwnSignatureIsGood
<1>1. EcdsaInit => EcdsaInv
  BY EcdsaStart
<1>2. EcdsaInv /\ [EcdsaNext]_ecdsaVars => EcdsaInv'
  BY EcdsaStep
<1>3. EcdsaInv => OwnSignatureIsGood
  BY OwnSound
<1> QED
  BY <1>1, <1>2, <1>3, PTL DEF EcdsaSpec

(* ecdsa_verify_digest accepts exactly the signatures of the equation, but *)
(* none for a digest that is zero modulo the order.                        *)
THEOREM VerifierCorrect ==
  ASSUME CurvesAreGroups, ProductsAreReduced(Nat)
  PROVE  EcdsaSpec => []AcceptedIsSignature
<1>1. EcdsaInit => EcdsaInv
  BY EcdsaStart
<1>2. EcdsaInv /\ [EcdsaNext]_ecdsaVars => EcdsaInv'
  BY EcdsaStep
<1>3. EcdsaInv => AcceptedIsSignature
  BY AcceptedSound
<1> QED
  BY <1>1, <1>2, <1>3, PTL DEF EcdsaSpec

(* ecdsa_verify_digest_recover gives the signer's key for the signer's     *)
(* recovery byte and for no other byte, and never a key for which the      *)
(* signature is no good; and it gives infinity, or never returns, only for *)
(* a signature whose nonce is the digest divided by s, which the signer's  *)
(* own byte never is.                                                      *)
THEOREM RecoveryCorrect ==
  ASSUME CurvesAreGroups, ProductsAreReduced(Nat)
  PROVE  EcdsaSpec => []RecoveredIsSigner
<1>1. EcdsaInit => EcdsaInv
  BY EcdsaStart
<1>2. EcdsaInv /\ [EcdsaNext]_ecdsaVars => EcdsaInv'
  BY EcdsaStep
<1>3. EcdsaInv => RecoveredIsSigner
  BY RecoveredSound
<1> QED
  BY <1>1, <1>2, <1>3, PTL DEF EcdsaSpec

(* ecdsa_read_pubkey reads the points of the curve and nothing else, with  *)
(* the y that the text asks for.                                           *)
THEOREM KeyReadCorrect ==
  ASSUME CurvesAreGroups, ProductsAreReduced(Nat)
  PROVE  EcdsaSpec => []KeyReadIsPoint
<1>1. EcdsaInit => EcdsaInv
  BY EcdsaStart
<1>2. EcdsaInv /\ [EcdsaNext]_ecdsaVars => EcdsaInv'
  BY EcdsaStep
<1>3. EcdsaInv => KeyReadIsPoint
  BY KeyReadSound
<1> QED
  BY <1>1, <1>2, <1>3, PTL DEF EcdsaSpec

-----------------------------------------------------------------------------
(* The group of secp256k1, as the nodes need it.                           *)

KeysAreGroup ==
  /\ G(0) = Infinity
  /\ \A j \in Residues, k \in Residues : PointAdd(Secp256k1, G(j), G(k)) = G((j + k) % ORDER)
  /\ \A j \in PrivateKeys, k \in PrivateKeys :
        (j * k) % ORDER # 0 /\ Multiple(Secp256k1, j, G(k)) = G((j * k) % ORDER)
  /\ \A k \in PrivateKeys :
        /\ G(k) # Infinity /\ G(k).x \in Nat /\ G(k).y \in Nat
        /\ ReadPubkey(Secp256k1, PublicKey33(Secp256k1, k)) = G(k)
        /\ ReadPubkey(Secp256k1, PublicKey65(Secp256k1, k)) = G(k)
  /\ \A public \in Compressed :
        ReadPubkey(Secp256k1, public) # Infinity =>
            \E k \in PrivateKeys : ReadPubkey(Secp256k1, public) = G(k)

\* The order is prime: no product of two keys is zero.
LEMMA ProductOfKeys ==
  ASSUME NEW c \in Curves, NEW j \in KeysOf(c), NEW k \in KeysOf(c)
  PROVE  (j * k) % c.order # 0
<1>1. PICK n, i, zero : n = c.order /\ i = FieldInverse(k, n) /\ zero = 0
  OBVIOUS
<1>2. n \in Nat \ {0} /\ j \in 1 .. (n - 1) /\ k \in 1 .. (n - 1)
  BY <1>1, ResiduesAre DEF KeysOf
<1>3. k \in Nat /\ InOrder(c, k)
  BY <1>1, <1>2 DEF InOrder
<1>4. AreInverse(k, i, n)
  BY <1>1, <1>3, KeyInOrder
<1>5. k \in Int /\ i \in Int /\ (k * i) % n = 1 /\ j \in Int /\ zero \in Int
  BY <1>1, <1>2, <1>4 DEF AreInverse
<1>6. (zero * k) % n = 0 /\ zero % n = 0
  BY <1>1, <1>2
<1>7. ASSUME (j * k) % n = (zero * k) % n  PROVE j % n = zero % n
  BY <1>2, <1>5, <1>7, Cancelled, ZenonT(60)
<1>8. j % n = j /\ j # 0
  <2>1. j \in 0 .. (n - 1) /\ j # 0
    BY <1>2
  <2> QED
    BY <1>2, <2>1, SmallRemainder
<1> QED
  BY <1>1, <1>6, <1>7, <1>8

LEMMA GroupOfKeys ==
  ASSUME CurveIsGroup
  PROVE  KeysAreGroup
<1>1. PICK c : c = Secp256k1
  OBVIOUS
<1>2. c \in Curves /\ IsGroup(c)
  BY <1>1, HDNodeAssumption DEF Secp256k1, CurveIsGroup
<1>3. /\ \A k : G(k) = Times(c, k)
      /\ Residues = ResiduesOf(c) /\ PrivateKeys = KeysOf(c) /\ ORDER = c.order
  BY <1>1 DEF G, Times, Residues, ResiduesOf, PrivateKeys, KeysOf, ORDER
<1>4. G(0) = Infinity
  BY <1>2, <1>3, GroupIs
<1>5. \A j \in Residues, k \in Residues : PointAdd(c, G(j), G(k)) = G((j + k) % ORDER)
  BY <1>2, <1>3, GroupIs
<1>6. ASSUME NEW j \in PrivateKeys, NEW k \in PrivateKeys
      PROVE  (j * k) % ORDER # 0 /\ Multiple(c, j, G(k)) = G((j * k) % ORDER)
  <2>1. j \in KeysOf(c) /\ k \in KeysOf(c)
    BY <1>3
  <2>2. j \in ResiduesOf(c) /\ k \in ResiduesOf(c)
    BY <1>2, <2>1, ResiduesAre
  <2>3. (j * k) % c.order # 0
    BY <1>2, <2>1, ProductOfKeys
  <2>4. Multiple(c, j, Times(c, k)) = Times(c, (j * k) % c.order)
    BY <1>2, <2>2, GroupIs
  <2> QED
    BY <1>3, <2>3, <2>4
<1>7. ASSUME NEW k \in PrivateKeys
      PROVE  /\ G(k) # Infinity /\ G(k).x \in Nat /\ G(k).y \in Nat
             /\ ReadPubkey(c, PublicKey33(c, k)) = G(k)
             /\ ReadPubkey(c, PublicKey65(c, k)) = G(k)
  BY <1>2, <1>3, GroupIs
<1>8. ASSUME NEW public \in Compressed, ReadPubkey(c, public) # Infinity
      PROVE  \E k \in PrivateKeys : ReadPubkey(c, public) = G(k)
  <2>1. public \in PublicKeys
    BY DEF Compressed, PublicKeys
  <2> QED
    BY <1>2, <1>3, <1>8, <2>1, PointIsTimes
<1> QED
  BY <1>1, <1>4, <1>5, <1>6, <1>7, <1>8 DEF KeysAreGroup

-----------------------------------------------------------------------------
(* One derivation.                                                         *)

LEMMA OrderIs == ORDER \in Nat \ {0} /\ Keys \subseteq PrivateKeys
<1>1. Secp256k1 \in Curves
  BY HDNodeAssumption DEF Secp256k1
<1>2. ORDER \in Nat \ {0}
  BY <1>1, HDNodeAssumption DEF ORDER
<1>3. \A d \in Keys : d \in 1 .. (ORDER - 1)
  BY <1>1, EcdsaAssumption DEF ORDER
<1> QED
  BY <1>2, <1>3 DEF PrivateKeys

LEMMA MinIn ==
  ASSUME NEW S \in SUBSET Tries, S # {}
  PROVE  Min(S) \in S
<1>1. S \in SUBSET Nat
  BY HDNodeAssumption DEF Tries
<1>2. \E n \in S : \A m \in S : n <= m
  BY <1>1, LeastMember
<1> QED
  BY <1>2 DEF Min

Bare(nd) == [nd EXCEPT !.public = NoKey]

IsNode(nd) ==
  /\ nd = [depth |-> nd.depth, child |-> nd.child, chain |-> nd.chain,
             private |-> nd.private, public |-> nd.public]
  /\ nd.depth \in Nat

IsHolder(nd) ==
  /\ IsNode(nd) /\ nd.private \in PrivateKeys
  /\ nd.public \in {NoKey, PublicKey33(Secp256k1, nd.private)}

IsWatcher(nd) == IsNode(nd) /\ nd.private = 0 /\ nd.public \in Compressed

LEMMA NodeIsSome ==
  ASSUME NEW nd, IsNode(nd)
  PROVE  nd # NoHDNode
  BY DEF IsNode, NoHDNode

\* The public key of a private one.
LEMMA KeyIs ==
  ASSUME CurveIsGroup, NEW k \in PrivateKeys
  PROVE  /\ PublicKey33(Secp256k1, k) \in Compressed
         /\ PublicKey33(Secp256k1, k) # NoKey
         /\ PublicKey33(Secp256k1, k) = [form |-> 2 + (G(k).y % 2), x |-> G(k).x, y |-> 0]
<1>1. PICK y, x : y = G(k).y /\ x = G(k).x
  OBVIOUS
<1>2. x \in Nat /\ y \in Nat
  BY <1>1, GroupOfKeys DEF KeysAreGroup
<1>3. PublicKey33(Secp256k1, k) = [form |-> 2 + (y % 2), x |-> x, y |-> 0]
  BY <1>1 DEF PublicKey33, G
<1>4. 2 + (y % 2) \in {2, 3}
  BY <1>2
<1> QED
  BY <1>1, <1>2, <1>3, <1>4 DEF Compressed, NoKey

\* What a soft derivation puts into the hash is the public key.
LEMMA FilledIs ==
  ASSUME CurveIsGroup, NEW nd, IsHolder(nd)
  PROVE  /\ Filled(nd) = [nd EXCEPT !.public = PublicKey33(Secp256k1, nd.private)]
         /\ IsHolder(Filled(nd)) /\ IsHolder(Bare(nd)) /\ Bare(Filled(nd)) = Bare(nd)
<1>1. PICK p : p = PublicKey33(Secp256k1, nd.private)
  OBVIOUS
<1>2. p \in Compressed /\ p # NoKey
  BY <1>1, KeyIs DEF IsHolder
<1>3. /\ nd = [depth |-> nd.depth, child |-> nd.child, chain |-> nd.chain,
                 private |-> nd.private, public |-> nd.public]
      /\ nd.depth \in Nat /\ nd.private \in PrivateKeys /\ nd.public \in {NoKey, p}
  BY <1>1 DEF IsHolder, IsNode
<1>4. Filled(nd) = [nd EXCEPT !.public = p]
  <2>1. CASE nd.public = NoKey
    BY <1>1, <2>1 DEF Filled, NoKey
  <2>2. CASE nd.public = p
    <3>1. p.form # 0
      BY <1>2 DEF Compressed
    <3>2. Filled(nd) = nd
      BY <2>2, <3>1 DEF Filled
    <3>3. [nd EXCEPT !.public = p] = nd
      BY <1>3, <2>2
    <3> QED
      BY <3>2, <3>3
  <2> QED
    BY <1>3, <2>1, <2>2
<1>5. \A q \in {NoKey, p} : IsHolder([nd EXCEPT !.public = q])
  BY <1>1, <1>3 DEF IsHolder, IsNode
<1>6. [[nd EXCEPT !.public = p] EXCEPT !.public = NoKey] = [nd EXCEPT !.public = NoKey]
  BY <1>3
<1> QED
  BY <1>1, <1>4, <1>5, <1>6 DEF Bare

\* The data of a soft child, from either half.
SoftData(public, i) == [lead |-> public.form, body |-> public.x, i |-> i]

LEMMA HalvesAre ==
  ASSUME CurveIsGroup, NEW nd, IsHolder(nd), NEW i
  PROVE  PrivateHalves(nd, i) =
            ChildHalves(nd.chain,
                IF Hardened(i) THEN [lead |-> 0, body |-> nd.private, i |-> i]
                ELSE SoftData(PublicKey33(Secp256k1, nd.private), i))
<1>1. Filled(nd).public = PublicKey33(Secp256k1, nd.private)
  BY FilledIs DEF IsHolder, IsNode
<1> QED
  BY <1>1 DEF PrivateHalves, SoftData

\* A filled-in public key does not change what is derived.
LEMMA BareChild ==
  ASSUME CurveIsGroup, NEW nd, IsHolder(nd), NEW i
  PROVE  /\ PrivateTries(Bare(nd), i) = PrivateTries(nd, i)
         /\ PrivateCkd(Bare(nd), i) = PrivateCkd(nd, i)
<1>1. PICK b : b = Bare(nd)
  OBVIOUS
<1>2. IsHolder(b) /\ b.private = nd.private /\ b.chain = nd.chain /\ b.depth = nd.depth
  BY <1>1, FilledIs DEF Bare, IsHolder, IsNode
<1>3. PrivateHalves(b, i) = PrivateHalves(nd, i)
  BY <1>2, HalvesAre
<1>4. \A left : PrivateChild(b, left) = PrivateChild(nd, left)
  BY <1>2 DEF PrivateChild
<1>5. PrivateTries(b, i) = PrivateTries(nd, i)
  BY <1>3, <1>4 DEF PrivateTries
<1>6. PrivateCkd(b, i) = PrivateCkd(nd, i)
  BY <1>2, <1>3, <1>4, <1>5 DEF PrivateCkd
<1> QED
  BY <1>1, <1>5, <1>6

\* The child's number is the sum of its parent's and what the hash gives.
LEMMA ChildNumber ==
  ASSUME SumsAreReduced, NEW nd, nd.private \in PrivateKeys, NEW left \in Residues
  PROVE  /\ PrivateChild(nd, left) = (left + nd.private) % ORDER
         /\ (left + nd.private) % ORDER \in Residues
         /\ (left + nd.private) % ORDER = (nd.private + left) % ORDER
<1>1. PICK n, k, s : n = ORDER /\ k = nd.private /\ s = left + k
  OBVIOUS
<1>2. n \in Nat \ {0} /\ k \in Nat /\ left \in Nat /\ s \in Nat /\ s = k + left
  <2>1. n \in Nat \ {0} /\ k \in 1 .. (n - 1) /\ left \in 0 .. (n - 1)
    BY <1>1, OrderIs DEF PrivateKeys, Residues
  <2> QED
    BY <1>1, <2>1
<1>3. PICK r : r = s % n
  OBVIOUS
<1>4. r \in 0 .. (n - 1)
  BY <1>2, <1>3, Split
<1>5. PICK t : t = PartlyReduced(s, n)
  OBVIOUS
<1>6. t \in {r, r + n}
  <2>1. s \in 0 .. (2 * n)
    BY <1>1, <1>2, OrderIs DEF PrivateKeys, Residues
  <2> QED
    BY <1>1, <1>2, <1>3, <1>5, <2>1 DEF SumsAreReduced, Representatives
<1>7. PrivateChild(nd, left) = IF t < n THEN t ELSE t - n
  BY <1>1, <1>5 DEF PrivateChild, AddMod, Reduced
<1>8. PrivateChild(nd, left) = r
  BY <1>2, <1>4, <1>6, <1>7
<1> QED
  BY <1>1, <1>2, <1>3, <1>4, <1>8 DEF Residues

LEMMA ChildIsHolder ==
  ASSUME CurveIsGroup, SumsAreReduced, NEW nd, IsHolder(nd), NEW i,
         PrivateTries(nd, i) # {}
  PROVE  IsHolder(PrivateCkd(nd, i)) /\ PrivateCkd(nd, i).public = NoKey
<1>1. PICK n, left : n = Min(PrivateTries(nd, i)) /\ left = PrivateHalves(nd, i)[n].left
  OBVIOUS
<1>2. n \in PrivateTries(nd, i)
  <2>1. PrivateTries(nd, i) \in SUBSET Tries
    BY DEF PrivateTries
  <2> QED
    BY <1>1, <2>1, MinIn
<1>3. left \in Residues /\ PrivateChild(nd, left) # 0
  BY <1>1, <1>2 DEF PrivateTries, Residues
<1>4. PrivateChild(nd, left) \in Residues
  BY <1>3, ChildNumber DEF IsHolder
<1>5. PrivateChild(nd, left) \in PrivateKeys
  BY <1>3, <1>4, OrderIs DEF Residues, PrivateKeys
<1>6. PICK c : c = PrivateCkd(nd, i)
  OBVIOUS
<1>7. c = [depth |-> nd.depth + 1, child |-> i, chain |-> PrivateHalves(nd, i)[n].right,
           private |-> PrivateChild(nd, left), public |-> NoKey]
  BY <1>1, <1>6 DEF PrivateCkd
<1>8. nd.depth + 1 \in Nat
  BY DEF IsHolder, IsNode
<1> QED
  BY <1>5, <1>6, <1>7, <1>8 DEF IsHolder, IsNode

\* The public half of a node.
Half(w, h) ==
  /\ w.public = PublicKey33(Secp256k1, h.private)
  /\ w.chain = h.chain /\ w.child = h.child
  /\ (w.depth - h.depth) % DepthRange = 0

\* Both halves find the same numbers to be good, and the same children.
LEMMA ChildOfHalf ==
  ASSUME CurveIsGroup, SumsAreReduced, NEW h, IsHolder(h), NEW w, IsWatcher(w), Half(w, h),
         NEW i, ~ Hardened(i), PrivateTries(h, i) # {}
  PROVE  /\ PublicCkd(w, i).ok /\ IsWatcher(PublicCkd(w, i).node)
         /\ Half(PublicCkd(w, i).node, PrivateCkd(h, i))
<1>1. PICK k, p, a, halves :
        /\ k = h.private /\ p = PublicKey33(Secp256k1, k) /\ a = ParentPoint(w)
        /\ halves = PrivateHalves(h, i)
  OBVIOUS
<1>2. k \in PrivateKeys /\ w.public = p /\ w.chain = h.chain
  BY <1>1 DEF IsHolder, Half
<1>3. a = G(k) /\ a # Infinity
  BY <1>1, <1>2, GroupOfKeys DEF KeysAreGroup, ParentPoint
<1>4. halves = PublicHalves(w.public, w.chain, i)
  BY <1>1, <1>2, HalvesAre DEF PublicHalves, SoftData
<1>5. k \in Residues
  BY <1>2, OrderIs DEF PrivateKeys, Residues
<1>6. ASSUME NEW left \in Residues
      PROVE  /\ PublicChild(a, left) = G(PrivateChild(h, left))
             /\ PrivateChild(h, left) \in Residues
  <2>1. PublicChild(a, left) = PointAdd(Secp256k1, G(k), G(left))
    BY <1>3 DEF PublicChild, G
  <2>2. PointAdd(Secp256k1, G(k), G(left)) = G((k + left) % ORDER)
    BY <1>5, GroupOfKeys DEF KeysAreGroup
  <2>3. PrivateChild(h, left) = (k + left) % ORDER /\ (k + left) % ORDER \in Residues
    BY <1>1, <1>2, ChildNumber
  <2> QED
    BY <2>1, <2>2, <2>3
<1>7. ASSUME NEW c \in Residues  PROVE G(c) # Infinity <=> c # 0
  <2>1. c = 0 \/ c \in PrivateKeys
    BY OrderIs DEF Residues, PrivateKeys
  <2>2. 0 \notin PrivateKeys
    BY OrderIs DEF PrivateKeys
  <2> QED
    BY <2>1, <2>2, GroupOfKeys DEF KeysAreGroup
<1>8. \A left : GoodChild(a, left) <=> left \in Residues /\ PrivateChild(h, left) # 0
  BY <1>6, <1>7 DEF GoodChild, Residues
<1>9. PublicTries(a, w.public, w.chain, i) = PrivateTries(h, i)
  BY <1>1, <1>4, <1>8 DEF PublicTries, PrivateTries, Residues
<1>10. PICK n, left, b, step, child :
        /\ n = Min(PrivateTries(h, i)) /\ left = halves[n].left /\ b = PublicChild(a, left)
        /\ step = PublicStep(a, w.public, w.chain, i) /\ child = PublicCkd(w, i).node
  OBVIOUS
<1>11. left \in Residues /\ PrivateChild(h, left) # 0
  <2>1. PrivateTries(h, i) \in SUBSET Tries
    BY DEF PrivateTries
  <2>2. n \in PrivateTries(h, i)
    BY <1>10, <2>1, MinIn
  <2> QED
    BY <1>1, <1>10, <2>2 DEF PrivateTries, Residues
<1>12. PICK c : c = PrivateChild(h, left)
  OBVIOUS
<1>13. c \in PrivateKeys /\ b = G(c)
  <2>1. c \in Residues /\ c # 0 /\ b = G(c)
    BY <1>6, <1>10, <1>11, <1>12
  <2> QED
    BY <2>1, OrderIs DEF Residues, PrivateKeys
<1>14. step = [public |-> PublicKey33(Secp256k1, c), chain |-> halves[n].right]
  <2>1. step = [public |-> [form |-> 2 + (b.y % 2), x |-> b.x, y |-> 0],
                chain |-> halves[n].right]
    BY <1>4, <1>9, <1>10 DEF PublicStep
  <2>2. PublicKey33(Secp256k1, c) = [form |-> 2 + (b.y % 2), x |-> b.x, y |-> 0]
    BY <1>13, KeyIs
  <2> QED
    BY <2>1, <2>2
<1>15. PICK u, x, y, v :
        /\ u = [w EXCEPT !.private = 0] /\ x = step.chain /\ y = step.public
        /\ v = [u EXCEPT !.depth = @ + 1, !.child = i, !.chain = x, !.public = y]
        /\ PublicCkd(w, i) = [ok |-> TRUE, node |-> v]
  BY <1>1, <1>3, <1>10 DEF PublicCkd
<1>16. PublicCkd(w, i).ok
       /\ child = [depth |-> w.depth + 1, child |-> i, chain |-> halves[n].right,
                   private |-> 0, public |-> PublicKey33(Secp256k1, c)]
  <2>1. w = [depth |-> w.depth, child |-> w.child, chain |-> w.chain,
             private |-> w.private, public |-> w.public]
    BY DEF IsWatcher, IsNode
  <2>2. u = [depth |-> w.depth, child |-> w.child, chain |-> w.chain,
             private |-> 0, public |-> w.public]
    BY <1>15, <2>1
  <2>3. x = halves[n].right /\ y = PublicKey33(Secp256k1, c)
    BY <1>14, <1>15
  <2>4. v = [depth |-> w.depth + 1, child |-> i, chain |-> x, private |-> 0, public |-> y]
    BY <1>15, <2>2
  <2>5. PublicCkd(w, i).ok /\ child = v
    BY <1>10, <1>15
  <2> QED
    BY <2>3, <2>4, <2>5
<1>17. PICK g : g = PrivateCkd(h, i)
  OBVIOUS
<1>18. g = [depth |-> h.depth + 1, child |-> i, chain |-> halves[n].right,
            private |-> c, public |-> NoKey]
  BY <1>1, <1>10, <1>12, <1>17 DEF PrivateCkd
<1>19. IsWatcher(child)
  <2>1. w.depth + 1 \in Nat
    BY DEF IsWatcher, IsNode
  <2>2. PublicKey33(Secp256k1, c) \in Compressed
    BY <1>13, KeyIs
  <2> QED
    BY <1>16, <2>1, <2>2 DEF IsWatcher, IsNode
<1>20. Half(child, g)
  <2>1. (w.depth + 1) - (h.depth + 1) = w.depth - h.depth
    BY DEF IsWatcher, IsHolder, IsNode
  <2> QED
    BY <1>16, <1>18, <2>1 DEF Half
<1> QED
  BY <1>10, <1>16, <1>17, <1>19, <1>20

\* A child of any point that was read is a point again.
LEMMA ChildOfPoint ==
  ASSUME CurveIsGroup, NEW w, IsWatcher(w), NEW i, ~ Hardened(i),
         ParentPoint(w) # Infinity,
         PublicTries(ParentPoint(w), w.public, w.chain, i) # {}
  PROVE  /\ PublicCkd(w, i).ok /\ IsWatcher(PublicCkd(w, i).node)
         /\ ParentPoint(PublicCkd(w, i).node) # Infinity
<1>1. PICK a, tries, n, left, b, step :
        /\ a = ParentPoint(w) /\ tries = PublicTries(a, w.public, w.chain, i)
        /\ n = Min(tries) /\ left = PublicHalves(w.public, w.chain, i)[n].left
        /\ b = PublicChild(a, left) /\ step = PublicStep(a, w.public, w.chain, i)
  OBVIOUS
<1>2. PICK k \in PrivateKeys : a = G(k)
  BY <1>1, GroupOfKeys DEF KeysAreGroup, ParentPoint, IsWatcher
<1>3. left \in Residues /\ b # Infinity
  <2>1. tries \in SUBSET Tries
    BY <1>1 DEF PublicTries
  <2>2. n \in tries
    BY <1>1, <2>1, MinIn
  <2> QED
    BY <1>1, <2>2 DEF PublicTries, GoodChild, Residues
<1>4. k \in Residues
  BY OrderIs DEF PrivateKeys, Residues
<1>5. PICK c : c = (k + left) % ORDER
  OBVIOUS
<1>6. b = G(c)
  <2>1. b = PointAdd(Secp256k1, G(k), G(left))
    BY <1>1, <1>2 DEF PublicChild, G
  <2>2. left \in Residues
    BY <1>3
  <2>3. PointAdd(Secp256k1, G(k), G(left)) = G((k + left) % ORDER)
    BY <1>4, <2>2, GroupOfKeys DEF KeysAreGroup
  <2> QED
    BY <1>5, <2>1, <2>3
<1>7. c \in PrivateKeys
  <2>1. k + left \in Int
    BY <1>3, <1>4, OrderIs DEF Residues
  <2>2. c \in 0 .. (ORDER - 1)
    BY <1>5, <2>1, OrderIs, Split
  <2>3. c # 0
    BY <1>3, <1>6, GroupOfKeys DEF KeysAreGroup
  <2> QED
    BY <2>2, <2>3, OrderIs DEF PrivateKeys
<1>8. step.public = PublicKey33(Secp256k1, c)
  <2>1. step.public = [form |-> 2 + (b.y % 2), x |-> b.x, y |-> 0]
    BY <1>1 DEF PublicStep
  <2> QED
    BY <1>6, <1>7, <2>1, KeyIs
<1>9. PICK u, x, y, v :
        /\ u = [w EXCEPT !.private = 0] /\ x = step.chain /\ y = step.public
        /\ v = [u EXCEPT !.depth = @ + 1, !.child = i, !.chain = x, !.public = y]
        /\ PublicCkd(w, i) = [ok |-> TRUE, node |-> v]
  BY <1>1 DEF PublicCkd
<1>10. v = [depth |-> w.depth + 1, child |-> i, chain |-> x, private |-> 0, public |-> y]
  <2>1. w = [depth |-> w.depth, child |-> w.child, chain |-> w.chain,
             private |-> w.private, public |-> w.public]
    BY DEF IsWatcher, IsNode
  <2>2. u = [depth |-> w.depth, child |-> w.child, chain |-> w.chain,
             private |-> 0, public |-> w.public]
    BY <1>9, <2>1
  <2> QED
    BY <1>9, <2>2
<1>11. y \in Compressed /\ ReadPubkey(Secp256k1, y) = G(c) /\ G(c) # Infinity
  BY <1>7, <1>8, <1>9, KeyIs, GroupOfKeys DEF KeysAreGroup
<1>12. IsWatcher(v) /\ ParentPoint(v) # Infinity
  <2>1. w.depth + 1 \in Nat
    BY DEF IsWatcher, IsNode
  <2> QED
    BY <1>10, <1>11, <2>1 DEF IsWatcher, IsNode, ParentPoint
<1> QED
  BY <1>9, <1>12

-----------------------------------------------------------------------------
(* The holder's nodes and the watcher's, since the holder published one.   *)

HolderPath(H, p, r) ==
  \A m \in Nat : r <= m /\ m < Len(p) =>
      PrivateTries(H[m], p[m + 1]) # {} /\ H[m + 1] = PrivateCkd(H[m], p[m + 1])
WatcherPath(W, q, r) ==
  \A m \in Nat : r <= m /\ m < Len(q) =>
      ~ Hardened(q[m + 1]) /\ W[m + 1] = PublicCkd(W[m], q[m + 1]).node

\* H and W hold the nodes at each length of the two paths, from the length r
\* that the holder's path had then.
IsLink(p, q, h, w, r, H, W) ==
  /\ r <= Len(p) /\ r <= Len(q)
  /\ H[Len(p)] = Bare(h) /\ W[Len(q)] = w
  /\ IsHolder(H[r]) /\ IsWatcher(W[r]) /\ Half(W[r], H[r])
  /\ HolderPath(H, p, r) /\ WatcherPath(W, q, r)
Linked(p, q, h, w) == \E r \in Nat : \E H, W : IsLink(p, q, h, w, r, H, W)

\* Nodes at the end of one path are halves of each other.
LEMMA LinkedHalf ==
  ASSUME CurveIsGroup, SumsAreReduced, NEW p \in Seq(Nat), NEW h, IsHolder(h), NEW w,
         Linked(p, p, h, w)
  PROVE  Half(w, h)
<1>1. PICK r \in Nat : \E H, W : IsLink(p, p, h, w, r, H, W)
  BY DEF Linked
<1>2. PICK H, W : IsLink(p, p, h, w, r, H, W)
  BY <1>1
<1>3. PICK n : n = Len(p)
  OBVIOUS
<1>4. n \in Nat /\ r <= n
  BY <1>2, <1>3, LenProperties DEF IsLink
<1>5. /\ HolderPath(H, p, r) /\ WatcherPath(W, p, r) /\ H[n] = Bare(h) /\ W[n] = w
      /\ IsHolder(H[r]) /\ IsWatcher(W[r]) /\ Half(W[r], H[r])
  BY <1>2, <1>3 DEF IsLink
<1> DEFINE Halves(m) == IsHolder(H[m]) /\ IsWatcher(W[m]) /\ Half(W[m], H[m])
           S == {j \in Nat : r + j <= n => Halves(r + j)}
<1>6. 0 \in S
  BY <1>4, <1>5
<1>7. ASSUME NEW j \in Nat, j \in S  PROVE j + 1 \in S
  <2> SUFFICES ASSUME r + (j + 1) <= n  PROVE Halves(r + (j + 1))
    OBVIOUS
  <2>1. PICK m : m = r + j
    OBVIOUS
  <2>2. m \in Nat /\ r <= m /\ m < n /\ m + 1 = r + (j + 1) /\ r + j <= n
    BY <1>4, <2>1
  <2>3. Halves(m)
    BY <1>7, <2>1, <2>2
  <2>4. PICK i : i = p[m + 1]
    OBVIOUS
  <2>5. PrivateTries(H[m], i) # {} /\ H[m + 1] = PrivateCkd(H[m], i)
    BY <1>3, <1>5, <2>2, <2>4 DEF HolderPath
  <2>6. ~ Hardened(i) /\ W[m + 1] = PublicCkd(W[m], i).node
    BY <1>3, <1>5, <2>2, <2>4 DEF WatcherPath
  <2>7. IsHolder(H[m + 1])
    BY <2>3, <2>5, ChildIsHolder
  <2>8. IsWatcher(W[m + 1]) /\ Half(W[m + 1], H[m + 1])
    BY <2>3, <2>5, <2>6, ChildOfHalf
  <2> QED
    BY <2>2, <2>7, <2>8
<1> HIDE DEF S
<1>8. \A j \in Nat : j \in S
  BY <1>6, <1>7, Induction
<1>9. Halves(n)
  <2>1. n - r \in Nat /\ r + (n - r) = n
    BY <1>4
  <2>2. n - r \in S
    BY <1>8, <2>1
  <2> QED
    BY <2>1, <2>2 DEF S
<1>10. Half(w, Bare(h))
  BY <1>5, <1>9
<1>11. /\ Bare(h).private = h.private /\ Bare(h).chain = h.chain
       /\ Bare(h).child = h.child /\ Bare(h).depth = h.depth
  BY DEF Bare, IsHolder, IsNode
<1> QED
  BY <1>10, <1>11 DEF Half

\* A sequence of nodes with one more.
OneMore(K, H, n, c) == K[n + 1] = c /\ \A m \in Nat : m <= n => K[m] = H[m]

LEMMA Stretched ==
  ASSUME NEW H, NEW n \in Nat, NEW c
  PROVE  \E K : OneMore(K, H, n, c)
<1>1. PICK K : K = [m \in Nat |-> IF m <= n THEN H[m] ELSE c]
  OBVIOUS
<1>2. OneMore(K, H, n, c)
  BY <1>1 DEF OneMore
<1> QED
  BY <1>2

LEMMA Longer ==
  ASSUME NEW p \in Seq(Nat), NEW i \in Nat
  PROVE  /\ Append(p, i) \in Seq(Nat) /\ Len(Append(p, i)) = Len(p) + 1 /\ Len(p) \in Nat
         /\ Append(p, i)[Len(p) + 1] = i
         /\ \A m \in Nat : m < Len(p) => Append(p, i)[m + 1] = p[m + 1]
<1>1. Len(p) \in Nat /\ \A m \in Nat : m < Len(p) => m + 1 \in 1 .. Len(p)
  BY LenProperties
<1> QED
  BY <1>1, AppendProperties

LEMMA LinkHolder ==
  ASSUME CurveIsGroup, SumsAreReduced, NEW p \in Seq(Nat), NEW q, NEW h, IsHolder(h), NEW w,
         Linked(p, q, h, w), NEW i \in Nat, PrivateTries(h, i) # {}
  PROVE  Linked(Append(p, i), q, PrivateCkd(h, i), w)
<1>1. PICK r \in Nat : \E H, W : IsLink(p, q, h, w, r, H, W)
  BY DEF Linked
<1>2. PICK H, W : IsLink(p, q, h, w, r, H, W)
  BY <1>1
<1>3. PICK n, c, s : n = Len(p) /\ c = PrivateCkd(h, i) /\ s = Append(p, i)
  OBVIOUS
<1>4. /\ n \in Nat /\ Len(s) = n + 1 /\ s[n + 1] = i
      /\ \A m \in Nat : m < n => s[m + 1] = p[m + 1]
  BY <1>3, Longer
<1>5. PICK K : OneMore(K, H, n, c)
  BY <1>4, Stretched
<1>5a. K[n + 1] = c /\ \A m \in Nat : m <= n => K[m] = H[m]
  BY <1>5 DEF OneMore
<1>6. /\ r <= n /\ H[n] = Bare(h) /\ IsHolder(H[r]) /\ HolderPath(H, p, r)
      /\ r <= Len(q) /\ W[Len(q)] = w /\ IsWatcher(W[r]) /\ Half(W[r], H[r])
      /\ WatcherPath(W, q, r)
  BY <1>2, <1>3 DEF IsLink
<1>7. c = Bare(c)
  <2>1. IsNode(c) /\ c.public = NoKey
    BY <1>3, ChildIsHolder DEF IsHolder
  <2> QED
    BY <2>1 DEF IsNode, Bare
<1>8. HolderPath(K, s, r)
  <2> SUFFICES ASSUME NEW m \in Nat, r <= m, m < n + 1
               PROVE  /\ PrivateTries(K[m], s[m + 1]) # {}
                      /\ K[m + 1] = PrivateCkd(K[m], s[m + 1])
    BY <1>4 DEF HolderPath
  <2>1. CASE m < n
    <3>1. m <= n /\ m + 1 <= n /\ m + 1 \in Nat
      BY <1>4, <2>1
    <3>2. K[m] = H[m] /\ K[m + 1] = H[m + 1] /\ s[m + 1] = p[m + 1]
      BY <1>4, <1>5a, <2>1, <3>1
    <3> QED
      BY <1>3, <1>6, <2>1, <3>2 DEF HolderPath
  <2>2. CASE ~ (m < n)
    <3>1. m = n
      BY <1>4, <2>2
    <3>2. K[n] = Bare(h)
      BY <1>4, <1>5a, <1>6
    <3>3. PrivateTries(Bare(h), i) # {} /\ PrivateCkd(Bare(h), i) = c
      BY <1>3, BareChild
    <3> QED
      BY <1>4, <1>5a, <3>1, <3>2, <3>3
  <2> QED
    BY <2>1, <2>2
<1>9. r <= n + 1 /\ K[r] = H[r]
  BY <1>4, <1>5a, <1>6
<1>10. IsLink(s, q, c, w, r, K, W)
  BY <1>4, <1>5a, <1>6, <1>7, <1>8, <1>9 DEF IsLink
<1> QED
  BY <1>3, <1>10 DEF Linked

LEMMA LinkFilled ==
  ASSUME CurveIsGroup, NEW p, NEW q, NEW h, IsHolder(h), NEW w, Linked(p, q, h, w)
  PROVE  Linked(p, q, Filled(h), w)
<1>1. PICK r \in Nat : \E H, W : IsLink(p, q, h, w, r, H, W)
  BY DEF Linked
<1>2. PICK H, W : IsLink(p, q, h, w, r, H, W)
  BY <1>1
<1>3. Bare(Filled(h)) = Bare(h)
  BY FilledIs
<1>4. IsLink(p, q, Filled(h), w, r, H, W)
  BY <1>2, <1>3 DEF IsLink
<1> QED
  BY <1>4 DEF Linked

LEMMA LinkWatcher ==
  ASSUME NEW p, NEW q \in Seq(Nat), NEW h, NEW w,
         Linked(p, q, h, w), NEW i \in Nat, ~ Hardened(i)
  PROVE  Linked(p, Append(q, i), h, PublicCkd(w, i).node)
<1>1. PICK r \in Nat : \E H, W : IsLink(p, q, h, w, r, H, W)
  BY DEF Linked
<1>2. PICK H, W : IsLink(p, q, h, w, r, H, W)
  BY <1>1
<1>3. PICK n, c, s : n = Len(q) /\ c = PublicCkd(w, i).node /\ s = Append(q, i)
  OBVIOUS
<1>4. /\ n \in Nat /\ Len(s) = n + 1 /\ s[n + 1] = i
      /\ \A m \in Nat : m < n => s[m + 1] = q[m + 1]
  BY <1>3, Longer
<1>5. PICK K : OneMore(K, W, n, c)
  BY <1>4, Stretched
<1>5a. K[n + 1] = c /\ \A m \in Nat : m <= n => K[m] = W[m]
  BY <1>5 DEF OneMore
<1>6. /\ r <= n /\ W[n] = w /\ IsHolder(H[r]) /\ HolderPath(H, p, r)
      /\ r <= Len(p) /\ H[Len(p)] = Bare(h) /\ IsWatcher(W[r]) /\ Half(W[r], H[r])
      /\ WatcherPath(W, q, r)
  BY <1>2, <1>3 DEF IsLink
<1>7. WatcherPath(K, s, r)
  <2> SUFFICES ASSUME NEW m \in Nat, r <= m, m < n + 1
               PROVE  ~ Hardened(s[m + 1]) /\ K[m + 1] = PublicCkd(K[m], s[m + 1]).node
    BY <1>4 DEF WatcherPath
  <2>1. CASE m < n
    <3>1. m <= n /\ m + 1 <= n /\ m + 1 \in Nat
      BY <1>4, <2>1
    <3>2. K[m] = W[m] /\ K[m + 1] = W[m + 1] /\ s[m + 1] = q[m + 1]
      BY <1>4, <1>5a, <2>1, <3>1
    <3> QED
      BY <1>3, <1>6, <2>1, <3>2 DEF WatcherPath
  <2>2. CASE ~ (m < n)
    <3>1. m = n
      BY <1>4, <2>2
    <3>2. K[n] = w
      BY <1>4, <1>5a, <1>6
    <3> QED
      BY <1>3, <1>4, <1>5a, <3>1, <3>2
  <2> QED
    BY <2>1, <2>2
<1>8. r <= n + 1 /\ K[r] = W[r]
  BY <1>4, <1>5a, <1>6
<1>9. IsLink(p, s, h, c, r, H, K)
  BY <1>4, <1>5a, <1>6, <1>7, <1>8 DEF IsLink
<1> QED
  BY <1>3, <1>9 DEF Linked

\* The text of the holder's node makes the watcher's node its public half.
LEMMA PublishedHalf ==
  ASSUME CurveIsGroup, NEW h, IsHolder(h)
  PROVE  LET w == Deserialize(Serialize(Filled(h), 0, "xpub")).node
         IN  IsWatcher(w) /\ Half(w, Filled(h)) /\ Half(w, Bare(h))
<1>1. PICK f, p : f = Filled(h) /\ p = PublicKey33(Secp256k1, h.private)
  OBVIOUS
<1>2. /\ f.depth = h.depth /\ f.child = h.child /\ f.chain = h.chain
      /\ f.private = h.private /\ f.public = p /\ h.depth \in Nat /\ h.private \in PrivateKeys
  BY <1>1, FilledIs DEF IsHolder, IsNode
<1>3. PICK str : str = Serialize(f, 0, "xpub")
  OBVIOUS
<1>4. /\ str.version = "xpub" /\ str.depth = h.depth % DepthRange /\ str.child = h.child
      /\ str.chain = h.chain /\ str.lead = p.form /\ str.body = p.x
  BY <1>2, <1>3 DEF Serialize
<1>5. p \in Compressed
  BY <1>1, <1>2, KeyIs
<1>6. PICK w : w = Deserialize(str).node
  OBVIOUS
<1>7. w = [depth |-> str.depth, child |-> str.child, chain |-> str.chain, private |-> 0,
           public |-> [form |-> str.lead, x |-> str.body, y |-> 0]]
  <2>1. str.version \in {"xpub", "xprv"} /\ str.version # "xprv"
    BY <1>4
  <2> QED
    BY <1>6, <2>1 DEF Deserialize
<1>8. w = [depth |-> h.depth % DepthRange, child |-> h.child, chain |-> h.chain,
           private |-> 0, public |-> p]
  <2>1. [form |-> str.lead, x |-> str.body, y |-> 0] = p
    BY <1>4, <1>5 DEF Compressed
  <2> QED
    BY <1>4, <1>7, <2>1
<1>9. h.depth % DepthRange \in Nat /\ ((h.depth % DepthRange) - h.depth) % DepthRange = 0
  <2>1. PICK r, d, a, q : r = DepthRange /\ a = h.depth /\ d = a % r /\ q = a \div r
    OBVIOUS
  <2>2. r \in Nat \ {0} /\ a \in Int
    BY <1>2, <2>1, HDNodeAssumption
  <2>3. q \in Int /\ d \in 0 .. (r - 1) /\ a = r * q + d
    BY <2>1, <2>2, Split
  <2>4. d - a = r * (- q) + 0 /\ d - a \in Int /\ - q \in Int /\ 0 \in 0 .. (r - 1)
    BY <2>2, <2>3
  <2>5. (d - a) % r = 0
    BY <2>2, <2>4, Divided
  <2> QED
    BY <2>1, <2>3, <2>5
<1>10. IsWatcher(w)
  BY <1>5, <1>8, <1>9 DEF IsWatcher, IsNode
<1>11. Half(w, f)
  BY <1>1, <1>2, <1>8, <1>9 DEF Half
<1>12. Half(w, Bare(h))
  <2>1. /\ Bare(h).private = h.private /\ Bare(h).chain = h.chain
        /\ Bare(h).child = h.child /\ Bare(h).depth = h.depth
    BY DEF Bare, IsHolder, IsNode
  <2> QED
    BY <1>1, <1>8, <1>9, <2>1 DEF Half
<1> QED
  BY <1>1, <1>3, <1>6, <1>10, <1>11, <1>12

LEMMA LinkStart ==
  ASSUME CurveIsGroup, NEW p \in Seq(Nat), NEW h, IsHolder(h), NEW w,
         w = Deserialize(Serialize(Filled(h), 0, "xpub")).node
  PROVE  Linked(p, p, Filled(h), w)
<1>1. PICK n, H, W : n = Len(p) /\ H = [m \in Nat |-> Bare(h)] /\ W = [m \in Nat |-> w]
  OBVIOUS
<1>2. n \in Nat /\ H[n] = Bare(h) /\ W[n] = w
  BY <1>1, LenProperties
<1>3. IsWatcher(w) /\ Half(w, Bare(h))
  BY PublishedHalf
<1>4. IsHolder(Bare(h)) /\ Bare(Filled(h)) = Bare(h)
  BY FilledIs
<1>5. HolderPath(H, p, n) /\ WatcherPath(W, p, n)
  BY <1>1, <1>2 DEF HolderPath, WatcherPath
<1>6. IsLink(p, p, Filled(h), w, n, H, W)
  BY <1>1, <1>2, <1>3, <1>4, <1>5 DEF IsLink
<1> QED
  BY <1>2, <1>6 DEF Linked

-----------------------------------------------------------------------------
(* What the other calls answer.                                            *)

\* The weights of bytes; provers count a written number out.
Weight2 == 65536
Weight3 == 16777216
Number(c, y, x, r) == Weight3 * c + Weight2 * y + 256 * x + r

LEMMA Weights ==
  /\ Weight2 \in Nat /\ Weight2 = 256 * 256 /\ Weight3 \in Nat /\ Weight3 = 256 * Weight2
  BY SMT DEF Weight2, Weight3

LEMMA BytesWeigh ==
  ASSUME NEW v \in Nat
  PROVE  /\ Byte(v, 0) = v % 256 /\ Byte(v, 1) = (v \div 256) % 256
         /\ Byte(v, 2) = (v \div Weight2) % 256 /\ Byte(v, 3) = (v \div Weight3) % 256
  BY SMT DEF Byte, Weight2, Weight3

LEMMA PrefixIs ==
  ASSUME NEW v \in Nat
  PROVE  PrefixLength(v) = IF v < 256 THEN 1 ELSE IF v < Weight2 THEN 2
                           ELSE IF v < Weight3 THEN 3 ELSE 4
  BY SMT DEF PrefixLength, Weight2, Weight3

\* A number is its quotient and its remainder.
IsQuotient(v, k, a, r) == a \in Nat /\ r \in 0 .. (k - 1) /\ v = k * a + r

LEMMA Quotient ==
  ASSUME NEW v \in Nat, NEW k \in Nat \ {0}
  PROVE  IsQuotient(v, k, v \div k, v % k)
<1>1. v \in Int
  OBVIOUS
<1>2. v \div k \in Nat /\ v % k \in 0 .. (k - 1)
  BY <1>1, Split
<1>3. v = k * (v \div k) + (v % k)
  BY <1>1, Split
<1> QED
  BY <1>2, <1>3, Zenon DEF IsQuotient

\* A version is its bytes.
LEMMA BytesAre ==
  ASSUME NEW v \in Nat, v \div Weight3 <= 255
  PROVE  \E c, y, x, r \in Nat :
            /\ c < 256 /\ y < 256 /\ x < 256 /\ r < 256 /\ v = Number(c, y, x, r)
            /\ Byte(v, 0) = r /\ Byte(v, 1) = x /\ Byte(v, 2) = y /\ Byte(v, 3) = c
<1>1. PICK k, l, w : k = 256 /\ l = Weight2 /\ w = Weight3
  OBVIOUS
<1>2. k \in Nat \ {0} /\ l \in Nat \ {0} /\ w \in Nat \ {0} /\ l = k * k /\ w = k * l
  BY <1>1, Weights
<1>3. PICK a, r : a = v \div k /\ r = v % k
  OBVIOUS
<1>3a. a \in Nat /\ r \in 0 .. (k - 1) /\ v = k * a + r
  BY <1>2, <1>3, Quotient DEF IsQuotient
<1>4. PICK b, s : b = v \div l /\ s = v % l
  OBVIOUS
<1>4a. b \in Nat /\ s \in 0 .. (l - 1) /\ v = l * b + s
  BY <1>2, <1>4, Quotient DEF IsQuotient
<1>5. PICK c, u : c = v \div w /\ u = v % w
  OBVIOUS
<1>5a. c \in Nat /\ u \in 0 .. (w - 1) /\ v = w * c + u
  BY <1>2, <1>5, Quotient DEF IsQuotient
<1>6. PICK x, y : x = a - k * b /\ y = b - k * c
  OBVIOUS
<1>7. c < k
  BY <1>1, <1>5, <1>5a
<1>8. /\ x \in Nat /\ x < k /\ a = k * b + x
      /\ y \in Nat /\ y < k /\ b = k * c + y
  <2>1. k * a + r = l * b + s /\ l * b + s = w * c + u
    BY <1>3a, <1>4a, <1>5a
  <2>2. /\ r \in Nat /\ s \in Nat /\ u \in Nat /\ r < k /\ s < l /\ u < w
        /\ a \in Nat /\ b \in Nat /\ c \in Nat
    BY <1>2, <1>3a, <1>4a, <1>5a
  <2>3. k = 256 /\ l = 256 * 256 /\ w = 256 * l
    BY <1>1, <1>2
  <2> QED
    BY <1>6, <2>1, <2>2, <2>3
<1>9. a % k = x /\ b % k = y /\ c % k = c
  <2>1. /\ x \in 0 .. (k - 1) /\ y \in 0 .. (k - 1) /\ c \in 0 .. (k - 1)
        /\ a \in Int /\ b \in Int /\ c \in Int /\ k * 0 = 0
    BY <1>2, <1>3a, <1>4a, <1>5a, <1>7, <1>8
  <2>2. a % k = x
    BY <1>2, <1>8, <2>1, Divided
  <2>3. b % k = y
    BY <1>2, <1>8, <2>1, Divided
  <2>4. c % k = c
    <3>1. c = k * 0 + c /\ 0 \in Int
      BY <2>1
    <3> QED
      BY <1>2, <2>1, <3>1, Divided
  <2> QED
    BY <2>2, <2>3, <2>4
<1>10. v = Number(c, y, x, r)
  <2>1. v = k * a + r /\ a = k * b + x /\ b = k * c + y
    BY <1>3a, <1>8
  <2>2. k = 256 /\ l = 256 * 256 /\ w = 256 * l
    BY <1>1, <1>2
  <2>3. /\ c \in Nat /\ x \in Nat /\ y \in Nat /\ r \in Nat /\ a \in Nat /\ b \in Nat
        /\ l \in Nat /\ w \in Nat
    BY <1>2, <1>3a, <1>4a, <1>5a, <1>8
  <2>3a. v = w * c + l * y + 256 * x + r
    BY <2>1, <2>2, <2>3
  <2>4. Number(c, y, x, r) = w * c + l * y + 256 * x + r
    BY <1>1 DEF Number
  <2> QED
    BY <2>3a, <2>4
<1>11. Byte(v, 0) = r /\ Byte(v, 1) = x /\ Byte(v, 2) = y /\ Byte(v, 3) = c
  <2>1. /\ Byte(v, 0) = v % k /\ Byte(v, 1) = (v \div k) % k
        /\ Byte(v, 2) = (v \div l) % k /\ Byte(v, 3) = (v \div w) % k
    BY <1>1, BytesWeigh
  <2>2. v \div k = a /\ v \div l = b /\ v \div w = c /\ v % k = r
    BY <1>3, <1>4, <1>5
  <2> QED
    BY <1>9, <2>1, <2>2
<1>12. /\ x < 256 /\ x \in Nat /\ y < 256 /\ y \in Nat /\ c < 256 /\ c \in Nat
  BY <1>1, <1>5a, <1>7, <1>8
<1>13. r < 256 /\ r \in Nat
  BY <1>1, <1>3a
<1> QED
  BY <1>10, <1>11, <1>12, <1>13

\* Versions that have prefixes of one length and the same bytes are the same.
LEMMA SameVersion ==
  ASSUME NEW v \in Nat, NEW e \in Nat, v \div Weight3 <= 255, e \div Weight3 <= 255,
         PrefixLength(v) = PrefixLength(e),
         \A n \in 1 .. PrefixLength(v) :
             Byte(v, PrefixLength(v) - n) = Byte(e, PrefixLength(v) - n)
  PROVE  v = e
<1>1. PICK c, y, x, r \in Nat :
        /\ c < 256 /\ y < 256 /\ x < 256 /\ r < 256 /\ v = Number(c, y, x, r)
        /\ Byte(v, 0) = r /\ Byte(v, 1) = x /\ Byte(v, 2) = y /\ Byte(v, 3) = c
  BY BytesAre
<1>2. PICK c2, y2, x2, r2 \in Nat :
        /\ c2 < 256 /\ y2 < 256 /\ x2 < 256 /\ r2 < 256 /\ e = Number(c2, y2, x2, r2)
        /\ Byte(e, 0) = r2 /\ Byte(e, 1) = x2 /\ Byte(e, 2) = y2 /\ Byte(e, 3) = c2
  BY BytesAre
<1>3. PICK n : n = PrefixLength(v)
  OBVIOUS
<1>4. n \in {1, 2, 3, 4}
  BY <1>3, PrefixIs
<1>5. \A k \in {0, 1, 2, 3} : k < n => Byte(v, k) = Byte(e, k)
  <2> SUFFICES ASSUME NEW k \in {0, 1, 2, 3}, k < n  PROVE Byte(v, k) = Byte(e, k)
    OBVIOUS
  <2>1. n - k \in 1 .. n /\ n - (n - k) = k
    BY <1>4
  <2> QED
    BY <1>3, <2>1
<1>6. ASSUME NEW m \in Nat, NEW d, NEW z, NEW w, NEW q,
             d \in Nat, z \in Nat, w \in Nat, q \in Nat, m = Number(d, z, w, q),
             d < 256, z < 256, w < 256, q < 256, PrefixLength(m) = n
      PROVE  /\ n = 1 => d = 0 /\ z = 0 /\ w = 0
             /\ n = 2 => d = 0 /\ z = 0
             /\ n = 3 => d = 0
  <2>1. PICK k, l : k = Weight2 /\ l = Weight3
    OBVIOUS
  <2>2. k = 256 * 256 /\ l = 256 * k
    BY <2>1, Weights
  <2>3. m = l * d + k * z + 256 * w + q
    BY <1>6, <2>1 DEF Number
  <2>4. /\ n = 1 => m < 256
        /\ n = 2 => m < k
        /\ n = 3 => m < l
    BY <1>6, <2>1, PrefixIs
  <2>5. l * d >= l \/ d = 0
    BY <1>6, <2>2
  <2>6. k * z >= k \/ z = 0
    BY <1>6, <2>2
  <2>7. l * d >= 0 /\ k * z >= 0 /\ l * d \in Nat /\ k * z \in Nat
    BY <1>6, <2>2
  <2> QED
    BY <1>6, <2>2, <2>3, <2>4, <2>5, <2>6, <2>7
<1>7. c = c2 /\ y = y2 /\ x = x2 /\ r = r2
  <2>1. /\ n = 1 => c = 0 /\ y = 0 /\ x = 0
        /\ n = 2 => c = 0 /\ y = 0
        /\ n = 3 => c = 0
    BY <1>1, <1>3, <1>6
  <2>2. /\ n = 1 => c2 = 0 /\ y2 = 0 /\ x2 = 0
        /\ n = 2 => c2 = 0 /\ y2 = 0
        /\ n = 3 => c2 = 0
    BY <1>2, <1>3, <1>6
  <2>3. r = r2 /\ (n >= 2 => x = x2) /\ (n >= 3 => y = y2) /\ (n >= 4 => c = c2)
    BY <1>1, <1>2, <1>4, <1>5
  <2> QED
    BY <1>4, <2>1, <2>2, <2>3
<1> QED
  BY <1>1, <1>2, <1>7

LEMMA AddressIs ==
  ASSUME NEW v \in Versions, NEW e \in Versions, NEW public
  PROVE  AddressDecode(Address(public, v), e) <=> v = e
<1>1. v \in Nat /\ e \in Nat /\ v \div Weight3 <= 255 /\ e \div Weight3 <= 255
  <2>1. v \in Nat /\ e \in Nat
    BY HDNodeAssumption
  <2>2. IsUint32(v) /\ IsUint32(e)
    BY HDNodeAssumption
  <2>3. v \div Weight3 <= 255 /\ e \div Weight3 <= 255
    BY <2>2, SMT DEF IsUint32, Weight3
  <2> QED
    BY <2>1, <2>3
<1>2. PICK n, m, s, t, raw :
        /\ n = PrefixLength(v) /\ m = PrefixLength(e)
        /\ s = [k \in 1 .. n |-> Byte(v, n - k)] /\ t = <<public>> /\ raw = s \o t
  OBVIOUS
<1>3. n \in Nat /\ m \in Nat
  BY <1>1, <1>2, PrefixIs
<1>4. raw = Address(public, v)
  BY <1>2 DEF Address, Prefixed
<1>5. Sequence(s) /\ Len(s) = n /\ Sequence(t) /\ Len(t) = 1
  <2>1. s = [k \in 1 .. n |-> s[k]]
    BY <1>2
  <2> QED
    BY <1>2, <1>3, <2>1, SequenceOfFunction, ShortSequences
<1>6. Len(raw) = n + 1 /\ \A k \in 1 .. n : raw[k] = Byte(v, n - k)
  <2>1. IsJoin(raw, s, t)
    BY <1>2, <1>5, Joined
  <2>2. Len(raw) = n + 1 /\ \A k \in 1 .. n + 1 : k <= n => raw[k] = s[k]
    BY <1>5, <2>1 DEF IsJoin
  <2>3. \A k \in 1 .. n : k \in 1 .. n + 1 /\ k <= n /\ s[k] = Byte(v, n - k)
    BY <1>2, <1>3
  <2> QED
    BY <2>2, <2>3
<1>7. AddressDecode(raw, e) <=>
        Len(raw) = m + 1 /\ \A k \in 1 .. m : raw[k] = Byte(e, m - k)
  BY <1>2 DEF AddressDecode
<1>8. ASSUME v = e  PROVE AddressDecode(raw, e)
  BY <1>2, <1>6, <1>7, <1>8
<1>9. ASSUME AddressDecode(raw, e)  PROVE v = e
  <2>1. n = m
    BY <1>3, <1>6, <1>7, <1>9
  <2>2. \A k \in 1 .. n : Byte(v, n - k) = Byte(e, n - k)
    BY <1>6, <1>7, <1>9, <2>1
  <2> QED
    BY <1>1, <1>2, <2>1, <2>2, SameVersion
<1> QED
  BY <1>4, <1>8, <1>9

\* Two who know each other's public key come to the same point.
LEMMA SharedIs ==
  ASSUME CurveIsGroup, NEW j \in PrivateKeys, NEW k \in PrivateKeys
  PROVE  /\ SharedKey(j, PublicKey65(Secp256k1, k)) = SharedKey(k, PublicKey33(Secp256k1, j))
         /\ SharedKey(j, PublicKey65(Secp256k1, k)) # Infinity
<1>1. /\ ReadPubkey(Secp256k1, PublicKey65(Secp256k1, k)) = G(k) /\ G(k) # Infinity
      /\ ReadPubkey(Secp256k1, PublicKey33(Secp256k1, j)) = G(j) /\ G(j) # Infinity
  BY GroupOfKeys DEF KeysAreGroup
<1>2. /\ SharedKey(j, PublicKey65(Secp256k1, k)) = Multiple(Secp256k1, j, G(k))
      /\ SharedKey(k, PublicKey33(Secp256k1, j)) = Multiple(Secp256k1, k, G(j))
  BY <1>1 DEF SharedKey
<1>3. /\ (j * k) % ORDER # 0 /\ Multiple(Secp256k1, j, G(k)) = G((j * k) % ORDER)
      /\ Multiple(Secp256k1, k, G(j)) = G((k * j) % ORDER)
  BY GroupOfKeys DEF KeysAreGroup
<1>4. PICK n, p : n = ORDER /\ p = j * k
  OBVIOUS
<1>5. n \in Nat \ {0} /\ j \in Int /\ k \in Int /\ p \in Int /\ p = k * j
  <2>1. n \in Nat \ {0}
    BY <1>4, OrderIs
  <2>2. j \in 1 .. (n - 1) /\ k \in 1 .. (n - 1)
    BY <1>4 DEF PrivateKeys
  <2> QED
    BY <1>4, <2>1, <2>2
<1>6. p % n \in PrivateKeys
  <2>1. p % n \in 0 .. (n - 1)
    BY <1>5, Split
  <2>2. p % n # 0
    BY <1>3, <1>4
  <2> QED
    BY <1>4, <1>5, <2>1, <2>2 DEF PrivateKeys
<1>7. G(p % n) # Infinity
  BY <1>6, GroupOfKeys DEF KeysAreGroup
<1>8. /\ SharedKey(j, PublicKey65(Secp256k1, k)) = G(p % n)
      /\ SharedKey(k, PublicKey33(Secp256k1, j)) = G(p % n)
  BY <1>2, <1>3, <1>4, <1>5
<1> QED
  BY <1>7, <1>8

\* A text that is read as a node with a private key is the holder's.
Reread(h, version, lead) ==
  Deserialize([Serialize(h, 0, "xprv") EXCEPT !.version = version, !.lead = lead])
Cut(h) == [h EXCEPT !.depth = @ % DepthRange, !.public = NoKey]

LEMMA RestoredIs ==
  ASSUME NEW h, IsHolder(h), NEW version, NEW lead, NEW read, read = Reread(h, version, lead),
         read.code = 0, read.node.private # 0
  PROVE  read.node = Cut(h)
<1>1. PICK str, half, txt :
        /\ str = Serialize(h, 0, "xprv") /\ half = [str EXCEPT !.version = version]
        /\ txt = [half EXCEPT !.lead = lead]
        /\ read = Deserialize(txt)
  BY DEF Reread
<1>2. str = [version |-> "xprv", depth |-> h.depth % DepthRange, fingerprint |-> 0,
             child |-> h.child, chain |-> h.chain, lead |-> 0, body |-> h.private]
  BY <1>1 DEF Serialize
<1>3. txt = [version |-> version, depth |-> h.depth % DepthRange, fingerprint |-> 0,
             child |-> h.child, chain |-> h.chain, lead |-> lead, body |-> h.private]
  <2>1. half = [version |-> version, depth |-> h.depth % DepthRange, fingerprint |-> 0,
                child |-> h.child, chain |-> h.chain, lead |-> 0, body |-> h.private]
    BY <1>1, <1>2
  <2>2. txt = [half EXCEPT !.lead = lead]
    BY <1>1
  <2> QED
    BY <2>1, <2>2
<1>4. read = Deserialize(txt)
  BY <1>1, Zenon
<1>5. version = "xprv"
  <2>1. CASE version \notin {"xpub", "xprv"}
    <3>1. read.code = -3
      BY <1>3, <1>4, <2>1 DEF Deserialize
    <3> QED
      BY <3>1
  <2>2. CASE version = "xpub"
    <3>1. read.node.private = 0
      BY <1>3, <1>4, <2>2 DEF Deserialize
    <3> QED
      BY <3>1
  <2> QED
    BY <2>1, <2>2
<1>6. read.node = [depth |-> h.depth % DepthRange, child |-> h.child, chain |-> h.chain,
                   private |-> h.private, public |-> NoKey]
  <2>1. CASE lead = 0
    BY <1>3, <1>4, <1>5, <2>1 DEF Deserialize
  <2>2. CASE lead # 0
    <3>1. read.code = -2
      BY <1>3, <1>4, <1>5, <2>2 DEF Deserialize
    <3> QED
      BY <3>1
  <2> QED
    BY <2>1, <2>2
<1>7. h = [depth |-> h.depth, child |-> h.child, chain |-> h.chain,
           private |-> h.private, public |-> h.public]
  BY DEF IsHolder, IsNode
<1>8. PICK d, k, c, x, p : /\ d = h.depth /\ k = h.child /\ c = h.chain
                           /\ x = h.private /\ p = h.public
  OBVIOUS
<1>9. h = [depth |-> d, child |-> k, chain |-> c, private |-> x, public |-> p]
  BY <1>7, <1>8
<1>10. [h EXCEPT !.depth = @ % DepthRange, !.public = NoKey] =
       [depth |-> d % DepthRange, child |-> k, chain |-> c, private |-> x, public |-> NoKey]
  <2>1. PICK e, f : e = d % DepthRange /\ f = [h EXCEPT !.depth = e]
    OBVIOUS
  <2>2. f = [depth |-> e, child |-> k, chain |-> c, private |-> x, public |-> p]
    BY <1>9, <2>1
  <2>3. [f EXCEPT !.public = NoKey] =
        [depth |-> e, child |-> k, chain |-> c, private |-> x, public |-> NoKey]
    BY <2>2
  <2>4. h.depth % DepthRange = e
    BY <1>8, <2>1
  <2>5. [h EXCEPT !.depth = @ % DepthRange, !.public = NoKey] = [f EXCEPT !.public = NoKey]
    BY <2>1, <2>4
  <2> QED
    BY <2>1, <2>3, <2>5
<1>11. read.node = [depth |-> d % DepthRange, child |-> k, chain |-> c,
                    private |-> x, public |-> NoKey]
  BY <1>6, <1>8
<1> QED
  BY <1>10, <1>11, Zenon DEF Cut

-----------------------------------------------------------------------------
(* The inductive invariant.                                                *)

\* What both have, and that the one follows from the other.
NodesLinked ==
  /\ derived \in [{"holder", "watcher"} -> Seq(Nat)]
  /\ HasHolder => IsHolder(holder)
  /\ HasWatcher => IsWatcher(watcher)
  /\ HasHolder /\ HasWatcher =>
        Linked(derived["holder"], derived["watcher"], holder, watcher)

ChildIsPoint ==
  answer.kind = "child" =>
      /\ answer.ok <=> ~ Hardened(answer.i) /\ ParentPoint(answer.parent) # Infinity
      /\ answer.ok => ParentPoint(watcher) # Infinity
RestoredIsHolder ==
  answer.kind = "restored" /\ answer.code = 0 /\ answer.node.private # 0 =>
      answer.node = Cut(holder)
SharedIsSame ==
  answer.kind = "shared" => answer.ours = answer.theirs /\ answer.ours # Infinity
AddressIsOwn ==
  answer.kind = "address" => (answer.decoded <=> answer.version = answer.expected)
AnswersSound == ChildIsPoint /\ RestoredIsHolder /\ SharedIsSame /\ AddressIsOwn

HDStrong == NodesLinked /\ AnswersSound

LEMMA NoAnswerSound ==
  ASSUME answer = NoAnswer
  PROVE  AnswersSound
<1>1. answer.kind = "none"
  BY DEF NoAnswer
<1> QED
  BY <1>1 DEF AnswersSound, ChildIsPoint, RestoredIsHolder, SharedIsSame, AddressIsOwn

LEMMA NoAnswerSoundNext ==
  ASSUME answer' = NoAnswer
  PROVE  AnswersSound'
<1>1. answer'.kind = "none"
  BY DEF NoAnswer
<1> QED
  BY <1>1 DEF AnswersSound, ChildIsPoint, RestoredIsHolder, SharedIsSame, AddressIsOwn

LEMMA HDStart == HDInit => HDStrong
<1> SUFFICES ASSUME HDInit  PROVE HDStrong
  OBVIOUS
<1>1. ~ HasHolder /\ ~ HasWatcher
  BY DEF HDInit, HasHolder, HasWatcher
<1>2. derived \in [{"holder", "watcher"} -> Seq(Nat)]
  <2>1. << >> \in Seq(Nat)
    OBVIOUS
  <2> QED
    BY <2>1 DEF HDInit, NothingDerived
<1>3. AnswersSound
  BY NoAnswerSound DEF HDInit
<1> QED
  BY <1>1, <1>2, <1>3 DEF HDStrong, NodesLinked

LEMMA HoldSeedStep ==
  ASSUME CurveIsGroup, SumsAreReduced, HDStrong, NEW seed, HoldSeed(seed)
  PROVE  HDStrong'
<1>1. ~ HasWatcher' /\ derived' = derived /\ answer' = NoAnswer
  BY DEF HoldSeed, HasWatcher
<1>2. PICK n, h : n = Min(SeedTries(seed)) /\ h = SeedHalves(seed)[n]
  OBVIOUS
<1>3. KeyInRange(h.left)
  <2>1. SeedTries(seed) \in SUBSET Tries /\ SeedTries(seed) # {}
    BY DEF SeedTries, HoldSeed
  <2>2. n \in SeedTries(seed)
    BY <1>2, <2>1, MinIn
  <2> QED
    BY <1>2, <2>2 DEF SeedTries
<1>4. holder' = [depth |-> 0, child |-> 0, chain |-> h.right, private |-> h.left, public |-> NoKey]
  BY <1>2 DEF HoldSeed, NodeFromSeed
<1>5. IsHolder(holder')
  BY <1>3, <1>4 DEF IsHolder, IsNode, KeyInRange, PrivateKeys
<1>6. AnswersSound'
  BY <1>1, NoAnswerSoundNext
<1> QED
  BY <1>1, <1>5, <1>6 DEF HDStrong, NodesLinked, HasHolder

LEMMA HoldXprvStep ==
  ASSUME CurveIsGroup, SumsAreReduced, HDStrong, NEW chain, NEW k, HoldXprv(chain, k)
  PROVE  HDStrong'
<1>1. ~ HasWatcher' /\ derived' = derived /\ answer' = NoAnswer
  BY DEF HoldXprv, HasWatcher
<1>2. HasHolder' => IsHolder(holder')
  <2>1. CASE KeyInRange(k)
    <3>1. holder' = [depth |-> DepthRange - 1, child |-> 0, chain |-> chain,
                     private |-> k, public |-> NoKey]
      BY <2>1 DEF HoldXprv, NodeFromXprv
    <3>2. DepthRange - 1 \in Nat
      BY HDNodeAssumption
    <3> QED
      BY <2>1, <3>1, <3>2 DEF IsHolder, IsNode, KeyInRange, PrivateKeys
  <2>2. CASE ~ KeyInRange(k)
    BY <2>2 DEF HoldXprv, HasHolder
  <2> QED
    BY <2>1, <2>2
<1>3. AnswersSound'
  BY <1>1, NoAnswerSoundNext
<1> QED
  BY <1>1, <1>2, <1>3 DEF HDStrong, NodesLinked

LEMMA WatchXpubStep ==
  ASSUME HDStrong, NEW chain, NEW form, NEW x \in Coordinates,
         WatchXpub(chain, [form |-> form, x |-> x, y |-> 0])
  PROVE  HDStrong'
<1>1. ~ HasHolder' /\ derived' = derived /\ answer' = NoAnswer
  BY DEF WatchXpub, HasHolder
<1>2. PICK p : p = [form |-> form, x |-> x, y |-> 0]
  OBVIOUS
<1>3. HasWatcher' => IsWatcher(watcher')
  <2>1. CASE form \in {2, 3}
    <3>1. watcher' = [depth |-> 1, child |-> 0, chain |-> chain, private |-> 0, public |-> p]
      BY <1>2, <2>1 DEF WatchXpub, NodeFromXpub
    <3>2. p \in Compressed
      <4>1. x \in Nat
        BY HDNodeAssumption
      <4> QED
        BY <1>2, <2>1, <4>1 DEF Compressed
    <3> QED
      BY <3>1, <3>2 DEF IsWatcher, IsNode
  <2>2. CASE form \notin {2, 3}
    BY <2>2 DEF WatchXpub, HasWatcher
  <2> QED
    BY <2>1, <2>2
<1>4. AnswersSound'
  BY <1>1, NoAnswerSoundNext
<1> QED
  BY <1>1, <1>3, <1>4 DEF HDStrong, NodesLinked

LEMMA PublishStep ==
  ASSUME CurveIsGroup, HDStrong, Publish
  PROVE  HDStrong'
<1>1. IsHolder(holder)
  BY DEF Publish, HDStrong, NodesLinked
<1>2. PICK p : p = derived["holder"]
  OBVIOUS
<1>3. p \in Seq(Nat) /\ derived \in [{"holder", "watcher"} -> Seq(Nat)]
  BY <1>2 DEF HDStrong, NodesLinked
<1>4. derived' = [derived EXCEPT !["watcher"] = p]
  BY <1>2 DEF Publish
<1>5. /\ derived' \in [{"holder", "watcher"} -> Seq(Nat)]
      /\ derived'["holder"] = p /\ derived'["watcher"] = p
  BY <1>2, <1>3, <1>4
<1>6. holder' = Filled(holder) /\ IsHolder(holder')
  BY <1>1, FilledIs DEF Publish
<1>7. watcher' = Deserialize(Serialize(Filled(holder), 0, "xpub")).node
  BY <1>6 DEF Publish
<1>8. IsWatcher(watcher')
  BY <1>1, <1>7, PublishedHalf
<1>9. Linked(p, p, holder', watcher')
  BY <1>1, <1>3, <1>6, <1>7, LinkStart
<1>10. AnswersSound'
  BY NoAnswerSoundNext DEF Publish
<1> QED
  BY <1>5, <1>6, <1>8, <1>9, <1>10 DEF HDStrong, NodesLinked

LEMMA HolderCkdStep ==
  ASSUME CurveIsGroup, SumsAreReduced, HDStrong, NEW i \in ChildNumbers, HolderCkd(i)
  PROVE  HDStrong'
<1>1. IsHolder(holder) /\ PrivateTries(holder, i) # {} /\ HasHolder
  BY DEF HolderCkd, HDStrong, NodesLinked
<1>2. i \in Nat
  BY HDNodeAssumption
<1>3. PICK p, q, r : p = derived["holder"] /\ q = derived["watcher"] /\ r = Append(p, i)
  OBVIOUS
<1>4. p \in Seq(Nat) /\ q \in Seq(Nat) /\ derived \in [{"holder", "watcher"} -> Seq(Nat)]
  BY <1>3 DEF HDStrong, NodesLinked
<1>5. r \in Seq(Nat)
  BY <1>2, <1>3, <1>4, Longer
<1>6. derived' = [derived EXCEPT !["holder"] = r]
  BY <1>3 DEF HolderCkd
<1>7. /\ derived' \in [{"holder", "watcher"} -> Seq(Nat)]
      /\ derived'["holder"] = r /\ derived'["watcher"] = q
  BY <1>3, <1>4, <1>5, <1>6
<1>8. holder' = PrivateCkd(holder, i) /\ watcher' = watcher
  BY DEF HolderCkd
<1>9. IsHolder(holder')
  BY <1>1, <1>8, ChildIsHolder
<1>10. HasWatcher' => IsWatcher(watcher') /\ Linked(r, q, holder', watcher')
  <2> SUFFICES ASSUME HasWatcher  PROVE IsWatcher(watcher) /\ Linked(r, q, holder', watcher)
    BY <1>8 DEF HasWatcher
  <2>1. IsWatcher(watcher) /\ Linked(p, q, holder, watcher)
    BY <1>1, <1>3 DEF HDStrong, NodesLinked
  <2> QED
    BY <1>1, <1>2, <1>3, <1>4, <1>8, <2>1, LinkHolder
<1>11. AnswersSound'
  BY NoAnswerSoundNext DEF HolderCkd
<1> QED
  BY <1>7, <1>9, <1>10, <1>11 DEF HDStrong, NodesLinked

\* A hardened child and a key that is no point are refused, and change nothing.
LEMMA RefusedIs ==
  ASSUME NEW w, IsWatcher(w), NEW i, Hardened(i) \/ ParentPoint(w) = Infinity
  PROVE  ~ PublicCkd(w, i).ok /\ PublicCkd(w, i).node = w
<1>1. PICK u : u = [w EXCEPT !.private = 0]
  OBVIOUS
<1>2. u = w
  BY <1>1 DEF IsWatcher, IsNode
<1>3. PublicCkd(w, i) \in {[ok |-> FALSE, node |-> w], [ok |-> FALSE, node |-> u]}
  <2>1. CASE Hardened(i)
    BY <2>1 DEF PublicCkd
  <2>2. CASE ~ Hardened(i)
    <3>1. ParentPoint(w) = Infinity
      BY <2>2
    <3> QED
      BY <1>1, <2>2, <3>1 DEF PublicCkd
  <2> QED
    BY <2>1, <2>2
<1> QED
  BY <1>2, <1>3

LEMMA WatcherCkdStep ==
  ASSUME CurveIsGroup, SumsAreReduced, HDStrong, NEW i \in ChildNumbers, WatcherCkd(i)
  PROVE  HDStrong'
<1>1. IsWatcher(watcher) /\ HasWatcher
  BY DEF WatcherCkd, HDStrong, NodesLinked
<1>2. i \in Nat
  BY HDNodeAssumption
<1>3. PICK p, q, r, called :
        /\ p = derived["holder"] /\ q = derived["watcher"] /\ r = Append(q, i)
        /\ called = PublicCkd(watcher, i)
  OBVIOUS
<1>4. p \in Seq(Nat) /\ q \in Seq(Nat) /\ derived \in [{"holder", "watcher"} -> Seq(Nat)]
  BY <1>3 DEF HDStrong, NodesLinked
<1>5. /\ watcher' = called.node /\ holder' = holder
      /\ derived' = [derived EXCEPT !["watcher"] = IF called.ok THEN r ELSE q]
      /\ answer' = [kind |-> "child", ok |-> called.ok, i |-> i, parent |-> watcher]
  BY <1>3 DEF WatcherCkd
<1>6. r \in Seq(Nat)
  BY <1>2, <1>3, <1>4, Longer
<1>7. /\ derived' \in [{"holder", "watcher"} -> Seq(Nat)] /\ derived'["holder"] = p
      /\ derived'["watcher"] = IF called.ok THEN r ELSE q
  BY <1>3, <1>4, <1>5, <1>6
<1>8. /\ answer'.kind = "child" /\ answer'.ok = called.ok /\ answer'.i = i
      /\ answer'.parent = watcher
  BY <1>5
<1>9. RestoredIsHolder' /\ SharedIsSame' /\ AddressIsOwn'
  BY <1>8 DEF RestoredIsHolder, SharedIsSame, AddressIsOwn
<1>10. CASE Hardened(i) \/ ParentPoint(watcher) = Infinity
  <2>1. ~ called.ok /\ called.node = watcher
    BY <1>1, <1>3, <1>10, RefusedIs
  <2>2. watcher' = watcher /\ derived'["watcher"] = q
    BY <1>5, <1>7, <2>1
  <2>3. HasHolder' => Linked(p, q, holder', watcher')
    BY <1>1, <1>3, <1>5, <2>2 DEF HDStrong, NodesLinked, HasHolder
  <2>4. HasHolder' => IsHolder(holder')
    BY <1>5 DEF HDStrong, NodesLinked, HasHolder
  <2>5. ChildIsPoint'
    BY <1>8, <1>10, <2>1 DEF ChildIsPoint
  <2> QED
    BY <1>1, <1>7, <1>9, <2>2, <2>3, <2>4, <2>5 DEF HDStrong, NodesLinked, AnswersSound
<1>11. CASE ~ Hardened(i) /\ ParentPoint(watcher) # Infinity
  <2>1. PublicTries(ParentPoint(watcher), watcher.public, watcher.chain, i) # {}
    BY <1>11 DEF WatcherCkd
  <2>2. called.ok /\ IsWatcher(called.node) /\ ParentPoint(called.node) # Infinity
    BY <1>1, <1>3, <1>11, <2>1, ChildOfPoint
  <2>3. IsWatcher(watcher') /\ ParentPoint(watcher') # Infinity /\ derived'["watcher"] = r
    BY <1>5, <1>7, <2>2
  <2>4. HasHolder' => Linked(p, r, holder', watcher')
    <3> SUFFICES ASSUME HasHolder  PROVE Linked(p, r, holder, watcher')
      BY <1>5 DEF HasHolder
    <3>1. Linked(p, q, holder, watcher)
      BY <1>1, <1>3 DEF HDStrong, NodesLinked
    <3> QED
      BY <1>2, <1>3, <1>4, <1>5, <1>11, <3>1, LinkWatcher
  <2>5. HasHolder' => IsHolder(holder')
    BY <1>5 DEF HDStrong, NodesLinked, HasHolder
  <2>6. ChildIsPoint'
    BY <1>8, <1>11, <2>2, <2>3 DEF ChildIsPoint
  <2> QED
    BY <1>7, <1>9, <2>3, <2>4, <2>5, <2>6 DEF HDStrong, NodesLinked, AnswersSound
<1> QED
  BY <1>10, <1>11

\* A call that leaves the nodes alone.
LEMMA SameNodes ==
  ASSUME NodesLinked, UNCHANGED <<holder, watcher, derived>>
  PROVE  NodesLinked'
  BY DEF NodesLinked, HasHolder, HasWatcher

LEMMA RestoreStep ==
  ASSUME HDStrong, NEW version, NEW lead, Restore(version, lead)
  PROVE  HDStrong'
<1>1. NodesLinked'
  BY SameNodes DEF HDStrong, Restore
<1>2. IsHolder(holder) /\ holder' = holder
  BY DEF Restore, HDStrong, NodesLinked
<1>3. PICK read : read = Reread(holder, version, lead)
  OBVIOUS
<1>4. answer' = [kind |-> "restored", code |-> read.code, node |-> read.node]
  BY <1>3 DEF Restore, Reread
<1>5. answer'.kind = "restored" /\ answer'.code = read.code /\ answer'.node = read.node
  BY <1>4
<1>6. RestoredIsHolder'
  <2> SUFFICES ASSUME read.code = 0, read.node.private # 0
               PROVE  read.node = Cut(holder)
    BY <1>2, <1>5 DEF RestoredIsHolder
  <2> QED
    BY <1>2, <1>3, RestoredIs
<1>7. ChildIsPoint' /\ SharedIsSame' /\ AddressIsOwn'
  BY <1>5 DEF ChildIsPoint, SharedIsSame, AddressIsOwn
<1> QED
  BY <1>1, <1>6, <1>7 DEF HDStrong, AnswersSound

LEMMA AgreeStep ==
  ASSUME CurveIsGroup, HDStrong, NEW peer \in Keys, Agree(peer)
  PROVE  HDStrong'
<1>1. NodesLinked'
  BY SameNodes DEF HDStrong, Agree
<1>2. IsHolder(holder)
  BY DEF Agree, HDStrong, NodesLinked
<1>3. PICK k, own : k = holder.private /\ own = Filled(holder).public
  OBVIOUS
<1>4. own = PublicKey33(Secp256k1, k) /\ k \in PrivateKeys /\ peer \in PrivateKeys
  BY <1>2, <1>3, FilledIs, OrderIs DEF IsHolder, IsNode
<1>5. answer' = [kind |-> "shared", ours |-> SharedKey(k, PublicKey65(Secp256k1, peer)),
                 theirs |-> SharedKey(peer, own)]
  BY <1>3 DEF Agree
<1>6. /\ answer'.kind = "shared" /\ answer'.ours = SharedKey(k, PublicKey65(Secp256k1, peer))
      /\ answer'.theirs = SharedKey(peer, own)
  BY <1>5
<1>7. SharedIsSame'
  BY <1>4, <1>6, SharedIs DEF SharedIsSame
<1>8. ChildIsPoint' /\ RestoredIsHolder' /\ AddressIsOwn'
  BY <1>6 DEF ChildIsPoint, RestoredIsHolder, AddressIsOwn
<1> QED
  BY <1>1, <1>7, <1>8 DEF HDStrong, AnswersSound

LEMMA GetAddressStep ==
  ASSUME CurveIsGroup, HDStrong, NEW version \in Versions, NEW expected \in Versions,
         GetAddress(version, expected)
  PROVE  HDStrong'
<1>1. IsHolder(holder) /\ HasHolder
  BY DEF GetAddress, HDStrong, NodesLinked
<1>2. holder' = Filled(holder) /\ IsHolder(holder') /\ watcher' = watcher /\ derived' = derived
  BY <1>1, FilledIs DEF GetAddress
<1>3. HasWatcher' => Linked(derived'["holder"], derived'["watcher"], holder', watcher')
  <2> SUFFICES ASSUME HasWatcher
               PROVE  Linked(derived["holder"], derived["watcher"], Filled(holder), watcher)
    BY <1>2 DEF HasWatcher
  <2> QED
    BY <1>1, LinkFilled DEF HDStrong, NodesLinked
<1>4. NodesLinked'
  BY <1>2, <1>3 DEF HDStrong, NodesLinked, HasWatcher
<1>5. PICK raw, wif : raw = Address(holder'.public, version) /\ wif = Wif(holder.private, version)
  OBVIOUS
<1>6. answer' = [kind |-> "address", raw |-> raw, version |-> version, expected |-> expected,
                 wif |-> wif, decoded |-> AddressDecode(raw, expected)]
  BY <1>5 DEF GetAddress
<1>7. /\ answer'.kind = "address" /\ answer'.version = version /\ answer'.expected = expected
      /\ answer'.decoded = AddressDecode(raw, expected)
  BY <1>6
<1>8. AddressDecode(raw, expected) <=> version = expected
  BY <1>5, AddressIs
<1>9. AddressIsOwn'
  BY <1>7, <1>8 DEF AddressIsOwn
<1>10. ChildIsPoint' /\ RestoredIsHolder' /\ SharedIsSame'
  BY <1>7 DEF ChildIsPoint, RestoredIsHolder, SharedIsSame
<1> QED
  BY <1>4, <1>9, <1>10 DEF HDStrong, AnswersSound

LEMMA SameAnswer ==
  ASSUME HDStrong, UNCHANGED hdVars
  PROVE  HDStrong'
<1>1. UNCHANGED <<holder, watcher, derived>> /\ UNCHANGED answer
  BY DEF hdVars
<1>2. NodesLinked'
  BY <1>1, SameNodes DEF HDStrong
<1>3. AnswersSound'
  BY <1>1 DEF HDStrong, AnswersSound, ChildIsPoint, RestoredIsHolder, SharedIsSame, AddressIsOwn
<1> QED
  BY <1>2, <1>3 DEF HDStrong

LEMMA HDStep ==
  ASSUME CurveIsGroup, SumsAreReduced, HDStrong, [HDNext]_hdVars
  PROVE  HDStrong'
<1>1. ASSUME NEW seed \in WalletSeeds, HoldSeed(seed)  PROVE HDStrong'
  BY <1>1, HoldSeedStep
<1>2. ASSUME NEW k \in XprvKeys, HoldXprv(7, k)  PROVE HDStrong'
  BY <1>2, HoldXprvStep
<1>3. ASSUME NEW form \in {2, 3, 4}, NEW x \in Coordinates,
             WatchXpub(7, [form |-> form, x |-> x, y |-> 0])
      PROVE  HDStrong'
  BY <1>3, WatchXpubStep
<1>4. CASE Publish
  BY <1>4, PublishStep
<1>5. ASSUME NEW i \in ChildNumbers, HolderCkd(i)  PROVE HDStrong'
  BY <1>5, HolderCkdStep
<1>6. ASSUME NEW i \in ChildNumbers, WatcherCkd(i)  PROVE HDStrong'
  BY <1>6, WatcherCkdStep
<1>7. ASSUME NEW version \in {"xprv", "xpub", "zpub"}, NEW lead \in 0 .. 3,
             Restore(version, lead)
      PROVE  HDStrong'
  BY <1>7, RestoreStep
<1>8. ASSUME NEW peer \in Keys, Agree(peer)  PROVE HDStrong'
  BY <1>8, AgreeStep
<1>9. ASSUME NEW version \in Versions, NEW expected \in Versions, GetAddress(version, expected)
      PROVE  HDStrong'
  BY <1>9, GetAddressStep
<1>10. CASE UNCHANGED hdVars
  BY <1>10, SameAnswer
<1> QED
  BY <1>1, <1>2, <1>3, <1>4, <1>5, <1>6, <1>7, <1>8, <1>9, <1>10 DEF HDNext

LEMMA StrongIsSound ==
  ASSUME CurveIsGroup, SumsAreReduced, HDStrong
  PROVE  PublicChildIsChild /\ NodesAreSound
<1>1. ASSUME HasHolder, HasWatcher, derived["holder"] = derived["watcher"]
      PROVE  Half(watcher, holder)
  <2>1. /\ derived["holder"] \in Seq(Nat) /\ IsHolder(holder)
        /\ Linked(derived["holder"], derived["holder"], holder, watcher)
    BY <1>1 DEF HDStrong, NodesLinked
  <2> QED
    BY <2>1, LinkedHalf
<1>2. PublicChildIsChild
  BY <1>1 DEF PublicChildIsChild, Half, HDStrong, AnswersSound, ChildIsPoint
<1>3. HasHolder => /\ KeyInRange(holder.private)
                   /\ holder.public \in {NoKey, PublicKey33(Secp256k1, holder.private)}
  BY DEF HDStrong, NodesLinked, IsHolder, KeyInRange, PrivateKeys
<1>4. HasWatcher => watcher.private = 0
  BY DEF HDStrong, NodesLinked, IsWatcher
<1>5. NodesAreSound
  BY <1>3, <1>4 DEF NodesAreSound, HDStrong, AnswersSound, RestoredIsHolder, SharedIsSame,
     AddressIsOwn, Cut
<1> QED
  BY <1>2, <1>5

(* A watcher who derives the same children as the holder has the public    *)
(* keys and the chain codes of the holder's nodes, for every hash, however *)
(* often a number has to be tried again: hdnode_private_ckd and            *)
(* hdnode_public_ckd find the same numbers to be good.                     *)
THEOREM PublicChildCorrect ==
  ASSUME CurveIsGroup, SumsAreReduced
  PROVE  HDSpec => []PublicChildIsChild
<1>1. HDInit => HDStrong
  BY HDStart
<1>2. HDStrong /\ [HDNext]_hdVars => HDStrong'
  BY HDStep
<1>3. HDStrong => PublicChildIsChild
  BY StrongIsSound
<1> QED
  BY <1>1, <1>2, <1>3, PTL DEF HDSpec

(* The holder always has a key of the curve and its own public key, the    *)
(* watcher no private key; texts, agreed keys and addresses are sound.     *)
THEOREM NodesCorrect ==
  ASSUME CurveIsGroup, SumsAreReduced
  PROVE  HDSpec => []NodesAreSound
<1>1. HDInit => HDStrong
  BY HDStart
<1>2. HDStrong /\ [HDNext]_hdVars => HDStrong'
  BY HDStep
<1>3. HDStrong => NodesAreSound
  BY StrongIsSound
<1> QED
  BY <1>1, <1>2, <1>3, PTL DEF HDSpec

-----------------------------------------------------------------------------
(* The cache of derived parents.                                          *)

(* A path is a sequence of child numbers.                                  *)
LEMMA PathsAreSequences ==
    ASSUME NEW path \in D!Paths
    PROVE  path \in Seq(Children) /\ Len(path) \in 0 .. MaxPath
<1>1. PICK n \in 0 .. MaxPath : path \in [1 .. n -> Children]
  BY DEF D!Paths
<1>2. n \in Nat
  BY NodeCacheAssumption
<1>3. path \in Seq(Children) /\ Len(path) = n
  BY <1>1, <1>2
<1> QED BY <1>2, <1>3

(* A derivation of one step that fits the bound has a path.                *)
LEMMA OneStepPath ==
    ASSUME NEW c \in Children, NEW n \in Node, Len(n.path) < MaxPath
    PROVE  <<c>> \in D!Paths
<1>1. Len(n.path) \in Nat
  BY DEF Node, D!Node
<1>2. 1 \in 0 .. MaxPath
  BY <1>1, NodeCacheAssumption
<1>3. <<c>> \in [1 .. 1 -> Children]
  OBVIOUS
<1> QED BY <1>2, <1>3 DEF D!Paths

(* The child numbers before the last one are the parent's path.            *)
LEMMA LeadingSteps ==
    ASSUME NEW i, NEW path \in Seq(Children), Len(path) > 0,
           \A k \in 1 .. (Len(path) - 1) : i[k] = path[k]
    PROVE  SubSeq(i, 1, Len(path) - 1) = Parent(path)
<1> DEFINE d == Len(path) - 1
           front == SubSeq(i, 1, d)
           parent == SubSeq(path, 1, d)
<1>1. d \in Nat /\ \A k \in 1 .. d : i[k] \in Children /\ path[k] \in Children
  OBVIOUS
<1>2. front \in Seq(Children) /\ Len(front) = d /\ \A k \in 1 .. d : front[k] = i[k]
  <2>1. /\ front \in Seq(Children)
        /\ Len(front) = IF 1 <= d THEN d - 1 + 1 ELSE 0
        /\ \A k \in 1 .. d - 1 + 1 : front[k] = i[1 + k - 1]
    <3> HIDE DEF d
    <3> QED BY <1>1, SubSeqProperties, 1 \in Int, d \in Int
  <2> HIDE DEF d, front
  <2> QED BY <1>1, <2>1
<1>3. parent \in Seq(Children) /\ Len(parent) = d /\ \A k \in 1 .. d : parent[k] = path[k]
  <2>1. /\ parent \in Seq(Children)
        /\ Len(parent) = IF 1 <= d THEN d - 1 + 1 ELSE 0
        /\ \A k \in 1 .. d - 1 + 1 : parent[k] = path[1 + k - 1]
    <3> HIDE DEF d
    <3> QED BY <1>1, SubSeqProperties, 1 \in Int, d \in Int
  <2> HIDE DEF d, parent
  <2> QED BY <1>1, <2>1
<1>4. \A k \in 1 .. d : front[k] = parent[k]
  BY <1>2, <1>3
<1>5. front = parent
  <2> HIDE DEF front, parent, d
  <2> QED BY <1>2, <1>3, <1>4, SeqEqual
<1> QED BY <1>5 DEF Parent

(* A path of at least one step is its parent's path and one step.          *)
LEMMA ParentAndLastStep ==
    ASSUME NEW path \in Seq(Children), Len(path) > 0
    PROVE  /\ Parent(path) \in Seq(Children)
           /\ LastStep(path) \in Seq(Children)
           /\ LastStep(path) # << >>
           /\ Parent(path) \o LastStep(path) = path
<1> DEFINE n == Len(path)
<1>1. n \in Nat /\ n \in 1 .. Len(path) /\ 1 \in 1 .. Len(path)
  OBVIOUS
<1>2. path[n] \in Children
  OBVIOUS
<1>3. LastStep(path) \in Seq(Children) /\ LastStep(path) # << >>
  BY <1>2 DEF LastStep
<1>4. Parent(path) \in Seq(Children)
  <2>1. \A k \in 1 .. (n - 1) : path[k] \in Children
    OBVIOUS
  <2>2. SubSeq(path, 1, n - 1) \in Seq(Children)
    <3> HIDE DEF n
    <3> QED BY <1>1, <2>1, SubSeqProperties, 1 \in Int, n - 1 \in Int
  <2> QED BY <2>2 DEF Parent
<1>5. SubSeq(path, 1, n) = SubSeq(path, 1, n - 1) \o << path[n] >>
  <2>1. n \in 1 .. Len(path)
    OBVIOUS
  <2> QED BY <1>1, <2>1, SubSeqRecursiveSecond
<1>6. SubSeq(path, 1, n) = path
  BY SubSeqFull
<1> QED BY <1>3, <1>4, <1>5, <1>6 DEF Parent, LastStep

(* Deriving gives a node, and deriving in two parts is deriving at once.   *)
LEMMA DeriveNode ==
    ASSUME NEW n \in Node, NEW p \in Seq(Children)
    PROVE  D!Derive(n, p) \in Node
<1>1. n.path \o p \in Seq(Children)
  BY ConcatProperties DEF Node, D!Node
<1> QED BY <1>1 DEF Node, D!Node, D!Derive

LEMMA PathsInParts ==
    ASSUME NEW r \in Seq(Children), NEW p \in Seq(Children), NEW q \in Seq(Children)
    PROVE  /\ (r \o p) \o q = r \o (p \o q)
           /\ q # << >> => p \o q # << >>
<1>1. (r \o p) \o q = r \o (p \o q)
  BY ConcatAssociative
<1>2. p \o q = << >> <=> p = << >> /\ q = << >>
  BY ConcatEqualIffEmpty
<1> QED BY <1>1, <1>2

LEMMA DeriveInParts ==
    ASSUME NEW n \in Node, NEW p \in Seq(Children), NEW q \in Seq(Children), q # << >>
    PROVE  D!Derive(D!Derive(n, p), q) = D!Derive(n, p \o q)
<1>1. n.path \in Seq(Children)
  BY DEF Node, D!Node
<1>2. (n.path \o p) \o q = n.path \o (p \o q)
  BY <1>1, PathsInParts
<1>3. p \o q # << >>
  BY <1>1, PathsInParts
<1>4. /\ D!Derive(n, p).seed = n.seed
      /\ D!Derive(n, p).path = n.path \o p
  BY DEF D!Derive
<1> DEFINE one == D!Derive(n, p)
<1>5. D!Derive(one, q) = [seed |-> one.seed, path |-> one.path \o q, public |-> FALSE]
  <2> HIDE DEF one
  <2>1. (q = << >> /\ one.public) = FALSE
    OBVIOUS
  <2> QED BY <2>1, Zenon DEF D!Derive
<1>6. D!Derive(n, p \o q) = [seed |-> n.seed, path |-> n.path \o (p \o q), public |-> FALSE]
  <2> DEFINE both == p \o q
  <2>1. both # << >>
    BY <1>3
  <2> HIDE DEF both
  <2>2. (both = << >> /\ n.public) = FALSE
    BY <2>1
  <2>3. D!Derive(n, both) = [seed |-> n.seed, path |-> n.path \o both, public |-> FALSE]
    BY <2>2, Zenon DEF D!Derive
  <2> QED BY <2>3 DEF both
<1> QED BY <1>2, <1>4, <1>5, <1>6, Zenon

(* Deriving the last step from the parent is deriving the path.            *)
LEMMA DeriveFromParent ==
    ASSUME NEW n \in Node, NEW path \in Seq(Children), Len(path) > 0
    PROVE  D!Derive(D!Derive(n, Parent(path)), LastStep(path)) = D!Derive(n, path)
<1>1. /\ Parent(path) \in Seq(Children)
      /\ LastStep(path) \in Seq(Children)
      /\ LastStep(path) # << >>
      /\ Parent(path) \o LastStep(path) = path
  BY ParentAndLastStep
<1>2. D!Derive(D!Derive(n, Parent(path)), LastStep(path))
        = D!Derive(n, Parent(path) \o LastStep(path))
  BY <1>1, DeriveInParts
<1> QED BY <1>1, <1>2

-----------------------------------------------------------------------------
(* The entry that CkdMiss saves.                                           *)
LEMMA SavedEntry ==
    ASSUME NodeTypeOK, EntriesBelowRoot, NEW path \in D!Paths, CkdMiss(path),
           steps' = path
    PROVE  NodeTypeOK' /\ EntriesBelowRoot'
<1> DEFINE at == IF cacheRoot = node THEN cacheIndex ELSE 0
           parent == D!Derive(node, Parent(path))
           i == [k \in 1 .. MaxDepth |-> IF k < Len(path) THEN path[k] ELSE ZeroChild]
           entry == [set |-> TRUE, depth |-> Len(path) - 1, i |-> i, node |-> parent]
<1>0. path \in Seq(Children)
  BY PathsAreSequences
<1>1. /\ node \in Node
      /\ Len(path) \in 2 .. (MaxDepth + 1)
      /\ cache' = [Kept EXCEPT ![at] = entry]
      /\ cacheIndex' = NextSlot(at)
      /\ node' = D!Derive(parent, LastStep(path))
      /\ cacheRoot' = node
  BY DEF CkdMiss, NodeTypeOK
<1>2. /\ Len(path) \in Nat /\ Len(path) > 0 /\ Len(path) - 1 <= MaxDepth
      /\ Len(path) - 1 \in 0 .. MaxDepth /\ Len(path) - 1 > 0
  BY <1>0, <1>1, NodeCacheAssumption
<1>3. /\ Parent(path) \in Seq(Children)
      /\ LastStep(path) \in Seq(Children)
  BY <1>0, <1>2, ParentAndLastStep
<1>4. parent \in Node
  BY <1>1, <1>3, DeriveNode
<1>5. node' \in Node
  <2> HIDE DEF parent
  <2> QED BY <1>1, <1>3, <1>4, DeriveNode
<1>6. i \in [1 .. MaxDepth -> Children]
  <2>1. ASSUME NEW k \in 1 .. MaxDepth, k < Len(path)  PROVE path[k] \in Children
    BY <1>0, <2>1, <1>2
  <2> QED BY <2>1, NodeCacheAssumption
<1>7. SubSeq(i, 1, Len(path) - 1) = Parent(path)
  <2>1. ASSUME NEW k \in 1 .. (Len(path) - 1)  PROVE i[k] = path[k]
    <3>1. k \in 1 .. MaxDepth /\ k < Len(path)
      BY <1>2, NodeCacheAssumption
    <3> QED BY <1>0, <3>1
  <2> HIDE DEF i
  <2> QED BY <1>0, <1>2, <2>1, LeadingSteps
<1>8. at \in Slots /\ NextSlot(at) \in Slots
  BY NodeCacheAssumption DEF NodeTypeOK, Slots, NextSlot
<1>9. Kept \in [Slots -> [set : BOOLEAN, depth : 0 .. MaxDepth,
                          i : [1 .. MaxDepth -> Children], node : Node \cup {NoNode}]]
  BY NodeCacheAssumption DEF NodeTypeOK, Kept, EmptyEntry
<1>10. entry \in [set : BOOLEAN, depth : 0 .. MaxDepth,
                  i : [1 .. MaxDepth -> Children], node : Node \cup {NoNode}]
  <2> HIDE DEF i, parent
  <2> QED BY <1>2, <1>4, <1>6
<1>11. \A j \in Slots : Kept[j].set =>
          /\ cacheRoot = node
          /\ Kept[j] = cache[j]
  BY DEF Kept, EmptyEntry
<1>12. node # NoNode
  BY DEF CkdMiss
<1> HIDE DEF at, i, parent
<1>13. NodeTypeOK'
  <2>1. cache' \in [Slots -> [set : BOOLEAN, depth : 0 .. MaxDepth,
                             i : [1 .. MaxDepth -> Children], node : Node \cup {NoNode}]]
    <3> HIDE DEF entry
    <3> QED BY <1>1, <1>8, <1>9, <1>10
  <2> QED BY <1>1, <1>5, <1>8, <2>1 DEF NodeTypeOK
<1>14. EntriesBelowRoot'
  <2> SUFFICES ASSUME NEW j \in Slots, cache'[j].set
               PROVE  /\ cacheRoot' # NoNode
                      /\ cache'[j].depth > 0
                      /\ cache'[j].node =
                          D!Derive(cacheRoot', SubSeq(cache'[j].i, 1, cache'[j].depth))
    BY DEF EntriesBelowRoot
  <2>1. CASE j = at
    <3>1. cache'[j] = entry
      <4> HIDE DEF entry
      <4> QED BY <1>1, <1>8, <1>9, <2>1
    <3>2. entry.depth = Len(path) - 1 /\ entry.i = i /\ entry.node = parent
      OBVIOUS
    <3> HIDE DEF entry
    <3>3. cache'[j].node = D!Derive(node, Parent(path))
      BY <3>1, <3>2 DEF parent
    <3> QED BY <1>1, <1>2, <1>7, <1>12, <3>1, <3>2, <3>3
  <2>2. CASE j # at
    <3> HIDE DEF entry
    <3>1. cache'[j] = Kept[j]
      BY <1>1, <1>9, <2>2
    <3>2. cacheRoot = node /\ cache'[j] = cache[j] /\ cache[j].set
      BY <1>11, <3>1
    <3> QED BY <1>1, <3>2 DEF EntriesBelowRoot
  <2> QED BY <2>1, <2>2
<1> QED BY <1>13, <1>14

CacheInv == NodeTypeOK /\ EntriesBelowRoot

(* The other operations change the caller's node only.                     *)
LEMMA CacheInvStep ==
    ASSUME CacheInv, [NodeNext]_nodeVars
    PROVE  CacheInv'
<1> DEFINE Untouched == UNCHANGED <<cacheRoot, cache, cacheIndex>>
<1>1. ASSUME Untouched, node' \in Node \cup {NoNode}, steps' \in D!Paths
      PROVE  CacheInv'
  BY <1>1 DEF CacheInv, NodeTypeOK, EntriesBelowRoot
<1>7. << >> \in D!Paths
  <2>1. << >> \in [1 .. 0 -> Children]
    OBVIOUS
  <2> QED BY <2>1, NodeCacheAssumption DEF D!Paths
<1>2. ASSUME NEW s \in Seeds, HdnodeFromSeed(s)
      PROVE  CacheInv'
  <2>1. << >> \in Seq(Children)
    OBVIOUS
  <2>2. node' \in Node
    BY <1>2, <2>1 DEF HdnodeFromSeed, D!Master, Node, D!Node
  <2> QED BY <1>1, <1>2, <1>7, <2>2 DEF HdnodeFromSeed
<1>3. CASE HdnodeFillPublicKey
  <2>1. node' \in Node
    BY <1>3 DEF HdnodeFillPublicKey, CacheInv, NodeTypeOK, Node, D!Node
  <2> QED BY <1>1, <1>3, <1>7, <2>1 DEF HdnodeFillPublicKey
<1>4. ASSUME NEW c \in Children, HdnodePrivateCkd(c)
      PROVE  CacheInv'
  <2>1. <<c>> \in Seq(Children) /\ node \in Node
    BY <1>4 DEF HdnodePrivateCkd, CacheInv, NodeTypeOK
  <2>2. node' \in Node
    BY <1>4, <2>1, DeriveNode DEF HdnodePrivateCkd
  <2>3. <<c>> \in D!Paths
    BY <1>4, OneStepPath DEF HdnodePrivateCkd, CacheInv, NodeTypeOK
  <2> QED BY <1>1, <1>4, <2>2, <2>3 DEF HdnodePrivateCkd
<1>5. ASSUME NEW path \in D!Paths, HdnodePrivateCkdCached(path)
      PROVE  CacheInv'
  <2>1. path \in Seq(Children) /\ steps' = path
    BY <1>5, PathsAreSequences DEF HdnodePrivateCkdCached
  <2>2. CASE CkdShort(path)
    <3>1. node' \in Node
      BY <2>1, <2>2, DeriveNode DEF CkdShort, CacheInv, NodeTypeOK
    <3> QED BY <1>1, <2>1, <2>2, <3>1 DEF CkdShort
  <2>3. CASE CkdHit(path)
    <3>1. PICK j \in Slots : node' = D!Derive(cache[j].node, LastStep(path))
                              /\ Holds(cache[j], path)
      BY <2>3 DEF CkdHit
    <3>2. cache[j].set /\ cache[j].depth \in 0 .. MaxDepth
          /\ cache[j].i \in [1 .. MaxDepth -> Children]
          /\ cache[j].depth = Len(path) - 1
      BY <3>1 DEF Holds, CacheInv, NodeTypeOK
    <3>3. cacheRoot = node /\ node \in Node /\ Len(path) > 0
      BY <2>1, <2>3 DEF CkdHit, CacheInv, NodeTypeOK
    <3>4. SubSeq(cache[j].i, 1, Len(path) - 1) = Parent(path)
      BY <2>1, <3>1, <3>3, LeadingSteps DEF Holds
    <3>5. cache[j].node = D!Derive(node, Parent(path))
      BY <3>2, <3>3, <3>4 DEF CacheInv, EntriesBelowRoot
    <3>6. Parent(path) \in Seq(Children) /\ LastStep(path) \in Seq(Children)
      BY <2>1, <3>3, ParentAndLastStep
    <3>7. node' \in Node
      BY <3>1, <3>3, <3>5, <3>6, DeriveNode
    <3> QED BY <1>1, <2>1, <2>3, <3>7 DEF CkdHit
  <2>4. CASE CkdMiss(path)
    BY <2>1, <2>4, SavedEntry DEF CacheInv
  <2> QED BY <1>5, <2>2, <2>3, <2>4 DEF HdnodePrivateCkdCached
<1>6. CASE UNCHANGED nodeVars
  BY <1>6 DEF nodeVars, CacheInv, NodeTypeOK, EntriesBelowRoot
<1> QED BY <1>2, <1>3, <1>4, <1>5, <1>6 DEF NodeNext

LEMMA CacheInvInit == NodeInit => CacheInv
<1> SUFFICES ASSUME NodeInit PROVE CacheInv
  OBVIOUS
<1>1. 0 \in Slots /\ 0 \in 0 .. MaxDepth
  BY NodeCacheAssumption DEF Slots
<1>2. EmptyEntry \in [set : BOOLEAN, depth : 0 .. MaxDepth,
                      i : [1 .. MaxDepth -> Children], node : Node \cup {NoNode}]
  BY <1>1, NodeCacheAssumption DEF EmptyEntry
<1>3. EmptyEntry.set = FALSE
  BY DEF EmptyEntry
<1> QED BY <1>1, <1>2, <1>3 DEF NodeInit, CacheInv, NodeTypeOK, EntriesBelowRoot

LEMMA CacheInvHolds == NodeSpec => []CacheInv
BY CacheInvInit, CacheInvStep, PTL DEF NodeSpec

(* The ring index stays within the cache, and entries keep their shape,    *)
(* for every size of the ring.                                             *)
THEOREM NodeTypeCorrect == NodeSpec => []NodeTypeOK
<1>1. CacheInv => NodeTypeOK
  BY DEF CacheInv
<1> QED BY <1>1, CacheInvHolds, PTL

(* No entry of the cache survives its root or moves to another path.       *)
THEOREM EntriesBelowRootHolds == NodeSpec => []EntriesBelowRoot
<1>1. CacheInv => EntriesBelowRoot
  BY DEF CacheInv
<1> QED BY <1>1, CacheInvHolds, PTL

(* A step of the cached derivation is a derivation step from the same node *)
(* to the same node, or leaves it.                                         *)
LEMMA StepSimulates ==
    ASSUME CacheInv, [NodeNext]_nodeVars
    PROVE  [D!Next]_<<node, steps>>
<1>1. ASSUME NEW s \in Seeds, HdnodeFromSeed(s)
      PROVE  D!Next
  BY <1>1 DEF HdnodeFromSeed, D!Next, D!FromSeed
<1>2. CASE HdnodeFillPublicKey
  BY <1>2 DEF HdnodeFillPublicKey, D!Next, D!FillPublicKey
<1>3. ASSUME NEW c \in Children, HdnodePrivateCkd(c)
      PROVE  D!Next
  <2>1. node # NoNode /\ node \in Node /\ Len(node.path) < MaxPath
        /\ node' = D!Derive(node, <<c>>)
    BY <1>3 DEF HdnodePrivateCkd, CacheInv, NodeTypeOK
  <2>2. <<c>> \in D!Paths /\ steps' = <<c>>
    BY <1>3, <2>1, OneStepPath DEF HdnodePrivateCkd
  <2> QED BY <2>1, <2>2 DEF D!Next, D!DerivePath
<1>4. ASSUME NEW path \in D!Paths, HdnodePrivateCkdCached(path)
      PROVE  D!Next
  <2>1. path \in Seq(Children) /\ steps' = path
    BY <1>4, PathsAreSequences DEF HdnodePrivateCkdCached
  <2>2. node # NoNode /\ node \in Node
    BY <1>4 DEF HdnodePrivateCkdCached, CkdShort, CkdHit, CkdMiss, CacheInv, NodeTypeOK
  <2>3. CASE CkdShort(path)
    BY <2>1, <2>3 DEF CkdShort, D!Next, D!DerivePath
  <2>4. CASE CkdHit(path)
    <3>1. PICK j \in Slots : node' = D!Derive(cache[j].node, LastStep(path))
                              /\ Holds(cache[j], path)
      BY <2>4 DEF CkdHit
    <3>2. cacheRoot = node /\ Len(path) > 0
      BY <2>1, <2>4 DEF CkdHit
    <3>3. SubSeq(cache[j].i, 1, cache[j].depth) = Parent(path)
      BY <2>1, <3>1, <3>2, LeadingSteps DEF Holds
    <3>4. cache[j].node = D!Derive(node, Parent(path))
      BY <3>1, <3>2, <3>3 DEF Holds, CacheInv, EntriesBelowRoot
    <3>5. node' = D!Derive(node, path)
      BY <2>1, <2>2, <3>1, <3>2, <3>4, DeriveFromParent
    <3> QED BY <2>1, <2>2, <3>5 DEF D!Next, D!DerivePath
  <2>5. CASE CkdMiss(path)
    <3>1. node' = D!Derive(D!Derive(node, Parent(path)), LastStep(path))
      BY <2>5 DEF CkdMiss
    <3>2. Len(path) > 0
      BY <2>1, <2>5, NodeCacheAssumption DEF CkdMiss
    <3>3. node' = D!Derive(node, path)
      BY <2>1, <2>2, <3>1, <3>2, DeriveFromParent
    <3> QED BY <2>1, <2>2, <3>3 DEF D!Next, D!DerivePath
  <2> QED BY <1>4, <2>3, <2>4, <2>5 DEF HdnodePrivateCkdCached
<1>5. CASE UNCHANGED nodeVars
  BY <1>5 DEF nodeVars
<1> QED BY <1>1, <1>2, <1>3, <1>4, <1>5 DEF NodeNext

(* Whatever the cache holds, hdnode_private_ckd_cached gives the node that *)
(* deriving step by step gives.                                            *)
THEOREM CacheImplementsDerivation == NodeSpec => ImplementsDerivation
<1>1. NodeInit => D!Init
  BY DEF NodeInit, D!Init
<1>2. CacheInv /\ [NodeNext]_nodeVars => [D!Next]_<<node, steps>>
  BY StepSimulates
<1> QED BY <1>1, <1>2, CacheInvHolds, PTL DEF NodeSpec, ImplementsDerivation, D!Spec

-----------------------------------------------------------------------------
(* Jacobian coordinates.                                                   *)

(* Coordinates that are partly reduced, and what they are coordinates of.  *)
JacobianPoints(c) ==
    LET partly == 0 .. (2 * c.prime - 1) IN [x : partly, y : partly, z : partly]

StandsFor(c, jp, k) == jp \in JacobianPoints(c) /\ JacobianToCurve(jp, c.prime) = Times(c, k)

LEMMA PrimeReduced ==
  ASSUME NEW c \in Curves, NEW p, p = c.prime, NEW x \in 0 .. (2 * p - 1)
  PROVE  FullyReduced(x, p) = x % p
<1>1. PICK q : q = 2 ^ NumberBits
  OBVIOUS
<1>2. p \in Nat \ {0} /\ q \in Nat \ {0} /\ p < q /\ q < 2 * p
  <2>1. \E n : n = c.order
    OBVIOUS
  <2>2. PICK n : n = c.order
    BY <2>1
  <2>3. n \in Nat /\ p \in Nat /\ q \in Nat /\ 3 <= n /\ n <= p /\ p < q /\ q < 2 * n
    BY <1>1, <2>2, CurveIs
  <2> QED
    BY <2>3
<1>3. x \in Int /\ x < 2 * q
  BY <1>2
<1>4. CASE x < q
  <2>1. x = q * 0 + x /\ x \in 0 .. (q - 1)
    BY <1>2, <1>4
  <2>2. x \div q = 0
    BY <1>2, <1>3, <2>1, Divided
  <2>3. FastMod(x, p) = x
    BY <1>1, <1>2, <1>3, <2>2 DEF FastMod
  <2> QED
    BY <1>2, <2>3, ReducedIs DEF FullyReduced
<1>5. CASE ~(x < q)
  <2>1. x = q * 1 + (x - q) /\ x - q \in 0 .. (q - 1)
    BY <1>2, <1>3, <1>5
  <2>2. x \div q = 1
    BY <1>2, <1>3, <2>1, Divided
  <2>3. FastMod(x, p) = x - p
    BY <1>1, <1>2, <1>3, <2>2 DEF FastMod
  <2>4. x - p \in 0 .. (p - 1) /\ x = p * 1 + (x - p)
    BY <1>2, <1>3, <1>5
  <2>5. Reduced(x - p, p) = x - p
    BY <1>2, <2>4 DEF Reduced
  <2>6. x % p = x - p
    BY <1>2, <1>3, <2>4, Divided
  <2> QED
    BY <2>3, <2>5, <2>6 DEF FullyReduced
<1> QED
  BY <1>4, <1>5

\* bn_inverse, for the prime of the field.
LEMMA PrimeInverseIs ==
  ASSUME NEW c \in Curves, NEW p, p = c.prime, NEW z \in 0 .. (2 * p - 1),
         NEW i, i = FieldInverse(z, p)
  PROVE  /\ z % p = 0 => i = 0
         /\ z % p # 0 => i \in 1 .. (p - 1) /\ (z * i) % p = 1
<1> DEFINE P(f) == IsInverses(f, p)
<1>1. p \in Nat /\ 3 <= p /\ 2 <= p /\ \A d \in 2 .. (p - 1) : p % d # 0
  BY CurveIs
<1>2. \E f : P(f)
  BY <1>1, InversesExist
<1>3. PICK r : r = z % p
  OBVIOUS
<1>4. z \in Int /\ r \in 0 .. (p - 1) /\ FullyReduced(z, p) = r
  <2>1. z \in Int /\ FullyReduced(z, p) = z % p
    BY <1>1, PrimeReduced
  <2>2. z % p \in 0 .. (p - 1)
    <3>1. p \in Nat \ {0}
      BY <1>1
    <3> QED
      BY <2>1, <3>1, Split
  <2> QED
    BY <1>3, <2>1, <2>2
<1>5. PICK f : P(f) /\ i = f[FullyReduced(z, p)]
  <2>1. i = (CHOOSE f : P(f))[FullyReduced(z, p)]
    BY DEF FieldInverse, IsInverses, NextInverse
  <2> HIDE DEF P
  <2>2. P(CHOOSE f : P(f))
    BY <1>2
  <2> QED
    BY <2>1, <2>2
<1>6. i = f[r]
  BY <1>4, <1>5
<1>7. r = 0 => f[r] = 0
  BY <1>1, <1>5 DEF IsInverses, NextInverse
<1>8. r # 0 => f[r] \in 1 .. (p - 1) /\ (r * f[r]) % p = 1
  <2>1. IsInverses(f, p)
    BY <1>5
  <2>2. \A v \in 1 .. (p - 1) : f[v] \in 1 .. (p - 1) /\ (v * f[v]) % p = 1
    BY <1>1, <2>1, InversesAre
  <2> QED
    BY <1>1, <1>4, <2>2
<1>9. r # 0 => (z * i) % p = 1
  <2>1. SUFFICES ASSUME r # 0  PROVE (z * i) % p = 1
    OBVIOUS
  <2>2. i \in Int /\ (r * i) % p = 1
    BY <1>6, <1>8, <2>1
  <2>3. ((z % p) * i) % p = (z * i) % p
    <3>1. p \in Nat \ {0}
      BY <1>1
    <3> QED
      BY <1>4, <2>2, <3>1, RemainderTimes
  <2> QED
    BY <1>3, <2>2, <2>3
<1> QED
  BY <1>3, <1>6, <1>7, <1>8, <1>9

LEMMA SameMeans ==
  ASSUME NEW n \in Nat \ {0}, NEW a \in Int, NEW b \in Int, a % n = b % n
  PROVE  \E d \in Int : a = b + n * d
<1>1. PICK x, y, r, s : x = a \div n /\ y = b \div n /\ r = a % n /\ s = x - y
  OBVIOUS
<1>2. x \in Int /\ y \in Int /\ r \in 0 .. (n - 1) /\ a = n * x + r /\ b = n * y + r /\ s \in Int
  BY <1>1, Split
<1>3. a = b + n * s
  BY <1>1, <1>2
<1> QED
  BY <1>2, <1>3

LEMMA SquareInverse ==
  ASSUME NEW n \in Nat \ {0}, NEW z \in Int, NEW i \in Int, (z * i) % n = 1
  PROVE  /\ ((z * z) * (i * i)) % n = 1 /\ (((z * z) * z) * ((i * i) * i)) % n = 1
<1>1. PICK u : u = z * i
  OBVIOUS
<1>2. u \in Int /\ u % n = 1
  BY <1>1
<1>3. (u * u) % n = 1
  <2>1. ((u % n) * u) % n = (u * u) % n
    BY <1>2, RemainderTimes
  <2> QED
    BY <1>2, <2>1
<1>4. PICK w : w = u * u
  OBVIOUS
<1>5. w \in Int /\ w % n = 1
  BY <1>2, <1>3, <1>4
<1>6. (w * u) % n = 1
  <2>1. ((w % n) * u) % n = (w * u) % n
    BY <1>2, <1>5, RemainderTimes
  <2> QED
    BY <1>2, <1>5, <2>1
<1>7. (z * z) * (i * i) = w
  BY <1>1, <1>4
<1>8. ((z * z) * z) * ((i * i) * i) = w * u
  <2>1. ((z * z) * z) * ((i * i) * i) = ((z * z) * (i * i)) * (z * i)
    OBVIOUS
  <2> QED
    BY <1>1, <1>7, <2>1
<1> QED
  BY <1>5, <1>6, <1>7, <1>8

\* The affine point, as the inverse of z makes it.
LEMMA AffineIs ==
  ASSUME ProductsAreReduced(Nat), NEW c \in Curves, NEW p, p = c.prime,
         NEW jp, jp.x \in Nat, jp.y \in Nat, jp.z \in 0 .. (2 * p - 1),
         NEW i, i = FieldInverse(jp.z, p)
  PROVE  /\ i \in Nat
         /\ JacobianToCurve(jp, p) = [x |-> (jp.x * (i * i)) % p, y |-> (jp.y * ((i * i) * i)) % p]
<1>1. p \in Nat \ {0}
  BY CurveIs
<1>2. i \in Nat
  BY <1>1, PrimeInverseIs
<1>3. PICK ii, u, v, k : ii = i * i /\ u = PartlyReduced(ii, p) /\ k = u * i /\ v = PartlyReduced(k, p)
  OBVIOUS
<1>4. ii \in Nat
  BY <1>2, <1>3
<1>5. u \in Nat /\ u % p = ii % p
  BY <1>3, <1>4, ProductIs
<1>6. k \in Nat /\ ii * i \in Nat
  BY <1>2, <1>3, <1>4, <1>5
<1>7. v \in Nat /\ v % p = k % p
  BY <1>3, <1>6, ProductIs
<1>8. v % p = (ii * i) % p
  BY <1>1, <1>2, <1>3, <1>4, <1>5, <1>7, SameProduct
<1>9. PICK x, y : x = jp.x * u /\ y = jp.y * v
  OBVIOUS
<1>10. x \in Nat /\ y \in Nat
  BY <1>5, <1>7, <1>9
<1>11. Reduced(PartlyReduced(x, p), p) = x % p /\ Reduced(PartlyReduced(y, p), p) = y % p
  BY <1>10, ProductIs
<1>12. x % p = (jp.x * ii) % p
  <2>1. (u * jp.x) % p = (ii * jp.x) % p
    <3>1. u \in Int /\ ii \in Int /\ jp.x \in Int
      BY <1>4, <1>5
    <3> QED
      BY <1>1, <1>5, <3>1, SameProduct
  <2>2. x = u * jp.x /\ jp.x * ii = ii * jp.x
    BY <1>4, <1>5, <1>9
  <2> QED
    BY <2>1, <2>2
<1>13. y % p = (jp.y * (ii * i)) % p
  <2>1. PICK w : w = ii * i
    OBVIOUS
  <2>2. w \in Int /\ v % p = w % p
    BY <1>6, <1>8, <2>1
  <2>3. (v * jp.y) % p = (w * jp.y) % p
    <3>1. v \in Int /\ jp.y \in Int
      BY <1>7
    <3> QED
      BY <1>1, <2>2, <3>1, SameProduct
  <2>4. y = v * jp.y /\ jp.y * w = w * jp.y
    BY <1>7, <1>9, <2>2
  <2> QED
    BY <2>1, <2>3, <2>4
<1>14. JacobianToCurve(jp, p) = [x |-> Reduced(PartlyReduced(x, p), p), y |-> Reduced(PartlyReduced(y, p), p)]
  BY <1>3, <1>9 DEF JacobianToCurve, Square, Multiply
<1> QED
  BY <1>2, <1>3, <1>11, <1>12, <1>13, <1>14

\* The same without the inverse: x and y are the point's with z ^ 2 and z ^ 3.
OnRay(g, jp, p) ==
  /\ jp.x % p = (g.x * (jp.z * jp.z)) % p
  /\ jp.y % p = (g.y * ((jp.z * jp.z) * jp.z)) % p

IsResidues(g, p) == g = [x |-> g.x, y |-> g.y] /\ g.x \in 0 .. (p - 1) /\ g.y \in 0 .. (p - 1)

LEMMA AffineWhen ==
  ASSUME ProductsAreReduced(Nat), NEW c \in Curves, NEW p, p = c.prime,
         NEW jp, jp.x \in Nat, jp.y \in Nat, jp.z \in 0 .. (2 * p - 1), jp.z % p # 0,
         NEW g, IsResidues(g, p)
  PROVE  JacobianToCurve(jp, p) = g <=> OnRay(g, jp, p)
<1>1. PICK X, Y, z, i, x, y : /\ X = jp.x /\ Y = jp.y /\ z = jp.z /\ i = FieldInverse(z, p)
                              /\ x = g.x /\ y = g.y
  OBVIOUS
<1>2. p \in Nat \ {0} /\ X \in Int /\ Y \in Int /\ z \in Int /\ z \in 0 .. (2 * p - 1)
      /\ x \in Int /\ y \in Int /\ x \in 0 .. (p - 1) /\ y \in 0 .. (p - 1) /\ g = [x |-> x, y |-> y]
  BY <1>1, CurveIs DEF IsResidues
<1>3. i \in Int /\ (z * i) % p = 1
  BY <1>1, <1>2, PrimeInverseIs
<1>4. PICK zz, zzz, ii, iii : zz = z * z /\ zzz = zz * z /\ ii = i * i /\ iii = ii * i
  OBVIOUS
<1>5. zz \in Int /\ zzz \in Int /\ ii \in Int /\ iii \in Int
  BY <1>2, <1>3, <1>4
<1>6. (zz * ii) % p = 1 /\ (zzz * iii) % p = 1
  BY <1>2, <1>3, <1>4, SquareInverse
<1>7. (ii * zz) % p = 1 /\ (iii * zzz) % p = 1
  <2>1. ii * zz = zz * ii /\ iii * zzz = zzz * iii
    BY <1>5
  <2> QED
    BY <1>6, <2>1
<1>8. JacobianToCurve(jp, p) = [x |-> (X * ii) % p, y |-> (Y * iii) % p]
  BY <1>1, <1>4, AffineIs
<1>9. ASSUME NEW A \in Int, NEW a \in 0 .. (p - 1), NEW k \in Int, NEW h \in Int,
             (k * h) % p = 1, (h * k) % p = 1
      PROVE  (A * h) % p = a <=> A % p = (a * k) % p
  <2>1. a \in Int /\ a % p = a
    BY <1>2, SmallRemainder
  <2>2. PICK b, d : b = A * h /\ d = a * k
    OBVIOUS
  <2>3. b \in Int /\ d \in Int
    BY <2>1, <2>2
  <2>4. ASSUME b % p = a  PROVE A % p = d % p
    <3>1. (b * k) % p = (a * k) % p
      BY <1>2, <2>1, <2>3, <2>4, SameProduct
    <3>2. ((A * h) * k) % p = A % p
      BY <1>2, <1>9, InverseUndoes
    <3> QED
      BY <2>2, <3>1, <3>2
  <2>5. ASSUME A % p = d % p  PROVE b % p = a
    <3>1. (A * h) % p = (d * h) % p
      BY <1>2, <2>3, <2>5, SameProduct
    <3>2. ((a * k) * h) % p = a % p
      BY <1>2, <1>9, <2>1, InverseUndoes
    <3> QED
      BY <2>1, <2>2, <3>1, <3>2
  <2> QED
    BY <2>2, <2>4, <2>5
<1>10. (X * ii) % p = x <=> X % p = (x * zz) % p
  BY <1>2, <1>5, <1>6, <1>7, <1>9
<1>11. (Y * iii) % p = y <=> Y % p = (y * zzz) % p
  BY <1>2, <1>5, <1>6, <1>7, <1>9
<1>12. OnRay(g, jp, p) <=> X % p = (x * zz) % p /\ Y % p = (y * zzz) % p
  BY <1>1, <1>4 DEF OnRay
<1>13. JacobianToCurve(jp, p) = g <=> (X * ii) % p = x /\ (Y * iii) % p = y
  BY <1>2, <1>8
<1> QED
  BY <1>10, <1>11, <1>12, <1>13

-----------------------------------------------------------------------------
(* Coordinates of a multiple of the base.                                  *)

LEMMA OppositeIs ==
  ASSUME NEW c \in Curves, IsGroup(c), NEW k \in KeysOf(c), NEW g, g = Times(c, k),
         NEW h, h = Times(c, c.order - k), NEW p, p = c.prime
  PROVE  /\ c.order - k \in KeysOf(c) /\ IsResidues(g, p) /\ IsResidues(h, p)
         /\ g.y # 0 /\ h.x = g.x /\ h.y = p - g.y
<1>1. PICK n, j : n = c.order /\ j = n - k
  OBVIOUS
<1>2. n \in Nat \ {0} /\ k \in 1 .. (n - 1) /\ j \in 1 .. (n - 1)
  BY <1>1, ResiduesAre DEF KeysOf
<1>3. j \in KeysOf(c)
  BY <1>1, <1>2 DEF KeysOf
<1>4. /\ g = [x |-> g.x, y |-> g.y] /\ g.x \in 0 .. (p - 1) /\ g.y \in 0 .. (p - 1)
      /\ h = [x |-> h.x, y |-> h.y] /\ h.x \in 0 .. (p - 1) /\ h.y \in 0 .. (p - 1)
  BY <1>1, <1>3, PointIs
<1>5. h = [x |-> g.x, y |-> p - g.y]
  BY DEF IsGroup, TimesMirror
<1>6. h.x = g.x /\ h.y = p - g.y
  BY <1>5
<1>7. p \in Nat \ {0}
  BY CurveIs
<1>8. g.y # 0
  BY <1>4, <1>6, <1>7
<1> QED
  BY <1>1, <1>3, <1>4, <1>6, <1>8 DEF IsResidues

LEMMA CoordinatesAre ==
  ASSUME ProductsAreReduced(Nat), NEW c \in Curves, IsGroup(c), NEW p, p = c.prime,
         NEW k \in KeysOf(c), NEW jp, StandsFor(c, jp, k)
  PROVE  /\ jp = [x |-> jp.x, y |-> jp.y, z |-> jp.z]
         /\ jp.x \in 0 .. (2 * p - 1) /\ jp.y \in 1 .. (2 * p - 1) /\ jp.z \in 1 .. (2 * p - 1)
         /\ jp.z % p # 0 /\ OnRay(Times(c, k), jp, p)
<1>1. PICK g : g = Times(c, k)
  OBVIOUS
<1>2. g # Infinity /\ IsResidues(g, p) /\ g.y # 0
  BY <1>1, OppositeIs, PointIs
<1>3. p \in Nat \ {0}
  BY CurveIs
<1>4. /\ jp = [x |-> jp.x, y |-> jp.y, z |-> jp.z]
      /\ jp.x \in 0 .. (2 * p - 1) /\ jp.y \in 0 .. (2 * p - 1) /\ jp.z \in 0 .. (2 * p - 1)
  BY DEF StandsFor, JacobianPoints
<1>5. jp.x \in Nat /\ jp.y \in Nat
  BY <1>3, <1>4
<1>6. JacobianToCurve(jp, p) = g
  BY <1>1 DEF StandsFor
<1>7. PICK i, ii, iii : i = FieldInverse(jp.z, p) /\ ii = i * i /\ iii = ii * i
  OBVIOUS
<1>8. i \in Nat /\ g = [x |-> (jp.x * ii) % p, y |-> (jp.y * iii) % p]
  BY <1>4, <1>5, <1>6, <1>7, AffineIs
<1>9. ii \in Nat /\ iii \in Nat
  BY <1>7, <1>8
<1>10. jp.z % p # 0
  <2>1. SUFFICES ASSUME jp.z % p = 0  PROVE g = Infinity
    BY <1>2
  <2>2. i = 0
    BY <1>4, <1>7, <2>1, PrimeInverseIs
  <2>3. ii = 0 /\ iii = 0
    BY <1>7, <2>2
  <2>4. jp.x * ii = 0 /\ jp.y * iii = 0 /\ 0 % p = 0
    BY <1>3, <1>5, <2>3
  <2> QED
    BY <1>8, <2>4 DEF Infinity
<1>11. OnRay(g, jp, p)
  BY <1>2, <1>4, <1>5, <1>6, <1>10, AffineWhen
<1>12. jp.y # 0
  <2>1. ASSUME jp.y = 0  PROVE g.y = 0
    <3>1. jp.y * iii = 0 /\ 0 % p = 0
      BY <1>3, <1>9, <2>1
    <3> QED
      BY <1>8, <3>1
  <2> QED
    BY <1>2, <2>1
<1>13. jp.z # 0
  <2>1. 0 % p = 0
    BY <1>3
  <2> QED
    BY <1>10, <2>1
<1> QED
  BY <1>1, <1>3, <1>4, <1>10, <1>11, <1>12, <1>13

\* And the other way.
LEMMA StandsWhen ==
  ASSUME ProductsAreReduced(Nat), NEW c \in Curves, IsGroup(c), NEW p, p = c.prime,
         NEW k \in KeysOf(c), NEW jp, jp = [x |-> jp.x, y |-> jp.y, z |-> jp.z],
         jp.x \in 0 .. (2 * p - 1), jp.y \in 0 .. (2 * p - 1), jp.z \in 0 .. (2 * p - 1),
         jp.z % p # 0, OnRay(Times(c, k), jp, p)
  PROVE  StandsFor(c, jp, k)
<1>1. p \in Nat \ {0}
  BY CurveIs
<1>2. jp.x \in Nat /\ jp.y \in Nat
  BY <1>1
<1>3. PICK g : g = Times(c, k)
  OBVIOUS
<1>4. IsResidues(g, p)
  BY <1>3, OppositeIs
<1>5. JacobianToCurve(jp, p) = g
  BY <1>2, <1>3, <1>4, AffineWhen
<1>6. jp \in JacobianPoints(c)
  BY DEF JacobianPoints
<1> QED
  BY <1>3, <1>5, <1>6 DEF StandsFor

LEMMA NegatedY ==
  ASSUME ProductsAreReduced(Nat), NEW c \in Curves, IsGroup(c), NEW k \in KeysOf(c),
         NEW jp, StandsFor(c, jp, k)
  PROVE  StandsFor(c, [jp EXCEPT !.y = Negated(@, c.prime)], c.order - k)
<1>1. PICK p, g, h, Y, z, w : /\ p = c.prime /\ g = Times(c, k) /\ h = Times(c, c.order - k)
                              /\ Y = jp.y /\ z = jp.z /\ w = (z * z) * z
  OBVIOUS
<1>2. p \in Nat \ {0}
  BY <1>1, CurveIs
<1>3. /\ c.order - k \in KeysOf(c) /\ IsResidues(g, p) /\ h.x = g.x /\ h.y = p - g.y
  BY <1>1, OppositeIs
<1>4. /\ jp = [x |-> jp.x, y |-> Y, z |-> z]
      /\ jp.x \in 0 .. (2 * p - 1) /\ Y \in 1 .. (2 * p - 1) /\ z \in 1 .. (2 * p - 1)
      /\ z % p # 0 /\ OnRay(g, jp, p)
  BY <1>1, CoordinatesAre
<1>5. PICK y, V : y = g.y /\ V = 2 * p - Y
  OBVIOUS
<1>6. y \in Int /\ w \in Int /\ Y \in Int /\ V \in 0 .. (2 * p - 1) /\ V \in Int
  BY <1>1, <1>2, <1>3, <1>4, <1>5 DEF IsResidues
<1>7. Y % p = (y * w) % p
  BY <1>1, <1>4, <1>5 DEF OnRay
<1>8. PICK s : s = y * w
  OBVIOUS
<1>9. s \in Int
  BY <1>6, <1>8
<1>10. PICK d \in Int : Y = s + p * d
  BY <1>2, <1>6, <1>7, <1>8, <1>9, SameMeans
<1>11. PICK e, u : e = 2 - d - w /\ u = (p - y) * w
  OBVIOUS
<1>12. e \in Int /\ u \in Int /\ V = u + p * e
  <2>1. u = p * w - s
    BY <1>2, <1>6, <1>8, <1>11
  <2>2. p * e = 2 * p - p * d - p * w
    BY <1>2, <1>6, <1>11
  <2> QED
    BY <1>2, <1>5, <1>6, <1>9, <1>10, <1>11, <2>1, <2>2
<1>13. V % p = u % p
  BY <1>2, <1>12, RemainderKept
<1>14. PICK q : q = [jp EXCEPT !.y = Negated(@, p)]
  OBVIOUS
<1>15. q = [x |-> jp.x, y |-> V, z |-> z]
  BY <1>4, <1>5, <1>14 DEF Negated
<1>16. q.x = jp.x /\ q.y = V /\ q.z = z
  BY <1>15
<1>17. OnRay(h, q, p)
  <2>1. jp.x % p = (g.x * (z * z)) % p
    BY <1>1, <1>4 DEF OnRay
  <2>2. V % p = (h.y * w) % p
    BY <1>3, <1>5, <1>11, <1>13
  <2> QED
    BY <1>1, <1>3, <1>16, <2>1, <2>2 DEF OnRay
<1>18. q = [x |-> q.x, y |-> q.y, z |-> q.z]
  BY <1>15, <1>16
<1>19. q.x \in 0 .. (2 * p - 1) /\ q.y \in 0 .. (2 * p - 1) /\ q.z \in 0 .. (2 * p - 1) /\ q.z % p # 0
  BY <1>2, <1>4, <1>6, <1>16
<1>20. StandsFor(c, q, c.order - k)
  BY <1>1, <1>3, <1>17, <1>18, <1>19, StandsWhen
<1> QED
  BY <1>1, <1>14, <1>20

LEMMA NegatedZ ==
  ASSUME ProductsAreReduced(Nat), NEW c \in Curves, IsGroup(c), NEW k \in KeysOf(c),
         NEW jp, StandsFor(c, jp, k)
  PROVE  StandsFor(c, [jp EXCEPT !.z = Negated(@, c.prime)], c.order - k)
<1>1. PICK p, g, h, z, zz, w : /\ p = c.prime /\ g = Times(c, k) /\ h = Times(c, c.order - k)
                               /\ z = jp.z /\ zz = z * z /\ w = zz * z
  OBVIOUS
<1>2. p \in Nat \ {0}
  BY <1>1, CurveIs
<1>3. /\ c.order - k \in KeysOf(c) /\ IsResidues(g, p) /\ h.x = g.x /\ h.y = p - g.y
  BY <1>1, OppositeIs
<1>4. /\ jp = [x |-> jp.x, y |-> jp.y, z |-> z]
      /\ jp.x \in 0 .. (2 * p - 1) /\ jp.y \in 1 .. (2 * p - 1) /\ z \in 1 .. (2 * p - 1)
      /\ z % p # 0 /\ OnRay(g, jp, p)
  BY <1>1, CoordinatesAre
<1>5. PICK x, y, v, vv, u : /\ x = g.x /\ y = g.y /\ v = 2 * p - z
                            /\ vv = v * v /\ u = vv * v
  OBVIOUS
<1>6. /\ x \in Int /\ y \in Int /\ z \in Int /\ v \in Int /\ v \in 0 .. (2 * p - 1)
      /\ zz \in Int /\ w \in Int /\ vv \in Int /\ u \in Int
  <2>1. x \in Int /\ y \in Int /\ z \in Int /\ v \in 0 .. (2 * p - 1)
    BY <1>2, <1>3, <1>4, <1>5 DEF IsResidues
  <2>2. v \in Int
    BY <2>1
  <2>3. zz \in Int /\ vv \in Int
    BY <1>1, <1>5, <2>1, <2>2
  <2> QED
    BY <1>1, <1>5, <2>1, <2>2, <2>3
<1>7. jp.x % p = (x * zz) % p /\ jp.y % p = (y * w) % p
  BY <1>1, <1>4, <1>5 DEF OnRay
<1>8. PICK e, s : e = 4 * p - 4 * z /\ s = p * e
  OBVIOUS
<1>9. e \in Int /\ s \in Int
  BY <1>2, <1>6, <1>8
<1>10. vv = zz + s
  BY <1>1, <1>2, <1>5, <1>6, <1>8
<1>11. (x * vv) % p = (x * zz) % p
  <2>1. PICK a, b : a = x * zz /\ b = x * e
    OBVIOUS
  <2>2. a \in Int /\ b \in Int
    BY <1>6, <1>9, <2>1
  <2>3. x * vv = a + p * b
    <3>1. x * vv = a + x * s
      BY <1>6, <1>9, <1>10, <2>1
    <3>2. x * s = p * b
      BY <1>2, <1>6, <1>8, <1>9, <2>1
    <3> QED
      BY <3>1, <3>2
  <2>4. (a + p * b) % p = a % p
    BY <1>2, <2>2, RemainderKept
  <2> QED
    BY <2>1, <2>3, <2>4
<1>12. ((p - y) * u) % p = (y * w) % p
  <2>1. PICK a, b, f, t : a = y * w /\ f = 2 * zz + e * v /\ b = u - y * f /\ t = zz * v
    OBVIOUS
  <2>2. a \in Int /\ f \in Int /\ b \in Int /\ t \in Int
    <3>1. e * v \in Int
      BY <1>6, <1>9
    <3>2. f \in Int
      BY <1>6, <2>1, <3>1
    <3>3. y * f \in Int
      BY <1>6, <3>2
    <3> QED
      BY <1>6, <2>1, <3>2, <3>3
  <2>3. u = p * f - w
    <3>1. u = t + s * v
      <4>1. (zz + s) * v = zz * v + s * v
        BY <1>6, <1>9
      <4> QED
        BY <1>5, <1>10, <2>1, <4>1
    <3>2. t = 2 * (zz * p) - w
      BY <1>1, <1>2, <1>5, <1>6, <2>1
    <3>3. s * v = p * (e * v)
      BY <1>2, <1>6, <1>8, <1>9
    <3>4. PICK m, o : m = e * v /\ o = zz * p
      OBVIOUS
    <3>5. m \in Int /\ o \in Int /\ f = 2 * zz + m
      BY <1>2, <1>6, <1>9, <2>1, <3>4
    <3>6. p * f = 2 * o + p * m
      BY <1>2, <1>6, <3>4, <3>5
    <3> QED
      BY <1>2, <1>6, <3>1, <3>2, <3>3, <3>4, <3>5, <3>6
  <2>4. (p - y) * u = a + p * b
    <3>1. PICK m : m = p * f
      OBVIOUS
    <3>2. m \in Int /\ u = m - w
      BY <1>2, <2>2, <2>3, <3>1
    <3>3. (p - y) * u = p * u - y * u
      BY <1>2, <1>6
    <3>4. y * u = y * m - a
      BY <1>6, <2>1, <3>2
    <3>5. y * m = p * (y * f)
      BY <1>2, <1>6, <2>2, <3>1
    <3>6. PICK o : o = y * f
      OBVIOUS
    <3>7. o \in Int /\ b = u - o
      BY <1>6, <2>1, <2>2, <3>6
    <3>8. p * b = p * u - p * o
      BY <1>2, <1>6, <3>7
    <3>9. p * u \in Int /\ p * o \in Int
      BY <1>2, <1>6, <3>7
    <3> QED
      BY <2>2, <3>3, <3>4, <3>5, <3>6, <3>8, <3>9
  <2>5. (a + p * b) % p = a % p
    BY <1>2, <2>2, RemainderKept
  <2> QED
    BY <2>1, <2>4, <2>5
<1>13. v % p # 0
  <2>1. SUFFICES ASSUME v % p = 0  PROVE z % p = 0
    BY <1>4
  <2>2. PICK d : d = v \div p
    OBVIOUS
  <2>3. d \in Int /\ v = p * d + 0
    BY <1>2, <1>6, <2>1, <2>2, Split
  <2>4. PICK m : m = 2 - d
    OBVIOUS
  <2>5. m \in Int /\ z = p * m + 0
    BY <1>2, <1>5, <1>6, <2>3, <2>4
  <2>6. 0 \in 0 .. (p - 1)
    BY <1>2
  <2> QED
    BY <1>2, <1>6, <2>5, <2>6, Divided
<1>14. PICK q : q = [jp EXCEPT !.z = Negated(@, p)]
  OBVIOUS
<1>15. q = [x |-> jp.x, y |-> jp.y, z |-> v]
  BY <1>4, <1>5, <1>14 DEF Negated
<1>16. q.x = jp.x /\ q.y = jp.y /\ q.z = v
  BY <1>15
<1>17. OnRay(h, q, p)
  <2>1. q.x % p = (h.x * vv) % p
    BY <1>3, <1>5, <1>7, <1>11, <1>16
  <2>2. q.y % p = (h.y * u) % p
    BY <1>3, <1>5, <1>7, <1>12, <1>16
  <2> QED
    BY <1>5, <1>16, <2>1, <2>2 DEF OnRay
<1>18. q = [x |-> q.x, y |-> q.y, z |-> q.z]
  BY <1>15, <1>16
<1>19. q.x \in 0 .. (2 * p - 1) /\ q.y \in 0 .. (2 * p - 1) /\ q.z \in 0 .. (2 * p - 1) /\ q.z % p # 0
  BY <1>2, <1>4, <1>6, <1>13, <1>16
<1>20. StandsFor(c, q, c.order - k)
  BY <1>1, <1>3, <1>17, <1>18, <1>19, StandsWhen
<1> QED
  BY <1>1, <1>14, <1>20
-----------------------------------------------------------------------------
(* Multiples of a multiple.                                                *)

LEMMA BlindedIs ==
  ASSUME ProductsAreReduced(Nat), NEW c \in Curves, IsGroup(c), NEW k \in KeysOf(c),
         NEW z \in BlindZ
  PROVE  StandsFor(c, CurveToJacobian(Times(c, k), z, c.prime), k)
<1>1. PICK p, g, q, h, j : /\ p = c.prime /\ g = Times(c, k) /\ q = 2 ^ NumberBits
                           /\ j = NumberBits - 1 /\ h = 2 ^ j
  OBVIOUS
<1>2. p \in Nat \ {0} /\ q \in Nat /\ q < 2 * p
  <2>1. PICK n : n = c.order
    OBVIOUS
  <2>2. n \in Nat /\ p \in Nat /\ q \in Nat /\ 3 <= n /\ n <= p /\ q < 2 * n
    BY <1>1, <2>1, CurveIs
  <2> QED
    BY <2>2
<1>3. h \in Nat /\ q = 2 * h
  <2>1. j \in 0 .. NumberBits /\ 1 \in 0 .. NumberBits /\ j + 1 = NumberBits /\ j + 1 <= NumberBits
    BY <1>1, FieldAssumption
  <2>2. 2 ^ (j + 1) = 2 ^ j * 2 ^ 1 /\ 2 ^ 1 = 2 /\ 2 ^ j \in Nat \ {0}
    BY <2>1, PowersAssumption
  <2>3. q = h * 2 /\ h \in Nat
    BY <1>1, <2>1, <2>2
  <2> QED
    BY <2>3
<1>4. z \in 1 .. h
  BY <1>1, CurveAssumption
<1>5. z \in 1 .. (p - 1) /\ z \in Nat
  BY <1>2, <1>3, <1>4
<1>6. IsResidues(g, p)
  BY <1>1, OppositeIs
<1>7. PICK x, y, a, zz, b, zzz, d, e :
          /\ x = g.x /\ y = g.y /\ a = z * z /\ zz = PartlyReduced(a, p)
          /\ b = z * zz /\ zzz = PartlyReduced(b, p) /\ d = x * zz /\ e = y * zzz
  OBVIOUS
<1>8. x \in Nat /\ y \in Nat /\ a \in Nat
  <2>1. a \in Nat
    BY <1>5, <1>7
  <2> QED
    BY <1>6, <1>7, <2>1 DEF IsResidues
<1>9. \A v \in Nat : PartlyReduced(v, p) \in 0 .. (2 * p - 1) /\ PartlyReduced(v, p) % p = v % p
  <2>1. ASSUME NEW v \in Nat
        PROVE  PartlyReduced(v, p) \in 0 .. (2 * p - 1) /\ PartlyReduced(v, p) % p = v % p
    <3>1. PICK r : r = v % p
      OBVIOUS
    <3>2. r \in 0 .. (p - 1)
      BY <1>2, <3>1, Split
    <3>3. PartlyReduced(v, p) \in {r, r + p}
      BY <1>1, <3>1 DEF ProductsAreReduced, Representatives
    <3>4. PartlyReduced(v, p) % p = v % p
      BY <1>1, ProductIs
    <3> QED
      BY <1>2, <3>2, <3>3, <3>4
  <2> QED
    BY <2>1
<1>10. zz \in 0 .. (2 * p - 1) /\ zz % p = a % p
  BY <1>7, <1>8, <1>9
<1>11. zz \in Nat /\ b \in Nat /\ d \in Nat
  <2>1. zz \in Nat
    BY <1>2, <1>10
  <2> QED
    BY <1>5, <1>7, <1>8, <2>1
<1>12. zzz \in 0 .. (2 * p - 1) /\ zzz % p = b % p
  BY <1>7, <1>9, <1>11
<1>13. zzz \in Nat /\ e \in Nat
  <2>1. zzz \in Nat
    BY <1>2, <1>12
  <2> QED
    BY <1>7, <1>8, <2>1
<1>14. PICK X, Y : X = PartlyReduced(d, p) /\ Y = PartlyReduced(e, p)
  OBVIOUS
<1>15. X \in 0 .. (2 * p - 1) /\ X % p = d % p /\ Y \in 0 .. (2 * p - 1) /\ Y % p = e % p
  BY <1>9, <1>11, <1>13, <1>14
<1>16. d % p = (x * a) % p
  <2>1. zz \in Int /\ a \in Int /\ x \in Int
    BY <1>8, <1>11
  <2>2. (zz * x) % p = (a * x) % p
    BY <1>2, <1>10, <2>1, SameProduct
  <2>3. zz * x = d /\ a * x = x * a
    BY <1>7, <2>1
  <2> QED
    BY <2>2, <2>3
<1>17. e % p = (y * (a * z)) % p
  <2>1. PICK f : f = a * z
    OBVIOUS
  <2>2. zz \in Int /\ a \in Int /\ z \in Int /\ f \in Int /\ y \in Int /\ b \in Int /\ zzz \in Int
    <3>1. a \in Int /\ z \in Int
      BY <1>5, <1>8
    <3>2. f \in Int
      BY <2>1, <3>1
    <3> QED
      BY <1>8, <1>11, <1>13, <3>1, <3>2
  <2>0. \A v \in Int, w \in Int, s \in Int : v % p = w % p => (v * s) % p = (w * s) % p
    BY <1>2, SameProduct, ZenonT(60)
  <2>3. (zz * z) % p = (a * z) % p
    BY <1>10, <2>0, <2>2, ZenonT(60)
  <2>4. zzz % p = f % p
    <3>1. zz * z = b
      BY <1>7, <2>2
    <3> QED
      BY <1>12, <2>1, <2>3, <3>1
  <2>5. (zzz * y) % p = (f * y) % p
    BY <2>0, <2>2, <2>4, ZenonT(60)
  <2>6. zzz * y = e /\ f * y = y * f
    BY <1>7, <2>2
  <2> QED
    BY <2>1, <2>5, <2>6
<1>18. PICK jp : jp = [x |-> X, y |-> Y, z |-> z]
  OBVIOUS
<1>19. jp.x = X /\ jp.y = Y /\ jp.z = z
  BY <1>18
<1>20. z % p # 0
  <2>1. z \in 0 .. (p - 1) /\ z # 0
    BY <1>2, <1>5
  <2>2. z % p = z
    BY <1>2, <2>1, SmallRemainder
  <2> QED
    BY <2>1, <2>2
<1>21. OnRay(g, jp, p)
  BY <1>7, <1>15, <1>16, <1>17, <1>19 DEF OnRay
<1>22. /\ jp = [x |-> jp.x, y |-> jp.y, z |-> jp.z] /\ jp.x \in 0 .. (2 * p - 1)
       /\ jp.y \in 0 .. (2 * p - 1) /\ jp.z \in 0 .. (2 * p - 1) /\ jp.z % p # 0
  <2>1. z \in 0 .. (2 * p - 1)
    BY <1>2, <1>5
  <2> QED
    BY <1>15, <1>18, <1>19, <1>20, <2>1
<1>23. StandsFor(c, jp, k)
  BY <1>1, <1>21, <1>22, StandsWhen
<1>24. CurveToJacobian(g, z, p) = jp
  BY <1>7, <1>14, <1>18 DEF CurveToJacobian, Square, Multiply
<1> QED
  BY <1>1, <1>23, <1>24

-----------------------------------------------------------------------------
(* Calculating with remainders.                                            *)

Alike(p, a, b) == a \in Int /\ b \in Int /\ a % p = b % p

LEMMA AlikeIs ==
  ASSUME NEW p \in Nat \ {0}
  PROVE  /\ \A a \in Int : Alike(p, a, a)
         /\ \A a, b : Alike(p, a, b) => a \in Int /\ b \in Int /\ Alike(p, b, a)
         /\ \A a, b, c : Alike(p, a, b) /\ Alike(p, b, c) => Alike(p, a, c)
  BY DEF Alike

LEMMA AlikeSum ==
  ASSUME NEW p \in Nat \ {0}, NEW a, NEW b, Alike(p, a, b), NEW c, NEW d, Alike(p, c, d)
  PROVE  Alike(p, a + c, b + d)
<1>1. a \in Int /\ b \in Int /\ c \in Int /\ d \in Int /\ a % p = b % p /\ c % p = d % p
  BY DEF Alike
<1>2. (a + c) % p = (b + c) % p
  BY <1>1, SameSum
<1>3. (c + b) % p = (d + b) % p
  BY <1>1, SameSum
<1>4. b + c = c + b /\ b + d = d + b /\ a + c \in Int /\ b + d \in Int
  BY <1>1
<1> QED
  BY <1>2, <1>3, <1>4 DEF Alike

LEMMA AlikeProduct ==
  ASSUME NEW p \in Nat \ {0}, NEW a, NEW b, Alike(p, a, b), NEW c, NEW d, Alike(p, c, d)
  PROVE  Alike(p, a * c, b * d)
<1>1. a \in Int /\ b \in Int /\ c \in Int /\ d \in Int /\ a % p = b % p /\ c % p = d % p
  BY DEF Alike
<1>2. (a * c) % p = (b * c) % p
  BY <1>1, SameProduct
<1>3. (c * b) % p = (d * b) % p
  BY <1>1, SameProduct
<1>4. b * c = c * b /\ b * d = d * b /\ a * c \in Int /\ b * d \in Int
  BY <1>1
<1> QED
  BY <1>2, <1>3, <1>4 DEF Alike

LEMMA AlikeDifference ==
  ASSUME NEW p \in Nat \ {0}, NEW a, NEW b, Alike(p, a, b), NEW c, NEW d, Alike(p, c, d)
  PROVE  Alike(p, a - c, b - d)
<1>1. PICK e, f, one : e = (-1) * c /\ f = (-1) * d /\ one = -1
  OBVIOUS
<1>2. a \in Int /\ b \in Int /\ c \in Int /\ d \in Int /\ one \in Int
  BY <1>1, AlikeIs
<1>3. Alike(p, one * c, one * d)
  BY <1>2, AlikeIs, AlikeProduct
<1>4. Alike(p, e, f)
  BY <1>1, <1>3
<1>5. Alike(p, a + e, b + f)
  BY <1>4, AlikeSum
<1>6. a + e = a - c /\ b + f = b - d
  BY <1>1, <1>2
<1> QED
  BY <1>5, <1>6

\* A difference of a multiple of p.
LEMMA AlikeShifted ==
  ASSUME NEW p \in Nat \ {0}, NEW a \in Int, NEW k \in Int
  PROVE  Alike(p, a + p * k, a) /\ Alike(p, a - p * k, a)
<1>1. PICK h, b : h = -k /\ b = p * h
  OBVIOUS
<1>2. h \in Int /\ p * k \in Int /\ b \in Int /\ a - p * k = a + p * h
  BY <1>1
<1>3. (a + p * k) % p = a % p /\ (a + p * h) % p = a % p
  BY <1>2, RemainderKept
<1> QED
  BY <1>2, <1>3 DEF Alike

\* Neither of two factors of a number that is not zero modulo p is, and the other way round
\* if p is a prime.
Unit(p, k) == k \in Int /\ \E i \in Int : (k * i) % p = 1

LEMMA UnitCancelled ==
  ASSUME NEW p \in Nat \ {0}, NEW k, Unit(p, k), NEW a, NEW b, a \in Int, b \in Int,
         Alike(p, a * k, b * k)
  PROVE  Alike(p, a, b)
<1>1. \E i \in Int : (k * i) % p = 1
  BY DEF Unit
<1>2. PICK i : i \in Int /\ (k * i) % p = 1
  BY <1>1
<1>3. k \in Int /\ (a * k) % p = (b * k) % p
  BY DEF Unit, Alike
<1>4. PICK n : n = p
  OBVIOUS
<1>5. n \in Nat \ {0} /\ (k * i) % n = 1 /\ (a * k) % n = (b * k) % n
  BY <1>2, <1>3, <1>4
<1>6. a % n = b % n
  BY <1>2, <1>3, <1>5, Cancelled, ZenonT(60)
<1> QED
  BY <1>4, <1>6 DEF Alike

LEMMA AlikeHalf ==
  ASSUME NEW p \in Nat, 3 <= p, p % 2 = 1, NEW a, NEW b, a \in Int, b \in Int,
         Alike(p, 2 * a, 2 * b)
  PROVE  Alike(p, a, b)
<1>1. PICK h, i, two : h = p \div 2 /\ i = h + 1 /\ two = 2
  OBVIOUS
<1>2. p \in Nat \ {0} /\ h \in Int /\ p = 2 * h + 1 /\ two \in Nat \ {0}
  <2>1. p \in Int /\ two \in Nat \ {0}
    BY <1>1
  <2>2. h \in Int /\ p = two * h + (p % 2)
    BY <1>1, <2>1, Split
  <2> QED
    BY <1>1, <2>1, <2>2
<1>3. i \in Int /\ two * i = p * 1 + 1 /\ two * i \in Int /\ 1 \in 0 .. (p - 1)
  BY <1>1, <1>2
<1>4. (two * i) % p = 1
  BY <1>2, <1>3, Divided
<1>5. Unit(p, two)
  <2>1. two \in Int
    BY <1>1
  <2> QED
    BY <1>3, <1>4, <2>1 DEF Unit
<1>6. Alike(p, a * two, b * two)
  <2>1. a * two = 2 * a /\ b * two = 2 * b
    BY <1>1
  <2> QED
    BY <1>1, <2>1
<1> QED
  BY <1>2, <1>5, <1>6, UnitCancelled

LEMMA UnitProduct ==
  ASSUME NEW p \in Nat \ {0}, 2 <= p, NEW k, Unit(p, k), NEW h, Unit(p, h)
  PROVE  Unit(p, k * h)
<1>1. PICK i \in Int, j \in Int : (k * i) % p = 1 /\ (h * j) % p = 1
  <2>1. PICK i \in Int : (k * i) % p = 1
    BY DEF Unit
  <2>2. PICK j \in Int : (h * j) % p = 1
    BY DEF Unit
  <2> QED
    BY <2>1, <2>2
<1>2. PICK u, v, m, f : u = k * i /\ v = h * j /\ m = k * h /\ f = i * j
  OBVIOUS
<1>3. k \in Int /\ h \in Int /\ u \in Int /\ v \in Int /\ m \in Int /\ f \in Int
  BY <1>1, <1>2 DEF Unit
<1>4. m * f = u * v
  BY <1>1, <1>2, <1>3
<1>5. u % p = 1 /\ v % p = 1
  BY <1>1, <1>2
<1>6. ((u % p) * v) % p = (u * v) % p
  BY <1>3, RemainderTimes
<1>7. (u % p) * v = v
  BY <1>3, <1>5
<1>8. (m * f) % p = 1
  BY <1>4, <1>5, <1>6, <1>7
<1> QED
  BY <1>2, <1>3, <1>8 DEF Unit

LEMMA UnitIs ==
  ASSUME NEW c \in Curves, NEW p, p = c.prime, NEW k \in Int
  PROVE  Unit(p, k) <=> ~Alike(p, k, 0)
<1>1. PICK r : r = k % p
  OBVIOUS
<1>2. p \in Nat \ {0} /\ 3 <= p /\ p \in Nat
  BY CurveIs
<1>3. r \in 0 .. (p - 1) /\ r \in 0 .. (2 * p - 1) /\ r \in Int
  <2>1. r \in 0 .. (p - 1)
    BY <1>1, <1>2, Split
  <2> QED
    BY <1>2, <2>1
<1>4. r % p = r /\ 0 % p = 0
  BY <1>2, <1>3, SmallRemainder
<1>5. Alike(p, k, 0) <=> r = 0
  BY <1>1, <1>4 DEF Alike
<1>6. ASSUME NEW i \in Int  PROVE (k * i) % p = (r * i) % p
  BY <1>1, <1>2, <1>3, <1>4, SameProduct
<1>7. ASSUME r # 0  PROVE Unit(p, k)
  <2>1. PICK i : i = FieldInverse(r, p)
    OBVIOUS
  <2>2. i \in 1 .. (p - 1) /\ (r * i) % p = 1
    BY <1>3, <1>4, <1>7, <2>1, PrimeInverseIs
  <2>3. i \in Int
    BY <2>2
  <2> QED
    BY <1>6, <2>2, <2>3 DEF Unit
<1>8. ASSUME r = 0  PROVE ~Unit(p, k)
  <2>1. ASSUME NEW i \in Int  PROVE (k * i) % p # 1
    <3>1. r * i = 0
      BY <1>8, <2>1
    <3> QED
      BY <1>4, <1>6, <2>1, <3>1
  <2> QED
    BY <2>1 DEF Unit
<1> QED
  BY <1>5, <1>7, <1>8
-----------------------------------------------------------------------------
(* The coordinates that both formulas give, for the slope l and the scale  *)
(* u that the new z is.                                                    *)

\* x3 and y3 are those of the third point on a line.
ThirdOnLine(p, l, x1, y1, x2, y2, x3, y3) ==
  /\ l \in Int /\ x1 \in Int /\ y1 \in Int /\ x2 \in Int /\ y2 \in Int
  /\ Alike(p, x3, l * l - (x1 + x2))
  /\ Alike(p, y3, l * (x1 - x3) - y1) /\ Alike(p, y3, l * (x2 - x3) - y2)

LEMMA Factors ==
  ASSUME NEW l, NEW u, NEW s, NEW t, NEW x, l \in Int, u \in Int, s \in Int, t \in Int, x \in Int
  PROVE  /\ (l * u) * (l * u) - s * (u * u) = (l * l - s) * (u * u)
         /\ (s * (u * u) - x * (u * u)) - x * (u * u) = ((s - x) - x) * (u * u)
         /\ (l * u) * (x * (u * u)) = (l * x) * ((u * u) * u)
         /\ s * ((u * u) * u) - t * ((u * u) * u) = (s - t) * ((u * u) * u)
  OBVIOUS

LEMMA AddedPoint ==
  ASSUME NEW p \in Nat, 3 <= p, p % 2 = 1,
         NEW l, NEW x1, NEW y1, NEW x2, NEW y2, NEW x3, NEW y3,
         ThirdOnLine(p, l, x1, y1, x2, y2, x3, y3),
         NEW u, u \in Int, NEW w, w = u * u, NEW v, v = w * u,
         NEW r, Alike(p, r, l * u), NEW s, Alike(p, s, (x1 + x2) * w),
         NEW t, Alike(p, t, (y1 + y2) * v),
         NEW X, Alike(p, X, r * r - s),
         NEW Y, Y \in Int, Alike(p, 2 * Y, r * ((s - X) - X) - t)
  PROVE  Alike(p, X, x3 * w) /\ Alike(p, Y, y3 * v)
<1>1. p \in Nat \ {0}
  OBVIOUS
<1>2. /\ l \in Int /\ x1 \in Int /\ y1 \in Int /\ x2 \in Int /\ y2 \in Int
      /\ Alike(p, x3, l * l - (x1 + x2))
      /\ Alike(p, y3, l * (x1 - x3) - y1) /\ Alike(p, y3, l * (x2 - x3) - y2)
  BY DEF ThirdOnLine
<1>3. x3 \in Int /\ y3 \in Int /\ r \in Int /\ s \in Int /\ t \in Int /\ X \in Int
  BY <1>1, <1>2, AlikeIs
<1>4. w \in Int /\ v \in Int
  BY <1>1
<1>5. PICK a, b, ll, f : a = x1 + x2 /\ b = y1 + y2 /\ ll = l * l /\ f = (a - x3) - x3
  OBVIOUS
<1>6. a \in Int /\ b \in Int /\ ll \in Int /\ f \in Int
  BY <1>2, <1>3, <1>5
<1>7. Alike(p, X, x3 * w)
  <2>1. Alike(p, r * r, (l * u) * (l * u))
    BY <1>1, AlikeProduct
  <2>2. Alike(p, s, a * w)
    BY <1>5
  <2>3. Alike(p, r * r - s, (l * u) * (l * u) - a * w)
    BY <1>1, <2>1, <2>2, AlikeDifference
  <2>4. (l * u) * (l * u) - a * w = (ll - a) * w
    BY <1>2, <1>4, <1>5, <1>6, Factors
  <2>5. Alike(p, ll - a, x3)
    BY <1>1, <1>2, <1>5, AlikeIs
  <2>6. Alike(p, w, w)
    BY <1>1, <1>4, AlikeIs
  <2>7. Alike(p, (ll - a) * w, x3 * w)
    BY <1>1, <2>5, <2>6, AlikeProduct
  <2> QED
    BY <1>1, <2>3, <2>4, <2>7, AlikeIs
<1>8. Alike(p, (s - X) - X, f * w)
  <2>1. Alike(p, s - X, a * w - x3 * w)
    BY <1>1, <1>5, <1>7, AlikeDifference
  <2>2. Alike(p, (s - X) - X, (a * w - x3 * w) - x3 * w)
    BY <1>1, <1>7, <2>1, AlikeDifference
  <2>3. (a * w - x3 * w) - x3 * w = f * w
    BY <1>2, <1>3, <1>5, <1>6, Factors
  <2> QED
    BY <2>2, <2>3
<1>9. Alike(p, r * ((s - X) - X) - t, (l * f - b) * v)
  <2>1. Alike(p, r * ((s - X) - X), (l * u) * (f * w))
    BY <1>1, <1>8, AlikeProduct
  <2>2. Alike(p, t, b * v)
    BY <1>5
  <2>3. Alike(p, r * ((s - X) - X) - t, (l * u) * (f * w) - b * v)
    BY <1>1, <2>1, <2>2, AlikeDifference
  <2>4. PICK g : g = l * f
    OBVIOUS
  <2>5. g \in Int
    BY <1>2, <1>6, <2>4
  <2>6. (l * u) * (f * w) = g * v
    BY <1>2, <1>6, <2>4, Factors
  <2>7. g * v - b * v = (g - b) * v
    BY <1>6, <2>5, Factors
  <2> QED
    BY <2>3, <2>4, <2>6, <2>7
<1>10. Alike(p, y3 + y3, l * f - b)
  <2>1. Alike(p, y3 + y3, (l * (x1 - x3) - y1) + (l * (x2 - x3) - y2))
    BY <1>1, <1>2, AlikeSum
  <2>2. (l * (x1 - x3) - y1) + (l * (x2 - x3) - y2) = l * f - b
    BY <1>2, <1>3, <1>5
  <2> QED
    BY <2>1, <2>2
<1>11. Alike(p, (l * f - b) * v, 2 * (y3 * v))
  <2>1. Alike(p, l * f - b, y3 + y3) /\ Alike(p, v, v)
    BY <1>1, <1>4, <1>10, AlikeIs
  <2>2. Alike(p, (l * f - b) * v, (y3 + y3) * v)
    BY <1>1, <2>1, AlikeProduct
  <2>3. (y3 + y3) * v = 2 * (y3 * v)
    BY <1>3, <1>4
  <2> QED
    BY <2>2, <2>3
<1>12. Alike(p, 2 * Y, 2 * (y3 * v))
  BY <1>1, <1>9, <1>11, AlikeIs
<1>13. PICK e : e = y3 * v
  OBVIOUS
<1>14. e \in Int /\ Alike(p, 2 * Y, 2 * e)
  BY <1>3, <1>4, <1>12, <1>13
<1>15. Alike(p, Y, e)
  BY <1>14, AlikeHalf
<1> QED
  BY <1>7, <1>13, <1>15

LEMMA DoubledPoint ==
  ASSUME NEW p \in Nat, 3 <= p,
         NEW l, NEW x, NEW y, NEW x3, NEW y3, ThirdOnLine(p, l, x, y, x, y, x3, y3),
         NEW u, u \in Int, NEW w, w = u * u, NEW v, v = w * u,
         NEW r, Alike(p, r, l * u), NEW s, Alike(p, s, x * w), NEW t, Alike(p, t, y * v),
         NEW X, Alike(p, X, r * r - 2 * s), NEW Y, Alike(p, Y, r * (s - X) - t)
  PROVE  Alike(p, X, x3 * w) /\ Alike(p, Y, y3 * v)
<1>1. p \in Nat \ {0}
  OBVIOUS
<1>2. /\ l \in Int /\ x \in Int /\ y \in Int
      /\ Alike(p, x3, l * l - (x + x)) /\ Alike(p, y3, l * (x - x3) - y)
  BY DEF ThirdOnLine
<1>3. x3 \in Int /\ y3 \in Int /\ r \in Int /\ s \in Int /\ t \in Int /\ X \in Int
  BY <1>1, <1>2, AlikeIs
<1>4. w \in Int /\ v \in Int
  OBVIOUS
<1>5. PICK a, ll, f, g : a = x + x /\ ll = l * l /\ f = x - x3 /\ g = l * f
  OBVIOUS
<1>6. a \in Int /\ ll \in Int /\ f \in Int /\ g \in Int
  BY <1>2, <1>3, <1>5
<1>7. Alike(p, X, x3 * w)
  <2>1. Alike(p, r * r, (l * u) * (l * u))
    BY <1>1, AlikeProduct
  <2>2. Alike(p, s + s, x * w + x * w)
    BY <1>1, AlikeSum
  <2>3. x * w + x * w = a * w /\ 2 * s = s + s
    BY <1>2, <1>3, <1>4, <1>5
  <2>4. Alike(p, r * r - 2 * s, (l * u) * (l * u) - a * w)
    BY <1>1, <2>1, <2>2, <2>3, AlikeDifference
  <2>5. (l * u) * (l * u) - a * w = (ll - a) * w
    BY <1>2, <1>5, <1>6, Factors
  <2>6. Alike(p, ll - a, x3) /\ Alike(p, w, w)
    BY <1>1, <1>2, <1>4, <1>5, AlikeIs
  <2>7. Alike(p, (ll - a) * w, x3 * w)
    BY <1>1, <2>6, AlikeProduct
  <2> QED
    BY <1>1, <2>4, <2>5, <2>7, AlikeIs
<1>8. Alike(p, s - X, f * w)
  <2>1. Alike(p, s - X, x * w - x3 * w)
    BY <1>1, <1>7, AlikeDifference
  <2>2. x * w - x3 * w = f * w
    BY <1>2, <1>3, <1>4, <1>5
  <2> QED
    BY <2>1, <2>2
<1>9. Alike(p, r * (s - X) - t, (g - y) * v)
  <2>1. Alike(p, r * (s - X), (l * u) * (f * w))
    BY <1>1, <1>8, AlikeProduct
  <2>2. Alike(p, r * (s - X) - t, (l * u) * (f * w) - y * v)
    BY <1>1, <2>1, AlikeDifference
  <2>3. (l * u) * (f * w) = g * v
    BY <1>2, <1>5, <1>6, Factors
  <2>4. g * v - y * v = (g - y) * v
    BY <1>2, <1>6, Factors
  <2> QED
    BY <2>2, <2>3, <2>4
<1>10. Alike(p, (g - y) * v, y3 * v)
  <2>1. Alike(p, g - y, y3) /\ Alike(p, v, v)
    BY <1>1, <1>2, <1>4, <1>5, AlikeIs
  <2> QED
    BY <1>1, <2>1, AlikeProduct
<1> QED
  BY <1>1, <1>7, <1>9, <1>10, AlikeIs
-----------------------------------------------------------------------------
(* The operations on field numbers.                                        *)

\* What a partly reduced number may be.
Partly(p, x) == x \in 0 .. (2 * p - 1)

LEMMA PartlyIs ==
  ASSUME NEW c \in Curves, NEW p, p = c.prime
  PROVE  /\ p \in Nat /\ 3 <= p /\ p % 2 = 1 /\ p \in Nat \ {0}
         /\ \A x : Partly(p, x) => x \in Nat /\ x \in Int /\ x < 2 * p
  BY CurveIs DEF Partly

LEMMA PartlyReducedIs ==
  ASSUME ProductsAreReduced(Nat), NEW c \in Curves, NEW p, p = c.prime, NEW x, x \in Nat
  PROVE  Partly(p, PartlyReduced(x, p)) /\ Alike(p, PartlyReduced(x, p), x)
<1>1. PICK r, z : r = x % p /\ z = PartlyReduced(x, p)
  OBVIOUS
<1>2. p \in Nat \ {0} /\ x \in Int
  BY CurveIs
<1>3. r \in 0 .. (p - 1)
  BY <1>1, <1>2, Split
<1>4. z \in {r, r + p}
  <2>1. p \in {c.prime, c.order}
    OBVIOUS
  <2> QED
    BY <1>1, <2>1 DEF ProductsAreReduced, Representatives
<1>5. z \in 0 .. (2 * p - 1)
  BY <1>2, <1>3, <1>4
<1>6. z % p = x % p
  BY <1>1, ProductIs
<1>7. z \in Int
  BY <1>5
<1> QED
  BY <1>1, <1>2, <1>5, <1>6, <1>7 DEF Partly, Alike

LEMMA MultiplyIs ==
  ASSUME ProductsAreReduced(Nat), NEW c \in Curves, NEW p, p = c.prime,
         NEW a, NEW b, a \in Nat, b \in Nat
  PROVE  /\ Partly(p, Multiply(a, b, p)) /\ Alike(p, Multiply(a, b, p), a * b)
         /\ Partly(p, MultiplyK(a, b, p)) /\ Alike(p, MultiplyK(a, b, p), a * b)
         /\ Partly(p, Square(a, p)) /\ Alike(p, Square(a, p), a * a)
<1>1. PICK x, y, z : x = a * b /\ y = b * a /\ z = a * a
  OBVIOUS
<1>2. x \in Nat /\ y = x /\ z \in Nat
  BY <1>1
<1>3. Partly(p, PartlyReduced(x, p)) /\ Alike(p, PartlyReduced(x, p), x)
  BY <1>2, PartlyReducedIs
<1>4. Partly(p, PartlyReduced(z, p)) /\ Alike(p, PartlyReduced(z, p), z)
  BY <1>2, PartlyReducedIs
<1>5. /\ Multiply(a, b, p) = PartlyReduced(x, p) /\ MultiplyK(a, b, p) = PartlyReduced(x, p)
      /\ Square(a, p) = PartlyReduced(z, p)
  BY <1>1, <1>2 DEF Multiply, MultiplyK, Square
<1> QED
  BY <1>1, <1>3, <1>4, <1>5

LEMMA SubtractModIs ==
  ASSUME NEW c \in Curves, NEW p, p = c.prime, NEW a, NEW b, a \in Nat, Partly(p, b)
  PROVE  /\ SubtractMod(a, b, p) \in Nat /\ SubtractMod(a, b, p) >= 1
         /\ Alike(p, SubtractMod(a, b, p), a - b)
         /\ Partly(p, a) => SubtractMod(a, b, p) \in 1 .. (4 * p - 1)
<1>1. PICK d, two, s : d = a - b /\ two = 2 /\ s = SubtractMod(a, b, p)
  OBVIOUS
<1>2. p \in Nat /\ p \in Nat \ {0} /\ b \in Nat /\ b < 2 * p /\ d \in Int /\ two \in Int
  BY <1>1, PartlyIs
<1>3. s = a + 2 * p - b
  BY <1>1 DEF SubtractMod
<1>4. s \in Nat /\ s >= 1 /\ s = d + p * two
  BY <1>1, <1>2, <1>3
<1>5. Alike(p, d + p * two, d)
  BY <1>2, AlikeShifted
<1>6. ASSUME Partly(p, a)  PROVE s \in 1 .. (4 * p - 1)
  <2>1. a < 2 * p
    BY <1>6, PartlyIs
  <2> QED
    BY <1>2, <1>3, <1>4, <2>1
<1> QED
  BY <1>1, <1>4, <1>5, <1>6

LEMMA FastModIs ==
  ASSUME NEW c \in Curves, NEW p, p = c.prime, NEW x, x \in 0 .. (4 * p - 1)
  PROVE  /\ Partly(p, FastMod(x, p)) /\ Alike(p, FastMod(x, p), x)
         /\ x >= 1 => FastMod(x, p) >= 1
<1>1. PICK q, d, f, e : q = 2 ^ NumberBits /\ d = x \div q /\ f = x % q /\ e = FastMod(x, p)
  OBVIOUS
<1>2. p \in Nat /\ p \in Nat \ {0} /\ q \in Nat /\ q \in Nat \ {0} /\ p < q /\ 2 * q <= 3 * p
  <2>1. PICK n : n = c.order
    OBVIOUS
  <2>2. /\ n \in Nat /\ p \in Nat /\ q \in Nat /\ 3 <= n /\ n <= p /\ p < q /\ 2 * q <= 3 * n
    BY <1>1, <2>1, CurveIs
  <2> QED
    BY <2>2
<1>3. x \in Int /\ x \in Nat
  BY <1>2
<1>4. d \in Int /\ f \in 0 .. (q - 1) /\ x = q * d + f
  BY <1>1, <1>2, <1>3, Split
<1>5. e = x - p * d
  <2>1. e = x - d * p
    BY <1>1 DEF FastMod
  <2>2. d * p = p * d
    BY <1>2, <1>4
  <2> QED
    BY <2>1, <2>2
<1>6. d \in 0 .. 3
  <2>1. d >= 0
    <3>1. ASSUME d <= -1  PROVE q * d <= -q
      BY <1>2, <1>4, <3>1
    <3> QED
      BY <1>2, <1>3, <1>4, <3>1
  <2>2. d <= 3
    <3>1. ASSUME d >= 4  PROVE q * d >= 4 * q
      BY <1>2, <1>4, <3>1
    <3> QED
      BY <1>2, <1>3, <1>4, <3>1
  <2> QED
    BY <1>4, <2>1, <2>2
<1>7. e \in 0 .. (2 * p - 1) /\ (x >= 1 => e >= 1)
  <2>1. CASE d = 0
    <3>1. q * d = 0 /\ p * d = 0
      BY <1>2, <2>1
    <3> QED
      BY <1>2, <1>3, <1>4, <1>5, <3>1
  <2>2. CASE d = 1
    <3>1. q * d = q /\ p * d = p
      BY <1>2, <2>2
    <3> QED
      BY <1>2, <1>3, <1>4, <1>5, <3>1
  <2>3. CASE d = 2
    <3>1. q * d = 2 * q /\ p * d = 2 * p
      BY <1>2, <2>3
    <3> QED
      BY <1>2, <1>3, <1>4, <1>5, <3>1
  <2>4. CASE d = 3
    <3>1. q * d = 3 * q /\ p * d = 3 * p
      BY <1>2, <2>4
    <3> QED
      BY <1>2, <1>3, <1>4, <1>5, <3>1
  <2> QED
    BY <1>6, <2>1, <2>2, <2>3, <2>4
<1>8. Alike(p, x - p * d, x)
  BY <1>2, <1>3, <1>4, AlikeShifted
<1> QED
  BY <1>1, <1>5, <1>7, <1>8 DEF Partly

LEMMA MultiplyHalfIs ==
  ASSUME NEW c \in Curves, NEW p, p = c.prime, NEW x, x \in Nat
  PROVE  /\ MultiplyHalf(x, p) \in Nat /\ Alike(p, 2 * MultiplyHalf(x, p), x)
         /\ x < 4 * p => MultiplyHalf(x, p) \in 0 .. (4 * p - 1)
<1>1. PICK h, e, one : h = MultiplyHalf(x, p) /\ one = 1 /\ e = IF x % 2 = 1 THEN x + p ELSE x
  OBVIOUS
<1>2. p \in Nat /\ p \in Nat \ {0} /\ p % 2 = 1 /\ one \in Int
  BY <1>1, PartlyIs
<1>3. e \in Nat /\ e % 2 = 0 /\ (e = x \/ e = x + p)
  BY <1>1, <1>2
<1>4. h = e \div 2
  BY <1>1 DEF MultiplyHalf
<1>5. h \in Nat /\ 2 * h = e
  BY <1>3, <1>4
<1>6. Alike(p, e, x)
  <2>1. Alike(p, x, x)
    BY <1>2, AlikeIs
  <2>2. Alike(p, x + p * one, x)
    BY <1>2, AlikeShifted
  <2>3. x + p * one = x + p
    BY <1>1, <1>2
  <2> QED
    BY <1>3, <2>1, <2>2, <2>3
<1>7. ASSUME x < 4 * p  PROVE h \in 0 .. (4 * p - 1)
  BY <1>2, <1>3, <1>5, <1>7
<1> QED
  BY <1>1, <1>5, <1>6, <1>7
-----------------------------------------------------------------------------
(* The slope, as the group defines it.                                     *)

LEMMA QuotientIs ==
  ASSUME NEW c \in Curves, NEW p, p = c.prime, NEW rise, rise \in Int, NEW run, Unit(p, run),
         NEW l, l = ((rise % p) * FieldInverse(run % p, p)) % p
  PROVE  l \in Int /\ Alike(p, l * run, rise)
<1>1. PICK a, r, i, d : /\ a = rise % p /\ r = run % p /\ i = FieldInverse(r, p) /\ d = a * i
  OBVIOUS
<1>2. p \in Nat /\ p \in Nat \ {0} /\ 3 <= p /\ run \in Int
  BY PartlyIs DEF Unit
<1>3. a \in 0 .. (p - 1) /\ r \in 0 .. (p - 1) /\ a \in Int /\ r \in Int
  <2>1. a \in 0 .. (p - 1) /\ r \in 0 .. (p - 1)
    BY <1>1, <1>2, Split
  <2> QED
    BY <2>1
<1>4. a % p = a /\ r % p = r /\ 0 % p = 0
  BY <1>2, <1>3, SmallRemainder
<1>5. Alike(p, a, rise) /\ Alike(p, run, r)
  BY <1>1, <1>2, <1>3, <1>4 DEF Alike
<1>6. i \in Int /\ (r * i) % p = 1
  <2>1. r # 0
    <3>1. ~Alike(p, run, 0)
      BY <1>2, UnitIs
    <3> QED
      BY <1>1, <1>2, <1>4, <3>1 DEF Alike
  <2>2. r \in 0 .. (2 * p - 1)
    BY <1>2, <1>3
  <2>3. i \in 1 .. (p - 1) /\ (r * i) % p = 1
    BY <1>1, <1>4, <2>1, <2>2, PrimeInverseIs
  <2> QED
    BY <2>3
<1>7. d \in Int /\ l = d % p
  BY <1>1, <1>3, <1>6
<1>8. l \in 0 .. (p - 1) /\ l \in Int
  <2>1. l \in 0 .. (p - 1)
    BY <1>2, <1>7, Split
  <2> QED
    BY <2>1
<1>9. Alike(p, l, d)
  <2>1. l % p = l
    BY <1>2, <1>8, SmallRemainder
  <2> QED
    BY <1>7, <1>8, <2>1 DEF Alike
<1>10. Alike(p, l * run, d * r)
  BY <1>2, <1>5, <1>9, AlikeProduct
<1>11. PICK e, one : e = r * i /\ one = 1
  OBVIOUS
<1>12. e \in Int /\ one \in Int /\ 1 % p = 1
  BY <1>2, <1>3, <1>6, <1>11
<1>13. Alike(p, e, one)
  BY <1>6, <1>11, <1>12 DEF Alike
<1>14. Alike(p, e * a, one * rise)
  BY <1>2, <1>5, <1>13, AlikeProduct
<1>15. d * r = e * a /\ one * rise = rise
  BY <1>1, <1>3, <1>6, <1>11
<1> QED
  BY <1>2, <1>8, <1>10, <1>14, <1>15, AlikeIs

\* Of the keys with the same x there are two, whose sum is the order.
LEMMA SameX ==
  ASSUME NEW c \in Curves, IsGroup(c), NEW j \in KeysOf(c), NEW k \in KeysOf(c),
         Times(c, j).x = Times(c, k).x
  PROVE  j = k \/ j + k = c.order
<1>1. PICK g, h, o, p, n, i : /\ g = Times(c, j) /\ h = Times(c, k) /\ n = c.order /\ i = n - k
                              /\ o = Times(c, i) /\ p = c.prime
  OBVIOUS
<1>2. /\ i \in KeysOf(c) /\ h.y # 0 /\ o.x = h.x /\ o.y = p - h.y
      /\ h.y \in 0 .. (p - 1) /\ g.y \in 0 .. (p - 1)
  BY <1>1, OppositeIs DEF IsResidues
<1>3. n \in Nat /\ j \in Nat /\ k \in Nat /\ j \in ResiduesOf(c) /\ k \in ResiduesOf(c)
      /\ i \in ResiduesOf(c)
  BY <1>1, <1>2, ResiduesAre
<1>4. p \in Nat /\ p % 2 = 1
  BY <1>1, CurveIs
<1>5. /\ ReadPubkey(c, PublicKey33(c, j)) = g /\ ReadPubkey(c, PublicKey33(c, k)) = h
      /\ ReadPubkey(c, PublicKey33(c, i)) = o
  BY <1>1, <1>2, GroupIs
<1>6. /\ PublicKey33(c, j) = [form |-> 2 + (g.y % 2), x |-> g.x, y |-> 0]
      /\ PublicKey33(c, k) = [form |-> 2 + (h.y % 2), x |-> h.x, y |-> 0]
      /\ PublicKey33(c, i) = [form |-> 2 + (o.y % 2), x |-> o.x, y |-> 0]
  BY <1>1 DEF PublicKey33, Times
<1>7. g.y % 2 = h.y % 2 \/ g.y % 2 = o.y % 2
  BY <1>2, <1>4
<1>8. CASE g.y % 2 = h.y % 2
  <2>1. g = h
    BY <1>1, <1>5, <1>6, <1>8
  <2> QED
    BY <1>1, <1>3, <2>1, TimesDiffer
<1>9. CASE g.y % 2 = o.y % 2
  <2>1. g = o
    BY <1>1, <1>2, <1>5, <1>6, <1>9
  <2>2. j = i
    BY <1>1, <1>3, <2>1, TimesDiffer
  <2> QED
    BY <1>1, <1>3, <2>2
<1> QED
  BY <1>7, <1>8, <1>9

LEMMA AlikeRemainder ==
  ASSUME NEW p \in Nat \ {0}, NEW a, a \in Int
  PROVE  Alike(p, a % p, a)
<1>1. PICK r : r = a % p
  OBVIOUS
<1>2. r \in 0 .. (p - 1)
  BY <1>1, Split
<1>3. r \in Int /\ r % p = r
  BY <1>2, SmallRemainder
<1> QED
  BY <1>1, <1>3 DEF Alike

\* Of two residues, one is alike the other only if it is the other.
LEMMA UnitDifference ==
  ASSUME NEW c \in Curves, NEW p, p = c.prime, NEW a, NEW b, a \in 0 .. (p - 1), b \in 0 .. (p - 1),
         a # b
  PROVE  Unit(p, a - b)
<1>1. PICK d : d = a - b
  OBVIOUS
<1>2. p \in Nat \ {0} /\ a \in Int /\ b \in Int
  BY PartlyIs
<1>3. d \in Int /\ d + b = a /\ 0 + b = b /\ a % p = a /\ b % p = b
  BY <1>1, <1>2, SmallRemainder
<1>4. ASSUME Alike(p, d, 0)  PROVE FALSE
  <2>1. Alike(p, b, b)
    BY <1>2, AlikeIs
  <2>2. Alike(p, d + b, 0 + b)
    BY <1>2, <1>4, <2>1, AlikeSum
  <2> QED
    BY <1>3, <2>2 DEF Alike
<1> QED
  BY <1>1, <1>3, <1>4, UnitIs

LEMMA UnitTwice ==
  ASSUME NEW c \in Curves, NEW p, p = c.prime, NEW a, a \in 1 .. (p - 1)
  PROVE  Unit(p, 2 * a)
<1>1. p \in Nat \ {0} /\ 3 <= p /\ 2 <= p /\ p \in Nat
  BY PartlyIs
<1>0. PICK two : two = 2
  OBVIOUS
<1>2. two \in 0 .. (p - 1) /\ 0 \in 0 .. (p - 1) /\ a \in 0 .. (p - 1) /\ a # 0 /\ a \in Int
      /\ two # 0
  BY <1>1, <1>0
<1>3. Unit(p, two - 0) /\ Unit(p, a - 0)
  BY <1>2, UnitDifference
<1>4. Unit(p, two) /\ Unit(p, a)
  BY <1>2, <1>3, <1>0
<1> QED
  BY <1>1, <1>4, <1>0, UnitProduct

LEMMA SlopeIs ==
  ASSUME NEW c \in Curves, IsGroup(c), NEW p, p = c.prime, NEW j \in KeysOf(c), NEW k \in KeysOf(c),
         NEW i, i = (j + k) % c.order, i # 0,
         NEW g, g = Times(c, j), NEW h, h = Times(c, k), NEW s, s = Times(c, i)
  PROVE  \E l :
            /\ ThirdOnLine(p, l, g.x, g.y, h.x, h.y, s.x, s.y)
            /\ g.x = h.x => /\ g = h /\ Unit(p, 2 * g.y)
                            /\ Alike(p, l * (2 * g.y), 3 * (g.x * g.x) + c.a)
            /\ g.x # h.x => /\ Unit(p, h.x - g.x)
                            /\ Alike(p, l * (h.x - g.x), h.y - g.y)
<1>1. PICK x1, y1, x2, y2 : x1 = g.x /\ y1 = g.y /\ x2 = h.x /\ y2 = h.y
  OBVIOUS
<1>2. p \in Nat \ {0} /\ p \in Nat /\ c.a \in Int
  BY PartlyIs, CurveIs
<1>3. /\ x1 \in 0 .. (p - 1) /\ y1 \in 0 .. (p - 1) /\ y1 # 0 /\ g # Infinity
      /\ x2 \in 0 .. (p - 1) /\ y2 \in 0 .. (p - 1) /\ y2 # 0 /\ h # Infinity
  BY <1>1, OppositeIs, PointIs DEF IsResidues
<1>4. x1 \in Int /\ y1 \in Int /\ x2 \in Int /\ y2 \in Int /\ y1 \in 1 .. (p - 1)
  BY <1>2, <1>3
<1>5. ASSUME x1 = x2  PROVE g = h
  <2>1. j = k \/ j + k = c.order
    BY <1>1, <1>5, SameX
  <2>2. PICK n : n = c.order
    OBVIOUS
  <2>3. n \in Nat \ {0}
    BY <2>2, ResiduesAre
  <2>4. n % n = 0
    BY <2>3
  <2> QED
    BY <2>1, <2>2, <2>4
<1>6. PICK rise, run, l :
        /\ rise = (IF g = h THEN 3 * x1 * x1 + c.a ELSE y2 - y1)
        /\ run = (IF g = h THEN 2 * y1 ELSE x2 - x1)
        /\ l = ((rise % p) * FieldInverse(run % p, p)) % p
  OBVIOUS
<1>7. g = h <=> x1 = x2
  BY <1>1, <1>5
<1>8. rise \in Int /\ Unit(p, run)
  <2>1. CASE g = h
    <3>1. Unit(p, 2 * y1)
      BY <1>4, UnitTwice
    <3>2. 3 * x1 * x1 + c.a \in Int
      BY <1>2, <1>4
    <3> QED
      BY <1>6, <2>1, <3>1, <3>2
  <2>2. CASE g # h
    <3>1. Unit(p, x2 - x1)
      BY <1>3, <1>7, <2>2, UnitDifference
    <3>2. y2 - y1 \in Int
      BY <1>4
    <3> QED
      BY <1>6, <2>2, <3>1, <3>2
  <2> QED
    BY <2>1, <2>2
<1>9. l \in Int /\ Alike(p, l * run, rise)
  BY <1>6, <1>8, QuotientIs
<1>10. ~ (x1 = x2 /\ (y1 + y2) % p = 0)
  <2>1. SUFFICES ASSUME x1 = x2, (y1 + y2) % p = 0  PROVE FALSE
    OBVIOUS
  <2>2. y1 = y2 /\ Unit(p, 2 * y1)
    BY <1>1, <1>4, <1>5, <2>1, UnitTwice
  <2>3. y1 + y2 = 2 * y1 /\ 2 * y1 \in Int /\ 0 % p = 0
    BY <1>2, <1>4, <2>2
  <2>4. Alike(p, 2 * y1, 0)
    BY <2>1, <2>3 DEF Alike
  <2> QED
    BY <2>2, <2>3, <2>4, UnitIs
<1>11. s = TextThird(p, g, h, l)
  <2>1. TextSum(c, g, h) = s
    <3>1. j \in ResiduesOf(c) /\ k \in ResiduesOf(c)
      BY ResiduesAre
    <3> QED
      BY <3>1, GroupIs
  <2>2. TextSum(c, g, h) = TextThird(p, g, h, l)
    BY <1>1, <1>3, <1>6, <1>10 DEF TextSum
  <2> QED
    BY <2>1, <2>2
<1>12. PICK ll, e, x3, y3 : ll = l * l /\ e = ll - x1 - x2 /\ x3 = s.x /\ y3 = s.y
  OBVIOUS
<1>13. x3 = e % p /\ y3 = (l * (x1 - x3) - y1) % p
  <2>1. s = [x |-> e % p, y |-> (l * (x1 - (e % p)) - y1) % p]
    BY <1>1, <1>11, <1>12 DEF TextThird
  <2> QED
    BY <1>12, <2>1
<1>14. ll \in Int /\ e \in Int /\ e = ll - (x1 + x2)
  BY <1>4, <1>9, <1>12
<1>15. Alike(p, x3, ll - (x1 + x2)) /\ x3 \in Int
  <2>1. Alike(p, e % p, e)
    BY <1>2, <1>14, AlikeRemainder
  <2>2. Alike(p, x3, ll - (x1 + x2))
    BY <1>13, <1>14, <2>1
  <2>3. x3 \in Int
    BY <1>2, <2>2, AlikeIs
  <2> QED
    BY <2>2, <2>3
<1>16. Alike(p, y3, l * (x1 - x3) - y1)
  <2>1. PICK d : d = l * (x1 - x3) - y1
    OBVIOUS
  <2>2. d \in Int
    BY <1>4, <1>9, <1>15, <2>1
  <2> QED
    BY <1>2, <1>13, <2>1, <2>2, AlikeRemainder
<1>17. Alike(p, y3, l * (x2 - x3) - y2)
  <2>1. CASE g = h
    BY <1>1, <1>16, <2>1
  <2>2. CASE g # h
    <3>1. Alike(p, l * (x2 - x1), y2 - y1)
      BY <1>6, <1>9, <2>2
    <3>2. PICK f, z : f = l * (x2 - x1) - (y2 - y1) /\ z = (y2 - y1) - (y2 - y1)
      OBVIOUS
    <3>3. y2 - y1 \in Int /\ z = 0
      BY <1>4, <3>2
    <3>4. Alike(p, y2 - y1, y2 - y1)
      BY <1>2, <3>3, AlikeIs
    <3>5. Alike(p, z, f)
      BY <1>2, <3>1, <3>2, <3>4, AlikeDifference, AlikeIs
    <3>6. Alike(p, y3 + z, (l * (x1 - x3) - y1) + f)
      BY <1>2, <1>16, <3>5, AlikeSum
    <3>7. (l * (x1 - x3) - y1) + f = l * (x2 - x3) - y2
      BY <1>4, <1>9, <1>15, <3>2
    <3>8. y3 + z = y3
      BY <1>2, <1>16, <3>3, AlikeIs
    <3> QED
      BY <3>6, <3>7, <3>8
  <2> QED
    BY <2>1, <2>2
<1>18. ThirdOnLine(p, l, x1, y1, x2, y2, x3, y3)
  BY <1>4, <1>9, <1>12, <1>15, <1>16, <1>17 DEF ThirdOnLine
<1>19. ASSUME x1 = x2
       PROVE  g = h /\ Unit(p, 2 * y1) /\ Alike(p, l * (2 * y1), 3 * (x1 * x1) + c.a)
  <2>1. 3 * x1 * x1 = 3 * (x1 * x1)
    BY <1>4
  <2> QED
    BY <1>6, <1>7, <1>8, <1>9, <1>19, <2>1
<1>20. ASSUME x1 # x2  PROVE Unit(p, x2 - x1) /\ Alike(p, l * (x2 - x1), y2 - y1)
  BY <1>6, <1>7, <1>8, <1>9, <1>20
<1> QED
  BY <1>1, <1>12, <1>18, <1>19, <1>20
-----------------------------------------------------------------------------
(* point_jacobian_add                                                      *)

\* The partly reduced coordinates of a point, with the scale z.
OnScale(p, h, X, Y, z) ==
  /\ Partly(p, X) /\ Partly(p, Y) /\ Partly(p, z) /\ Unit(p, z)
  /\ Alike(p, X, h.x * (z * z)) /\ Alike(p, Y, h.y * ((z * z) * z))
  /\ h.x \in 0 .. (p - 1) /\ h.y \in 0 .. (p - 1)

LEMMA ScaleIs ==
  ASSUME ProductsAreReduced(Nat), NEW c \in Curves, IsGroup(c), NEW p, p = c.prime,
         NEW k \in KeysOf(c), NEW jp, StandsFor(c, jp, k), NEW h, h = Times(c, k)
  PROVE  /\ jp = [x |-> jp.x, y |-> jp.y, z |-> jp.z]
         /\ OnScale(p, h, jp.x, jp.y, jp.z)
<1>1. PICK X, Y, z, a, b : /\ X = jp.x /\ Y = jp.y /\ z = jp.z /\ a = h.x * (z * z)
                           /\ b = h.y * ((z * z) * z)
  OBVIOUS
<1>2. p \in Nat \ {0} /\ p \in Nat
  BY PartlyIs
<1>3. /\ jp = [x |-> X, y |-> Y, z |-> z]
      /\ X \in 0 .. (2 * p - 1) /\ Y \in 1 .. (2 * p - 1) /\ z \in 1 .. (2 * p - 1) /\ z % p # 0
      /\ X % p = a % p /\ Y % p = b % p
  BY <1>1, CoordinatesAre DEF OnRay
<1>4. h.x \in 0 .. (p - 1) /\ h.y \in 0 .. (p - 1)
  BY OppositeIs DEF IsResidues
<1>5. X \in Int /\ Y \in Int /\ z \in Int /\ a \in Int /\ b \in Int /\ Y \in 0 .. (2 * p - 1)
      /\ z \in 0 .. (2 * p - 1) /\ 0 % p = 0
  BY <1>1, <1>2, <1>3, <1>4
<1>6. Alike(p, X, a) /\ Alike(p, Y, b)
  BY <1>3, <1>5 DEF Alike
<1>7. Unit(p, z)
  <2>1. ~Alike(p, z, 0)
    BY <1>3, <1>5 DEF Alike
  <2> QED
    BY <1>5, <2>1, UnitIs
<1> QED
  BY <1>1, <1>3, <1>4, <1>5, <1>6, <1>7 DEF OnScale, Partly

\* And back: what has the scale stands for the point.
LEMMA ScaleStands ==
  ASSUME ProductsAreReduced(Nat), NEW c \in Curves, IsGroup(c), NEW p, p = c.prime,
         NEW k \in KeysOf(c), NEW X, NEW Y, NEW z, OnScale(p, Times(c, k), X, Y, z)
  PROVE  StandsFor(c, [x |-> X, y |-> Y, z |-> z], k)
<1>1. PICK jp, h, a, b : /\ jp = [x |-> X, y |-> Y, z |-> z] /\ h = Times(c, k)
                         /\ a = h.x * (z * z) /\ b = h.y * ((z * z) * z)
  OBVIOUS
<1>2. p \in Nat \ {0} /\ p \in Nat /\ 0 % p = 0
  BY PartlyIs
<1>3. jp.x = X /\ jp.y = Y /\ jp.z = z /\ jp = [x |-> jp.x, y |-> jp.y, z |-> jp.z]
  BY <1>1
<1>4. X \in 0 .. (2 * p - 1) /\ Y \in 0 .. (2 * p - 1) /\ z \in 0 .. (2 * p - 1)
  BY DEF OnScale, Partly
<1>5. X % p = a % p /\ Y % p = b % p
  <2>1. Alike(p, X, a) /\ Alike(p, Y, b)
    BY <1>1 DEF OnScale
  <2> QED
    BY <2>1 DEF Alike
<1>6. z % p # 0
  <2>1. z \in Int /\ Unit(p, z)
    BY <1>2, <1>4 DEF OnScale
  <2>2. ~Alike(p, z, 0)
    BY <2>1, UnitIs
  <2> QED
    BY <1>2, <2>1, <2>2 DEF Alike
<1>7. OnRay(h, jp, p)
  BY <1>1, <1>3, <1>5 DEF OnRay
<1> QED
  BY <1>1, <1>3, <1>4, <1>6, <1>7, StandsWhen

LEMMA UnitAlike ==
  ASSUME NEW c \in Curves, NEW p, p = c.prime, NEW a, NEW b, Alike(p, a, b), Unit(p, b)
  PROVE  Unit(p, a)
<1>1. p \in Nat \ {0}
  BY PartlyIs
<1>2. a \in Int /\ b \in Int /\ Alike(p, b, a)
  BY <1>1, AlikeIs
<1>3. ~Alike(p, b, 0)
  BY <1>2, UnitIs
<1>4. ~Alike(p, a, 0)
  BY <1>1, <1>2, <1>3, AlikeIs
<1> QED
  BY <1>2, <1>4, UnitIs

\* What the difference h is taken of: x on the scale z, and the x of a sum so far.
Difference(c, p, h, X, Y, z, x, xz, d) ==
    /\ c \in Curves /\ p = c.prime
    /\ OnScale(p, h, X, Y, z) /\ x \in 0 .. (p - 1)
    /\ Partly(p, xz) /\ Alike(p, xz, x * (z * z))
    /\ d = FastMod(SubtractMod(xz, X, p), p)

\* h is left at the prime exactly when the points have the same x.
LEMMA SameXIs ==
  ASSUME ProductsAreReduced(Nat), NEW c, NEW p, NEW h, NEW X, NEW Y, NEW z, NEW x, NEW xz, NEW d,
         Difference(c, p, h, X, Y, z, x, xz, d)
  PROVE  /\ d \in Nat /\ Alike(p, d, (x - h.x) * (z * z))
         /\ d = p <=> x = h.x
         /\ Unit(p, z * z)
<1> USE DEF Difference
<1>1. PICK zz, y, e, m : zz = z * z /\ y = h.x /\ e = SubtractMod(xz, X, p) /\ m = x - y
  OBVIOUS
<1>2. /\ Partly(p, X) /\ Unit(p, z) /\ Alike(p, X, y * zz) /\ y \in 0 .. (p - 1)
      /\ Alike(p, xz, x * zz)
  BY <1>1 DEF OnScale
<1>3. p \in Nat \ {0} /\ p \in Nat /\ 3 <= p /\ 2 <= p /\ xz \in Nat
  BY PartlyIs
<1>4. x \in Int /\ y \in Int /\ z \in Int /\ zz \in Int /\ m \in Int
  BY <1>1, <1>2, <1>3 DEF Unit
<1>5. Unit(p, zz)
  BY <1>1, <1>2, <1>3, UnitProduct
<1>6. e \in 1 .. (4 * p - 1) /\ Alike(p, e, xz - X)
  BY <1>1, <1>2, <1>3, SubtractModIs
<1>7. Partly(p, d) /\ Alike(p, d, e) /\ d >= 1
  <2>1. e \in 0 .. (4 * p - 1) /\ e >= 1
    BY <1>3, <1>6
  <2> QED
    BY <1>1, <2>1, FastModIs
<1>8. Alike(p, d, m * zz)
  <2>1. Alike(p, xz - X, x * zz - y * zz)
    BY <1>2, <1>3, AlikeDifference
  <2>2. x * zz - y * zz = m * zz
    BY <1>1, <1>4
  <2> QED
    BY <1>3, <1>6, <1>7, <2>1, <2>2, AlikeIs
<1>9. d \in Nat /\ d < 2 * p /\ d \in Int
  BY <1>7, PartlyIs
<1>10. Alike(p, d, 0) <=> d = p
  <2>1. 0 % p = 0 /\ p % p = 0
    BY <1>3
  <2>2. ASSUME d % p = 0  PROVE d = p
    <3>1. CASE d < p
      <4>1. d \in 0 .. (p - 1)
        BY <1>3, <1>9, <3>1
      <4> QED
        BY <1>3, <1>7, <2>2, <4>1, SmallRemainder
    <3>2. CASE d > p
      <4>1. d = p * 1 + (d - p) /\ d - p \in 0 .. (p - 1)
        BY <1>3, <1>9, <3>2
      <4>2. d % p = d - p
        BY <1>3, <1>9, <4>1, Divided
      <4> QED
        BY <1>3, <1>9, <2>2, <3>2, <4>2
    <3> QED
      BY <1>3, <1>9, <3>1, <3>2
  <2> QED
    BY <1>9, <2>1, <2>2 DEF Alike
<1>11. ASSUME x = y  PROVE Alike(p, d, 0)
  <2>1. m * zz = 0
    BY <1>1, <1>4, <1>11
  <2> QED
    BY <1>8, <2>1
<1>12. ASSUME x # y  PROVE ~Alike(p, d, 0)
  <2>1. Unit(p, m)
    BY <1>1, <1>2, <1>12, UnitDifference
  <2>2. Unit(p, m * zz)
    BY <1>3, <1>5, <2>1, UnitProduct
  <2>3. Unit(p, d)
    BY <1>8, <2>2, UnitAlike
  <2> QED
    BY <1>9, <2>3, UnitIs
<1> QED
  BY <1>1, <1>5, <1>8, <1>9, <1>10, <1>11, <1>12

\* Two points with different x, l the slope of their line, and what the code has of them.
ChordGiven(c, p, l, x1, y1, x2, y2, z, d, Y, yz, r) ==
    /\ c \in Curves /\ p = c.prime /\ l \in Int
    /\ x1 \in Int /\ y1 \in Int /\ x2 \in Int /\ y2 \in Int /\ z \in Int /\ Unit(p, z * z)
    /\ Unit(p, x2 - x1) /\ Alike(p, l * (x2 - x1), y2 - y1)
    /\ x1 \in 0 .. (p - 1) /\ x2 \in 0 .. (p - 1)
    /\ Alike(p, d, (x1 - x2) * (z * z))
    /\ Partly(p, Y) /\ Alike(p, Y, y2 * ((z * z) * z))
    /\ yz \in Nat /\ Alike(p, yz, y1 * ((z * z) * z))
    /\ r = SubtractMod(yz, Y, p)

\* r and h of a chord: r is the slope on the scale h * z.
LEMMA ChordScale ==
  ASSUME NEW c, NEW p, NEW l, NEW x1, NEW y1, NEW x2, NEW y2, NEW z, NEW d, NEW Y, NEW yz, NEW r,
         ChordGiven(c, p, l, x1, y1, x2, y2, z, d, Y, yz, r)
  PROVE  r \in Nat /\ Unit(p, d) /\ Alike(p, r, l * (d * z))
<1> USE DEF ChordGiven
<1>1. PICK zz, t, m, n : zz = z * z /\ t = zz * z /\ m = x1 - x2 /\ n = y1 - y2
  OBVIOUS
<1>2. p \in Nat \ {0} /\ p \in Nat /\ 3 <= p /\ 2 <= p
  BY PartlyIs
<1>3. zz \in Int /\ t \in Int /\ m \in Int /\ n \in Int
  BY <1>1
<1>4. Unit(p, d)
  <2>1. x1 # x2
    <3>1. 0 % p = 0
      BY <1>2
    <3>2. ASSUME x1 = x2  PROVE x2 - x1 = 0
      BY <3>2
    <3>3. 0 \in Int /\ Alike(p, 0, 0)
      BY <1>2, AlikeIs
    <3> QED
      BY <3>2, <3>3, UnitIs
  <2>2. Unit(p, m)
    BY <1>1, <2>1, UnitDifference
  <2>3. Unit(p, m * zz)
    BY <1>1, <1>2, <2>2, UnitProduct
  <2> QED
    BY <1>1, <2>3, UnitAlike
<1>5. r \in Nat /\ Alike(p, r, n * t)
  <2>1. r \in Nat /\ Alike(p, r, yz - Y)
    BY SubtractModIs
  <2>2. Alike(p, yz - Y, y1 * t - y2 * t)
    BY <1>1, <1>2, AlikeDifference
  <2>3. y1 * t - y2 * t = n * t
    BY <1>1, <1>3
  <2> QED
    BY <1>2, <2>1, <2>2, <2>3, AlikeIs
<1>6. Alike(p, l * m, n)
  <2>1. Alike(p, 0, 0)
    BY <1>2, AlikeIs
  <2>2. Alike(p, 0 - l * (x2 - x1), 0 - (y2 - y1))
    BY <1>2, <2>1, AlikeDifference
  <2>3. 0 - l * (x2 - x1) = l * m /\ 0 - (y2 - y1) = n
    BY <1>1
  <2> QED
    BY <2>2, <2>3
<1>7. Alike(p, l * (d * z), (l * m) * t)
  <2>1. Alike(p, z, z) /\ Alike(p, l, l)
    BY <1>2, AlikeIs
  <2>2. Alike(p, d * z, (m * zz) * z)
    BY <1>1, <1>2, <2>1, AlikeProduct
  <2>3. Alike(p, l * (d * z), l * ((m * zz) * z))
    BY <1>2, <2>1, <2>2, AlikeProduct
  <2>4. l * ((m * zz) * z) = (l * m) * (zz * z)
    BY <1>3
  <2> QED
    BY <1>1, <2>3, <2>4
<1>8. Alike(p, (l * m) * t, n * t)
  <2>1. Alike(p, t, t)
    BY <1>2, <1>3, AlikeIs
  <2> QED
    BY <1>2, <1>6, <2>1, AlikeProduct
<1> QED
  BY <1>2, <1>4, <1>5, <1>7, <1>8, AlikeIs

\* The numerator of a tangent's slope, on the fourth power of z.
LEMMA RiseScale ==
  ASSUME ProductsAreReduced(Nat), NEW c \in Curves, NEW p, p = c.prime,
         NEW h, NEW X, NEW Y, NEW z, OnScale(p, h, X, Y, z),
         NEW az, az = MultiplyK(Square(Square(z, p), p), -c.a, p),
         NEW tangent, tangent = MultiplyK(Square(X, p), 3, p),
         NEW f, f = (z * z) * (z * z), NEW a, a = c.a, NEW b, b = 3 * (h.x * h.x) + a
  PROVE  /\ Partly(p, tangent) /\ Partly(p, az) /\ Alike(p, tangent - az, b * f)
         /\ a = 0 => Alike(p, tangent, b * f)
<1>1. PICK x, zz : x = h.x /\ zz = z * z
  OBVIOUS
<1>2. p \in Nat \ {0} /\ p \in Nat /\ 3 <= p /\ 2 <= p
  BY PartlyIs
<1>3. /\ Partly(p, X) /\ Partly(p, z) /\ Alike(p, X, x * zz) /\ x \in 0 .. (p - 1)
  BY <1>1 DEF OnScale
<1>4. X \in Nat /\ z \in Nat
  BY <1>3, PartlyIs
<1>5. x \in Int /\ zz \in Int /\ f \in Int /\ a \in Int /\ -a \in Nat /\ f = zz * zz
  <2>1. x \in Int
    BY <1>2, <1>3
  <2>2. a \in Int /\ -a \in Nat
    BY CurveIs
  <2> QED
    BY <1>1, <1>4, <2>1, <2>2
<1>6. Partly(p, tangent) /\ Alike(p, tangent, (3 * (x * x)) * f)
  <2>1. PICK s : s = Square(X, p)
    OBVIOUS
  <2>2. Partly(p, s) /\ Alike(p, s, X * X)
    BY <1>4, <2>1, MultiplyIs
  <2>3. s \in Nat
    BY <2>2, PartlyIs
  <2>4. Partly(p, MultiplyK(s, 3, p)) /\ Alike(p, MultiplyK(s, 3, p), s * 3)
    BY <2>3, MultiplyIs
  <2>5. Alike(p, X * X, (x * zz) * (x * zz))
    BY <1>2, <1>3, AlikeProduct
  <2>6. Alike(p, s, (x * zz) * (x * zz)) /\ Alike(p, 3, 3)
    BY <1>2, <2>2, <2>5, AlikeIs
  <2>7. Alike(p, s * 3, ((x * zz) * (x * zz)) * 3)
    BY <1>2, <2>6, AlikeProduct
  <2>8. ((x * zz) * (x * zz)) * 3 = (3 * (x * x)) * (zz * zz)
    BY <1>5
  <2> QED
    BY <1>1, <1>2, <1>5, <2>1, <2>4, <2>7, <2>8, AlikeIs
<1>7. Partly(p, az) /\ Alike(p, az, f * (-a))
  <2>1. PICK s, q, e : s = Square(z, p) /\ q = Square(s, p) /\ e = -a
    OBVIOUS
  <2>2. e \in Nat /\ az = MultiplyK(q, e, p)
    BY <1>1, <1>5, <2>1
  <2>3. Partly(p, s) /\ Alike(p, s, zz)
    BY <1>1, <1>4, <2>1, MultiplyIs
  <2>4. s \in Nat
    BY <2>3, PartlyIs
  <2>5. Partly(p, q) /\ Alike(p, q, s * s)
    BY <2>1, <2>4, MultiplyIs
  <2>6. q \in Nat
    BY <2>5, PartlyIs
  <2>7. Partly(p, az) /\ Alike(p, az, q * e)
    BY <2>2, <2>6, MultiplyIs
  <2>8. Alike(p, s * s, f)
    BY <1>1, <1>2, <1>5, <2>3, AlikeProduct
  <2>9. Alike(p, q, f) /\ Alike(p, e, e)
    BY <1>2, <2>2, <2>5, <2>8, AlikeIs
  <2>10. Alike(p, q * e, f * e)
    BY <1>2, <2>9, AlikeProduct
  <2> QED
    BY <1>2, <2>1, <2>7, <2>10, AlikeIs
<1>8. Alike(p, tangent - az, b * f)
  <2>1. PICK q : q = 3 * (x * x)
    OBVIOUS
  <2>2. q \in Int /\ b = q + a
    BY <1>1, <1>5, <2>1
  <2>3. Alike(p, tangent - az, q * f - f * (-a))
    BY <1>2, <1>6, <1>7, <2>1, AlikeDifference
  <2>4. q * f - f * (-a) = (q + a) * f
    BY <1>5, <2>2
  <2> QED
    BY <2>2, <2>3, <2>4
<1>9. ASSUME a = 0  PROVE Alike(p, tangent, b * f)
  <2>1. b = 3 * (x * x)
    BY <1>1, <1>5, <1>9
  <2> QED
    BY <1>6, <2>1
<1> QED
  BY <1>6, <1>7, <1>8, <1>9

\* The same for a point and itself.
TangentGiven(c, p, l, h, X, Y, z, yz, d, az, tangent, r) ==
    /\ c \in Curves /\ p = c.prime /\ l \in Int
    /\ OnScale(p, h, X, Y, z) /\ Unit(p, 2 * h.y)
    /\ Alike(p, l * (2 * h.y), 3 * (h.x * h.x) + c.a)
    /\ yz \in Nat /\ Alike(p, yz, h.y * ((z * z) * z)) /\ d = yz + Y
    /\ az = MultiplyK(Square(Square(z, p), p), -c.a, p)
    /\ tangent = MultiplyK(Square(X, p), 3, p)
    /\ r = IF c.a # 0 THEN SubtractMod(tangent, az, p) ELSE tangent

LEMMA TangentScale ==
  ASSUME ProductsAreReduced(Nat),
         NEW c, NEW p, NEW l, NEW h, NEW X, NEW Y, NEW z, NEW yz, NEW d, NEW az, NEW tangent, NEW r,
         TangentGiven(c, p, l, h, X, Y, z, yz, d, az, tangent, r)
  PROVE  d \in Nat /\ r \in Nat /\ Unit(p, d) /\ Alike(p, r, l * (d * z))
<1> USE DEF TangentGiven
<1>1. PICK x, y, zz, t, f, a, b, k :
        /\ x = h.x /\ y = h.y /\ zz = z * z /\ t = zz * z /\ f = zz * zz /\ a = c.a
        /\ b = 3 * (x * x) + a /\ k = 2 * y
  OBVIOUS
<1>2. p \in Nat \ {0} /\ p \in Nat /\ 3 <= p /\ 2 <= p
  BY PartlyIs
<1>3. /\ Partly(p, X) /\ Partly(p, Y) /\ Partly(p, z) /\ Unit(p, z)
      /\ Alike(p, X, x * zz) /\ Alike(p, Y, y * t) /\ x \in 0 .. (p - 1) /\ y \in 0 .. (p - 1)
  BY <1>1 DEF OnScale
<1>4. X \in Nat /\ Y \in Nat /\ z \in Nat
  BY <1>3, PartlyIs
<1>5. x \in Int /\ y \in Int /\ zz \in Int /\ t \in Int /\ f \in Int /\ a \in Int /\ -a \in Nat
      /\ b \in Int /\ k \in Int
  <2>1. x \in Int /\ y \in Int
    BY <1>2, <1>3
  <2>2. a \in Int /\ -a \in Nat
    BY <1>1, CurveIs
  <2> QED
    BY <1>1, <1>4, <2>1, <2>2
<1>6. d \in Nat /\ Alike(p, d, k * t)
  <2>1. Alike(p, d, y * t + y * t)
    BY <1>1, <1>2, <1>3, AlikeSum
  <2>2. y * t + y * t = k * t
    BY <1>1, <1>5
  <2> QED
    BY <1>4, <2>1, <2>2
<1>7. Unit(p, d)
  <2>1. Unit(p, t)
    BY <1>1, <1>2, <1>3, UnitProduct
  <2>2. Unit(p, k * t)
    BY <1>1, <1>2, <2>1, UnitProduct
  <2> QED
    BY <1>6, <2>2, UnitAlike
<1>8. /\ Partly(p, tangent) /\ Partly(p, az) /\ Alike(p, tangent - az, b * f)
      /\ a = 0 => Alike(p, tangent, b * f)
  <2>1. b = 3 * (h.x * h.x) + a /\ a = c.a /\ f = (z * z) * (z * z) /\ p = c.prime
    BY <1>1
  <2>2. /\ az = MultiplyK(Square(Square(z, p), p), -c.a, p)
        /\ tangent = MultiplyK(Square(X, p), 3, p)
    OBVIOUS
  <2> QED
    BY <2>1, <2>2, RiseScale
<1>10. r \in Nat /\ Alike(p, r, b * f)
  <2>1. tangent \in Nat
    BY <1>8, PartlyIs
  <2>2. CASE a = 0
    BY <1>1, <1>8, <2>1, <2>2
  <2>3. CASE a # 0
    <3>1. r = SubtractMod(tangent, az, p)
      BY <1>1, <2>3
    <3>2. r \in Nat /\ Alike(p, r, tangent - az)
      BY <1>8, <2>1, <3>1, SubtractModIs
    <3> QED
      BY <1>2, <1>8, <3>2, AlikeIs
  <2> QED
    BY <2>2, <2>3
<1>11. Alike(p, l * (d * z), (l * k) * f)
  <2>1. Alike(p, z, z) /\ Alike(p, l, l)
    BY <1>2, <1>4, AlikeIs
  <2>2. Alike(p, d * z, (k * t) * z)
    BY <1>2, <1>6, <2>1, AlikeProduct
  <2>3. Alike(p, l * (d * z), l * ((k * t) * z))
    BY <1>2, <2>1, <2>2, AlikeProduct
  <2>4. l * ((k * (zz * z)) * z) = (l * k) * (zz * (z * z))
    BY <1>4, <1>5
  <2> QED
    BY <1>1, <2>3, <2>4
<1>12. Alike(p, (l * k) * f, b * f)
  <2>1. Alike(p, f, f) /\ Alike(p, l * k, b)
    BY <1>1, <1>2, <1>5, AlikeIs
  <2> QED
    BY <1>2, <2>1, AlikeProduct
<1> QED
  BY <1>2, <1>6, <1>7, <1>10, <1>11, <1>12, AlikeIs

\* The scale may be reduced, too.
LEMMA ScaleKept ==
  ASSUME NEW c \in Curves, NEW p, p = c.prime, NEW s, s.x \in 0 .. (p - 1), s.y \in 0 .. (p - 1),
         NEW u, Unit(p, u), NEW w, w = u * u, NEW v, v = w * u,
         NEW X, Partly(p, X), Alike(p, X, s.x * w),
         NEW Y, Partly(p, Y), NEW half, Alike(p, Y, half), Alike(p, half, s.y * v),
         NEW z, Partly(p, z), Alike(p, z, u)
  PROVE  OnScale(p, s, X, Y, z)
<1>1. PICK x, y : x = s.x /\ y = s.y
  OBVIOUS
<1>2. p \in Nat \ {0} /\ x \in Int /\ y \in Int
  <2>1. p \in Nat \ {0} /\ p \in Nat
    BY PartlyIs
  <2> QED
    BY <1>1, <2>1
<1>3. Alike(p, u, z)
  BY <1>2, AlikeIs
<1>4. Alike(p, w, z * z)
  BY <1>2, <1>3, AlikeProduct
<1>5. Alike(p, v, (z * z) * z)
  BY <1>2, <1>3, <1>4, AlikeProduct
<1>6. Alike(p, x, x) /\ Alike(p, y, y)
  BY <1>2, AlikeIs
<1>7. Alike(p, x * w, x * (z * z)) /\ Alike(p, y * v, y * ((z * z) * z))
  BY <1>2, <1>4, <1>5, <1>6, AlikeProduct
<1>8. Alike(p, X, x * (z * z)) /\ Alike(p, Y, y * ((z * z) * z))
  BY <1>1, <1>2, <1>7, AlikeIs
<1>9. Unit(p, z)
  BY UnitAlike
<1> QED
  BY <1>1, <1>8, <1>9 DEF OnScale

LEMMA AddIs ==
  ASSUME ProductsAreReduced(Nat), NEW c \in Curves, IsGroup(c), NEW j \in KeysOf(c),
         NEW k \in KeysOf(c), NEW i, i = (j + k) % c.order, i # 0, NEW jp, StandsFor(c, jp, k)
  PROVE  StandsFor(c, JacobianAdd(c, Times(c, j), jp), i)
<1> DEFINE
    zz == Square(jp.z, c.prime)
    zzz == Multiply(zz, jp.z, c.prime)
    xz == Multiply(Times(c, j).x, zz, c.prime)
    yz == Multiply(Times(c, j).y, zzz, c.prime)
    d == FastMod(SubtractMod(xz, jp.x, c.prime), c.prime)
    az == MultiplyK(Square(zz, c.prime), -c.a, c.prime)
    tangent == MultiplyK(Square(jp.x, c.prime), 3, c.prime)
    r == IF ~IsDoubling(d, c.prime) THEN SubtractMod(yz, jp.y, c.prime)
          ELSE IF c.a # 0 THEN SubtractMod(tangent, az, c.prime) ELSE tangent
    e == IF IsDoubling(d, c.prime) THEN yz + jp.y ELSE d
    hsq == Square(e, c.prime)
    hsqx == Multiply(xz + jp.x, hsq, c.prime)
    hcub == Multiply(hsq, e, c.prime)
    hcby == Multiply(yz + jp.y, hcub, c.prime)
    sq == Square(r, c.prime)
    xn == FastMod(SubtractMod(sq, hsqx, c.prime), c.prime)
    dif == SubtractMod(SubtractMod(hsqx, xn, c.prime), xn, c.prime)
    yn == Multiply(r, dif, c.prime)
    half == MultiplyHalf(SubtractMod(yn, hcby, c.prime), c.prime)
<1>0. JacobianAdd(c, Times(c, j), jp)
        = [x |-> xn, y |-> FastMod(half, c.prime), z |-> Multiply(e, jp.z, c.prime)]
  BY DEF JacobianAdd, LastY
<1> HIDE DEF zz, zzz, xz, yz, d, az, tangent, r, e, hsq, hsqx, hcub, hcby, sq, xn, dif, yn, half
<1>1. PICK p, g, h, s, X, Y, z, x1, y1, x2, y2, x3, y3 :
        /\ p = c.prime /\ g = Times(c, j) /\ h = Times(c, k) /\ s = Times(c, i)
        /\ X = jp.x /\ Y = jp.y /\ z = jp.z
        /\ x1 = g.x /\ y1 = g.y /\ x2 = h.x /\ y2 = h.y /\ x3 = s.x /\ y3 = s.y
  OBVIOUS
<1>2. p \in Nat \ {0} /\ p \in Nat /\ 3 <= p /\ p % 2 = 1 /\ 2 <= p
  BY <1>1, PartlyIs
<1>3. i \in KeysOf(c)
  <2>1. PICK n, sum : n = c.order /\ sum = j + k
    OBVIOUS
  <2>2. sum \in Int /\ n \in Nat \ {0}
    BY <2>1, ResiduesAre
  <2>3. sum % n \in ResiduesOf(c)
    BY <2>1, <2>2, ResiduesAre
  <2> QED
    BY <2>1, <2>3, ResiduesAre
<1>4. OnScale(p, h, X, Y, z)
  BY <1>1, ScaleIs
<1>5. /\ Partly(p, X) /\ Partly(p, Y) /\ Partly(p, z) /\ Unit(p, z)
      /\ Alike(p, X, x2 * (z * z)) /\ Alike(p, Y, y2 * ((z * z) * z))
      /\ x2 \in 0 .. (p - 1) /\ y2 \in 0 .. (p - 1)
  BY <1>1, <1>4 DEF OnScale
<1>6. /\ x1 \in 0 .. (p - 1) /\ y1 \in 0 .. (p - 1) /\ x3 \in 0 .. (p - 1) /\ y3 \in 0 .. (p - 1)
  BY <1>1, <1>3, OppositeIs DEF IsResidues
<1>7. /\ X \in Nat /\ Y \in Nat /\ z \in Nat /\ x1 \in Nat /\ y1 \in Nat
      /\ x2 \in Int /\ y2 \in Int /\ x3 \in Int /\ y3 \in Int /\ x1 \in Int /\ y1 \in Int /\ z \in Int
  <2>1. X \in Nat /\ Y \in Nat /\ z \in Nat
    BY <1>1, <1>5, PartlyIs
  <2> QED
    BY <1>2, <1>5, <1>6, <2>1
<1>8. /\ zz = Square(z, p)
      /\ zzz = Multiply(zz, z, p)
      /\ xz = Multiply(x1, zz, p)
      /\ yz = Multiply(y1, zzz, p)
      /\ d = FastMod(SubtractMod(xz, X, p), p)
      /\ az = MultiplyK(Square(zz, p), -c.a, p)
      /\ tangent = MultiplyK(Square(X, p), 3, p)
      /\ r = (IF ~IsDoubling(d, p) THEN SubtractMod(yz, Y, p)
                ELSE IF c.a # 0 THEN SubtractMod(tangent, az, p) ELSE tangent)
      /\ e = (IF IsDoubling(d, p) THEN yz + Y ELSE d)
      /\ hsq = Square(e, p)
      /\ hsqx = Multiply(xz + X, hsq, p)
      /\ hcub = Multiply(hsq, e, p)
      /\ hcby = Multiply(yz + Y, hcub, p)
      /\ sq = Square(r, p)
      /\ xn = FastMod(SubtractMod(sq, hsqx, p), p)
      /\ dif = SubtractMod(SubtractMod(hsqx, xn, p), xn, p)
      /\ yn = Multiply(r, dif, p)
      /\ half = MultiplyHalf(SubtractMod(yn, hcby, p), p)
  <2>1. zz = Square(z, p)
    BY <1>1 DEF zz
  <2>2. zzz = Multiply(zz, z, p)
    BY <1>1 DEF zzz
  <2>3. xz = Multiply(x1, zz, p)
    BY <1>1 DEF xz
  <2>4. yz = Multiply(y1, zzz, p)
    BY <1>1 DEF yz
  <2>5. d = FastMod(SubtractMod(xz, X, p), p)
    BY <1>1 DEF d
  <2>6. az = MultiplyK(Square(zz, p), -c.a, p)
    BY <1>1 DEF az
  <2>7. tangent = MultiplyK(Square(X, p), 3, p)
    BY <1>1 DEF tangent
  <2>8. r = IF ~IsDoubling(d, p) THEN SubtractMod(yz, Y, p)
                ELSE IF c.a # 0 THEN SubtractMod(tangent, az, p) ELSE tangent
    BY <1>1 DEF r
  <2>9. e = IF IsDoubling(d, p) THEN yz + Y ELSE d
    BY <1>1 DEF e
  <2>10. hsq = Square(e, p)
    BY <1>1 DEF hsq
  <2>11. hsqx = Multiply(xz + X, hsq, p)
    BY <1>1 DEF hsqx
  <2>12. hcub = Multiply(hsq, e, p)
    BY <1>1 DEF hcub
  <2>13. hcby = Multiply(yz + Y, hcub, p)
    BY <1>1 DEF hcby
  <2>14. sq = Square(r, p)
    BY <1>1 DEF sq
  <2>15. xn = FastMod(SubtractMod(sq, hsqx, p), p)
    BY <1>1 DEF xn
  <2>16. dif = SubtractMod(SubtractMod(hsqx, xn, p), xn, p)
    BY <1>1 DEF dif
  <2>17. yn = Multiply(r, dif, p)
    BY <1>1 DEF yn
  <2>18. half = MultiplyHalf(SubtractMod(yn, hcby, p), p)
    BY <1>1 DEF half
  <2> QED
    BY <2>1, <2>2, <2>3, <2>4, <2>5, <2>6, <2>7, <2>8, <2>9, <2>10,
       <2>11, <2>12, <2>13, <2>14, <2>15, <2>16, <2>17, <2>18
<1>10. /\ zz \in Nat /\ Alike(p, zz, z * z) /\ Partly(p, xz) /\ Alike(p, xz, x1 * (z * z))
       /\ yz \in Nat /\ Alike(p, yz, y1 * ((z * z) * z)) /\ xz \in Nat
  <2>1. zz \in Nat /\ Alike(p, zz, z * z)
    BY <1>1, <1>7, <1>8, MultiplyIs, PartlyIs
  <2>2. zzz \in Nat /\ Alike(p, zzz, zz * z)
    BY <1>1, <1>7, <1>8, <2>1, MultiplyIs, PartlyIs
  <2>3. Partly(p, xz) /\ Alike(p, xz, x1 * zz) /\ xz \in Nat
    BY <1>1, <1>7, <1>8, <2>1, MultiplyIs, PartlyIs
  <2>4. Alike(p, yz, y1 * zzz) /\ yz \in Nat
    BY <1>1, <1>7, <1>8, <2>2, MultiplyIs, PartlyIs
  <2>5. Alike(p, z, z) /\ Alike(p, x1, x1) /\ Alike(p, y1, y1)
    BY <1>2, <1>7, AlikeIs
  <2>6. Alike(p, x1 * zz, x1 * (z * z)) /\ Alike(p, zz * z, (z * z) * z)
    BY <1>2, <2>1, <2>5, AlikeProduct
  <2>7. Alike(p, zzz, (z * z) * z)
    BY <1>2, <2>2, <2>6, AlikeIs
  <2>8. Alike(p, y1 * zzz, y1 * ((z * z) * z))
    BY <1>2, <2>5, <2>7, AlikeProduct
  <2> QED
    BY <1>2, <2>1, <2>3, <2>4, <2>6, <2>8, AlikeIs
<1>11. /\ d \in Nat /\ Alike(p, d, (x1 - x2) * (z * z)) /\ Unit(p, z * z)
       /\ IsDoubling(d, p) <=> x1 = x2
  <2>1. /\ d \in Nat /\ Alike(p, d, (x1 - x2) * (z * z)) /\ Unit(p, z * z)
        /\ d = p <=> x1 = x2
    <3>1. p = c.prime
      BY <1>1
    <3>2. PICK m : m = FastMod(SubtractMod(xz, X, p), p)
      OBVIOUS
    <3>3. x1 \in 0 .. (p - 1) /\ Partly(p, xz) /\ Alike(p, xz, x1 * (z * z))
      BY <1>6, <1>10
    <3>4. /\ m \in Nat /\ Alike(p, m, (x1 - h.x) * (z * z)) /\ Unit(p, z * z)
          /\ m = p <=> x1 = h.x
      <4>1. Difference(c, p, h, X, Y, z, x1, xz, m)
        BY <1>4, <3>1, <3>2, <3>3 DEF Difference
      <4> QED
        BY <4>1, SameXIs
    <3>5. d = m /\ h.x = x2
      BY <1>1, <1>8, <3>2
    <3> QED
      BY <3>4, <3>5
  <2> QED
    BY <2>1 DEF IsDoubling
<1>12. PICK l :
        /\ ThirdOnLine(p, l, x1, y1, x2, y2, x3, y3)
        /\ x1 = x2 => g = h /\ Unit(p, 2 * y1) /\ Alike(p, l * (2 * y1), 3 * (x1 * x1) + c.a)
        /\ x1 # x2 => Unit(p, x2 - x1) /\ Alike(p, l * (x2 - x1), y2 - y1)
  BY <1>1, SlopeIs
<1>13. l \in Int
  BY <1>12 DEF ThirdOnLine
<1>14. e \in Nat /\ r \in Nat /\ Unit(p, e) /\ Alike(p, r, l * (e * z))
  <2>1. CASE x1 = x2
    <3>1. IsDoubling(d, p) /\ g = h /\ h.y = y1 /\ h.x = x1
      BY <1>1, <1>11, <1>12, <2>1
    <3>2. Unit(p, 2 * h.y) /\ Alike(p, l * (2 * h.y), 3 * (h.x * h.x) + c.a)
      BY <1>12, <2>1, <3>1
    <3>3. Alike(p, yz, h.y * ((z * z) * z))
      BY <1>10, <3>1
    <3>4. e = yz + Y /\ r = IF c.a # 0 THEN SubtractMod(tangent, az, p) ELSE tangent
      BY <1>8, <3>1
    <3> QED
      <4>1. /\ p = c.prime /\ tangent = MultiplyK(Square(X, p), 3, p)
            /\ az = MultiplyK(Square(Square(z, p), p), -c.a, p)
        BY <1>1, <1>8
      <4> QED
        <5>1. TangentGiven(c, p, l, h, X, Y, z, yz, e, az, tangent, r)
          BY <1>4, <1>10, <1>13, <3>2, <3>3, <3>4, <4>1, SMTT(30) DEF TangentGiven
        <5> QED
          BY <5>1, TangentScale
  <2>2. CASE x1 # x2
    <3>1. e = d /\ r = SubtractMod(yz, Y, p)
      BY <1>8, <1>11, <2>2
    <3>2. Unit(p, x2 - x1) /\ Alike(p, l * (x2 - x1), y2 - y1)
      BY <1>12, <2>2
    <3>3. r \in Nat /\ Unit(p, d) /\ Alike(p, r, l * (d * z))
      <4>1. p = c.prime
        BY <1>1
      <4>2. Partly(p, Y) /\ Alike(p, Y, y2 * ((z * z) * z)) /\ x2 \in 0 .. (p - 1)
        BY <1>5
      <4>3. yz \in Nat /\ Alike(p, yz, y1 * ((z * z) * z)) /\ x1 \in 0 .. (p - 1)
        BY <1>6, <1>10
      <4>4. Alike(p, d, (x1 - x2) * (z * z)) /\ Unit(p, z * z)
        BY <1>11
      <4>5. x1 \in Int /\ y1 \in Int /\ x2 \in Int /\ y2 \in Int /\ z \in Int
        BY <1>7
      <4> QED
        <5>1. ChordGiven(c, p, l, x1, y1, x2, y2, z, d, Y, yz, r)
          BY <1>13, <3>1, <3>2, <4>1, <4>2, <4>3, <4>4, <4>5 DEF ChordGiven
        <5> QED
          BY <5>1, ChordScale
    <3> QED
      BY <1>11, <3>1, <3>3
  <2> QED
    BY <2>1, <2>2
<1>15. PICK u, w, v, a, b, q : u = e * z /\ w = u * u /\ v = w * u /\ a = x1 + x2 /\ b = y1 + y2
                               /\ q = z * z
  OBVIOUS
<1>16. /\ u \in Int /\ w \in Int /\ v \in Int /\ a \in Int /\ b \in Int /\ q \in Int /\ e \in Int
       /\ Unit(p, u) /\ Alike(p, r, l * u)
  <2>1. /\ u \in Int /\ w \in Int /\ v \in Int /\ a \in Int /\ b \in Int /\ q \in Int /\ e \in Int
    BY <1>7, <1>14, <1>15
  <2>2. Unit(p, u)
    BY <1>2, <1>5, <1>14, <1>15, UnitProduct
  <2> QED
    BY <1>14, <1>15, <2>1, <2>2
<1>17. hsq \in Nat /\ Alike(p, hsq, e * e) /\ hcub \in Nat /\ Alike(p, hcub, (e * e) * e)
  <2>1. hsq \in Nat /\ Alike(p, hsq, e * e)
    <3>1. hsq = Square(e, p)
      BY <1>8
    <3>2. p = c.prime
      BY <1>1
    <3>3. Partly(p, hsq) /\ Alike(p, hsq, e * e)
      BY <1>14, <3>1, <3>2, MultiplyIs
    <3> QED
      BY <3>2, <3>3, PartlyIs
  <2>2. hcub \in Nat /\ Alike(p, hcub, hsq * e)
    <3>1. hcub = Multiply(hsq, e, p)
      BY <1>8
    <3>2. p = c.prime
      BY <1>1
    <3>3. Partly(p, hcub) /\ Alike(p, hcub, hsq * e)
      BY <1>14, <2>1, <3>1, <3>2, MultiplyIs
    <3> QED
      BY <3>2, <3>3, PartlyIs
  <2>3. Alike(p, e, e)
    BY <1>2, <1>16, AlikeIs
  <2>4. Alike(p, hsq * e, (e * e) * e)
    BY <1>2, <2>1, <2>3, AlikeProduct
  <2> QED
    BY <1>2, <2>1, <2>2, <2>4, AlikeIs
<1>18. Partly(p, hsqx) /\ Alike(p, hsqx, a * w)
  <2>1. PICK f : f = xz + X
    OBVIOUS
  <2>2. f \in Nat
    BY <1>7, <1>10, <2>1
  <2>3. Alike(p, f, x1 * q + x2 * q)
    BY <1>2, <1>5, <1>10, <1>15, <2>1, AlikeSum
  <2>4. x1 * q + x2 * q = a * q
    BY <1>7, <1>15, <1>16
  <2>5. Partly(p, hsqx) /\ Alike(p, hsqx, f * hsq)
    <3>1. hsqx = Multiply(xz + X, hsq, p)
      BY <1>8
    <3>2. p = c.prime /\ hsqx = Multiply(f, hsq, p)
      BY <1>1, <2>1, <3>1
    <3> QED
      BY <1>17, <2>2, <3>2, MultiplyIs
  <2>6. Alike(p, f, a * q)
    BY <2>3, <2>4
  <2>7. Alike(p, f * hsq, (a * q) * (e * e))
    BY <1>2, <1>17, <2>6, AlikeProduct
  <2>8. (a * (z * z)) * (e * e) = a * ((e * z) * (e * z))
    BY <1>7, <1>16
  <2> QED
    BY <1>2, <1>15, <2>5, <2>7, <2>8, AlikeIs
<1>19. Partly(p, hcby) /\ Alike(p, hcby, b * v)
  <2>1. PICK f, t : f = yz + Y /\ t = q * z
    OBVIOUS
  <2>2. f \in Nat /\ t \in Int
    BY <1>7, <1>10, <1>16, <2>1
  <2>3. Alike(p, f, y1 * t + y2 * t)
    BY <1>2, <1>5, <1>10, <1>15, <2>1, AlikeSum
  <2>4. y1 * t + y2 * t = b * t
    BY <1>7, <1>15, <2>2
  <2>5. Partly(p, hcby) /\ Alike(p, hcby, f * hcub)
    <3>1. hcby = Multiply(yz + Y, hcub, p)
      BY <1>8
    <3>2. p = c.prime /\ hcby = Multiply(f, hcub, p)
      BY <1>1, <2>1, <3>1
    <3> QED
      BY <1>17, <2>2, <3>2, MultiplyIs
  <2>6. Alike(p, f, b * t)
    BY <2>3, <2>4
  <2>7. Alike(p, f * hcub, (b * t) * ((e * e) * e))
    BY <1>2, <1>17, <2>6, AlikeProduct
  <2>8. (b * ((z * z) * z)) * ((e * e) * e) = b * (((e * z) * (e * z)) * (e * z))
    BY <1>7, <1>16
  <2> QED
    BY <1>2, <1>15, <2>1, <2>5, <2>7, <2>8, AlikeIs
<1>20. Partly(p, xn) /\ Alike(p, xn, r * r - hsqx) /\ xn \in Nat /\ hsqx \in Nat
  <2>1. Partly(p, sq) /\ Alike(p, sq, r * r) /\ sq \in Nat /\ hsqx \in Nat /\ hsqx \in Int
    <3>1. sq = Square(r, p)
      BY <1>8
    <3>2. p = c.prime
      BY <1>1
    <3>3. Partly(p, sq) /\ Alike(p, sq, r * r)
      BY <1>14, <3>1, <3>2, MultiplyIs
    <3> QED
      BY <1>18, <3>2, <3>3, PartlyIs
  <2>2. PICK f : f = SubtractMod(sq, hsqx, p)
    OBVIOUS
  <2>3. f \in 1 .. (4 * p - 1) /\ Alike(p, f, sq - hsqx)
    BY <1>1, <1>18, <2>1, <2>2, SubtractModIs
  <2>4. f \in 0 .. (4 * p - 1)
    BY <1>2, <2>3
  <2>5. Partly(p, xn) /\ Alike(p, xn, f)
    <3>1. xn = FastMod(SubtractMod(sq, hsqx, p), p)
      BY <1>8
    <3>2. p = c.prime /\ xn = FastMod(f, p)
      BY <1>1, <2>2, <3>1
    <3> QED
      BY <2>4, <3>2, FastModIs
  <2>6. Alike(p, hsqx, hsqx)
    BY <1>2, <2>1, AlikeIs
  <2>7. Alike(p, sq - hsqx, r * r - hsqx)
    BY <1>2, <2>1, <2>6, AlikeDifference
  <2>8. xn \in Nat
    BY <1>1, <2>5, PartlyIs
  <2> QED
    BY <1>2, <2>1, <2>3, <2>5, <2>7, <2>8, AlikeIs
<1>21. /\ half \in 0 .. (4 * p - 1) /\ half \in Int
       /\ Alike(p, 2 * half, r * ((hsqx - xn) - xn) - hcby)
  <2>1. PICK f, m : f = SubtractMod(hsqx, xn, p) /\ m = SubtractMod(yn, hcby, p)
    OBVIOUS
  <2>2. f \in Nat /\ Alike(p, f, hsqx - xn)
    BY <1>1, <1>20, <2>1, SubtractModIs
  <2>3. dif \in Nat /\ Alike(p, dif, f - xn)
    <3>1. p = c.prime /\ dif = SubtractMod(f, xn, p)
      <4>1. dif = SubtractMod(SubtractMod(hsqx, xn, p), xn, p)
        BY <1>8
      <4> QED
        BY <1>1, <2>1, <4>1
    <3> QED
      BY <1>20, <2>2, <3>1, SubtractModIs
  <2>4. Alike(p, xn, xn) /\ Alike(p, r, r) /\ Alike(p, hcby, hcby)
    <3>1. xn \in Int /\ r \in Int /\ hcby \in Int
      BY <1>2, <1>14, <1>19, <1>20, AlikeIs
    <3> QED
      BY <1>2, <3>1, AlikeIs
  <2>5. Alike(p, f - xn, (hsqx - xn) - xn)
    BY <1>2, <2>2, <2>4, AlikeDifference
  <2>6. Alike(p, dif, (hsqx - xn) - xn)
    BY <1>2, <2>3, <2>5, AlikeIs
  <2>7. Partly(p, yn) /\ Alike(p, yn, r * dif) /\ yn \in Nat
    <3>1. p = c.prime /\ yn = Multiply(r, dif, p)
      BY <1>1, <1>8
    <3>2. Partly(p, yn) /\ Alike(p, yn, r * dif)
      BY <1>14, <2>3, <3>1, MultiplyIs
    <3> QED
      BY <3>1, <3>2, PartlyIs
  <2>8. Alike(p, r * dif, r * ((hsqx - xn) - xn))
    BY <1>2, <2>4, <2>6, AlikeProduct
  <2>9. Alike(p, yn, r * ((hsqx - xn) - xn))
    BY <1>2, <2>7, <2>8, AlikeIs
  <2>10. m \in 1 .. (4 * p - 1) /\ m \in Nat /\ Alike(p, m, yn - hcby)
    BY <1>1, <1>19, <2>1, <2>7, SubtractModIs
  <2>11. Alike(p, yn - hcby, r * ((hsqx - xn) - xn) - hcby)
    BY <1>2, <2>4, <2>9, AlikeDifference
  <2>12. m < 4 * p
    BY <1>2, <2>10
  <2>13. half \in Nat /\ Alike(p, 2 * half, m) /\ half \in 0 .. (4 * p - 1)
    <3>1. p = c.prime
      BY <1>1
    <3>2. /\ MultiplyHalf(m, p) \in Nat /\ Alike(p, 2 * MultiplyHalf(m, p), m)
          /\ MultiplyHalf(m, p) \in 0 .. (4 * p - 1)
      BY <2>10, <2>12, <3>1, MultiplyHalfIs
    <3>3. half = MultiplyHalf(m, p)
      BY <1>8, <2>1
    <3> QED
      BY <3>2, <3>3
  <2> QED
    BY <1>2, <2>10, <2>11, <2>13, AlikeIs
<1>22. Alike(p, xn, x3 * w) /\ Alike(p, half, y3 * v)
  BY <1>2, <1>12, <1>15, <1>16, <1>18, <1>19, <1>20, <1>21, AddedPoint
<1>23. PICK zn, y : zn = Multiply(e, z, p) /\ y = FastMod(half, p)
  OBVIOUS
<1>24. Partly(p, y) /\ Alike(p, y, half) /\ Partly(p, zn) /\ Alike(p, zn, u)
  BY <1>1, <1>7, <1>14, <1>15, <1>21, <1>23, FastModIs, MultiplyIs
<1>25. OnScale(p, s, xn, y, zn)
  BY <1>1, <1>6, <1>15, <1>20, <1>22, <1>24, <1>16, ScaleKept
<1>26. StandsFor(c, [x |-> xn, y |-> y, z |-> zn], i)
  BY <1>1, <1>3, <1>25, ScaleStands
<1> QED
  BY <1>0, <1>1, <1>23, <1>26

LEMMA DoubleIs ==
  ASSUME ProductsAreReduced(Nat), NEW c \in Curves, IsGroup(c), NEW k \in KeysOf(c),
         NEW i, i = (2 * k) % c.order, NEW jp, StandsFor(c, jp, k)
  PROVE  StandsFor(c, JacobianDouble(c, jp), i)
<1>1. PICK p, n, two, h, s, X, Y, z, x, y, x3, y3 :
        /\ p = c.prime /\ n = c.order /\ two = 2 /\ h = Times(c, k) /\ s = Times(c, i)
        /\ X = jp.x /\ Y = jp.y /\ z = jp.z
        /\ x = h.x /\ y = h.y /\ x3 = s.x /\ y3 = s.y
  OBVIOUS
<1>2. p \in Nat \ {0} /\ p \in Nat /\ 3 <= p /\ p % 2 = 1 /\ 2 <= p
  BY <1>1, PartlyIs
<1>3. i \in KeysOf(c) /\ i = (k + k) % c.order /\ i # 0
  <2>1. n \in Nat \ {0} /\ 3 <= n /\ k \in 1 .. (n - 1)
    BY <1>1, ResiduesAre, CurveIs DEF KeysOf
  <2>2. two \in KeysOf(c) /\ k \in Int /\ two * k = k + k /\ two * k \in Int
    BY <1>1, <2>1 DEF KeysOf
  <2>3. (two * k) % n # 0
    BY <1>1, <2>2, ProductOfKeys
  <2>4. (two * k) % n \in ResiduesOf(c)
    BY <1>1, <2>2, ResiduesAre
  <2>5. i = (two * k) % n
    BY <1>1
  <2> QED
    BY <1>1, <2>2, <2>3, <2>4, <2>5, ResiduesAre
<1>4. OnScale(p, h, X, Y, z)
  BY <1>1, ScaleIs
<1>5. PICK q, t, f, a, b :
        q = z * z /\ t = q * z /\ f = q * q /\ a = c.a /\ b = 3 * (h.x * h.x) + a
  OBVIOUS
<1>6. /\ Partly(p, X) /\ Partly(p, Y) /\ Partly(p, z) /\ Unit(p, z)
      /\ Alike(p, X, x * q) /\ Alike(p, Y, y * t)
  BY <1>1, <1>4, <1>5 DEF OnScale
<1>7. /\ x \in 0 .. (p - 1) /\ y \in 1 .. (p - 1) /\ x3 \in 0 .. (p - 1) /\ y3 \in 0 .. (p - 1)
  <2>1. IsResidues(h, p) /\ h.y # 0 /\ IsResidues(s, p)
    BY <1>1, <1>3, OppositeIs
  <2> QED
    BY <1>1, <1>2, <2>1 DEF IsResidues
<1>8. /\ X \in Nat /\ Y \in Nat /\ z \in Nat /\ x \in Int /\ y \in Int /\ x3 \in Int /\ y3 \in Int
      /\ q \in Int /\ t \in Int /\ f \in Int
  <2>1. X \in Nat /\ Y \in Nat /\ z \in Nat
    BY <1>1, <1>6, PartlyIs
  <2> QED
    BY <1>2, <1>5, <1>7, <2>1
<1>9. PICK az, three, m, ysq, xysq, sq, xn, dif, yn, ysqsq, last :
        /\ az = MultiplyK(Square(Square(z, p), p), -c.a, p) /\ three = MultiplyK(Square(X, p), 3, p)
        /\ m = MultiplyHalf(SubtractMod(three, az, p), p)
        /\ ysq = Square(Y, p) /\ xysq = Multiply(ysq, X, p) /\ sq = Square(m, p)
        /\ xn = FastMod(SubtractMod(sq, FastMod(2 * xysq, p), p), p)
        /\ dif = SubtractMod(xysq, xn, p) /\ yn = Multiply(m, dif, p)
        /\ ysqsq = Square(ysq, p) /\ last = FastMod(SubtractMod(yn, ysqsq, p), p)
  OBVIOUS
<1>10. JacobianDouble(c, jp) = [x |-> xn, y |-> last, z |-> Multiply(Y, z, p)]
  BY <1>1, <1>9, SMTT(60) DEF JacobianDouble
<1>11. PICK l :
        /\ ThirdOnLine(p, l, x, y, x, y, x3, y3)
        /\ Alike(p, l * (2 * y), 3 * (x * x) + c.a)
  BY <1>1, <1>3, SlopeIs
<1>12. l \in Int
  BY <1>11 DEF ThirdOnLine
<1>13. PICK u, w, v : u = Y * z /\ w = u * u /\ v = w * u
  OBVIOUS
<1>14. u \in Int /\ w \in Int /\ v \in Int
  BY <1>8, <1>13
<1>15. Unit(p, u)
  <2>1. Unit(p, y)
    <3>1. 0 \in 0 .. (p - 1) /\ y # 0 /\ y \in 0 .. (p - 1) /\ y - 0 = y
      BY <1>2, <1>7
    <3>2. Unit(p, y - 0)
      BY <1>1, <3>1, UnitDifference
    <3> QED
      BY <3>1, <3>2
  <2>2. Unit(p, t)
    BY <1>2, <1>5, <1>6, UnitProduct
  <2>3. Unit(p, y * t)
    BY <1>2, <2>1, <2>2, UnitProduct
  <2>4. Unit(p, Y)
    BY <1>1, <1>6, <2>3, UnitAlike
  <2> QED
    BY <1>2, <1>6, <1>13, <2>4, UnitProduct
<1>16. Alike(p, u, y * f)
  <2>1. Alike(p, z, z)
    BY <1>2, <1>8, AlikeIs
  <2>2. Alike(p, Y * z, (y * t) * z)
    BY <1>2, <1>6, <2>1, AlikeProduct
  <2>3. (y * (q * z)) * z = y * (q * (z * z))
    BY <1>8
  <2> QED
    BY <1>5, <1>13, <2>2, <2>3
<1>17. Partly(p, three) /\ Partly(p, az) /\ Alike(p, three - az, b * f)
  <2>1. /\ az = MultiplyK(Square(Square(z, p), p), -c.a, p)
        /\ three = MultiplyK(Square(X, p), 3, p) /\ p = c.prime
    BY <1>1, <1>9
  <2>2. b = 3 * (h.x * h.x) + a /\ a = c.a /\ f = (z * z) * (z * z)
    BY <1>5
  <2> QED
    BY <1>4, <2>1, <2>2, RiseScale, ZenonT(60)
<1>18. m \in Nat /\ Alike(p, 2 * m, three - az)
  <2>1. PICK e : e = SubtractMod(three, az, p)
    OBVIOUS
  <2>2. three \in Nat
    BY <1>1, <1>17, PartlyIs
  <2>3. e \in Nat /\ Alike(p, e, three - az)
    BY <1>1, <1>17, <2>1, <2>2, SubtractModIs
  <2>4. m \in Nat /\ Alike(p, 2 * m, e)
    <3>1. p = c.prime /\ m = MultiplyHalf(e, p)
      BY <1>1, <1>9, <2>1
    <3> QED
      BY <2>3, <3>1, MultiplyHalfIs
  <2> QED
    BY <1>2, <2>3, <2>4, AlikeIs
<1>19. Alike(p, m, l * u)
  <2>1. Alike(p, b, l * (2 * y)) /\ Alike(p, f, f) /\ Alike(p, l, l)
    <3>1. Alike(p, l * (2 * y), b)
      BY <1>1, <1>5, <1>11
    <3> QED
      BY <1>2, <1>8, <1>12, <3>1, AlikeIs
  <2>2. Alike(p, b * f, (l * (2 * y)) * f)
    BY <1>2, <2>1, AlikeProduct
  <2>3. (l * (2 * y)) * f = (2 * l) * (y * f)
    BY <1>8, <1>12
  <2>4. Alike(p, y * f, u) /\ Alike(p, 2 * l, 2 * l)
    <3>1. 2 * l \in Int
      BY <1>12
    <3> QED
      BY <1>2, <1>16, <3>1, AlikeIs
  <2>5. Alike(p, (2 * l) * (y * f), (2 * l) * u)
    BY <1>2, <2>4, AlikeProduct
  <2>6. Alike(p, 2 * m, (2 * l) * u)
    BY <1>2, <1>17, <1>18, <2>2, <2>3, <2>5, AlikeIs
  <2>7. (2 * l) * u = 2 * (l * u) /\ l * u \in Int /\ m \in Int
    BY <1>12, <1>14, <1>18
  <2>8. Alike(p, 2 * m, 2 * (l * u))
    BY <2>6, <2>7
  <2> QED
    BY <1>2, <2>7, <2>8, AlikeHalf
<1>20. ysq \in Nat /\ Alike(p, ysq, Y * Y)
  BY <1>1, <1>8, <1>9, MultiplyIs, PartlyIs
<1>21. Partly(p, xysq) /\ xysq \in Nat /\ Alike(p, xysq, x * w)
  <2>1. Partly(p, xysq) /\ Alike(p, xysq, ysq * X) /\ xysq \in Nat
    BY <1>1, <1>8, <1>9, <1>20, MultiplyIs, PartlyIs
  <2>2. Alike(p, ysq * X, (Y * Y) * (x * q))
    BY <1>2, <1>6, <1>20, AlikeProduct
  <2>3. (Y * Y) * (x * (z * z)) = x * ((Y * z) * (Y * z))
    BY <1>8
  <2> QED
    BY <1>2, <1>5, <1>13, <2>1, <2>2, <2>3, AlikeIs
<1>22. Partly(p, ysqsq) /\ Alike(p, ysqsq, y * v)
  <2>1. Partly(p, ysqsq) /\ Alike(p, ysqsq, ysq * ysq)
    BY <1>1, <1>9, <1>20, MultiplyIs
  <2>2. PICK yy, yyy : yy = Y * Y /\ yyy = yy * Y
    OBVIOUS
  <2>3. yy \in Int /\ yyy \in Int
    BY <1>8, <2>2
  <2>4. Alike(p, ysq * ysq, yy * yy)
    BY <1>2, <1>20, <2>2, AlikeProduct
  <2>5. yy * yy = yyy * Y
    BY <1>8, <2>2
  <2>6. Alike(p, yyy, yyy)
    BY <1>2, <2>3, AlikeIs
  <2>7. Alike(p, yyy * Y, yyy * (y * t))
    BY <1>2, <1>6, <2>6, AlikeProduct
  <2>8. ((Y * Y) * Y) * (y * ((z * z) * z)) = y * (((Y * z) * (Y * z)) * (Y * z))
    BY <1>8
  <2>9. yyy * (y * t) = y * v
    BY <1>5, <1>13, <2>2, <2>8
  <2> QED
    BY <1>2, <2>1, <2>4, <2>5, <2>7, <2>9, AlikeIs
<1>23. Partly(p, xn) /\ Alike(p, xn, m * m - 2 * xysq)
  <2>1. PICK d, e, g : d = 2 * xysq /\ e = FastMod(d, p) /\ g = SubtractMod(sq, e, p)
    OBVIOUS
  <2>2. d \in 0 .. (4 * p - 1) /\ d \in Int
    BY <1>2, <1>21, <2>1 DEF Partly
  <2>3. Partly(p, e) /\ Alike(p, e, d)
    BY <1>1, <2>1, <2>2, FastModIs
  <2>4. Partly(p, sq) /\ Alike(p, sq, m * m) /\ sq \in Nat
    BY <1>1, <1>9, <1>18, MultiplyIs, PartlyIs
  <2>5. g \in 1 .. (4 * p - 1) /\ Alike(p, g, sq - e)
    BY <1>1, <2>1, <2>3, <2>4, SubtractModIs
  <2>6. g \in 0 .. (4 * p - 1)
    BY <1>2, <2>5
  <2>7. Partly(p, xn) /\ Alike(p, xn, g)
    <3>1. p = c.prime /\ xn = FastMod(g, p)
      BY <1>1, <1>9, <2>1
    <3> QED
      BY <2>6, <3>1, FastModIs
  <2>8. Alike(p, sq - e, m * m - d)
    BY <1>2, <2>3, <2>4, AlikeDifference
  <2> QED
    BY <1>2, <2>1, <2>5, <2>7, <2>8, AlikeIs
<1>24. Partly(p, last) /\ Alike(p, last, m * (xysq - xn) - ysqsq)
  <2>1. dif \in Nat /\ Alike(p, dif, xysq - xn)
    <3>1. p = c.prime /\ dif = SubtractMod(xysq, xn, p)
      BY <1>1, <1>9
    <3> QED
      BY <1>21, <1>23, <3>1, SubtractModIs
  <2>2. Partly(p, yn) /\ Alike(p, yn, m * dif) /\ yn \in Nat
    <3>1. p = c.prime /\ yn = Multiply(m, dif, p)
      BY <1>1, <1>9
    <3>2. Partly(p, yn) /\ Alike(p, yn, m * dif)
      BY <1>18, <2>1, <3>1, MultiplyIs
    <3> QED
      BY <3>1, <3>2, PartlyIs
  <2>3. Alike(p, m, m) /\ Alike(p, ysqsq, ysqsq)
    <3>1. m \in Int /\ ysqsq \in Int
      BY <1>2, <1>18, <1>22, AlikeIs
    <3> QED
      BY <1>2, <3>1, AlikeIs
  <2>4. Alike(p, m * dif, m * (xysq - xn))
    BY <1>2, <2>1, <2>3, AlikeProduct
  <2>5. Alike(p, yn, m * (xysq - xn))
    BY <1>2, <2>2, <2>4, AlikeIs
  <2>6. Alike(p, yn - ysqsq, m * (xysq - xn) - ysqsq)
    BY <1>2, <2>3, <2>5, AlikeDifference
  <2>7. PICK g : g = SubtractMod(yn, ysqsq, p)
    OBVIOUS
  <2>8. g \in 1 .. (4 * p - 1) /\ Alike(p, g, yn - ysqsq)
    BY <1>1, <1>22, <2>2, <2>7, SubtractModIs
  <2>9. g \in 0 .. (4 * p - 1)
    BY <1>2, <2>8
  <2>10. Partly(p, last) /\ Alike(p, last, g)
    <3>1. p = c.prime /\ last = FastMod(g, p)
      BY <1>1, <1>9, <2>7
    <3> QED
      BY <2>9, <3>1, FastModIs
  <2> QED
    BY <1>2, <2>6, <2>8, <2>10, AlikeIs
<1>25. Alike(p, xn, x3 * w) /\ Alike(p, last, y3 * v)
  BY <1>2, <1>11, <1>13, <1>14, <1>19, <1>21, <1>22, <1>23, <1>24, DoubledPoint
<1>26. PICK zn : zn = Multiply(Y, z, p)
  OBVIOUS
<1>27. Partly(p, zn) /\ Alike(p, zn, u) /\ Alike(p, last, last)
  <2>1. Partly(p, zn) /\ Alike(p, zn, Y * z)
    BY <1>1, <1>8, <1>26, MultiplyIs
  <2> QED
    BY <1>2, <1>13, <1>24, <2>1, AlikeIs
<1>28. OnScale(p, s, xn, last, zn)
  BY <1>1, <1>7, <1>13, <1>15, <1>23, <1>24, <1>25, <1>27, ScaleKept
<1>29. StandsFor(c, [x |-> xn, y |-> last, z |-> zn], i)
  BY <1>1, <1>3, <1>28, ScaleStands
<1> QED
  BY <1>1, <1>10, <1>26, <1>29

-----------------------------------------------------------------------------
(* The loops of point_multiply and scalar_multiply.                        *)

Hypotheses == CurvesAreGroups /\ ProductsAreReduced(Nat)

\* jp is u times the point that is m times the base.
KeyOf(c, m, u) == (u * m) % c.order
Walks(c, jp, m, u) == KeyOf(c, m, u) \in KeysOf(c) /\ StandsFor(c, jp, KeyOf(c, m, u))

LEMMA KeyOfIs ==
  ASSUME NEW c \in Curves, NEW m \in KeysOf(c), NEW n, n = c.order,
         NEW u \in Int, u # 0, -n < u, u < n
  PROVE  KeyOf(c, m, u) \in KeysOf(c)
<1>1. n \in Nat \ {0} /\ m \in Int
  BY ResiduesAre DEF KeysOf
<1>2. KeyOf(c, m, u) \in ResiduesOf(c)
  <2>1. PICK a : a = u * m
    OBVIOUS
  <2>2. a \in Int
    BY <1>1, <2>1
  <2> QED
    BY <2>1, <2>2, ResiduesAre DEF KeyOf
<1>3. KeyOf(c, m, u) # 0
  <2>1. CASE u > 0
    <3>1. u \in KeysOf(c)
      BY <1>1, <2>1 DEF KeysOf
    <3> QED
      BY <3>1, ProductOfKeys DEF KeyOf
  <2>2. CASE u < 0
    <3>1. PICK w : w = n + u
      OBVIOUS
    <3>2. w \in KeysOf(c)
      BY <1>1, <2>2, <3>1 DEF KeysOf
    <3>3. (w * m) % n # 0
      BY <3>2, ProductOfKeys
    <3>4. PICK a : a = u * m
      OBVIOUS
    <3>5. a \in Int /\ w * m = a + n * m
      BY <1>1, <3>1, <3>4
    <3>6. (a + n * m) % n = a % n
      BY <1>1, <3>5, RemainderKept
    <3> QED
      BY <3>3, <3>4, <3>5, <3>6 DEF KeyOf
  <2> QED
    BY <2>1, <2>2
<1> QED
  BY <1>2, <1>3, ResiduesAre

LEMMA OppositeKey ==
  ASSUME NEW c \in Curves, NEW m \in KeysOf(c), NEW u \in Int, KeyOf(c, m, u) \in KeysOf(c)
  PROVE  KeyOf(c, m, -u) = c.order - KeyOf(c, m, u)
<1>1. PICK n, k, a : n = c.order /\ k = KeyOf(c, m, u) /\ a = u * m
  OBVIOUS
<1>2. n \in Nat \ {0} /\ m \in Int /\ k \in 1 .. (n - 1)
  BY <1>1, ResiduesAre DEF KeysOf
<1>3. a \in Int /\ k = a % n
  BY <1>1, <1>2 DEF KeyOf
<1>4. PICK q \in Int : a = n * q + k
  <2>1. a \div n \in Int /\ a = n * (a \div n) + (a % n)
    BY <1>2, <1>3, Split
  <2> QED
    BY <1>3, <2>1
<1>5. PICK r, b : r = -1 - q /\ b = -a
  OBVIOUS
<1>6. r \in Int /\ b \in Int /\ b = n * r + (n - k) /\ n - k \in 0 .. (n - 1)
  BY <1>2, <1>3, <1>4, <1>5
<1>7. b % n = n - k
  BY <1>2, <1>6, Divided
<1>8. (-u) * m = b
  BY <1>1, <1>2, <1>5
<1> QED
  BY <1>1, <1>7, <1>8 DEF KeyOf

LEMMA WalksNegated ==
  ASSUME Hypotheses, NEW c \in Curves, NEW m \in KeysOf(c), NEW u \in Int, NEW jp, Walks(c, jp, m, u)
  PROVE  /\ Walks(c, [jp EXCEPT !.y = Negated(@, c.prime)], m, -u)
         /\ Walks(c, [jp EXCEPT !.z = Negated(@, c.prime)], m, -u)
<1>1. PICK k : k = KeyOf(c, m, u)
  OBVIOUS
<1>2. k \in KeysOf(c) /\ StandsFor(c, jp, k)
  BY <1>1 DEF Walks
<1>3. KeyOf(c, m, -u) = c.order - k
  BY <1>1, <1>2, OppositeKey
<1>4. IsGroup(c) /\ ProductsAreReduced(Nat)
  BY DEF Hypotheses, CurvesAreGroups
<1>5. c.order - k \in KeysOf(c)
  <2>1. PICK n : n = c.order
    OBVIOUS
  <2>2. n \in Nat \ {0} /\ k \in 1 .. (n - 1)
    BY <1>2, <2>1, ResiduesAre DEF KeysOf
  <2>3. n - k \in 1 .. (n - 1)
    BY <2>2
  <2> QED
    BY <2>1, <2>3 DEF KeysOf
<1>6. /\ StandsFor(c, [jp EXCEPT !.y = Negated(@, c.prime)], c.order - k)
      /\ StandsFor(c, [jp EXCEPT !.z = Negated(@, c.prime)], c.order - k)
  BY <1>2, <1>4, NegatedY, NegatedZ
<1> QED
  BY <1>3, <1>5, <1>6 DEF Walks

LEMMA WalksDouble ==
  ASSUME Hypotheses, NEW c \in Curves, NEW m \in KeysOf(c), NEW u \in Int, NEW jp, Walks(c, jp, m, u)
  PROVE  Walks(c, JacobianDouble(c, jp), m, 2 * u)
<1>1. PICK n, k, a, two : n = c.order /\ k = KeyOf(c, m, u) /\ a = u * m /\ two = 2
  OBVIOUS
<1>2. k \in KeysOf(c) /\ StandsFor(c, jp, k)
  BY <1>1 DEF Walks
<1>3. n \in Nat \ {0} /\ m \in Int /\ k \in Int /\ 3 <= n
  BY <1>1, <1>2, ResiduesAre, CurveIs DEF KeysOf
<1>4. two \in KeysOf(c)
  BY <1>1, <1>3 DEF KeysOf
<1>5. (two * k) % n \in KeysOf(c)
  <2>1. (two * k) % n # 0
    BY <1>1, <1>2, <1>4, ProductOfKeys
  <2>2. two * k \in Int
    BY <1>1, <1>3
  <2> QED
    BY <1>1, <2>1, <2>2, ResiduesAre
<1>6. (two * k) % n = KeyOf(c, m, 2 * u)
  <2>1. a \in Int /\ k = a % n /\ two \in Int
    BY <1>1, <1>3 DEF KeyOf
  <2>2. ((a % n) * two) % n = (a * two) % n
    BY <1>3, <2>1, RemainderTimes
  <2>3. (a % n) * two = two * k
    BY <1>3, <2>1
  <2>4. a * two = (2 * u) * m
    BY <1>1, <1>3
  <2> QED
    BY <1>1, <2>2, <2>3, <2>4 DEF KeyOf
<1>7. IsGroup(c) /\ ProductsAreReduced(Nat)
  BY DEF Hypotheses, CurvesAreGroups
<1>8. StandsFor(c, JacobianDouble(c, jp), (2 * k) % n)
  BY <1>1, <1>2, <1>7, DoubleIs
<1> QED
  BY <1>1, <1>5, <1>6, <1>8 DEF Walks

LEMMA WalksAdd ==
  ASSUME Hypotheses, NEW c \in Curves, NEW m \in KeysOf(c), NEW u \in Int, NEW jp, Walks(c, jp, m, u),
         NEW d \in Int, KeyOf(c, m, d) \in KeysOf(c), NEW s, s = d + u, KeyOf(c, m, s) \in KeysOf(c)
  PROVE  Walks(c, JacobianAdd(c, Times(c, KeyOf(c, m, d)), jp), m, s)
<1>1. PICK n, k, j, a, b : n = c.order /\ k = KeyOf(c, m, u) /\ j = KeyOf(c, m, d)
                           /\ a = d * m /\ b = u * m
  OBVIOUS
<1>2. k \in KeysOf(c) /\ StandsFor(c, jp, k)
  BY <1>1 DEF Walks
<1>3. n \in Nat \ {0} /\ m \in Int /\ k \in Int /\ j \in Int
  BY <1>1, <1>2, ResiduesAre DEF KeysOf
<1>4. a \in Int /\ b \in Int /\ j = a % n /\ k = b % n
  BY <1>1, <1>3 DEF KeyOf
<1>5. (j + k) % n = KeyOf(c, m, s)
  <2>1. ((a % n) + k) % n = (a + k) % n
    BY <1>3, <1>4, RemainderPlus, ZenonT(60)
  <2>2. ((b % n) + a) % n = (b + a) % n
    BY <1>3, <1>4, RemainderPlus, ZenonT(60)
  <2>3. (b % n) + a = a + k
    BY <1>4
  <2>4. b + a = s * m
    BY <1>1, <1>3, <1>4
  <2> QED
    BY <1>1, <1>4, <2>1, <2>2, <2>3, <2>4 DEF KeyOf
<1>6. (j + k) % n # 0
  BY <1>1, <1>5, ResiduesAre
<1>7. IsGroup(c) /\ ProductsAreReduced(Nat)
  BY DEF Hypotheses, CurvesAreGroups
<1>8. j \in KeysOf(c)
  BY <1>1
<1>9. StandsFor(c, JacobianAdd(c, Times(c, j), jp), (j + k) % n)
  BY <1>1, <1>2, <1>6, <1>7, <1>8, AddIs
<1> QED
  BY <1>1, <1>5, <1>9 DEF Walks
-----------------------------------------------------------------------------
(* The doublings of an iteration, and the table of odd multiples.          *)

LEMMA WindowIs ==
  ASSUME NEW w, w = WindowBits
  PROVE  /\ w \in Nat /\ 2 <= w /\ w <= NumberBits /\ NumberBits \in Nat
         /\ \A i \in 0 .. w : i \in 0 .. NumberBits /\ 2 ^ i \in Nat \ {0}
         /\ \A i \in 1 .. w : 2 ^ i = 2 * 2 ^ (i - 1)
<1>1. w \in Nat /\ 2 <= w /\ w <= NumberBits /\ NumberBits \in Nat
  BY FieldAssumption, CurveAssumption
<1>2. ASSUME NEW i \in 0 .. w  PROVE i \in 0 .. NumberBits /\ 2 ^ i \in Nat \ {0}
  <2>1. i \in 0 .. NumberBits
    BY <1>1
  <2> QED
    BY <2>1, PowersAssumption
<1>3. ASSUME NEW i \in 1 .. w  PROVE 2 ^ i = 2 * 2 ^ (i - 1)
  <2>1. PICK j : j = i - 1
    OBVIOUS
  <2>2. j \in 0 .. NumberBits /\ 1 \in 0 .. NumberBits /\ 1 + j = i /\ 1 + j <= NumberBits
    BY <1>1, <2>1
  <2>3. 2 ^ (1 + j) = 2 ^ 1 * 2 ^ j /\ 2 ^ 1 = 2
    BY <2>2, PowersAssumption
  <2> QED
    BY <2>1, <2>2, <2>3
<1> QED
  BY <1>1, <1>2, <1>3

Doublings(f, c, jp) ==
  f = [n \in 0 .. WindowBits |-> IF n = 0 THEN jp ELSE JacobianDouble(c, f[n - 1])]

LEMMA DoublingsExist ==
  ASSUME Hypotheses, NEW c \in Curves, NEW m \in KeysOf(c), NEW u \in Int, NEW jp, Walks(c, jp, m, u)
  PROVE  \E f : Doublings(f, c, jp)
<1>1. PICK S : S = {q \in JacobianPoints(c) : \E v \in Int : Walks(c, q, m, v)}
  OBVIOUS
<1>2. \A q : (\E v \in Int : Walks(c, q, m, v)) => q \in S
  BY <1>1 DEF Walks, StandsFor
<1>3. jp \in S
  BY <1>2
<1>4. \A q \in S : JacobianDouble(c, q) \in S
  <2>1. ASSUME NEW q \in S  PROVE JacobianDouble(c, q) \in S
    <3>1. PICK v \in Int : Walks(c, q, m, v)
      BY <1>1
    <3>2. Walks(c, JacobianDouble(c, q), m, 2 * v) /\ 2 * v \in Int
      BY <3>1, WalksDouble
    <3> QED
      BY <1>2, <3>2
  <2> QED
    BY <2>1
<1>5. PICK F : F = [z \in Nat \X S |-> JacobianDouble(c, z[2])]
  OBVIOUS
<1>6. F \in [Nat \X S -> S]
  BY <1>4, <1>5
<1>7. WindowBits \in Nat
  BY WindowIs
<1>8. PICK f \in [0 .. WindowBits -> S] : IsTable(f, WindowBits, jp, F)
  BY <1>3, <1>6, <1>7, TablesExist
<1>9. ASSUME NEW i \in 0 .. WindowBits, i # 0
      PROVE  F[<<i - 1, f[i - 1]>>] = JacobianDouble(c, f[i - 1])
  <2>1. i - 1 \in Nat /\ f[i - 1] \in S
    BY <1>7, <1>9
  <2> QED
    BY <1>5, <2>1
<1>10. Doublings(f, c, jp)
  BY <1>8, <1>9 DEF IsTable, Doublings
<1> QED
  BY <1>10

LEMMA DoublingsWalk ==
  ASSUME Hypotheses, NEW c \in Curves, NEW m \in KeysOf(c), NEW u \in Int, NEW jp, Walks(c, jp, m, u),
         NEW f, Doublings(f, c, jp), NEW v, v = 2 ^ WindowBits * u
  PROVE  Walks(c, f[WindowBits], m, v)
<1>1. WindowBits \in Nat
  BY WindowIs
<1>2. f[0] = jp /\ \A i \in 1 .. WindowBits : f[i] = JacobianDouble(c, f[i - 1])
  <2>1. \A i \in 0 .. WindowBits : f[i] = IF i = 0 THEN jp ELSE JacobianDouble(c, f[i - 1])
    BY DEF Doublings
  <2> QED
    BY <1>1, <2>1
<1> DEFINE T == {i \in Nat : i <= WindowBits => Walks(c, f[i], m, 2 ^ i * u)}
<1>3. 0 \in T
  <2>1. 2 ^ 0 = 1
    BY PowersAssumption
  <2>2. 2 ^ 0 * u = u
    BY <2>1
  <2> QED
    BY <1>2, <2>2
<1>4. ASSUME NEW i \in Nat, i \in T  PROVE i + 1 \in T
  <2>1. SUFFICES ASSUME i + 1 <= WindowBits  PROVE Walks(c, f[i + 1], m, 2 ^ (i + 1) * u)
    OBVIOUS
  <2>2. PICK j, a, b, d : j = i + 1 /\ a = 2 ^ i /\ b = 2 ^ j /\ d = a * u
    OBVIOUS
  <2>3. i \in 0 .. WindowBits /\ j \in 1 .. WindowBits /\ j - 1 = i
    BY <1>1, <2>1, <2>2
  <2>4. a \in Nat \ {0} /\ b = 2 * a
    BY <2>2, <2>3, WindowIs
  <2>5. d \in Int /\ b * u = 2 * d
    BY <2>2, <2>4
  <2>6. Walks(c, f[i], m, d)
    BY <1>1, <1>4, <2>2, <2>3
  <2>7. Walks(c, JacobianDouble(c, f[i]), m, 2 * d)
    BY <2>5, <2>6, WalksDouble
  <2>8. f[j] = JacobianDouble(c, f[i])
    BY <1>2, <2>3
  <2> QED
    BY <2>2, <2>5, <2>7, <2>8
<1>5. \A i \in Nat : i \in T
  <2> HIDE DEF T
  <2> QED
    BY <1>3, <1>4, Induction
<1>6. WindowBits \in T
  BY <1>1, <1>5
<1> QED
  BY <1>1, <1>6

TableSize == 2 ^ (WindowBits - 1)

LEMMA TableSizeIs ==
  TableSize \in Nat \ {0} /\ 2 ^ WindowBits = 2 * TableSize
<1>1. PICK w : w = WindowBits
  OBVIOUS
<1>2. w \in Nat /\ 2 <= w /\ w - 1 \in 0 .. w /\ w \in 1 .. w
  BY <1>1, WindowIs
<1>3. 2 ^ (w - 1) \in Nat \ {0} /\ 2 ^ w = 2 * 2 ^ (w - 1)
  BY <1>1, <1>2, WindowIs
<1> QED
  BY <1>1, <1>3 DEF TableSize

OddTable(f, c, p) ==
  f = [i \in 0 .. (TableSize - 1) |-> IF i = 0 THEN p ELSE PointAdd(c, f[i - 1], PointDouble(c, p))]

LEMMA OddMultiplesAre ==
  ASSUME NEW c \in Curves, IsGroup(c), NEW m \in KeysOf(c), NEW j \in 0 .. (TableSize - 1),
         NEW d, d = 2 * j + 1
  PROVE  OddMultiples(c, Times(c, m))[j] = Times(c, KeyOf(c, m, d))
<1>1. PICK n, p, two : n = c.order /\ p = Times(c, m) /\ two = KeyOf(c, m, 2)
  OBVIOUS
<1>2. n \in Nat \ {0} /\ m \in ResiduesOf(c) /\ m \in Int /\ 3 <= n /\ m \in 0 .. (n - 1)
  BY <1>1, ResiduesAre, CurveIs DEF KeysOf
<1>3. PICK s : s = TableSize - 1
  OBVIOUS
<1>4. s \in Nat
  BY <1>3, TableSizeIs
<1>5. \A u \in Int : KeyOf(c, m, u) \in ResiduesOf(c)
  BY <1>2, ResiduesAre DEF KeyOf
<1>6. PointDouble(c, p) = Times(c, two)
  <2>1. p # Infinity
    BY <1>1, GroupIs
  <2>2. PointAdd(c, p, p) = Times(c, (m + m) % n)
    BY <1>1, <1>2, GroupIs
  <2>3. PointAdd(c, p, p) = PointDouble(c, p)
    BY <2>1 DEF PointAdd, PointIsNegativeOf
  <2>4. m + m = 2 * m
    BY <1>2
  <2> QED
    BY <1>1, <2>2, <2>3, <2>4 DEF KeyOf
<1>7. \A u \in Int : PointAdd(c, Times(c, KeyOf(c, m, u)), Times(c, two)) = Times(c, KeyOf(c, m, u + 2))
  <2>1. ASSUME NEW u \in Int
        PROVE  PointAdd(c, Times(c, KeyOf(c, m, u)), Times(c, two)) = Times(c, KeyOf(c, m, u + 2))
    <3>1. PICK k, a, b : k = KeyOf(c, m, u) /\ a = u * m /\ b = 2 * m
      OBVIOUS
    <3>2. a \in Int /\ b \in Int /\ k = a % n /\ two = b % n
      BY <1>1, <1>2, <3>1 DEF KeyOf
    <3>3. k \in ResiduesOf(c) /\ two \in ResiduesOf(c) /\ k \in Int /\ two \in Int
      BY <1>1, <1>5, <3>1, ResiduesAre
    <3>4. PointAdd(c, Times(c, k), Times(c, two)) = Times(c, (k + two) % n)
      BY <1>1, <3>3, GroupIs
    <3>5. ((a % n) + two) % n = (a + two) % n /\ ((b % n) + a) % n = (b + a) % n
      BY <1>2, <3>2, <3>3, RemainderPlus, ZenonT(60)
    <3>6. (b % n) + a = a + two /\ b + a = (u + 2) * m
      BY <1>2, <3>1, <3>2
    <3>7. (k + two) % n = ((u + 2) * m) % n
      BY <3>2, <3>5, <3>6
    <3> QED
      BY <1>1, <3>1, <3>4, <3>7 DEF KeyOf
  <2> QED
    BY <2>1
<1>8. p = Times(c, KeyOf(c, m, 1))
  <2>1. m % n = m /\ 1 * m = m
    BY <1>2, SmallRemainder
  <2> QED
    BY <1>1, <2>1 DEF KeyOf
<1>9. \E f : OddTable(f, c, p)
  <2>1. PICK S : S = {Times(c, KeyOf(c, m, u)) : u \in Int}
    OBVIOUS
  <2>2. p \in S
    <3>1. 1 \in Int
      OBVIOUS
    <3> QED
      BY <1>8, <2>1, <3>1
  <2>3. \A g \in S : PointAdd(c, g, PointDouble(c, p)) \in S
    <3>1. ASSUME NEW g \in S  PROVE PointAdd(c, g, PointDouble(c, p)) \in S
      <4>1. PICK u \in Int : g = Times(c, KeyOf(c, m, u))
        BY <2>1
      <4>2. PICK v : v = u + 2
        OBVIOUS
      <4>3. v \in Int /\ PointAdd(c, g, PointDouble(c, p)) = Times(c, KeyOf(c, m, v))
        BY <1>6, <1>7, <4>1, <4>2
      <4> QED
        BY <2>1, <4>3
    <3> QED
      BY <3>1
  <2>4. PICK F : F = [z \in Nat \X S |-> PointAdd(c, z[2], PointDouble(c, p))]
    OBVIOUS
  <2>5. F \in [Nat \X S -> S]
    BY <2>3, <2>4
  <2>6. PICK f \in [0 .. s -> S] : IsTable(f, s, p, F)
    BY <1>4, <2>2, <2>5, TablesExist
  <2>7. ASSUME NEW i \in 0 .. s, i # 0
        PROVE  F[<<i - 1, f[i - 1]>>] = PointAdd(c, f[i - 1], PointDouble(c, p))
    <3>1. i - 1 \in Nat /\ f[i - 1] \in S
      BY <1>4, <2>7
    <3> QED
      BY <2>4, <3>1
  <2>8. OddTable(f, c, p)
    BY <1>3, <2>6, <2>7 DEF IsTable, OddTable
  <2> QED
    BY <2>8
<1>10. PICK f : f = OddMultiples(c, p)
  OBVIOUS
<1>11. OddTable(f, c, p)
  <2> DEFINE P(h) == OddTable(h, c, p)
  <2>1. f = CHOOSE h : P(h)
    BY <1>10 DEF OddMultiples, OddTable, TableSize
  <2>2. \E h : P(h)
    BY <1>9
  <2> HIDE DEF P
  <2>3. P(f)
    BY <2>1, <2>2
  <2> QED
    BY <2>3 DEF P
<1>12. f[0] = p /\ \A i \in 1 .. s : f[i] = PointAdd(c, f[i - 1], Times(c, two))
  <2>1. \A i \in 0 .. s : f[i] = IF i = 0 THEN p ELSE PointAdd(c, f[i - 1], PointDouble(c, p))
    BY <1>3, <1>11 DEF OddTable
  <2> QED
    BY <1>4, <1>6, <2>1
<1> DEFINE T == {i \in Nat : i <= s => f[i] = Times(c, KeyOf(c, m, 2 * i + 1))}
<1>13. 0 \in T
  <2>1. 2 * 0 + 1 = 1
    OBVIOUS
  <2> QED
    BY <1>8, <1>12, <2>1
<1>14. ASSUME NEW i \in Nat, i \in T  PROVE i + 1 \in T
  <2>1. SUFFICES ASSUME i + 1 <= s  PROVE f[i + 1] = Times(c, KeyOf(c, m, 2 * (i + 1) + 1))
    OBVIOUS
  <2>2. PICK k, u, v : k = i + 1 /\ u = 2 * i + 1 /\ v = u + 2
    OBVIOUS
  <2>3. k \in 1 .. s /\ k - 1 = i /\ u \in Int /\ v = 2 * (i + 1) + 1
    BY <1>4, <2>1, <2>2
  <2>4. f[i] = Times(c, KeyOf(c, m, u))
    BY <1>4, <1>14, <2>1, <2>2
  <2>5. f[k] = PointAdd(c, f[i], Times(c, two))
    BY <1>12, <2>3
  <2>6. PointAdd(c, Times(c, KeyOf(c, m, u)), Times(c, two)) = Times(c, KeyOf(c, m, v))
    BY <1>7, <2>2, <2>3
  <2> QED
    BY <2>2, <2>3, <2>4, <2>5, <2>6
<1>15. \A i \in Nat : i \in T
  <2> HIDE DEF T
  <2> QED
    BY <1>13, <1>14, Induction
<1>16. j \in T /\ j <= s
  BY <1>3, <1>4, <1>15
<1> QED
  BY <1>1, <1>10, <1>16
-----------------------------------------------------------------------------
(* The digits of a scalar.                                                 *)

Span(i) == 2 ^ (WindowBits * i)
Window == 2 ^ WindowBits

LEMMA SpanIs ==
  ASSUME NEW t, t = Top, NEW r, r = Window, NEW q, q = 2 ^ NumberBits
  PROVE  /\ t \in Nat /\ r \in Nat \ {0} /\ q \in Nat \ {0}
         /\ Span(0) = 1 /\ Span(t + 1) = q
         /\ \A i \in 0 .. (t + 1) : Span(i) \in Nat \ {0}
         /\ \A i \in 0 .. t : Span(i + 1) = Span(i) * r
         /\ \A i \in 0 .. (t + 1) : Span(t + 1 - i) * Span(i) = q
<1>1. PICK w, l, s : w = WindowBits /\ l = NumberBits /\ s = t + 1
  OBVIOUS
<1>2. w \in Nat \ {0} /\ w <= l /\ l \in Nat
  BY <1>1, WindowIs
<1>3. s \in Int /\ l = w * s /\ t \in Int
  <2>1. PICK d : d = l \div w
    OBVIOUS
  <2>2. l % w = 0
    BY <1>1, CurveAssumption
  <2>3. d \in Int /\ l = w * d + 0
    BY <1>2, <2>1, <2>2, Split
  <2>4. t = d - 1
    BY <1>1, <2>1 DEF Top
  <2>5. s = d
    BY <1>1, <2>3, <2>4
  <2>6. l = w * s
    BY <1>2, <2>3, <2>5
  <2> QED
    BY <2>3, <2>4, <2>5, <2>6
<1>4. s >= 1
  <2>1. ASSUME s <= 0  PROVE w * s <= 0
    BY <1>2, <1>3, <2>1
  <2> QED
    BY <1>2, <1>3, <2>1
<1>5. t \in Nat /\ s \in Nat
  BY <1>1, <1>3, <1>4
<1>6. ASSUME NEW i \in 0 .. s  PROVE w * i \in 0 .. l
  <2>1. PICK j : j = s - i
    OBVIOUS
  <2>2. j \in Nat /\ i \in Nat /\ s = i + j
    BY <1>5, <2>1
  <2>3. w * s = w * i + w * j
    BY <1>2, <2>2
  <2>4. w * i \in Nat /\ w * j \in Nat
    BY <1>2, <2>2
  <2> QED
    BY <1>2, <1>3, <2>3, <2>4
<1>7. \A i \in 0 .. s : Span(i) \in Nat \ {0}
  BY <1>1, <1>6, PowersAssumption DEF Span
<1>8. ASSUME NEW i \in 0 .. s, NEW j \in 0 .. s, i + j <= s
      PROVE  Span(i) * Span(j) = Span(i + j)
  <2>1. PICK a, b : a = w * i /\ b = w * j
    OBVIOUS
  <2>2. i + j \in 0 .. s
    BY <1>5, <1>8
  <2>3. a \in 0 .. l /\ b \in 0 .. l /\ a + b = w * (i + j) /\ w * (i + j) \in 0 .. l
    <3>1. i \in Int /\ j \in Int
      BY <1>5
    <3>2. a \in 0 .. l /\ b \in 0 .. l
      BY <1>6, <2>1
    <3>3. w * (i + j) \in 0 .. l
      BY <1>6, <2>2
    <3>4. a + b = w * (i + j)
      BY <1>2, <2>1, <3>1
    <3> QED
      BY <3>2, <3>3, <3>4
  <2>4. a + b <= l
    BY <1>2, <2>3
  <2>5. 2 ^ (a + b) = 2 ^ a * 2 ^ b
    BY <1>1, <2>3, <2>4, PowersAssumption
  <2> QED
    BY <1>1, <2>1, <2>3, <2>5 DEF Span
<1>9. Span(0) = 1 /\ Span(1) = r /\ Span(s) = q
  <2>1. w * 0 = 0 /\ w * 1 = w
    BY <1>2
  <2>2. 2 ^ 0 = 1
    BY PowersAssumption
  <2> QED
    BY <1>1, <1>3, <2>1, <2>2 DEF Span, Window
<1>10. 1 \in 0 .. s /\ s \in 0 .. s
  BY <1>4, <1>5
<1>11. r \in Nat \ {0} /\ q \in Nat \ {0}
  BY <1>7, <1>9, <1>10
<1>12. ASSUME NEW i \in 0 .. t  PROVE Span(i + 1) = Span(i) * r
  <2>1. i \in 0 .. s /\ i + 1 <= s
    BY <1>1, <1>5
  <2>2. Span(i) * Span(1) = Span(i + 1)
    BY <1>8, <1>10, <2>1
  <2> QED
    BY <1>9, <2>2
<1>13. ASSUME NEW i \in 0 .. s  PROVE Span(s - i) * Span(i) = q
  <2>1. PICK j : j = s - i
    OBVIOUS
  <2>2. j \in 0 .. s /\ j + i = s /\ j + i <= s
    BY <1>5, <2>1
  <2>3. Span(j) * Span(i) = Span(j + i)
    BY <1>8, <2>2
  <2> QED
    BY <1>9, <2>1, <2>2, <2>3
<1> QED
  BY <1>1, <1>5, <1>7, <1>9, <1>11, <1>12, <1>13

\* Even and odd.
IsEven(a) == a % 2 = 0

LEMMA ParityIs ==
  ASSUME NEW a \in Int
  PROVE  /\ ~IsEven(a) => a % 2 = 1
         /\ IsEven(a) <=> \E h \in Int : a = 2 * h
         /\ ~IsEven(a) <=> \E h \in Int : a = 2 * h + 1
<1>1. a % 2 \in {0, 1}
  OBVIOUS
<1>2. PICK h : h = a \div 2
  OBVIOUS
<1>3. h \in Int /\ a = 2 * h + (a % 2)
  BY <1>2
<1>4. a % 2 = 0 => a = 2 * h
  BY <1>3
<1>5. a % 2 = 1 => a = 2 * h + 1
  BY <1>3
<1>6. \A g \in Int : a = 2 * g => a % 2 = 0
  OBVIOUS
<1>7. \A g \in Int : a = 2 * g + 1 => a % 2 = 1
  OBVIOUS
<1>8. a % 2 = 0 <=> \E g \in Int : a = 2 * g
  BY <1>3, <1>4, <1>6
<1>9. a % 2 = 1 <=> \E g \in Int : a = 2 * g + 1
  BY <1>3, <1>5, <1>7
<1>10. IsEven(a) <=> a % 2 = 0
  BY DEF IsEven
<1>11. ~IsEven(a) <=> a % 2 = 1
  BY <1>1, <1>10
<1> QED
  BY <1>8, <1>9, <1>10, <1>11

LEMMA EvenSpan ==
  ASSUME NEW i \in 1 .. (Top + 1)
  PROVE  Span(i) \in Nat \ {0} /\ IsEven(Span(i))
<1>1. PICK t, r, s, b, j : t = Top /\ r = Window /\ s = Span(j) /\ b = TableSize /\ j = i - 1
  OBVIOUS
<1>2. /\ t \in Nat /\ \A k \in 0 .. (t + 1) : Span(k) \in Nat \ {0}
      /\ \A k \in 0 .. t : Span(k + 1) = Span(k) * r
  BY <1>1, SpanIs
<1>3. j \in 0 .. t /\ j + 1 = i /\ i \in 0 .. (t + 1) /\ j \in 0 .. (t + 1)
  BY <1>1, <1>2
<1>4. s \in Nat /\ Span(i) = s * r /\ Span(i) \in Nat \ {0}
  BY <1>1, <1>2, <1>3
<1>5. b \in Nat /\ r = 2 * b
  BY <1>1, TableSizeIs DEF Window
<1>6. PICK h : h = s * b
  OBVIOUS
<1>7. h \in Int /\ Span(i) = 2 * h
  BY <1>4, <1>5, <1>6
<1> QED
  BY <1>4, <1>7, ParityIs

LEMMA OddIs ==
  ASSUME NEW c \in Curves, NEW n, n = c.order, NEW q, q = 2 ^ NumberBits,
         NEW k \in 1 .. (n - 1), NEW a, a = Odd(k, c)
  PROVE  /\ a \in Nat /\ ~IsEven(a)
         /\ \/ ~IsEven(k) /\ a = q + k /\ k < q
            \/ \E e \in 1 .. (n - 1) : ~IsEven(e) /\ e < q /\ a = q - e /\ k = n - e
<1>1. n \in Nat /\ q \in Nat /\ 3 <= n /\ n % 2 = 1 /\ n < q
  <2>1. PICK p : p = c.prime
    OBVIOUS
  <2>2. n \in Nat /\ p \in Nat /\ q \in Nat /\ 3 <= n /\ n % 2 = 1 /\ n <= p /\ p < q
    BY <2>1, CurveIs
  <2> QED
    BY <2>2
<1>2. PICK g \in Int : n = 2 * g + 1
  <2>1. ~IsEven(n)
    BY <1>1 DEF IsEven
  <2> QED
    BY <1>1, <2>1, ParityIs
<1>3. PICK f \in Int : q = 2 * f
  <2>1. PICK s : s = Top + 1
    OBVIOUS
  <2>2. Top \in Nat /\ Span(s) = q
    BY <2>1, SpanIs
  <2>3. s \in 1 .. (Top + 1)
    BY <2>1, <2>2
  <2>4. IsEven(q)
    BY <2>2, <2>3, EvenSpan
  <2> QED
    BY <1>1, <2>4, ParityIs
<1>4. k \in Int
  OBVIOUS
<1>5. CASE IsEven(k)
  <2>1. PICK h \in Int : k = 2 * h
    BY <1>4, <1>5, ParityIs
  <2>2. a = k + q - n
    BY <1>5 DEF Odd, IsEven
  <2>3. PICK e, u, v : e = n - k /\ u = g - h /\ v = h + f - g - 1
    OBVIOUS
  <2>4. /\ e \in 1 .. (n - 1) /\ e \in Int /\ u \in Int /\ e = 2 * u + 1 /\ v \in Int
        /\ a \in Int /\ a = 2 * v + 1 /\ a = q - e /\ e < q /\ k = n - e
    BY <1>1, <1>2, <1>3, <2>1, <2>2, <2>3
  <2>5. ~IsEven(e) /\ ~IsEven(a)
    BY <2>4, ParityIs
  <2>6. a \in Nat
    BY <1>1, <2>4
  <2> QED
    BY <2>4, <2>5, <2>6
<1>6. CASE ~IsEven(k)
  <2>1. PICK h \in Int : k = 2 * h + 1
    BY <1>4, <1>6, ParityIs
  <2>2. a = k + q - 0
    BY <1>6 DEF Odd, IsEven
  <2>3. PICK v : v = h + f
    OBVIOUS
  <2>4. v \in Int /\ a \in Int /\ a = 2 * v + 1 /\ a = q + k /\ k < q
    BY <1>1, <1>3, <2>1, <2>2, <2>3
  <2>5. ~IsEven(a)
    BY <2>4, ParityIs
  <2> QED
    BY <1>1, <1>6, <2>4, <2>5
<1> QED
  BY <1>5, <1>6

\* The odd number that a digit comes from.
OddUp(l) == IF IsEven(l) THEN l + 1 ELSE l

LEMMA OddUpIs ==
  ASSUME NEW l \in Int
  PROVE  /\ OddUp(l) \in Int /\ OddUp(l) = 2 * (l \div 2) + 1 /\ l <= OddUp(l) /\ OddUp(l) <= l + 1
         /\ ~IsEven(OddUp(l))
         /\ \A h \in Int : OddUp(2 * h + l) = 2 * h + OddUp(l)
<1>1. OddUp(l) \in Int /\ l <= OddUp(l) /\ OddUp(l) <= l + 1
  BY DEF OddUp
<1>2. PICK g : g = l \div 2
  OBVIOUS
<1>3. g \in Int /\ OddUp(l) = 2 * g + 1
  BY <1>2 DEF OddUp, IsEven
<1>4. ~IsEven(OddUp(l))
  BY <1>1, <1>3, ParityIs
<1>5. ASSUME NEW h \in Int  PROVE OddUp(2 * h + l) = 2 * h + OddUp(l)
  <2>1. (2 * h + l) % 2 = l % 2
    OBVIOUS
  <2> QED
    BY <2>1 DEF OddUp, IsEven
<1> QED
  BY <1>1, <1>2, <1>3, <1>4, <1>5

LEMMA HalfIs ==
  ASSUME NEW b \in Nat \ {0}, NEW l \in 0 .. (2 * b - 1), NEW v, v = 2 * b - 1 - l
  PROVE  /\ l \div 2 \in 0 .. (b - 1) /\ v \div 2 \in 0 .. (b - 1)
         /\ OddUp(l) = 2 * (l \div 2) + 1 /\ OddUp(l) \in 1 .. (2 * b - 1)
         /\ 2 * (v \div 2) + 1 = 2 * b - OddUp(l)
<1>1. PICK h, g : h = l \div 2 /\ g = b - 1 - h
  OBVIOUS
<1>2. l \in Int /\ v \in Int
  OBVIOUS
<1>3. h \in Int /\ OddUp(l) = 2 * h + 1 /\ (l = 2 * h \/ l = 2 * h + 1)
  <2>1. OddUp(l) = 2 * h + 1
    BY <1>1, <1>2, OddUpIs
  <2>2. h \in Int /\ (l = 2 * h \/ l = 2 * h + 1)
    BY <1>1, <1>2
  <2> QED
    BY <2>1, <2>2
<1>4. h \in 0 .. (b - 1) /\ g \in 0 .. (b - 1)
  BY <1>1, <1>2, <1>3
<1>5. v = 2 * g \/ v = 2 * g + 1
  BY <1>1, <1>3
<1>6. v \div 2 = g
  BY <1>4, <1>5
<1> QED
  BY <1>1, <1>3, <1>4, <1>6

Digit(a) == 2 * TableIndex(a) + 1

LEMMA DigitIs ==
  ASSUME NEW a \in Nat, NEW r, r = Window, NEW l, l = a % r
  PROVE  /\ TableIndex(a) \in 0 .. (TableSize - 1) /\ l \in 0 .. (r - 1)
         /\ Digit(a) = IF Negative(a) THEN r - OddUp(l) ELSE OddUp(l)
         /\ OddUp(l) \in 1 .. (r - 1) /\ Digit(a) \in 1 .. (r - 1)
<1>1. PICK b : b = TableSize
  OBVIOUS
<1>2. b \in Nat \ {0} /\ r = 2 * b /\ r \in Nat \ {0}
  BY <1>1, TableSizeIs DEF Window
<1>3. l \in 0 .. (r - 1)
  <2>1. a \in Int
    OBVIOUS
  <2>2. a % r \in 0 .. (r - 1)
    BY <1>2, <2>1, Split
  <2> QED
    BY <1>2, <2>2
<1>4. PICK v, o, d, i : v = r - 1 - l /\ o = OddUp(l) /\ d = Digit(a) /\ i = TableIndex(a)
  OBVIOUS
<1>5. v = 2 * b - 1 - l /\ l \in 0 .. (2 * b - 1)
  BY <1>2, <1>3, <1>4
<1>6. /\ l \div 2 \in 0 .. (b - 1) /\ v \div 2 \in 0 .. (b - 1)
      /\ o = 2 * (l \div 2) + 1 /\ o \in 1 .. (r - 1) /\ 2 * (v \div 2) + 1 = r - o
  BY <1>2, <1>4, <1>5, HalfIs, ZenonT(60)
<1>7. i = IF Negative(a) THEN v \div 2 ELSE l \div 2
  BY <1>4 DEF TableIndex, Window
<1>8. d = 2 * i + 1
  BY <1>4 DEF Digit
<1>9. d = IF Negative(a) THEN r - o ELSE o
  BY <1>6, <1>7, <1>8
<1>10. i \in 0 .. (b - 1)
  BY <1>6, <1>7
<1>11. d \in 1 .. (r - 1)
  BY <1>2, <1>6, <1>9
<1> QED
  BY <1>1, <1>3, <1>4, <1>6, <1>9, <1>10, <1>11

LEMMA DivideTwice ==
  ASSUME NEW x \in Nat, NEW a \in Nat \ {0}, NEW b \in Nat \ {0}
  PROVE  (x \div a) \div b = x \div (a * b)
<1>1. PICK q, r, u, v, w : /\ q = x \div a /\ r = x % a /\ u = q \div b /\ v = q % b
                           /\ w = a * b
  OBVIOUS
<1>2. x \in Int /\ q \in Int /\ r \in 0 .. (a - 1) /\ x = a * q + r
  <2>1. x \in Int
    OBVIOUS
  <2> QED
    BY <1>1, <2>1, Split
<1>3. u \in Int /\ v \in 0 .. (b - 1) /\ q = b * u + v
  BY <1>1, <1>2, Split
<1>4. PICK s, f : s = a * v /\ f = s + r
  OBVIOUS
<1>5. w \in Nat \ {0}
  BY <1>1
<1>6. f \in 0 .. (w - 1)
  <2>1. PICK m, z : m = b - 1 - v /\ z = a * m
    OBVIOUS
  <2>2. m \in Nat /\ z \in Nat
    BY <1>3, <2>1
  <2>3. w = s + z + a
    BY <1>1, <1>3, <1>4, <2>1
  <2>4. s \in Nat
    BY <1>3, <1>4
  <2> QED
    BY <1>2, <1>4, <2>2, <2>3, <2>4
<1>7. x = w * u + f
  <2>1. x = a * (b * u + v) + r
    BY <1>2, <1>3
  <2>2. a * (b * u + v) = (a * b) * u + a * v
    BY <1>3
  <2>3. (a * b) * u \in Int /\ a * v \in Int
    BY <1>3
  <2> QED
    BY <1>1, <1>2, <1>4, <2>1, <2>2, <2>3
<1>8. x \div w = u
  BY <1>2, <1>3, <1>5, <1>6, <1>7, Divided
<1> QED
  BY <1>1, <1>8

LEMMA EvenWindow ==
  ASSUME NEW r, r = Window
  PROVE  /\ r \in Nat \ {0} /\ \E h \in Int : r = 2 * h
         /\ \A u \in Int, l \in Int : OddUp(r * u + l) = r * u + OddUp(l)
         /\ \A u \in Int, l \in Int : IsEven(r * u + l) <=> IsEven(l)
<1>1. PICK b : b = TableSize
  OBVIOUS
<1>2. b \in Nat \ {0} /\ b \in Int /\ r = 2 * b /\ r \in Nat \ {0}
  BY <1>1, TableSizeIs DEF Window
<1>3. ASSUME NEW u \in Int, NEW l \in Int
      PROVE  OddUp(r * u + l) = r * u + OddUp(l) /\ (IsEven(r * u + l) <=> IsEven(l))
  <2>1. PICK h : h = b * u
    OBVIOUS
  <2>2. h \in Int /\ r * u = 2 * h
    BY <1>2, <2>1
  <2>3. OddUp(2 * h + l) = 2 * h + OddUp(l)
    BY <2>2, OddUpIs
  <2>4. (2 * h + l) % 2 = l % 2
    BY <2>2
  <2> QED
    BY <2>2, <2>3, <2>4 DEF IsEven
<1> QED
  BY <1>2, <1>3

-----------------------------------------------------------------------------
(* scalar_multiply: what the digits so far come to.                        *)

BasePart(a, s) == IF (a \div s) % 2 = 1 THEN a % s ELSE s - (a % s)

LEMMA BasePartIs ==
  ASSUME NEW a \in Nat, ~IsEven(a), NEW s \in Nat \ {0}, IsEven(s)
  PROVE  BasePart(a, s) \in 1 .. (s - 1) /\ a % s \in 1 .. (s - 1) /\ ~IsEven(a % s)
<1>1. PICK b, f : b = a \div s /\ f = a % s
  OBVIOUS
<1>2. a \in Int /\ s \in Int /\ b \in Int /\ f \in 0 .. (s - 1) /\ a = s * b + f
  <2>1. a \in Int
    OBVIOUS
  <2> QED
    <3>1. a \div s \in Int /\ a % s \in 0 .. (s - 1) /\ a = s * (a \div s) + (a % s)
      BY <2>1, Split
    <3>2. a \div s \in Nat
      BY <2>1, Split
    <3> QED
      BY <1>1, <2>1, <3>1, <3>2
<1>3. PICK h \in Int : s = 2 * h
  BY <1>2, ParityIs
<1>4. PICK g \in Int : a = 2 * g + 1
  BY <1>2, ParityIs
<1>5. PICK e : e = g - h * b
  OBVIOUS
<1>6. e \in Int /\ f = 2 * e + 1
  <2>1. PICK m : m = h * b
    OBVIOUS
  <2>2. m \in Int /\ s * b = 2 * m
    BY <1>2, <1>3, <2>1
  <2> QED
    BY <1>2, <1>4, <1>5, <2>1, <2>2
<1>7. ~IsEven(f) /\ f # 0
  <2>1. f \in Int
    BY <1>2
  <2> QED
    BY <1>6, <2>1, ParityIs
<1>8. f \in 1 .. (s - 1) /\ s - f \in 1 .. (s - 1)
  BY <1>2, <1>7
<1> QED
  BY <1>1, <1>7, <1>8 DEF BasePart

LEMMA BaseMoves ==
  ASSUME NEW a \in Nat, NEW s \in Nat \ {0}, NEW t, t = s * Window, NEW b, b = a \div s,
         NEW x, x = BasePart(a, s), NEW y, y = IF Negative(b) = IsEven(b) THEN x ELSE -x
  PROVE  BasePart(a, t) = s * Digit(b) + y /\ (Negative(b) <=> (a \div t) % 2 # 1)
<1>1. PICK r, f, u, l, o, d : /\ r = Window /\ f = a % s /\ u = b \div r /\ l = b % r
                              /\ o = OddUp(l) /\ d = Digit(b)
  OBVIOUS
<1>2. r \in Nat \ {0} /\ s \in Int /\ t = s * r /\ t \in Nat \ {0}
  <2>1. r \in Nat \ {0}
    BY <1>1, EvenWindow
  <2>2. t = s * r
    BY <1>1
  <2>3. s * r \in Nat /\ s * r # 0
    BY <2>1
  <2> QED
    BY <2>1, <2>2, <2>3
<1>3. a \in Int /\ b \in Nat /\ f \in 0 .. (s - 1) /\ a = s * b + f
  <2>1. a \in Int
    OBVIOUS
  <2> QED
    BY <1>1, <2>1, Split
<1>4. b \in Int /\ u \in Int /\ l \in 0 .. (r - 1) /\ b = r * u + l /\ l \in Int
  <2>1. b \in Int
    BY <1>3
  <2>2. u \in Int /\ l \in 0 .. (r - 1) /\ b = r * u + l
    BY <1>1, <1>2, <2>1, Split
  <2> QED
    BY <2>1, <2>2
<1>5. o \in Int /\ d = IF Negative(b) THEN r - o ELSE o
  <2>1. o \in Int
    BY <1>1, <1>4, OddUpIs
  <2> QED
    BY <1>1, <1>3, <2>1, DigitIs
<1>6. PICK e, g : e = s * l /\ g = e + f
  OBVIOUS
<1>7. e \in Nat /\ g \in 0 .. (t - 1)
  <2>1. PICK m, z : m = r - 1 - l /\ z = s * m
    OBVIOUS
  <2>2. m \in Nat /\ z \in Nat
    BY <1>2, <1>4, <2>1
  <2>3. t = e + z + s
    BY <1>2, <1>4, <1>6, <2>1
  <2>4. e \in Nat
    BY <1>4, <1>6
  <2> QED
    BY <1>3, <1>6, <2>2, <2>3, <2>4
<1>8. a = t * u + g
  <2>1. s * (r * u + l) = (s * r) * u + s * l
    BY <1>2, <1>4
  <2>2. (s * r) * u \in Int /\ s * l \in Int
    BY <1>2, <1>4
  <2> QED
    BY <1>2, <1>3, <1>4, <1>6, <2>1, <2>2
<1>9. a \div t = u /\ a % t = g
  BY <1>2, <1>3, <1>4, <1>7, <1>8, Divided, ZenonT(60)
<1>10. Negative(b) <=> u % 2 = 0
  BY <1>1 DEF Negative, Window
<1>11. u % 2 = 0 <=> u % 2 # 1
  BY <1>4
<1>12. BasePart(a, t) = IF Negative(b) THEN t - g ELSE g
  BY <1>9, <1>10, <1>11 DEF BasePart
<1>13. IsEven(b) <=> IsEven(l)
  <2>1. IsEven(r * u + l) <=> IsEven(l)
    BY <1>1, <1>4, EvenWindow
  <2> QED
    BY <1>4, <2>1
<1>14. x = IF IsEven(b) THEN s - f ELSE f
  <2>1. b % 2 = 0 <=> b % 2 # 1
    BY <1>4
  <2> QED
    BY <1>1, <2>1 DEF BasePart, IsEven
<1>15. o = IF IsEven(b) THEN l + 1 ELSE l
  BY <1>1, <1>13 DEF OddUp
<1>16. PICK k : k = s * d
  OBVIOUS
<1>17. k = IF Negative(b) THEN (IF IsEven(b) THEN t - e - s ELSE t - e)
                          ELSE (IF IsEven(b) THEN e + s ELSE e)
  <2>1. s * (r - (l + 1)) = s * r - s * l - s /\ s * (r - l) = s * r - s * l
        /\ s * (l + 1) = s * l + s
    BY <1>2, <1>4
  <2> QED
    BY <1>2, <1>5, <1>6, <1>15, <1>16, <2>1
<1>18. y = IF Negative(b) = IsEven(b) THEN (IF IsEven(b) THEN s - f ELSE f)
           ELSE (IF IsEven(b) THEN f - s ELSE -f)
  BY <1>2, <1>3, <1>14
<1>19. BasePart(a, t) = k + y
  <2>1. e \in Int /\ f \in Int /\ t \in Int /\ Negative(b) \in BOOLEAN /\ IsEven(b) \in BOOLEAN
    BY <1>2, <1>3, <1>7 DEF Negative, IsEven
  <2>2. CASE Negative(b) /\ IsEven(b)
    <3>1. y = s - f
      BY <1>18, <2>1, <2>2
    <3>2. k = t - e - s
      BY <1>17, <2>2
    <3>3. BasePart(a, t) = t - g
      BY <1>12, <2>2
    <3> QED
      BY <1>2, <1>6, <2>1, <3>1, <3>2, <3>3
  <2>3. CASE Negative(b) /\ ~IsEven(b)
    <3>1. y = -f
      BY <1>18, <2>1, <2>3
    <3>2. k = t - e
      BY <1>17, <2>3
    <3> QED
      BY <1>6, <1>12, <2>1, <2>3, <3>1, <3>2
  <2>4. CASE ~Negative(b) /\ IsEven(b)
    <3>1. y = f - s
      BY <1>18, <2>1, <2>4
    <3>2. k = e + s
      BY <1>17, <2>4
    <3>3. BasePart(a, t) = g
      BY <1>12, <2>4
    <3> QED
      BY <1>2, <1>6, <2>1, <3>1, <3>2, <3>3
  <2>5. CASE ~Negative(b) /\ ~IsEven(b)
    BY <1>6, <1>12, <1>17, <1>18, <2>1, <2>5
  <2> QED
    BY <2>2, <2>3, <2>4, <2>5
<1> QED
  BY <1>1, <1>9, <1>10, <1>11, <1>16, <1>19

LEMMA OrderBounds ==
  ASSUME NEW c \in Curves, NEW n, n = c.order
  PROVE  /\ n \in Nat /\ n < 2 ^ NumberBits
         /\ \A i \in 0 .. Top : Span(i) < n
         /\ Top # 0 => Window < n
<1>1. PICK t, r, q : t = Top /\ r = Window /\ q = 2 ^ NumberBits
  OBVIOUS
<1>2. /\ t \in Nat /\ r \in Nat \ {0} /\ q \in Nat \ {0} /\ Span(0) = 1
      /\ \A i \in 0 .. (t + 1) : Span(i) \in Nat \ {0}
      /\ \A i \in 0 .. t : Span(i + 1) = Span(i) * r
      /\ \A i \in 0 .. (t + 1) : Span(t + 1 - i) * Span(i) = q
  BY <1>1, SpanIs
<1>3. n \in Nat /\ n < q
  <2>1. PICK p : p = c.prime
    OBVIOUS
  <2>2. n \in Nat /\ p \in Nat /\ q \in Nat /\ n <= p /\ p < q
    BY <1>1, <2>1, CurveIs
  <2> QED
    BY <2>2
<1>4. Span(t) < n
  <2>1. PICK l, w, d : l = NumberBits /\ w = WindowBits /\ d = l \div w
    OBVIOUS
  <2>2. w \in Nat \ {0} /\ l \in Nat /\ l \in Int
    BY <2>1, WindowIs
  <2>3. l % w = 0
    BY <2>1, CurveAssumption
  <2>4. d \in Int /\ l = w * d + 0
    BY <2>1, <2>2, <2>3, Split
  <2>5. t = d - 1
    BY <1>1, <2>1 DEF Top
  <2>6. w * t = l - w
    BY <2>2, <2>4, <2>5
  <2>7. Span(t) = 2 ^ (l - w)
    BY <2>1, <2>6 DEF Span
  <2>8. PICK h : h = 2 ^ (l - w)
    OBVIOUS
  <2>9. n \in (h + 1) .. c.prime
    BY <2>1, <2>8, CurveAssumption
  <2>10. h \in Nat
    BY <1>2, <2>7, <2>8
  <2>11. c.prime \in Nat
    BY CurveIs
  <2> QED
    BY <2>7, <2>8, <2>9, <2>10, <2>11
<1>5. ASSUME NEW i \in 0 .. (t - 1)  PROVE Span(i) <= Span(i + 1) /\ r <= Span(i + 1)
  <2>1. i \in 0 .. t /\ i \in 0 .. (t + 1)
    BY <1>2
  <2>2. PICK s : s = Span(i)
    OBVIOUS
  <2>3. s \in Nat \ {0} /\ Span(i + 1) = s * r
    BY <1>2, <2>1, <2>2
  <2>4. s * r >= s /\ s * r >= r
    <3>1. PICK u, v : u = s - 1 /\ v = r - 1
      OBVIOUS
    <3>2. u \in Nat /\ v \in Nat /\ s * v \in Nat /\ u * r \in Nat
      BY <1>2, <2>3, <3>1
    <3>3. s * r = s + s * v /\ s * r = r + u * r
      BY <1>2, <2>3, <3>1
    <3> QED
      BY <1>2, <2>3, <3>2, <3>3
  <2> QED
    BY <2>2, <2>3, <2>4
<1> DEFINE T == {j \in Nat : j <= t => Span(t - j) < n}
<1>6. 0 \in T
  BY <1>2, <1>4
<1>7. ASSUME NEW j \in Nat, j \in T  PROVE j + 1 \in T
  <2>1. SUFFICES ASSUME j + 1 <= t  PROVE Span(t - (j + 1)) < n
    OBVIOUS
  <2>2. PICK i : i = t - (j + 1)
    OBVIOUS
  <2>3. i \in 0 .. (t - 1) /\ i + 1 = t - j /\ j <= t /\ i \in 0 .. (t + 1) /\ i + 1 \in 0 .. (t + 1)
    BY <1>2, <2>1, <2>2
  <2>4. Span(i + 1) < n
    BY <1>7, <2>3
  <2>5. Span(i) <= Span(i + 1) /\ Span(i) \in Nat /\ Span(i + 1) \in Nat
    BY <1>2, <1>5, <2>3
  <2> QED
    BY <1>3, <2>2, <2>4, <2>5
<1>8. \A j \in Nat : j \in T
  <2> HIDE DEF T
  <2> QED
    BY <1>6, <1>7, Induction
<1>9. ASSUME NEW i \in 0 .. t  PROVE Span(i) < n
  <2>1. PICK j : j = t - i
    OBVIOUS
  <2>2. j \in Nat /\ j <= t /\ t - j = i
    BY <1>2, <2>1
  <2> QED
    BY <1>8, <2>2
<1>10. ASSUME t # 0  PROVE r < n
  <2>1. t - 1 \in 0 .. (t - 1) /\ t - 1 + 1 = t /\ t \in 0 .. (t + 1)
    BY <1>2, <1>10
  <2>2. r <= Span(t) /\ Span(t) \in Nat
    BY <1>2, <1>5, <2>1
  <2> QED
    BY <1>2, <1>3, <1>4, <2>2
<1> QED
  BY <1>1, <1>3, <1>9, <1>10

\* The last part is the scalar, or what is missing of it to the order.
LEMMA BaseEnds ==
  ASSUME NEW c \in Curves, NEW n, n = c.order, NEW q, q = 2 ^ NumberBits,
         NEW k \in 1 .. (n - 1), NEW a, a = Odd(k, c)
  PROVE  /\ a \div q \in {0, 1} /\ BasePart(a, q) \in 1 .. (n - 1)
         /\ BasePart(a, q) = IF (a \div q) % 2 = 1 THEN k ELSE n - k
<1>1. n \in Nat /\ q \in Nat \ {0} /\ n < q
  BY OrderBounds, SpanIs
<1>2. \/ a = q + k /\ k < q
      \/ \E e \in 1 .. (n - 1) : e < q /\ a = q - e /\ k = n - e
  BY OddIs
<1>3. CASE a = q + k /\ k < q
  <2>1. a \in Int /\ a = q * 1 + k /\ k \in 0 .. (q - 1)
    BY <1>1, <1>3
  <2>2. a % q = k /\ a \div q = 1
    BY <1>1, <2>1, Divided
  <2> QED
    BY <2>2 DEF BasePart
<1>4. ASSUME NEW e \in 1 .. (n - 1), e < q, a = q - e, k = n - e
      PROVE  a % q = q - e /\ a \div q = 0
  <2>1. a \in Int /\ a = q * 0 + (q - e) /\ q - e \in 0 .. (q - 1)
    BY <1>1, <1>4
  <2> QED
    BY <1>1, <2>1, Divided
<1>5. CASE \E e \in 1 .. (n - 1) : e < q /\ a = q - e /\ k = n - e
  <2>1. PICK e \in 1 .. (n - 1) : e < q /\ a = q - e /\ k = n - e
    BY <1>5
  <2>2. a % q = q - e /\ a \div q = 0
    BY <1>4, <2>1
  <2>3. BasePart(a, q) = q - (q - e)
    BY <2>2 DEF BasePart
  <2>4. BasePart(a, q) = n - k /\ n - k \in 1 .. (n - 1)
    BY <1>1, <2>1, <2>3
  <2> QED
    BY <2>2, <2>4
<1> QED
  BY <1>2, <1>3, <1>5

LEMMA BaseInOrder ==
  ASSUME NEW c \in Curves, NEW n, n = c.order, NEW k \in 1 .. (n - 1), NEW a, a = Odd(k, c),
         NEW i \in 1 .. (Top + 1)
  PROVE  BasePart(a, Span(i)) \in 1 .. (n - 1)
<1>1. PICK t : t = Top
  OBVIOUS
<1>2. t \in Nat /\ Span(t + 1) = 2 ^ NumberBits
  BY <1>1, SpanIs
<1>3. CASE i = t + 1
  BY <1>2, <1>3, BaseEnds
<1>4. CASE i # t + 1
  <2>1. i \in 0 .. t
    BY <1>1, <1>2, <1>4
  <2>2. Span(i) < n /\ n \in Nat
    BY <1>1, <2>1, OrderBounds
  <2>3. Span(i) \in Nat \ {0} /\ IsEven(Span(i))
    BY EvenSpan
  <2>4. a \in Nat /\ ~IsEven(a)
    BY OddIs
  <2>5. BasePart(a, Span(i)) \in 1 .. (Span(i) - 1)
    BY <2>3, <2>4, BasePartIs
  <2> QED
    BY <2>2, <2>3, <2>5
<1> QED
  BY <1>3, <1>4
-----------------------------------------------------------------------------
(* point_multiply: what the digits so far come to.                         *)

PointPart(a, i) == OddUp(a \div Span(i)) - Span(Top + 1 - i)
SignedPart(a, i) == IF Negative(a \div Span(i)) THEN -PointPart(a, i) ELSE PointPart(a, i)

LEMMA SpansAre ==
  ASSUME NEW i \in 0 .. Top, NEW S, S = Span(i), NEW H, H = Span(Top + 1 - i)
  PROVE  /\ S \in Nat \ {0} /\ H \in Nat \ {0} /\ H * S = 2 ^ NumberBits
         /\ \E e \in Int : H = 2 * e
<1>1. PICK t, j : t = Top /\ j = t + 1 - i
  OBVIOUS
<1>2. /\ t \in Nat /\ \A k \in 0 .. (t + 1) : Span(k) \in Nat \ {0}
      /\ \A k \in 0 .. (t + 1) : Span(t + 1 - k) * Span(k) = 2 ^ NumberBits
  BY <1>1, SpanIs
<1>3. i \in 0 .. (t + 1) /\ j \in 1 .. (t + 1) /\ j \in 0 .. (t + 1)
  BY <1>1, <1>2
<1>4. S \in Nat \ {0} /\ H \in Nat \ {0}
  BY <1>1, <1>2, <1>3
<1>5. H * S = 2 ^ NumberBits
  BY <1>1, <1>2, <1>3
<1>6. IsEven(H)
  BY <1>1, <1>3, EvenSpan
<1> QED
  BY <1>4, <1>5, <1>6, ParityIs

LEMMA PointPartIs ==
  ASSUME NEW a \in Nat, NEW i \in 0 .. Top, NEW S, S = Span(i), NEW q, q = 2 ^ NumberBits
  PROVE  2 * (a \div (2 * S)) + 1 - (q \div S) = PointPart(a, i)
<1>1. PICK H, h, two : H = Span(Top + 1 - i) /\ h = a \div S /\ two = 2
  OBVIOUS
<1>2. S \in Nat \ {0} /\ H \in Nat /\ H * S = q /\ two \in Nat \ {0}
  BY <1>1, SpansAre
<1>3. q \div S = H
  <2>1. q \in Int /\ q = S * H + 0 /\ 0 \in 0 .. (S - 1)
    BY <1>2
  <2> QED
    BY <1>2, <2>1, Divided
<1>4. h \in Int
  <2>1. a \in Int
    OBVIOUS
  <2> QED
    BY <1>1, <1>2, <2>1, Split
<1>5. (a \div S) \div two = a \div (S * two)
  BY <1>2, DivideTwice
<1>6. S * two = 2 * S
  BY <1>1, <1>2
<1>7. a \div (2 * S) = h \div 2
  BY <1>1, <1>5, <1>6
<1>8. OddUp(h) = 2 * (h \div 2) + 1
  BY <1>4, OddUpIs
<1>9. PointPart(a, i) = OddUp(h) - H
  BY <1>1 DEF PointPart
<1>10. PICK x, y : x = a \div (2 * S) /\ y = q \div S
  OBVIOUS
<1>11. PointPart(a, i) = 2 * x + 1 - y
  BY <1>3, <1>7, <1>8, <1>9, <1>10
<1> QED
  BY <1>10, <1>11

\* It lies between nothing and what the odd scalar has without 2 ^ NumberBits.
LEMMA PointInOrder ==
  ASSUME NEW c \in Curves, NEW n, n = c.order, NEW k \in 1 .. (n - 1), NEW a, a = Odd(k, c),
         NEW i \in 0 .. Top, NEW v, v = PointPart(a, i)
  PROVE  v \in Int /\ v # 0 /\ -n < v /\ v < n /\ (i = 0 => v = k \/ v = k - n)
<1>1. PICK S, H, q, h, f, d : /\ S = Span(i) /\ H = Span(Top + 1 - i) /\ q = 2 ^ NumberBits
                              /\ h = a \div S /\ f = a % S /\ d = h - H
  OBVIOUS
<1>2. S \in Nat \ {0} /\ H \in Nat \ {0} /\ H * S = q /\ n \in Nat /\ q \in Int
  <2>1. n \in Nat
    BY OrderBounds
  <2>2. S \in Nat \ {0} /\ H \in Nat \ {0} /\ H * S = q
    BY <1>1, SpansAre
  <2> QED
    BY <2>1, <2>2
<1>3. a \in Int /\ h \in Int /\ f \in 0 .. (S - 1) /\ a = S * h + f /\ d \in Int
  <2>1. a \in Int
    BY OddIs
  <2>2. h \in Int /\ f \in 0 .. (S - 1) /\ a = S * h + f
    BY <1>1, <1>2, <2>1, Split
  <2> QED
    BY <1>1, <1>2, <2>1, <2>2
<1>4. PICK g : g = a - q
  OBVIOUS
<1>5. g \in Int /\ g = S * d + f
  <2>1. S * d = S * h - S * H
    BY <1>1, <1>2, <1>3
  <2>2. S * H = q
    BY <1>2
  <2>3. S * h \in Int
    BY <1>2, <1>3
  <2> QED
    BY <1>2, <1>3, <1>4, <2>1, <2>2, <2>3
<1>6. v = OddUp(d)
  <2>1. PICK e \in Int : H = 2 * e
    BY <1>1, SpansAre
  <2>2. OddUp(2 * e + d) = 2 * e + OddUp(d)
    BY <1>3, <2>1, OddUpIs
  <2>3. h = 2 * e + d
    <3>1. h \in Int /\ H \in Int /\ d = h - H
      BY <1>1, <1>2, <1>3
    <3> QED
      BY <2>1, <3>1
  <2>4. OddUp(d) \in Int /\ v = OddUp(h) - H
    BY <1>1, <1>3, OddUpIs DEF PointPart
  <2> QED
    BY <2>1, <2>2, <2>3, <2>4
<1>7. v \in Int /\ d <= v /\ v <= d + 1 /\ ~IsEven(v)
  BY <1>3, <1>6, OddUpIs
<1>8. v # 0
  <2>1. IsEven(0)
    BY DEF IsEven
  <2> QED
    BY <1>7, <2>1
<1>9. S = 1 => d = g
  <2>1. ASSUME S = 1  PROVE d = g
    BY <1>3, <1>5, <2>1
  <2> QED
    BY <2>1
<1>10. i = 0 => S = 1
  BY <1>1, SpanIs
<1>11. ASSUME ~IsEven(d)  PROVE v = d
  BY <1>6, <1>11 DEF OddUp
<1>12. PICK m : m = S * d
  OBVIOUS
<1>13. m \in Int /\ g = m + f
  BY <1>2, <1>3, <1>5, <1>12
<1>14. d >= 0 => m >= d
  <2>1. ASSUME d >= 0  PROVE m >= d
    <3>1. PICK u, w : u = S - 1 /\ w = u * d
      OBVIOUS
    <3>2. u \in Nat /\ d \in Nat /\ w \in Nat
      BY <1>2, <1>3, <2>1, <3>1
    <3>3. m = d + w
      BY <1>2, <1>3, <1>12, <3>1
    <3> QED
      BY <1>3, <3>2, <3>3
  <2> QED
    BY <2>1
<1>15. d < 0 => m <= -S
  <2>1. ASSUME d < 0  PROVE m <= -S
    <3>1. PICK u, w : u = -1 - d /\ w = S * u
      OBVIOUS
    <3>2. u \in Nat /\ w \in Nat
      BY <1>2, <1>3, <2>1, <3>1
    <3>3. m = -S - w
      BY <1>2, <1>3, <1>12, <3>1
    <3> QED
      BY <1>2, <3>2, <3>3
  <2> QED
    BY <2>1
<1>16. CASE ~IsEven(k) /\ a = q + k
  <2>1. g = k /\ k \in Int
    BY <1>2, <1>4, <1>16
  <2>2. d >= 0
    BY <1>2, <1>3, <1>13, <1>15, <2>1
  <2>3. d <= k
    BY <1>2, <1>3, <1>13, <1>14, <2>1, <2>2
  <2>4. v <= k
    <3>1. CASE d = k
      BY <1>11, <1>16, <3>1
    <3>2. CASE d # k
      BY <1>3, <1>7, <2>1, <2>3, <3>2
    <3> QED
      BY <3>1, <3>2
  <2>5. i = 0 => v = k
    BY <1>9, <1>10, <1>11, <1>16, <2>1
  <2> QED
    BY <1>2, <1>3, <1>7, <1>8, <2>1, <2>2, <2>4, <2>5
<1>17. CASE \E e \in 1 .. (n - 1) : ~IsEven(e) /\ a = q - e /\ k = n - e
  <2>1. PICK e \in 1 .. (n - 1) : ~IsEven(e) /\ a = q - e /\ k = n - e
    BY <1>17
  <2>2. g = -e /\ e \in Int
    BY <1>2, <1>4, <2>1
  <2>3. d < 0
    BY <1>2, <1>3, <1>13, <1>14, <2>1, <2>2
  <2>4. d >= -e
    <3>1. ASSUME d < -e  PROVE FALSE
      <4>1. PICK u, w, x : u = -e - 1 - d /\ w = S * u /\ x = (S - 1) * e
        OBVIOUS
      <4>2. u \in Nat /\ w \in Nat /\ S - 1 \in Nat /\ e \in Nat
        BY <1>2, <1>3, <2>1, <2>2, <3>1, <4>1
      <4>3. x \in Nat
        BY <4>1, <4>2
      <4>4. m = -e - x - S - w
        BY <1>2, <1>3, <1>12, <2>2, <4>1
      <4> QED
        BY <1>2, <1>3, <1>13, <2>2, <4>2, <4>3, <4>4
    <3> QED
      BY <1>3, <2>2, <3>1
  <2>5. i = 0 => v = -e
    <3>1. ASSUME i = 0  PROVE v = -e
      <4>1. d = -e
        BY <1>9, <1>10, <2>2, <3>1
      <4>2. ~IsEven(-e)
        <5>1. PICK b \in Int : e = 2 * b + 1
          BY <2>1, <2>2, ParityIs
        <5>2. PICK w : w = -1 - b
          OBVIOUS
        <5>3. w \in Int /\ -e = 2 * w + 1 /\ -e \in Int
          BY <5>1, <5>2
        <5> QED
          BY <5>3, ParityIs
      <4> QED
        BY <1>11, <4>1, <4>2
    <3> QED
      BY <3>1
  <2>6. v <= 0
    BY <1>3, <1>7, <2>3
  <2>7. k - n = -e
    BY <1>2, <2>1, <2>2
  <2> QED
    BY <1>2, <1>3, <1>7, <1>8, <2>1, <2>2, <2>4, <2>5, <2>6, <2>7
<1> QED
  BY <1>1, <1>16, <1>17, OddIs

LEMMA PointMoves ==
  ASSUME NEW a \in Nat, NEW i \in 1 .. Top, NEW j, j = i - 1, NEW b, b = a \div Span(j),
         NEW x, x = SignedPart(a, i),
         NEW y, y = IF Negative(b) = Negative(a \div Span(i)) THEN x ELSE -x
  PROVE  /\ SignedPart(a, j) = Digit(b) + Window * y
         /\ Negative(b) \in BOOLEAN /\ b \in Nat
<1>1. PICK t, r, h, l, o, d, V, S, H : /\ t = Top /\ r = Window /\ h = b \div r /\ l = b % r
                                       /\ o = OddUp(l) /\ d = Digit(b) /\ V = PointPart(a, i)
                                       /\ S = Span(j) /\ H = Span(t + 1 - i)
  OBVIOUS
<1>2. /\ t \in Nat /\ r \in Nat \ {0} /\ \A k \in 0 .. (t + 1) : Span(k) \in Nat \ {0}
      /\ \A k \in 0 .. t : Span(k + 1) = Span(k) * r
  BY <1>1, SpanIs
<1>3. j \in 0 .. t /\ j \in 0 .. (t + 1) /\ j + 1 = i /\ i \in 0 .. t
      /\ t + 1 - i \in 0 .. t /\ t + 1 - i \in 0 .. (t + 1) /\ t + 1 - j = (t + 1 - i) + 1
  BY <1>1, <1>2
<1>4. S \in Nat \ {0} /\ H \in Nat \ {0}
  BY <1>1, <1>2, <1>3
<1>5. Span(i) = S * r /\ Span(t + 1 - j) = H * r
  BY <1>1, <1>2, <1>3
<1>6. b \in Nat
  <2>1. a \in Int
    OBVIOUS
  <2> QED
    BY <1>1, <1>4, <2>1, Split
<1>7. h \in Int /\ l \in 0 .. (r - 1) /\ b = r * h + l /\ l \in Int
  <2>1. b \in Int
    BY <1>6
  <2>2. h \in Int /\ l \in 0 .. (r - 1) /\ b = r * h + l
    BY <1>1, <1>2, <2>1, Split, ZenonT(60)
  <2> QED
    BY <2>2
<1>8. a \div Span(i) = h
  <2>1. (a \div S) \div r = a \div (S * r)
    BY <1>2, <1>4, DivideTwice
  <2> QED
    BY <1>1, <1>5, <2>1
<1>9. Negative(b) <=> IsEven(h)
  BY <1>1 DEF Negative, IsEven, Window
<1>10. o \in Int /\ d = IF Negative(b) THEN r - o ELSE o
  <2>1. o \in Int
    BY <1>1, <1>7, OddUpIs
  <2> QED
    BY <1>1, <1>6, <2>1, DigitIs
<1>11. V = OddUp(h) - H
  BY <1>1, <1>8 DEF PointPart
<1>12. OddUp(h) = IF Negative(b) THEN h + 1 ELSE h
  BY <1>9 DEF OddUp
<1>13. OddUp(b) = r * h + o
  BY <1>1, <1>7, EvenWindow
<1>14. PointPart(a, j) = (r * h + o) - H * r
  BY <1>1, <1>5, <1>13 DEF PointPart
<1>15. Negative(b) \in BOOLEAN /\ Negative(h) \in BOOLEAN
  BY DEF Negative
<1>16. V \in Int
  BY <1>4, <1>7, <1>11, <1>12
<1>17. x = IF Negative(h) THEN -V ELSE V
  BY <1>1, <1>8 DEF SignedPart
<1>18. y = IF Negative(b) THEN -V ELSE V
  BY <1>8, <1>15, <1>16, <1>17
<1>19. SignedPart(a, j) = IF Negative(b) THEN -((r * h + o) - H * r) ELSE (r * h + o) - H * r
  BY <1>14 DEF SignedPart
<1>20. PICK z : z = r * y
  OBVIOUS
<1>21. SignedPart(a, j) = d + z
  <2>1. CASE Negative(b)
    <3>1. y = H - h - 1
      BY <1>4, <1>7, <1>11, <1>12, <1>18, <2>1
    <3>2. z = H * r - r * h - r
      BY <1>2, <1>4, <1>7, <1>20, <3>1
    <3>3. H * r \in Int /\ r * h \in Int
      BY <1>2, <1>4, <1>7
    <3>4. d = r - o
      BY <1>10, <2>1
    <3>5. SignedPart(a, j) = -((r * h + o) - H * r)
      BY <1>19, <2>1
    <3> QED
      BY <1>2, <1>10, <3>2, <3>3, <3>4, <3>5
  <2>2. CASE ~Negative(b)
    <3>1. y = h - H
      BY <1>4, <1>7, <1>11, <1>12, <1>18, <2>2
    <3>2. z = r * h - H * r
      BY <1>2, <1>4, <1>7, <1>20, <3>1
    <3>3. H * r \in Int /\ r * h \in Int
      BY <1>2, <1>4, <1>7
    <3>4. d = o
      BY <1>10, <2>2
    <3>5. SignedPart(a, j) = (r * h + o) - H * r
      BY <1>19, <2>2
    <3> QED
      BY <1>10, <3>2, <3>3, <3>4, <3>5
  <2> QED
    BY <2>1, <2>2
<1> QED
  BY <1>1, <1>6, <1>15, <1>20, <1>21

LEMMA PointStarts ==
  ASSUME NEW c \in Curves, NEW n, n = c.order, NEW k \in 1 .. (n - 1), NEW a, a = Odd(k, c),
         NEW h, h = a \div Span(Top)
  PROVE  h \in Nat /\ SignedPart(a, Top) = Digit(h)
<1>1. PICK t, r, S, u, l, o : /\ t = Top /\ r = Window /\ S = Span(t) /\ u = h \div r /\ l = h % r
                              /\ o = OddUp(l)
  OBVIOUS
<1>2. /\ t \in Nat /\ r \in Nat \ {0} /\ \A j \in 0 .. (t + 1) : Span(j) \in Nat \ {0}
      /\ \A j \in 0 .. t : Span(j + 1) = Span(j) * r
      /\ Span(0) = 1 /\ Span(t + 1) = 2 ^ NumberBits
  BY <1>1, SpanIs
<1>3. t \in 0 .. t /\ 0 \in 0 .. t /\ t \in 0 .. (t + 1) /\ t + 1 - t = 0 + 1
  BY <1>2
<1>4. S \in Nat \ {0} /\ S * r = 2 ^ NumberBits /\ Span(t + 1 - t) = r
  <2>1. S \in Nat \ {0} /\ Span(t + 1) = S * r
    BY <1>1, <1>2, <1>3
  <2>2. Span(0 + 1) = Span(0) * r
    BY <1>2, <1>3
  <2>3. Span(0) * r = r
    BY <1>2
  <2> QED
    BY <1>2, <1>3, <2>1, <2>2, <2>3
<1>5. a \in Nat
  BY OddIs
<1>6. h \in Nat
  <2>1. a \in Int
    BY <1>5
  <2> QED
    BY <1>1, <1>4, <1>5, <2>1, Split
<1>7. u \in Int /\ l \in Int /\ h = r * u + l
  <2>1. h \in Int
    BY <1>6
  <2>2. u \in Int /\ l \in 0 .. (r - 1) /\ h = r * u + l
    BY <1>1, <1>2, <2>1, Split
  <2> QED
    BY <2>2
<1>8. u \in {0, 1}
  <2>1. (a \div S) \div r = a \div (S * r)
    BY <1>2, <1>4, <1>5, DivideTwice
  <2>2. a \div (2 ^ NumberBits) \in {0, 1}
    BY BaseEnds
  <2> QED
    BY <1>1, <1>4, <2>1, <2>2
<1>9. OddUp(h) = r * u + o /\ o \in Int
  BY <1>1, <1>7, EvenWindow, OddUpIs
<1>10. PointPart(a, t) = (r * u + o) - r
  BY <1>1, <1>4, <1>9 DEF PointPart
<1>11. Digit(h) = IF Negative(h) THEN r - o ELSE o
  BY <1>1, <1>6, DigitIs
<1>12. Negative(h) <=> u % 2 = 0
  BY <1>1 DEF Negative, Window
<1>13. SignedPart(a, t) = IF Negative(h) THEN -PointPart(a, t) ELSE PointPart(a, t)
  BY <1>1 DEF SignedPart
<1>14. CASE u = 0
  <2>1. Negative(h) /\ PointPart(a, t) = o - r
    BY <1>2, <1>9, <1>10, <1>12, <1>14
  <2> QED
    BY <1>1, <1>2, <1>6, <1>9, <1>11, <1>13, <2>1
<1>15. CASE u = 1
  <2>1. ~Negative(h) /\ PointPart(a, t) = o
    BY <1>2, <1>9, <1>10, <1>12, <1>15
  <2> QED
    BY <1>1, <1>6, <1>11, <1>13, <2>1
<1> QED
  BY <1>8, <1>14, <1>15
-----------------------------------------------------------------------------
(* The multiplication under way.                                           *)

\* scalar_multiply and point_multiply, between two iterations.
BaseGoes(w, c, m) ==
  /\ m = 1 /\ w.i \in 0 .. Top
  /\ w.a = Odd(w.k, c) \div Span(w.i)
  /\ w.negative = Negative(w.a)
  /\ Walks(c, w.jres, m, BasePart(Odd(w.k, c), Span(w.i + 1)))
PointGoes(w, c, m) ==
  /\ w.i \in 0 .. Top
  /\ w.a = Odd(w.k, c)
  /\ w.pmult = OddMultiples(c, w.point)
  /\ w.negative = Negative(w.a \div Span(w.i))
  /\ Walks(c, w.jres, m, SignedPart(w.a, w.i))

IsWalk(w) ==
  /\ w = [phase |-> w.phase, loop |-> w.loop, curve |-> w.curve, k |-> w.k, point |-> w.point,
          a |-> w.a, i |-> w.i, negative |-> w.negative, jres |-> w.jres, pmult |-> w.pmult,
          res |-> w.res]
  /\ w.curve \in Curves /\ w.k \in 0 .. (w.curve.order - 1)
  /\ \E m \in KeysOf(w.curve) :
        /\ w.point = Times(w.curve, m)
        /\ \/ w.phase = "done" /\ w.res = Times(w.curve, KeyOf(w.curve, m, w.k))
           \/ w.phase = "loop" /\ w.k # 0 /\ w.loop = "base" /\ BaseGoes(w, w.curve, m)
           \/ w.phase = "loop" /\ w.k # 0 /\ w.loop = "point" /\ PointGoes(w, w.curve, m)

WalkInv == walk = NoWalk \/ IsWalk(walk)

\* conditional_negate of one coordinate.
LEMMA SignedWalks ==
  ASSUME Hypotheses, NEW c \in Curves, NEW m \in KeysOf(c), NEW x \in Int, NEW jp, Walks(c, jp, m, x),
         NEW e \in BOOLEAN, NEW y, y = IF e THEN -x ELSE x
  PROVE  /\ Walks(c, [jp EXCEPT !.y = NegateWhen(e, jp.y, c.prime)], m, y)
         /\ Walks(c, [jp EXCEPT !.z = NegateWhen(e, jp.z, c.prime)], m, y)
<1>1. jp = [x |-> jp.x, y |-> jp.y, z |-> jp.z]
  BY DEF Walks, StandsFor, JacobianPoints
<1>2. CASE e
  <2>1. y = -x
    BY <1>2
  <2>2. /\ [jp EXCEPT !.y = NegateWhen(e, jp.y, c.prime)] = [jp EXCEPT !.y = Negated(@, c.prime)]
        /\ [jp EXCEPT !.z = NegateWhen(e, jp.z, c.prime)] = [jp EXCEPT !.z = Negated(@, c.prime)]
    BY <1>2 DEF NegateWhen
  <2>3. /\ Walks(c, [jp EXCEPT !.y = Negated(@, c.prime)], m, -x)
        /\ Walks(c, [jp EXCEPT !.z = Negated(@, c.prime)], m, -x)
    BY WalksNegated
  <2> QED
    BY <2>1, <2>2, <2>3
<1>3. CASE ~e
  <2>1. y = x
    BY <1>3
  <2>2. [jp EXCEPT !.y = jp.y] = jp /\ [jp EXCEPT !.z = jp.z] = jp
    BY <1>1
  <2> QED
    BY <1>3, <2>1, <2>2 DEF NegateWhen
<1> QED
  BY <1>2, <1>3

LEMMA PrecomputedIs ==
  ASSUME NEW c \in Curves, NEW b \in Nat, NEW i \in 0 .. Top, NEW d, d = Span(i) * Digit(b)
  PROVE  Precomputed(c, i, TableIndex(b)) = Times(c, KeyOf(c, 1, d)) /\ d \in Int
<1>1. PICK s, e : s = Span(i) /\ e = Digit(b)
  OBVIOUS
<1>2. s \in Nat
  BY <1>1, SpansAre
<1>3. e \in Int
  <2>1. PICK r, l : r = Window /\ l = b % r
    OBVIOUS
  <2>2. Digit(b) \in 1 .. (r - 1)
    BY <2>1, DigitIs
  <2> QED
    BY <1>1, <2>2
<1>4. d \in Int /\ e * s = d * 1
  BY <1>1, <1>2, <1>3
<1>5. Precomputed(c, i, TableIndex(b)) = Times(c, (e * s) % c.order)
  BY <1>1 DEF Precomputed, Digit, Span, Times
<1> QED
  BY <1>4, <1>5 DEF KeyOf

LEMMA BaseKeeps ==
  ASSUME Hypotheses, NEW w, NEW c \in Curves, NEW m \in KeysOf(c), w.k \in 1 .. (c.order - 1),
         BaseGoes(w, c, m), w.i < Top,
         NEW b, b = w.a \div Window,
         NEW y, y = NegateWhen(Negative(b) # w.negative, w.jres.y, c.prime),
         NEW jres, jres = JacobianAdd(c, Precomputed(c, w.i + 1, TableIndex(b)),
                                      [w.jres EXCEPT !.y = y])
  PROVE  /\ b = Odd(w.k, c) \div Span(w.i + 1)
         /\ Walks(c, jres, m, BasePart(Odd(w.k, c), Span(w.i + 2)))
<1>1. PICK n, t, r, i, j, k, a, s, S : /\ n = c.order /\ t = Top /\ r = Window /\ i = w.i /\ j = i + 1
                                       /\ k = w.k /\ a = Odd(k, c) /\ s = Span(j) /\ S = s * r
  OBVIOUS
<1>2. /\ t \in Nat /\ r \in Nat \ {0} /\ \A e \in 0 .. (t + 1) : Span(e) \in Nat \ {0}
      /\ \A e \in 0 .. t : Span(e + 1) = Span(e) * r
  BY <1>1, SpanIs
<1>3. /\ m = 1 /\ i \in 0 .. t /\ i < t /\ w.a = a \div Span(i) /\ w.negative = Negative(w.a)
      /\ Walks(c, w.jres, m, BasePart(a, s))
  BY <1>1 DEF BaseGoes
<1>4. /\ i \in 0 .. (t + 1) /\ j \in 0 .. t /\ j \in 0 .. (t + 1) /\ j \in 1 .. (t + 1)
      /\ j + 1 \in 1 .. (t + 1) /\ t # 0 /\ w.i + 2 = j + 1
  BY <1>1, <1>2, <1>3
<1>5. s = Span(i) * r /\ Span(i) \in Nat \ {0} /\ s \in Nat \ {0} /\ S = Span(j + 1)
  BY <1>1, <1>2, <1>3, <1>4
<1>6. a \in Nat /\ n \in Nat \ {0} /\ n \in Nat
  BY <1>1, OddIs, ResiduesAre
<1>7. b = a \div s
  <2>1. (a \div Span(i)) \div r = a \div (Span(i) * r)
    BY <1>2, <1>5, <1>6, DivideTwice
  <2> QED
    BY <1>1, <1>3, <1>5, <2>1
<1>8. b \in Nat
  <2>1. a \in Int
    BY <1>6
  <2> QED
    BY <1>5, <1>6, <1>7, <2>1, Split
<1>9. w.negative = IsEven(b)
  BY <1>3 DEF Negative, IsEven, Window
<1>10. PICK x, u, e, d : /\ x = BasePart(a, s) /\ e = (Negative(b) # IsEven(b))
                         /\ u = (IF e THEN -x ELSE x) /\ d = s * Digit(b)
  OBVIOUS
<1>11. x \in 1 .. (n - 1) /\ x \in Int /\ e \in BOOLEAN /\ u \in Int
  <2>1. x \in 1 .. (n - 1)
    BY <1>1, <1>4, <1>10, BaseInOrder
  <2>2. x \in Int
    BY <2>1
  <2> QED
    BY <1>10, <2>1, <2>2
<1>12. Walks(c, [w.jres EXCEPT !.y = NegateWhen(e, w.jres.y, c.prime)], m, u)
  BY <1>3, <1>10, <1>11, SignedWalks
<1>13. y = NegateWhen(e, w.jres.y, c.prime)
  BY <1>9, <1>10
<1>14. Precomputed(c, j, TableIndex(b)) = Times(c, KeyOf(c, m, d)) /\ d \in Int
  BY <1>1, <1>3, <1>4, <1>8, <1>10, PrecomputedIs
<1>15. KeyOf(c, m, d) \in KeysOf(c)
  <2>1. PICK g, l : g = Digit(b) /\ l = b % r
    OBVIOUS
  <2>2. g \in 1 .. (r - 1)
    BY <1>1, <1>8, <2>1, DigitIs
  <2>3. r < n /\ s < n
    BY <1>1, <1>4, OrderBounds
  <2>4. s \in KeysOf(c) /\ g \in KeysOf(c)
    BY <1>1, <1>2, <1>5, <1>6, <2>2, <2>3 DEF KeysOf
  <2>5. (s * g) % n # 0
    BY <1>1, <2>4, ProductOfKeys
  <2>6. d * m = s * g
    BY <1>3, <1>10, <1>14, <2>1
  <2>7. d % n \in ResiduesOf(c) /\ d = s * g
    BY <1>1, <1>10, <1>14, <2>1, ResiduesAre
  <2> QED
    BY <1>1, <2>5, <2>6, <2>7, ResiduesAre DEF KeyOf
<1>16. BasePart(a, S) = d + u
  <2>1. u = IF Negative(b) = IsEven(b) THEN x ELSE -x
    BY <1>10
  <2> QED
    BY <1>1, <1>5, <1>6, <1>7, <1>10, <2>1, BaseMoves
<1>17. PICK v : v = BasePart(a, S)
  OBVIOUS
<1>18. KeyOf(c, m, v) \in KeysOf(c)
  <2>1. v \in 1 .. (n - 1)
    BY <1>1, <1>4, <1>5, <1>17, BaseInOrder
  <2>2. v \in Int /\ v # 0 /\ -n < v /\ v < n
    BY <1>6, <2>1
  <2> QED
    BY <1>1, <2>2, KeyOfIs
<1>19. PICK q : q = [w.jres EXCEPT !.y = y]
  OBVIOUS
<1>20. Walks(c, q, m, u)
  BY <1>12, <1>13, <1>19
<1>21. Walks(c, JacobianAdd(c, Times(c, KeyOf(c, m, d)), q), m, v)
  BY <1>11, <1>14, <1>15, <1>16, <1>17, <1>18, <1>20, WalksAdd
<1>22. jres = JacobianAdd(c, Times(c, KeyOf(c, m, d)), q)
  BY <1>1, <1>14, <1>19
<1> QED
  BY <1>1, <1>4, <1>5, <1>7, <1>17, <1>21, <1>22

LEMMA PointKeeps ==
  ASSUME Hypotheses, NEW w, NEW c \in Curves, NEW m \in KeysOf(c), w.k \in 1 .. (c.order - 1),
         PointGoes(w, c, m), w.point = Times(c, m), w.i > 0,
         NEW b, b = w.a \div Span(w.i - 1),
         NEW f, Doublings(f, c, w.jres),
         NEW z, z = NegateWhen(Negative(b) # w.negative, f[WindowBits].z, c.prime),
         NEW jres, jres = JacobianAdd(c, w.pmult[TableIndex(b)], [f[WindowBits] EXCEPT !.z = z])
  PROVE  Walks(c, jres, m, SignedPart(w.a, w.i - 1))
<1>1. PICK n, t, r, i, j, k, a : /\ n = c.order /\ t = Top /\ r = Window /\ i = w.i /\ j = i - 1
                                 /\ k = w.k /\ a = w.a
  OBVIOUS
<1>2. t \in Nat /\ r \in Nat \ {0}
  BY <1>1, SpanIs
<1>3. /\ i \in 0 .. t /\ i > 0 /\ a = Odd(k, c) /\ w.pmult = OddMultiples(c, Times(c, m))
      /\ w.negative = Negative(a \div Span(i)) /\ Walks(c, w.jres, m, SignedPart(a, i))
  BY <1>1 DEF PointGoes
<1>4. i \in 1 .. t /\ j \in 0 .. t /\ t # 0 /\ b = a \div Span(j)
  BY <1>1, <1>2, <1>3
<1>5. a \in Nat /\ n \in Nat
  BY <1>1, <1>3, OddIs, OrderBounds
<1>6. IsGroup(c)
  BY DEF Hypotheses, CurvesAreGroups
<1>7. PICK x, e, y, d, u : /\ x = SignedPart(a, i) /\ e = (Negative(b) # w.negative)
                           /\ y = (IF e THEN -x ELSE x) /\ d = Digit(b) /\ u = r * x
  OBVIOUS
<1>8. x \in Int /\ e \in BOOLEAN /\ y \in Int /\ u \in Int
  <2>1. PICK v : v = PointPart(a, i)
    OBVIOUS
  <2>2. v \in Int
    BY <1>1, <1>3, <2>1, PointInOrder
  <2>3. x \in Int
    BY <1>7, <2>1, <2>2 DEF SignedPart
  <2> QED
    BY <1>2, <1>7, <2>3
<1>9. SignedPart(a, j) = d + r * y /\ b \in Nat
  <2>1. Negative(b) \in BOOLEAN /\ w.negative \in BOOLEAN
    BY <1>3 DEF Negative
  <2>2. y = IF Negative(b) = Negative(a \div Span(i)) THEN x ELSE -x
    BY <1>3, <1>7, <2>1
  <2> QED
    BY <1>1, <1>4, <1>5, <1>7, <2>2, PointMoves
<1>10. Walks(c, f[WindowBits], m, u)
  <2>1. u = 2 ^ WindowBits * x
    BY <1>1, <1>7 DEF Window
  <2> QED
    BY <1>3, <1>7, <1>8, <2>1, DoublingsWalk
<1>11. PICK g, q : g = f[WindowBits] /\ q = [g EXCEPT !.z = z]
  OBVIOUS
<1>12. PICK h : h = IF e THEN -u ELSE u
  OBVIOUS
<1>13. Walks(c, q, m, h)
  <2>1. Walks(c, [g EXCEPT !.z = NegateWhen(e, g.z, c.prime)], m, h)
    BY <1>8, <1>10, <1>11, <1>12, SignedWalks
  <2>2. z = NegateWhen(e, g.z, c.prime)
    BY <1>7, <1>11
  <2> QED
    BY <1>11, <2>1, <2>2
<1>14. h = r * y /\ h \in Int
  <2>1. r * (-x) = -(r * x)
    BY <1>2, <1>8
  <2> QED
    BY <1>7, <1>8, <1>12, <2>1
<1>15. d \in 1 .. (r - 1) /\ d \in Int /\ TableIndex(b) \in 0 .. (TableSize - 1)
  <2>1. PICK l : l = b % r
    OBVIOUS
  <2>2. d \in 1 .. (r - 1) /\ TableIndex(b) \in 0 .. (TableSize - 1)
    BY <1>1, <1>7, <1>9, <2>1, DigitIs
  <2> QED
    BY <2>2
<1>16. w.pmult[TableIndex(b)] = Times(c, KeyOf(c, m, d))
  <2>1. d = 2 * TableIndex(b) + 1
    BY <1>7 DEF Digit
  <2> QED
    BY <1>3, <1>6, <1>15, <2>1, OddMultiplesAre
<1>17. KeyOf(c, m, d) \in KeysOf(c)
  <2>1. r < n
    BY <1>1, <1>4, OrderBounds
  <2>2. d # 0 /\ -n < d /\ d < n
    BY <1>2, <1>5, <1>15, <2>1
  <2> QED
    BY <1>1, <1>15, <2>2, KeyOfIs
<1>18. PICK s : s = SignedPart(a, j)
  OBVIOUS
<1>19. s = d + h /\ KeyOf(c, m, s) \in KeysOf(c)
  <2>1. PICK v : v = PointPart(a, j)
    OBVIOUS
  <2>2. v \in Int /\ v # 0 /\ -n < v /\ v < n
    BY <1>1, <1>3, <1>4, <2>1, PointInOrder
  <2>3. s \in Int /\ s # 0 /\ -n < s /\ s < n
    BY <1>5, <1>18, <2>1, <2>2 DEF SignedPart
  <2>4. KeyOf(c, m, s) \in KeysOf(c)
    BY <1>1, <2>3, KeyOfIs
  <2> QED
    BY <1>9, <1>14, <1>18, <2>4
<1>20. Walks(c, JacobianAdd(c, Times(c, KeyOf(c, m, d)), q), m, s)
  BY <1>13, <1>14, <1>15, <1>17, <1>19, WalksAdd
<1>21. jres = JacobianAdd(c, Times(c, KeyOf(c, m, d)), q)
  BY <1>11, <1>16
<1> QED
  BY <1>1, <1>18, <1>20, <1>21
LEMMA FirstIs ==
  ASSUME Hypotheses, NEW c \in Curves, NEW m \in KeysOf(c), NEW x \in Int, KeyOf(c, m, x) \in KeysOf(c),
         NEW g, g = Times(c, KeyOf(c, m, x)), NEW z \in BlindZ
  PROVE  Walks(c, CurveToJacobian(g, z, c.prime), m, x)
<1>1. IsGroup(c) /\ ProductsAreReduced(Nat)
  BY DEF Hypotheses, CurvesAreGroups
<1>2. PICK k : k = KeyOf(c, m, x)
  OBVIOUS
<1>3. StandsFor(c, CurveToJacobian(Times(c, k), z, c.prime), k)
  BY <1>1, <1>2, BlindedIs
<1> QED
  BY <1>2, <1>3 DEF Walks

LEMMA BaseBegins ==
  ASSUME Hypotheses, NEW c \in Curves, NEW k \in 1 .. (c.order - 1), NEW z \in BlindZ,
         NEW a, a = Odd(k, c), NEW g, g = Precomputed(c, 0, TableIndex(a))
  PROVE  /\ a = a \div Span(0) /\ 1 \in KeysOf(c) /\ 0 \in 0 .. Top
         /\ Walks(c, CurveToJacobian(g, z, c.prime), 1, BasePart(a, Span(0 + 1)))
<1>1. PICK t, r, n, s, l, d : /\ t = Top /\ r = Window /\ n = c.order /\ s = Span(0) /\ l = a % r
                              /\ d = s * Digit(a)
  OBVIOUS
<1>2. /\ t \in Nat /\ r \in Nat \ {0} /\ s = 1 /\ \A e \in 0 .. t : Span(e + 1) = Span(e) * r
  BY <1>1, SpanIs
<1>3. 0 \in 0 .. t /\ 0 + 1 \in 1 .. (t + 1)
  BY <1>2
<1>4. Span(0 + 1) = r
  <2>1. Span(0 + 1) = s * r
    BY <1>1, <1>2, <1>3
  <2> QED
    BY <1>2, <2>1
<1>5. a \in Nat /\ ~IsEven(a) /\ n \in Nat /\ 3 <= n
  BY <1>1, OddIs, CurveIs
<1>6. a \div s = a
  <2>1. a \in Int /\ a = s * a + 0 /\ 0 \in 0 .. (s - 1)
    BY <1>2, <1>5
  <2> QED
    BY <1>2, <2>1, Divided
<1>7. 1 \in KeysOf(c)
  BY <1>1, <1>5 DEF KeysOf
<1>8. BasePart(a, r) = Digit(a)
  <2>1. IsEven(r)
    BY <1>1, <1>3, <1>4, EvenSpan
  <2>2. ~IsEven(l)
    BY <1>1, <1>2, <1>5, <2>1, BasePartIs
  <2>3. OddUp(l) = l
    BY <2>2 DEF OddUp
  <2>4. Digit(a) = IF Negative(a) THEN r - OddUp(l) ELSE OddUp(l)
    BY <1>1, <1>5, DigitIs
  <2>5. Negative(a) <=> (a \div r) % 2 = 0
    BY <1>1 DEF Negative, Window
  <2>6. a \div r \in Int
    <3>1. a \in Int
      BY <1>5
    <3> QED
      BY <1>2, <3>1, Split
  <2>7. (a \div r) % 2 = 0 <=> (a \div r) % 2 # 1
    BY <2>6
  <2> QED
    BY <1>1, <2>3, <2>4, <2>5, <2>7 DEF BasePart
<1>9. PICK x : x = BasePart(a, r)
  OBVIOUS
<1>10. x \in 1 .. (n - 1)
  BY <1>1, <1>3, <1>4, <1>9, BaseInOrder
<1>11. x \in Int /\ KeyOf(c, 1, x) \in KeysOf(c)
  <2>1. x \in Int /\ x # 0 /\ -n < x /\ x < n
    BY <1>5, <1>10
  <2> QED
    BY <1>1, <1>7, <2>1, KeyOfIs
<1>12. d = x
  BY <1>1, <1>2, <1>8, <1>9, <1>11
<1>13. g = Times(c, KeyOf(c, 1, x))
  BY <1>1, <1>3, <1>5, <1>12, PrecomputedIs
<1>14. Walks(c, CurveToJacobian(g, z, c.prime), 1, x)
  BY <1>7, <1>11, <1>13, FirstIs
<1> QED
  BY <1>1, <1>3, <1>4, <1>6, <1>7, <1>9, <1>14

LEMMA PointBegins ==
  ASSUME Hypotheses, NEW c \in Curves, NEW k \in 1 .. (c.order - 1), NEW m \in KeysOf(c),
         NEW z \in BlindZ, NEW a, a = Odd(k, c), NEW h, h = a \div Span(Top),
         NEW g, g = OddMultiples(c, Times(c, m))[TableIndex(h)]
  PROVE  Top \in 0 .. Top /\ Walks(c, CurveToJacobian(g, z, c.prime), m, SignedPart(a, Top))
<1>1. PICK t, n, r, l, x, v : /\ t = Top /\ n = c.order /\ r = Window /\ l = h % r
                              /\ x = SignedPart(a, t) /\ v = PointPart(a, t)
  OBVIOUS
<1>2. t \in Nat /\ t \in 0 .. t
  BY <1>1, SpanIs
<1>3. h \in Nat /\ x = Digit(h)
  BY <1>1, PointStarts
<1>4. v \in Int /\ v # 0 /\ -n < v /\ v < n /\ n \in Nat
  BY <1>1, <1>2, PointInOrder, OrderBounds
<1>5. x \in Int /\ x # 0 /\ -n < x /\ x < n
  BY <1>1, <1>4 DEF SignedPart
<1>6. KeyOf(c, m, x) \in KeysOf(c)
  BY <1>1, <1>5, KeyOfIs
<1>7. IsGroup(c)
  BY DEF Hypotheses, CurvesAreGroups
<1>8. g = Times(c, KeyOf(c, m, x))
  <2>1. TableIndex(h) \in 0 .. (TableSize - 1)
    BY <1>1, <1>3, DigitIs
  <2>2. x = 2 * TableIndex(h) + 1
    BY <1>3 DEF Digit
  <2> QED
    BY <1>7, <2>1, <2>2, OddMultiplesAre
<1>9. Walks(c, CurveToJacobian(g, z, c.prime), m, x)
  BY <1>5, <1>6, <1>8, FirstIs
<1> QED
  BY <1>1, <1>2, <1>9

LEMMA WalkBegins ==
  ASSUME Hypotheses, NEW loop \in {"base", "point"}, NEW c \in Curves, NEW k \in Scalars, NEW m,
         loop = "point" => m \in PointScalars, NEW z \in BlindZ, Begin(loop, c, k, m, z)
  PROVE  IsWalk(walk')
<1>1. PICK n, p, a, high, table, first, w :
          /\ n = c.order /\ p = Times(c, m) /\ a = Odd(k, c) /\ high = a \div Span(Top)
          /\ table = IF loop = "base" THEN << >> ELSE OddMultiples(c, p)
          /\ first = IF loop = "base" THEN Precomputed(c, 0, TableIndex(a))
                     ELSE table[TableIndex(high)]
          /\ w = walk'
  OBVIOUS
<1>2. n \in Nat \ {0} /\ n \in Nat /\ 3 <= n /\ k \in Nat /\ k < n
  <2>1. n \in Nat \ {0} /\ 3 <= n
    BY <1>1, CurveIs, ResiduesAre
  <2>2. k \in Nat /\ k < n
    BY <1>1, ScalarAssumption DEF Begin
  <2> QED
    BY <2>1, <2>2
<1>3. k \in 0 .. (n - 1)
  BY <1>2
<1>4. m \in KeysOf(c) /\ (loop = "base" => m = 1)
  <2>1. loop = "base" => m = 1
    BY DEF Begin
  <2>2. 1 \in KeysOf(c)
    BY <1>1, <1>2 DEF KeysOf
  <2>3. loop = "point" => m \in KeysOf(c)
    BY ScalarAssumption
  <2> QED
    BY <2>1, <2>2, <2>3
<1>5. CASE k = 0
  <2>1. w = [phase |-> "done", loop |-> loop, curve |-> c, k |-> k, point |-> p, a |-> a,
             i |-> 0, negative |-> FALSE, jres |-> << >>, pmult |-> << >>, res |-> Infinity]
    BY <1>1, <1>5 DEF Begin, Times
  <2>2. w.phase = "done" /\ w.curve = c /\ w.k = k /\ w.point = p /\ w.res = Infinity
    BY <2>1
  <2>3. Times(c, KeyOf(c, m, k)) = Infinity
    <3>1. IsGroup(c)
      BY DEF Hypotheses, CurvesAreGroups
    <3>2. m \in Int
      BY <1>4, ResiduesAre
    <3>3. KeyOf(c, m, k) = 0
      <4>1. k * m = 0 /\ 0 % n = 0
        BY <1>2, <1>5, <3>2
      <4> QED
        BY <1>1, <4>1 DEF KeyOf
    <3> QED
      BY <3>1, <3>3, GroupIs
  <2>4. w = [phase |-> w.phase, loop |-> w.loop, curve |-> w.curve, k |-> w.k, point |-> w.point,
             a |-> w.a, i |-> w.i, negative |-> w.negative, jres |-> w.jres, pmult |-> w.pmult,
             res |-> w.res]
    BY <2>1
  <2> QED
    BY <1>1, <1>3, <1>4, <2>2, <2>3, <2>4 DEF IsWalk
<1>6. CASE k # 0
  <2>1. w = [phase |-> "loop", loop |-> loop, curve |-> c, k |-> k, point |-> p, a |-> a,
             i |-> (IF loop = "base" THEN 0 ELSE Top),
             negative |-> Negative(IF loop = "base" THEN a ELSE high),
             jres |-> CurveToJacobian(first, z, c.prime), pmult |-> table, res |-> Infinity]
    BY <1>1, <1>6, ZenonT(60) DEF Begin, Times, Span
  <2>2. /\ w.phase = "loop" /\ w.loop = loop /\ w.curve = c /\ w.k = k /\ w.point = p
        /\ w.a = a /\ w.i = (IF loop = "base" THEN 0 ELSE Top)
        /\ w.negative = Negative(IF loop = "base" THEN a ELSE high)
        /\ w.jres = CurveToJacobian(first, z, c.prime) /\ w.pmult = table
    BY <2>1
  <2>3. w = [phase |-> w.phase, loop |-> w.loop, curve |-> w.curve, k |-> w.k, point |-> w.point,
             a |-> w.a, i |-> w.i, negative |-> w.negative, jres |-> w.jres, pmult |-> w.pmult,
             res |-> w.res]
    BY <2>1
  <2>4. k \in 1 .. (c.order - 1)
    BY <1>1, <1>2, <1>6
  <2>5. CASE loop = "base"
    <3>1. m = 1 /\ first = Precomputed(c, 0, TableIndex(a)) /\ w.i = 0 /\ w.negative = Negative(a)
      BY <1>1, <1>4, <2>2, <2>5
    <3>2. /\ a = a \div Span(0) /\ 0 \in 0 .. Top
          /\ Walks(c, w.jres, 1, BasePart(a, Span(0 + 1)))
      BY <1>1, <2>2, <2>4, <3>1, BaseBegins
    <3>3. BaseGoes(w, c, m)
      BY <1>1, <2>2, <3>1, <3>2 DEF BaseGoes
    <3> QED
      BY <1>1, <1>3, <1>4, <1>6, <2>2, <2>3, <2>5, <3>3 DEF IsWalk
  <2>6. CASE loop = "point"
    <3>1. /\ first = OddMultiples(c, p)[TableIndex(high)] /\ w.i = Top
          /\ w.negative = Negative(high) /\ w.pmult = OddMultiples(c, p)
      BY <1>1, <2>2, <2>6
    <3>2. Top \in 0 .. Top /\ Walks(c, w.jres, m, SignedPart(a, Top))
      BY <1>1, <1>4, <2>2, <2>4, <3>1, PointBegins
    <3>3. PointGoes(w, c, m)
      BY <1>1, <2>2, <3>1, <3>2 DEF PointGoes
    <3> QED
      BY <1>1, <1>3, <1>4, <1>6, <2>2, <2>3, <2>6, <3>3 DEF IsWalk
  <2> QED
    BY <2>5, <2>6
<1> QED
  BY <1>5, <1>6

LEMMA BaseStepKeeps ==
  ASSUME Hypotheses, IsWalk(walk), BaseStep
  PROVE  IsWalk(walk')
<1>1. PICK w, v, c, b, y, jres :
          /\ w = walk /\ v = walk' /\ c = w.curve /\ b = w.a \div Window
          /\ y = NegateWhen(Negative(b) # w.negative, w.jres.y, c.prime)
          /\ jres = JacobianAdd(c, Precomputed(c, w.i + 1, TableIndex(b)), [w.jres EXCEPT !.y = y])
  OBVIOUS
<1>2. w.phase = "loop" /\ w.loop = "base" /\ w.i < Top
  BY <1>1 DEF BaseStep
<1>3. v = [w EXCEPT !.i = w.i + 1, !.a = b, !.negative = Negative(b), !.jres = jres]
  BY <1>1 DEF BaseStep, Window
<1>4. w = [phase |-> w.phase, loop |-> w.loop, curve |-> w.curve, k |-> w.k, point |-> w.point,
           a |-> w.a, i |-> w.i, negative |-> w.negative, jres |-> w.jres, pmult |-> w.pmult,
           res |-> w.res]
      /\ c \in Curves /\ w.k \in 0 .. (c.order - 1)
  BY <1>1 DEF IsWalk
<1>5. PICK m \in KeysOf(c) : w.point = Times(c, m) /\ w.k # 0 /\ BaseGoes(w, c, m)
  BY <1>1, <1>2 DEF IsWalk
<1>6. w.k \in 1 .. (c.order - 1)
  <2>1. c.order \in Nat
    BY <1>4, CurveIs
  <2> QED
    BY <1>4, <1>5, <2>1
<1>7. /\ b = Odd(w.k, c) \div Span(w.i + 1)
      /\ Walks(c, jres, m, BasePart(Odd(w.k, c), Span(w.i + 2)))
  BY <1>1, <1>2, <1>4, <1>5, <1>6, BaseKeeps
<1>8. v = [phase |-> "loop", loop |-> "base", curve |-> c, k |-> w.k, point |-> w.point,
           a |-> b, i |-> w.i + 1, negative |-> Negative(b), jres |-> jres, pmult |-> w.pmult,
           res |-> w.res]
  BY <1>1, <1>2, <1>3, <1>4, ZenonT(60)
<1>9. /\ v.phase = "loop" /\ v.loop = "base" /\ v.curve = c /\ v.k = w.k /\ v.point = w.point
      /\ v.a = b /\ v.i = w.i + 1 /\ v.negative = Negative(b) /\ v.jres = jres
      /\ v = [phase |-> v.phase, loop |-> v.loop, curve |-> v.curve, k |-> v.k, point |-> v.point,
              a |-> v.a, i |-> v.i, negative |-> v.negative, jres |-> v.jres, pmult |-> v.pmult,
              res |-> v.res]
  BY <1>8
<1>10. BaseGoes(v, c, m)
  <2>1. m = 1 /\ w.i \in 0 .. Top
    BY <1>5 DEF BaseGoes
  <2>2. Top \in Nat
    BY SpanIs
  <2>3. w.i + 1 \in 0 .. Top /\ w.i + 1 + 1 = w.i + 2
    BY <1>2, <2>1, <2>2
  <2> QED
    BY <1>7, <1>9, <2>1, <2>3 DEF BaseGoes
<1> QED
  BY <1>1, <1>4, <1>5, <1>9, <1>10 DEF IsWalk

LEMMA PointStepKeeps ==
  ASSUME Hypotheses, IsWalk(walk), PointStep
  PROVE  IsWalk(walk')
<1>1. PICK w, v, c, b : w = walk /\ v = walk' /\ c = w.curve /\ b = w.a \div Span(w.i - 1)
  OBVIOUS
<1>2. w.phase = "loop" /\ w.loop = "point" /\ w.i > 0
  BY <1>1 DEF PointStep
<1>3. w = [phase |-> w.phase, loop |-> w.loop, curve |-> w.curve, k |-> w.k, point |-> w.point,
           a |-> w.a, i |-> w.i, negative |-> w.negative, jres |-> w.jres, pmult |-> w.pmult,
           res |-> w.res]
      /\ c \in Curves /\ w.k \in 0 .. (c.order - 1)
  BY <1>1 DEF IsWalk
<1>4. PICK m \in KeysOf(c) : w.point = Times(c, m) /\ w.k # 0 /\ PointGoes(w, c, m)
  BY <1>1, <1>2 DEF IsWalk
<1>5. w.k \in 1 .. (c.order - 1)
  <2>1. c.order \in Nat
    BY <1>3, CurveIs
  <2> QED
    BY <1>3, <1>4, <2>1
<1>6. PICK f : /\ Doublings(f, c, w.jres)
               /\ v = [w EXCEPT !.i = w.i - 1, !.negative = Negative(b),
                                !.jres = JacobianAdd(c, w.pmult[TableIndex(b)],
                                    [f[WindowBits] EXCEPT !.z =
                                        NegateWhen(Negative(b) # w.negative, f[WindowBits].z, c.prime)])]
  <2> DEFINE P(h) == Doublings(h, c, w.jres)
  <2>1. PICK x : x = SignedPart(w.a, w.i)
    OBVIOUS
  <2>2. Walks(c, w.jres, m, x) /\ w.i \in 0 .. Top /\ w.a = Odd(w.k, c)
    BY <1>4, <2>1 DEF PointGoes
  <2>3. x \in Int
    <3>1. PICK u : u = PointPart(w.a, w.i)
      OBVIOUS
    <3>2. u \in Int
      BY <1>3, <1>5, <2>2, <3>1, PointInOrder
    <3> QED
      BY <2>1, <3>1, <3>2 DEF SignedPart
  <2>4. \E h : P(h)
    BY <1>3, <2>2, <2>3, DoublingsExist
  <2>5. PICK f : f = CHOOSE h : P(h)
    OBVIOUS
  <2>6. v = [w EXCEPT !.i = w.i - 1, !.negative = Negative(b),
                      !.jres = JacobianAdd(c, w.pmult[TableIndex(b)],
                          [f[WindowBits] EXCEPT !.z =
                              NegateWhen(Negative(b) # w.negative, f[WindowBits].z, c.prime)])]
    BY <1>1, <2>5 DEF PointStep, Doublings, Span
  <2>7. P(f)
    <3> HIDE DEF P
    <3> QED
      BY <2>4, <2>5
  <2> QED
    BY <2>6, <2>7
<1>7. PICK z, jres : /\ z = NegateWhen(Negative(b) # w.negative, f[WindowBits].z, c.prime)
                     /\ jres = JacobianAdd(c, w.pmult[TableIndex(b)], [f[WindowBits] EXCEPT !.z = z])
  OBVIOUS
<1>8. Walks(c, jres, m, SignedPart(w.a, w.i - 1))
  BY <1>1, <1>2, <1>3, <1>4, <1>5, <1>6, <1>7, PointKeeps
<1>9. v = [w EXCEPT !.i = w.i - 1, !.negative = Negative(b), !.jres = jres]
  BY <1>6, <1>7
<1>10. v = [phase |-> "loop", loop |-> "point", curve |-> c, k |-> w.k, point |-> w.point,
            a |-> w.a, i |-> w.i - 1, negative |-> Negative(b), jres |-> jres, pmult |-> w.pmult,
            res |-> w.res]
  BY <1>1, <1>2, <1>3, <1>9
<1>11. /\ v.phase = "loop" /\ v.loop = "point" /\ v.curve = c /\ v.k = w.k /\ v.point = w.point
       /\ v.a = w.a /\ v.i = w.i - 1 /\ v.negative = Negative(b) /\ v.jres = jres
       /\ v.pmult = w.pmult
       /\ v = [phase |-> v.phase, loop |-> v.loop, curve |-> v.curve, k |-> v.k, point |-> v.point,
               a |-> v.a, i |-> v.i, negative |-> v.negative, jres |-> v.jres, pmult |-> v.pmult,
               res |-> v.res]
  BY <1>10
<1>12. PointGoes(v, c, m)
  <2>1. w.i \in 0 .. Top /\ w.a = Odd(w.k, c) /\ w.pmult = OddMultiples(c, w.point)
    BY <1>4 DEF PointGoes
  <2>2. Top \in Nat
    BY SpanIs
  <2>3. w.i - 1 \in 0 .. Top
    BY <1>2, <2>1, <2>2
  <2> QED
    BY <1>1, <1>8, <1>11, <2>1, <2>3 DEF PointGoes
<1> QED
  BY <1>1, <1>3, <1>4, <1>11, <1>12 DEF IsWalk

\* A multiplication by k, or by what is left of it below the order.
LEMMA SameKey ==
  ASSUME NEW c \in Curves, NEW m \in KeysOf(c), NEW k \in Int, NEW u, u = k \/ u = k - c.order
  PROVE  KeyOf(c, m, u) = KeyOf(c, m, k)
<1>1. CASE u = k
  BY <1>1
<1>2. CASE u = k - c.order
  <2>1. PICK n, a, b : n = c.order /\ a = u * m /\ b = k * m
    OBVIOUS
  <2>2. n \in Nat \ {0} /\ n \in Int /\ m \in Int
    BY <2>1, ResiduesAre
  <2>3. a \in Int /\ b = a + n * m
    BY <1>2, <2>1, <2>2
  <2>4. (a + n * m) % n = a % n
    BY <2>2, <2>3, RemainderKept
  <2> QED
    BY <2>1, <2>3, <2>4 DEF KeyOf
<1> QED
  BY <1>1, <1>2

\* The sign of the digit that would follow.
LEMMA BaseFinishes ==
  ASSUME Hypotheses, NEW w, NEW c \in Curves, NEW m \in KeysOf(c), w.k \in 1 .. (c.order - 1),
         BaseGoes(w, c, m), w.i = Top
  PROVE  \E y : /\ Walks(c, [w.jres EXCEPT !.y = NegateWhen(w.negative, w.jres.y, c.prime)], m, y)
                /\ y = w.k \/ y = w.k - c.order
<1>1. PICK n, t, r, q, k, a, s, x, y, e :
          /\ n = c.order /\ t = Top /\ r = Window /\ q = 2 ^ NumberBits /\ k = w.k /\ a = Odd(k, c)
          /\ s = Span(t) /\ x = BasePart(a, q) /\ e = w.negative /\ y = IF e THEN -x ELSE x
  OBVIOUS
<1>2. /\ t \in Nat /\ r \in Nat \ {0} /\ s \in Nat \ {0} /\ s * r = q /\ Span(t + 1) = q
      /\ q \in Nat \ {0}
  <2>1. /\ t \in Nat /\ r \in Nat \ {0} /\ q \in Nat \ {0} /\ Span(t + 1) = q
        /\ \A i \in 0 .. (t + 1) : Span(i) \in Nat \ {0}
        /\ \A i \in 0 .. t : Span(i + 1) = Span(i) * r
    BY <1>1, SpanIs
  <2>2. t \in 0 .. t /\ t \in 0 .. (t + 1)
    BY <2>1
  <2> QED
    BY <1>1, <2>1, <2>2
<1>3. /\ w.a = a \div s /\ e = Negative(w.a) /\ Walks(c, w.jres, m, BasePart(a, Span(t + 1)))
  BY <1>1 DEF BaseGoes
<1>4. a \in Nat /\ n \in Int
  BY <1>1, OddIs, ResiduesAre
<1>5. e = ((a \div q) % 2 = 0)
  <2>1. (a \div s) \div r = a \div q
    BY <1>2, <1>4, DivideTwice
  <2> QED
    BY <1>1, <1>3, <2>1 DEF Negative, Window
<1>6. /\ a \div q \in {0, 1} /\ x \in 1 .. (n - 1)
      /\ x = IF (a \div q) % 2 = 1 THEN k ELSE n - k
  BY <1>1, BaseEnds
<1>7. (a \div q) % 2 = 0 <=> (a \div q) % 2 # 1
  BY <1>6
<1>8. x \in Int /\ e \in BOOLEAN /\ k \in Int
  BY <1>1, <1>4, <1>5, <1>6
<1>9. y = k \/ y = k - n
  <2>1. CASE e
    <3>1. x = n - k /\ y = -x
      BY <1>1, <1>5, <1>6, <1>7, <2>1
    <3> QED
      BY <1>4, <1>8, <3>1
  <2>2. CASE ~e
    BY <1>1, <1>5, <1>6, <1>7, <2>2
  <2> QED
    BY <1>8, <2>1, <2>2
<1>10. Walks(c, w.jres, m, x)
  BY <1>1, <1>2, <1>3
<1>11. Walks(c, [w.jres EXCEPT !.y = NegateWhen(e, w.jres.y, c.prime)], m, y)
  BY <1>1, <1>8, <1>10, SignedWalks
<1> QED
  BY <1>1, <1>9, <1>11

LEMMA PointFinishes ==
  ASSUME Hypotheses, NEW w, NEW c \in Curves, NEW m \in KeysOf(c), w.k \in 1 .. (c.order - 1),
         PointGoes(w, c, m), w.i = 0
  PROVE  \E y : /\ Walks(c, [w.jres EXCEPT !.z = NegateWhen(w.negative, w.jres.z, c.prime)], m, y)
                /\ y = w.k \/ y = w.k - c.order
<1>1. PICK n, k, a, v, x, y, e :
          /\ n = c.order /\ k = w.k /\ a = w.a /\ v = PointPart(a, 0) /\ x = SignedPart(a, 0)
          /\ e = w.negative /\ y = IF e THEN -x ELSE x
  OBVIOUS
<1>2. a = Odd(k, c) /\ 0 \in 0 .. Top /\ e = Negative(a \div Span(0)) /\ Walks(c, w.jres, m, x)
  BY <1>1 DEF PointGoes
<1>3. v \in Int /\ (v = k \/ v = k - n)
  BY <1>1, <1>2, PointInOrder
<1>4. e \in BOOLEAN /\ x = IF e THEN -v ELSE v
  BY <1>1, <1>2 DEF SignedPart, Negative
<1>5. x \in Int /\ y = v
  BY <1>1, <1>3, <1>4
<1>6. Walks(c, [w.jres EXCEPT !.z = NegateWhen(e, w.jres.z, c.prime)], m, y)
  BY <1>1, <1>2, <1>4, <1>5, SignedWalks
<1> QED
  BY <1>1, <1>3, <1>5, <1>6

LEMMA FinishKeeps ==
  ASSUME Hypotheses, IsWalk(walk), Finish
  PROVE  IsWalk(walk')
<1>1. PICK w, v, c, jp : /\ w = walk /\ v = walk' /\ c = w.curve
                         /\ jp = LastSign(w.loop, w.jres, w.negative, c.prime)
  OBVIOUS
<1>2. w.phase = "loop" /\ w.i = IF w.loop = "base" THEN Top ELSE 0
  BY <1>1 DEF Finish
<1>3. v = [w EXCEPT !.phase = "done", !.res = JacobianToCurve(jp, c.prime)]
  BY <1>1 DEF Finish
<1>4. w = [phase |-> w.phase, loop |-> w.loop, curve |-> w.curve, k |-> w.k, point |-> w.point,
           a |-> w.a, i |-> w.i, negative |-> w.negative, jres |-> w.jres, pmult |-> w.pmult,
           res |-> w.res]
      /\ c \in Curves /\ w.k \in 0 .. (c.order - 1)
  BY <1>1 DEF IsWalk
<1>5. PICK m \in KeysOf(c) :
        /\ w.point = Times(c, m) /\ w.k # 0
        /\ \/ w.loop = "base" /\ BaseGoes(w, c, m)
           \/ w.loop = "point" /\ PointGoes(w, c, m)
  BY <1>1, <1>2 DEF IsWalk
<1>6. w.k \in 1 .. (c.order - 1)
  <2>1. c.order \in Nat
    BY <1>4, CurveIs
  <2> QED
    BY <1>4, <1>5, <2>1
<1>7. PICK y : Walks(c, jp, m, y) /\ (y = w.k \/ y = w.k - c.order)
  <2>1. CASE w.loop = "base" /\ BaseGoes(w, c, m)
    <3>1. w.i = Top
      BY <1>2, <2>1
    <3>2. PICK y : /\ Walks(c, [w.jres EXCEPT !.y = NegateWhen(w.negative, w.jres.y, c.prime)], m, y)
                   /\ y = w.k \/ y = w.k - c.order
      BY <1>4, <1>6, <2>1, <3>1, BaseFinishes
    <3>3. jp = [w.jres EXCEPT !.y = NegateWhen(w.negative, w.jres.y, c.prime)]
      BY <1>1, <2>1 DEF LastSign
    <3> QED
      BY <3>2, <3>3
  <2>2. CASE w.loop = "point" /\ PointGoes(w, c, m)
    <3>1. w.i = 0
      BY <1>2, <2>2
    <3>2. PICK y : /\ Walks(c, [w.jres EXCEPT !.z = NegateWhen(w.negative, w.jres.z, c.prime)], m, y)
                   /\ y = w.k \/ y = w.k - c.order
      BY <1>4, <1>6, <2>2, <3>1, PointFinishes
    <3>3. jp = [w.jres EXCEPT !.z = NegateWhen(w.negative, w.jres.z, c.prime)]
      BY <1>1, <2>2 DEF LastSign
    <3> QED
      BY <3>2, <3>3
  <2> QED
    BY <1>5, <2>1, <2>2
<1>8. KeyOf(c, m, y) = KeyOf(c, m, w.k)
  <2>1. w.k \in Int
    BY <1>6
  <2> QED
    BY <1>4, <1>7, <2>1, SameKey
<1>9. JacobianToCurve(jp, c.prime) = Times(c, KeyOf(c, m, w.k))
  BY <1>7, <1>8 DEF Walks, StandsFor
<1>10. v = [phase |-> "done", loop |-> w.loop, curve |-> c, k |-> w.k, point |-> w.point,
            a |-> w.a, i |-> w.i, negative |-> w.negative, jres |-> w.jres, pmult |-> w.pmult,
            res |-> JacobianToCurve(jp, c.prime)]
  BY <1>1, <1>3, <1>4, ZenonT(60)
<1>11. /\ v.phase = "done" /\ v.curve = c /\ v.k = w.k /\ v.point = w.point
       /\ v.res = JacobianToCurve(jp, c.prime)
       /\ v = [phase |-> v.phase, loop |-> v.loop, curve |-> v.curve, k |-> v.k, point |-> v.point,
               a |-> v.a, i |-> v.i, negative |-> v.negative, jres |-> v.jres, pmult |-> v.pmult,
               res |-> v.res]
  BY <1>10
<1> QED
  BY <1>1, <1>4, <1>5, <1>9, <1>11 DEF IsWalk

LEMMA WalkStart == WalkInit => WalkInv
  BY DEF WalkInit, WalkInv

LEMMA WalkStep ==
  ASSUME Hypotheses, WalkInv, [WalkNext]_walkVars
  PROVE  WalkInv'
<1>1. CASE \E c \in Curves, k \in Scalars, z \in BlindZ : Begin("base", c, k, 1, z)
  <2>1. PICK c \in Curves, k \in Scalars, z \in BlindZ : Begin("base", c, k, 1, z)
    BY <1>1
  <2>2. IsWalk(walk')
    BY <2>1, WalkBegins
  <2> QED
    BY <2>2 DEF WalkInv, IsWalk
<1>2. CASE \E c \in Curves, k \in Scalars, z \in BlindZ, m \in PointScalars : Begin("point", c, k, m, z)
  <2>1. PICK c \in Curves, k \in Scalars, z \in BlindZ, m \in PointScalars : Begin("point", c, k, m, z)
    BY <1>2
  <2>2. IsWalk(walk')
    BY <2>1, WalkBegins
  <2> QED
    BY <2>2 DEF WalkInv, IsWalk
<1>3. CASE walk.phase # "idle" /\ (BaseStep \/ PointStep \/ Finish)
  <2>1. IsWalk(walk)
    BY <1>3 DEF WalkInv, NoWalk
  <2>2. IsWalk(walk')
    BY <1>3, <2>1, BaseStepKeeps, PointStepKeeps, FinishKeeps
  <2> QED
    BY <2>2 DEF WalkInv, IsWalk
<1>4. CASE UNCHANGED walk
  BY <1>4 DEF WalkInv, IsWalk, BaseGoes, PointGoes
<1> QED
  BY <1>1, <1>2, <1>3, <1>4 DEF WalkNext, walkVars
-----------------------------------------------------------------------------
(* What the invariant says of the multiplication.                          *)

LEMMA MultipleIs ==
  ASSUME Hypotheses, NEW c \in Curves, NEW m \in KeysOf(c), NEW u \in Int
  PROVE  Multiple(c, u % c.order, Times(c, m)) = Times(c, KeyOf(c, m, u))
<1>1. PICK n, r : n = c.order /\ r = u % n
  OBVIOUS
<1>2. n \in Nat \ {0} /\ m \in Int /\ r \in ResiduesOf(c) /\ m \in ResiduesOf(c)
  BY <1>1, ResiduesAre
<1>3. Multiple(c, r, Times(c, m)) = Times(c, (r * m) % n)
  <2>1. IsGroup(c)
    BY DEF Hypotheses, CurvesAreGroups
  <2> QED
    BY <1>1, <1>2, <2>1, GroupIs
<1>4. (r * m) % n = (u * m) % n
  BY <1>1, <1>2, RemainderTimes
<1> QED
  BY <1>1, <1>3, <1>4 DEF KeyOf

\* PartUsed with the sign of the digit before it.
LEMMA BasePartUsed ==
  ASSUME NEW c, c = walk.curve, c \in Curves, walk.k \in 1 .. (c.order - 1), walk.loop = "base",
         NEW m, BaseGoes(walk, c, m)
  PROVE  /\ (IF walk.negative THEN -PartUsed ELSE PartUsed)
                = BasePart(Odd(walk.k, c), Span(walk.i + 1))
         /\ BasePart(Odd(walk.k, c), Span(walk.i + 1)) \in Int
<1>1. PICK t, r, i, a, S, s : /\ t = Top /\ r = Window /\ i = walk.i /\ a = Odd(walk.k, c)
                              /\ S = Span(i) /\ s = Span(i + 1)
  OBVIOUS
<1>2. i \in 0 .. t /\ walk.a = a \div S /\ walk.negative = Negative(walk.a)
  BY <1>1 DEF BaseGoes
<1>3. r \in Nat \ {0} /\ S \in Nat \ {0} /\ s = S * r /\ s \in Nat \ {0}
  <2>1. /\ t \in Nat /\ r \in Nat \ {0}
        /\ \A j \in 0 .. (t + 1) : Span(j) \in Nat \ {0}
        /\ \A j \in 0 .. t : Span(j + 1) = Span(j) * r
    BY <1>1, SpanIs
  <2>2. i \in 0 .. (t + 1) /\ i + 1 \in 0 .. (t + 1)
    BY <1>2, <2>1
  <2> QED
    BY <1>1, <1>2, <2>1, <2>2
<1>4. a \in Nat /\ a \in Int
  <2>1. a \in Nat
    BY <1>1, OddIs
  <2> QED
    BY <2>1
<1>5. PICK b, f : b = a \div s /\ f = a % s
  OBVIOUS
<1>6. b \in Int /\ f \in Int
  BY <1>3, <1>4, <1>5, Split
<1>7. walk.negative <=> b % 2 = 0
  <2>1. (a \div S) \div r = b
    BY <1>3, <1>4, <1>5, DivideTwice
  <2> QED
    BY <1>1, <1>2, <2>1 DEF Negative, Window
<1>8. b % 2 = 0 <=> b % 2 # 1
  BY <1>6
<1>9. PartUsed = IF b % 2 = 1 THEN f ELSE f - s
  BY <1>1, <1>5 DEF PartUsed, Span
<1>10. BasePart(a, s) = IF b % 2 = 1 THEN f ELSE s - f
  BY <1>5 DEF BasePart
<1>11. s \in Int
  BY <1>3
<1> QED
  <2>1. CASE b % 2 = 1
    BY <1>1, <1>6, <1>7, <1>8, <1>9, <1>10, <2>1
  <2>2. CASE b % 2 # 1
    <3>1. PartUsed = f - s /\ BasePart(a, s) = s - f /\ walk.negative
      BY <1>7, <1>8, <1>9, <1>10, <2>2
    <3>2. -(f - s) = s - f /\ s - f \in Int
      BY <1>6, <1>11
    <3> QED
      BY <1>1, <3>1, <3>2
  <2> QED
    BY <2>1, <2>2

LEMMA PointPartUsed ==
  ASSUME NEW c, c = walk.curve, c \in Curves, walk.k \in 1 .. (c.order - 1), walk.loop = "point",
         NEW m, PointGoes(walk, c, m)
  PROVE  /\ (IF walk.negative THEN -PartUsed ELSE PartUsed) = SignedPart(walk.a, walk.i)
         /\ SignedPart(walk.a, walk.i) \in Int
<1>1. PICK i, a, S, q, v : /\ i = walk.i /\ a = walk.a /\ S = Span(i) /\ q = 2 ^ NumberBits
                           /\ v = PointPart(a, i)
  OBVIOUS
<1>2. i \in 0 .. Top /\ a = Odd(walk.k, c) /\ walk.negative = Negative(a \div S)
  BY <1>1 DEF PointGoes
<1>3. a \in Nat
  BY <1>2, OddIs
<1>4. 2 * (a \div (2 * S)) + 1 - (q \div S) = v
  BY <1>1, <1>2, <1>3, PointPartIs
<1>5. PartUsed = v
  <2>1. PartUsed = 2 * (a \div (2 * S)) + 1 - (q \div S)
    <3>1. walk.loop # "base"
      OBVIOUS
    <3> QED
      BY <1>1, <1>2, <3>1 DEF PartUsed, Span
  <2> QED
    BY <1>4, <2>1
<1>6. v \in Int
  BY <1>1, <1>2, PointInOrder
<1>7. SignedPart(a, i) = IF walk.negative THEN -v ELSE v
  BY <1>1, <1>2 DEF SignedPart
<1> QED
  BY <1>1, <1>5, <1>6, <1>7

LEMMA WalkSound ==
  ASSUME Hypotheses, WalkInv
  PROVE  WalkIsMultiple
<1>1. CASE walk = NoWalk
  <2>1. walk.phase = "idle"
    BY <1>1 DEF NoWalk
  <2> QED
    BY <2>1 DEF WalkIsMultiple
<1>2. CASE IsWalk(walk)
  <2>1. PICK c : c = walk.curve
    OBVIOUS
  <2>2. c \in Curves /\ walk.k \in 0 .. (c.order - 1)
    BY <1>2, <2>1 DEF IsWalk
  <2>3. c.order \in Nat /\ walk.k \in Int /\ (walk.k # 0 => walk.k \in 1 .. (c.order - 1))
    <3>1. c.order \in Nat
      BY <2>2, CurveIs
    <3> QED
      BY <2>2, <3>1
  <2>4. ASSUME walk.phase = "loop", NEW part, part = IF walk.negative THEN -PartUsed ELSE PartUsed
        PROVE  /\ JacobianToCurve(walk.jres, c.prime) = Multiple(c, part % c.order, walk.point)
               /\ {walk.jres.x, walk.jres.y, walk.jres.z} \subseteq 0 .. (2 * c.prime - 1)
    <3>1. PICK m \in KeysOf(c) :
            /\ walk.point = Times(c, m) /\ walk.k # 0
            /\ \/ walk.loop = "base" /\ BaseGoes(walk, c, m)
               \/ walk.loop = "point" /\ PointGoes(walk, c, m)
      BY <1>2, <2>1, <2>4 DEF IsWalk
    <3>2. Walks(c, walk.jres, m, part) /\ part \in Int
      <4>1. CASE walk.loop = "base" /\ BaseGoes(walk, c, m)
        <5>1. Walks(c, walk.jres, m, BasePart(Odd(walk.k, c), Span(walk.i + 1)))
          BY <4>1 DEF BaseGoes
        <5>2. /\ part = BasePart(Odd(walk.k, c), Span(walk.i + 1))
              /\ BasePart(Odd(walk.k, c), Span(walk.i + 1)) \in Int
          BY <2>1, <2>2, <2>3, <2>4, <3>1, <4>1, BasePartUsed
        <5> QED
          BY <5>1, <5>2
      <4>2. CASE walk.loop = "point" /\ PointGoes(walk, c, m)
        <5>1. Walks(c, walk.jres, m, SignedPart(walk.a, walk.i))
          BY <4>2 DEF PointGoes
        <5>2. part = SignedPart(walk.a, walk.i) /\ SignedPart(walk.a, walk.i) \in Int
          BY <2>1, <2>2, <2>3, <2>4, <3>1, <4>2, PointPartUsed
        <5> QED
          BY <5>1, <5>2
      <4> QED
        BY <3>1, <4>1, <4>2
    <3>3. Multiple(c, part % c.order, Times(c, m)) = Times(c, KeyOf(c, m, part))
      BY <2>2, <3>2, MultipleIs
    <3>4. JacobianToCurve(walk.jres, c.prime) = Times(c, KeyOf(c, m, part))
      BY <3>2 DEF Walks, StandsFor
    <3>5. /\ walk.jres.x \in 0 .. (2 * c.prime - 1) /\ walk.jres.y \in 0 .. (2 * c.prime - 1)
          /\ walk.jres.z \in 0 .. (2 * c.prime - 1)
      BY <3>2 DEF Walks, StandsFor, JacobianPoints
    <3> QED
      BY <3>1, <3>3, <3>4, <3>5
  <2>5. ASSUME walk.phase = "done"
        PROVE  walk.res = Multiple(c, walk.k, walk.point)
    <3>1. PICK m \in KeysOf(c) : walk.point = Times(c, m) /\ walk.res = Times(c, KeyOf(c, m, walk.k))
      BY <1>2, <2>1, <2>5 DEF IsWalk
    <3>2. walk.k % c.order = walk.k
      <4>1. c.order \in Nat \ {0}
        BY <2>2, ResiduesAre
      <4> QED
        BY <2>2, <4>1, SmallRemainder
    <3>3. Multiple(c, walk.k % c.order, Times(c, m)) = Times(c, KeyOf(c, m, walk.k))
      BY <2>2, <2>3, MultipleIs
    <3> QED
      BY <3>1, <3>2, <3>3
  <2> QED
    BY <2>1, <2>4, <2>5 DEF WalkIsMultiple
<1> QED
  BY <1>1, <1>2 DEF WalkInv

(* Both loops give the multiple that was asked for, for every scalar below *)
(* the order, every point of the group and every blinding coordinate: the  *)
(* digits so far make jres the multiple for the part of the odd scalar     *)
(* that they are, up to the sign of the last one, and no addition of a     *)
(* loop or of its table meets infinity or the opposite of its point.       *)
THEOREM WalkCorrect ==
  ASSUME CurvesAreGroups, ProductsAreReduced(Nat)
  PROVE  WalkSpec => []WalkIsMultiple
<1>1. Hypotheses
  BY DEF Hypotheses
<1>2. WalkInit => WalkInv
  BY WalkStart
<1>3. WalkInv /\ [WalkNext]_walkVars => WalkInv'
  BY <1>1, WalkStep
<1>4. WalkInv => WalkIsMultiple
  BY <1>1, WalkSound
<1> QED
  BY <1>2, <1>3, <1>4, PTL DEF WalkSpec
==============================================================================
