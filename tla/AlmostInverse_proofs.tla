------------------------- MODULE AlmostInverse_proofs ------------------------
(***************************************************************************)
(* That the almost modular inverse of AlmostInverse answers with the       *)
(* inverse, for every prime and every choice of shifts.                    *)
(***************************************************************************)
EXTENDS AlmostInverse, TLAPS

Stages == {"idle", "reducing", "dividing", "done"}

InverseTypeOK ==
    /\ stage \in Stages
    /\ modulus \in Moduli
    /\ x \in Nat /\ u \in Nat /\ v \in Nat /\ r \in Nat /\ s \in Nat
    /\ pow \in Nat

Congruent(a, b) == \E q \in Int : a - b = q * modulus

Unused == stage = "idle" => x = 0 /\ u = modulus /\ v = 0 /\ r = 0 /\ s = 1 /\ pow = 1

InputReduced == stage # "idle" => x \in 1 .. (modulus - 1)

(* u is the prime until it is made smaller.                                *)
Sizes ==
    stage = "reducing" =>
        /\ u >= 1 /\ v >= 1 /\ s >= 1
        /\ v <= x
        /\ r = 0 => u = modulus

(* The identity that keeps u and v from passing each other.                 *)
Balance == stage = "reducing" => u * s + v * r = modulus

(* s and r lead back from v and u to the input.                             *)
Chains ==
    stage = "reducing" => Congruent(x * s, v * pow) /\ Congruent(x * r, -(u * pow))

(* Dividing keeps what s is congruent to.                                   *)
Answered ==
    stage \in {"dividing", "done"} => s < modulus /\ Congruent(x * s, pow)

Finished == stage = "done" => pow = 1

IInv ==
    /\ InverseTypeOK /\ Unused /\ InputReduced /\ Sizes
    /\ Balance /\ Chains /\ Answered /\ Finished

-----------------------------------------------------------------------------
(* The prime is a number above one.                                         *)
LEMMA ModulusIsNat == ASSUME InverseTypeOK PROVE modulus \in Nat /\ modulus > 1
  BY InverseAssumption DEF InverseTypeOK, IsPrime

(* A division without remainder is exact.                                   *)
LEMMA Exact ==
    ASSUME NEW a \in Nat, NEW f \in Nat \ {0}, a % f = 0
    PROVE  a = (a \div f) * f /\ a \div f \in Nat
  OBVIOUS

(* The residue of what is congruent to a reduced number is that number.     *)
LEMMA Residue ==
    ASSUME NEW m \in Nat, m > 0, NEW a \in Int, NEW q \in Int, NEW c \in 0 .. (m - 1),
           a - c = q * m
    PROVE  a % m = c
<1>. DEFINE d == a \div m
            e == a % m
<1>1. d \in Int /\ e \in 0 .. (m - 1) /\ a = m * d + e
  OBVIOUS
<1>2. e - c = m * (q - d)
  BY <1>1
<1>. HIDE DEF d, e
<1>3. q - d < 1
  <2>1. SUFFICES ASSUME q - d >= 1 PROVE FALSE
    BY <1>1
  <2>2. m * (q - d) >= m * 1
    BY <2>1, <1>1
  <2>. QED
    BY <2>2, <1>1, <1>2
<1>4. q - d > -1
  <2>1. SUFFICES ASSUME q - d <= -1 PROVE FALSE
    BY <1>1
  <2>2. m * (q - d) <= m * (-1)
    BY <2>1, <1>1
  <2>. QED
    BY <2>2, <1>1, <1>2
<1>5. q - d = 0
  BY <1>1, <1>3, <1>4
<1>6. m * (q - d) = 0
  BY <1>5
<1>7. e = c
  BY <1>1, <1>2, <1>6
<1>. QED
  BY <1>7 DEF e

(* Only itself and one divide a prime.                                     *)
LEMMA DivisorOfPrime ==
    ASSUME NEW m \in Nat, IsPrime(m), NEW a \in Nat, NEW b \in Nat, a * b = m
    PROVE  a = 1 \/ a = m
<1>1. m > 1
  BY DEF IsPrime
<1>2. a # 0
  BY <1>1
<1>3. b # 0
  BY <1>1
<1>4. a <= m
  <2>1. a * b >= a * 1
    BY <1>3
  <2>. QED
    BY <2>1
<1>5. CASE a \in 2 .. (m - 1)
  <2>1. (a * b) % a = 0
    <3>1. a * b \in Int /\ (a * b) - 0 = b * a /\ 0 \in 0 .. (a - 1)
      BY <1>2
    <3>. QED
      BY <3>1, <1>2, Residue
  <2>. QED
    BY <1>5, <2>1 DEF IsPrime
<1>. QED
  BY <1>2, <1>4, <1>5

-----------------------------------------------------------------------------
(* What a step does to a congruence.                                       *)
LEMMA Scaled ==
    ASSUME NEW a \in Int, NEW b \in Int, NEW f \in Int, NEW q \in Int, NEW m \in Int,
           a - b = q * m
    PROVE  a * f - b * f = (q * f) * m
<1>1. a * f - b * f = (a - b) * f
  OBVIOUS
<1>2. (q * m) * f = (q * f) * m
  OBVIOUS
<1>. QED
  BY <1>1, <1>2

(* Congruences add up.                                                      *)
LEMMA Added ==
    ASSUME NEW a \in Int, NEW b \in Int, NEW c \in Int, NEW d \in Int,
           NEW q \in Int, NEW h \in Int, NEW m \in Int,
           a - b = q * m, c - d = h * m
    PROVE  (a + c) - (b + d) = (q + h) * m
<1>1. (q + h) * m = q * m + h * m
  OBVIOUS
<1>. QED
  BY <1>1

(* A factor with an inverse can be taken out of a congruence.              *)
LEMMA Cancelled ==
    ASSUME NEW d \in Int, NEW f \in Int, NEW g \in Int, NEW c \in Int, NEW q \in Int,
           NEW m \in Int, f * g = 1 + c * m, d * f = q * m
    PROVE  d = (q * g - c * d) * m
<1>1. d * (f * g) = (d * f) * g
  OBVIOUS
<1>2. d * (1 + c * m) = d + (c * d) * m
  OBVIOUS
<1>3. (q * m) * g = (q * g) * m
  OBVIOUS
<1>4. d = (q * g) * m - (c * d) * m
  BY <1>1, <1>2, <1>3
<1>5. (q * g - c * d) * m = (q * g) * m - (c * d) * m
  OBVIOUS
<1>. QED
  BY <1>4, <1>5

(* What a shift divides by has an inverse modulo the prime.                 *)
LEMMA FactorHasInverse ==
    ASSUME InverseTypeOK, NEW f \in Factors
    PROVE  \E g \in Int, c \in Int : f * g = 1 + c * modulus
<1>1. PICK g \in 1 .. modulus : (f * g) % modulus = 1
  BY InverseAssumption DEF InverseTypeOK
<1>2. modulus \in Nat /\ modulus > 1 /\ f \in Nat
  BY ModulusIsNat, InverseAssumption
<1>3. f * g \in Int
  BY <1>2
<1>4. f * g = modulus * ((f * g) \div modulus) + 1 /\ (f * g) \div modulus \in Int
  BY <1>1, <1>2, <1>3
<1>5. PICK e \in Int : f * g = 1 + e * modulus
  <2>1. f * g = 1 + ((f * g) \div modulus) * modulus
    BY <1>2, <1>3, <1>4
  <2>. DEFINE d == (f * g) \div modulus
  <2>2. d \in Int /\ f * g = 1 + d * modulus
    BY <1>4, <2>1
  <2>. HIDE DEF d
  <2>. QED
    BY <2>2
<1>. QED
  BY <1>5

-----------------------------------------------------------------------------
(* The invariant holds at first.                                            *)
LEMMA InverseInitInv == InverseInit => IInv
<1>. SUFFICES ASSUME InverseInit PROVE IInv
  OBVIOUS
<1>1. InverseTypeOK
  BY InverseAssumption DEF InverseInit, InverseTypeOK, Stages
<1>. QED
  BY <1>1 DEF InverseInit, IInv, Unused, InputReduced, Sizes, Balance, Chains, Answered, Finished

(* It holds when the input has been taken over.                             *)
LEMMA BeginInv ==
    ASSUME IInv, Begin
    PROVE  IInv'
<1>. USE DEF Begin
<1>1. InverseTypeOK /\ modulus \in Nat /\ modulus > 1
  BY ModulusIsNat DEF IInv
<1>2. u = modulus /\ r = 0 /\ s = 1 /\ pow = 1
  BY DEF IInv, Unused
<1>3. PICK y \in 1 .. (modulus - 1) : x' = y /\ v' = y
  OBVIOUS
<1>4. y \in Nat /\ y >= 1
  BY <1>1
<1>5. InverseTypeOK'
  BY <1>1, <1>3, <1>4 DEF InverseTypeOK, Stages
<1>6. Sizes'
  BY <1>1, <1>2, <1>3, <1>4 DEF Sizes
<1>7. Balance'
  BY <1>1, <1>2, <1>3, <1>4 DEF Balance
<1>8. Chains'
  <2>1. Congruent(x * s, v * pow)'
    <3>1. x' * s' - v' * pow' = 0 * modulus'
      BY <1>1, <1>2, <1>3, <1>4
    <3>. QED
      BY <3>1 DEF Congruent
  <2>2. Congruent(x * r, -(u * pow))'
    <3>1. x' * r' - (-(u' * pow')) = 1 * modulus'
      BY <1>1, <1>2, <1>3, <1>4
    <3>. QED
      BY <3>1 DEF Congruent
  <2>. QED
    BY <2>1, <2>2 DEF Chains
<1>. QED
  BY <1>1, <1>3, <1>5, <1>6, <1>7, <1>8 DEF IInv, Unused, InputReduced, Answered, Finished

(* It survives a shift of u.                                                *)
LEMMA HalveUInv ==
    ASSUME IInv, NEW f \in Factors, HalveU(f)
    PROVE  IInv'
<1>. USE DEF HalveU
<1>1. /\ InverseTypeOK /\ modulus \in Nat /\ modulus > 1 /\ f \in Nat \ {0}
      /\ x \in Nat /\ u \in Nat /\ v \in Nat /\ r \in Nat /\ s \in Nat /\ pow \in Nat
  BY ModulusIsNat, InverseAssumption DEF IInv, InverseTypeOK
<1>2. u = u' * f /\ u' \in Nat
  BY <1>1, Exact
<1>3. InverseTypeOK'
  BY <1>1, <1>2 DEF InverseTypeOK
<1>4. Sizes'
  <2>1. u' >= 1
    BY <1>1, <1>2 DEF IInv, Sizes
  <2>2. s' >= 1
    BY <1>1 DEF IInv, Sizes
  <2>3. ASSUME r = 0 PROVE u' = modulus
    <3>1. u = modulus
      BY <2>3 DEF IInv, Sizes
    <3>2. f = 1
      BY <3>1, InverseAssumption DEF IInv, InverseTypeOK
    <3>. QED
      BY <3>1, <3>2, <1>2
  <2>. QED
    BY <2>1, <2>2, <2>3 DEF IInv, Sizes
<1>5. Balance'
  <2>1. u' * (s * f) = (u' * f) * s
    BY <1>1, <1>2
  <2>. QED
    BY <2>1, <1>1, <1>2 DEF IInv, Balance
<1>6. Chains'
  <2>1. Congruent(x * s, v * pow)'
    <3>1. PICK q \in Int : x * s - v * pow = q * modulus
      BY DEF IInv, Chains, Congruent
    <3>2. (x * s) * f - (v * pow) * f = (q * f) * modulus
      BY <3>1, <1>1, Scaled
    <3>3. x * (s * f) = (x * s) * f /\ v * (pow * f) = (v * pow) * f /\ q * f \in Int
      BY <1>1
    <3>. QED
      BY <3>2, <3>3 DEF Congruent
  <2>2. Congruent(x * r, -(u * pow))'
    <3>1. u' * (pow * f) = (u' * f) * pow
      BY <1>1, <1>2
    <3>2. u' * pow' = u * pow
      BY <3>1, <1>2
    <3>. QED
      BY <3>2 DEF IInv, Chains, Congruent
  <2>. QED
    BY <2>1, <2>2 DEF Chains
<1>. QED
  BY <1>3, <1>4, <1>5, <1>6 DEF IInv, Unused, InputReduced, Answered, Finished

(* It survives a shift of v.                                                *)
LEMMA HalveVInv ==
    ASSUME IInv, NEW f \in Factors, HalveV(f)
    PROVE  IInv'
<1>. USE DEF HalveV
<1>1. /\ InverseTypeOK /\ modulus \in Nat /\ modulus > 1 /\ f \in Nat \ {0}
      /\ x \in Nat /\ u \in Nat /\ v \in Nat /\ r \in Nat /\ s \in Nat /\ pow \in Nat
  BY ModulusIsNat, InverseAssumption DEF IInv, InverseTypeOK
<1>2. v = v' * f /\ v' \in Nat
  BY <1>1, Exact
<1>3. InverseTypeOK'
  BY <1>1, <1>2 DEF InverseTypeOK
<1>4. Sizes'
  <2>1. v' >= 1
    BY <1>1, <1>2 DEF IInv, Sizes
  <2>2. v' <= v
    <3>1. v' * f >= v' * 1
      BY <1>1, <1>2
    <3>. QED
      BY <3>1, <1>1, <1>2
  <2>3. ASSUME r * f = 0 PROVE r = 0
    BY <2>3, <1>1
  <2>. QED
    BY <2>1, <2>2, <2>3, <1>1, <1>2 DEF IInv, Sizes
<1>5. Balance'
  <2>1. v' * (r * f) = (v' * f) * r
    BY <1>1, <1>2
  <2>. QED
    BY <2>1, <1>1, <1>2 DEF IInv, Balance
<1>6. Chains'
  <2>1. Congruent(x * s, v * pow)'
    <3>1. v' * (pow * f) = (v' * f) * pow
      BY <1>1, <1>2
    <3>2. v' * pow' = v * pow
      BY <3>1, <1>2
    <3>. QED
      BY <3>2 DEF IInv, Chains, Congruent
  <2>2. Congruent(x * r, -(u * pow))'
    <3>1. PICK q \in Int : x * r - (-(u * pow)) = q * modulus
      BY DEF IInv, Chains, Congruent
    <3>2. (x * r) * f - (-(u * pow)) * f = (q * f) * modulus
      BY <3>1, <1>1, Scaled
    <3>3. x * (r * f) = (x * r) * f /\ -(u * (pow * f)) = (-(u * pow)) * f /\ q * f \in Int
      BY <1>1
    <3>. QED
      BY <3>2, <3>3 DEF Congruent
  <2>. QED
    BY <2>1, <2>2 DEF Chains
<1>. QED
  BY <1>3, <1>4, <1>5, <1>6 DEF IInv, Unused, InputReduced, Answered, Finished

(* It survives the subtraction from u.                                      *)
LEMMA SubtractVInv ==
    ASSUME IInv, SubtractV
    PROVE  IInv'
<1>. USE DEF SubtractV
<1>1. /\ InverseTypeOK /\ modulus \in Nat /\ modulus > 1
      /\ x \in Nat /\ u \in Nat /\ v \in Nat /\ r \in Nat /\ s \in Nat /\ pow \in Nat
  BY ModulusIsNat DEF IInv, InverseTypeOK
<1>2. u' \in Nat /\ u' >= 1 /\ r' \in Nat /\ r' = r + s
  BY <1>1
<1>3. InverseTypeOK'
  BY <1>1, <1>2 DEF InverseTypeOK
<1>4. Sizes'
  BY <1>1, <1>2 DEF IInv, Sizes
<1>5. Balance'
  <2>1. (u - v) * s = u * s - v * s /\ v * (r + s) = v * r + v * s
    BY <1>1
  <2>. QED
    BY <2>1, <1>1 DEF IInv, Balance
<1>6. Chains'
  <2>1. Congruent(x * s, v * pow)'
    BY DEF IInv, Chains, Congruent
  <2>2. Congruent(x * r, -(u * pow))'
    <3>1. PICK q \in Int : x * s - v * pow = q * modulus
      BY DEF IInv, Chains, Congruent
    <3>2. PICK h \in Int : x * r - (-(u * pow)) = h * modulus
      BY DEF IInv, Chains, Congruent
    <3>3. x * s \in Int /\ v * pow \in Int /\ x * r \in Int /\ u * pow \in Int
      BY <1>1
    <3>4. (x * s + x * r) - (v * pow + (-(u * pow))) = (q + h) * modulus
      BY <3>1, <3>2, <3>3, <1>1, Added
    <3>5. x * (r + s) = x * s + x * r /\ (u - v) * pow = u * pow - v * pow
      BY <1>1
    <3>6. x' * r' - (-(u' * pow')) = (q + h) * modulus' /\ q + h \in Int
      BY <3>3, <3>4, <3>5, <1>2
    <3>. QED
      BY <3>6 DEF Congruent
  <2>. QED
    BY <2>1, <2>2 DEF Chains
<1>. QED
  BY <1>3, <1>4, <1>5, <1>6 DEF IInv, Unused, InputReduced, Answered, Finished

(* It survives the subtraction from v.                                      *)
LEMMA SubtractUInv ==
    ASSUME IInv, SubtractU
    PROVE  IInv'
<1>. USE DEF SubtractU
<1>1. /\ InverseTypeOK /\ modulus \in Nat /\ modulus > 1
      /\ x \in Nat /\ u \in Nat /\ v \in Nat /\ r \in Nat /\ s \in Nat /\ pow \in Nat
  BY ModulusIsNat DEF IInv, InverseTypeOK
<1>2. v' \in Nat /\ v' >= 1 /\ v' <= v /\ s' \in Nat /\ s' >= s
  BY <1>1
<1>3. InverseTypeOK'
  BY <1>1, <1>2 DEF InverseTypeOK
<1>4. Sizes'
  BY <1>1, <1>2 DEF IInv, Sizes
<1>5. Balance'
  <2>1. u * (s + r) = u * s + u * r /\ (v - u) * r = v * r - u * r
    BY <1>1
  <2>. QED
    BY <2>1, <1>1 DEF IInv, Balance
<1>6. Chains'
  <2>1. Congruent(x * s, v * pow)'
    <3>1. PICK q \in Int : x * s - v * pow = q * modulus
      BY DEF IInv, Chains, Congruent
    <3>2. PICK h \in Int : x * r - (-(u * pow)) = h * modulus
      BY DEF IInv, Chains, Congruent
    <3>3. x * s \in Int /\ v * pow \in Int /\ x * r \in Int /\ u * pow \in Int
      BY <1>1
    <3>4. (x * s + x * r) - (v * pow + (-(u * pow))) = (q + h) * modulus
      BY <3>1, <3>2, <3>3, <1>1, Added
    <3>5. x * (s + r) = x * s + x * r /\ (v - u) * pow = v * pow - u * pow
      BY <1>1
    <3>6. x' * s' - v' * pow' = (q + h) * modulus' /\ q + h \in Int
      BY <3>3, <3>4, <3>5
    <3>. QED
      BY <3>6 DEF Congruent
  <2>2. Congruent(x * r, -(u * pow))'
    BY DEF IInv, Chains, Congruent
  <2>. QED
    BY <2>1, <2>2 DEF Chains
<1>. QED
  BY <1>3, <1>4, <1>5, <1>6 DEF IInv, Unused, InputReduced, Answered, Finished

(* The two can only meet at a divisor of the prime.                        *)
LEMMA BothEqualInv ==
    ASSUME IInv, BothEqual
    PROVE  IInv'
<1>. USE DEF BothEqual
<1>1. /\ InverseTypeOK /\ modulus \in Nat /\ modulus > 1 /\ IsPrime(modulus)
      /\ x \in Nat /\ u \in Nat /\ v \in Nat /\ r \in Nat /\ s \in Nat /\ pow \in Nat
  BY ModulusIsNat, InverseAssumption DEF IInv, InverseTypeOK
<1>2. u * (s + r) = modulus
  <2>1. u * (s + r) = u * s + u * r
    BY <1>1
  <2>. QED
    BY <2>1 DEF IInv, Balance
<1>3. u = 1
  <2>1. u = 1 \/ u = modulus
    <3>1. s + r \in Nat
      BY <1>1
    <3>. QED
      BY <3>1, <1>1, <1>2, DivisorOfPrime
  <2>2. u < modulus
    BY <1>1 DEF IInv, Sizes, InputReduced
  <2>. QED
    BY <2>1, <2>2, <1>1
<1>4. s < modulus
  <2>1. r # 0
    BY <1>1, <1>3 DEF IInv, Sizes
  <2>. QED
    BY <2>1, <1>1, <1>2, <1>3
<1>5. Congruent(x * s, pow)
  <2>1. v * pow = pow
    BY <1>1, <1>3
  <2>. QED
    BY <2>1 DEF IInv, Chains
<1>6. Answered'
  BY <1>4, <1>5 DEF Answered, Congruent
<1>7. InverseTypeOK'
  BY <1>1 DEF InverseTypeOK, Stages
<1>. QED
  BY <1>6, <1>7 DEF IInv, Unused, InputReduced, Sizes, Balance, Chains, Finished

(* It survives a division of s: the factor can be cancelled.                *)
LEMMA DivideInv ==
    ASSUME IInv, NEW f \in Factors, NEW factor \in 0 .. (f - 1), Divide(f, factor)
    PROVE  IInv'
<1>. USE DEF Divide
<1>1. /\ InverseTypeOK /\ modulus \in Nat /\ modulus > 1 /\ f \in Nat \ {0}
      /\ x \in Nat /\ s \in Nat /\ pow \in Nat /\ factor \in Nat
  BY ModulusIsNat, InverseAssumption DEF IInv, InverseTypeOK
<1>2. s + factor * modulus = s' * f /\ s' \in Nat
  <2>1. s + factor * modulus \in Nat
    BY <1>1
  <2>. QED
    BY <2>1, <1>1, Exact
<1>3. pow = pow' * f /\ pow' \in Nat
  BY <1>1, Exact
<1>4. InverseTypeOK'
  BY <1>1, <1>2, <1>3 DEF InverseTypeOK
<1>5. s' < modulus
  <2>1. s <= modulus - 1
    BY <1>1 DEF IInv, Answered
  <2>2. factor * modulus <= (f - 1) * modulus
    BY <1>1
  <2>3. (f - 1) * modulus = f * modulus - modulus
    BY <1>1
  <2>4. s' * f < modulus * f
    BY <2>1, <2>2, <2>3, <1>1, <1>2
  <2>5. SUFFICES ASSUME s' >= modulus PROVE FALSE
    BY <1>1, <1>2
  <2>6. s' * f >= modulus * f
    BY <2>5, <1>1, <1>2
  <2>. QED
    BY <2>4, <2>6, <1>1, <1>2
<1>6. Congruent(x * s', pow')
  <2>1. PICK q \in Int : x * s - pow = q * modulus
    BY DEF IInv, Answered, Congruent
  <2>2. PICK g \in Int, c \in Int : f * g = 1 + c * modulus
    BY <1>1, FactorHasInverse
  <2>. DEFINE d == x * s' - pow'
              h == q + x * factor
  <2>3. d \in Int /\ h \in Int /\ f \in Int /\ modulus \in Int
    BY <1>1, <1>2, <1>3
  <2>4. d * f = h * modulus
    <3>1. d * f = x * (s' * f) - pow' * f
      BY <1>1, <1>2, <1>3
    <3>2. x * (s + factor * modulus) = x * s + (x * factor) * modulus
      BY <1>1
    <3>3. h * modulus = q * modulus + (x * factor) * modulus
      BY <1>1
    <3>. QED
      BY <3>1, <3>2, <3>3, <2>1, <1>1, <1>2, <1>3
  <2>. HIDE DEF d, h
  <2>5. d = (h * g - c * d) * modulus /\ h * g - c * d \in Int
    BY <2>2, <2>3, <2>4, Cancelled
  <2>6. x * s' - pow' = (h * g - c * d) * modulus
    BY <2>5 DEF d
  <2>. QED
    BY <2>5, <2>6 DEF Congruent
<1>7. Answered'
  BY <1>5, <1>6 DEF Answered, Congruent
<1>. QED
  BY <1>4, <1>7 DEF IInv, Unused, InputReduced, Sizes, Balance, Chains, Finished

(* It survives the end, where pow is one.                                   *)
LEMMA DeliverInv ==
    ASSUME IInv, Deliver
    PROVE  IInv'
<1>. USE DEF Deliver
<1>1. InverseTypeOK'
  BY DEF IInv, InverseTypeOK, Stages
<1>2. Answered'
  BY DEF IInv, Answered, Congruent
<1>. QED
  BY <1>1, <1>2 DEF IInv, Unused, InputReduced, Sizes, Balance, Chains, Finished

(* Every step keeps the invariant.                                          *)
LEMMA InverseStepInv == IInv /\ [InverseNext]_inverseVars => IInv'
<1>. SUFFICES ASSUME IInv, [InverseNext]_inverseVars PROVE IInv'
  OBVIOUS
<1>1. CASE Begin
  BY <1>1, BeginInv
<1>2. ASSUME NEW f \in Factors, HalveU(f) PROVE IInv'
  BY <1>2, HalveUInv
<1>3. ASSUME NEW f \in Factors, HalveV(f) PROVE IInv'
  BY <1>3, HalveVInv
<1>4. ASSUME NEW f \in Factors, NEW factor \in 0 .. (f - 1), Divide(f, factor) PROVE IInv'
  BY <1>4, DivideInv
<1>5. CASE SubtractV
  BY <1>5, SubtractVInv
<1>6. CASE SubtractU
  BY <1>6, SubtractUInv
<1>7. CASE BothEqual
  BY <1>7, BothEqualInv
<1>8. CASE Deliver
  BY <1>8, DeliverInv
<1>9. CASE UNCHANGED inverseVars
  BY <1>9 DEF inverseVars, IInv, InverseTypeOK, Unused, InputReduced, Sizes, Balance,
              Chains, Answered, Finished, Congruent
<1>. QED
  BY <1>1, <1>2, <1>3, <1>4, <1>5, <1>6, <1>7, <1>8, <1>9 DEF InverseNext

(* The invariant says that the answer is the inverse.                       *)
LEMMA InverseOfInv == IInv => InverseIsInverse
<1>. SUFFICES ASSUME IInv, stage = "done"
              PROVE  s < modulus /\ (x * s) % modulus = 1
  BY DEF InverseIsInverse
<1>1. /\ modulus \in Nat /\ modulus > 1 /\ x \in Nat /\ s \in Nat
      /\ s < modulus /\ pow = 1
  BY ModulusIsNat DEF IInv, InverseTypeOK, Answered, Finished
<1>2. PICK q \in Int : x * s - 1 = q * modulus
  BY <1>1 DEF IInv, Answered, Congruent
<1>3. x * s \in Int /\ 1 \in 0 .. (modulus - 1) /\ modulus > 0
  BY <1>1
<1>4. (x * s) % modulus = 1
  BY <1>1, <1>2, <1>3, Residue
<1>. QED
  BY <1>1, <1>4

(* The four numbers of bn_inverse stay numbers below their bounds: in      *)
(* particular u and v never reach zero before they meet.                   *)
THEOREM InverseInvariant == InverseSpec => []IInv
<1>. QED
  BY InverseInitInv, InverseStepInv, PTL DEF InverseSpec

(* bn_inverse answers with the reduced inverse, for every prime, every     *)
(* reduced nonzero input and every grouping of the shifts.                 *)
THEOREM InverseCorrect == InverseSpec => []InverseIsInverse
<1>. QED
  BY InverseInvariant, InverseOfInv, PTL
=============================================================================
