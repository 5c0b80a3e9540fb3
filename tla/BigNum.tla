------------------------------- MODULE BigNum -------------------------------
(***************************************************************************)
(* The limbs of ios/Classes/bignum.c: a number is a function from 0 to     *)
(* Limbs - 1 to digits, the arithmetic is that of words which hold two     *)
(* bits more than a limb (uint32_t) or twice that (uint64_t), and a carry  *)
(* or a borrow that does not fit is lost.                                  *)
(***************************************************************************)
EXTENDS Integers

CONSTANTS
    LimbBits,      \* 30
    Limbs,         \* 9
    TextBits       \* 32: the bits of a word of a written number

ASSUME BigNumAssumption ==
    /\ {LimbBits, Limbs} \subseteq Nat \ {0}
    /\ TextBits \in (LimbBits + 1) .. (LimbBits + 2)

Place == 0 .. (Limbs - 1)
TopPlace == Limbs - 1
Radix == 2 ^ LimbBits
BnBits == TopPlace * TextBits                 \* 256
TopBits == BnBits - TopPlace * LimbBits       \* 16: of the last limb
BnCapacity == Radix ^ Limbs

Word(x) == x % 2 ^ (LimbBits + 2)
LongWord(x) == x % 2 ^ (2 * LimbBits + 4)

Value(a) ==
    LET sum[j \in 0 .. Limbs] == IF j = 0 THEN 0 ELSE sum[j - 1] + a[j - 1] * Radix ^ (j - 1)
    IN  sum[Limbs]
Digits(x) == [j \in Place |-> (x \div Radix ^ j) % Radix]
IsNormalized(a) == \A j \in Place : a[j] < Radix

(* Limb after limb: a term is added to what the last one carries over.     *)
Carried(Wide(_), Term(_), carry) ==
    LET sum[j \in Place] ==
            Wide(IF j = 0 THEN carry + Term(0) ELSE (sum[j - 1] \div Radix) + Term(j))
    IN  [j \in Place |-> sum[j] % Radix]

-----------------------------------------------------------------------------
BnAdd(a, b) == Carried(Word, LAMBDA j : a[j] + b[j], 0)
BnAddi(a, b) == Carried(Word, LAMBDA j : a[j], b)
BnSubi(a, b, prime) ==
    BnAdd([a EXCEPT ![0] = Word(@ - b)], prime)

(* Two's complement limb by limb: a carry of one stands for no borrow.     *)
BnSubtract(a, b) == Carried(Word, LAMBDA j : (Radix - 1) + a[j] - b[j], 1)
BnSubtractMod(a, b, prime) ==
    Carried(Word, LAMBDA j : (Radix - 1) + a[j] + 2 * prime[j] - b[j], 1)

(* conditional_negate of ecdsa.c, where cond is 0xffffffff                 *)
BnNegate(a, prime) == Carried(Word, LAMBDA j : (Radix - 1) + 2 * prime[j] - a[j], 1)

(* The sign of the highest limb that differs: res1 and res2 hold a bit for *)
(* each limb, that of the last limb on top.                                *)
BnIsLess(a, b) ==
    LET marks(Less(_, _)) ==
            LET res[j \in 0 .. Limbs] ==
                    IF j = Limbs THEN 0
                    ELSE 2 * res[j + 1] + (IF Less(a[j], b[j]) THEN 1 ELSE 0)
            IN  res[0]
    IN  marks(LAMBDA x, y : x < y) > marks(LAMBDA x, y : x > y)

BnFastModBy(x, prime, coef) ==
    LET offset(j) == 2 ^ (2 * LimbBits + 1) - (IF j = 0 THEN 0 ELSE 2 ^ (LimbBits + 1))
    IN  Carried(LongWord, LAMBDA j : offset(j) + x[j] - prime[j] * coef, 0)

\* Mutant: the quotient is estimated from the bits of a limb.
BnFastModTop(x, prime) == BnFastModBy(x, prime, x[TopPlace] \div Radix)

(* The offset keeps the differences positive; what it adds to a limb is    *)
(* what the next one has less of, and the last one's is cut off.           *)
BnFastMod(x, prime) == BnFastModBy(x, prime, x[TopPlace] \div 2 ^ TopBits)

BnAddMod(a, b, prime) == BnFastMod([j \in Place |-> Word(a[j] + b[j])], prime)
BnMultK(x, k, prime) == BnFastMod([j \in Place |-> Word(k * x[j])], prime)
BnMod(x, prime) == IF BnIsLess(x, prime) THEN x ELSE BnSubtract(x, prime)

BnLshift(a) ==
    [j \in Place |-> ((2 * a[j]) % Radix) + (IF j = 0 THEN 0 ELSE (2 * a[j - 1]) \div Radix)]

BnRshift(a) ==
    [j \in Place |-> a[j] \div 2 + (IF j = TopPlace THEN 0 ELSE (a[j + 1] % 2) * (Radix \div 2))]

(* bn_mult_half: tmp1 carries the half of a limb, and with it the last bit *)
(* of the next one.                                                        *)
BnMultHalf(x, prime) ==
    LET term(j) == Word(x[j] + (x[0] % 2) * prime[j])
        tmp1[j \in Place] ==
            IF j = 0 THEN term(0) \div 2
            ELSE (tmp1[j - 1] + (term(j) % 2) * (Radix \div 2)) \div Radix + term(j) \div 2
    IN  [j \in Place |->
            IF j = TopPlace THEN tmp1[j]
            ELSE (tmp1[j] + (term(j + 1) % 2) * (Radix \div 2)) % Radix]

-----------------------------------------------------------------------------
LongPlace == 0 .. (2 * Limbs - 1)

(* bn_multiply_long: the columns of the product, in 64 bits.               *)
BnMultiplyLong(k, x) ==
    LET column[i \in LongPlace] ==
            LET part[j \in -1 .. TopPlace] ==
                    IF j = -1 THEN IF i = 0 THEN 0 ELSE column[i - 1] \div Radix
                    ELSE part[j - 1] + (IF i - j \in Place THEN k[j] * x[i - j] ELSE 0)
            IN  LongWord(part[TopPlace])
    IN  [i \in LongPlace |-> column[i] % Radix]

\* Mutant: the quotient is estimated from one limb.
BnCoefficientLow(res, i) == Word(res[i] \div 2 ^ TopBits)

(* The bits above those of the prime, in limb i and the next one.          *)
BnCoefficient(res, i) ==
    Word(res[i] \div 2 ^ TopBits + Word(res[i + 1] * 2 ^ (LimbBits - TopBits)))

(* bn_multiply_reduce_step: coef * prime is taken from the limbs i - 8 to  *)
(* i, and limb i + 1 takes the last borrow.                                *)
BnReduceStep(res, prime, i) ==
    LET low == i - TopPlace
        coef == BnCoefficient(res, i)
        term(j) ==
            LET less == IF j = Limbs THEN 0 ELSE prime[j] * coef
                offset == 2 ^ (2 * LimbBits + 1) - (IF j = 0 THEN 0 ELSE 2 ^ (LimbBits + 1))
            IN  offset + res[low + j] - less
        temp[j \in 0 .. Limbs] ==
            LongWord(IF j = 0 THEN term(0) ELSE (temp[j - 1] \div Radix) + term(j))
    IN  [h \in LongPlace |-> IF h - low \in 0 .. Limbs THEN temp[h - low] % Radix ELSE res[h]]

(* bn_multiply_reduce: the product after each step, 2 * Limbs - 1 before.  *)
BnReduction(k, x, prime) ==
    LET res[i \in TopPlace .. (2 * Limbs - 1)] ==
            IF i = 2 * Limbs - 1 THEN BnMultiplyLong(k, x)
            ELSE BnReduceStep(res[i + 1], prime, i)
    IN  res

BnMultiply(k, x, prime) ==
    LET res == BnReduction(k, x, prime)[TopPlace] IN [j \in Place |-> res[j]]

(* Its assertions: coef < 0x80000000u, and res[i + 1] == 0 after a step.   *)
BnMultiplyAsserts(k, x, prime) ==
    LET res == BnReduction(k, x, prime)
    IN  \A i \in TopPlace .. (2 * Limbs - 2) :
            /\ BnCoefficient(res[i + 1], i) < 2 ^ (LimbBits + 1)
            /\ res[i][i + 1] = 0

-----------------------------------------------------------------------------
TextPlace == 0 .. (Limbs - 2)
Spare == TextBits - LimbBits
Turned(text) == [i \in TextPlace |-> text[Limbs - 2 - i]]

(* The number that words stand for, the lowest first.                      *)
TextValue(text) ==
    LET sum[j \in 0 .. (Limbs - 1)] ==
            IF j = 0 THEN 0 ELSE sum[j - 1] + text[j - 1] * 2 ^ (TextBits * (j - 1))
    IN  sum[Limbs - 1]

(* bn_read_le: word i gives the limb below it what that lacks.             *)
BnReadLe(text) ==
    LET rest(i) == text[i] \div 2 ^ (LimbBits - Spare * i)
        temp(i) == (IF i = 0 THEN 0 ELSE rest(i - 1)) + text[i] * 2 ^ (Spare * i)
    IN  [j \in Place |-> IF j = TopPlace THEN rest(TopPlace - 1) ELSE temp(j) % Radix]
BnReadBe(text) == BnReadLe(Turned(text))

(* bn_write_le: limb i + 1 fills up word i.                                *)
BnWriteLe(a) ==
    [i \in TextPlace |->
        (a[i] \div 2 ^ (Spare * i) + a[i + 1] * 2 ^ (LimbBits - Spare * i)) % 2 ^ TextBits]
BnWriteBe(a) == Turned(BnWriteLe(a))

(* bn_read_uint32, bn_read_uint64: of one or of two words.                 *)
BnReadUint(x) ==
    [j \in Place |->
        IF j = 0 THEN x % Radix
        ELSE IF j = 1 THEN (x \div Radix) % Radix
        ELSE IF j = 2 THEN x \div Radix ^ 2
        ELSE 0]

(* bn_divmod58, bn_divmod1000: rem * Radix is divided with the quotient    *)
(* and the remainder of Radix, so that no word overflows.                  *)
BnDivMod(a, divisor) ==
    LET rem[j \in Place] ==
            IF j = TopPlace THEN a[j] % divisor
            ELSE Word(rem[j + 1] * (Radix % divisor) + a[j]) % divisor
    IN  [quotient |->
            [j \in Place |->
                IF j = TopPlace THEN a[j] \div divisor
                ELSE Word(rem[j + 1] * (Radix \div divisor)
                          + Word(rem[j + 1] * (Radix % divisor) + a[j]) \div divisor)],
         remainder |-> rem[0]]
=============================================================================
