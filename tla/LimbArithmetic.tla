--------------------------- MODULE LimbArithmetic ----------------------------
(***************************************************************************)
(* A caller of ios/Classes/bignum.c: one number, held in limbs, goes       *)
(* through a sequence of calls.  A call is made where the comments of      *)
(* bignum.c allow it.                                                      *)
(***************************************************************************)
EXTENDS BigNum

CONSTANTS
    Primes,          \* the field prime and the order of the curve
    Numbers,         \* bound: the numbers that calls are made with
    MultiplyLimit,   \* 180: the inputs of bn_multiply are below this many primes
    Quotients,       \* 58 and 1000
    MaxCalls         \* bound: the calls of a sequence

ASSUME LimbAssumption ==
    /\ \A p \in Primes :
          /\ p \in (2 ^ BnBits - 2 ^ (BnBits - TextBits)) .. (2 ^ BnBits - 1)
          /\ p % 4 = 3
    /\ Numbers \subseteq 0 .. (BnCapacity - 1)
    /\ {MultiplyLimit, MaxCalls} \subseteq Nat

VARIABLES
    reg,         \* the number
    primeLimbs,  \* what it is reduced by
    promise,     \* what the comment on the last call says of its result
    words,       \* the words that the last call wrote and their order, or NoWords
    failed,      \* an assertion did not hold
    calls

limbVars == <<reg, primeLimbs, promise, words, failed, calls>>

NoWords == [order |-> "none"]
Promises == {"normalized", "partly reduced", "reduced"}

number == Value(reg)
p == Value(primeLimbs)
FitsLimbs(x) == x \in 0 .. (BnCapacity - 1)

LimbInit ==
    /\ reg \in {Digits(x) : x \in Numbers}
    /\ primeLimbs \in {Digits(x) : x \in Primes}
    /\ promise = "normalized"
    /\ words = NoWords
    /\ failed = FALSE
    /\ calls = 0

(* A call that asserts something on its way.                               *)
AssertingCall(limbs, promised, holds) ==
    /\ calls < MaxCalls
    /\ reg' = limbs
    /\ promise' = promised
    /\ words' = NoWords
    /\ failed' = (failed \/ ~holds)
    /\ calls' = calls + 1
    /\ UNCHANGED primeLimbs

Call(limbs, promised) == AssertingCall(limbs, promised, TRUE)

-----------------------------------------------------------------------------
Add(b) ==
    /\ FitsLimbs(number + b)
    /\ \/ Call(BnAdd(reg, Digits(b)), "normalized")
       \/ b < Radix /\ Call(BnAddi(reg, b), "normalized")

SubtractWord(b) ==
    /\ b < Radix
    /\ b <= primeLimbs[0]
    /\ FitsLimbs(number + p)
    /\ Call(BnSubi(reg, b, primeLimbs), "normalized")

Subtract(b) ==
    /\ b <= number
    /\ Call(BnSubtract(reg, Digits(b)), "normalized")

SubtractModulo(b) ==
    /\ b < 2 * p
    /\ FitsLimbs(number + 2 * p)
    /\ Call(BnSubtractMod(reg, Digits(b), primeLimbs), "normalized")

AddModulo(b) ==
    /\ Call(BnAddMod(reg, Digits(b), primeLimbs), "partly reduced")

MultiplyBy(b) ==
    /\ number < MultiplyLimit * p
    /\ b < MultiplyLimit * p
    /\ AssertingCall(BnMultiply(Digits(b), reg, primeLimbs), "partly reduced",
                     BnMultiplyAsserts(Digits(b), reg, primeLimbs))

MultiplySmall(k) ==
    /\ Call(BnMultK(reg, k, primeLimbs), "partly reduced")

Double ==
    /\ FitsLimbs(2 * number)
    /\ Call(BnLshift(reg), "normalized")

HalveDown ==
    /\ Call(BnRshift(reg), "normalized")

Halve ==
    /\ FitsLimbs(number + p)
    /\ Call(BnMultHalf(reg, primeLimbs),
            IF number < 2 * p THEN "partly reduced" ELSE "normalized")

PartlyReduce ==
    /\ Call(BnFastMod(reg, primeLimbs), "partly reduced")

FullyReduce ==
    /\ number < 2 * p
    /\ Call(BnMod(reg, primeLimbs), "reduced")

Negate ==
    /\ number < 2 * p
    /\ AssertingCall(BnNegate(reg, primeLimbs), "normalized",
                     {reg[TopPlace], BnNegate(reg, primeLimbs)[TopPlace]}
                         \subseteq 0 .. (2 ^ (TopBits + 1) - 1))

DivideBy(divisor) ==
    /\ Call(BnDivMod(reg, divisor).quotient, "normalized")

WriteText(order) ==
    /\ number < 2 ^ BnBits
    /\ words = NoWords
    /\ words' = [order |-> order,
                 written |-> IF order = "be" THEN BnWriteBe(reg) ELSE BnWriteLe(reg)]
    /\ UNCHANGED <<reg, primeLimbs, promise, failed, calls>>

ReadText ==
    /\ words # NoWords
    /\ Call(IF words.order = "be" THEN BnReadBe(words.written) ELSE BnReadLe(words.written),
            "normalized")

ReadUint(x) ==
    /\ x < 2 ^ (2 * TextBits)
    /\ Call(BnReadUint(x), "normalized")

LimbNext ==
    \/ \E b \in Numbers : \/ Add(b) \/ SubtractWord(b) \/ Subtract(b) \/ SubtractModulo(b)
                          \/ AddModulo(b) \/ MultiplyBy(b) \/ ReadUint(b)
    \/ \E k \in 0 .. 4 : MultiplySmall(k)
    \/ Double \/ HalveDown \/ Halve
    \/ PartlyReduce \/ FullyReduce \/ Negate
    \/ \E divisor \in Quotients : DivideBy(divisor)
    \/ WriteText("be") \/ WriteText("le") \/ ReadText
    \/ calls = MaxCalls /\ UNCHANGED limbVars

LimbSpec == LimbInit /\ [][LimbNext]_limbVars

-----------------------------------------------------------------------------
(* The limbs of a result are digits, and the number is as small as the     *)
(* comment on the call promises: below the prime, or below twice the       *)
(* prime.  That rests on the estimates of quotients in bn_fast_mod and in  *)
(* bn_multiply_reduce_step, which are good only for primes of this kind.   *)
(* And no assertion of bn_multiply_reduce or conditional_negate can fail.  *)
PromiseKept ==
    /\ IsNormalized(reg)
    /\ promise = "partly reduced" => number < 2 * p
    /\ promise = "reduced" => number < p
    /\ ~failed

-----------------------------------------------------------------------------
Written == TextValue(IF words.order = "be" THEN Turned(words.written) ELSE words.written)

Field == INSTANCE FieldArithmetic WITH
            NumberBits <- BnBits, SmallBound <- Radix,
            Moduli <- Primes, Capacity <- BnCapacity,
            MultiplyBound <- MultiplyLimit,
            Samples <- Numbers \cup 0 .. 4, Divisors <- Quotients,
            num <- number, modulus <- p,
            text <- IF words = NoWords THEN -1 ELSE Written

(* No carry, borrow or bit is lost between the limbs: every call computes  *)
(* on limbs the number that the arithmetic of FieldNumbers gives, or one   *)
(* of the two where the call reduces partly.                               *)
ImplementsField == Field!FieldSpec
==============================================================================
