--------------------------- MODULE FieldArithmetic ---------------------------
(***************************************************************************)
(* What a caller of ios/Classes/bignum.c works with: a number that fits,   *)
(* and calls that are made where the comments of bignum.c allow them.      *)
(***************************************************************************)
EXTENDS FieldNumbers

CONSTANTS
    Moduli,         \* primes just below 2 ^ NumberBits
    Capacity,       \* what a number has to be smaller than
    MultiplyBound,  \* 180: the inputs of a product are below this many primes
    SmallBound,     \* 2 ^ 30: what bn_subi subtracts is smaller
    Samples,        \* bound: the numbers that calls are made with
    Divisors        \* 58 and 1000

VARIABLES
    num,
    modulus,
    text            \* the number that the last call wrote, or Unwritten

fieldVars == <<num, modulus, text>>

Unwritten == -1

Fits(x) == x \in 0 .. (Capacity - 1)
BelowTwice(x) == x < 2 * modulus
Multipliable(x) == x < MultiplyBound * modulus

FieldInit == num \in Samples /\ modulus \in Moduli /\ text = Unwritten

Becomes(x) ==
    /\ num' = x
    /\ text' = Unwritten
    /\ UNCHANGED modulus

(* A call that reduces partly.                                             *)
BecomesOne(x) == \E r \in Representatives(x, modulus) : Becomes(r)

(* bn_add, bn_addi, bn_subi, bn_subtract, bn_subtractmod, bn_addmod        *)
Sum(b) ==
    \/ Fits(num + b) /\ Becomes(num + b)
    \/ b < SmallBound /\ Fits(num + modulus) /\ Becomes(num + modulus - b)
    \/ b <= num /\ Becomes(num - b)
    \/ b < 2 * modulus /\ Fits(num + 2 * modulus) /\ Becomes(SubtractMod(num, b, modulus))
    \/ BecomesOne(num + b)

(* bn_multiply, bn_mult_k, bn_lshift, bn_rshift, bn_mult_half              *)
Product(b) ==
    \/ Multipliable(num) /\ Multipliable(b) /\ BecomesOne(num * b)
    \/ b \in 0 .. 4 /\ BecomesOne(num * b)
    \/ b = 2 /\ Fits(2 * num) /\ Becomes(2 * num)
    \/ b = 2 /\ Becomes(num \div 2)
    \/ b = 2 /\ Fits(num + modulus) /\ Becomes(MultiplyHalf(num, modulus))

(* bn_fast_mod, bn_mod, conditional_negate                                 *)
Reduce ==
    \/ Becomes(FastMod(num, modulus))
    \/ BelowTwice(num) /\ Becomes(Reduced(num, modulus))
    \/ BelowTwice(num) /\ Becomes(Negated(num, modulus))

(* bn_divmod58, bn_divmod1000                                              *)
Divide(divisor) == Becomes(num \div divisor)

(* bn_write_be, bn_write_le, bn_read_be, bn_read_le, bn_read_uint64        *)
Write ==
    /\ num < 2 ^ NumberBits
    /\ text' = num
    /\ UNCHANGED <<num, modulus>>
Read == text # Unwritten /\ Becomes(text)
ReadSmall(x) == x < 2 ^ NumberBits /\ Becomes(x)

FieldNext ==
    \/ \E b \in Samples : Sum(b) \/ Product(b) \/ ReadSmall(b)
    \/ Reduce \/ Write \/ Read
    \/ \E divisor \in Divisors : Divide(divisor)

FieldSpec == FieldInit /\ [][FieldNext]_fieldVars
==============================================================================
