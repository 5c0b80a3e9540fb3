---------------------------- MODULE FieldNumbers ----------------------------
(***************************************************************************)
(* What ios/Classes/bignum.c computes modulo a prime, on numbers instead   *)
(* of limbs.  A result is not the residue but one of the numbers with that *)
(* residue, and which one it is matters: point_jacobian_add compares with  *)
(* the prime, conditional_negate asserts a range.                          *)
(***************************************************************************)
EXTENDS Integers

CONSTANT NumberBits    \* 256: the size of a number, and of the prime

ASSUME FieldAssumption == NumberBits \in Nat \ {0}

(* The partly reduced numbers with the residue of x.  bn_multiply gives    *)
(* one of them, and so do bn_addmod and bn_mult_k, which estimate the      *)
(* quotient before the limbs have carried.                                 *)
Representatives(x, prime) == {x % prime, (x % prime) + prime}

(* bn_fast_mod of normalized limbs: the bits above NumberBits are the      *)
(* estimate of the quotient.                                               *)
FastMod(x, prime) == x - (x \div 2 ^ NumberBits) * prime

(* bn_mod                                                                  *)
Reduced(x, prime) == IF x < prime THEN x ELSE x - prime

SubtractMod(a, b, prime) == a + 2 * prime - b

(* bn_mult_half                                                            *)
MultiplyHalf(x, prime) == (IF x % 2 = 1 THEN x + prime ELSE x) \div 2

(* conditional_negate of ecdsa.c, where its condition is true              *)
Negated(x, prime) == 2 * prime - x
=============================================================================
