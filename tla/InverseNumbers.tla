---------------------------- MODULE InverseNumbers ---------------------------
(* The primes of bn_inverse of ios/Classes/bignum.c, and what a shift of   *)
(* its registers divides by.                                               *)
EXTENDS Integers

CONSTANTS
    Moduli,        \* the field prime and the order of the curve
    Factors        \* powers of two: what one shift divides by

IsPrime(m) == m > 1 /\ \A a \in 2 .. (m - 1) : m % a # 0

ASSUME InverseAssumption ==
    /\ Moduli \subseteq Nat /\ \A m \in Moduli : IsPrime(m)
    /\ Factors \subseteq Nat \ {0}
    /\ \A m \in Moduli, f \in Factors :
        /\ f = 1 \/ m % f # 0
        /\ \E g \in 1 .. m : (f * g) % m = 1
=============================================================================
