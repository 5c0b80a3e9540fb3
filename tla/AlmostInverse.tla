---------------------------- MODULE AlmostInverse ----------------------------
(***************************************************************************)
(* What bn_inverse of ios/Classes/bignum.c computes with: the four numbers *)
(* of the almost modular inverse, without the registers that they share.   *)
(* pow stands for 2 ^ k.                                                   *)
(***************************************************************************)
EXTENDS InverseNumbers

VARIABLES
    stage,         \* of the call, "idle" before it
    modulus,       \* prime
    x,             \* what is inverted, already reduced
    u, v, r, s,    \* u * s + v * r is the prime, s and -r lead back to x
    pow            \* 2 ^ k

inverseVars == <<stage, modulus, x, u, v, r, s, pow>>

InverseInit ==
    /\ stage = "idle"
    /\ modulus \in Moduli
    /\ x = 0
    /\ u = modulus /\ v = 0
    /\ r = 0 /\ s = 1
    /\ pow = 1

(* The input must not be zero modulo the prime.                            *)
Begin ==
    /\ stage = "idle"
    /\ stage' = "reducing"
    /\ x' \in 1 .. (modulus - 1)
    /\ v' = x'
    /\ UNCHANGED <<modulus, u, r, s, pow>>

(* A shift takes a factor out of u or of v, and gives it to the partner.   *)
HalveU(f) ==
    /\ stage = "reducing" /\ u % f = 0
    /\ u' = u \div f
    /\ s' = s * f
    /\ pow' = pow * f
    /\ UNCHANGED <<stage, modulus, x, v, r>>

HalveV(f) ==
    /\ stage = "reducing" /\ v % f = 0
    /\ v' = v \div f
    /\ r' = r * f
    /\ pow' = pow * f
    /\ UNCHANGED <<stage, modulus, x, u, s>>

SubtractV ==
    /\ stage = "reducing" /\ u > v
    /\ u' = u - v
    /\ r' = r + s
    /\ UNCHANGED <<stage, modulus, x, v, s, pow>>

SubtractU ==
    /\ stage = "reducing" /\ u < v
    /\ v' = v - u
    /\ s' = s + r
    /\ UNCHANGED <<stage, modulus, x, u, r, pow>>

BothEqual ==
    /\ stage = "reducing" /\ u = v
    /\ stage' = "dividing"
    /\ UNCHANGED <<modulus, x, u, v, r, s, pow>>

(* s / f modulo the prime, with the multiple of the prime that makes it    *)
(* exact.                                                                  *)
Divide(f, factor) ==
    /\ stage = "dividing" /\ pow % f = 0
    /\ factor \in 0 .. (f - 1)
    /\ (s + factor * modulus) % f = 0
    /\ s' = (s + factor * modulus) \div f
    /\ pow' = pow \div f
    /\ UNCHANGED <<stage, modulus, x, u, v, r>>

Deliver ==
    /\ stage = "dividing" /\ pow = 1
    /\ stage' = "done"
    /\ UNCHANGED <<modulus, x, u, v, r, s, pow>>

InverseNext ==
    \/ Begin
    \/ \E f \in Factors :
        \/ HalveU(f)
        \/ HalveV(f)
        \/ \E factor \in 0 .. (f - 1) : Divide(f, factor)
    \/ SubtractV \/ SubtractU \/ BothEqual
    \/ Deliver

InverseSpec == InverseInit /\ [][InverseNext]_inverseVars

-----------------------------------------------------------------------------
(* bn_inverse answers with the inverse, fully reduced: u and v meet at one *)
(* whatever the order of halvings and subtractions, and the powers of two  *)
(* that s has too many are taken out again without changing the residue.   *)
InverseIsInverse ==
    stage = "done" => s < modulus /\ (x * s) % modulus = 1
==============================================================================
