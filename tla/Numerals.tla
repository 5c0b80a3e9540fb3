------------------------------- MODULE Numerals -------------------------------
(* Numbers written with digits of some radix, the first digit the highest. *)
EXTENDS Integers, Sequences

RadixPower(radix, n) ==
    LET power[k \in 0 .. n] == IF k = 0 THEN 1 ELSE radix * power[k - 1]
    IN  power[n]

(* The number that the first n digits stand for.                           *)
Number(radix, digits, n) ==
    LET value[k \in 0 .. n] == IF k = 0 THEN 0 ELSE value[k - 1] * radix + digits[k]
    IN  value[n]
ValueIn(radix, digits) == Number(radix, digits, Len(digits))
==============================================================================
