--------------------------- MODULE ModularInverse ----------------------------
(***************************************************************************)
(* bn_inverse of ios/Classes/bignum.c: u and s share one register of words,*)
(* v and r another.  While u gets shorter from the left, s grows from the  *)
(* right, and nothing but an estimate of their sizes keeps them apart.     *)
(***************************************************************************)
EXTENDS InverseNumbers, FieldNumbers, FiniteSetsExt

CONSTANTS
    RegisterBits,     \* 32: the bits of a word
    Inverted          \* bound: the numbers that are inverted

ASSUME RegisterAssumption ==
    /\ RegisterBits \in Nat \ {0} /\ NumberBits % RegisterBits = 0
    /\ Factors = {2 ^ j : j \in 1 .. RegisterBits}
    /\ \A m \in Moduli : m < 2 ^ NumberBits
    /\ Inverted \subseteq Nat

VARIABLE inversion    \* the call under way

inversionVars == <<inversion>>

LastWord == NumberBits \div RegisterBits     \* 8: a register has one word more
WordPlace == 0 .. LastWord
Word32 == 2 ^ RegisterBits

WordsOf(n) == [i \in WordPlace |-> (n \div Word32 ^ i) % Word32]

(* The two numbers in a register: the first little endian, the second big. *)
First(combo) ==
    LET sum[i \in 0 .. LastWord + 1] ==
            IF i = 0 THEN 0 ELSE sum[i - 1] + combo.a[i - 1] * Word32 ^ (i - 1)
    IN  sum[combo.len]
Second(combo) ==
    LET sum[i \in 0 .. LastWord + 1] ==
            IF i > LastWord THEN 0 ELSE sum[i + 1] + combo.a[i] * Word32 ^ (LastWord - i)
    IN  sum[combo.len]

FreshRegister(n, partner) ==
    [a |-> [WordsOf(n) EXCEPT ![LastWord] = partner], len |-> LastWord]

InversionInit ==
    \E m \in Moduli :
        inversion = [phase |-> "idle", prime |-> m, x |-> 0, k |-> 0, even |-> "vr",
                     reg |-> [us |-> FreshRegister(m, 1), vr |-> FreshRegister(0, 0)]]

Partner(which) == IF which = "us" THEN "vr" ELSE "us"
EvenOne == inversion.reg[inversion.even]
OddOne == inversion.reg[Partner(inversion.even)]
WithEven(combo) == [inversion.reg EXCEPT ![inversion.even] = combo]

-----------------------------------------------------------------------------
(* The input is reduced first; it must not be zero modulo the prime.       *)
Invert(n) ==
    LET x == Reduced(FastMod(n, inversion.prime), inversion.prime)
    IN  /\ inversion.phase = "idle" /\ x # 0
        /\ inversion' = [inversion EXCEPT !.phase = "adjust", !.x = x,
                                          !.reg.vr = FreshRegister(x, 0)]

AdjustLength ==
    /\ inversion.phase = "adjust"
    /\ inversion' =
        [inversion EXCEPT
            !.phase = "shift",
            !.reg = WithEven([EvenOne EXCEPT
                        !.len = Max({i \in 1 .. @ : EvenOne.a[i - 1] # 0})])]

ShiftWord ==
    /\ inversion.phase = "shift" /\ EvenOne.a[0] = 0
    /\ inversion' =
        [inversion EXCEPT
            !.k = @ + RegisterBits,
            !.reg = WithEven([
                a |-> [i \in WordPlace |-> IF i = LastWord THEN 0 ELSE EvenOne.a[i + 1]],
                len |-> EvenOne.len - 1])]

\* Mutant: the word between the two numbers is not given to the second.
ShiftedBitsApart(combo, j) ==
    LET a == combo.a
        top == combo.len - 1
        back == 2 ^ (RegisterBits - j)
    IN  [a |-> [i \in WordPlace |->
                IF i < top THEN a[i] \div 2 ^ j + ((a[i + 1] * back) % Word32)
                ELSE IF i = top THEN a[top] \div 2 ^ j
                ELSE ((a[i] * 2 ^ j) % Word32)
                        + (IF i = LastWord THEN 0 ELSE a[i + 1] \div back)],
         len |-> IF a[top] \div 2 ^ j = 0 THEN top ELSE combo.len]

(* Both numbers by j bits; a word that the first one leaves is the         *)
(* second's at once.                                                       *)
ShiftedBits(combo, j) ==
    LET a == combo.a
        top == combo.len - 1
        back == 2 ^ (RegisterBits - j)
        emptied == a[top] \div 2 ^ j = 0
        left(i) == IF i = top THEN 0 ELSE (a[i] * 2 ^ j) % Word32
    IN  [a |-> [i \in WordPlace |->
                IF i < top THEN a[i] \div 2 ^ j + ((a[i + 1] * back) % Word32)
                ELSE IF i = top /\ ~emptied THEN a[top] \div 2 ^ j
                ELSE left(i) + (IF i = LastWord THEN 0 ELSE a[i + 1] \div back)],
         len |-> IF emptied THEN top ELSE combo.len]

TrailingZeros(w) == Max({j \in 0 .. (RegisterBits - 1) : w % 2 ^ j = 0})

ShiftBits ==
    LET j == TrailingZeros(EvenOne.a[0])
    IN  /\ inversion.phase = "shift" /\ EvenOne.a[0] # 0
        /\ inversion' =
            [inversion EXCEPT
                !.phase = "compare",
                !.k = @ + j,
                !.reg = WithEven(IF j = 0 THEN EvenOne ELSE ShiftedBits(EvenOne, j))]

-----------------------------------------------------------------------------
(* The length decides, then the highest word that differs.                 *)
Differing(c, d) == {i \in 0 .. (c.len - 1) : c.a[i] # d.a[i]}
Exceeds(c, d) ==
    \/ c.len > d.len
    \/ /\ c.len = d.len /\ Differing(c, d) # {}
       /\ LET i == Max(Differing(c, d)) IN c.a[i] > d.a[i]

(* even - odd where even's first number was, with borrows from above.      *)
Difference(even, odd) ==
    LET temp[i \in WordPlace] ==
            (IF i = 0 THEN 1 ELSE temp[i - 1] \div Word32)
                + (Word32 - 1) + even.a[i] - (IF i < odd.len THEN odd.a[i] ELSE 0)
    IN  [even EXCEPT !.a = [i \in WordPlace |->
                                IF i < even.len THEN temp[i] % Word32 ELSE @[i]]]

\* Mutant: the carry stops where even's second number ends.
SumShort(even, odd) ==
    LET temp[i \in WordPlace] ==
            (IF i = LastWord THEN 0 ELSE temp[i + 1] \div Word32) + odd.a[i] + even.a[i]
    IN  [odd EXCEPT !.a = [i \in WordPlace |-> IF i >= even.len THEN temp[i] % Word32 ELSE @[i]]]

(* even + odd where odd's second number was, down to where it begins.      *)
Sum(even, odd) ==
    LET temp[i \in WordPlace] ==
            (IF i = LastWord THEN 0 ELSE temp[i + 1] \div Word32)
                + odd.a[i] + (IF i >= even.len THEN even.a[i] ELSE 0)
    IN  [odd EXCEPT !.a = [i \in WordPlace |-> IF i >= odd.len THEN temp[i] % Word32 ELSE @[i]]]

SubtractSmaller ==
    LET larger == IF Exceeds(inversion.reg.us, inversion.reg.vr) THEN "us" ELSE "vr"
        even == inversion.reg[larger]
        odd == inversion.reg[Partner(larger)]
    IN  /\ inversion.phase = "compare"
        /\ even.len # odd.len \/ Differing(even, odd) # {}
        /\ inversion' =
            [inversion EXCEPT
                !.phase = "adjust",
                !.even = larger,
                !.reg = [which \in {"us", "vr"} |->
                            IF which = larger THEN Difference(even, odd) ELSE Sum(even, odd)]]

Meet ==
    /\ inversion.phase = "compare"
    /\ OddOne.len = EvenOne.len /\ Differing(OddOne, EvenOne) = {}
    /\ inversion' = [inversion EXCEPT !.phase = "divide"]

-----------------------------------------------------------------------------
(* -1 / prime modulo a word, by squaring prime - 1.                        *)
MinusInverse(prime) ==
    LET amone[n \in 0 .. RegisterBits] ==
            IF n = 0 THEN (prime - 1) % Word32 ELSE (amone[n - 1] ^ 2) % Word32
        inverse[n \in 0 .. RegisterBits] ==
            IF n = 0 THEN (prime - 2) % Word32
            ELSE IF amone[n - 1] = 0 THEN inverse[n - 1]
            ELSE (inverse[n - 1] * (amone[n] + 1)) % Word32
    IN  inverse[RegisterBits]

Factor(bits) == (MinusInverse(inversion.prime) * inversion.reg.us.a[LastWord]) % 2 ^ bits

(* The words of (s + factor * prime) / 2 ^ bits, in words of twice the     *)
(* size.                                                                   *)
Divided(combo, pp, factor, bits) ==
    LET term(i) == combo.a[LastWord - i] + pp[i] * factor
        temp[i \in 1 .. (LastWord - 1)] ==
            ((IF i = 1 THEN term(0) \div 2 ^ bits ELSE temp[i - 1] \div Word32)
                + term(i) * 2 ^ (RegisterBits - bits)) % Word32 ^ 2
    IN  [combo EXCEPT !.a = [i \in WordPlace |->
            IF i = 0 THEN @[0]
            ELSE IF i = 1 THEN temp[LastWord - 1] \div Word32
            ELSE temp[LastWord - i + 1] % Word32]]

DivideOut(bits) ==
    /\ inversion.phase = "divide" /\ bits > 0
    /\ inversion' =
        [inversion EXCEPT
            !.k = @ - bits,
            !.reg.us = Divided(@, WordsOf(inversion.prime), Factor(bits), bits)]

DivideWord == inversion.k >= RegisterBits /\ DivideOut(RegisterBits)
DivideBits == inversion.k < RegisterBits /\ DivideOut(inversion.k)

Answer ==
    /\ inversion.phase = "divide" /\ inversion.k = 0
    /\ inversion' = [inversion EXCEPT !.phase = "done"]

InversionNext ==
    \/ \E n \in Inverted : Invert(n)
    \/ AdjustLength \/ ShiftWord \/ ShiftBits
    \/ SubtractSmaller \/ Meet
    \/ DivideWord \/ DivideBits \/ Answer
    \/ inversion.phase = "done" /\ UNCHANGED inversion

InversionSpec == InversionInit /\ [][InversionNext]_inversionVars

-----------------------------------------------------------------------------
Abstract == INSTANCE AlmostInverse WITH
    stage <- CASE inversion.phase \in {"adjust", "shift", "compare"} -> "reducing"
               [] inversion.phase = "divide" -> "dividing"
               [] OTHER -> inversion.phase,
    modulus <- inversion.prime, x <- inversion.x,
    u <- First(inversion.reg.us), s <- Second(inversion.reg.us),
    v <- First(inversion.reg.vr), r <- Second(inversion.reg.vr),
    pow <- 2 ^ inversion.k

(* The registers are never too small: every turn of the loops does to the  *)
(* numbers that share them what the almost modular inverse asks, no bit of *)
(* one is lost or taken for the other's.                                   *)
ImplementsAlmostInverse == Abstract!InverseSpec

(* The answer is the inverse, below the prime, and on the way no assertion *)
(* of the code fails and k stays in the bound that its comments give.      *)
InverseIsInverse ==
    /\ inversion.phase = "done" =>
        LET answer == Second(inversion.reg.us)
        IN  answer < inversion.prime /\ (inversion.x * answer) % inversion.prime = 1
    /\ inversion.k <= 2 * NumberBits - 2
    /\ inversion.phase \in {"adjust", "shift", "compare"} =>
        OddOne.a[0] % 2 = 1 /\ OddOne.a[LastWord] % 2 = 1
    /\ inversion.phase = "compare" => EvenOne.a[0] % 2 = 1 /\ EvenOne.a[LastWord] % 2 = 0
    /\ inversion.phase = "divide" /\ inversion.k > 0 =>
        LET bits == IF inversion.k < RegisterBits THEN inversion.k ELSE RegisterBits
        IN  (inversion.reg.us.a[LastWord] + inversion.prime * Factor(bits)) % 2 ^ bits = 0
==============================================================================
