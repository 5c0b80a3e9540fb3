-------------------------------- MODULE Curve --------------------------------
(***************************************************************************)
(* Points of ios/Classes/ecdsa.c, affine and Jacobian, and the digits that *)
(* its multiplications cut a scalar into.  A number is what FieldNumbers   *)
(* makes of it; which of the two representatives a product is, is a        *)
(* parameter.                                                              *)
(***************************************************************************)
EXTENDS FieldNumbers

CONSTANTS
    Curves,              \* records [prime, a, b, base, order]
    WindowBits,          \* 4: the bits of the scalar that an iteration uses
    PartlyReduced(_, _), \* the representative that a product has
    BlindZ               \* the coordinates that curve_to_jacobian draws

ASSUME CurveAssumption ==
    /\ WindowBits \in 2 .. NumberBits /\ NumberBits % WindowBits = 0
    /\ BlindZ \subseteq 1 .. 2 ^ (NumberBits - 1)
    /\ \A c \in Curves :
        /\ c.prime \in 1 .. (2 ^ NumberBits - 1) /\ c.prime % 4 = 3
        /\ c.order \in (2 ^ (NumberBits - WindowBits) + 1) .. c.prime
        /\ 2 * 2 ^ NumberBits <= 3 * c.order
        /\ \A d \in 2 .. (c.order - 1) : c.order % d # 0
        /\ \A d \in 2 .. (c.prime - 1) : c.prime % d # 0
        /\ c.a \in -3 .. 0 /\ c.b \in 1 .. (c.prime - 1)
        /\ \A x \in BlindZ : PartlyReduced(x, c.prime) \in Representatives(x, c.prime)

(* What the powers of two have to do with each other, for the provers.     *)
ASSUME PowersAssumption ==
    /\ 2 ^ 0 = 1 /\ 2 ^ 1 = 2
    /\ \A i \in 0 .. NumberBits : 2 ^ i \in Nat \ {0}
    /\ \A i \in 0 .. NumberBits, j \in 0 .. NumberBits :
           i + j <= NumberBits => 2 ^ (i + j) = 2 ^ i * 2 ^ j

Top == NumberBits \div WindowBits - 1      \* 63

Multiply(k, x, prime) == PartlyReduced(k * x, prime)
Square(x, prime) == Multiply(x, x, prime)
AddMod(a, b, prime) == PartlyReduced(a + b, prime)
MultiplyK(x, k, prime) == PartlyReduced(k * x, prime)
SubtractSmall(x, b, prime) == x + prime - b
FullyReduced(x, prime) == Reduced(FastMod(x, prime), prime)

(* bn_inverse.  Zero has none; what Recover says may come of it is here    *)
(* only the zero.                                                          *)
FieldInverse(x, prime) ==
    LET inverse[v \in 0 .. (prime - 1)] ==
            IF v <= 1 THEN v
            ELSE ((prime - prime \div v) * inverse[prime % v]) % prime
    IN  inverse[FullyReduced(x, prime)]

(* bn_sqrt: x ^ ((prime + 1) / 4), from the lowest bit of the exponent.    *)
SquareRoot(x, prime) ==
    LET exponent == (prime + 1) \div 4
        power[i \in 0 .. NumberBits] ==
            IF i = 0 THEN x ELSE Square(power[i - 1], prime)
        root[i \in 0 .. NumberBits] ==
            IF i = 0 THEN 1
            ELSE IF (exponent \div 2 ^ (i - 1)) % 2 = 1
                 THEN Multiply(power[i - 1], root[i - 1], prime)
                 ELSE root[i - 1]
    IN  Reduced(root[NumberBits], prime)

-----------------------------------------------------------------------------
Infinity == [x |-> 0, y |-> 0]

PointIsNegativeOf(p, q) == p.x = q.x /\ p.y # 0 /\ p.y # q.y

(* The third point on the line through p with slope lambda; sum stands for *)
(* the x of both points.                                                   *)
Chord(prime, p, lambda, sum) ==
    LET xr == FullyReduced(SubtractMod(Square(lambda, prime), sum, prime), prime)
        yr == Multiply(lambda, SubtractMod(p.x, xr, prime), prime)
    IN  [x |-> xr, y |-> FullyReduced(SubtractMod(yr, p.y, prime), prime)]

PointDouble(c, p) ==
    LET prime == c.prime
        slope == SubtractSmall(MultiplyK(Square(p.x, prime), 3, prime), -c.a, prime)
        lambda == Multiply(slope, FieldInverse(MultiplyK(p.y, 2, prime), prime), prime)
    IN  IF p = Infinity \/ p.y = 0 THEN Infinity
        ELSE Chord(prime, p, lambda, 2 * p.x)

PointAdd(c, p, q) ==
    LET prime == c.prime
        inv == FieldInverse(SubtractMod(q.x, p.x, prime), prime)
        lambda == Multiply(inv, SubtractMod(q.y, p.y, prime), prime)
    IN  CASE p = Infinity -> q
          [] p # Infinity /\ q = Infinity -> p
          [] p # Infinity /\ p = q -> PointDouble(c, q)
          [] q # Infinity /\ PointIsNegativeOf(p, q) -> Infinity
          [] OTHER -> Chord(prime, p, lambda, AddMod(p.x, q.x, prime))

-----------------------------------------------------------------------------
CurveToJacobian(p, z, prime) ==
    LET zz == Square(z, prime)
    IN  [x |-> Multiply(p.x, zz, prime),
         y |-> Multiply(p.y, Multiply(z, zz, prime), prime),
         z |-> z]

JacobianToCurve(jp, prime) ==
    LET inv == FieldInverse(jp.z, prime)
        inv2 == Square(inv, prime)
        inv3 == Multiply(inv2, inv, prime)
    IN  [x |-> Reduced(Multiply(jp.x, inv2, prime), prime),
         y |-> Reduced(Multiply(jp.y, inv3, prime), prime)]

\* Mutant: as if bn_fast_mod left zero where the difference is none.
IsDoublingZero(diff, prime) == diff = 0

(* point_jacobian_add: the points have the same x exactly when h, which is *)
(* positive, is left at the prime by bn_fast_mod.                          *)
IsDoubling(diff, prime) == diff = prime

LastY(y3, hcby, prime) == FastMod(MultiplyHalf(SubtractMod(y3, hcby, prime), prime), prime)

(* Points with the same x are taken to be equal, and h and r are those of  *)
(* a tangent.                                                              *)
JacobianAdd(c, p1, p2) ==
    LET prime == c.prime
        zz == Square(p2.z, prime)
        xz == Multiply(p1.x, zz, prime)
        yz == Multiply(p1.y, Multiply(zz, p2.z, prime), prime)
        diff == FastMod(SubtractMod(xz, p2.x, prime), prime)
        isDoubling == IsDoubling(diff, prime)
        az == MultiplyK(Square(zz, prime), -c.a, prime)
        tangent == MultiplyK(Square(p2.x, prime), 3, prime)
        r == IF ~isDoubling THEN SubtractMod(yz, p2.y, prime)
             ELSE IF c.a # 0 THEN SubtractMod(tangent, az, prime) ELSE tangent
        h == IF isDoubling THEN yz + p2.y ELSE diff
        hsq == Square(h, prime)
        hsqx == Multiply(xz + p2.x, hsq, prime)
        hcby == Multiply(yz + p2.y, Multiply(hsq, h, prime), prime)
        x3 == FastMod(SubtractMod(Square(r, prime), hsqx, prime), prime)
        y3 == Multiply(r, SubtractMod(SubtractMod(hsqx, x3, prime), x3, prime), prime)
    IN  [x |-> x3,
         y |-> LastY(y3, hcby, prime),
         z |-> Multiply(h, p2.z, prime)]

(* point_jacobian_double                                                   *)
JacobianDouble(c, p) ==
    LET prime == c.prime
        az4 == MultiplyK(Square(Square(p.z, prime), prime), -c.a, prime)
        three == MultiplyK(Square(p.x, prime), 3, prime)
        m == MultiplyHalf(SubtractMod(three, az4, prime), prime)
        ysq == Square(p.y, prime)
        xysq == Multiply(ysq, p.x, prime)
        x3 == FastMod(SubtractMod(Square(m, prime), FastMod(2 * xysq, prime), prime), prime)
        y3 == Multiply(m, SubtractMod(xysq, x3, prime), prime)
    IN  [x |-> x3,
         y |-> FastMod(SubtractMod(y3, Square(ysq, prime), prime), prime),
         z |-> Multiply(p.y, p.z, prime)]

-----------------------------------------------------------------------------
(* The scalar with 2 ^ 256 added and, if it is even, the order subtracted. *)
Odd(k, c) == k + 2 ^ NumberBits - (IF k % 2 = 0 THEN c.order ELSE 0)

(* One signed odd digit of it: its sign, and where to find its multiple.   *)
Negative(a) == (a \div 2 ^ WindowBits) % 2 = 0
TableIndex(a) ==
    LET low == a % 2 ^ WindowBits
    IN  (IF Negative(a) THEN 2 ^ WindowBits - 1 - low ELSE low) \div 2

(* pmult[i] = (2 * i + 1) * p, by adding 2 * p                             *)
OddMultiples(c, p) ==
    LET pmult[i \in 0 .. (2 ^ (WindowBits - 1) - 1)] ==
            IF i = 0 THEN p ELSE PointAdd(c, pmult[i - 1], PointDouble(c, p))
    IN  pmult

(* conditional_negate                                                      *)
NegateWhen(cond, x, prime) == IF cond THEN Negated(x, prime) ELSE x

-----------------------------------------------------------------------------
(* k times a point as the group defines it, on residues.                   *)
TextThird(m, p, q, lambda) ==
    LET x == (lambda * lambda - p.x - q.x) % m
    IN  [x |-> x, y |-> (lambda * (p.x - x) - p.y) % m]

TextSum(c, p, q) ==
    LET m == c.prime
        rise == IF p = q THEN 3 * p.x * p.x + c.a ELSE q.y - p.y
        run == IF p = q THEN 2 * p.y ELSE q.x - p.x
    IN  IF p = Infinity THEN q
        ELSE IF q = Infinity THEN p
        ELSE IF p.x = q.x /\ (p.y + q.y) % m = 0 THEN Infinity
        ELSE TextThird(m, p, q, ((rise % m) * FieldInverse(run % m, m)) % m)

Multiples ==
    [c \in Curves, p \in [x : Nat, y : Nat] |->
        LET multiple[n \in Nat] ==
                IF n = 0 THEN Infinity
                ELSE LET half == multiple[n \div 2]
                     IN  TextSum(c, TextSum(c, half, half), IF n % 2 = 1 THEN p ELSE Infinity)
        IN  multiple]

Multiple(c, k, p) == Multiples[c, p][k]

Times(c, k) == Multiple(c, k, c.base)
ResiduesOf(c) == 0 .. (c.order - 1)
KeysOf(c) == 1 .. (c.order - 1)
=============================================================================
