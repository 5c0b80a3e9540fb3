--------------------------- MODULE ScalarMultiply ----------------------------
(***************************************************************************)
(* The loops of scalar_multiply (a multiple of the base, digits from the   *)
(* lowest, a table of multiples) and of point_multiply (of any point,      *)
(* digits from the highest) of ios/Classes/ecdsa.c, one action for each    *)
(* iteration.                                                              *)
(***************************************************************************)
EXTENDS Curve

CONSTANTS
    Scalars,         \* bound: what a multiplication starts with
    PointScalars     \* bound: the multiples of the base that it is made with

ASSUME ScalarAssumption ==
    /\ Scalars \subseteq Nat
    /\ \A c \in Curves : PointScalars \subseteq KeysOf(c)

VARIABLE walk        \* the multiplication under way, or NoWalk

walkVars == <<walk>>

NoWalk == [phase |-> "idle"]
WalkInit == walk = NoWalk
WalkIdle == walk = NoWalk

(* curve->cp[i][j] = (2 * j + 1) * 16 ^ i * G                              *)
Precomputed(c, i, j) ==
    Multiple(c, ((2 * j + 1) * 2 ^ (WindowBits * i)) % c.order, c.base)

-----------------------------------------------------------------------------
(* Both begin with the odd scalar; zero gives infinity at once.            *)
Begin(loop, c, k, m, z) ==
    LET p == Multiple(c, m, c.base)
        a == Odd(k, c)
        pmult == IF loop = "base" THEN << >> ELSE OddMultiples(c, p)
        high == a \div 2 ^ (WindowBits * Top)
        first == IF loop = "base" THEN Precomputed(c, 0, TableIndex(a))
                 ELSE pmult[TableIndex(high)]
        blank == [phase |-> "done", loop |-> loop, curve |-> c, k |-> k, point |-> p, a |-> a,
                  i |-> 0, negative |-> FALSE, jres |-> << >>, pmult |-> << >>, res |-> Infinity]
    IN  /\ WalkIdle
        /\ k < c.order
        /\ loop = "base" => m = 1
        /\ walk' = IF k = 0 THEN blank
                   ELSE [blank EXCEPT
                            !.phase = "loop",
                            !.jres = CurveToJacobian(first, z, c.prime),
                            !.pmult = pmult,
                            !.i = IF loop = "base" THEN 0 ELSE Top,
                            !.negative = Negative(IF loop = "base" THEN a ELSE high)]

(* scalar_multiply: a is shifted, the result negated when the signs of two *)
(* digits differ, and the next digit's multiple added.                     *)
BaseStep ==
    LET c == walk.curve
        a == walk.a \div 2 ^ WindowBits
        y == NegateWhen(Negative(a) # walk.negative, walk.jres.y, c.prime)
    IN  /\ walk.phase = "loop" /\ walk.loop = "base" /\ walk.i < Top
        /\ walk' = [walk EXCEPT
                        !.i = @ + 1,
                        !.a = a,
                        !.negative = Negative(a),
                        !.jres = JacobianAdd(c, Precomputed(c, walk.i + 1, TableIndex(a)),
                                             [@ EXCEPT !.y = y])]

(* point_multiply: WindowBits doublings, then the same with z negated.     *)
PointStep ==
    LET c == walk.curve
        a == walk.a \div 2 ^ (WindowBits * (walk.i - 1))
        doubled[n \in 0 .. WindowBits] ==
            IF n = 0 THEN walk.jres ELSE JacobianDouble(c, doubled[n - 1])
        jres == doubled[WindowBits]
        z == NegateWhen(Negative(a) # walk.negative, jres.z, c.prime)
    IN  /\ walk.phase = "loop" /\ walk.loop = "point" /\ walk.i > 0
        /\ walk' = [walk EXCEPT
                        !.i = @ - 1,
                        !.negative = Negative(a),
                        !.jres = JacobianAdd(c, walk.pmult[TableIndex(a)], [jres EXCEPT !.z = z])]

LastSign(loop, jres, negative, prime) ==
    IF loop = "base" THEN [jres EXCEPT !.y = NegateWhen(negative, @, prime)]
    ELSE [jres EXCEPT !.z = NegateWhen(negative, @, prime)]

(* The last sign, and back to affine coordinates.                          *)
Finish ==
    LET prime == walk.curve.prime
        signed == LastSign(walk.loop, walk.jres, walk.negative, prime)
    IN  /\ walk.phase = "loop"
        /\ walk.i = IF walk.loop = "base" THEN Top ELSE 0
        /\ walk' = [walk EXCEPT !.phase = "done", !.res = JacobianToCurve(signed, prime)]

WalkNext ==
    \/ \E c \in Curves, k \in Scalars, z \in BlindZ :
        \/ Begin("base", c, k, 1, z)
        \/ \E m \in PointScalars : Begin("point", c, k, m, z)
    \/ walk.phase # "idle" /\ (BaseStep \/ PointStep \/ Finish)
    \/ walk.phase = "done" /\ UNCHANGED walk

WalkSpec == WalkInit /\ [][WalkNext]_walkVars

-----------------------------------------------------------------------------
(* The part of the odd scalar that the iterations so far have used, as the *)
(* sum of its signed digits: 16 ^ i less when the next digit has to make   *)
(* up for a negative one, and without the 2 ^ 256 that was added.          *)
PartUsed ==
    LET a == Odd(walk.k, walk.curve)
    IN  IF walk.loop = "base"
        THEN LET size == 2 ^ (WindowBits * (walk.i + 1))
             IN  IF (a \div size) % 2 = 1 THEN a % size ELSE (a % size) - size
        ELSE LET size == 2 ^ (WindowBits * walk.i)
             IN  2 * (a \div (2 * size)) + 1 - 2 ^ NumberBits \div size

(* The invariants that the comments of the two loops state: after every    *)
(* iteration jres is, up to the sign of the last digit, the multiple for   *)
(* the digits used so far.  In particular the additions, which know no     *)
(* infinity and look only at x to find a doubling, never meet a case that  *)
(* they get wrong; and the coordinates stay partly reduced, as             *)
(* bn_subtractmod and the assertions of conditional_negate need.  In the   *)
(* end both give the multiple, fully reduced, for every scalar and every   *)
(* blinding coordinate.                                                    *)
WalkIsMultiple ==
    /\ walk.phase = "loop" =>
        LET c == walk.curve
            part == IF walk.negative THEN -PartUsed ELSE PartUsed
        IN  /\ JacobianToCurve(walk.jres, c.prime) = Multiple(c, part % c.order, walk.point)
            /\ {walk.jres.x, walk.jres.y, walk.jres.z} \subseteq 0 .. (2 * c.prime - 1)
    /\ walk.phase = "done" => walk.res = Multiple(walk.curve, walk.k, walk.point)
=============================================================================
