-------------------------------- MODULE Ecdsa --------------------------------
(***************************************************************************)
(* Signatures of ios/Classes/ecdsa.c: a signer tries nonces until one      *)
(* gives a signature that it likes; a checker verifies what it is given,   *)
(* recovers the key, reads public keys, and writes DER.  The two           *)
(* multiplications are what ScalarMultiply shows of them.                  *)
(***************************************************************************)
EXTENDS Curve, Sequences

CONSTANTS
    Keys,          \* bound: private keys
    Digests,       \* bound: digests, any numbers of NumberBits bits
    Nonces,        \* bound: what generate_k_rfc6979 gives
    MaxTries,      \* 10000: the nonces that ecdsa_sign_digest tries
    Coordinates    \* bound: what is in a public key that is read

ByteRange == 2 ^ (NumberBits \div 2)     \* a number has two bytes

ASSUME EcdsaAssumption ==
    /\ \A d \in Keys, c \in Curves : d \in 1 .. (c.order - 1)
    /\ Digests \cup Nonces \cup Coordinates \subseteq 0 .. (2 ^ NumberBits - 1)
    /\ MaxTries \in Nat \ {0}
    /\ ByteRange \in Nat
    /\ ByteRange * ByteRange = 2 ^ NumberBits /\ ByteRange % 2 = 0

VARIABLES
    signer,        \* a call of ecdsa_sign_digest
    verdict        \* the last answer of a checker, and what it was given

ecdsaVars == <<signer, verdict>>

NoSigner == [phase |-> "idle"]
NoVerdict == [kind |-> "none"]
EcdsaInit == signer = NoSigner /\ verdict = NoVerdict
EcdsaIdle == signer = NoSigner

IsNumber(x) == x \in 0 .. (2 ^ NumberBits - 1)

-----------------------------------------------------------------------------
(* A written public key: its first byte and what follows it.               *)
PublicKey33(c, d) ==
    LET p == Multiple(c, d, c.base) IN [form |-> 2 + (p.y % 2), x |-> p.x, y |-> 0]
PublicKey65(c, d) ==
    LET p == Multiple(c, d, c.base) IN [form |-> 4, x |-> p.x, y |-> p.y]

(* y ^ 2 = x ^ 3 + a * x + b, with the parity that is asked for.           *)
UncompressCoords(c, odd, x) ==
    LET square == Multiply(x, SubtractSmall(Square(x, c.prime), -c.a, c.prime), c.prime) + c.b
        root == SquareRoot(square, c.prime)
    IN  IF root % 2 = odd THEN root ELSE c.prime - root

\* Mutant: the point is not checked against the curve.
ValidatePubkeyRange(c, p) ==
    p # Infinity /\ p.x < c.prime /\ p.y < c.prime

(* ecdsa_validate_pubkey                                                   *)
ValidatePubkey(c, p) ==
    LET prime == c.prime
        cubic == Multiply(p.x, SubtractSmall(Square(p.x, prime), -c.a, prime), prime)
    IN  /\ p # Infinity
        /\ p.x < prime /\ p.y < prime
        /\ Reduced(AddMod(cubic, c.b, prime), prime) = Reduced(Square(p.y, prime), prime)

(* ecdsa_read_pubkey: the point, or Infinity for an error.                 *)
ReadPubkey(c, key) ==
    LET p == CASE key.form = 4 -> [x |-> key.x, y |-> key.y]
               [] key.form \in {2, 3} ->
                    [x |-> key.x, y |-> UncompressCoords(c, key.form % 2, key.x)]
               [] OTHER -> Infinity
    IN  IF ValidatePubkey(c, p) THEN p ELSE Infinity

-----------------------------------------------------------------------------
\* Mutant: the recovery byte is not told when s is negated.
LowSForgetful(c, s, by) ==
    IF c.order \div 2 < s THEN [s |-> c.order - s, by |-> by] ELSE [s |-> s, by |-> by]

(* S > order / 2 => S = -S, and the recovery byte is for the other point.  *)
LowS(c, s, by) ==
    IF c.order \div 2 < s
    THEN [s |-> c.order - s, by |-> IF by % 2 = 1 THEN by - 1 ELSE by + 1]
    ELSE [s |-> s, by |-> by]

(* What one nonce gives.                                                   *)
SignWith(c, d, digest, k) ==
    LET R == Multiple(c, k, c.base)
        wraps == R.x >= c.order
        r == IF wraps THEN R.x - c.order ELSE R.x
        s == Reduced(Multiply(FieldInverse(k, c.order), Multiply(r, d, c.order) + digest, c.order),
                     c.order)
        low == LowS(c, s, (R.y % 2) + (IF wraps THEN 2 ELSE 0))
    IN  [ok |-> r # 0 /\ s # 0, r |-> r, s |-> low.s, by |-> low.by]

BeginSign(c, d, digest) ==
    /\ EcdsaIdle
    /\ signer' = [phase |-> "signing", curve |-> c, key |-> d, digest |-> digest,
                  tries |-> 0, sig |-> << >>]
    /\ verdict' = NoVerdict

(* One turn of the loop; canonical is the answer of is_canonical.          *)
TryNonce(k, canonical) ==
    LET c == signer.curve
        sig == SignWith(c, signer.key, signer.digest, k)
        good == k # 0 /\ k < c.order /\ sig.ok /\ canonical
    IN  /\ signer.phase = "signing" /\ signer.tries < MaxTries
        /\ signer' = IF good THEN [signer EXCEPT !.phase = "signed", !.sig = sig]
                     ELSE [signer EXCEPT !.tries = @ + 1]
        /\ UNCHANGED verdict

(* Too many retries: -1                                                    *)
GiveUp ==
    /\ signer.phase = "signing" /\ signer.tries = MaxTries
    /\ signer' = [signer EXCEPT !.phase = "failed"]
    /\ UNCHANGED verdict

-----------------------------------------------------------------------------
InOrder(c, x) == x # 0 /\ x < c.order

\* Mutant: an x that is not below the order does not match.
MatchesRPlain(c, res, r) == res.x = r
MatchesR(c, res, r) == Reduced(res.x, c.order) = r

(* ecdsa_verify_digest                                                     *)
VerifyDigest(c, key, r, s, digest) ==
    LET pub == ReadPubkey(c, key)
        inv == FieldInverse(s, c.order)
        z == Reduced(Multiply(inv, digest, c.order), c.order)
        u == Reduced(Multiply(r, inv, c.order), c.order)
        res == PointAdd(c, Multiple(c, u, pub), Multiple(c, z, c.base))
    IN  CASE pub = Infinity -> 1
          [] pub # Infinity /\ ~(InOrder(c, r) /\ InOrder(c, s)) -> 2
          [] OTHER -> IF z = 0 THEN 3
                      ELSE IF ~MatchesR(c, res, r) THEN 5 ELSE 0

(* cp = R: bit 1 of recid says that the order was taken from its x.        *)
NoncePoint(c, r, recid) ==
    LET x == IF recid >= 2 THEN r + c.order ELSE r
    IN  IF recid >= 2 /\ x >= c.prime THEN Infinity
        ELSE [x |-> x, y |-> UncompressCoords(c, recid % 2, x)]

NoPoint == [code |-> 1, point |-> Infinity]
NeverReturns == [code |-> -1, point |-> Infinity]     \* not an answer of the code

(* ecdsa_verify_digest_recover: what may come of it.  A sum that is        *)
(* infinite is multiplied all the same, with a z that is zero in the end.  *)
(* bn_inverse of zero reads the word before its register, and returns if   *)
(* that is zero; else it shifts zeros for ever.                            *)
Recover(c, r, s, digest, recid) ==
    LET R == NoncePoint(c, r, recid)
        e == FullyReduced(SubtractMod(c.order, digest, c.order), c.order)
        sum == PointAdd(c, Multiple(c, e, c.base), Multiple(c, s, R))
        key == [code |-> 0, point |-> Multiple(c, FieldInverse(r, c.order), sum)]
    IN  IF ~InOrder(c, r) \/ ~InOrder(c, s) \/ ~ValidatePubkey(c, R) THEN {NoPoint}
        ELSE IF sum = Infinity THEN {key, NeverReturns} ELSE {key}

-----------------------------------------------------------------------------
\* Mutant: the sign bit of the first byte is not looked at.
DerIntegerPlain(n) ==
    <<2, IF n >= ByteRange THEN 2 ELSE 1>>
        \o (IF n >= ByteRange THEN <<n \div ByteRange, n % ByteRange>> ELSE <<n>>)

(* No leading zeros, but one if the first byte would make it negative.     *)
DerInteger(n) ==
    LET bytes == IF n >= ByteRange THEN <<n \div ByteRange, n % ByteRange>> ELSE <<n>>
        pad == IF bytes[1] >= ByteRange \div 2 THEN <<0>> ELSE << >>
    IN  <<2, Len(pad) + Len(bytes)>> \o pad \o bytes

(* ecdsa_sig_to_der, of numbers that are not zero                          *)
SigToDer(r, s) ==
    LET body == DerInteger(r) \o DerInteger(s) IN <<48, Len(body)>> \o body

-----------------------------------------------------------------------------
(* What a checker may be given after a signature was made: the signature,  *)
(* or one that somebody changed, for a digest and a key that may be others.*)
Verify(key, d, r, s, digest) ==
    /\ signer.phase = "signed"
    /\ IsNumber(r) /\ IsNumber(s) /\ IsNumber(digest)
    /\ verdict' = [kind |-> "verify", curve |-> signer.curve, key |-> d, r |-> r, s |-> s,
                   digest |-> digest,
                   code |-> VerifyDigest(signer.curve, key, r, s, digest)]
    /\ UNCHANGED signer

RecoverKey(r, s, digest, recid) ==
    /\ signer.phase = "signed"
    /\ IsNumber(r) /\ IsNumber(s)
    /\ \E result \in Recover(signer.curve, r, s, digest, recid) :
           verdict' = [kind |-> "recover", curve |-> signer.curve, r |-> r, s |-> s,
                       digest |-> digest, recid |-> recid, result |-> result]
    /\ UNCHANGED signer

ReadKey(c, key) ==
    /\ EcdsaIdle
    /\ verdict' = [kind |-> "key", curve |-> c, key |-> key, point |-> ReadPubkey(c, key)]
    /\ signer' = [phase |-> "read"]

WriteDer ==
    /\ signer.phase = "signed"
    /\ verdict' = [kind |-> "der", r |-> signer.sig.r, s |-> signer.sig.s,
                   der |-> SigToDer(signer.sig.r, signer.sig.s)]
    /\ UNCHANGED signer

Check ==
    LET c == signer.curve
        sig == signer.sig
        others == {<<sig.r, sig.s>>, <<sig.r, c.order - sig.s>>, <<sig.r + 1, sig.s>>,
                   <<sig.r, sig.s + c.order>>, <<sig.s, sig.r>>, <<0, sig.s>>, <<sig.r, 0>>}
    IN  \E rs \in others, digest \in {signer.digest, signer.digest + c.order, 1} :
            \/ \E d \in Keys : \/ Verify(PublicKey33(c, d), d, rs[1], rs[2], digest)
                               \/ Verify(PublicKey65(c, d), d, rs[1], rs[2], digest)
            \/ \E recid \in 0 .. 3 : RecoverKey(rs[1], rs[2], signer.digest, recid)

EcdsaNext ==
    \/ \E c \in Curves :
        \/ \E d \in Keys, digest \in Digests : BeginSign(c, d, digest)
        \/ \E form \in {0, 2, 3, 4}, x, y \in Coordinates :
               ReadKey(c, [form |-> form, x |-> x, y |-> y])
    \/ signer.phase \notin {"idle", "read"} /\
        \/ \E k \in Nonces, canonical \in BOOLEAN : TryNonce(k, canonical)
        \/ GiveUp
        \/ verdict = NoVerdict /\ signer.phase = "signed" /\ (Check \/ WriteDer)
    \/ signer.phase \in {"signed", "failed", "read"} /\ UNCHANGED ecdsaVars

EcdsaSpec == EcdsaInit /\ [][EcdsaNext]_ecdsaVars

-----------------------------------------------------------------------------
(* r and s are a signature by d when the nonce that they determine gives r. *)
IsSignature(c, d, r, s, digest) ==
    LET k == (((digest + r * d) % c.order) * FieldInverse(s % c.order, c.order)) % c.order
    IN  /\ InOrder(c, r) /\ InOrder(c, s)
        /\ k # 0
        /\ Multiple(c, k, c.base).x % c.order = r

(* A signature is accepted exactly when it satisfies the signing equation  *)
(* for the digest and the key; only for a digest that is zero modulo the   *)
(* order no signature is accepted, not even the signer's own.              *)
AcceptedIsSignature ==
    verdict.kind = "verify" =>
        LET good == IsSignature(verdict.curve, verdict.key, verdict.r, verdict.s, verdict.digest)
            zero == verdict.digest % verdict.curve.order = 0
        IN  verdict.code = 0 <=> good /\ ~zero

(* The recovery byte leads back to the signer's key, and no two values of  *)
(* it do; with any other byte, or for an altered signature, the key that   *)
(* is recovered is one that the signature is good for.  Infinity, and the  *)
(* call that never returns, come only of a signature whose nonce needs no  *)
(* key, being the digest divided by s: never with the signer's own byte.   *)
RecoveredIsSigner ==
    verdict.kind = "recover" =>
        LET c == verdict.curve
            key == Multiple(c, signer.key, c.base)
            own == verdict.r = signer.sig.r /\ verdict.s = signer.sig.s
            q == verdict.result.point
            sInverse == FieldInverse(verdict.s % c.order, c.order)
            R == TextSum(c, Multiple(c, (verdict.digest * sInverse) % c.order, c.base),
                         Multiple(c, (verdict.r * sInverse) % c.order, q))
        IN  /\ own => (verdict.result = [code |-> 0, point |-> key]
                        <=> verdict.recid = signer.sig.by)
            /\ verdict.result.code # 1 => R.x % c.order = verdict.r

(* A key that is read is a point of the curve, with the parity and the x   *)
(* that the text says, and every such text is read.                        *)
KeyReadIsPoint ==
    verdict.kind = "key" =>
        LET c == verdict.curve
            q == verdict.point
            key == verdict.key
            onCurve(y) == (y * y - (((key.x * key.x) % c.prime) + c.a) * key.x - c.b) % c.prime = 0
            fits(y) == /\ onCurve(y)
                       /\ key.form = 4 => y = key.y
                       /\ key.form \in {2, 3} => y % 2 = key.form % 2
        IN  IF q # Infinity
            THEN q.x = key.x /\ q.x < c.prime /\ q.y \in 0 .. (c.prime - 1) /\ fits(q.y)
            ELSE key.form \in {2, 3, 4} /\ key.x < c.prime =>
                    \A y \in 0 .. (c.prime - 1) : ~fits(y)

(* The signer's own signature satisfies the equation, for every number of  *)
(* nonces that were no good, its s is the lower of the two, and its DER    *)
(* form has two integers, each the shortest that is not negative.          *)
OwnSignatureIsGood ==
    /\ signer.phase = "signed" =>
        /\ IsSignature(signer.curve, signer.key, signer.sig.r, signer.sig.s, signer.digest)
        /\ 2 * signer.sig.s < signer.curve.order
    /\ verdict.kind = "der" =>
        LET der == verdict.der
            len1 == der[4]
            value(first, len) ==
                IF len = 1 THEN der[first]
                ELSE IF len = 2 THEN der[first] * ByteRange + der[first + 1]
                ELSE der[first + 1] * ByteRange + der[first + 2]
            shortest(first, len) ==
                /\ der[first] < ByteRange \div 2
                /\ len > 1 /\ der[first] = 0 => der[first + 1] >= ByteRange \div 2
        IN  /\ der[1] = 48 /\ der[2] = Len(der) - 2
            /\ der[3] = 2 /\ der[5 + len1] = 2
            /\ Len(der) = 6 + len1 + der[6 + len1]
            /\ value(5, len1) = verdict.r /\ shortest(5, len1)
            /\ value(7 + len1, der[6 + len1]) = verdict.s /\ shortest(7 + len1, der[6 + len1])

-----------------------------------------------------------------------------
(* What the multiplications of ecdsa.c are taken to compute, for theorems  *)
(* about signatures and nodes: ScalarMultiply checks it on small curves,   *)
(* and it is mathematics for the curves of the code.                       *)
PublicKeys == [form : {2, 3, 4}, x : Nat, y : Nat]

(* Multiples of the base add and multiply as their numbers do, and those   *)
(* of k and -k lie opposite; keys are read as the points they were written *)
(* from, and every point that is read is such a multiple.                  *)
TimesAdd(c, numbers) ==
    \A j \in numbers, k \in numbers :
        /\ PointAdd(c, Times(c, j), Times(c, k)) = Times(c, (j + k) % c.order)
        /\ TextSum(c, Times(c, j), Times(c, k)) = Times(c, (j + k) % c.order)
TimesMultiply(c, numbers) ==
    \A j \in numbers, k \in numbers :
        Multiple(c, j, Times(c, k)) = Times(c, (j * k) % c.order)
TimesMirror(c, keys) ==
    \A k \in keys :
        Times(c, c.order - k) = [x |-> Times(c, k).x, y |-> c.prime - Times(c, k).y]
TimesAreRead(c, keys) ==
    \A k \in keys : /\ Times(c, k) # Infinity
                    /\ Times(c, k) \in [x : Nat, y : Nat]
                    /\ ReadPubkey(c, PublicKey33(c, k)) = Times(c, k)
                    /\ ReadPubkey(c, PublicKey65(c, k)) = Times(c, k)
PointsAreTimes(c, publics) ==
    \A public \in publics :
        ReadPubkey(c, public) # Infinity =>
            \E k \in KeysOf(c) : ReadPubkey(c, public) = Times(c, k)
IsGroup(c) ==
    /\ Times(c, 0) = Infinity
    /\ TimesAdd(c, ResiduesOf(c)) /\ TimesMultiply(c, ResiduesOf(c))
    /\ TimesMirror(c, KeysOf(c)) /\ TimesAreRead(c, KeysOf(c))
    /\ PointsAreTimes(c, PublicKeys)
CurvesAreGroups == \A c \in Curves : IsGroup(c)

(* What PartlyReduced is asked for is one of the two representatives.      *)
ProductsAreReduced(numbers) ==
    \A c \in Curves, x \in numbers :
        \A m \in {c.prime, c.order} : PartlyReduced(x, m) \in Representatives(x, m)
==============================================================================
