------------------------------ MODULE KeyedHash ------------------------------
(***************************************************************************)
(* ios/Classes/hmac.c and pbkdf2.c over SHA-2: a client that keys one      *)
(* context, feeds it, and takes the result.  PBKDF2 does not call HMAC: it *)
(* compresses the two key blocks once and then runs the compression        *)
(* function on a block it padded by hand.                                  *)
(***************************************************************************)
EXTENDS HashFunctions

CONSTANTS
    KeyLengths,      \* the lengths of a key or a password
    SaltLengths,     \* the lengths of a salt
    MessageLengths,  \* the lengths of one HMAC Update's data
    Iterations,      \* the counts given to one PBKDF2 Update
    MaxIterations,   \* bound: iterations of one PBKDF2 context
    MaxHmacMessage   \* bound: bytes fed to one HMAC context

ASSUME KeyedAssumption ==
    /\ KeyLengths \cup SaltLengths \cup MessageLengths \subseteq Nat
    /\ Iterations \subseteq Nat \ {0}
    /\ {MaxIterations, MaxHmacMessage} \subseteq Nat
    /\ 8 * (BlockLength + DigestLength) < WordModulus

VARIABLES
    job,      \* "none", "hmac" or "pbkdf2"
    key,      \* the key or the password of the context
    text,     \* HMAC: the bytes fed so far; PBKDF2: the salt
    rounds,   \* PBKDF2: iterations asked for so far
    kctx,     \* the context
    result    \* what Final returned

keyedVars == <<job, key, text, rounds, kctx, result>>

KeyBytes(n) == [k \in 1 .. n |-> <<"key", k>>]
SaltBytes(n) == [k \in 1 .. n |-> <<"salt", k>>]
BlockNumber == <<<<"blocknr", 1>>>>
XorPad(pad, block) == [k \in 1 .. Len(block) |-> <<pad, block[k]>>]

(* The key as one block: hashed when longer, filled with zeros.            *)
KeyBlock(k) ==
    Overwrite(NoBytes, 0,
        IF Len(k) > BlockLength
        THEN DigestOf(Sha2Last(Sha2Update(FreshContext, k))) ELSE k)

(* The XOR of a set of values that do not cancel by chance.                *)
Xor(values, v) == IF v \in values THEN values \ {v} ELSE values \cup {v}

KeyedInit ==
    /\ job = "none"
    /\ key = << >>
    /\ text = << >>
    /\ rounds = 0
    /\ kctx = FreshContext
    /\ result = << >>

-----------------------------------------------------------------------------
(* HMAC.  The context is a SHA-2 context and the outer key block.          *)

HmacInit(n) ==
    /\ job = "none" \/ result # << >>
    /\ job' = "hmac"
    /\ key' = KeyBytes(n)
    /\ LET block == KeyBlock(key')
       IN  kctx' = [okey |-> XorPad("5c", block),
                    ctx |-> Sha2Update(FreshContext, XorPad("36", block))]
    /\ text' = << >>
    /\ rounds' = 0
    /\ result' = << >>

HmacUpdate(n) ==
    /\ job = "hmac" /\ result = << >>
    /\ Len(text) + n <= MaxHmacMessage
    /\ LET data == [k \in 1 .. n |-> Message(Len(text) + k)]
       IN  /\ kctx' = [kctx EXCEPT !.ctx = Sha2Update(@, data)]
           /\ text' = text \o data
    /\ UNCHANGED <<job, key, rounds, result>>

HmacFinal ==
    /\ job = "hmac" /\ result = << >>
    /\ LET hash == DigestOf(Sha2Last(kctx.ctx))
           outer == Sha2Update(Sha2Update(FreshContext, kctx.okey), hash)
       IN  result' = DigestOf(Sha2Last(outer))
    /\ kctx' = Wiped
    /\ UNCHANGED <<job, key, text, rounds>>

-----------------------------------------------------------------------------
(* PBKDF2.  g is a whole block: a digest, then padding that is written     *)
(* once; f collects the digests; first says that Init did one iteration.   *)

\* Mutant: the padding forgets the key block that was compressed before.
HandPaddingShort ==
    Overwrite(Overwrite(NoBytes, DigestLength, <<Bits({"80"})>>),
              ShortLength, <<Counter(0), Counter(8 * DigestLength)>>)

HandPadding ==
    Overwrite(Overwrite(NoBytes, DigestLength, <<Bits({"80"})>>),
              ShortLength, <<Counter(0), Counter(8 * (BlockLength + DigestLength))>>)

WithDigest(g, state) == Overwrite(g, 0, DigestOf(state))

(* hmac_sha256_prepare and hmac_sha512_prepare: the two key blocks         *)
(* compressed.  The context of the salt is set up around idig, its buffer  *)
(* never initialised.                                                      *)
Pbkdf2Init(n, s) ==
    /\ job = "none" \/ result # << >>
    /\ job' = "pbkdf2"
    /\ key' = KeyBytes(n)
    /\ text' = SaltBytes(s)
    /\ LET block == KeyBlock(key')
           odig == Transform(<< >>, XorPad("5c", block))
           idig == Transform(<< >>, XorPad("36", block))
           inner == AddCarry([FreshContext EXCEPT !.state = idig, !.buffer = StaleBytes],
                             8 * BlockLength)
           salted == Sha2Update(Sha2Update(inner, text'), BlockNumber)
           g == Transform(odig, WithDigest(HandPadding, Sha2Last(salted)))
       IN  kctx' = [odig |-> odig, idig |-> idig, g |-> WithDigest(HandPadding, g),
                    f |-> {DigestOf(g)}, first |-> 1]
    /\ rounds' = 0
    /\ result' = << >>

Iterate(c) ==
    LET inner == Transform(c.idig, c.g)
        g == Transform(c.odig, WithDigest(c.g, inner))
    IN  [c EXCEPT !.g = WithDigest(@, g), !.f = Xor(@, DigestOf(g))]

(* The context after n iterations.                                         *)
Iterated(c, n) ==
    LET chain[i \in 0 .. n] == IF i = 0 THEN c ELSE Iterate(chain[i - 1])
    IN  chain[n]

(* for (i = first; i < iterations; i++), then first = 0.                   *)
Pbkdf2Update(iterations) ==
    /\ job = "pbkdf2" /\ result = << >>
    /\ rounds + iterations <= MaxIterations
    /\ kctx' = [Iterated(kctx, iterations - kctx.first) EXCEPT !.first = 0]
    /\ rounds' = rounds + iterations
    /\ UNCHANGED <<job, key, text, result>>

Pbkdf2Final ==
    /\ job = "pbkdf2" /\ result = << >> /\ rounds > 0
    /\ result' = <<kctx.f>>
    /\ kctx' = Wiped
    /\ UNCHANGED <<job, key, text, rounds>>

-----------------------------------------------------------------------------
KeyedNext ==
    \/ \E n \in KeyLengths : HmacInit(n)
    \/ \E n \in MessageLengths : HmacUpdate(n)
    \/ HmacFinal
    \/ \E n \in KeyLengths, s \in SaltLengths : Pbkdf2Init(n, s)
    \/ \E i \in Iterations : Pbkdf2Update(i)
    \/ Pbkdf2Final

KeyedSpec == KeyedInit /\ [][KeyedNext]_keyedVars

-----------------------------------------------------------------------------
(* RFC 2104 over the digest of a whole message.                            *)
StandardBlock(k) == Overwrite(NoBytes, 0, IF Len(k) > BlockLength THEN Sha2(k) ELSE k)
Hmac(k, message) ==
    Sha2(XorPad("5c", StandardBlock(k)) \o Sha2(XorPad("36", StandardBlock(k)) \o message))

(* RFC 8018: the chain U_1, ..., U_n, of which the result is the XOR.      *)
Chain(k, salt, n) ==
    LET u[i \in 1 .. n] == IF i = 1 THEN Hmac(k, salt \o BlockNumber)
                          ELSE Hmac(k, u[i - 1])
    IN  u
ChainXor(n) == {Chain(key, text, n)[i] : i \in 1 .. n}

(* HMAC of a message fed in any pieces, with a key shorter than, as long   *)
(* as, or longer than a block, is the standard's.  And so is PBKDF2 with   *)
(* its iterations asked for in any portions, as mnemonic_to_seed does      *)
(* sixteen times: it is the XOR of as many HMACs, although it never        *)
(* computes one - the key blocks are compressed ahead, the padding is made *)
(* by hand, and one iteration is done by Init.                             *)
KeyedIsStandard ==
    /\ job = "hmac" /\ result # << >> => result = Hmac(key, text)
    /\ job = "pbkdf2" /\ result # << >> => result = <<ChainXor(rounds)>>

(* Its strengthening that is inductive.  An HMAC context holds the inner   *)
(* key block and the text; a PBKDF2 context is one iteration ahead of what *)
(* it was asked for until the first Update.                                *)
HmacInv ==
    /\ kctx.okey = XorPad("5c", StandardBlock(key))
    /\ Sha2Holds(kctx.ctx, XorPad("36", StandardBlock(key)) \o text)

Done == IF kctx.first = 1 THEN 1 ELSE rounds
Pbkdf2Inv ==
    /\ kctx.odig = XorPad("5c", StandardBlock(key))
    /\ kctx.idig = XorPad("36", StandardBlock(key))
    /\ kctx.first \in {0, 1} /\ (kctx.first = 1 <=> rounds = 0)
    /\ kctx.g = Overwrite(HandPadding, 0, Chain(key, text, Done)[Done])
    /\ kctx.f = ChainXor(Done)

KeyedInv ==
    /\ job \in {"none", "hmac", "pbkdf2"}
    /\ job = "none" => result = << >>
    /\ rounds \in Nat
    /\ job = "hmac" /\ result = << >> => HmacInv
    /\ job = "pbkdf2" /\ result = << >> => Pbkdf2Inv
    /\ KeyedIsStandard
=============================================================================
