------------------------------ MODULE MCCrypto ------------------------------
(* Values for model-checking the components of the crypto library.  They   *)
(* share no state, so a behaviour uses one of them: the others stay in     *)
(* their initial states.                                                   *)
EXTENDS HashStream, KeyedHash, NodeCache, SeedCache, CipherModes, MnemonicCodec,
    Base58, LimbArithmetic, ScalarMultiply, HDNode,
    ModularInverse

CONSTANTS s1, s2, soft, hard, m1, m2, m3, l1, q1, q2, l2
MCSeeds == {s1, s2}
MCChildren == {soft, hard}
MCMnemonics == {m1, m2, m3, l1}
MCLongMnemonics == {l1}
MCPassphrases == {q1, q2, l2}
MCLongPassphrases == {l2}

Fold3(data) == FoldLeft(LAMBDA v, d : 3 * v + d, Len(data) + 91, data)
MCHashByte(data) == Fold3(data) % 256
MCHashFirst(data) == (Fold3(data) \div 4) % 32
MCTyped == {Other, Empty, 0, 85, 127}
MCTextDigits == {NoDigit, 0, 1, 30, 57}

(* y^2 = x^3 + 12 and y^2 = x^3 - 3 x + 59, both of prime order.           *)
MCCurves == {[prime |-> 3967, a |-> 0, b |-> 12, base |-> [x |-> 3, y |-> 527], order |-> 3919],
             [prime |-> 4051, a |-> -3, b |-> 59, base |-> [x |-> 1, y |-> 825], order |-> 4003]}
MCPartly(x, prime) == (x % prime) + (IF (x \div prime) % 2 = 0 THEN 0 ELSE prime)
\* 3761 and 3677: a digit's multiple is the sum so far, on one of the curves.
MCScalars == (0 .. 17) \cup {2048 + j : j \in 0 .. 1} \cup (3917 .. 3919) \cup (4001 .. 4002)
                \cup {256, 2304, 3677, 3761, 3840}

MCInverted == (1 .. 40) \cup {37 * j : j \in 1 .. 110} \cup (3940 .. 3970) \cup (4050 .. 4095)
                \cup {2 ^ j : j \in 6 .. 11}

(* Seeds and data whose numbers are no key at first, or lead to zero, to   *)
(* infinity or to the double of a key.                                     *)
MCWalletSeeds == {[left |-> 0, right |-> j] : j \in 0 .. 1}
MCHmac512(k, data) ==
    LET twice == Multiple(Secp256k1, 2, Secp256k1.base)
    IN  IF "left" \in DOMAIN data
        THEN [left |-> IF data.left > 0 THEN 2 + data.right ELSE <<0, 3920>>[data.right + 1],
              right |-> 1 + data.right]
        ELSE [left |-> CASE data.lead = 0 -> ORDER - data.body
                         [] data.lead = 1 -> IF data.body % 5 = 0 THEN 4000 ELSE 97 * data.body
                         [] OTHER -> IF data.body = twice.x THEN <<ORDER - 2, 2>>[data.i + 1]
                                     ELSE <<3919, 0>>[data.i + 1],
              right |-> IF data.lead = 1 THEN (data.body % 11) + 1
                        ELSE ((data.body + 3 * k) % 11) + 1]

(* The hypotheses of the theorems about signatures and nodes, for some     *)
(* numbers.                                                                *)
MCResidues(c) == {j \in ResiduesOf(c) : j % 197 = 5 \/ j < 5 \/ j > c.order - 5}
ASSUME MCGroup ==
    /\ \A c \in MCCurves :
        /\ Times(c, 0) = Infinity
        /\ TimesAdd(c, MCResidues(c)) /\ TimesMultiply(c, MCResidues(c))
        /\ TimesMirror(c, MCResidues(c) \ {0}) /\ TimesAreRead(c, MCResidues(c) \ {0})
    /\ ProductsAreReduced({193 * j : j \in 0 .. 4096} \cup {50000021 + j : j \in 0 .. 50})
    /\ SumsAreReduced

VARIABLE component

vars == <<component, hashVars, keyedVars, nodeVars, seedVars, cipherVars,
          mnemonicVars, base58Vars, limbVars, walkVars, ecdsaVars, hdVars, inversionVars>>

Init ==
    /\ component \in {"hash", "hmac", "nodes", "seeds", "cipher", "mnemonics", "base58",
                      "limbs", "multiples", "signatures", "wallets", "inverses"}
    /\ HashInit
    /\ KeyedInit
    /\ NodeInit
    /\ SeedInit
    /\ CipherInit
    /\ MnemonicInit
    /\ Base58Init
    /\ LimbInit /\ (component # "limbs" => number = 0 /\ p = 4079)
    /\ WalkInit
    /\ EcdsaInit
    /\ HDInit
    /\ InversionInit /\ (component # "inverses" => inversion.prime = 3967)

Next ==
    \/ /\ component = "hash"
       /\ HashNext
       /\ UNCHANGED <<component, keyedVars, nodeVars, seedVars, cipherVars, mnemonicVars,
                      base58Vars, limbVars, walkVars, ecdsaVars, hdVars, inversionVars>>
    \/ /\ component = "hmac"
       /\ KeyedNext
       /\ UNCHANGED <<component, hashVars, nodeVars, seedVars, cipherVars, mnemonicVars,
                      base58Vars, limbVars, walkVars, ecdsaVars, hdVars, inversionVars>>
    \/ /\ component = "nodes"
       /\ NodeNext
       /\ UNCHANGED <<component, hashVars, keyedVars, seedVars, cipherVars, mnemonicVars,
                      base58Vars, limbVars, walkVars, ecdsaVars, hdVars, inversionVars>>
    \/ /\ component = "seeds"
       /\ SeedNext
       /\ UNCHANGED <<component, hashVars, keyedVars, nodeVars, cipherVars, mnemonicVars,
                      base58Vars, limbVars, walkVars, ecdsaVars, hdVars, inversionVars>>
    \/ /\ component = "cipher"
       /\ CipherNext
       /\ UNCHANGED <<component, hashVars, keyedVars, nodeVars, seedVars, mnemonicVars,
                      base58Vars, limbVars, walkVars, ecdsaVars, hdVars, inversionVars>>
    \/ /\ component = "mnemonics"
       /\ MnemonicNext
       /\ UNCHANGED <<component, hashVars, keyedVars, nodeVars, seedVars, cipherVars,
                      base58Vars, limbVars, walkVars, ecdsaVars, hdVars, inversionVars>>
    \/ /\ component = "base58"
       /\ Base58Next
       /\ UNCHANGED <<component, hashVars, keyedVars, nodeVars, seedVars, cipherVars,
                      mnemonicVars, limbVars, walkVars, ecdsaVars, hdVars, inversionVars>>
    \/ /\ component = "limbs"
       /\ LimbNext
       /\ UNCHANGED <<component, hashVars, keyedVars, nodeVars, seedVars, cipherVars,
                      mnemonicVars, base58Vars, walkVars, ecdsaVars, hdVars, inversionVars>>
    \/ /\ component = "multiples"
       /\ WalkNext
       /\ UNCHANGED <<component, hashVars, keyedVars, nodeVars, seedVars, cipherVars,
                      mnemonicVars, base58Vars, limbVars, ecdsaVars, hdVars, inversionVars>>
    \/ /\ component = "signatures"
       /\ EcdsaNext
       /\ UNCHANGED <<component, hashVars, keyedVars, nodeVars, seedVars, cipherVars,
                      mnemonicVars, base58Vars, limbVars, walkVars, hdVars, inversionVars>>
    \/ /\ component = "wallets"
       /\ HDNext
       /\ UNCHANGED <<component, hashVars, keyedVars, nodeVars, seedVars, cipherVars,
                      mnemonicVars, base58Vars, limbVars, walkVars, ecdsaVars, inversionVars>>
    \/ /\ component = "inverses"
       /\ InversionNext
       /\ UNCHANGED <<component, hashVars, keyedVars, nodeVars, seedVars, cipherVars,
                      mnemonicVars, base58Vars, limbVars, walkVars, ecdsaVars, hdVars>>

Spec == Init /\ [][Next]_vars
==============================================================================
