----------------------------- MODULE HashStream -----------------------------
(***************************************************************************)
(* A client of one hash context: Init, any number of Updates with chunks   *)
(* of any length, Final, for the algorithms of ios/Classes/sha2.c,         *)
(* ripemd160.c and sha3.c.  The k-th byte ever fed is Message(k), so a     *)
(* lost, repeated, moved or stale byte shows in the digest.                *)
(***************************************************************************)
EXTENDS HashFunctions

CONSTANTS
    Chunks,        \* bound: the lengths of one Update's data
    MaxMessage     \* bound: the bytes fed to one context

ASSUME StreamAssumption ==
    /\ Chunks \subseteq Nat
    /\ \A n \in Chunks : 8 * n < WordModulus
    /\ MaxMessage \in Nat

VARIABLES
    alg,       \* the algorithm of the context, "none" before Init
    hctx,      \* the context
    fed,       \* how many bytes the Updates took
    digest     \* what Final returned, empty before

hashVars == <<alg, hctx, fed, digest>>

Algorithms == {"sha2", "ripemd160", "sha3", "keccak"}

HashInit ==
    /\ alg = "none"
    /\ hctx = FreshContext
    /\ fed = 0
    /\ digest = << >>

(* sha256_Init, sha512_Init, ripemd160_Init, keccak_Init: of a new context *)
(* or of one that was finalised before.                                    *)
StartHash(a) ==
    /\ alg = "none" \/ digest # << >>
    /\ alg' = a
    /\ hctx' = FreshContext
    /\ fed' = 0
    /\ digest' = << >>

(* SHA-2 and RIPEMD-160 contexts are not updated after Final; a SHA-3      *)
(* context says that it is too late.                                       *)
HashUpdate(n) ==
    /\ alg # "none"
    /\ digest = << >> \/ alg \in {"sha3", "keccak"}
    /\ fed + n <= MaxMessage
    /\ LET data == [k \in 1 .. n |-> Message(fed + k)]
       IN  hctx' = CASE alg = "sha2" -> Sha2Update(hctx, data)
                     [] alg = "ripemd160" -> RipemdUpdate(hctx, data)
                     [] OTHER -> Sha3Update(hctx, data)
    /\ fed' = IF digest = << >> THEN fed + n ELSE fed
    /\ UNCHANGED <<alg, digest>>

(* sha256_Final and sha512_Final wipe the context.                         *)
Sha2Final ==
    /\ alg = "sha2" /\ digest = << >>
    /\ digest' = Sha2Last(hctx)
    /\ hctx' = Wiped
    /\ UNCHANGED <<alg, fed>>

Ripemd160Final ==
    /\ alg = "ripemd160" /\ digest = << >>
    /\ hctx' = RipemdFinal(hctx)
    /\ digest' = hctx'.state
    /\ UNCHANGED <<alg, fed>>

Domain == IF alg = "keccak" THEN "01" ELSE "06"

Sha3Final ==
    /\ alg \in {"sha3", "keccak"}
    /\ hctx' = Sha3Finalize(hctx, Domain)
    /\ digest' = hctx'.state
    /\ UNCHANGED <<alg, fed>>

HashNext ==
    \/ \E a \in Algorithms : StartHash(a)
    \/ \E n \in Chunks : HashUpdate(n)
    \/ Sha2Final
    \/ Ripemd160Final
    \/ Sha3Final

HashSpec == HashInit /\ [][HashNext]_hashVars

-----------------------------------------------------------------------------
(* The blocks that Final has compressed are those of the padded message,   *)
(* for every split into updates and across carries of the counter; later   *)
(* calls on a finalised SHA-3 context do not change its digest.            *)
DigestIsOfMessage ==
    digest # << >> =>
        digest = IF alg \in {"sha2", "ripemd160"}
                 THEN PaddedWithLength(MessageOf(fed))
                 ELSE PaddedWithDomain(MessageOf(fed), Domain)

(* Its strengthening that is inductive: what the context holds before      *)
(* Final, and that a SHA-3 context is closed afterwards.                   *)
Closed == alg \in {"sha3", "keccak"} => hctx.hi = 1 /\ hctx.state = digest
Open ==
    /\ ContextHolds(hctx, MessageOf(fed))
    /\ alg = "sha2" => Counts(hctx, 8 * fed)
    /\ alg = "ripemd160" => Counts(hctx, fed)
    /\ alg \in {"sha3", "keccak"} => hctx.lo = fed % BlockLength /\ hctx.hi = 0

HashInv ==
    /\ alg \in Algorithms \cup {"none"}
    /\ fed \in Nat
    /\ alg = "none" => digest = << >>
    /\ alg # "none" => IF digest = << >> THEN Open ELSE Closed
    /\ DigestIsOfMessage
==============================================================================
