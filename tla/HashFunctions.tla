--------------------------- MODULE HashFunctions ---------------------------
(***************************************************************************)
(* The streaming contexts of ios/Classes/sha2.c, ripemd160.c and sha3.c as *)
(* functions on a context.  The compression function is free: the chaining *)
(* value is the sequence of cells compressed since the initial value, so   *)
(* two digests are equal exactly when the same blocks were compressed.     *)
(* A cell stands for a byte, or for a counter word of the last block;      *)
(* blocks, counters and digests have fewer cells than in the code, with    *)
(* the same relations between their lengths.                               *)
(***************************************************************************)
EXTENDS Integers, Sequences

CONSTANTS
    BlockLength,    \* SHA256_BLOCK_LENGTH, SHA512_BLOCK_LENGTH, 64, block_size
    DigestLength,   \* SHA256_DIGEST_LENGTH, SHA512_DIGEST_LENGTH
    WordModulus     \* 2^32 or 2^64: the modulus of one word of the counter

ShortLength == BlockLength - 2   \* SHA256_SHORT_BLOCK_LENGTH: without the counter

ASSUME BlockAssumption == BlockLength \in Nat /\ BlockLength > 3
ASSUME DigestAssumption == DigestLength \in 1 .. (ShortLength - 1)
ASSUME WordAssumption ==
    /\ WordModulus \in Nat \ {0}
    /\ WordModulus % (8 * BlockLength) = 0

(* A padding byte is the set of the constants that were or-ed into it.     *)
Zero == <<"bits", {}>>
Bits(b) == <<"bits", b>>
Message(k) == <<"message", k>>
Counter(w) == <<"counter", w>>
(* What a compressed buffer is left with: byte-reversed by SHA-2, the old   *)
(* bytes or the last block in RIPEMD-160 and SHA-3.                        *)
Stale == <<"stale", 0>>
DigestOf(state) == [k \in 1 .. DigestLength |-> <<"digest", state, k>>]

Zeros(n) == [k \in 1 .. n |-> Zero]
NoBytes == Zeros(BlockLength)
StaleBytes == [k \in 1 .. BlockLength |-> Stale]

(* memcpy(buffer + at, data, Len(data)).                                   *)
Overwrite(buffer, at, data) ==
    [k \in 1 .. BlockLength |->
        IF k - at \in DOMAIN data THEN data[k - at] ELSE buffer[k]]

(* sha256_Transform and its kin: one more block, or several.               *)
Transform(state, blocks) == state \o blocks

-----------------------------------------------------------------------------
(* Contexts.  total is the counter: bits in SHA-2 (one word of 64 bits or  *)
(* two), bytes in RIPEMD-160, the leftover bytes (rest) in SHA-3.          *)

FreshContext == [state |-> << >>, buffer |-> NoBytes, lo |-> 0, hi |-> 0]
Wiped == [FreshContext EXCEPT !.state = NoBytes]

\* Mutant: the carry into the second word is lost.
AddNoCarry(ctx, n) == [ctx EXCEPT !.lo = (ctx.lo + n) % WordModulus]

(* ADDINC128, the 64-bit bitcount and RIPEMD-160's total: n is less than a *)
(* word, so one carry at most.                                             *)
AddCarry(ctx, n) ==
    [ctx EXCEPT !.lo = (ctx.lo + n) % WordModulus,
                !.hi = (ctx.hi + (ctx.lo + n) \div WordModulus) % WordModulus]

Sha2Used(ctx) == (ctx.lo \div 8) % BlockLength

(* Fill the partial block, compress it and all complete blocks of data,    *)
(* keep the leftovers.                                                     *)
Absorb(ctx, used, data) ==
    LET head == IF used = 0 THEN 0 ELSE BlockLength - used
        whole == BlockLength * ((Len(data) - head) \div BlockLength)
        filled == IF used = 0 THEN << >> ELSE Overwrite(ctx.buffer, used, SubSeq(data, 1, head))
    IN  IF Len(data) < head
        THEN [ctx EXCEPT !.buffer = Overwrite(@, used, data)]
        ELSE [ctx EXCEPT
                !.state = Transform(@, filled \o SubSeq(data, head + 1, head + whole)),
                !.buffer = Overwrite(IF head + whole = 0 THEN @ ELSE StaleBytes, 0,
                                     SubSeq(data, head + whole + 1, Len(data)))]

Sha2Update(ctx, data) ==
    AddCarry(Absorb(ctx, Sha2Used(ctx), data), 8 * Len(data))

(* The 0x80 byte, zeros, and the counter in the last block, with a block   *)
(* in between when the counter does not fit.                               *)
Sha2Last(ctx) ==
    LET used == Sha2Used(ctx) + 1
        opened == Overwrite(ctx.buffer, used - 1, <<Bits({"80"})>>)
        full == Overwrite(opened, used, Zeros(BlockLength - used))
        counted(buffer, from) ==
            Overwrite(Overwrite(buffer, from, Zeros(ShortLength - from)),
                      ShortLength, <<Counter(ctx.hi), Counter(ctx.lo)>>)
    IN  IF used > ShortLength
        THEN Transform(Transform(ctx.state, full), counted(StaleBytes, 0))
        ELSE Transform(ctx.state, counted(opened, used))

RipemdUpdate(ctx, data) ==
    AddCarry(Absorb(ctx, ctx.lo % BlockLength, data), Len(data))

(* ripemd160_Final feeds its padding through ripemd160_Update.  The byte   *)
(* counter becomes a bit counter by shifts across the two words.           *)
RipemdFinal(ctx) ==
    LET last == ctx.lo % BlockLength
        padn == IF last < ShortLength
                THEN ShortLength - last ELSE BlockLength + ShortLength - last
        padding == <<Bits({"80"})>> \o Zeros(BlockLength - 1)
        low == (8 * ctx.lo) % WordModulus
        high == ((8 * ctx.lo) \div WordModulus + 8 * ctx.hi) % WordModulus
    IN  RipemdUpdate(RipemdUpdate(ctx, SubSeq(padding, 1, padn)),
                     <<Counter(high), Counter(low)>>)

(* SHA-3 keeps rest and a flag instead of a counter: hi = 1 is             *)
(* SHA3_FINALIZED, which makes Update a no-op.                             *)
Sha3Update(ctx, data) ==
    IF ctx.hi = 1 THEN ctx
    ELSE [Absorb(ctx, ctx.lo, data) EXCEPT
            !.lo = (ctx.lo + Len(data)) % BlockLength]

(* sha3_Final and keccak_Final differ in the domain bits only; a second    *)
(* call repeats the digest.                                                *)
Sha3Finalize(ctx, domain) ==
    LET rest == ctx.lo
        cleared == Overwrite(ctx.buffer, rest, Zeros(BlockLength - rest))
        marked == [cleared EXCEPT ![rest + 1] = Bits(@[2] \cup {domain})]
        closed == [marked EXCEPT ![BlockLength] = Bits(@[2] \cup {"80"})]
    IN  IF ctx.hi = 1 THEN ctx
        ELSE [ctx EXCEPT !.state = Transform(@, closed), !.buffer = closed,
                         !.lo = 0, !.hi = 1]

-----------------------------------------------------------------------------
(* What the standards define: the padded form of a whole message.          *)

MessageOf(n) == [k \in 1 .. n |-> Message(k)]

(* FIPS 180 and RIPEMD-160: 0x80, the least number of zeros, the length in *)
(* bits modulo two words.                                                  *)
PaddedWithLength(message) ==
    LET zeros == CHOOSE z \in 0 .. (BlockLength - 1) :
                    (Len(message) + 1 + z + 2) % BlockLength = 0
        bits == (8 * Len(message)) % (WordModulus * WordModulus)
        length == <<Counter(bits \div WordModulus), Counter(bits % WordModulus)>>
    IN  message \o <<Bits({"80"})>> \o Zeros(zeros) \o length

(* FIPS 202: the domain bits, zeros, and a closing 0x80, which share a     *)
(* byte when only one is free.                                             *)
PaddedWithDomain(message, domain) ==
    LET room == BlockLength - (Len(message) % BlockLength)
    IN  message \o (IF room = 1 THEN <<Bits({domain, "80"})>>
                    ELSE <<Bits({domain})>> \o Zeros(room - 2) \o <<Bits({"80"})>>)

Sha2(message) == DigestOf(PaddedWithLength(message))

-----------------------------------------------------------------------------
(* What an unfinished context says of the message that it was fed: the     *)
(* complete blocks of it are in the state, the rest of it begins the       *)
(* buffer, and the counter is its length.                                  *)

Cell(ctx, k) ==
    IF k <= Len(ctx.state) THEN ctx.state[k] ELSE ctx.buffer[k - Len(ctx.state)]

ContextHolds(ctx, message) ==
    /\ Len(ctx.state) = Len(message) - (Len(message) % BlockLength)
    /\ \A k \in 1 .. Len(message) : Cell(ctx, k) = message[k]

Counts(ctx, n) ==
    /\ ctx.lo = n % WordModulus
    /\ ctx.hi = (n \div WordModulus) % WordModulus

Sha2Holds(ctx, message) == ContextHolds(ctx, message) /\ Counts(ctx, 8 * Len(message))
==============================================================================
