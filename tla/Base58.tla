------------------------------- MODULE Base58 -------------------------------
(***************************************************************************)
(* ios/Classes/base58.c with its radices: a caller encodes bytes, with or  *)
(* without a checksum, and decodes a text into a buffer.  A byte and a     *)
(* digit are numbers; a character outside the alphabet is NoDigit.  Limbs  *)
(* have LimbBytes bytes instead of four, the checksum one byte instead of  *)
(* four, and its hash is a parameter.                                      *)
(***************************************************************************)
EXTENDS Integers, SequencesExt, Numerals

CONSTANTS
    LimbBytes,       \* bytes of one element of outi
    HashByte(_),     \* the checksum of a sequence of bytes
    SourceBytes,     \* bound: the bytes that sources are made of
    TextDigits,      \* bound: the digits that texts are made of
    MaxSource,       \* bound: the length of a source
    MaxText          \* bound: the length of a text

NoDigit == -1
ByteRadix == 256
DigitRadix == 58
LimbRadix == RadixPower(ByteRadix, LimbBytes)

(* Room for the digits of n bytes: 138 / 100 is more than log 256 / log 58. *)
DigitsFor(n) == (n * 138) \div 100 + 1

Strings(set, n) == UNION {[1 .. k -> set] : k \in 0 .. n}

ASSUME Base58Assumption ==
    /\ LimbBytes \in Nat \ {0}
    /\ SourceBytes \subseteq 0 .. (ByteRadix - 1)
    /\ TextDigits \subseteq {NoDigit} \cup 0 .. (DigitRadix - 1)
    /\ {MaxSource, MaxText} \subseteq Nat
    /\ \A data \in Strings(SourceBytes, MaxSource) : HashByte(data) \in 0 .. (ByteRadix - 1)
    /\ DigitsFor(MaxSource + 1) < 2 * MaxText   \* room for the text of every source

VARIABLES
    source,      \* what was encoded last
    written,     \* what that gave, or the text that was decoded last
    taken        \* the outcome of the last decoding

base58Vars == <<source, written, taken>>

Untried == [tried |-> FALSE, ok |-> FALSE, bytes |-> << >>]
Refused == [Untried EXCEPT !.tried = TRUE]
Taken(bytes) == [tried |-> TRUE, ok |-> TRUE, bytes |-> bytes]

-----------------------------------------------------------------------------
(* Leading zeros of a sequence: zcount and zerocount.                      *)
LeadingZeros(s) ==
    CHOOSE n \in 0 .. Len(s) :
        /\ \A k \in 1 .. n : s[k] = 0
        /\ n < Len(s) => s[n + 1] # 0

\* Mutant: the digits before the last change are not visited again.
PushByteNarrow(c, byte) ==
    LET size == Len(c.buf)
        run[k \in 0 .. size] ==
            IF k = 0 THEN [buf |-> c.buf, carry |-> byte, j |-> size]
            ELSE LET r == run[k - 1]
                     t == r.carry + ByteRadix * r.buf[r.j]
                 IN  IF r.carry > 0
                     THEN [buf |-> ReplaceAt(r.buf, r.j, t % DigitRadix),
                           carry |-> t \div DigitRadix, j |-> r.j - 1]
                     ELSE r
    IN  [buf |-> run[size].buf, high |-> run[size].j]

(* One byte into buf: as far as the carry goes, and at least as far left as *)
(* the byte before went (high).                                            *)
PushByte(c, byte) ==
    LET size == Len(c.buf)
        run[k \in 0 .. size] ==
            IF k = 0 THEN [buf |-> c.buf, carry |-> byte, j |-> size]
            ELSE LET r == run[k - 1]
                     t == r.carry + ByteRadix * r.buf[r.j]
                 IN  IF r.j > c.high \/ r.carry > 0
                     THEN [buf |-> ReplaceAt(r.buf, r.j, t % DigitRadix),
                           carry |-> t \div DigitRadix, j |-> r.j - 1]
                     ELSE r
    IN  [buf |-> run[size].buf, high |-> run[size].j]

(* b58enc into room characters, the final zero included; no text when they *)
(* do not do.                                                              *)
B58enc(data, room) ==
    LET zcount == LeadingZeros(data)
        size == DigitsFor(Len(data) - zcount)
        pushed[k \in 0 .. (Len(data) - zcount)] ==
            IF k = 0 THEN [buf |-> [j \in 1 .. size |-> 0], high |-> size]
            ELSE PushByte(pushed[k - 1], data[zcount + k])
        buf == pushed[Len(data) - zcount].buf
        unused == LeadingZeros(buf)
        digits == [k \in 1 .. (size - unused) |-> buf[unused + k]]
    IN  IF room <= zcount + Len(digits) THEN << >>
        ELSE [k \in 1 .. zcount |-> 0] \o digits

-----------------------------------------------------------------------------
(* One digit into the limbs, from the last to the first; a carry out of    *)
(* the first limb, or a first limb beyond the bytes of the buffer, fails.  *)
PushDigit(c, digit, bytesleft) ==
    LET size == Len(c.outi)
        run[k \in 0 .. size] ==
            IF k = 0 THEN [outi |-> c.outi, c |-> digit]
            ELSE LET r == run[k - 1]
                     j == size + 1 - k
                     t == r.outi[j] * DigitRadix + r.c
                 IN  [outi |-> ReplaceAt(r.outi, j, t % LimbRadix),
                      c |-> (t \div LimbRadix) % 64]
        full == run[size]
    IN  [outi |-> full.outi,
         ok |-> /\ c.ok
                /\ full.c = 0
                /\ bytesleft > 0 => full.outi[1] < RadixPower(ByteRadix, bytesleft)]

(* The bytes of the limbs: the number at the end of binsz bytes.           *)
BytesOf(outi, binsz) ==
    [i \in 1 .. binsz |->
        LET place == binsz - i
        IN  (outi[Len(outi) - place \div LimbBytes]
                \div RadixPower(ByteRadix, place % LimbBytes)) % ByteRadix]

(* The canonical byte count: significant bytes, and one for each leading 1. *)
SizeOf(bytes, zerocount) == Len(bytes) - LeadingZeros(bytes) + zerocount

(* b58tobin into binsz bytes.                                              *)
B58tobin(b58, binsz) ==
    LET bytesleft == binsz % LimbBytes
        outisz == (binsz + LimbBytes - 1) \div LimbBytes
        zerocount == LeadingZeros(b58)
        pushed[k \in 0 .. (Len(b58) - zerocount)] ==
            IF k = 0 THEN [outi |-> [j \in 1 .. outisz |-> 0], ok |-> TRUE]
            ELSE PushDigit(pushed[k - 1], b58[zerocount + k], bytesleft)
        end == pushed[Len(b58) - zerocount]
        bytes == BytesOf(end.outi, binsz)
    IN  IF NoDigit \in {b58[k] : k \in DOMAIN b58} \/ ~end.ok
        THEN [ok |-> FALSE, size |-> 0, bin |-> << >>]
        ELSE [ok |-> TRUE, size |-> SizeOf(bytes, zerocount), bin |-> bytes]

-----------------------------------------------------------------------------
(* base58_encode_check                                                     *)
EncodeCheck(data, room) == B58enc(data \o <<HashByte(data)>>, room)

\* Mutant: the hash is not compared.
B58checkAnyHash(bin, b58) ==
    /\ Len(bin) >= 1
    /\ LeadingZeros(bin) = LeadingZeros(b58)

(* b58check: the hash, then the leading zeros against the leading ones.    *)
B58check(bin, b58) ==
    /\ Len(bin) >= 1
    /\ bin[Len(bin)] = HashByte(SubSeq(bin, 1, Len(bin) - 1))
    /\ LeadingZeros(bin) = LeadingZeros(b58)

(* base58_decode_check into datalen bytes: nd is the last res bytes of d.  *)
DecodeCheck(b58, datalen) ==
    LET r == B58tobin(b58, datalen + 1)
        nd == SubSeq(r.bin, Len(r.bin) - r.size + 1, Len(r.bin))
    IN  IF r.ok /\ B58check(nd, b58) THEN Taken(SubSeq(nd, 1, r.size - 1))
        ELSE Refused

-----------------------------------------------------------------------------
Base58Init == source = << >> /\ written = << >> /\ taken = Untried
Base58Idle == source = << >> /\ written = << >>

Encode(data) ==
    /\ source' = data
    /\ written' = EncodeCheck(data, 2 * MaxText)
    /\ taken' = Untried

(* The caller's buffer has room for a byte per leading 1 beside the number: *)
(* the code does not look, and the size it reports would exceed the buffer. *)
HasRoom(b58, binsz) ==
    LET r == B58tobin(b58, binsz) IN r.ok => r.size <= binsz

Decode(b58, datalen) ==
    /\ Base58Idle
    /\ HasRoom(b58, datalen + 1)
    /\ source' = << >>
    /\ written' = b58
    /\ taken' = DecodeCheck(b58, datalen)

DecodeOwn(datalen) ==
    /\ source # << >> /\ taken = Untried
    /\ datalen >= Len(source)
    /\ taken' = DecodeCheck(written, datalen)
    /\ UNCHANGED <<source, written>>

Base58Next ==
    \/ \E data \in Strings(SourceBytes, MaxSource) : Encode(data)
    \/ \E b58 \in Strings(TextDigits, MaxText), n \in 0 .. MaxSource : Decode(b58, n)
    \/ \E n \in 0 .. MaxSource : DecodeOwn(n)

Base58Spec == Base58Init /\ [][Base58Next]_base58Vars

-----------------------------------------------------------------------------
(* A text is the number of its bytes, with one leading 1 for each leading  *)
(* zero byte and no other, although b58enc works in a buffer of estimated  *)
(* size and visits only the digits it thinks can change.                   *)
EncodedIsNumber ==
    source # << >> =>
        LET bytes == source \o <<HashByte(source)>>
        IN  /\ ValueIn(DigitRadix, written) = ValueIn(ByteRadix, bytes)
            /\ LeadingZeros(written) = LeadingZeros(bytes)

(* Decoding what was encoded gives it back, in a buffer of any length that *)
(* holds it; and only the text that the encoder would write is accepted,   *)
(* so no two texts stand for the same address or key: overflow of the      *)
(* limbs, of the buffer and a wrong count of ones are all noticed.         *)
AcceptedIsCanonical ==
    /\ source # << >> /\ taken.tried => taken = Taken(source)
    /\ taken.ok => EncodeCheck(taken.bytes, 2 * MaxText) = written
=============================================================================
