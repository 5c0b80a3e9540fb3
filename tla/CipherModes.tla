----------------------------- MODULE CipherModes -----------------------------
(***************************************************************************)
(* ios/Classes/aes_modes.c: a sender encrypts a stream in calls of any     *)
(* length, a receiver decrypts it in calls of other lengths.  The block    *)
(* cipher is free; a byte is the set of the atoms it is the XOR of.        *)
(***************************************************************************)
EXTENDS Integers, Sequences, Numerals

CONSTANTS
    AesBlockSize,    \* AES_BLOCK_SIZE
    CounterRadix,    \* 256: the values of one byte of the counter block
    CallLengths,     \* bound: the lengths of one call
    MaxStream        \* bound: the bytes of a stream

ASSUME CipherAssumption ==
    /\ AesBlockSize \in Nat \ {0}
    /\ CounterRadix \in Nat \ {0, 1}
    /\ CallLengths \subseteq Nat
    /\ MaxStream \in Nat

VARIABLES
    mode,       \* "none" before aes_mode_reset, "ecb", "cbc", "cfb", "ofb", "ctr"
    start,      \* the first counter block (ctr) or IV
    sender,     \* [iv, pos]: the caller's iv or cbuf, and ctx->inf.b[2]
    receiver,
    sent,       \* the bytes the sender has written
    received    \* the bytes the receiver has written

cipherVars == <<mode, start, sender, receiver, sent, received>>

Xor2(a, b) == (a \ b) \cup (b \ a)
XorBytes(s, t) == [k \in DOMAIN s |-> Xor2(s[k], t[k])]

(* aes_encrypt, and aes_decrypt of what it made.                           *)
Encrypt(block) == [k \in 1 .. AesBlockSize |-> {<<"E", block, k>>}]
Decrypt(block) == (CHOOSE atom \in block[1] : TRUE)[2]

(* A call's result: the context and the bytes written.                     *)
Put(c, iv, pos, bytes) == [iv |-> iv, pos |-> pos, out |-> c.out \o bytes]

-----------------------------------------------------------------------------
(* ECB and CBC: a call is a number of blocks.                              *)

EcbEncrypt(c, block) == Put(c, c.iv, c.pos, Encrypt(block))
EcbDecrypt(c, block) == Put(c, c.iv, c.pos, Decrypt(block))

CbcEncrypt(c, block) ==
    LET made == Encrypt(XorBytes(c.iv, block)) IN Put(c, made, c.pos, made)
CbcDecrypt(c, block) == Put(c, block, c.pos, XorBytes(Decrypt(block), c.iv))

(* CFB and OFB keep in pos how far the block in iv is used.                *)
Fresh(c) == IF c.pos = 0 THEN Encrypt(c.iv) ELSE c.iv
Next1(pos) == IF pos + 1 = AesBlockSize THEN 0 ELSE pos + 1

CfbEncryptByte(c, x) ==
    LET y == Xor2(Fresh(c)[c.pos + 1], x)
    IN  Put(c, [Fresh(c) EXCEPT ![c.pos + 1] = y], Next1(c.pos), <<y>>)
CfbEncryptBlock(c, block) ==
    LET made == XorBytes(Encrypt(c.iv), block) IN Put(c, made, c.pos, made)

\* Mutant: the plaintext byte is fed back, as in encryption.
CfbDecryptByteFed(c, x) ==
    LET y == Xor2(Fresh(c)[c.pos + 1], x)
    IN  Put(c, [Fresh(c) EXCEPT ![c.pos + 1] = y], Next1(c.pos), <<y>>)

CfbDecryptByte(c, x) ==
    Put(c, [Fresh(c) EXCEPT ![c.pos + 1] = x], Next1(c.pos),
        <<Xor2(x, Fresh(c)[c.pos + 1])>>)
CfbDecryptBlock(c, block) == Put(c, block, c.pos, XorBytes(Encrypt(c.iv), block))

OfbByte(c, x) ==
    Put(c, Fresh(c), Next1(c.pos), <<Xor2(Fresh(c)[c.pos + 1], x)>>)
OfbBlock(c, block) ==
    Put(c, Encrypt(c.iv), c.pos, XorBytes(Encrypt(c.iv), block))

(* aes_ctr_cbuf_inc: one more, big-endian, with the carry running left.    *)
CounterInc(cbuf) ==
    [k \in 1 .. AesBlockSize |->
        IF \A j \in (k + 1) .. AesBlockSize : cbuf[j] = CounterRadix - 1
        THEN (cbuf[k] + 1) % CounterRadix ELSE cbuf[k]]

(* CTR makes its key stream from the counter block in cbuf (iv here); pos  *)
(* may stay at the end of a used-up block, whose counter is then stepped   *)
(* by the next byte.  Key-stream buffers of BFR_BLOCKS blocks follow each  *)
(* other without a seam.                                                   *)
CtrCrypt(c, data) ==
    LET left == AesBlockSize - c.pos
        head == IF c.pos = 0 THEN 0 ELSE IF Len(data) < left THEN Len(data) ELSE left
        rest == Len(data) - head
        full == rest \div AesBlockSize
        first == IF c.pos # 0 /\ rest > 0 THEN CounterInc(c.iv) ELSE c.iv
        cbuf[b \in 0 .. full] == IF b = 0 THEN first ELSE CounterInc(cbuf[b - 1])
        stream(k) == Encrypt(cbuf[(k - 1) \div AesBlockSize])[((k - 1) % AesBlockSize) + 1]
        opening == [k \in 1 .. head |-> Xor2(data[k], Encrypt(c.iv)[c.pos + k])]
        body == [k \in 1 .. rest |-> Xor2(data[head + k], stream(k))]
    IN  Put(c, cbuf[full], IF rest > 0 THEN rest % AesBlockSize ELSE c.pos + head,
            opening \o body)

-----------------------------------------------------------------------------
(* One byte or block of mode m, encrypted or decrypted, and n of them in   *)
(* turn: the bytes and blocks of data behind the first "from" bytes.       *)

ByteStep(m, encrypt, c, x) ==
    CASE m = "cfb" /\ encrypt  -> CfbEncryptByte(c, x)
      [] m = "cfb" /\ ~encrypt -> CfbDecryptByte(c, x)
      [] m = "ofb"             -> OfbByte(c, x)

BlockStep(m, encrypt, c, block) ==
    CASE m = "ecb" /\ encrypt  -> EcbEncrypt(c, block)
      [] m = "ecb" /\ ~encrypt -> EcbDecrypt(c, block)
      [] m = "cbc" /\ encrypt  -> CbcEncrypt(c, block)
      [] m = "cbc" /\ ~encrypt -> CbcDecrypt(c, block)
      [] m = "cfb" /\ encrypt  -> CfbEncryptBlock(c, block)
      [] m = "cfb" /\ ~encrypt -> CfbDecryptBlock(c, block)
      [] m = "ofb"             -> OfbBlock(c, block)

BlockOf(data, from, b) == [k \in 1 .. AesBlockSize |-> data[from + (b - 1) * AesBlockSize + k]]

RunBytes(m, encrypt, c, data, from, n) ==
    LET done[k \in 0 .. n] ==
            IF k = 0 THEN c ELSE ByteStep(m, encrypt, done[k - 1], data[from + k])
    IN  done[n]

RunBlocks(m, encrypt, c, data, from, n) ==
    LET done[b \in 0 .. n] ==
            IF b = 0 THEN c ELSE BlockStep(m, encrypt, done[b - 1], BlockOf(data, from, b))
    IN  done[n]

(* ECB and CBC refuse a length that is not a number of blocks.             *)
ByBlocks(m, encrypt, c, data) ==
    IF Len(data) % AesBlockSize # 0 THEN c
    ELSE RunBlocks(m, encrypt, c, data, 0, Len(data) \div AesBlockSize)

(* CFB and OFB complete the block that is begun, do whole blocks, which    *)
(* start at pos = 0, and begin a new block with the rest.                  *)
ByPhases(m, encrypt, c, data) ==
    LET left == AesBlockSize - c.pos
        head == IF c.pos = 0 THEN 0 ELSE IF Len(data) < left THEN Len(data) ELSE left
        blocks == (Len(data) - head) \div AesBlockSize
        whole == head + blocks * AesBlockSize
        c1 == RunBytes(m, encrypt, c, data, 0, head)
        c2 == RunBlocks(m, encrypt, c1, data, head, blocks)
    IN  RunBytes(m, encrypt, c2, data, whole, Len(data) - whole)

(* One call: [iv, pos] before, and a result.                               *)
Crypted(m, encrypt, c, data) ==
    CASE m \in {"ecb", "cbc"} -> ByBlocks(m, encrypt, c, data)
      [] m \in {"cfb", "ofb"} -> ByPhases(m, encrypt, c, data)
      [] m = "ctr"            -> CtrCrypt(c, data)

Encrypted(c, data) == Crypted(mode, TRUE, c, data)
Decrypted(c, data) == Crypted(mode, FALSE, c, data)

PlainBytes(from, n) == [k \in 1 .. n |-> {<<"plain", from + k>>}]

CipherInit ==
    /\ mode = "none"
    /\ start = << >>
    /\ sender = [iv |-> << >>, pos |-> 0]
    /\ receiver = [iv |-> << >>, pos |-> 0]
    /\ sent = << >>
    /\ received = << >>

(* A new stream in both contexts: aes_mode_reset and a common IV, or a     *)
(* common counter block, anywhere in its range.                            *)
AesModeReset(m, iv) ==
    /\ mode' = m
    /\ start' = iv
    /\ sender' = [iv |-> iv, pos |-> 0]
    /\ receiver' = [iv |-> iv, pos |-> 0]
    /\ sent' = << >>
    /\ received' = << >>

Counters == [1 .. AesBlockSize -> 0 .. (CounterRadix - 1)]
SomeIv == [k \in 1 .. AesBlockSize |-> {<<"iv", k>>}]

StartStream ==
    /\ mode = "none"
    /\ \/ \E m \in {"ecb", "cbc", "cfb", "ofb"} : AesModeReset(m, SomeIv)
       \/ \E t \in Counters : AesModeReset("ctr", t)

EncryptCall(n) ==
    /\ mode # "none"
    /\ Len(sent) + n <= MaxStream
    /\ LET c == Encrypted([iv |-> sender.iv, pos |-> sender.pos, out |-> << >>],
                          PlainBytes(Len(sent), n))
       IN  /\ sender' = [iv |-> c.iv, pos |-> c.pos]
           /\ sent' = sent \o c.out
    /\ UNCHANGED <<mode, start, receiver, received>>

DecryptCall(n) ==
    /\ mode # "none"
    /\ Len(received) + n <= Len(sent)
    /\ LET c == Decrypted([iv |-> receiver.iv, pos |-> receiver.pos, out |-> << >>],
                          SubSeq(sent, Len(received) + 1, Len(received) + n))
       IN  /\ receiver' = [iv |-> c.iv, pos |-> c.pos]
           /\ received' = received \o c.out
    /\ UNCHANGED <<mode, start, sender, sent>>

CipherNext ==
    \/ StartStream
    \/ \E n \in CallLengths : EncryptCall(n)
    \/ \E n \in CallLengths : DecryptCall(n)

CipherSpec == CipherInit /\ [][CipherNext]_cipherVars

-----------------------------------------------------------------------------
(* SP 800-38A: the mode of a whole stream, block by block.  The counter of *)
(* a block is a number modulo the counter block's range.                   *)

CounterOf(t, b) ==
    [k \in 1 .. AesBlockSize |->
        ((Number(CounterRadix, t, AesBlockSize) + b - 1)
            \div RadixPower(CounterRadix, AesBlockSize - k)) % CounterRadix]

PlainBlock(b) == PlainBytes((b - 1) * AesBlockSize, AesBlockSize)

(* What block b hands to the next one, and what is made of it.             *)
Feedback(m, before, plain) ==
    CASE m = "cbc" -> Encrypt(XorBytes(plain, before))
      [] m = "cfb" -> XorBytes(plain, Encrypt(before))
      [] m = "ofb" -> Encrypt(before)
      [] m \in {"ecb", "ctr"} -> before

FedOf(m, t) ==
    LET fed[b \in 0 .. (MaxStream \div AesBlockSize + 1)] ==
            IF b = 0 THEN t ELSE Feedback(m, fed[b - 1], PlainBlock(b))
    IN  fed

MadeOf(m, t, b) ==
    CASE m = "ecb" -> Encrypt(PlainBlock(b))
      [] m \in {"cbc", "cfb"} -> FedOf(m, t)[b]
      [] m = "ofb" -> XorBytes(PlainBlock(b), FedOf(m, t)[b])
      [] m = "ctr" -> XorBytes(PlainBlock(b), Encrypt(CounterOf(t, b)))

Standard ==
    [k \in 1 .. MaxStream |->
        MadeOf(mode, start, (k - 1) \div AesBlockSize + 1)[((k - 1) % AesBlockSize) + 1]]

(* The bytes written so far are those of the mode applied to the whole     *)
(* stream, however it was cut into calls: the position that a call leaves  *)
(* in inf.b[2], the IV it leaves behind, and when the counter is stepped   *)
(* agree from call to call, also when a call ends a block exactly.  And    *)
(* the receiver, who cuts the stream elsewhere, gets the plaintext.        *)
StreamIsStandard ==
    mode # "none" =>
        /\ sent = SubSeq(Standard, 1, Len(sent))
        /\ received = PlainBytes(0, Len(received))
==============================================================================
