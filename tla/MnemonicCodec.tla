--------------------------- MODULE MnemonicCodec ---------------------------
(***************************************************************************)
(* Mnemonics as ios/Classes/bip39.c writes and reads them, with its        *)
(* proportions and smaller numbers: four bytes of entropy and one bit of   *)
(* checksum for every three words.  A word is its index in wordlist; a     *)
(* text is what stands between its blanks, so two blanks in a row, or one  *)
(* at the end, leave an Empty there, and Other stands for what is not in   *)
(* the list.  The hash is a parameter.                                     *)
(***************************************************************************)
EXTENDS Integers, SequencesExt

CONSTANTS
    ByteBits,        \* bits of a byte: 8 in the code
    HashFirst(_),    \* the first byte of the hash of a sequence of bytes
    EntropyLengths,  \* numbers of bytes that mnemonic_from_data takes
    WordCounts,      \* numbers of words that data_from_mnemonic takes
    EntropyBytes,    \* bound: the bytes that entropy is made of
    Typed            \* bound: what a user types in place of a word

Empty == -1
Other == -2
WordBits == (4 * ByteBits + 1) \div 3

(* 1 << n                                                                  *)
Power(n) == LET shifted[k \in 0 .. n] == IF k = 0 THEN 1 ELSE 2 * shifted[k - 1]
            IN  shifted[n]
Words == 0 .. (Power(WordBits) - 1)

ASSUME MnemonicAssumption ==
    /\ ByteBits \in Nat \ {0} /\ 3 * WordBits = 4 * ByteBits + 1
    /\ EntropyLengths \subseteq Nat
    /\ \A len \in EntropyLengths : len % 4 = 0 /\ len \div 4 \in 1 .. ByteBits
    /\ \A n \in WordCounts : n % 3 = 0 /\ n \div 3 \in 1 .. ByteBits
    /\ EntropyBytes \subseteq 0 .. (Power(ByteBits) - 1)
    /\ Typed \subseteq Words \cup {Empty, Other}

VARIABLES
    entropy,     \* what the text was made from, if it is as it was made
    mnemonic,    \* the text
    read         \* the outcome of reading it

mnemonicVars == <<entropy, mnemonic, read>>

Unread == [done |-> FALSE, length |-> 0, data |-> << >>]

-----------------------------------------------------------------------------
(* The bit under the mask 1 << (width - k); idx <<= 1 and the next bit; and *)
(* the bit k of numbers in a row, which is one of number (k - 1) / width.  *)
BitsOf(width, n) == [k \in 1 .. width |-> (n \div Power(width - k)) % 2]
NumberOf(bits) ==
    LET idx[j \in 0 .. Len(bits)] == IF j = 0 THEN 0 ELSE 2 * idx[j - 1] + bits[j]
    IN  idx[Len(bits)]
AllBits(width, numbers) ==
    [k \in 1 .. Len(numbers) * width |->
        BitsOf(width, numbers[((k - 1) \div width) + 1])[((k - 1) % width) + 1]]
Group(width, count, bits) ==
    [k \in 1 .. count |-> NumberOf(SubSeq(bits, (k - 1) * width + 1, k * width))]

\* Mutant: the data is copied over the hash before its first byte is kept.
WithChecksumLate(data) == Append(data, Head(data))

(* bits: the first byte of the hash is kept behind the data.               *)
WithChecksum(data) == Append(data, HashFirst(data))

(* mnemonic_from_data: as many words as fill the checksum bits in use.     *)
MnemonicFromData(data) ==
    Group(WordBits, (Len(data) * 3) \div 4, AllBits(ByteBits, WithChecksum(data)))

\* Mutant: the whole byte is compared, and the bits behind the last word.
ChecksumAgreesWhole(data, sum) ==
    BitsOf(ByteBits, HashFirst(data)) =
        sum \o [k \in 1 .. (ByteBits - Len(sum)) |-> 0]

(* The bits under the mask: those that the words hold.                     *)
ChecksumAgrees(data, sum) ==
    SubSeq(BitsOf(ByteBits, HashFirst(data)), 1, Len(sum)) = sum

(* data_from_mnemonic: blanks are counted first, so a blank at the end     *)
(* counts for a word that is not there.                                    *)
DataFromMnemonic(text) ==
    LET n == Len(text)
        words == IF Last(text) = Empty THEN Front(text) ELSE text
        length == (n * 4) \div 3
        bits == AllBits(WordBits, words)
        data == Group(ByteBits, length, bits)
    IN  IF /\ n \in WordCounts
           /\ \A k \in DOMAIN words : words[k] \in Words
           /\ Len(words) = n
           /\ ChecksumAgrees(data, SubSeq(bits, length * ByteBits + 1, n * WordBits))
        THEN [done |-> TRUE, length |-> length, data |-> data]
        ELSE [Unread EXCEPT !.done = TRUE]

MnemonicCheck(text) == DataFromMnemonic(text).length > 0

-----------------------------------------------------------------------------
MnemonicInit == entropy = << >> /\ mnemonic = << >> /\ read = Unread
MnemonicIdle == mnemonic = << >>

Generate(data) ==
    /\ MnemonicIdle
    /\ Len(data) \in EntropyLengths
    /\ entropy' = data
    /\ mnemonic' = MnemonicFromData(data)
    /\ read' = Unread

(* A user types the text again, with one mistake.                          *)
Retype ==
    /\ entropy # << >> /\ ~read.done
    /\ entropy' = << >>
    /\ \/ \E k \in DOMAIN mnemonic, t \in Typed : mnemonic' = ReplaceAt(mnemonic, k, t)
       \/ mnemonic' = Front(mnemonic)
       \/ \E t \in Typed : mnemonic' = Append(mnemonic, t)
    /\ UNCHANGED read

ReadMnemonic ==
    /\ mnemonic # << >>
    /\ read' = DataFromMnemonic(mnemonic)
    /\ UNCHANGED <<entropy, mnemonic>>

MnemonicNext ==
    \/ \E len \in EntropyLengths : \E data \in [1 .. len -> EntropyBytes] : Generate(data)
    \/ Retype
    \/ ReadMnemonic

MnemonicSpec == MnemonicInit /\ [][MnemonicNext]_mnemonicVars

-----------------------------------------------------------------------------
(* The words hold the entropy and then the first bits of its hash, one for *)
(* each three words, and nothing else: what the standard asks, so another  *)
(* wallet reads the same key.                                              *)
MnemonicIsStandard ==
    entropy # << >> =>
        AllBits(WordBits, mnemonic) =
            AllBits(ByteBits, entropy)
                \o SubSeq(BitsOf(ByteBits, HashFirst(entropy)), 1, Len(entropy) \div 4)

(* What is generated with a number of words that is read is accepted, and  *)
(* gives its entropy back: getPrivateKeyFromMnemonic never refuses what    *)
(* generateMnemonic returned.  And only a text that could have been        *)
(* generated is accepted: no blank, no unknown word, no checksum but the   *)
(* right one.                                                              *)
ReadIsCanonical ==
    read.done =>
        /\ entropy # << >> /\ Len(mnemonic) \in WordCounts =>
                read.length = Len(entropy) /\ read.data = entropy
        /\ read.length > 0 => MnemonicFromData(read.data) = mnemonic

-----------------------------------------------------------------------------
(* The strengthening that is inductive: a text is as it was made for as    *)
(* long as its entropy is kept, and what was read is read from the text.   *)
Bytes == 0 .. (Power(ByteBits) - 1)

MnemonicInv ==
    /\ entropy # << >> => /\ Len(entropy) \in EntropyLengths
                         /\ Range(entropy) \subseteq EntropyBytes
                         /\ mnemonic = MnemonicFromData(entropy)
    /\ Range(mnemonic) \subseteq Words \cup {Empty, Other}
    /\ read.done => mnemonic # << >> /\ read = DataFromMnemonic(mnemonic)
=============================================================================
