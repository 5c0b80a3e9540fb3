------------------------------ MODULE SeedCache ------------------------------
(***************************************************************************)
(* mnemonic_to_seed of ios/Classes/bip39.c: seeds of recent mnemonics and  *)
(* passphrases, in a ring of entries.  The seed is a free function of the  *)
(* two texts (KeyedHash shows which).                                      *)
(***************************************************************************)
EXTENDS Integers

CONSTANTS
    Mnemonics,        \* texts of mnemonics
    LongMnemonics,    \* those of 256 characters or more
    Passphrases,      \* texts of passphrases
    LongPassphrases,  \* those of 64 to 256 characters
    NoText,           \* the content of an entry that is not set
    SeedCacheSize     \* BIP39_CACHE_SIZE

ASSUME SeedCacheAssumption ==
    /\ SeedCacheSize \in Nat \ {0}
    /\ NoText \notin Mnemonics \cup Passphrases

VARIABLES
    asked,       \* the mnemonic and passphrase of the last call
    seed,        \* what it wrote into the caller's buffer
    seedCache,   \* bip39_cache
    seedIndex    \* bip39_cache_index

seedVars == <<asked, seed, seedCache, seedIndex>>

SeedSlots == 0 .. (SeedCacheSize - 1)
SeedOf(m, p) == <<m, p>>
NoSeed == SeedOf(NoText, NoText)
EmptySlot == [set |-> FALSE, mnemonic |-> NoText, passphrase |-> NoText, seed |-> NoSeed]

SeedInit ==
    /\ asked = <<NoText, NoText>>
    /\ seed = NoSeed
    /\ seedCache = [j \in SeedSlots |-> EmptySlot]
    /\ seedIndex = 0

Cacheable(m, p) == m \notin LongMnemonics /\ p \notin LongPassphrases

\* Mutant: the passphrase is not compared.
MatchesMnemonic(slot, m, p) == slot.set /\ slot.mnemonic = m

Matches(slot, m, p) == slot.set /\ slot.mnemonic = m /\ slot.passphrase = p

(* The first entry for both texts answers; no key stretching.              *)
SeedHit(m, p) ==
    /\ Cacheable(m, p)
    /\ \E j \in SeedSlots :
        /\ Matches(seedCache[j], m, p)
        /\ \A h \in 0 .. (j - 1) : ~Matches(seedCache[h], m, p)
        /\ seed' = seedCache[j].seed
    /\ asked' = <<m, p>>
    /\ UNCHANGED <<seedCache, seedIndex>>

(* The seed is stretched, and stored over the oldest entry if it fits.     *)
SeedMiss(m, p) ==
    /\ Cacheable(m, p) => \A j \in SeedSlots : ~Matches(seedCache[j], m, p)
    /\ seed' = SeedOf(m, p)
    /\ asked' = <<m, p>>
    /\ IF Cacheable(m, p)
       THEN /\ seedCache' = [seedCache EXCEPT ![seedIndex] =
                    [set |-> TRUE, mnemonic |-> m, passphrase |-> p, seed |-> seed']]
            /\ seedIndex' = (seedIndex + 1) % SeedCacheSize
       ELSE UNCHANGED <<seedCache, seedIndex>>

MnemonicToSeed(m, p) == SeedHit(m, p) \/ SeedMiss(m, p)

SeedNext == \E m \in Mnemonics, p \in Passphrases : MnemonicToSeed(m, p)

SeedSpec == SeedInit /\ [][SeedNext]_seedVars

-----------------------------------------------------------------------------
(* The caller gets the seed of the texts it asked for, whatever was asked  *)
(* before and whichever entries were replaced: a hit compares both texts.  *)
SeedIsOfRequest == seed = SeedOf(asked[1], asked[2])

(* The ring keeps the last SeedCacheSize cacheable requests that were      *)
(* stretched: no text occupies two entries, so the cache never shrinks.    *)
NoDuplicateSeeds ==
    \A j, h \in SeedSlots :
        seedCache[j].set /\ seedCache[h].set
        /\ seedCache[j].mnemonic = seedCache[h].mnemonic
        /\ seedCache[j].passphrase = seedCache[h].passphrase => j = h
==============================================================================
