# Verification of flutter_sdk

`flutter_sdk` is a Flutter plugin that gives an application a self-custodial
Ethereum account and gasless transactions: a BIP-39 mnemonic kept by the
platform, a wallet derived from it, and a client for the Gas Station Network
(GSN).  This directory holds the TLA+ specifications of that code, the TLC
configurations that model-check them, and the TLAPS proofs about them.  Paths
below are relative to the repository.

## 1. Inventory

| Component | Code | State it keeps | Operations |
|---|---|---|---|
| Account facade | `lib/account.dart` | the singleton's `_cachedWallet` | `createAccount`, `getWallet`, `getAccountAddress`, `getPrivateKeyHex`, `getBalance`, `permanentlyDeleteAccount`, `getAccountPhrase`, `signMessage`/`signTransaction`/`signHash` |
| Key manager | `lib/keyManager.dart` | none (local variables across awaits) | `getMnemonic`, `generateMnemonic`, `makePrivateKeyFromMnemonic`, `saveMnemonic`, `deleteMnemonic` over the method channel |
| Method channel | `MethodChannel("flutter_sdk")` | calls and replies under way | one FIFO queue in each direction |
| Android plugin | `android/.../FlutterSdkPlugin.kt`, `MnemonicStorageHelper.kt` | Blockstore bytes, an `EncryptedSharedPreferences` entry, Blockstore tasks under way | five handlers, three task listeners |
| iOS plugin | `ios/Classes/FlutterSdkPlugin.swift`, `RlyNetworkMobileSdk.swift`, `KeyChainHelper.swift` | one keychain item | five synchronous handlers |
| GSN client | `lib/gsnClient/gsnClient.dart`, `gsnTxHelpers.dart` | `NetworkConfig.gsn.relayWorkerAddress` and the mutable fields of the caller's `GsnTransactionDetails` | `relayTransaction`: configuration, estimate, nonce, signature, post, receipt |
| Network facade | `lib/networks/evm_networks.dart` | `relayerApiKey` | `claimRly`, `transfer`, `relay`, `getBalance`, `simpleTransfer` |
| Typed data | `lib/gsnClient/EIP712/` | none | permits, meta transactions, relay requests, their EIP-712 forms |
| Amounts and calldata | helpers of the two previous rows | none | `parseUnits`, `formatUnits`, `hexZeroPad`, calldata cost |
| Hashes (iOS, `ios/Classes/*.c`: trezor-crypto) | `sha2.c`, `ripemd160.c`, `sha3.c`, `hmac.c`, `pbkdf2.c` | streaming contexts | `Init`, `Update`, `Final` |
| Mnemonics, base58 | `bip39.c`, `base58.c` | the static cache of seeds | making, checking and reading mnemonics, `mnemonic_to_seed`; texts with and without a checksum |
| Nodes | `bip32.c` | the static cache of derived nodes; a node is its caller's | from a seed or a key, private and public derivation, texts of nodes, shared keys, addresses |
| Limb arithmetic | `bignum.c` | none; a number is its caller's | 9 limbs of 30 bits, partly reduced between calls; the modular inverse in two shared registers |
| Curve and signatures | `ecdsa.c`, `secp256k1.c` | constant tables | two scalar multiplications, signing, verifying, recovering, reading keys, DER, addresses |
| AES | `aes_modes.c`, `aescrypt.c`, `aeskey.c`, `aestab.c` | streaming contexts | five modes over one block cipher |
| Random numbers | `rand.c` | an open file | reads of `/dev/urandom` |
| Configuration, ABI data, example application | `lib/network_config/`, `lib/contracts/`, `lib/gsnClient/ABI/`, `example/` | constants | none |

How they interact.  The application calls the account facade, which keeps one
wallet in memory and asks the key manager for everything else.  The key manager
is a thin layer over the method channel; every call crosses to the platform's
main thread and comes back as an event of the Dart isolate.  On Android the
handlers of `getMnemonic`, `saveMnemonic` and `deleteMnemonic` start Blockstore
tasks that run in another process and call listeners back on the main thread;
on iOS every handler runs to its answer.  `claimRly`, `transfer` and `relay` ask
the account facade for the wallet, the chain for balances and nonces, and the
relay server for its worker and its fees, then sign and post.

What is hard about this code:

- `AccountsUtil.createAccount` calls `getWallet()` without `await`
  (`lib/account.dart:26`).  A second activation runs beside the caller's, reads
  the storage, may draw a mnemonic of its own, and writes `_cachedWallet`.
- Two Android handlers answer a text that is no mnemonic and go on
  (`FlutterSdkPlugin.kt:83-90`, `:99-114`): the call is answered twice.
- A save is posted and not awaited (`lib/keyManager.dart:47`, `:88-98`), while
  the wallet made from the mnemonic is handed out.  The process may die, the
  store may fail, and nobody is told.
- Blockstore tasks carry no promised order and outlive the application
  (`MnemonicStorageHelper.kt:51-60`, `:91-114`, `:126`); a failed retrieve looks
  like an empty store, and an empty store makes `getMnemonic` draw a new
  mnemonic over the old one.
- On iOS each `OSStatus` is dropped, and a failed generation answers the string
  `"failure"`, which Dart stores as if it were a mnemonic.
- The GSN client mutates objects that concurrent calls share, and reads them
  after an await.
- The crypto library leaves numbers partly reduced, estimates quotients from one
  limb, keeps four numbers in two registers, adds points with formulas that have
  exceptions, and tries again where a hash gives no key.  Each is safe by an
  argument about ranges that stands in a comment or nowhere, on inputs that a test
  with random keys never meets.

## 2. Modules

| Module | Models | Notes |
|---|---|---|
| `MethodChannel` | the channel | one sequence per direction; `Send`, `Receive`, `Answer`; also the ghost sets `minted` and `entrusted` |
| `AccountsUtil` | `lib/account.dart` over `lib/keyManager.dart` | one action per API call, one per resumption after an await |
| `AndroidStorage` | the Kotlin side | one action per handler, per Blockstore task and per listener |
| `IosKeychain` | the Swift side | one action per handler |
| `AndroidWallet`, `IosWallet` | the compositions, the process's death and restart | `Spec` (safety) and `FairSpec` |
| `Custody` | abstract specification: only mnemonics that were handed to the storage become wallets | implemented by both compositions |
| `GsnServices` | the relay server and the chain, as the client uses them | external: `epoch` of the server's configuration, nonces, balances, the requests taken and mined |
| `GsnClient` | `claimRly`, `transfer`, `relay` and `relayTransaction` | one action per stretch between two awaits; composed with `GsnServices` |
| `HashFunctions` | the contexts of `sha2.c`, `ripemd160.c`, `sha3.c` | operators on a context, and the padded forms the standards define |
| `HashStream` | a client of one hash context | `Init`, `Update`, `Final` in any legal order |
| `KeyedHash` | `hmac.c`, `pbkdf2.c` | over the SHA-2 context of `HashFunctions` |
| `Derivation` | abstract specification: private derivation along a path | implemented by `NodeCache` |
| `NodeCache` | `hdnode_private_ckd_cached` and the operations on a node, `bip32.c` | |
| `SeedCache` | `mnemonic_to_seed`, `bip39.c` | |
| `Numerals` | numbers written with digits of any radix | definitions for `Base58` and the counter of `CipherModes` |
| `CipherModes` | `aes_modes.c` | a sender and a receiver of one stream |
| `MnemonicCodec` | mnemonics from entropy and back, `bip39.c` | and a person who mistypes one |
| `Base58` | `base58.c` | |
| `FieldNumbers` | what `bignum.c` computes modulo a prime, on numbers | a result is one of two representatives |
| `FieldArithmetic` | abstract specification: a sequence of calls on one number | implemented by `LimbArithmetic` |
| `BigNum`, `LimbArithmetic` | `bignum.c` on limbs; a caller of it | carries and borrows are lost when a word cannot hold them |
| `InverseNumbers`, `AlmostInverse` | abstract specification: the four numbers of `bn_inverse` | implemented by `ModularInverse` |
| `ModularInverse` | `bn_inverse` in its registers | one action per turn of each loop |
| `Curve` | points, affine and Jacobian, and the digits of a scalar, `ecdsa.c` | over `FieldNumbers` |
| `ScalarMultiply` | `scalar_multiply`, `point_multiply` | one action per iteration |
| `Ecdsa` | a signer, and a checker of what it is handed, `ecdsa.c` | |
| `HDNode` | a wallet's holder and a watcher with its public half, `bip32.c` | over `Ecdsa` |
| `MCAndroidWallet`, `MCIosWallet`, `MCGsnClient`, `MCCrypto` | values for TLC | `MCCrypto` explores the twelve machines of the crypto library, one per behaviour: they share no state |
| `AccountsUtil_proofs`, `AndroidWallet_proofs`, `IosWallet_proofs`, `GsnClient_proofs`, `HDNode_proofs`, `Mnemonics_proofs`, `AlmostInverse_proofs`, `Hash_proofs` | proofs | see section 6 |

### State and actions against the code

`frames` holds the asynchronous activations of Dart.  A frame records which API
call it runs (`op`), the method whose reply it awaits (`pc`), its local
mnemonic (`text`) and whether the application holds its future (`awaited`).
Dart runs the code between two awaits without interruption, so each resumption
is one action: `OnGetMnemonic`, `OnGenerateMnemonic`, `OnPrivateKey`,
`OnKeyError`.  `_cachedWallet` is `cached`.

`getAccountAddress`, `getPrivateKeyHex` and `getBalance` await `getWallet` and
then read, so they are `GetWallet`; the three signing calls start `getWallet`
and throw, which is `Sign`.  `createAccount` is two actions, `CreateAccount` and
`OverwriteAccount`, because the flag decides everything: without `overwrite` it
always throws, since `existingWallet` is a `Future` and never null.

A mnemonic, the key derived from it and the wallet made from the key are one
model value: derivation is a function, and distinct mnemonics give distinct
wallets.  `Failure` is a text that is no mnemonic, as the string `"failure"` of the
Swift plugin is.  Replies to calls that nobody awaits (saves, deletions) are dropped
by Dart and are not queued.  `KeyManagerImpl` is public, so the application may also save
a text of its own, a mnemonic or none: `SaveText`, with the texts of `AppTexts`.

On Android `writes` is a bag because `storeBytes` and `deleteBytes` tasks finish
in any order; `retrieving` and `retrieved` are the two halves of a
`retrieveBytes` task, the read in the Blockstore process and the listener on
the main thread, with anything in between.  `Save` has a single
branch since `save` overwrites its `isEndToEndEncryptionAvailable` with `true`
(`MnemonicStorageHelper.kt:50`) and Dart always passes `useBlockStore = true`.
`AndroidRestart` drops the listeners and keeps the store and its tasks.

Two handlers answer a text that is no mnemonic with an error and do not return
(`FlutterSdkPlugin.kt:83-90` and `:99-114`), so they answer twice.  Flutter takes the
first answer and refuses the second with an exception.  Around a handler it catches the
exception: `HandleGetPrivateKey` answers the error, and the key that follows is lost.
The second answer to a save comes from the listener of its task, on the main thread,
where nobody catches it: `refused` follows such a save, and `AnswerRefused` is the death of the process
when its listener runs, by which time the text may be stored.  `answeredTwice` keeps
which methods were answered twice.

Three history variables carry the arguments on custody: `minted` (phrases drawn so far or
brought along, so that a draw is fresh), `entrusted` (texts the storage has held or has
been asked to keep) and, on Android, `kept` (texts the two stores have held).  Only bounds
(each text of `AppTexts` is saved once) and the freshness of a draw read them.

`GsnClient` holds one record per activation in `relays`.  `pc` is the await it
is at: `wallet` (the `getWallet` inside `getBalance`), `balance` (`claimRly`, `transfer`), `prepare` (what `transfer` reads), `estimate` (`getClaimTx`), `getaddr`
(`updateConfig`), `nonce` (`getSenderNonce`), `count` (`getTransactionCount`)
and `post`.  An await is answered in two steps: `Serve`, `ServePost` or `Fail` is
the moment the other side computes the answer, and `OnBalance` ... `OnPosted` and
`OnFailure` are the resumptions, so anything may happen between a value's
reading and its use.  `configWorker` is the one field of the shared
`NetworkConfig` that a relay writes; `txs` are the `GsnTransactionDetails`
objects, which `relayTransaction` changes in place.  `estimateGasWithoutCallData`
parses `gas` with radix 16 and stores a `0x`-prefixed text in the same field, so
`gas` is `"plain"` before and `"estimated"` after, and a second parse throws.
An object of `claimRly` is its own (it is named by the activation); an object of
`relay` is the application's and may be relayed again.  Server answers are
numbered by `epoch`: `WorkerAt[e]` and the fees of answer `e`.  Gas numbers, fees,
deadlines and the signed bytes are left out; `RequestOf` keeps who sends, who
signed, with which nonce and through which worker.

`claimRly`, `getBalance` and `relay` each call `getWallet`; the wallet modules show what it
can return, and `GsnClient` abstracts it to `wallet`, which the application may
change at any time it is allowed to (`SwitchWallet`).  An activation keeps the three
answers apart: `account` of `claimRly`, for which the claim is built, `holder`, whose
balance is looked at, and `signer`, who signs.  `transfer` never relays: every
way it has of making a transaction throws, because the ABI and the code disagree
on types (`OnPrepared` names the three places).  `registerAccount` is `claimRly`.

The crypto library is sequential C with contexts and two static caches; what is
hard in it is what a long sequence of calls leaves behind, and what its arithmetic
does at the edges.  Hashes and the block cipher are free functions; limbs, the
field and the curve are real arithmetic at a reduced width.  In `HashFunctions` the chaining value is the
sequence of cells compressed so far, so a digest equals the standard's exactly
when the same blocks were compressed in the same order; a cell is a byte of the
message, a padding byte (the set of constants or-ed into it) or a word of the
length counter, and a compressed buffer holds `Stale` cells, so that reading an old
byte shows.  `lo` and `hi` are the words of the counter; in SHA-3 `lo` is `rest` and
`hi` the `SHA3_FINALIZED` flag.  `Absorb` is the partial-block logic that the four
`Update` functions share.  In `KeyedHash` the XOR of PBKDF2's iterations is a set of
values in which a repeated one cancels.  A node of `Derivation` is its seed, its
child numbers and whether its public key is filled (which the `memcmp` of the
root in `bip32.c:338` sees).  `steps` holds the child numbers of the last call, so
that the refinement says not only that some node was derived, but that it is
the one asked for.  `NodeCache` splits the cached derivation into
`CkdShort`, `CkdHit` and `CkdMiss`; each includes the final step.  `SeedCache` has
`SeedHit` and `SeedMiss`.  In `CipherModes` a byte is the set of atoms it is the XOR
of, the block cipher is free, and `pos` is `ctx->inf.b[2]`.  `ByPhases` is the order the
CFB and OFB functions share: bytes that complete a begun block, whole blocks, bytes
that begin one; `ByteStep` and `BlockStep` are the bodies of their loops.

`MnemonicCodec` keeps the proportions of BIP-39 (four bytes and one bit of checksum for
three words) and takes the width of a byte as a parameter.  A text is the sequence
of what stands between its blanks, so that `Empty` covers double and final blanks,
which the code counts as words in a first pass and meets, or does not, in the
second.  `Base58` keeps both radices and both of the code's shortcuts: the buffer of
estimated size with its high-water mark in `PushByte`, the limbs with their carry
and mask in `PushDigit`.  In both the hash is a constant operator.

`BigNum` translates `bignum.c` limb by limb.  A word holds two bits more than a
limb, as `uint32_t` does, and twice a word is `uint64_t`; every stored value is
taken modulo its width, so a carry that does not fit is lost as it is in the code.
`LimbArithmetic` lets a caller make any sequence of calls that the comments on
them allow, records what the comment on the last one promises of its result
(`promise`), and whether an assertion failed (`failed`).  Where the code reduces
partly, `FieldArithmetic` lets the result be either number with the residue, since
`bn_fast_mod` and `bn_multiply` estimate the quotient.

`ModularInverse` keeps the two registers of `bn_inverse` (`us`, `vr`) as one
function of words each, with the length of the shrinking number, so that a bit
which crosses the border between two numbers belongs to the wrong one.
`Abstract` reads the four numbers back out of them.  `AlmostInverse` is the
algorithm without registers, and is what the proof is about: `TLC` shows that
the registers implement it, TLAPS that it inverts.

In `Curve` a product is whichever representative the constant operator
`PartlyReduced` picks, because the formulas compare without reducing.
`ScalarMultiply` keeps one multiplication in `walk`: the digits left, the sign that
the next digit will need, and the Jacobian sum.  `Ecdsa` has one signer (`TryNonce`
is one turn of its loop) and a `verdict` of the last check, for which a signature, a
recovery byte, a digest or a key is altered in every way the constants allow; its
multiplications are `Multiple`, the plain doubling and adding of points; `WalkIsMultiple`
says that both loops compute it for every multiple of the base but infinity.  One caller
multiplies infinity: `ecdsa_verify_digest_recover` does not look at the sum it has made
(`ecdsa.c:1084-1086`).  The loop then ends with a `z` of zero, and `bn_inverse` of zero
reads the word before its register: it returns if that is zero, and never does if it is
not.  So `Recover` is a set of outcomes, with infinity as a success and `NeverReturns`
in that case.  `HDNode` adds two
parties: the `holder` derives with `HolderCkd`, the `watcher` with `WatcherCkd`, and
`derived` says which child numbers each used.  HMAC-SHA512 is a constant operator
there, chosen so that numbers beyond the order, a zero key, infinity and a doubling
all come up, and the retries of both derivations run.  The loops of `bip32.c` that
look for a good number have no end of their own: a call is modelled when it finds
one within `MaxRetries`, and nothing is said of one that does not.

## 3. What each run checks

| Run | Instance | Shows |
|---|---|---|
| `android_safety` | 2 frames, 3 phrases, every call and a save of a text that is no mnemonic, all task failures, restarts, not awaiting application; 3 353 923 states | `TypeOK`; `HandedOutIsEntrusted`: a wallet in use or returned is of a mnemonic the storage was asked to keep; `OneAnswerEach`: every awaited call is owed exactly one answer, wherever it is, and a handler answers twice only where a text that is no mnemonic was entrusted; `ImplementsCustody` |
| `android_durable` | overlapping `getWallet`, `getAccountPhrase` and overwriting `createAccount`, restarts, no deletion, no task failures, fair; 389 451 states | `CallsSettle`; `BackedEventually`: the mnemonic of every wallet in use is in a store at some time; `StoredAccountIsFound` |
| `android_refuse` | finding | `createAccount()` refuses on a device without an account |
| `ios_safety` | 2 frames, 3 phrases, every call and saves of any text, every system failure, restarts; 2 963 979 states | `HandedOutIsEntrusted`, `OneAnswerEach`, `ImplementsCustody` as on Android, and `FailureIsNoWallet` |
| `ios_durable` | without deletions and failing reads, fair; 128 299 states | `CallsSettle`, `StoredAccountIsFound` |
| `ios_agreement` | 3 frames, 4 phrases, an awaiting application that uses `getWallet` and an overwriting `createAccount`, working keychain; 26 281 states | `AgreementWhenIdle`: memory and keychain agree at rest |
| `ios_failure` | finding | the string `"failure"` is stored |
| `gsn_safety` | 2 activations, 2 accounts, 2 workers, 1 shared object, 2 calls, failing network; 10 582 624 states | `PostedOnce`, `CountIsOfWorker`, `NonceIsOfSigner`, `DustedIsRefused` |
| `gsn_served` | an awaiting application, fair; 152 068 states | `OneServerAnswer`, `RelaysSettle` |
| `gsn_dusted` | finding | a claim is posted for an account dusted meanwhile |
| `gsn_taken` | finding | a relay the server took ends in an exception |
| `crypto` | twelve components, see below; 161 604 states | the table that follows |

The properties of `crypto`:

| Component | Shows |
|---|---|
| hash | `DigestIsOfMessage`: contexts lose, repeat or move no byte, for every split, also when the counter carries |
| hmac | `KeyedIsStandard`: HMAC and PBKDF2 are the standard's, for every key length and every portioning of the iterations |
| nodes | `ImplementsDerivation`: the node cache refines derivation step by step |
| seeds | `SeedIsOfRequest`: a cached seed is that of the request |
| cipher | `StreamIsStandard`: what is sent is the mode applied to the whole stream, and what is received is the plaintext, however either side cuts it |
| mnemonics | `MnemonicIsStandard`; `ReadIsCanonical`: generated mnemonics are read, and nothing else is |
| base58 | `EncodedIsNumber`; `AcceptedIsCanonical`: encoded texts are read, and nothing else is |
| limbs | `PromiseKept`: results are as small as the comments promise, and no assertion fails; `ImplementsField`: no carry or borrow is lost |
| inverses | `ImplementsAlmostInverse`: numbers that share a register never meet; `InverseIsInverse`: the answer, the assertions and the bound on `k` |
| multiples | `WalkIsMultiple`: after every iteration the sum is the multiple for the digits used, so no addition meets a case that it gets wrong, and the result is the multiple |
| signatures | `AcceptedIsSignature`, `OwnSignatureIsGood`, `RecoveredIsSigner`, `KeyReadIsPoint` |
| wallets | `PublicChildIsChild`: holder and watcher derive the same keys; `NodesAreSound` |

Bounds.  `MaxDraws` is a bound on the mnemonics one device draws, `MaxCalls` on
the API calls of a behaviour, a deletion is only requested when none is
queued, and a text of `AppTexts` is saved once; all are guards of the modules and named there.  Two frames are
enough for every race this code has with itself: a caller and the `getWallet`
that `createAccount` forgot, or two callers; a third activation waits for the
same queues.  Three phrases let the device start with one, an activation draw a
second and another a third, so all pairs of memory, Blockstore and preferences
occur.  `ios_agreement` uses three frames because an awaiting application has
two of them under way by itself.  Two GSN activations, accounts and workers are
the least that can disturb each other; symmetry is used only for accounts, phrases and
activations, which no definition tells apart, and only in runs without
liveness.  The wallet and GSN runs say `CHECK_DEADLOCK FALSE` because the system may stop:
the bounds are used up, or the application makes no further call.

`crypto` scales lengths and keeps their relations: a block of 4 cells, of which
2 hold the counter (so the 0x80 byte leaves room for it, or does not, or falls on
its edge), a digest of 1, updates of 0, 1, 2, 3, 4 and 7 bytes (empty, within a
block, completing one exactly, across two), and counter words modulo 64 with 70
bytes, so the first word wraps up to eight times.  Keys are empty, shorter than,
exactly, and longer than a block; PBKDF2 does up to 4 iterations in portions of 1
to 3.  The caches have 2 entries (10 and 4 in `options.h:46-57`) for more paths and
texts than they hold, two roots, and roots with and without a public key, so
every entry is replaced and the node cache is cleared.  The AES block has 3 bytes
of radix 2, all 8 counter blocks start a stream, and calls have 0 to 7 of up to
12 bytes, so the counter wraps and every position is left and resumed.  Mnemonics have
bytes of 5 bits, hence words of 7, and 3 or 6 words of which only 6 are read: the
checksum is part of a byte, one number of words is generated and refused (15 and
21 in the code), and one altered mnemonic in four passes.  Base58 encodes every
source of up to 2 bytes from {0, 1, 58, 255} and decodes every text of up to 5 digits
from {0, 1, 30, 57} or outside the alphabet, into buffers of 1 to 3 bytes: limbs of 2
bytes are full, partly in the buffer, and overflown.

Numbers have 12 bits: 3 limbs of 5 bits of which the top one uses 2, as the code has 9
of 30 of which it uses 16, and words of 6 or 7 bits where the code has 32, so the two
spare bits of a word are there.  The primes 4079 and 4091 are just below 2^12, as
the field prime and the order are just below 2^256, which the estimates of quotients
depend on; sequences of 2 calls start from any of 11 numbers up to the capacity, and
the inputs of a product are below 4 primes (180 in the code, out of a capacity of
2^14), so the largest inputs that the comments permit occur.  The curves `y^2 = x^3 + 12` modulo 3967
and `y^2 = x^3 - 3x + 59` modulo 4051 have prime orders 3919 and 4003 and stand for
secp256k1 and the curves with `a = -3`; they are small enough that nonces with
`r = 0`, an `x` above the order, equal and opposite points all exist, the digest 3916
with key 2 and nonce 1 makes a recoverer multiply infinity, and 3 windows of 4 bits give a
first, a middle and a last iteration.  Scalars are chosen at the ends of the range, and
two (3677, 3761) make an addition a doubling on one curve.  `bn_inverse` runs in words
of 4 bits, with four words a register, for two primes and some 230 inputs, among
them all near the prime and all powers of two.  A holder and a watcher make up to 3
steps with up to 3 retries.  `MaxTries` is 2 (10 000 in the code): a signature at the first nonce, at
the second, and none.

What TLC found on the way, and the properties therefore do not claim:

- Android, no failures at all: an overwriting `createAccount` races with the
  `getWallet` it started.  The application can end with a wallet whose mnemonic is
  not the one in Blockstore, so a restart brings another account back: two
  `storeBytes` tasks finish in the other order.  Hence `AgreementWhenIdle` is an
  iOS property.
- iOS, empty device: `createAccount(overwrite: true)` returns the address of one
  mnemonic while the wallet in use, and in the keychain, ends as the other one.
- Android: a deletion that overtakes the `storeBytes` task of a mnemonic is undone by it.
  The application believes that its account is gone, and a restart brings it back.  A
  `getWallet` under way when the deletion is requested saves or caches a wallet afterwards, on
  either platform.
  No property claims that a deletion is final.
- Android: saving a text that is no mnemonic ends the process, and the text stays in
  Blockstore; deriving a key of it answers twice.  `OneAnswerEach` says that nothing else
  does.
- Overlapping calls replace each other's mnemonics, so the store need not keep the mnemonic
  of the wallet in use.  `BackedEventually` says that each such mnemonic is in a store at
  some time, not that it stays there.
- A failed retrieve on Android (a failed keychain read on iOS) makes
  `getMnemonic` draw a new mnemonic and store it over the existing one.
  `StoredAccountIsFound` excludes these failures and names them.
- With overlapping GSN calls, worker and fees of one request can come from
  different server answers; `OneServerAnswer` holds for an application that awaits
  its calls.
- If the application changes its account during `claimRly`, the request names the
  old account as sender and is signed by the new one.  `NonceIsOfSigner` says what
  still holds; the forwarder refuses such a request.
- If it changes its account before `getBalance` has got its wallet, the balance that
  `claimRly` refuses on is the new account's, and a claim is posted for an old one
  that was dusted long before.  `DustedIsRefused` says that this is the only way;
  `AwaitedDustedCorrect` proves that an application that awaits its calls posts no
  such claim.

## 4. Findings

Each is a run that must fail, with the line it contradicts in `PROJECT.json`:
`createAccount` compares a `Future` with null (`lib/account.dart:26-30`);
a failed generation is stored as the mnemonic `"failure"`
(`ios/Classes/RlyNetworkMobileSdk.swift:42`); `handleGsnResponse` reads `res.data`
of an `http.Response` (`lib/gsnClient/gsnTxHelpers.dart:343`); and the dusting check
of `claimRly` is made several awaits before the claim is posted
(`lib/networks/evm_networks.dart:31`).

## 5. Fairness

`AndroidWallet` and `IosWallet`: the Dart isolate takes its replies and the main
thread takes its calls, because both are event loops that no handler of this
code blocks; Play Services ends every Blockstore task it took, with success or
failure, and its listener then runs, also one that will answer a second time.  Nothing obliges the application to call
anything, and nothing is assumed of `Restart`.  `GsnClient`: the isolate resumes
an answered await, and every HTTP or RPC call is answered or fails (the
platform's HTTP client ends a dead connection).  Nothing is assumed of the
chain: a request may stay in the pool for ever or be dropped.  Only weak
fairness is used.

## 6. Proofs

Checked by TLAPS for every value of the constants, from the assumptions
`ConstantsDistinct`, `AppCallsAssumption`, `TaskFailuresAssumption`,
`SystemFailuresAssumption`, `RestartsAssumption`, `WorkerAtAssumption`,
`GsnAssumption`, `NodeCacheAssumption`, `SeedCacheAssumption`, `InverseAssumption`,
`BlockAssumption`, `DigestAssumption`, `WordAssumption`, `StreamAssumption`,
`KeyedAssumption`, `MnemonicAssumption`, `Base58Assumption`, `CipherAssumption`, `CurveAssumption`, `PowersAssumption`, `ScalarAssumption`,
`EcdsaAssumption` and `HDNodeAssumption`, which are named in the modules and
evaluated by TLC on every run.  Three theorems also take `HashIsByte` as a hypothesis:
the first cell of a hash is a byte (`uint8_t`), for every sequence of bytes, of which
there are too many for TLC to go through.  The theorems about
signatures and nodes take as hypotheses what the multiplications and additions of
`ecdsa.c` compute.  `ProductsAreReduced(Nat)` and `SumsAreReduced` say that the partly
reduced results of `bignum.c` are one of the two representatives of what they stand
for; `PromiseKept` and `ImplementsField` check it of the limbs.  `CurvesAreGroups`
(`IsGroup` of each curve; `CurveIsGroup` for the nodes' one) says that multiples of the base
add and multiply as their numbers do modulo the order, that those of `k` and `-k` lie
opposite, that a key is read as the point it was written from, and that every key
that can be read is such a multiple.  Points are added there by `PointAdd`, and by the
textbook's sum `TextSum`; `Multiple` doubles and adds.  For secp256k1 this is mathematics and the claim that the affine formulas compute it.
That the loops of the code compute `Multiple` is no hypothesis but the theorem `WalkCorrect`.  TLC evaluates `SumsAreReduced` in full and the rest on
samples of the numbers (`MCGroup` in `MCCrypto`); on the two small curves
`TimesMirror`, `TimesAreRead` and `PointsAreTimes` have also been evaluated for every key
and every compressed form.  Of the curves themselves `CurveAssumption` asks that the order is
prime, no larger than the prime of the field and above two thirds of `2^NumberBits`, and that
`b` is not zero, and that the prime of the field is a prime: all of it holds of secp256k1, and the proofs need each.
`ScalarAssumption` bounds the points of a multiplication to multiples of the base, which all
points of a group of prime order are.  `PowersAssumption` says of powers of two what the
provers cannot calculate.

| Theorem | Says |
|---|---|
| `AndroidWallet_proofs!TypeCorrect`, `IosWallet_proofs!TypeCorrect`, `GsnClient_proofs!TypeCorrect` | `Spec => []TypeOK` |
| `...!CustodyCorrect`, `...!HandedOutCorrect` (both platforms) | `Spec => []HandedOutIsEntrusted` |
| `...!CustodyRefined` (both platforms) | `Spec => ImplementsCustody` |
| `...!OneAnswerCorrect` (both platforms) | `Spec => []OneAnswerEach`, on Android with the exception of texts that are no mnemonic |
| `...!StoredIsFound` (both platforms) | `NothingLost /\ Spec => StoredAccountIsFound` |
| `IosWallet_proofs!FailureCorrect` | `Spec => []FailureIsNoWallet` |
| `IosWallet_proofs!AgreementCorrect` | `WellBehaved /\ Spec => []AgreementWhenIdle` |
| `GsnClient_proofs!PostedOnceCorrect` | `Spec => []PostedOnce` |
| `GsnClient_proofs!ReadsCorrect` | `Spec => []ReadsInv` |
| `GsnClient_proofs!CountCorrect`, `...!NonceCorrect`, `...!DustedCorrect` | `Spec => []CountIsOfWorker`, `[]NonceIsOfSigner`, `[]DustedIsRefused` |
| `GsnClient_proofs!AwaitedDustedCorrect` | `AppAwaits => (Spec => []NoLateClaim)` |
| `GsnClient_proofs!OneAnswerCorrect` | `AppAwaits /\ Spec => []OneServerAnswer` |
| `Hash_proofs!DigestCorrect` | `HashSpec => []DigestIsOfMessage` |
| `Hash_proofs!KeyedInvCorrect`, `...!KeyedCorrect` | `KeyedSpec => []KeyedInv`, `KeyedSpec => []KeyedIsStandard` |
| `HDNode_proofs!CacheImplementsDerivation` | `NodeSpec => ImplementsDerivation` |
| `HDNode_proofs!EntriesBelowRootHolds`, `...!NodeTypeCorrect` | `NodeSpec => []EntriesBelowRoot`, `NodeSpec => []NodeTypeOK` |
| `HDNode_proofs!PublicChildCorrect`, `...!NodesCorrect` | `HDSpec => []PublicChildIsChild`, `HDSpec => []NodesAreSound`, if `CurveIsGroup` and `SumsAreReduced` |
| `HDNode_proofs!SignatureCorrect` | `EcdsaSpec => []OwnSignatureIsGood`, if `CurvesAreGroups` and `ProductsAreReduced(Nat)` |
| `HDNode_proofs!VerifierCorrect`, `...!RecoveryCorrect` | `EcdsaSpec => []AcceptedIsSignature`, `[]RecoveredIsSigner`, under the same |
| `HDNode_proofs!KeyReadCorrect` | `EcdsaSpec => []KeyReadIsPoint`, under the same |
| `HDNode_proofs!WalkCorrect` | `WalkSpec => []WalkIsMultiple`, under the same |
| `Mnemonics_proofs!MnemonicInvCorrect` | `HashIsByte /\ MnemonicSpec => []MnemonicInv` |
| `Mnemonics_proofs!StandardCorrect`, `...!CanonicalCorrect` | `HashIsByte /\ MnemonicSpec => []MnemonicIsStandard`, `[]ReadIsCanonical` |
| `Mnemonics_proofs!SeedIsOfRequestHolds`, `...!NoDuplicateSeedsHolds` | `SeedSpec => []SeedIsOfRequest`, `SeedSpec => []NoDuplicateSeeds` |
| `Mnemonics_proofs!EncodedCorrect`, `...!AcceptedCorrect` | `Base58Spec => []EncodedIsNumber`, `Base58Spec => []AcceptedIsCanonical` |
| `Mnemonics_proofs!StreamCorrect` | `CipherSpec => []StreamIsStandard` |
| `AlmostInverse_proofs!InverseInvariant`, `...!InverseCorrect` | `InverseSpec => []IInv`, `InverseSpec => []InverseIsInverse` of `AlmostInverse` |

Custody.  `HandedOutIsEntrusted` is not inductive: a wallet is adopted from a key
reply, so every place a mnemonic can come from must be covered.  `CustodyInv` adds
three claims.  `KeysAfterSaves`: each queued request for a key is of a phrase
already entrusted, or has the save of that phrase ahead of it in the same queue
(this is where the order of the channel and the order of the two calls in
`generateMnemonic` matter).  `AnswersEntrusted`: each queued reply, except a newly
drawn mnemonic, carries an entrusted phrase.  `AndroidCustody` or `IosCustody`:
so does everything the platform holds.  The lemmas about the Dart side are shared
(`AccountsUtil_proofs`); each platform adds one step per handler, task and
listener.  `FailureCorrect` adds `AnsweredKeysValid`: a key reply that is accepted
is of a valid mnemonic.  The refinement maps `cached` and `entrusted` to
themselves: a save is `Entrust`, `OnPrivateKey` is `Adopt`, a deletion or a
restart is `Forget`, and every other step stutters.

One answer each.  `Placed` follows a call from place to place: a frame that awaits
a method has exactly one entry for it in the queue of calls, in the platform's
hands or in the queue of results, and no entry is of a frame that does not await
it.  The lemmas on the queues are shared; Android adds what a Blockstore task and
its listener owe (`OwedByBlockstore`) and that a frame retrieves once, iOS owes
nothing between two handlers.  That Android answers twice only after a text that is no
mnemonic is `TwiceOfFailure`, which follows such a text from the save to its listener; for
key derivations it needs `CustodyInv`, that what is derived from was entrusted (`KeyOfEntrusted`).

A stored account is found.  Under `NothingLost` (nobody deletes and no read fails)
`FoundInv` says that the store keeps a mnemonic, that every answer to a read
carries one, wherever it is on its way, and so that no frame goes on to draw.
Failing saves and deaths of the process are covered.  The claim is about devices
that start with a mnemonic; on Android, one that gets its first mnemonic in the
run may still lose it to a death before the `storeBytes` task.

Agreement.  `WellBehaved` is an application that awaits its calls and asks for
`getWallet` or an overwriting `createAccount`, over a keychain that does not fail.
What is inductive is a statement about the future: `WillUse(p) => WillKeep(p)`, that
the last key under way, or else the cached wallet, is of the mnemonic of the last
save under way, or else of the keychain.  It needs that a read is the first of
the calls and never beside a save (`ReadsComeFirst`), that a save has a request for
a key behind it (`SavesAwaited`), and that until there is a wallet the activation
which `createAccount` forgets keeps the application waiting (`FirstCallWaits`).

Post once.  `PostedInv` says that between its estimate and its post an
activation owns its object: the object is marked estimated, is not posted yet,
has no other owner, and every posted object stays marked.  `OnGetAddr` is the
only step that makes an owner, and it needs an unmarked object.

`TypeCorrect` of the GSN client needs `AnsweredEpochs`, that an answer to
`getaddr` carries an epoch the server has been in, because the worker is looked
up with it.

Reads.  The counters of the chain only grow, so what was read stays a lower bound;
the difficulty is of which counter.  `ReadsInv` says for every await what its
answer, when there is one, was read from: the nonce is of the account the frame
took before the await, the count of the worker that `OnNonce` copied into the
activation and not of the shared configuration's, the balance of the account that
`getBalance` got.  A claim for an account that was dusted when it began is answered with
a positive balance, which ends it, if `getBalance` got the same account; `AwaitedWallet`
(the wallet is still the caller's while an awaiting application is inside `getWallet`)
says when it does.  `OneServerAnswer` adds, for an application that
awaits, that at most one activation is under way (`OneUnderWay`), so that worker and fees
are still of one epoch when they are read (`ConfigOfObject`).

Hashes.  `HashStrong` says that the compressed cells and the bytes in the buffer,
one behind the other, are the message, and that the counter words are its length,
in carries.  An update is cut as the code cuts it (what completes the buffer, the
whole blocks, the rest); the lemmas say what joining and cutting sequences does to
each cell and what remainders and quotients do when a piece is added.  `Final` has
two cases, for the padding fits or takes another block, and in both the
compressed cells are the padded message's.

HMAC and PBKDF2.  `KeyedStrong` says that the inner context has absorbed the key's
pad and the message so far and that the outer starts from the other pad; the
theorem on contexts is used at every digest, since a digest is short enough to
be hashed in one block.  `Iterated` and `Chain` are recursive functions, which the
provers take as their defining equations; induction over the number of iterations
is on the set of numbers for which the claim holds (`Induction`), since a theorem
with an operator parameter cannot be used.

Mnemonics.  `MnemonicInv` says that a text is the one its entropy makes for as long as
the entropy is kept, and that what was read is read from the text in hand.  What is left is
arithmetic: writing a number out in bits and taking it together again are inverse
(`BitsOfNumber`, `NumberOfBits`), and so are cutting bits into numbers and writing a row of
numbers out (`BitsOfGroup`, `GroupOfBits`), at any two widths.  A text then has the bits of
its bytes and checksum (`Made`), reading it cuts the same bits into the same bytes
(`ReadBack`), and a text of the right checksum has the bits of the text its data
makes, by which it is that text (`KnownByBits`, `OnlyMade`).  A blank at the end is refused
because the two passes count differently (`OnlyTexts`).  The proof holds for every width of
a byte for which three words hold four bytes and a bit, so for the code's 8 and 11.

Base58.  What is inductive is small (`SourceWritten`: the text in hand is what
`base58_encode_check` wrote for the source), the work is in the two loops.  Both multiply a
number by a radix in place, digit by digit from the last (`CarriesMove`, for any pair of
radices).  `PushByte` stops early; a turn it leaves out would have met no carry and, since
everything left of where the byte before went is zero, written the zero that is there
(`ByteTurnIs`).  The estimated room is enough because `256^n` is at most `58^DigitsFor(n)`
(`DigitsAreEnough`: eight more bytes need eleven more digits, `256^8 <= 58^11`, and the
estimate grows by eleven), so no carry leaves it.  In the other direction the limbs hold the number
of the digits read so far exactly as long as that number fits the buffer, and `ok` says so
(`DecodedStep`): a carry out of the first limb is less than 58, so the six bits that are kept
lose nothing, and a first limb with fewer bytes is compared with their power
(`FitsWhen`).  Overflow is not forgotten, as the number only grows.  The bytes cut out of the
limbs are the bytes of the number (`BytesOfLimbs`), and a number has one
representation with a given count of leading zeros (`SameNumeral`): by it the accepted
bytes encode to the text they were read from, and an encoded text gives its bytes
back.  The proof holds for every number of bytes in a limb, every hash that is a byte
and every length; the radices are the code's, 256 and 58.  `Base58Assumption` asks that
the caller's buffer for a text has room for the estimate of the longest source.

Streams.  `CipherStrong` says that the bytes written on each side are the first bytes of the
standard's stream, or of the plaintext, and that the context stands where they end
(`Stands`).  In ECB, CBC, CFB and OFB that is one context for a number of bytes: `pos` is
what remains of a block, and the IV is the feedback of the blocks before (`FedOf`), except in a begun block of
CFB, which holds ciphertext up to `pos` and key stream behind (`IvAt`, `Begun`).  A byte step
and a block step each go from the context for some bytes to that for more; the three
phases of a call follow each other because the first ends at a whole block or at the end of
the data (`PhasesCall`).  In CTR the context is not determined by the number of bytes: a block
used up by the end of a call leaves `pos` at its end with the counter not yet stepped, one
used up within a call has the next counter and `pos` zero (`CtrStands` allows both, and
`CtrCall` starts from either).  The carry that `aes_ctr_cbuf_inc` runs to the left is
addition of one to the number of the counter block, modulo its range: a
digit changes exactly when all digits behind it are full (`LowDigitsFull`).  Decryption undoes
encryption because XOR with the same byte twice does.  A call of ECB or CBC that is no
number of blocks leaves everything as it was.  The proof holds for every block size, every
radix of the counter and every cutting; that AES itself is undone by its decryption
is an assumption of the model (`Decrypt`).

Nodes.  `PublicChildIsChild` speaks of equal paths only, so it is not inductive: two
parties are on different paths most of the time.  `HDStrong` says how their nodes
came about.  Let r be the length of the path at which the holder published.  From
there on, `Linked` says, the holder's node at each length of its path is `PrivateCkd`
of the one before, the watcher's is `PublicCkd` of the one before, and at r the
watcher's is the half of the holder's.  A step of either one extends its own chain
of nodes and leaves the other's alone.  On equal paths each node of the watcher is
the half of the holder's at the same length, by induction on the length
(`LinkedHalf`), because one step keeps this (`ChildOfHalf`): both hash the same data, so
they see the same numbers; `left + private` is zero modulo the order exactly when
the point is infinity, so both call the same numbers good and stop at the same
one; and the point is the public key of the sum.  The rest of `HDStrong` is about the last
answer: a child of a point is a point (every point is a multiple of the base), a
text restores its node, shared keys agree because multiplication modulo the order
commutes, and an address is read for another version only if all bytes of the two
are equal (`SameVersion`).  HMAC is any function: no property of it is used.

Signatures.  The inductive invariant is `EcdsaInv`: what the signer holds is what its
call gives (`IsCall`), and a verdict is what the checker's function gives on what it was
handed (`IsVerified`, `WasRecovered`, `WasRead`, `WasWritten`).  The work is in the functions.
A signature is good for a nonce `k` when `r` is the `x` of `k` times the base modulo the
order and `s k = m + r d` there (`IsSigned`).  The signer's `s` is the quotient it
computes, because `bn_inverse` of the nonce gives an inverse; where `s` is too high, its opposite is a signature for the opposite nonce,
whose point has the same `x` and the other `y`, so the bit handed out for recovery is turned
with it.  The checker adds two multiples of the base, of numbers `m / s` and `r d / s`;
their sum is `k` exactly when `s k = m + r d`, by cancelling factors modulo a prime, and since
the field's prime is below twice the order, comparing `x` with `r` and with `r + order`
leaves nothing out.  Recovery reads the point from `r` and the two bits, which is a
multiple, and solves the same equation for `d`.  Its sum is infinite exactly when that `d` is
zero (`IsFound`), which is no key: so the signer's own byte never comes to it, and the
signature's nonce is then the digest divided by `s`.  Inverses modulo the order come from an
induction over the residues (a table of inverses, extended by the remainder of the order), so only
that it is prime is used.  The DER integers of a signature are two bytes or one, with a zero in
front where the first would be negative (`ByteRange`).  A key that is read passes the check
of the curve's equation; of one that is not, the two roots that a number can have show that
a point with its `x` would have been found, since that point is a multiple, and multiples are
read.

Multiples.  `point_jacobian_add` and `point_jacobian_double` calculate with numbers that are
partly reduced, and give a fraction without dividing.  `Alike` is equality modulo the prime,
and sums, differences and products keep it; a `Unit` is what has an inverse, and may be cancelled.
Let `l` be the slope of the line through two points, or of the tangent (`SlopeIs`), and `z`
the coordinate of the sum so far.  In both branches of the addition `r` is `l` on the scale
`u = h * z` (`ChordScale`, `TangentScale`), `x3` is the `x` of the third point on the scale
`u^2` and the half that is taken gives its `y` on `u^3` (`AddedPoint`); a halving loses nothing because
the prime is odd.  The test for a doubling is right because `h` is never zero before
`bn_fast_mod`, so a difference of none is left at the prime (`SameXIs`), and two multiples
with the same `x` are equal or opposite (`SameX`).  `AddIs` and `DoubleIs` conclude that the
results stand for the sum, with a new `z` that is no multiple of the prime, as long as the
sum is not infinity.  The inductive invariant is `WalkInv`.  Of `scalar_multiply` it says that
`jres` is, up to the sign that is still owed, the multiple for the lowest windows of the odd
scalar, each counted with an odd digit (`BasePart`); of `point_multiply` the same of the
highest windows (`SignedPart`), and that the table holds the odd multiples.  No addition
meets infinity or opposite points, because each part, each digit in its place and each of their
sums is not zero and lies strictly between minus the order and the order (`KeyOfIs`).  At the end the odd scalar is the scalar or differs from it
by the order (`FinishKeeps`).

Caches.  The node cache's inductive invariant is `EntriesBelowRoot` with its type:
an entry lies at its child numbers below the root.  A hit then derives the last
step from the parent (`LeadingSteps`: equal leading child numbers are the parent's
path), a miss derives the parent first, and both are the whole path
(`DeriveFromParent`, from associativity of concatenation); the refinement maps the
caller's node and the child numbers asked for to themselves.  `SeedIsOfRequest` needs `EntriesHoldTheirSeed`, and
`NoDuplicateSeeds` that an entry is only written after no entry matched.

Modular inverse.  That the answer is an inverse is not inductive: `IInv` says that
`u * s + v * r` is the prime (so the numbers stay below it, and none of `u` and `v` is
zero), and that `x * s` and `-x * r` are `v` and `u` times `pow` modulo the prime.  When
`u = v` both divide the prime and are therefore one, since it is prime and `x` is smaller;
`Divide` then takes the factors of `pow` out of the residue, which may be cancelled
because they have inverses (`Cancelled`).  `InverseAssumption` asks for primes and for
factors that are invertible modulo them, which powers of two are.  The proof holds for
every prime, every input and every grouping of the shifts; `ImplementsAlmostInverse`
ties it to the registers on the checked instance.

Only model-checked:

- everything that needs fairness (`CallsSettle`, `BackedEventually`,
  `RelaysSettle`): the prover has no rule for it that its backends can use;
- `PromiseKept` and `ImplementsField`: what long chains of folds over limbs compute.  For
  base58 and the modes of AES the like was proved by an induction for each loop; the
  registers of `bignum.c` have a dozen loops, several with wrapped negative
  numbers;
- `ImplementsAlmostInverse`: the same, for words in a register.

## 7. Not modelled

- The compression functions, the AES rounds and key schedule: arithmetic without
  control, free functions in the models.  No code of the plugin calls `aes*.c` or
  the cached derivation; they are modelled as the library offers them.
- `rand.c`, and the stream of RFC 6979 in `ecdsa.c`: nonces and blinding coordinates
  are any numbers of the constants, which is more than the code can draw.
- The tables of `secp256k1.c` and of the word list: the model computes the one and
  numbers the other.
- The loop of `bn_inverse` for zero, which a comment excludes: `Recover` says what becomes of
  the call; paths of more than
  `BIP32_CACHE_MAXDEPTH + 1` steps, which the caller of the cached derivation must
  not pass; a base58 text with more leading ones than the buffer holds, for which
  `b58tobin` reports a size beyond it (`HasRoom`).
- Amounts and typed data: balances, fees, gas, calldata cost, deadlines, EIP-712.  They
  are stateless functions, and several are wrong on plain inputs: `parseUnits` with more
  fraction digits than decimals, `formatUnits` with other decimals than 9,
  `hexZeroPad` of a chain id above 255, a cost that counts hexadecimal characters, a
  deadline in milliseconds.  The hazards list names their lines; `GsnClient` takes what they
  return as values it does not look into.
- `simpleTransfer` and `ethereum_utils.dart` (one call of web3dart each), `setApiKey`
  (a header field that nothing else reads).
- `EncryptedSharedPreferencesHelper.kt` (unused), constant tables, the example
  application, platform version plumbing, printing of numbers.
- The `saveToCloud` and `rejectOnCloudSaveFailure` flags: Dart passes constants, and
  Android overwrites the variable they would be combined with.

## 8. Plan

1. A theorem on the bounds of the limbs (`PromiseKept`).
2. The stream of RFC 6979 over `KeyedHash`, which would complete `Ecdsa`.

Done in the order of importance: the wallet (both platforms, composed with the
channel), the GSN client, the stateful parts and the codecs of the crypto library, its
arithmetic up to wallets' nodes, and the theorems of section 6.
