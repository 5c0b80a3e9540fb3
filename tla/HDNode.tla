------------------------------- MODULE HDNode --------------------------------
(***************************************************************************)
(* The nodes of ios/Classes/bip32.c that two parties keep: a holder who    *)
(* has the private key of a wallet, and a watcher who got the public half  *)
(* of a node and derives public children of it.  bip32.c knows one curve.  *)
(***************************************************************************)
EXTENDS Ecdsa, FiniteSetsExt

CONSTANTS
    Hmac512(_, _),   \* hmac_sha512: a record [left, right]
    WalletSeeds,     \* bound: seeds, other than keys and data
    XprvKeys,        \* bound: what hdnode_from_xprv is given
    HardenedFrom,    \* 0x80000000: child numbers from here on are hardened
    ChildNumbers,    \* bound: the child numbers that are derived
    DepthRange,      \* 256: a written depth is a byte
    MaxRetries,      \* bound: how often a derivation that ends tries again
    MaxSteps,        \* bound: derivations that lead to a node
    Versions         \* bound: versions of addresses

(* A uint32_t, by its highest byte.                                        *)
IsUint32(version) == version \div 16777216 <= 255

ASSUME HDNodeAssumption ==
    /\ \E c \in Curves : c.a = 0
    /\ \A c \in Curves : c.order \in Nat \ {0}
    /\ {HardenedFrom, MaxRetries, MaxSteps} \subseteq Nat /\ DepthRange \in Nat \ {0}
    /\ {XprvKeys, ChildNumbers, Coordinates, Versions} \subseteq SUBSET Nat
    /\ \A version \in Versions : IsUint32(version)

VARIABLES
    holder,          \* the node with the private key, or NoHDNode
    watcher,         \* the node without, or NoHDNode
    derived,         \* the child numbers that lead to each one's node
    answer           \* of the last call that is no derivation

hdVars == <<holder, watcher, derived, answer>>

Secp256k1 == CHOOSE c \in Curves : c.a = 0
ORDER == Secp256k1.order

NoKey == [form |-> 0, x |-> 0, y |-> 0]
NoHDNode == [depth |-> -1]
NoAnswer == [kind |-> "none"]
NothingDerived == [by \in {"holder", "watcher"} |-> << >>]

HDInit ==
    /\ holder = NoHDNode /\ watcher = NoHDNode
    /\ derived = NothingDerived
    /\ answer = NoAnswer

-----------------------------------------------------------------------------
(* A number that is no key is replaced by one that is made from what came  *)
(* with it.  The loops have no end of their own: a call is modelled when a *)
(* number does within MaxRetries.                                          *)
Tries == 0 .. MaxRetries
KeyInRange(k) == k \in 1 .. (ORDER - 1)

(* hdnode_from_seed: the whole of I is hashed again.                       *)
SeedHalves(seed) ==
    LET I[n \in Tries] == Hmac512("Bitcoin seed", IF n = 0 THEN seed ELSE I[n - 1]) IN I
SeedTries(seed) == {n \in Tries : KeyInRange(SeedHalves(seed)[n].left)}

NodeFromSeed(seed) ==
    LET I == SeedHalves(seed)[Min(SeedTries(seed))]
    IN  [depth |-> 0, child |-> 0, chain |-> I.right, private |-> I.left, public |-> NoKey]

NodeFromXpub(depth, child, chain, public) ==
    [depth |-> depth, child |-> child, chain |-> chain, private |-> 0, public |-> public]
NodeFromXprv(depth, child, chain, private) ==
    [depth |-> depth, child |-> child, chain |-> chain, private |-> private, public |-> NoKey]

(* hdnode_fill_public_key                                                  *)
Filled(node) ==
    IF node.public.form # 0 THEN node
    ELSE [node EXCEPT !.public = PublicKey33(Secp256k1, node.private)]

Hardened(i) == i >= HardenedFrom

RetryData(data, h) == [data EXCEPT !.lead = 1, !.body = h.right]

(* I, for a child: what is tried at first and then.                        *)
ChildHalves(chain, data) ==
    LET I[n \in Tries] == Hmac512(chain, IF n = 0 THEN data ELSE RetryData(data, I[n - 1])) IN I

PrivateChild(node, left) == Reduced(AddMod(left, node.private, ORDER), ORDER)

(* A soft child fills in the public key of its parent.                     *)
PrivateHalves(node, i) ==
    LET from == IF Hardened(i) THEN node ELSE Filled(node)
    IN  ChildHalves(node.chain,
            IF Hardened(i) THEN [lead |-> 0, body |-> node.private, i |-> i]
            ELSE [lead |-> from.public.form, body |-> from.public.x, i |-> i])

PrivateTries(node, i) ==
    {n \in Tries : LET left == PrivateHalves(node, i)[n].left
                   IN  left \in 0 .. (ORDER - 1) /\ PrivateChild(node, left) # 0}

(* hdnode_private_ckd                                                      *)
PrivateCkd(node, i) ==
    LET I == PrivateHalves(node, i)[Min(PrivateTries(node, i))]
    IN  [depth |-> node.depth + 1, child |-> i, chain |-> I.right,
         private |-> PrivateChild(node, I.left), public |-> NoKey]

PublicChild(p, left) == PointAdd(Secp256k1, p, Multiple(Secp256k1, left, Secp256k1.base))

\* Mutant: infinity is derived for a child.
GoodChildAny(p, left) == left \in 0 .. (ORDER - 1)
GoodChild(p, left) == left \in 0 .. (ORDER - 1) /\ PublicChild(p, left) # Infinity

(* The loop of hdnode_public_ckd, and of                                   *)
(* hdnode_public_ckd_address_optimized, below the point p.                 *)
PublicHalves(public, chain, i) ==
    ChildHalves(chain, [lead |-> public.form, body |-> public.x, i |-> i])
PublicTries(p, public, chain, i) ==
    {n \in Tries : GoodChild(p, PublicHalves(public, chain, i)[n].left)}

PublicStep(p, public, chain, i) ==
    LET I == PublicHalves(public, chain, i)[Min(PublicTries(p, public, chain, i))]
        b == PublicChild(p, I.left)
    IN  [public |-> [form |-> 2 + (b.y % 2), x |-> b.x, y |-> 0], chain |-> I.right]

(* hdnode_public_ckd: the private key is wiped before the key is read.     *)
ParentPoint(node) == ReadPubkey(Secp256k1, node.public)

PublicCkd(node, i) ==
    LET wiped == [node EXCEPT !.private = 0]
        a == ParentPoint(node)
        step == PublicStep(a, node.public, node.chain, i)
    IN  IF Hardened(i) THEN [ok |-> FALSE, node |-> node]
        ELSE IF a = Infinity THEN [ok |-> FALSE, node |-> wiped]
        ELSE [ok |-> TRUE,
              node |-> [wiped EXCEPT !.depth = @ + 1, !.child = i, !.chain = step.chain,
                                     !.public = step.public]]

-----------------------------------------------------------------------------
(* hdnode_serialize: what goes into 78 bytes and through base58.           *)
Serialize(node, fingerprint, version) ==
    [version |-> version, depth |-> node.depth % DepthRange, fingerprint |-> fingerprint,
     child |-> node.child, chain |-> node.chain,
     lead |-> IF version = "xpub" THEN node.public.form ELSE 0,
     body |-> IF version = "xpub" THEN node.public.x ELSE node.private]

(* hdnode_deserialize; whether the keys are keys is not checked.           *)
Deserialize(str) ==
    LET node == [depth |-> str.depth, child |-> str.child, chain |-> str.chain,
                 private |-> IF str.version = "xprv" THEN str.body ELSE 0,
                 public |-> IF str.version = "xprv" THEN NoKey
                            ELSE [form |-> str.lead, x |-> str.body, y |-> 0]]
    IN  IF str.version \notin {"xpub", "xprv"} THEN [code |-> -3, node |-> NoHDNode]
        ELSE IF str.version = "xprv" /\ str.lead # 0 THEN [code |-> -2, node |-> NoHDNode]
        ELSE [code |-> 0, node |-> node]

(* hdnode_get_shared_key: Infinity for an error.                           *)
SharedKey(private, peer) ==
    LET point == ReadPubkey(Secp256k1, peer)
    IN  IF point = Infinity THEN Infinity ELSE Multiple(Secp256k1, private, point)

-----------------------------------------------------------------------------
Byte(version, n) == (version \div <<1, 256, 65536, 16777216>>[n + 1]) % 256
PrefixLength(version) ==
    IF version <= 255 THEN 1 ELSE IF version <= 65535 THEN 2
    ELSE IF version <= 16777215 THEN 3 ELSE 4

(* ecdsa_get_address, ecdsa_get_wif: the bytes that go into base58, the    *)
(* hash of the key or the key itself being one item.                       *)
Prefixed(version, payload) ==
    [n \in 1 .. PrefixLength(version) |-> Byte(version, PrefixLength(version) - n)] \o payload
Address(public, version) == Prefixed(version, <<public>>)
Wif(private, version) == Prefixed(version, <<private, 1>>)

\* Mutant: the last byte of a long prefix is not compared.
AddressDecodeLoose(raw, version) ==
    /\ Len(raw) = PrefixLength(version) + 1
    /\ raw[1] = Byte(version, PrefixLength(version) - 1)

(* ecdsa_address_decode                                                    *)
AddressDecode(raw, version) ==
    /\ Len(raw) = PrefixLength(version) + 1
    /\ \A n \in 1 .. PrefixLength(version) : raw[n] = Byte(version, PrefixLength(version) - n)

-----------------------------------------------------------------------------
HasHolder == holder # NoHDNode
HasWatcher == watcher # NoHDNode

HoldSeed(seed) ==
    /\ ~HasHolder /\ ~HasWatcher
    /\ SeedTries(seed) # {}
    /\ holder' = NodeFromSeed(seed)
    /\ answer' = NoAnswer
    /\ UNCHANGED <<watcher, derived>>

HoldXprv(chain, k) ==
    /\ ~HasHolder /\ ~HasWatcher
    /\ holder' = IF KeyInRange(k) THEN NodeFromXprv(DepthRange - 1, 0, chain, k) ELSE NoHDNode
    /\ answer' = NoAnswer
    /\ UNCHANGED <<watcher, derived>>

(* A key from outside: its form is all that hdnode_from_xpub looks at.     *)
WatchXpub(chain, key) ==
    /\ ~HasHolder /\ ~HasWatcher
    /\ watcher' = IF key.form \in {2, 3} THEN NodeFromXpub(1, 0, chain, key) ELSE NoHDNode
    /\ answer' = NoAnswer
    /\ UNCHANGED <<holder, derived>>

(* The holder's node, without its private key, as a text to the watcher.   *)
Publish ==
    /\ HasHolder /\ ~HasWatcher
    /\ holder' = Filled(holder)
    /\ watcher' = Deserialize(Serialize(holder', 0, "xpub")).node
    /\ derived' = [derived EXCEPT !["watcher"] = derived["holder"]]
    /\ answer' = NoAnswer

HolderCkd(i) ==
    /\ HasHolder /\ Len(derived["holder"]) < MaxSteps
    /\ PrivateTries(holder, i) # {}
    /\ holder' = PrivateCkd(holder, i)
    /\ derived' = [derived EXCEPT !["holder"] = Append(@, i)]
    /\ answer' = NoAnswer
    /\ UNCHANGED watcher

WatcherCkd(i) ==
    /\ HasWatcher /\ Len(derived["watcher"]) < MaxSteps
    /\ ~Hardened(i) /\ ParentPoint(watcher) # Infinity =>
            PublicTries(ParentPoint(watcher), watcher.public, watcher.chain, i) # {}
    /\ LET called == PublicCkd(watcher, i)
       IN  /\ watcher' = called.node
           /\ derived' = [derived EXCEPT !["watcher"] = IF called.ok THEN Append(@, i) ELSE @]
           /\ answer' = [kind |-> "child", ok |-> called.ok, i |-> i, parent |-> watcher]
    /\ UNCHANGED holder

(* The holder's node as a text that may come back with another version or  *)
(* another lead byte.                                                      *)
Restore(version, lead) ==
    LET str == Serialize(holder, 0, "xprv")
        read == Deserialize([str EXCEPT !.version = version, !.lead = lead])
    IN  /\ HasHolder /\ answer = NoAnswer
        /\ version = "xpub" => lead \in {2, 3}
        /\ answer' = [kind |-> "restored", code |-> read.code, node |-> read.node]
        /\ UNCHANGED <<holder, watcher, derived>>

(* The holder and somebody with a key of his own.                          *)
Agree(peer) ==
    /\ HasHolder /\ answer = NoAnswer
    /\ LET own == Filled(holder).public
       IN  answer' = [kind |-> "shared",
                      ours |-> SharedKey(holder.private, PublicKey65(Secp256k1, peer)),
                      theirs |-> SharedKey(peer, own)]
    /\ UNCHANGED <<holder, watcher, derived>>

(* hdnode_get_address, read again for a version.                           *)
GetAddress(version, expected) ==
    /\ HasHolder /\ answer = NoAnswer
    /\ holder' = Filled(holder)
    /\ LET raw == Address(holder'.public, version)
       IN  answer' = [kind |-> "address", raw |-> raw, version |-> version, expected |-> expected,
                      wif |-> Wif(holder.private, version),
                      decoded |-> AddressDecode(raw, expected)]
    /\ UNCHANGED <<watcher, derived>>

HDNext ==
    \/ \E seed \in WalletSeeds : HoldSeed(seed)
    \/ \E k \in XprvKeys : HoldXprv(7, k)
    \/ \E form \in {2, 3, 4}, x \in Coordinates : WatchXpub(7, [form |-> form, x |-> x, y |-> 0])
    \/ Publish
    \/ \E i \in ChildNumbers : HolderCkd(i) \/ WatcherCkd(i)
    \/ \E version \in {"xprv", "xpub", "zpub"}, lead \in 0 .. 3 : Restore(version, lead)
    \/ \E peer \in Keys : Agree(peer)
    \/ \E version, expected \in Versions : GetAddress(version, expected)
    \/ UNCHANGED hdVars

HDSpec == HDInit /\ [][HDNext]_hdVars

-----------------------------------------------------------------------------
(* A watcher who derives the same children as the holder has the public    *)
(* keys and the chain codes of the holder's nodes, whatever numbers have   *)
(* to be tried again on the way; and a key that is no point never gets a   *)
(* child, while that of a point gets one that is a point again.            *)
PublicChildIsChild ==
    /\ HasHolder /\ HasWatcher /\ derived["holder"] = derived["watcher"] =>
        /\ watcher.public = PublicKey33(Secp256k1, holder.private)
        /\ watcher.chain = holder.chain /\ watcher.child = holder.child
        /\ (watcher.depth - holder.depth) % DepthRange = 0
    /\ answer.kind = "child" =>
        LET isPoint(node) == ParentPoint(node) # Infinity
        IN  /\ answer.ok <=> ~Hardened(answer.i) /\ isPoint(answer.parent)
            /\ answer.ok => isPoint(watcher)

(* The holder always has a key of the curve, and a public key that is its  *)
(* own or not filled in; the watcher never learns a private key; a text    *)
(* gives back the node it was made of, its depth cut to a byte; two who    *)
(* agree on a key agree; an address is read for its own version only.      *)
NodesAreSound ==
    /\ HasHolder => KeyInRange(holder.private)
                /\ holder.public \in {NoKey, PublicKey33(Secp256k1, holder.private)}
    /\ HasWatcher => watcher.private = 0
    /\ answer.kind = "restored" /\ answer.code = 0 /\ answer.node.private # 0 =>
        answer.node = [holder EXCEPT !.depth = @ % DepthRange, !.public = NoKey]
    /\ answer.kind = "shared" => answer.ours = answer.theirs /\ answer.ours # Infinity
    /\ answer.kind = "address" => (answer.decoded <=> answer.version = answer.expected)

-----------------------------------------------------------------------------
(* The hypotheses of the theorems about nodes.                             *)
G(k) == Multiple(Secp256k1, k, Secp256k1.base)
Residues == 0 .. (ORDER - 1)
PrivateKeys == 1 .. (ORDER - 1)
Compressed == [form : {2, 3}, x : Nat, y : {0}]
CurveIsGroup == IsGroup(Secp256k1)

(* bn_addmod gives one of the two partly reduced numbers.                  *)
SumsAreReduced ==
    \A x \in 0 .. (2 * ORDER) : PartlyReduced(x, ORDER) \in Representatives(x, ORDER)
==============================================================================
