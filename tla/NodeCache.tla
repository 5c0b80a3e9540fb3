------------------------------ MODULE NodeCache ------------------------------
(***************************************************************************)
(* hdnode_private_ckd_cached of ios/Classes/bip32.c: the parents derived   *)
(* below the last root, in a ring of entries.  get_curve_by_name knows     *)
(* secp256k1 only, and on that curve a derivation does not fail.           *)
(***************************************************************************)
EXTENDS Integers, Sequences

CONSTANTS
    Seeds, Children, NoNode, MaxPath,    \* as in Derivation
    CacheSize,     \* BIP32_CACHE_SIZE
    MaxDepth       \* BIP32_CACHE_MAXDEPTH

VARIABLES
    node,          \* the caller's HDNode
    steps,         \* the child numbers that the last call was given
    cacheRoot,     \* private_ckd_cache_root, NoNode while it is not set
    cache,         \* private_ckd_cache
    cacheIndex     \* private_ckd_cache_index

nodeVars == <<node, steps, cacheRoot, cache, cacheIndex>>

D == INSTANCE Derivation WITH node <- node, steps <- steps

(* The child number that a zeroed entry holds.                             *)
CONSTANT ZeroChild

ASSUME NodeCacheAssumption ==
    /\ CacheSize \in Nat \ {0}
    /\ MaxDepth \in Nat
    /\ ZeroChild \in Children
    /\ MaxPath \in Nat
    /\ NoNode \notin [seed : Seeds, path : Seq(Children), public : BOOLEAN]

Slots == 0 .. (CacheSize - 1)
EmptyEntry ==
    [set |-> FALSE, depth |-> 0, i |-> [k \in 1 .. MaxDepth |-> ZeroChild], node |-> NoNode]

NodeInit ==
    /\ node = NoNode
    /\ steps = << >>
    /\ cacheRoot = NoNode
    /\ cache = [j \in Slots |-> EmptyEntry]
    /\ cacheIndex = 0

(* An absent node stands for memory that hdnode_from_seed has not filled.  *)
HdnodeFromSeed(s) ==
    /\ node' = D!Master(s)
    /\ steps' = << >>
    /\ UNCHANGED <<cacheRoot, cache, cacheIndex>>

HdnodeFillPublicKey ==
    /\ node # NoNode
    /\ node' = [node EXCEPT !.public = TRUE]
    /\ steps' = << >>
    /\ UNCHANGED <<cacheRoot, cache, cacheIndex>>

HdnodePrivateCkd(c) ==
    /\ node # NoNode
    /\ Len(node.path) < MaxPath
    /\ node' = D!Derive(node, <<c>>)
    /\ steps' = <<c>>
    /\ UNCHANGED <<cacheRoot, cache, cacheIndex>>

\* Mutant: an entry of another depth with the same leading child numbers.
HoldsPrefix(entry, path) ==
    /\ entry.set
    /\ \A k \in 1 .. (Len(path) - 1) : entry.i[k] = path[k]

(* The entry that holds the parent: same depth, same leading child numbers.*)
Holds(entry, path) ==
    /\ entry.set
    /\ entry.depth = Len(path) - 1
    /\ \A k \in 1 .. (Len(path) - 1) : entry.i[k] = path[k]

Parent(path) == SubSeq(path, 1, Len(path) - 1)
LastStep(path) == <<path[Len(path)]>>

(* Paths of none or one step do not touch the cache.                       *)
CkdShort(path) ==
    /\ node # NoNode
    /\ Len(path) < 2
    /\ node' = D!Derive(node, path)
    /\ UNCHANGED <<cacheRoot, cache, cacheIndex>>

CkdHit(path) ==
    /\ node # NoNode
    /\ Len(path) >= 2
    /\ cacheRoot = node
    /\ \E j \in Slots :
        /\ Holds(cache[j], path)
        /\ \A h \in 0 .. (j - 1) : ~Holds(cache[h], path)
        /\ node' = D!Derive(cache[j].node, LastStep(path))
    /\ UNCHANGED <<cacheRoot, cache, cacheIndex>>

(* Another root clears the cache.                                          *)
Kept == IF cacheRoot = node THEN cache ELSE [j \in Slots |-> EmptyEntry]

NextSlot(at) == (at + 1) % CacheSize

(* The parent is derived step by step and saved.                           *)
CkdMiss(path) ==
    /\ node # NoNode
    /\ Len(path) \in 2 .. (MaxDepth + 1)
    /\ cacheRoot = node => \A j \in Slots : ~Holds(cache[j], path)
    /\ LET at == IF cacheRoot = node THEN cacheIndex ELSE 0
           parent == D!Derive(node, Parent(path))
           entry == [set |-> TRUE, depth |-> Len(path) - 1,
                     i |-> [k \in 1 .. MaxDepth |->
                               IF k < Len(path) THEN path[k] ELSE ZeroChild],
                     node |-> parent]
       IN  /\ cache' = [Kept EXCEPT ![at] = entry]
           /\ cacheIndex' = NextSlot(at)
           /\ node' = D!Derive(parent, LastStep(path))
    /\ cacheRoot' = node

(* The caller keeps its paths within BIP32_CACHE_MAXDEPTH + 1: the entry   *)
(* has no room for more, and the code does not look.                       *)
HdnodePrivateCkdCached(path) ==
    /\ node # NoNode => Len(node.path) + Len(path) <= MaxPath
    /\ Len(path) <= MaxDepth + 1
    /\ steps' = path
    /\ CkdShort(path) \/ CkdHit(path) \/ CkdMiss(path)

NodeNext ==
    \/ \E s \in Seeds : HdnodeFromSeed(s)
    \/ HdnodeFillPublicKey
    \/ \E c \in Children : HdnodePrivateCkd(c)
    \/ \E path \in D!Paths : HdnodePrivateCkdCached(path)

NodeSpec == NodeInit /\ [][NodeNext]_nodeVars

-----------------------------------------------------------------------------
Node == D!Node

NodeTypeOK ==
    /\ node \in Node \cup {NoNode}
    /\ steps \in D!Paths
    /\ cacheRoot \in Node \cup {NoNode}
    /\ cacheIndex \in Slots
    /\ cache \in [Slots -> [set : BOOLEAN, depth : 0 .. MaxDepth,
                            i : [1 .. MaxDepth -> Children],
                            node : Node \cup {NoNode}]]

(* Every entry in use is the node that lies at its child numbers below the *)
(* root the cache is for: what the memcmp of the whole root and the        *)
(* clearing of the cache are for.                                          *)
EntriesBelowRoot ==
    \A j \in Slots : cache[j].set =>
        /\ cacheRoot # NoNode
        /\ cache[j].depth > 0
        /\ cache[j].node =
            D!Derive(cacheRoot, SubSeq(cache[j].i, 1, cache[j].depth))

(* A cached derivation gives the node that deriving step by step would     *)
(* give, whatever was derived before, below whatever roots, and whichever  *)
(* entries were replaced.                                                  *)
ImplementsDerivation == D!Spec
==============================================================================
