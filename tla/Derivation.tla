----------------------------- MODULE Derivation -----------------------------
(***************************************************************************)
(* What ios/Classes/bip32.c promises about private derivation: a caller's  *)
(* HDNode, and the node that BIP-32 defines for every path below it.       *)
(* Derivation is free: a node is the seed and the child numbers it came    *)
(* from; depth, child_num, chain code and private key follow from them.    *)
(***************************************************************************)
EXTENDS Integers, Sequences

CONSTANTS
    Seeds,      \* seeds of master nodes
    Children,   \* child numbers, hardened or not
    NoNode,     \* memory that hdnode_from_seed has not filled yet
    MaxPath     \* bound: the length of a path

VARIABLES
    node,       \* the caller's HDNode
    steps       \* the child numbers that the last call was given

Node == [seed : Seeds, path : Seq(Children), public : BOOLEAN]

(* public says that public_key is filled; private derivation clears it.    *)
Master(s) == [seed |-> s, path |-> << >>, public |-> FALSE]
Derive(n, p) ==
    [seed |-> n.seed, path |-> n.path \o p, public |-> p = << >> /\ n.public]

Paths == UNION {[1 .. n -> Children] : n \in 0 .. MaxPath}

Init == node = NoNode /\ steps = << >>

FromSeed == steps' = << >> /\ \E s \in Seeds : node' = Master(s)

(* hdnode_fingerprint, hdnode_get_address                                  *)
FillPublicKey ==
    /\ node # NoNode
    /\ node' = [node EXCEPT !.public = TRUE]
    /\ steps' = << >>

DerivePath ==
    /\ node # NoNode
    /\ steps' \in Paths
    /\ node' = Derive(node, steps')

Next == FromSeed \/ FillPublicKey \/ DerivePath

Spec == Init /\ [][Next]_<<node, steps>>
==============================================================================
