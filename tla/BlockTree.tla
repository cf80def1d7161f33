----------------------------- MODULE BlockTree -----------------------------
(***************************************************************************)
(* The tree of block headers that a node can come to know: the fields of a *)
(* CBlockIndex that never change once AddToBlockIndex has filled them in.  *)
(***************************************************************************)
EXTENDS Integers

CONSTANTS
    Block,      \* blocks
    Genesis,    \* the genesis block
    Parent,     \* Parent[b]: pprev
    Chain,      \* Chain[b]: b and its ancestors, what GetAncestor walks over
    Height,     \* Height[b]: nHeight
    ChainWork,  \* ChainWork[b]: nChainWork
    Addr,       \* Addr[b]: the address of the CBlockIndex, the last tie breaker
    NoBlock     \* NULL

ASSUME BlockTreeAssumption ==
    /\ Genesis \in Block /\ NoBlock \notin Block
    /\ Parent \in [Block \ {Genesis} -> Block]
    /\ Chain \in [Block -> SUBSET Block]
    /\ Height \in [Block -> Nat] /\ ChainWork \in [Block -> Nat] /\ Addr \in [Block -> Nat]
    /\ Chain[Genesis] = {Genesis} /\ Height[Genesis] = 0
    /\ \A b \in Block \ {Genesis} :
           /\ Chain[b] = {b} \cup Chain[Parent[b]]
           /\ b \notin Chain[Parent[b]]
           /\ Height[b] = Height[Parent[b]] + 1
           /\ ChainWork[b] > ChainWork[Parent[b]]
    /\ \A a, b \in Block : a \in Chain[b] => Chain[a] \subseteq Chain[b]
    /\ \A a, b \in Block : Addr[a] = Addr[b] => a = b

\* The block of the set that all the others are ancestors of (the set is part of
\* one chain and not empty).
Highest(S) == CHOOSE b \in S : S \subseteq Chain[b]

\* CChain::FindFork of block b, with the active chain that ends in "tip".
FindFork(tip, b) == Highest(Chain[tip] \cap Chain[b])
=============================================================================
