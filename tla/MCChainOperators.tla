-------------------------- MODULE MCChainOperators --------------------------
(***************************************************************************)
(* A tree for ChainState in which the block that an operator works on has  *)
(* two branches above it:                                                  *)
(*                                                                         *)
(*                     g -- a1 -- a2                                       *)
(*                      \     \                                            *)
(*                       b1    c2                                          *)
(***************************************************************************)
EXTENDS ChainState, TLC

CONSTANTS g, a1, a2, b1, c2

MCBlock == {g, a1, a2, b1, c2}
MCParent == (a1 :> g) @@ (a2 :> a1) @@ (b1 :> g) @@ (c2 :> a1)
MCHeight == (g :> 0) @@ (a1 :> 1) @@ (a2 :> 2) @@ (b1 :> 1) @@ (c2 :> 2)
MCAddr == (g :> 0) @@ (a1 :> 1) @@ (b1 :> 2) @@ (c2 :> 3) @@ (a2 :> 4)
MCChain == (g :> {g}) @@ (a1 :> {g, a1}) @@ (a2 :> {g, a1, a2}) @@ (b1 :> {g, b1})
             @@ (c2 :> {g, a1, c2})

Threads == Permutations(Thread)
=============================================================================
