---------------------------- MODULE MCChainState ----------------------------
(***************************************************************************)
(* A tree of six blocks for ChainState:                                    *)
(*                                                                         *)
(*                     g -- a1 -- a2                                       *)
(*                      \                                                  *)
(*                       b1 -- b2 -- b3                                    *)
(***************************************************************************)
EXTENDS ChainState, TLC

CONSTANTS g, a1, a2, b1, b2, b3

MCParent == (a1 :> g) @@ (a2 :> a1) @@ (b1 :> g) @@ (b2 :> b1) @@ (b3 :> b2)
MCBlock == {g, a1, a2, b1, b2, b3}
MCHeight == (g :> 0) @@ (a1 :> 1) @@ (a2 :> 2) @@ (b1 :> 1) @@ (b2 :> 2) @@ (b3 :> 3)
MCAddr == (g :> 0) @@ (a1 :> 1) @@ (b1 :> 2) @@ (b2 :> 3) @@ (a2 :> 4) @@ (b3 :> 5)
MCChain == (g :> {g}) @@ (a1 :> {g, a1}) @@ (a2 :> {g, a1, a2}) @@ (b1 :> {g, b1})
             @@ (b2 :> {g, b1, b2}) @@ (b3 :> {g, b1, b2, b3})

Threads == Permutations(Thread)
=============================================================================
