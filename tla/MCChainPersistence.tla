------------------------- MODULE MCChainPersistence -------------------------
(***************************************************************************)
(* A tree with two branches for ChainPersistence, with addresses that put  *)
(* a2 before its parent:                                                   *)
(*                                                                         *)
(*                     g -- a1 -- a2                                       *)
(*                      \                                                  *)
(*                       b1                                                *)
(***************************************************************************)
EXTENDS ChainPersistence, TLC

CONSTANTS g, a1, a2, b1

MCBlock == {g, a1, a2, b1}
MCParent == (a1 :> g) @@ (a2 :> a1) @@ (b1 :> g)
MCHeight == (g :> 0) @@ (a1 :> 1) @@ (a2 :> 2) @@ (b1 :> 1)
MCAddr == (g :> 0) @@ (a2 :> 1) @@ (a1 :> 2) @@ (b1 :> 3)
MCChain == (g :> {g}) @@ (a1 :> {g, a1}) @@ (a2 :> {g, a1, a2}) @@ (b1 :> {g, b1})
=============================================================================
