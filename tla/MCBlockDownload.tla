--------------------------- MODULE MCBlockDownload ---------------------------
(* A chain of two blocks above the genesis block, an outbound and an         *)
(* inbound peer.                                                            *)
EXTENDS BlockDownload, TLC

CONSTANTS g, x1, x2, o1, i1

MCBlock == {g, x1, x2}
MCParent == x1 :> g @@ x2 :> x1
MCChain == g :> {g} @@ x1 :> {g, x1} @@ x2 :> {g, x1, x2}
MCHeight == g :> 0 @@ x1 :> 1 @@ x2 :> 2
MCNode == {o1, i1}
MCOutbound == {o1}
=============================================================================
