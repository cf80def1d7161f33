--------------------------- MODULE MCMessageLink ---------------------------
(***************************************************************************)
(* Two ends; p asks for two blocks and then sends a ping, q asks for one   *)
(* block.                                                                  *)
(***************************************************************************)
EXTENDS MessageLink, TLC

CONSTANTS p, q

MCPeer == {p, q}
MCRequests == (p :> <<2, 0>>) @@ (q :> <<1>>)
=============================================================================
