-------------------------- MODULE MCMasternodeList --------------------------
(***************************************************************************)
(* Two broadcasts of one masternode.  A tick is long enough for the next   *)
(* ping, broadcast or request; a ping is too old after two ticks, when the *)
(* entry expires as well, and everything is forgotten after three.         *)
(***************************************************************************)
EXTENDS MasternodeList
=============================================================================
