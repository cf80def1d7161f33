---------------------------- MODULE MCCoinsCache ----------------------------
(* Two transactions, two contents, two blocks: enough for an entry of each  *)
(* layer to differ from the one below while the other stays behind.         *)
EXTENDS CoinsCache
=============================================================================
