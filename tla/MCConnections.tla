--------------------------- MODULE MCConnections ---------------------------
(***************************************************************************)
(* One CNode in its whole life, an opener and a checker that connect to    *)
(* the same address.  The nodes do not influence each other.               *)
(***************************************************************************)
EXTENDS Connections
=============================================================================
