---------------------------- MODULE MCCheckQueue ----------------------------
(* Two workers and a master with four checks, one of which fails.          *)
EXTENDS CheckQueue

CONSTANTS w1, w2, c1, c2, c3, c4

Workers == {w1, w2}
Checks == {c1, c2, c3, c4}
=============================================================================
