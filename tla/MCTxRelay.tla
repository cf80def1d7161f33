----------------------------- MODULE MCTxRelay -----------------------------
(***************************************************************************)
(* Transactions for TxRelay: three coinbases and a coinstake s, and        *)
(*                                                                         *)
(*      c0.1 -- p -- p.1 -- q -- u      (q also spends c0.2, as s does)    *)
(*         \      \                                                        *)
(*          r      p.2 -- v            s -- x                              *)
(*                                                                         *)
(* <<s, 0>> is the empty output that makes s a coinstake.                  *)
(***************************************************************************)
EXTENDS TxRelay, TLC

CONSTANTS c0, c1, c2, s, p, q, r, u, v, x

MCTx == {c0, c1, c2, s, p, q, r, u, v, x}
MCInputs ==
    (c0 :> {}) @@ (c1 :> {}) @@ (c2 :> {}) @@ (s :> {<<c0, 2>>})
      @@ (p :> {<<c0, 1>>}) @@ (r :> {<<c0, 1>>}) @@ (q :> {<<p, 1>>, <<c0, 2>>})
      @@ (u :> {<<q, 1>>}) @@ (v :> {<<p, 2>>}) @@ (x :> {<<s, 1>>})
MCOutputs ==
    [t \in MCTx |-> {<<t, 1>>} \cup (IF t \in {c0, p} THEN {<<t, 2>>} ELSE {})
                             \cup (IF t = s THEN {<<t, 0>>} ELSE {})]

\* Blocks with up to two transactions besides the one that is generated.
Loose == {p, q, r, u}
MCBlock == {<<c>> \o l : c \in {c0, c1, c2, s},
                         l \in {<<>>} \cup {<<a>> : a \in Loose} \cup Loose \X Loose}
=============================================================================
