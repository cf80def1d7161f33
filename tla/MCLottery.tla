----------------------------- MODULE MCLottery -----------------------------
(***************************************************************************)
(* Blocks 0 to 25 in one chain, with a lottery every 4 blocks and the      *)
(* treasury every 5 up to the transition at height 20, and two branches    *)
(* that have another lottery block than the chain:                         *)
(*                                                                         *)
(*     0 .. 7 -- 8 -- 9 -- 10 .. 15 -- 16 -- 17 -- 18 .. 25                *)
(*            \                     \                                      *)
(*             26 -- 27 -- 28        29 -- 30 -- 31                        *)
(***************************************************************************)
EXTENDS Lottery

MCBlock == 0 .. 31
MCNoBlock == -1
MCParent == [b \in 1 .. 31 |-> CASE b = 26 -> 7 [] b = 29 -> 15 [] OTHER -> b - 1]
MCHeight == [b \in MCBlock |-> CASE b <= 25 -> b [] b \in 26 .. 28 -> b - 18 [] OTHER -> b - 13]
MCChain == [b \in MCBlock |->
               CASE b <= 25 -> 0 .. b
                 [] b \in 26 .. 28 -> 0 .. 7 \cup 26 .. b
                 [] OTHER -> 0 .. 15 \cup 29 .. b]
MCAddr == [b \in MCBlock |-> b]

\* From block 13 on: two coinstakes for u and a worse one for v; u again while it is
\* vetoed, up to the third lottery after the one that it wins.
MCScript == [b \in MCBlock |->
                CASE b \in {13, 14, 17, 25, 30} -> "u"
                  [] b \in {15, 22} -> "v"
                  [] b \in {18, 19, 21} -> "w"
                  [] OTHER -> IF b % 2 = 0 THEN "p" ELSE "q"]
MCTicket == MCBlock \ {10, 11}
MCScore == [b \in MCBlock |-> [l \in MCBlock |-> (b * (l + 3)) % 37]]
MCUniform == {b \in MCBlock : MCHeight[b] >= 12}

MCSubsidySporks == <<[height |-> 9, value |-> 650], [height |-> 14, value |-> 850]>>
MCPaymentSporks ==
    <<[height |-> 7, part |-> [stake |-> 40, masternode |-> 40, treasury |-> 18, charity |-> 2]]>>
=============================================================================
