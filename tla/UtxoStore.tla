----------------------------- MODULE UtxoStore -----------------------------
(***************************************************************************)
(* What the layered coins views of coins.cpp and txdb.cpp promise to the   *)
(* rest of the node: one UTXO set, changed only by whole transactions.     *)
(*                                                                         *)
(*   durable    the UTXO set that survives a restart                       *)
(*   committed  the UTXO set of the active chain                           *)
(*   staged     a private copy that a block is being applied to            *)
(*                                                                         *)
(* Each of the three carries the hash of the block it is the state of.     *)
(***************************************************************************)

CONSTANTS
    Txid,       \* transaction ids
    Coins,      \* contents of a CCoins object with an unspent output
    None,       \* no unspent output of the transaction
    BlockHash,  \* hashes of blocks
    NullHash    \* uint256(0)

VARIABLES durable, durableBest, committed, committedBest, staged, stagedBest, open

vars == <<durable, durableBest, committed, committedBest, staged, stagedBest, open>>

Hash == BlockHash \cup {NullHash}
UtxoSet == [Txid -> Coins \cup {None}]

TypeOK ==
    /\ durable \in UtxoSet /\ committed \in UtxoSet /\ staged \in UtxoSet
    /\ durableBest \in Hash /\ committedBest \in Hash /\ stagedBest \in Hash
    /\ open \in BOOLEAN

Init ==
    /\ durable \in UtxoSet
    /\ durableBest \in Hash
    /\ committed = durable /\ committedBest = durableBest
    /\ staged = durable /\ stagedBest = durableBest
    /\ open = FALSE

\* A block starts to be applied to a copy of the committed set.
Begin ==
    /\ ~open
    /\ open' = TRUE
    /\ UNCHANGED <<durable, durableBest, committed, committedBest, staged, stagedBest>>

\* The unspent outputs of one transaction change in the copy.
Stage(t, c) ==
    /\ open
    /\ staged' = [staged EXCEPT ![t] = c]
    /\ UNCHANGED <<durable, durableBest, committed, committedBest, stagedBest, open>>

\* The copy is declared to be the state of block h.
StageBest(h) ==
    /\ open
    /\ stagedBest' = h
    /\ UNCHANGED <<durable, durableBest, committed, committedBest, staged, open>>

\* The copy becomes the committed set, all of it at once.
Commit ==
    /\ open
    /\ committed' = staged /\ committedBest' = stagedBest
    /\ UNCHANGED <<durable, durableBest, staged, stagedBest, open>>

\* The copy is forgotten.
Discard ==
    /\ open
    /\ open' = FALSE
    /\ staged' = committed /\ stagedBest' = committedBest
    /\ UNCHANGED <<durable, durableBest, committed, committedBest>>

\* The committed set and its block become durable together.
Persist ==
    /\ durable' = committed /\ durableBest' = committedBest
    /\ UNCHANGED <<committed, committedBest, staged, stagedBest, open>>

\* A restart goes back to the durable set.
Restart ==
    /\ open' = FALSE
    /\ committed' = durable /\ committedBest' = durableBest
    /\ staged' = durable /\ stagedBest' = durableBest
    /\ UNCHANGED <<durable, durableBest>>

Next ==
    \/ Begin \/ Commit \/ Discard \/ Persist \/ Restart
    \/ \E t \in Txid, c \in Coins \cup {None} : Stage(t, c)
    \/ \E h \in BlockHash : StageBest(h)

Spec == Init /\ [][Next]_vars
=============================================================================
