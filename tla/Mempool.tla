------------------------------ MODULE Mempool ------------------------------
(***************************************************************************)
(* The memory pool (txmempool.cpp) and how main.cpp keeps it in step with  *)
(* pcoinsTip: AcceptToMemoryPool lets transactions in, ConnectTip removes  *)
(* what a block confirms or conflicts with, and DisconnectTip brings the   *)
(* transactions of the block back, one after the other, and removes what   *)
(* depends on those that do not return.                                    *)
(*                                                                         *)
(* ConnectTip and DisconnectTip hold cs_main, so that nothing else changes *)
(* pool or coins meanwhile; their loops over the transactions of the block *)
(* are modelled step by step.  Left out: fees, sizes, priorities and the   *)
(* address and spent indexes of the pool, and the empty coinbase of a      *)
(* proof-of-stake block, which creates nothing that can be spent.          *)
(*                                                                         *)
(* Disconnecting a block brings back exactly the coins it spent.  For the  *)
(* mark of a coinstake this rests on its empty first output: nobody spends *)
(* it, so that the CCoins entry stays and UpdateCoinsForRestoredInputs,    *)
(* which does not restore fCoinStake, has no entry to make anew.           *)
(***************************************************************************)
EXTENDS Integers, Sequences

CONSTANTS
    Tx,           \* transactions
    Inputs,       \* Inputs[t]: the outpoints <<transaction, n>> that t spends
    Outputs,      \* Outputs[t]: the outpoints that t creates
    Generated,    \* coinbases and coinstakes
    NonStandard,  \* transactions that are valid in a block, but not standard
    Invalid,      \* transactions whose scripts fail
    Cheap,        \* transactions that fee, priority or rate limit may keep out
    Block,        \* the blocks: sequences of transactions
    Maturity,     \* COINBASE_MATURITY
    MaxHeight     \* bound on the height of the chain

ASSUME MempoolAssumption ==
    /\ Generated \subseteq Tx /\ NonStandard \subseteq Tx /\ Invalid \subseteq Tx /\ Cheap \subseteq Tx
    /\ DOMAIN Inputs = Tx /\ DOMAIN Outputs = Tx
    /\ \A t \in Tx : \A o \in Outputs[t] : o[1] = t
    /\ \A t \in Tx : \A o \in Inputs[t] : o[1] \in Tx \ {t}
    /\ \A t \in Tx \ Generated : Inputs[t] # {}
    /\ Block \subseteq Seq(Tx)
    /\ Maturity \in Nat \ {0} /\ MaxHeight \in Nat

VARIABLES
    mapTx,      \* the transactions in the pool
    mapNextTx,  \* mapNextTx[o]: the transaction of the pool that spends outpoint o
    coins,      \* the unspent outputs in pcoinsTip
    chain,      \* the blocks that pcoinsTip has the transactions of
    pc,         \* "idle", or the loop that ConnectTip or DisconnectTip is in
    vtx,        \* the transactions of the block it is about, ...
    at          \* ... and the position of the next one

poolVars == <<mapTx, mapNextTx>>
chainVars == <<coins, chain, pc, vtx, at>>
mempoolVars == <<poolVars, chainVars>>

TxsOf(b) == {b[i] : i \in DOMAIN b}
SpentBy(txs) == UNION {Inputs[t] : t \in txs}
CreatedBy(txs) == UNION {Outputs[t] : t \in txs}

-----------------------------------------------------------------------------
(* CTxMemPool                                                              *)

\* The transactions of the pool that spend an output of t.
Spenders(t) == {mapNextTx[o] : o \in Outputs[t] \cap DOMAIN mapNextTx} \cap mapTx

\* The deque of CTxMemPool::remove with fRecursive: "first" and all the transactions
\* of the pool that depend on it.
WithDescendants(first) ==
    {t \in mapTx : \A S \in SUBSET mapTx :
        (first \cap mapTx \subseteq S /\ \A s \in S : Spenders(s) \subseteq S) => t \in S}

\* The transactions in "gone" leave the pool, with the entries for their inputs.
Erase(gone) ==
    /\ mapTx' = mapTx \ gone
    /\ mapNextTx' = [o \in DOMAIN mapNextTx \ SpentBy(gone) |-> mapNextTx[o]]

\* CTxMemPool::remove(t, removed, true).  If t is not in the pool what spends its
\* outputs has to go all the same.
removeRecursive(t) == Erase(WithDescendants(IF t \in mapTx THEN {t} ELSE Spenders(t)))

\* CTxMemPool::addUnchecked.
addUnchecked(t) ==
    /\ mapTx' = mapTx \cup {t}
    /\ mapNextTx' = [o \in DOMAIN mapNextTx \cup Inputs[t] |->
                        IF o \in Inputs[t] THEN t ELSE mapNextTx[o]]

-----------------------------------------------------------------------------
(* AcceptToMemoryPool                                                      *)

\* CCoinsViewMemPool::HaveCoins.
HaveCoins(t) == t \in mapTx \/ Outputs[t] \cap coins # {}

\* CCoinsViewCache::HaveInputs, on top of CCoinsViewMemPool, for one input.
Available(o) == IF o[1] \in mapTx THEN o \in Outputs[o[1]] ELSE o \in coins

\* nSpendHeight - nHeight of the coins of t.
Depth(t) == Len(chain) + 1 - (CHOOSE h \in DOMAIN chain : t \in TxsOf(chain[h]))

\* "If prev is coinbase, check that it's matured".
Mature(o) == o[1] \in Generated \ mapTx => Depth(o[1]) >= Maturity

\* The checks before AcceptToMemoryPool looks for the inputs.
IsNew(t) ==
    /\ t \notin Generated \cup NonStandard
    /\ Inputs[t] \cap DOMAIN mapNextTx = {}
    /\ ~HaveCoins(t)

\* *pfMissingInputs.
MissingInputs(t) == IsNew(t) /\ \E o \in Inputs[t] : ~HaveCoins(o[1])

\* CheckInputs, for inputs that are available.
CheckInputs(t) == t \notin Invalid /\ \A o \in Inputs[t] : Mature(o)

\* AcceptToMemoryPool lets t in, if fees and priority are good enough.
Acceptable(t) == IsNew(t) /\ (\A o \in Inputs[t] : Available(o)) /\ CheckInputs(t)

\* AcceptToMemoryPool, for a transaction of the wallet or of a peer.
AcceptToMemoryPool(t) ==
    /\ pc = "idle" /\ Acceptable(t)
    /\ addUnchecked(t)
    /\ UNCHANGED chainVars

-----------------------------------------------------------------------------
(* ConnectTip                                                              *)

\* ContextualCheckBlock and ConnectBlock accept block b.  A coinbase begins with its
\* height and so is no transaction of an earlier block; b[1] is the coinbase or, in a
\* proof-of-stake block, the coinstake.
ConnectBlock(b) ==
    /\ b # <<>> /\ \A i \in DOMAIN b : b[i] \in Generated <=> i = 1
    /\ \A h \in DOMAIN chain : b[1] \notin TxsOf(chain[h])
    /\ \A i \in DOMAIN b : b[i] \notin Invalid /\ Outputs[b[i]] \cap coins = {}
    /\ \A i \in DOMAIN b : \A o \in Inputs[b[i]] :
          /\ o \in coins \/ \E j \in 1 .. i - 1 : o \in Outputs[b[j]]
          /\ \A j \in 1 .. i - 1 : o \notin Inputs[b[j]]
          /\ o[1] \in Generated => o \in coins /\ Depth(o[1]) >= Maturity

\* ConnectTip up to and with FlushStateToDisk.
ConnectTip(b) ==
    /\ pc = "idle" /\ Len(chain) < MaxHeight /\ ConnectBlock(b)
    /\ coins' = (coins \cup CreatedBy(TxsOf(b))) \ SpentBy(TxsOf(b))
    /\ chain' = Append(chain, b)
    /\ pc' = "connect" /\ vtx' = b /\ at' = 1
    /\ UNCHANGED poolVars

\* On to the next transaction of the block, or to what follows the loop.
Advance(after) ==
    /\ IF at < Len(vtx) THEN pc' = pc /\ vtx' = vtx /\ at' = at + 1
       ELSE pc' = after /\ vtx' = <<>> /\ at' = 0
    /\ UNCHANGED <<coins, chain>>

\* Mutant: removeConflicts is not called.
removeForBlock_NoConflicts(t) == Erase({t} \cap mapTx)

\* Mutant: what depends on a confirmed transaction is removed with it.
removeForBlock_Recursive(t) ==
    Erase(WithDescendants({t} \cup {mapNextTx[o] : o \in Inputs[t] \cap DOMAIN mapNextTx}))

\* One turn of the loop of CTxMemPool::removeForBlock: remove(t, dummy, false), which
\* clears mapNextTx for the inputs of t if t is in the pool, and removeConflicts(t).
removeForBlock(t) ==
    Erase(IF t \in mapTx THEN {t}
          ELSE WithDescendants({mapNextTx[o] : o \in Inputs[t] \cap DOMAIN mapNextTx}))

RemoveForBlock == pc = "connect" /\ removeForBlock(vtx[at]) /\ Advance("idle")

-----------------------------------------------------------------------------
(* DisconnectTip                                                           *)

\* DisconnectTip up to and with FlushStateToDisk.
DisconnectTip ==
    /\ pc = "idle" /\ chain # <<>>
    /\ LET b == chain[Len(chain)]
       IN  /\ coins' = (coins \cup SpentBy(TxsOf(b))) \ CreatedBy(TxsOf(b))
           /\ vtx' = b
    /\ chain' = SubSeq(chain, 1, Len(chain) - 1)
    /\ pc' = "disconnect" /\ at' = 1
    /\ UNCHANGED poolVars

\* "Resurrect mempool transactions from the disconnected block."
Resurrect ==
    /\ pc = "disconnect"
    /\ LET t == vtx[at]
       IN  \/ Acceptable(t) /\ addUnchecked(t)
           \/ (~Acceptable(t) \/ t \in Cheap) /\ removeRecursive(t)
    /\ Advance("coinbases")

\* Mutant: the height of the block that was disconnected is taken for that of the tip.
RemoveCoinbaseSpends_HeightOfTip ==
    /\ pc = "coinbases"
    /\ Erase(WithDescendants({t \in mapTx : \E o \in Inputs[t] :
          o[1] \in Generated /\ Depth(o[1]) + 1 < Maturity}))
    /\ pc' = "idle"
    /\ UNCHANGED <<coins, chain, vtx, at>>

\* CTxMemPool::removeCoinbaseSpends, and the end of DisconnectTip.
RemoveCoinbaseSpends ==
    /\ pc = "coinbases"
    /\ Erase(WithDescendants({t \in mapTx : \E o \in Inputs[t] :
          o[1] \notin mapTx /\ (Outputs[o[1]] \cap coins = {} \/ ~Mature(o))}))
    /\ pc' = "idle"
    /\ UNCHANGED <<coins, chain, vtx, at>>

-----------------------------------------------------------------------------
MempoolInit ==
    /\ mapTx = {} /\ mapNextTx = <<>>
    /\ coins = {} /\ chain = <<>>
    /\ pc = "idle" /\ vtx = <<>> /\ at = 0

\* ConnectTip and DisconnectTip once they have begun.
ChainStep == RemoveForBlock \/ Resurrect \/ RemoveCoinbaseSpends

MempoolNext ==
    \/ \E t \in Tx : AcceptToMemoryPool(t)
    \/ \E b \in Block : ConnectTip(b)
    \/ DisconnectTip
    \/ ChainStep

MempoolSpec == MempoolInit /\ [][MempoolNext]_mempoolVars

-----------------------------------------------------------------------------
(* Properties                                                              *)

TypeOK ==
    /\ mapTx \subseteq Tx \ Generated
    /\ DOMAIN mapNextTx \subseteq SpentBy(Tx) /\ \A o \in DOMAIN mapNextTx : mapNextTx[o] \in Tx
    /\ coins \subseteq CreatedBy(Tx)
    /\ chain \in Seq(Block) /\ vtx \in Seq(Tx) /\ at \in 0 .. Len(vtx)
    /\ pc \in {"idle", "connect", "disconnect", "coinbases"}

\* CTxMemPool::check: mapNextTx holds exactly the inputs of the transactions in the
\* pool, each with the transaction that spends it; so no two of them conflict.
NextTxIsInverse ==
    /\ \A t \in mapTx : \A o \in Inputs[t] : o \in DOMAIN mapNextTx /\ mapNextTx[o] = t
    /\ \A o \in DOMAIN mapNextTx : mapNextTx[o] \in mapTx /\ o \in Inputs[mapNextTx[o]]

\* CTxMemPool::check: "every mempool transaction's inputs refer to available coins,
\* or other mempool tx's", whenever cs_main is free.
InputsAvailable == pc = "idle" => \A t \in mapTx : \A o \in Inputs[t] : Available(o)

\* CTxMemPool::check calls CheckInputs for every transaction: none spends a coinbase
\* or coinstake that is not mature in the next block.
InputsMature == pc = "idle" => \A t \in mapTx : \A o \in Inputs[t] : Mature(o)

\* No transaction of the active chain is in the pool.
NothingConfirmed ==
    pc = "idle" => \A h \in DOMAIN chain : TxsOf(chain[h]) \cap mapTx = {}

\* A transaction leaves the pool only because it is confirmed or because one of its
\* inputs has become unavailable or immature.
RemovalIsNeeded ==
    [][\A t \in mapTx \ mapTx' :
          \/ pc = "connect" /\ t = vtx[at]
          \/ \E o \in Inputs[t] : ~Available(o)' \/ ~Mature(o)']_mempoolVars
=============================================================================
