----------------------------- MODULE ChainState -----------------------------
(***************************************************************************)
(* The block index and the active chain of a running node (main.cpp).      *)
(*                                                                         *)
(* Threads deliver blocks (ProcessNewBlock), operators invalidate and      *)
(* reconsider them (InvalidateBlock, ReconsiderBlock) and a spork makes    *)
(* the node reprocess its last blocks (ReprocessBlocks).  Each of them     *)
(* ends in ActivateBestChain, which gives up cs_main after every step and  *)
(* reads the tip once more without it, so the calls of several threads     *)
(* interleave.  What happens under cs_main is one action.                  *)
(*                                                                         *)
(* Left out: mempool and coins (modules of their own), the diagnostics     *)
(* pindexBestInvalid and pindexBestHeader, calls that return before they   *)
(* change anything, and blocks that CheckBlock, CheckWork or a check of    *)
(* the header's own fields turns away: they never reach the index.         *)
(***************************************************************************)
EXTENDS BlockTree, FiniteSets

CONSTANTS
    Thread,
    Bad,         \* blocks that ConnectBlock rejects
    Disputed,    \* blocks whose masternode payee ConnectBlock may accept or reject
    Corrupted,   \* blocks whose stored data no longer matches the merkle root
    ContextBad,  \* blocks that ContextualCheckBlock rejects
    Unwritable,  \* blocks that writing to the block file may fail for
    Checkpoint,  \* blocks that are checkpoints
    MaxReorg,    \* -maxreorg
    Operated,    \* blocks that an operator may invalidate or reconsider
    Reprocessed  \* numbers of blocks that a spork may have reprocessed

ASSUME ChainStateAssumption ==
    /\ Bad \subseteq Block \ {Genesis} /\ Disputed \subseteq Block \ {Genesis}
    /\ Corrupted \subseteq Block \ {Genesis} /\ ContextBad \subseteq Block \ {Genesis}
    /\ Unwritable \subseteq Block
    /\ Checkpoint \subseteq Block /\ Operated \subseteq Block \ {Genesis}
    /\ MaxReorg \in Nat /\ Reprocessed \subseteq Nat

VARIABLES
    index,             \* mapBlockIndex
    data,              \* blocks with BLOCK_HAVE_DATA (and BLOCK_VALID_TRANSACTIONS)
    linked,            \* blocks with nChainTx # 0
    failedValid,       \* blocks with BLOCK_FAILED_VALID
    failedChild,       \* blocks with BLOCK_FAILED_CHILD
    seq,               \* seq[b]: nSequenceId
    nBlockSequenceId,  \* the next sequence id
    candidates,        \* setBlockIndexCandidates
    unlinked,          \* blocks B of the pairs B->pprev, B in mapBlocksUnlinked
    rejected,          \* mapRejectedBlocks
    tip,               \* chainActive.Tip()
    pc,                \* pc[th]: where the thread is between two critical sections
    pblock,            \* pblock[th]: the block in memory that the thread brought along
    mostWork           \* mostWork[th]: pindexMostWork of ActivateBestChain

blockVars == <<index, data, linked, seq, nBlockSequenceId, unlinked>>
threadVars == <<pc, pblock, mostWork>>
vars == <<blockVars, failedValid, failedChild, candidates, rejected, tip, threadVars>>

Failed == failedValid \cup failedChild

\* CBlockIndexWorkComparator()(a, b), with sequence ids ids: a sorts before, that
\* is, is worse than b.
CBlockIndexWorkComparator(ids, a, b) ==
    \/ ChainWork[a] < ChainWork[b]
    \/ /\ ChainWork[a] = ChainWork[b]
       /\ ids[a] > ids[b] \/ (ids[a] = ids[b] /\ Addr[a] > Addr[b])

Worse(a, b) == CBlockIndexWorkComparator(seq, a, b)

-----------------------------------------------------------------------------
(* Activation                                                              *)

\* The blocks between the active chain and c.
OffChain(c) == Chain[c] \ Chain[tip]

Usable(c) == OffChain(c) \cap Failed = {}

\* FindMostWorkChain: the best candidate without a failed block on its way.
\* A linked block has its data and that of its ancestors, so that the branch for
\* missing data is never taken.
FindMostWorkChain ==
    LET usable == {c \in candidates : Usable(c)}
    IN  IF usable = {} THEN NoBlock
        ELSE CHOOSE c \in usable : \A d \in usable \ {c} : Worse(d, c)

\* The candidates that FindMostWorkChain has met and given up before that one.
GivenUp ==
    LET best == FindMostWorkChain
    IN  {c \in candidates : ~Usable(c) /\ (best = NoBlock \/ Worse(best, c))}

\* The block of c's chain at which FindMostWorkChain stops, and what is above it.
FailedOn(c) == Highest(OffChain(c) \cap Failed)
AboveFailed(c) == {b \in OffChain(c) : b # FailedOn(c) /\ FailedOn(c) \in Chain[b]}

MarkedByFind == UNION {AboveFailed(c) : c \in GivenUp}
ErasedByFind == UNION {AboveFailed(c) \cup {FailedOn(c)} : c \in GivenUp}

\* ConnectTip stops at these blocks of the chain to m.  The block that the
\* thread brought along is not read from disk.
ConnectFails(th, m, disputed) ==
    Bad \cup disputed \cup (Corrupted \ (IF pblock[th] = m THEN {m} ELSE {}))

\* Mutant: as much work as before is enough.
Enough_NotWorse(b) == ChainWork[b] >= ChainWork[tip]

\* ActivateBestChainStep, once it has enough work, does not go on.
Enough(b) == ChainWork[b] > ChainWork[tip]

\* The tip after ActivateBestChainStep: the last block on the way from the fork
\* to m that connects, unless an earlier one has more work than the old tip.
NewTip(m, bad) ==
    LET connected == {b \in OffChain(m) :
            /\ Chain[b] \cap OffChain(m) \cap bad = {}
            /\ \A a \in Chain[b] \cap OffChain(m) : a # b => ~Enough(a)}
    IN  Highest({FindFork(tip, m)} \cup connected)

\* Mutant: ConnectTip does not report the block that ConnectBlock rejects.
StoppedAt_Unnoticed(m, bad) == {}

\* The block at which it stopped because ConnectBlock failed, if any.
StoppedAt(m, bad) ==
    LET new == NewTip(m, bad)
    IN  {b \in OffChain(m) \cap bad : Parent[b] = new /\ ~(new \in OffChain(m) /\ Enough(new))}

\* PruneBlockIndexCandidates with tip t.
PruneBlockIndexCandidates(cs, t) == {c \in cs : ~Worse(c, t)}

\* FindMostWorkChain finds nothing better than the tip: ActivateBestChain returns.
ActivateNothing(th) ==
    /\ pc[th] = "activate"
    /\ FindMostWorkChain \in {NoBlock, tip}
    /\ failedChild' = failedChild \cup MarkedByFind
    /\ candidates' = candidates \ ErasedByFind
    /\ pc' = [pc EXCEPT ![th] = "idle"]
    /\ pblock' = [pblock EXCEPT ![th] = NoBlock]
    /\ UNCHANGED <<blockVars, failedValid, rejected, tip, mostWork>>

\* FindMostWorkChain and one ActivateBestChainStep.  A block that fails because
\* of what was read from disk (CorruptionPossible) is not marked.
ActivateBestChainStep(th) ==
    /\ pc[th] = "activate"
    /\ FindMostWorkChain \notin {NoBlock, tip}
    /\ LET m == FindMostWorkChain
       IN  \E disputed \in SUBSET (Disputed \cap OffChain(m)) :
             LET bad == ConnectFails(th, m, disputed)
                 new == NewTip(m, bad)
                 stopped == StoppedAt(m, bad)
                 invalid == stopped \cap (Bad \cup disputed)
                 left == candidates \ ErasedByFind
             IN  /\ tip' = new
                 /\ failedValid' = failedValid \cup invalid
                 /\ rejected' = rejected \cup (stopped \cap disputed)
                 /\ candidates' = (IF new = FindFork(tip, m) THEN left
                                   ELSE PruneBlockIndexCandidates(left, new)) \ invalid
                 /\ mostWork' = [mostWork EXCEPT ![th] = m]
    /\ failedChild' = failedChild \cup MarkedByFind
    /\ pc' = [pc EXCEPT ![th] = "test"]
    /\ UNCHANGED <<blockVars, pblock>>

\* Mutant: ActivateBestChain returns after its first step.
ActivateBestChainLoop_Once(th) ==
    /\ pc[th] = "test"
    /\ pc' = [pc EXCEPT ![th] = "idle"]
    /\ pblock' = [pblock EXCEPT ![th] = NoBlock]
    /\ mostWork' = [mostWork EXCEPT ![th] = NoBlock]
    /\ UNCHANGED <<blockVars, failedValid, failedChild, candidates, rejected, tip>>

\* "while (pindexMostWork != chainActive.Tip())", read without cs_main.
ActivateBestChainLoop(th) ==
    /\ pc[th] = "test"
    /\ pc' = [pc EXCEPT ![th] = IF mostWork[th] = tip THEN "idle" ELSE "activate"]
    /\ pblock' = [pblock EXCEPT ![th] = IF mostWork[th] = tip THEN NoBlock ELSE @]
    /\ mostWork' = [mostWork EXCEPT ![th] = NoBlock]
    /\ UNCHANGED <<blockVars, failedValid, failedChild, candidates, rejected, tip>>

-----------------------------------------------------------------------------
(* New blocks                                                              *)

\* ContextualCheckBlockHeader: not too deep a fork, not another block at the height
\* of a checkpoint, nor a fork from before the last checkpoint that the node has.
ContextualCheckBlockHeader(b) ==
    /\ Height[tip] - Height[b] < MaxReorg
    /\ \A c \in Checkpoint : Height[b] = Height[c] => b = c
    /\ \A c \in Checkpoint \cap index : Height[b] >= Height[c]

\* AcceptBlock up to and with AcceptBlockHeader lets b pass.
AcceptBlockHeader(b) ==
    /\ b # Genesis /\ Parent[b] \in index \ Failed
    /\ IF b \in index THEN b \notin Failed ELSE ContextualCheckBlockHeader(b)

\* The blocks that become linked when the data of b arrives: b and what waits for it.
LinkedBy(b) ==
    {d \in unlinked \cup {b} :
        b \in Chain[d] /\ (Chain[d] \ Chain[b]) \subseteq unlinked}

\* Sequence ids in the order of the queue: parents before children.  Siblings come
\* in the order in which they arrived, which is left open.
SequenceIds(L) ==
    {s \in [L -> nBlockSequenceId .. nBlockSequenceId + Cardinality(L) - 1] :
        \A a, b \in L : a # b => s[a] # s[b] /\ (Height[a] < Height[b] => s[a] < s[b])}

\* Mutant: ReceivedBlockTransactions links a block whose parent is not linked.
ReceivedBlockTransactions_Unchecked(b) ==
    /\ seq' = [seq EXCEPT ![b] = nBlockSequenceId]
    /\ nBlockSequenceId' = nBlockSequenceId + 1
    /\ linked' = linked \cup {b}
    /\ candidates' = candidates \cup {b}
    /\ UNCHANGED unlinked

\* ReceivedBlockTransactions: b, and what waits for it, becomes linked if its
\* parent is; otherwise b waits for its parent.
ReceivedBlockTransactions(b) ==
    IF Parent[b] \in linked
    THEN LET L == LinkedBy(b)
         IN  /\ \E s \in SequenceIds(L) :
                   LET new == [c \in Block |-> IF c \in L THEN s[c] ELSE seq[c]]
                   IN  /\ seq' = new
                       /\ candidates' = candidates \cup
                              {c \in L : ~CBlockIndexWorkComparator(new, c, tip)}
             /\ linked' = linked \cup L
             /\ unlinked' = unlinked \ L
             /\ nBlockSequenceId' = nBlockSequenceId + Cardinality(L)
    ELSE /\ unlinked' = unlinked \cup {b}
         /\ UNCHANGED <<linked, seq, nBlockSequenceId, candidates>>

\* ProcessNewBlock of a block that AcceptBlock stores, and the way to activation.
StoreBlock(th, b) ==
    /\ pc[th] = "idle"
    /\ AcceptBlockHeader(b) /\ b \notin data \cup ContextBad
    /\ index' = index \cup {b} /\ data' = data \cup {b}
    /\ ReceivedBlockTransactions(b)
    /\ pc' = [pc EXCEPT ![th] = "activate"]
    /\ pblock' = [pblock EXCEPT ![th] = b]
    /\ UNCHANGED <<failedValid, failedChild, rejected, tip, mostWork>>

\* Mutant: without AcceptBlock's test for BLOCK_HAVE_DATA.
RepeatBlock_StoredAgain(th, b) ==
    /\ pc[th] = "idle"
    /\ AcceptBlockHeader(b) /\ b \in data
    /\ nBlockSequenceId <= 2 * Cardinality(Block)
    /\ ReceivedBlockTransactions(b)
    /\ pc' = [pc EXCEPT ![th] = "activate"]
    /\ pblock' = [pblock EXCEPT ![th] = b]
    /\ UNCHANGED <<index, data, failedValid, failedChild, rejected, tip, mostWork>>

\* ProcessNewBlock of a block that the node has already.
RepeatBlock(th, b) ==
    /\ pc[th] = "idle"
    /\ AcceptBlockHeader(b) /\ b \in data
    /\ pc' = [pc EXCEPT ![th] = "activate"]
    /\ pblock' = [pblock EXCEPT ![th] = b]
    /\ UNCHANGED <<blockVars, failedValid, failedChild, candidates, rejected, tip, mostWork>>

\* ProcessNewBlock of a block that ContextualCheckBlock rejects.
RefuseBlock(th, b) ==
    /\ pc[th] = "idle"
    /\ AcceptBlockHeader(b) /\ b \in ContextBad
    /\ index' = index \cup {b}
    /\ failedValid' = failedValid \cup {b}
    /\ UNCHANGED <<data, linked, seq, nBlockSequenceId, unlinked, failedChild, candidates,
                   rejected, tip, threadVars>>

\* ProcessNewBlock of a block that FindBlockPos or WriteBlockToDisk fails for: its
\* header stays in the index.
WriteBlockFails(th, b) ==
    /\ pc[th] = "idle"
    /\ AcceptBlockHeader(b) /\ b \in Unwritable \ (index \cup ContextBad)
    /\ index' = index \cup {b}
    /\ UNCHANGED <<data, linked, seq, nBlockSequenceId, unlinked, failedValid, failedChild,
                   candidates, rejected, tip, threadVars>>

-----------------------------------------------------------------------------
(* Operators and sporks                                                    *)

Descendants(b) == {d \in index : b \in Chain[d]}

\* Mutant: the block is marked, the active chain is left as it is.
InvalidateBlock_MarkOnly(th, b) ==
    /\ pc[th] = "idle" /\ b \in index
    /\ failedValid' = failedValid \cup {b}
    /\ candidates' = candidates \ {b}
    /\ pc' = [pc EXCEPT ![th] = "activate"]
    /\ UNCHANGED <<blockVars, failedChild, rejected, tip, pblock, mostWork>>

\* invalidateblock: InvalidateBlock, which puts every block that is now as good as
\* the tip back among the candidates.
InvalidateBlock(th, b) ==
    /\ pc[th] = "idle" /\ b \in index
    /\ LET off == {c \in Chain[tip] : b \in Chain[c]}
           new == IF b \in Chain[tip] THEN Parent[b] ELSE tip
           failed == Failed \cup {b} \cup off
       IN  /\ tip' = new
           /\ failedValid' = failedValid \cup {b}
           /\ failedChild' = failedChild \cup off
           /\ candidates' = (candidates \ ({b} \cup off)) \cup
                               {c \in linked \ failed : ~Worse(c, new)}
    /\ pc' = [pc EXCEPT ![th] = "activate"]
    /\ UNCHANGED <<blockVars, rejected, pblock, mostWork>>

\* ReconsiderBlock: b, its descendants and its ancestors lose their marks; b and
\* its descendants become candidates again if they are better than the tip.
ReconsiderBlock(b) ==
    /\ failedValid' = failedValid \ (Descendants(b) \cup Chain[b])
    /\ failedChild' = failedChild \ (Descendants(b) \cup Chain[b])
    /\ candidates' = candidates \cup
                        {c \in Descendants(b) \cap Failed \cap linked : Worse(tip, c)}

\* reconsiderblock.
Reconsider(th, b) ==
    /\ pc[th] = "idle" /\ b \in index
    /\ ReconsiderBlock(b)
    /\ pc' = [pc EXCEPT ![th] = "activate"]
    /\ UNCHANGED <<blockVars, rejected, tip, pblock, mostWork>>

\* AcceptBlock of a child of a failed checkpoint reconsiders and activates the
\* checkpoint and returns true without an index entry for the child, upon which
\* ProcessNewBlock's assertion ends the process.
AcceptBlockReconsiders(th, b) ==
    /\ pc[th] = "idle"
    /\ b # Genesis /\ Parent[b] \in index \cap Failed \cap Checkpoint
    /\ ReconsiderBlock(Parent[b])
    /\ pc' = [pc EXCEPT ![th] = "pindex is null"]
    /\ UNCHANGED <<blockVars, rejected, tip, pblock, mostWork>>

\* ReprocessBlocks: the loop over mapRejectedBlocks takes cs_main for each block ...
ReprocessBlocks(th, b) ==
    /\ pc[th] \in {"idle", "reprocess"} /\ b \in rejected
    /\ ReconsiderBlock(b)
    /\ pc' = [pc EXCEPT ![th] = "reprocess"]
    /\ UNCHANGED <<blockVars, rejected, tip, pblock, mostWork>>

\* ... and then DisconnectBlocksAndReprocess disconnects n + 1 blocks.  The
\* genesis block has no undo data and stays.
DisconnectBlocksAndReprocess(th, n) ==
    /\ pc[th] \in {"idle", "reprocess"}
    /\ tip' = Highest({b \in Chain[tip] : b = Genesis \/ Height[b] <= Height[tip] - n - 1})
    /\ pc' = [pc EXCEPT ![th] = "activate"]
    /\ UNCHANGED <<blockVars, failedValid, failedChild, candidates, rejected, pblock, mostWork>>

-----------------------------------------------------------------------------
\* The node has loaded its block index from disk (LoadBlockIndexDB; only the
\* genesis block after InitBlockIndex): blocks L, all with their data and with
\* sequence id 0, with the active chain that the coins database ends in.  Blocks
\* that contradict a checkpoint may have been stored before it was added.
Init ==
    /\ \E L \in {S \in SUBSET (Block \ ContextBad) : Genesis \in S /\ \A b \in S : Chain[b] \subseteq S} :
          /\ index = L /\ data = L /\ linked = L
          /\ tip \in {b \in L : Chain[b] \cap Bad = {}}
    /\ seq = [b \in Block |-> 0] /\ nBlockSequenceId = 1
    /\ candidates = PruneBlockIndexCandidates(linked, tip)
    /\ unlinked = {} /\ failedValid = {} /\ failedChild = {} /\ rejected = {}
    /\ pc \in {[th \in Thread |-> IF th = first THEN "activate" ELSE "idle"] : first \in Thread}
    /\ pblock = [th \in Thread |-> NoBlock]
    /\ mostWork = [th \in Thread |-> NoBlock]

\* A thread goes on with ActivateBestChain.
Activate(th) == ActivateNothing(th) \/ ActivateBestChainStep(th) \/ ActivateBestChainLoop(th)

Next ==
  /\ \A th \in Thread : pc[th] # "pindex is null"
  /\ \E th \in Thread :
        \/ Activate(th)
        \/ \E b \in Block : \/ StoreBlock(th, b) \/ RepeatBlock(th, b) \/ RefuseBlock(th, b)
                            \/ WriteBlockFails(th, b) \/ AcceptBlockReconsiders(th, b)
                            \/ ReprocessBlocks(th, b)
        \/ \E b \in Operated : InvalidateBlock(th, b) \/ Reconsider(th, b)
        \/ \E n \in Reprocessed : DisconnectBlocksAndReprocess(th, n)

Spec == Init /\ [][Next]_vars

\* What a step of Activate(th), and no other, does to pc: it can be taken whenever
\* the thread is in ActivateBestChain.
Continues(th) ==
    /\ pc[th] \in {"activate", "test"}
    /\ \E at \in {"idle", "activate", "test"} \ {pc[th]} : pc' = [pc EXCEPT ![th] = at]

\* A thread in ActivateBestChain does not stop, nor is it kept from cs_main forever.
FairSpec == Spec /\ \A th \in Thread : WF_pc(Continues(th))

\* The same for a node that starts with an empty data directory.
FreshSpec == index = {Genesis} /\ FairSpec

-----------------------------------------------------------------------------
(* Properties                                                              *)

TypeOK ==
    /\ index \subseteq Block /\ data \subseteq index /\ linked \subseteq data
    /\ failedValid \subseteq index /\ failedChild \subseteq index
    /\ seq \in [Block -> Nat] /\ nBlockSequenceId \in Nat
    /\ candidates \subseteq linked /\ unlinked \subseteq data \ linked
    /\ rejected \subseteq Disputed /\ tip \in linked
    /\ pc \in [Thread -> {"idle", "activate", "test", "reprocess", "pindex is null"}]
    /\ pblock \in [Thread -> Block \cup {NoBlock}]
    /\ mostWork \in [Thread -> Block \cup {NoBlock}]

\* CheckBlockIndex: nChainTx is set exactly for the blocks that have their data and
\* that of all their ancestors, only those have a sequence id, and
\* mapBlocksUnlinked holds exactly the other blocks that have their data.
LinkedIffComplete ==
    /\ \A b \in index : b \in linked <=> Chain[b] \subseteq data
    /\ \A b \in Block \ linked : seq[b] = 0
    /\ unlinked = data \ linked

InvalidAncestor(b) == Chain[b] \cap failedValid # {}

\* CheckBlockIndex: a block without an invalid ancestor is not marked as failed.
FailedMaskSound == \A b \in index : b \in Failed => InvalidAncestor(b)

\* No block of the active chain is marked as failed, and none violates the rules.
ActiveChainIsValid == Chain[tip] \cap (Failed \cup Bad \cup ContextBad) = {}

Idle == \A th \in Thread : pc[th] = "idle"

\* CheckBlockIndex: a linked block that sorts at least as well as the tip, and has
\* no invalid ancestor, is a candidate.
CandidatesComplete ==
    \A b \in linked : ~Worse(b, tip) /\ ~InvalidAncestor(b) => b \in candidates

\* CheckBlockIndex: no candidate sorts worse than the tip.
CandidatesPruned == \A b \in candidates : ~Worse(b, tip)

\* When no thread is at work, the candidates are exactly as CheckBlockIndex wants them.
CandidatesWhenIdle == Idle => CandidatesComplete /\ CandidatesPruned

\* What ActivateBestChain promises ("The result is either failure or an activated
\* best chain"): when no thread is at work, no linked block without a failed
\* ancestor sorts better than the tip.
BestChainIsActive ==
    Idle => \A b \in linked : Chain[b] \cap Failed = {} => ~Worse(tip, b)

\* The sort key of a block does not change while the block is an element of the
\* ordered set setBlockIndexCandidates.
KeysOfCandidatesAreStable ==
    [][\A b \in candidates : seq'[b] = seq[b]]_vars

\* Without a spork, the tip only gets worse when a block on the way to a better chain
\* turned out to be invalid or was invalidated by the operator.
TipOnlyImproves ==
    [][Worse(tip, tip') \/ tip' = tip \/ failedValid' # failedValid]_vars

\* The operator does not reconsider blocks again and again without end.
OperatorRests == <>[][failedValid \subseteq failedValid']_vars

\* Every call of ActivateBestChain returns, if the operator rests.
ActivationReturns ==
    OperatorRests => \A th \in Thread : pc[th] = "activate" ~> pc[th] = "idle"
=============================================================================
