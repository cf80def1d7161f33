-------------------------- MODULE ChainPersistence --------------------------
(***************************************************************************)
(* What survives of the chain state when the process stops (main.cpp):     *)
(* FlushStateToDisk writes the block file information, then one record of  *)
(* the block tree database per dirty index entry, and at last the coins;   *)
(* LoadBlockIndexDB starts from whatever it finds.  The process may die    *)
(* between any two writes.                                                 *)
(*                                                                         *)
(* Which block is connected or disconnected next is the business of        *)
(* ChainState and left open here.  A coins database is abstracted to the   *)
(* blocks whose transactions were applied to it.  Each write of a database *)
(* is atomic, and what is lost with the page cache is lost as by an        *)
(* earlier death of the process.                                           *)
(***************************************************************************)
EXTENDS BlockTree, FiniteSets

CONSTANT ForceStart  \* -forcestart

ASSUME ChainPersistenceAssumption == ForceStart \in BOOLEAN

VARIABLES
    index,           \* mapBlockIndex
    undo,            \* blocks with BLOCK_HAVE_UNDO
    dirty,           \* setDirtyBlockIndex
    nHeightLast,     \* highest block of the last block file, vinfoBlockFile[nLastBlockFile]
    coins,           \* pcoinsTip
    tip,             \* chainActive.Tip()
    diskIndex,       \* the entries, ...
    diskUndo,        \* ... the entries with BLOCK_HAVE_UNDO, and ...
    diskHeightLast,  \* ... the file information of the block tree database
    diskPrepared,    \* its flag "shutdown"
    diskCoins,       \* the coins database
    pc,              \* where the process is
    target,          \* what UpdateTip is called with after the flush
    failed,          \* databases that a write has failed for since the start
    spoiled          \* whether coins were written after a failed write of them

memory == <<index, undo, dirty, nHeightLast, coins, tip>>
disk == <<diskIndex, diskUndo, diskHeightLast, diskPrepared, diskCoins>>
history == <<failed, spoiled>>
vars == <<memory, disk, pc, target, history>>

\* A UTXO set: the hash of its best block and the blocks applied to get there.
CoinsView == [best : Block, applied : SUBSET Block]

\* The UTXO set of the chain that ends in b.  The transactions of the genesis block
\* do not count.
UtxoSetOf(b) == [best |-> b, applied |-> Chain[b] \ {Genesis}]

-----------------------------------------------------------------------------
(* A running node                                                          *)

\* AcceptBlock stores a new block.
AcceptBlock(b) ==
    /\ pc = "run"
    /\ b \notin index /\ Parent[b] \in index
    /\ index' = index \cup {b} /\ dirty' = dirty \cup {b}
    /\ nHeightLast' = IF Height[b] > nHeightLast THEN Height[b] ELSE nHeightLast
    /\ UNCHANGED <<undo, coins, tip, disk, pc, target, history>>

\* ConnectTip: ConnectBlock applies the block and writes its undo data, then the
\* state is written if it is time to, and then the tip is updated.
ConnectTip(b) ==
    /\ pc = "run" /\ coins.best = tip
    /\ b \in index \ {Genesis} /\ Parent[b] = tip
    /\ coins' = [best |-> b, applied |-> coins.applied \cup {b}]
    /\ undo' = undo \cup {b} /\ dirty' = dirty \cup {b}
    /\ \/ tip' = b /\ UNCHANGED <<pc, target>>
       \/ pc' = "flush" /\ target' = b /\ UNCHANGED tip
    /\ UNCHANGED <<index, nHeightLast, disk, history>>

\* Mutant: the outputs of the block stay in the coins.
DisconnectTip_KeepsOutputs ==
    /\ pc = "run" /\ coins.best = tip
    /\ tip # Genesis /\ tip \in undo
    /\ coins' = [coins EXCEPT !.best = Parent[tip]]
    /\ pc' = "flush" /\ target' = Parent[tip]
    /\ UNCHANGED <<index, undo, dirty, nHeightLast, tip, disk, history>>

\* DisconnectTip: the state is always written before the tip is updated.
DisconnectTip ==
    /\ pc = "run" /\ coins.best = tip
    /\ tip # Genesis /\ tip \in undo
    /\ coins' = [best |-> Parent[tip], applied |-> coins.applied \ {tip}]
    /\ pc' = "flush" /\ target' = Parent[tip]
    /\ UNCHANGED <<index, undo, dirty, nHeightLast, tip, disk, history>>

\* The periodic flush at the end of ActivateBestChain.
FlushPeriodic ==
    /\ pc = "run"
    /\ pc' = "flush" /\ target' = tip
    /\ UNCHANGED <<memory, disk, history>>

\* Mutant: the flag is set without a flush.
PrepareShutdown_NoFlush ==
    /\ pc = "run"
    /\ pc' = "down" /\ diskPrepared' = TRUE
    /\ UNCHANGED <<memory, diskIndex, diskUndo, diskHeightLast, diskCoins, target, history>>

\* FlushStateAndDeallocateShallowDatabases, which always flushes.
PrepareShutdown ==
    /\ pc = "run"
    /\ pc' = "flush at exit" /\ target' = tip
    /\ UNCHANGED <<memory, disk, history>>

-----------------------------------------------------------------------------
(* FlushStateToDisk                                                        *)

\* WriteBlockFileInfo and WriteLastBlockFile.
WriteBlockFileInfo ==
    /\ pc \in {"flush", "flush at exit"}
    /\ diskHeightLast' = nHeightLast
    /\ pc' = IF pc = "flush" THEN "entries" ELSE "entries at exit"
    /\ UNCHANGED <<memory, diskIndex, diskUndo, diskPrepared, diskCoins, target, history>>

\* WriteBlockIndex of the dirty entry with the lowest address, the order of a
\* std::set<CBlockIndex*>.
WriteBlockIndex ==
    /\ pc \in {"entries", "entries at exit"}
    /\ \E b \in dirty :
          /\ \A d \in dirty : Addr[b] <= Addr[d]
          /\ diskIndex' = diskIndex \cup {b}
          /\ diskUndo' = diskUndo \cup ({b} \cap undo)
          /\ dirty' = dirty \ {b}
    /\ UNCHANGED <<index, undo, nHeightLast, coins, tip, diskHeightLast, diskPrepared,
                   diskCoins, pc, target, history>>

\* Mutant: the coins are written before the index entries.
FlushCoins_First ==
    /\ pc \in {"entries", "entries at exit"}
    /\ diskCoins' = coins
    /\ IF dirty # {} THEN UNCHANGED <<tip, pc, diskPrepared>>
       ELSE /\ tip' = target
            /\ pc' = IF pc = "entries" THEN "run" ELSE "down"
            /\ diskPrepared' = (diskPrepared \/ pc = "entries at exit")
    /\ UNCHANGED <<index, undo, dirty, nHeightLast, coins, diskIndex, diskUndo, diskHeightLast,
                   target, history>>

\* The block tree database is synchronized and pcoinsTip is flushed.
FlushCoins ==
    /\ pc \in {"entries", "entries at exit"} /\ dirty = {}
    /\ diskCoins' = coins
    /\ tip' = target
    /\ pc' = IF pc = "entries" THEN "run" ELSE "down"
    /\ diskPrepared' = (diskPrepared \/ pc = "entries at exit")
    /\ spoiled' = (spoiled \/ "coins" \in failed)
    /\ UNCHANGED <<index, undo, dirty, nHeightLast, coins, diskIndex, diskUndo, diskHeightLast,
                   target, failed>>

\* FlushStateToDisk requests a shutdown and returns false.  Until the threads are
\* stopped they go on; at exit, the failure is not noticed.
FlushFails ==
    /\ pc' = IF pc \in {"flush", "entries"} THEN "run" ELSE "down"
    /\ diskPrepared' = (diskPrepared \/ pc' = "down")
    /\ UNCHANGED <<index, undo, dirty, nHeightLast, tip, diskIndex, diskUndo, diskHeightLast,
                   diskCoins, target, spoiled>>

\* A write to the block tree database fails.
BlockTreeWriteFails ==
    /\ \/ pc \in {"flush", "flush at exit"}
       \/ pc \in {"entries", "entries at exit"} /\ dirty # {}
    /\ FlushFails
    /\ failed' = failed \cup {"tree"}
    /\ UNCHANGED coins

\* The write of the coins fails: CCoinsViewDB::BatchWrite has emptied the cache by
\* then, which keeps only the hash of the best block.
CoinsWriteFails ==
    /\ pc \in {"entries", "entries at exit"} /\ dirty = {}
    /\ FlushFails
    /\ failed' = failed \cup {"coins"}
    /\ coins' = [best |-> coins.best, applied |-> diskCoins.applied]

\* The process dies.
Crash ==
    /\ pc # "down"
    /\ pc' = "down"
    /\ UNCHANGED <<memory, disk, target, history>>

-----------------------------------------------------------------------------
(* LoadBlockIndexDB                                                        *)

\* vSortedByHeight[i] of the entries loaded: by height, then by address.
vSortedByHeight(i) ==
    CHOOSE b \in diskIndex :
        i = Cardinality({a \in diskIndex : \/ Height[a] < Height[b]
                                           \/ Height[a] = Height[b] /\ Addr[a] < Addr[b]})

pindexLastMeta == vSortedByHeight(diskHeightLast + 1)

\* The condition for replaying blocks after an unclean shutdown.
OutOfSync ==
    /\ ~diskPrepared /\ ~ForceStart
    /\ Cardinality(diskIndex) > diskHeightLast + 1
    /\ diskCoins.best # pindexLastMeta

\* The positions in vSortedByHeight that the replay walks over, starting with the
\* first block one above the coins: up to one as high as pindexLastMeta, or the end.
Replayed ==
    LET above == {i \in 0 .. Cardinality(diskIndex) - 1 :
                     Height[vSortedByHeight(i)] > Height[diskCoins.best]}
    IN  {i \in above : \A j \in above : j < i =>
                           Height[vSortedByHeight(j)] < Height[pindexLastMeta]}

\* The coins after the replay.  When no block is above the coins the loop starts
\* with vSortedByHeight[0], the genesis block, at the last position, and ends after
\* it (having read, and not used, the element past the end).
ReplayedCoins ==
    IF Replayed = {}
    THEN [best |-> Genesis, applied |-> diskCoins.applied \cup {Genesis}]
    ELSE [best |-> vSortedByHeight(CHOOSE i \in Replayed : \A j \in Replayed : j <= i),
          applied |-> diskCoins.applied \cup {vSortedByHeight(i) : i \in Replayed}]

\* VerifyDB: nothing is checked when only the genesis block is active; otherwise the
\* last blocks are disconnected from a copy, which takes their undo data and outputs.
VerifyDB(view) ==
    view.best = Genesis \/ Chain[view.best] \ {Genesis} \subseteq view.applied \cap diskUndo

\* LoadBlockIndexDB and VerifyDB.  When a check fails the node does not start.
\* A block whose parent has no record gets a parent that is neither in the tree nor
\* complete; what the node does with such an index is left open.
LoadBlockIndexDB ==
    /\ pc = "down"
    /\ LET whole == \A b \in diskIndex \ {Genesis} : Parent[b] \in diskIndex
           view == IF whole /\ OutOfSync THEN ReplayedCoins ELSE diskCoins
       IN  /\ coins' = view /\ diskCoins' = view /\ tip' = view.best
           /\ pc' = IF whole /\ VerifyDB(view) THEN "run" ELSE "broken"
    /\ index' = diskIndex /\ undo' = diskUndo /\ dirty' = {}
    /\ nHeightLast' = diskHeightLast
    /\ diskPrepared' = FALSE /\ failed' = {}
    /\ UNCHANGED <<diskIndex, diskUndo, diskHeightLast, target, spoiled>>

-----------------------------------------------------------------------------
\* InitBlockIndex has written the genesis block.
Init ==
    /\ index = {Genesis} /\ undo = {} /\ dirty = {} /\ nHeightLast = 0
    /\ coins = UtxoSetOf(Genesis) /\ tip = Genesis
    /\ diskIndex = {Genesis} /\ diskUndo = {} /\ diskHeightLast = 0
    /\ diskPrepared = FALSE /\ diskCoins = UtxoSetOf(Genesis)
    /\ pc = "run" /\ target = Genesis /\ failed = {} /\ spoiled = FALSE

Next ==
    \/ \E b \in Block : AcceptBlock(b) \/ ConnectTip(b)
    \/ DisconnectTip \/ FlushPeriodic \/ PrepareShutdown
    \/ WriteBlockFileInfo \/ WriteBlockIndex \/ FlushCoins
    \/ BlockTreeWriteFails \/ CoinsWriteFails
    \/ Crash \/ LoadBlockIndexDB

Spec == Init /\ [][Next]_vars

-----------------------------------------------------------------------------
(* Properties                                                              *)

TypeOK ==
    /\ index \subseteq Block /\ undo \subseteq index /\ dirty \subseteq index
    /\ nHeightLast \in Nat /\ diskHeightLast \in Nat
    /\ coins \in CoinsView /\ diskCoins \in CoinsView
    /\ tip \in Block /\ target \in Block
    /\ diskIndex \subseteq Block /\ diskUndo \subseteq diskIndex
    /\ diskPrepared \in BOOLEAN
    /\ pc \in {"run", "flush", "flush at exit", "entries", "entries at exit", "down", "broken"}
    /\ failed \subseteq {"tree", "coins"} /\ spoiled \in BOOLEAN

\* "Finally flush the chainstate (which may refer to block index entries)": at every
\* moment, and so after a death at any moment or a failed write, the best block of the
\* coins database and all its ancestors have their entries, with undo data, in the
\* block tree database, and the coins are the UTXO set of that block, unless coins
\* were written again by a process for which a write of them had failed.
DiskIsRecoverable ==
    /\ spoiled \/ diskCoins = UtxoSetOf(diskCoins.best)
    /\ Chain[diskCoins.best] \subseteq diskIndex
    /\ Chain[diskCoins.best] \ {Genesis} \subseteq diskUndo

\* "Retrieve the block hash whose state this CCoinsView currently represents": the
\* same without the exception.
CoinsAreThoseOfBestBlock == diskCoins = UtxoSetOf(diskCoins.best)

\* "manually add all transactions that occurred for each block up until the best
\* known block": a node that has started, and for which no write has failed, has the
\* UTXO set of its tip.
CoinsAreThoseOfTip == pc = "run" /\ failed = {} /\ ~spoiled => coins = UtxoSetOf(tip)

\* After a shutdown without a failed write nothing is lost: the databases hold the
\* index, the coins and the tip that the node had.
ShutdownLosesNothing ==
    pc = "down" /\ diskPrepared /\ failed = {} =>
        diskIndex = index /\ diskUndo = undo /\ diskCoins = coins /\ diskCoins.best = tip

=============================================================================
