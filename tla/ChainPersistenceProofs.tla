----------------------- MODULE ChainPersistenceProofs -----------------------
(***************************************************************************)
(* For every block tree and every order of connecting, disconnecting,      *)
(* flushing and dying: started with -forcestart, which leaves out the      *)
(* replay of LoadBlockIndexDB, a node always finds a usable state on disk. *)
(***************************************************************************)
EXTENDS ChainPersistence, TLAPS

Live == pc \notin {"down", "broken"}
Flushing == pc \in {"flush", "flush at exit", "entries", "entries at exit"}
AtExit == pc \in {"flush at exit", "entries at exit"}

\* The coins in memory and on disk have not lost changes.
Intact == "coins" \notin failed /\ ~spoiled

\* The coins in memory are those of their best block, if they are intact, and that
\* block and its ancestors are in the index with their undo data.
MemoryIsComplete ==
    Live => /\ Intact => coins = UtxoSetOf(coins.best)
            /\ Chain[coins.best] \subseteq index
            /\ Chain[coins.best] \ {Genesis} \subseteq undo

\* What the block tree database lacks is dirty, and it has nothing else.
DirtyIsEnough ==
    Live => /\ diskIndex \subseteq index /\ diskUndo \subseteq undo
            /\ index \ diskIndex \subseteq dirty /\ undo \ diskUndo \subseteq dirty

\* Where the coins are, as long as no write fails, and what the flag says.
CoinsFollowTip ==
    failed = {} => /\ pc = "run" => coins.best = tip
                   /\ Flushing => coins.best = target
                   /\ ShutdownLosesNothing

FlagOnlyWhenDown == pc # "down" => ~diskPrepared

IInv ==
    /\ TypeOK /\ DiskIsRecoverable /\ MemoryIsComplete /\ DirtyIsEnough
    /\ CoinsFollowTip /\ FlagOnlyWhenDown

-----------------------------------------------------------------------------
\* A UTXO set named by its best block is one.
LEMMA UtxoSetType ==
  ASSUME NEW b \in Block
  PROVE  UtxoSetOf(b) \in CoinsView /\ UtxoSetOf(b).best = b
  BY BlockTreeAssumption DEF UtxoSetOf, CoinsView

\* Connecting b on top of its parent leads to the UTXO set of b.
LEMMA Connects ==
  ASSUME NEW b \in Block \ {Genesis}
  PROVE  /\ Parent[b] \in Block
         /\ UtxoSetOf(b) = [best |-> b, applied |-> UtxoSetOf(Parent[b]).applied \cup {b}]
         /\ UtxoSetOf(Parent[b]) = [best |-> Parent[b], applied |-> UtxoSetOf(b).applied \ {b}]
         /\ Chain[b] = {b} \cup Chain[Parent[b]]
  <1>1. Parent[b] \in Block
    BY BlockTreeAssumption
  <1>2. Chain[b] = {b} \cup Chain[Parent[b]] /\ b \notin Chain[Parent[b]]
    BY BlockTreeAssumption
  <1>3. Chain[b] \ {Genesis} = (Chain[Parent[b]] \ {Genesis}) \cup {b}
    BY <1>2
  <1>4. Chain[Parent[b]] \ {Genesis} = (Chain[b] \ {Genesis}) \ {b}
    BY <1>2
  <1> QED
    BY <1>1, <1>2, <1>3, <1>4, SMTT(30) DEF UtxoSetOf

\* The initial state satisfies the invariant.
LEMMA InitIInv == Init => IInv
  <1> SUFFICES ASSUME Init PROVE IInv
    OBVIOUS
  <1>1. Genesis \in Block /\ Chain[Genesis] = {Genesis}
    BY BlockTreeAssumption
  <1>2. TypeOK
    BY <1>1, UtxoSetType DEF Init, TypeOK
  <1>3. DiskIsRecoverable /\ MemoryIsComplete
    BY <1>1, UtxoSetType DEF Init, DiskIsRecoverable, MemoryIsComplete
  <1>4. DirtyIsEnough /\ CoinsFollowTip /\ FlagOnlyWhenDown
    BY <1>1, UtxoSetType DEF Init, DirtyIsEnough, CoinsFollowTip, FlagOnlyWhenDown, Flushing,
       ShutdownLosesNothing
  <1> QED
    BY <1>2, <1>3, <1>4 DEF IInv

\* Every step preserves the invariant when the replay is switched off.
LEMMA NextIInv == ASSUME ForceStart, IInv, [Next]_vars PROVE IInv'
  <1> USE DEF IInv, memory, disk, history, Intact
  <1>1. ASSUME NEW b \in Block, AcceptBlock(b) PROVE IInv'
    <2>1. TypeOK'
      BY <1>1, BlockTreeAssumption DEF AcceptBlock, TypeOK
    <2>2. DiskIsRecoverable' /\ MemoryIsComplete' /\ DirtyIsEnough'
      BY <1>1 DEF AcceptBlock, DiskIsRecoverable, MemoryIsComplete, DirtyIsEnough, Live, TypeOK
    <2>3. CoinsFollowTip' /\ FlagOnlyWhenDown'
      BY <1>1 DEF AcceptBlock, CoinsFollowTip, FlagOnlyWhenDown, Flushing, ShutdownLosesNothing
    <2> QED
      BY <2>1, <2>2, <2>3
  <1>2. ASSUME NEW b \in Block, ConnectTip(b) PROVE IInv'
    <2>1. b # Genesis /\ Parent[b] = tip /\ coins.best = tip /\ (Intact => coins = UtxoSetOf(tip))
      BY <1>2 DEF ConnectTip, MemoryIsComplete, Live
    <2>2. /\ Intact => coins' = UtxoSetOf(b)
          /\ Chain[b] = {b} \cup Chain[tip] /\ coins'.best = b
      BY <1>2, <2>1, Connects, UtxoSetType DEF ConnectTip
    <2>3. TypeOK'
      BY <1>2 DEF ConnectTip, TypeOK, CoinsView
    <2>4. MemoryIsComplete'
      BY <1>2, <2>1, <2>2 DEF ConnectTip, MemoryIsComplete, Live
    <2>5. DiskIsRecoverable' /\ DirtyIsEnough'
      BY <1>2 DEF ConnectTip, DiskIsRecoverable, DirtyIsEnough, Live, TypeOK
    <2>6. CoinsFollowTip' /\ FlagOnlyWhenDown'
      BY <1>2, <2>2 DEF ConnectTip, CoinsFollowTip, FlagOnlyWhenDown, Flushing,
         ShutdownLosesNothing
    <2> QED
      BY <2>3, <2>4, <2>5, <2>6
  <1>3. ASSUME DisconnectTip PROVE IInv'
    <2>1. tip \in Block \ {Genesis} /\ coins.best = tip /\ (Intact => coins = UtxoSetOf(tip))
      BY <1>3 DEF DisconnectTip, MemoryIsComplete, Live, TypeOK
    <2>2. /\ Parent[tip] \in Block /\ (Intact => coins' = UtxoSetOf(Parent[tip]))
          /\ Chain[tip] = {tip} \cup Chain[Parent[tip]] /\ coins'.best = Parent[tip]
      BY <1>3, <2>1, Connects, UtxoSetType DEF DisconnectTip
    <2>3. TypeOK'
      BY <1>3, <2>2 DEF DisconnectTip, TypeOK, CoinsView
    <2>4. MemoryIsComplete'
      BY <1>3, <2>1, <2>2 DEF DisconnectTip, MemoryIsComplete, Live
    <2>5. DiskIsRecoverable' /\ DirtyIsEnough'
      BY <1>3 DEF DisconnectTip, DiskIsRecoverable, DirtyIsEnough, Live
    <2>6. CoinsFollowTip' /\ FlagOnlyWhenDown'
      BY <1>3, <2>2 DEF DisconnectTip, CoinsFollowTip, FlagOnlyWhenDown, Flushing,
         ShutdownLosesNothing
    <2> QED
      BY <2>3, <2>4, <2>5, <2>6
  <1>4. ASSUME FlushPeriodic \/ PrepareShutdown \/ WriteBlockFileInfo PROVE IInv'
    <2>1. TypeOK'
      <3>1. CASE FlushPeriodic \/ PrepareShutdown
        BY <3>1 DEF FlushPeriodic, PrepareShutdown, TypeOK
      <3>2. CASE WriteBlockFileInfo
        BY <3>2 DEF WriteBlockFileInfo, TypeOK
      <3> QED
        BY <1>4, <3>1, <3>2
    <2>2. DiskIsRecoverable' /\ MemoryIsComplete' /\ DirtyIsEnough'
      BY <1>4 DEF FlushPeriodic, PrepareShutdown, WriteBlockFileInfo, DiskIsRecoverable,
         MemoryIsComplete, DirtyIsEnough, Live
    <2>3. CoinsFollowTip'
      BY <1>4 DEF FlushPeriodic, PrepareShutdown, WriteBlockFileInfo, CoinsFollowTip, Flushing,
         ShutdownLosesNothing
    <2>4. FlagOnlyWhenDown'
      BY <1>4 DEF FlushPeriodic, PrepareShutdown, WriteBlockFileInfo, FlagOnlyWhenDown
    <2> QED
      BY <2>1, <2>2, <2>3, <2>4
  <1>5. ASSUME WriteBlockIndex PROVE IInv'
    <2>1. TypeOK' /\ FlagOnlyWhenDown'
      BY <1>5 DEF WriteBlockIndex, TypeOK, FlagOnlyWhenDown
    <2>2. DiskIsRecoverable' /\ MemoryIsComplete'
      BY <1>5 DEF WriteBlockIndex, DiskIsRecoverable, MemoryIsComplete, Live
    <2>3. DirtyIsEnough'
      BY <1>5 DEF WriteBlockIndex, DirtyIsEnough, Live, TypeOK
    <2>4. CoinsFollowTip'
      BY <1>5 DEF WriteBlockIndex, CoinsFollowTip, Flushing, ShutdownLosesNothing
    <2> QED
      BY <2>1, <2>2, <2>3, <2>4
  <1>6. ASSUME FlushCoins PROVE IInv'
    <2>1. Live /\ diskIndex = index /\ diskUndo = undo
      BY <1>6 DEF FlushCoins, Live, DirtyIsEnough
    <2>2. TypeOK' /\ FlagOnlyWhenDown'
      BY <1>6 DEF FlushCoins, TypeOK, FlagOnlyWhenDown
    <2>3. DiskIsRecoverable' /\ MemoryIsComplete' /\ DirtyIsEnough'
      BY <1>6, <2>1 DEF FlushCoins, DiskIsRecoverable, MemoryIsComplete, DirtyIsEnough, Live
    <2>4. CoinsFollowTip'
      BY <1>6, <2>1 DEF FlushCoins, CoinsFollowTip, Flushing, ShutdownLosesNothing
    <2> QED
      BY <2>2, <2>3, <2>4
  <1>7. ASSUME BlockTreeWriteFails PROVE IInv'
    <2>1. TypeOK' /\ FlagOnlyWhenDown'
      BY <1>7 DEF BlockTreeWriteFails, FlushFails, TypeOK, FlagOnlyWhenDown
    <2>2. DiskIsRecoverable' /\ MemoryIsComplete' /\ DirtyIsEnough'
      BY <1>7 DEF BlockTreeWriteFails, FlushFails, DiskIsRecoverable, MemoryIsComplete,
         DirtyIsEnough, Live
    <2>3. CoinsFollowTip'
      BY <1>7 DEF BlockTreeWriteFails, CoinsFollowTip
    <2> QED
      BY <2>1, <2>2, <2>3
  <1>8. ASSUME CoinsWriteFails PROVE IInv'
    <2>1. coins'.best = coins.best /\ coins' \in CoinsView
      BY <1>8 DEF CoinsWriteFails, TypeOK, CoinsView
    <2>2. TypeOK' /\ FlagOnlyWhenDown'
      BY <1>8, <2>1 DEF CoinsWriteFails, FlushFails, TypeOK, FlagOnlyWhenDown
    <2>3. DiskIsRecoverable' /\ MemoryIsComplete' /\ DirtyIsEnough'
      BY <1>8, <2>1 DEF CoinsWriteFails, FlushFails, DiskIsRecoverable, MemoryIsComplete,
         DirtyIsEnough, Live
    <2>4. CoinsFollowTip'
      BY <1>8 DEF CoinsWriteFails, CoinsFollowTip
    <2> QED
      BY <2>2, <2>3, <2>4
  <1>9. ASSUME Crash PROVE IInv'
    BY <1>9 DEF Crash, TypeOK, DiskIsRecoverable, MemoryIsComplete, DirtyIsEnough, Live,
       CoinsFollowTip, FlagOnlyWhenDown, Flushing, ShutdownLosesNothing
  <1>10. ASSUME LoadBlockIndexDB PROVE IInv'
    <2>1. coins' = diskCoins /\ diskCoins' = diskCoins /\ tip' = diskCoins.best
      BY <1>10 DEF LoadBlockIndexDB, OutOfSync
    <2>2. pc' \in {"run", "broken"}
      BY <1>10 DEF LoadBlockIndexDB
    <2>3. diskCoins.best \in Block
      BY DEF TypeOK, CoinsView
    <2>4. TypeOK' /\ FlagOnlyWhenDown'
      BY <1>10, <2>1, <2>2, <2>3 DEF LoadBlockIndexDB, TypeOK, FlagOnlyWhenDown
    <2>5. DiskIsRecoverable' /\ MemoryIsComplete' /\ DirtyIsEnough'
      BY <1>10, <2>1 DEF LoadBlockIndexDB, DiskIsRecoverable, MemoryIsComplete, DirtyIsEnough
    <2>6. CoinsFollowTip'
      BY <2>1, <2>2 DEF CoinsFollowTip, Flushing, ShutdownLosesNothing
    <2> QED
      BY <2>4, <2>5, <2>6
  <1>11. ASSUME UNCHANGED vars PROVE IInv'
    BY <1>11 DEF vars, TypeOK, DiskIsRecoverable, MemoryIsComplete, DirtyIsEnough, Live,
       CoinsFollowTip, FlagOnlyWhenDown, Flushing, ShutdownLosesNothing
  <1> QED
    BY <1>1, <1>2, <1>3, <1>4, <1>5, <1>6, <1>7, <1>8, <1>9, <1>10,
       <1>11 DEF Next

-----------------------------------------------------------------------------
\* The inductive invariant holds in every reachable state of a node that does not
\* replay blocks when it starts.
THEOREM Invariance == ASSUME ForceStart PROVE Spec => []IInv
  <1>1. Init => IInv
    BY InitIInv
  <1>2. IInv /\ [Next]_vars => IInv'
    BY NextIInv
  <1> QED
    BY <1>1, <1>2, PTL DEF Spec

\* The variables keep their types.
THEOREM TypeCorrect == ASSUME ForceStart PROVE Spec => []TypeOK
  <1>1. IInv => TypeOK
    BY DEF IInv
  <1> QED
    BY <1>1, Invariance, PTL

\* FlushStateToDisk's order of writes: whenever the process dies, and even if writes
\* fail, the best block of the coins database and its whole chain are in the block
\* tree database with undo data, and the coins are the UTXO set of that block unless
\* coins were written after a failed write of them.
THEOREM DiskAlwaysRecoverable == ASSUME ForceStart PROVE Spec => []DiskIsRecoverable
  <1>1. IInv => DiskIsRecoverable
    BY DEF IInv
  <1> QED
    BY <1>1, Invariance, PTL

\* As long as no write fails, a running node has the UTXO set of its tip, before and
\* after any number of crashes and restarts.
THEOREM CoinsAlwaysThoseOfTip == ASSUME ForceStart PROVE Spec => []CoinsAreThoseOfTip
  <1>1. IInv => CoinsAreThoseOfTip
    BY DEF IInv, CoinsFollowTip, MemoryIsComplete, Live, Intact, CoinsAreThoseOfTip
  <1> QED
    BY <1>1, Invariance, PTL

\* As long as no write fails, an orderly shutdown leaves index, undo data, coins and
\* tip on disk as they were in memory.
THEOREM ShutdownIsComplete == ASSUME ForceStart PROVE Spec => []ShutdownLosesNothing
  <1>1. IInv => ShutdownLosesNothing
    BY DEF IInv, CoinsFollowTip, ShutdownLosesNothing
  <1> QED
    BY <1>1, Invariance, PTL
=============================================================================
