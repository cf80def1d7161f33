--------------------------- MODULE MempoolProofs ---------------------------
(***************************************************************************)
(* For all transactions and blocks: mapNextTx is the inverse of the inputs *)
(* of the pool, and whenever cs_main is free every input of a transaction  *)
(* in the pool is available.                                               *)
(*                                                                         *)
(* The second fact does not hold while a block is connected or             *)
(* disconnected.  What does hold is that an input that is not available    *)
(* belongs to a part of the block that the loop has still to come to:      *)
(* Accounted.  That a confirmed transaction may leave its descendants in   *)
(* the pool needs OutputsOfBlock, and all the rest that a removal takes    *)
(* the descendants along (DescendantsGo).                                  *)
(***************************************************************************)
EXTENDS Mempool, TLAPS

\* The positions of the block that the loop has not come to yet.
Ahead == at .. Len(vtx)

\* An input is available, or about to be looked at.
AccountedFor(o) ==
    \/ Available(o)
    \/ pc = "connect" /\ \E j \in Ahead : o \in Inputs[vtx[j]]
    \/ pc = "disconnect" /\ \E j \in Ahead : o \in Outputs[vtx[j]]

Accounted == \A t \in mapTx : \A o \in Inputs[t] : AccountedFor(o)

\* An output of the block being connected is in the coins or spent further on.
OutputsOfBlock ==
    pc = "connect" =>
        \A j \in Ahead : \A o \in Outputs[vtx[j]] :
            o \in coins \/ \E k \in j + 1 .. Len(vtx) : o \in Inputs[vtx[k]]

InLoop == pc \in {"connect", "disconnect"} => at \in 1 .. Len(vtx)

\* A connected block has a coinbase and spent what some transaction created.
Connected ==
    \A h \in DOMAIN chain :
        chain[h] # <<>> /\ \A i \in DOMAIN chain[h] : Inputs[chain[h][i]] \subseteq CreatedBy(Tx)

IInv == TypeOK /\ InLoop /\ NextTxIsInverse /\ Accounted /\ OutputsOfBlock /\ Connected

-----------------------------------------------------------------------------
(* Removals                                                                *)

\* What a recursive removal starts with is removed.
LEMMA FirstGo ==
    ASSUME NEW first, NEW t \in first \cap mapTx
    PROVE  t \in WithDescendants(first)
BY DEF WithDescendants

\* A recursive removal takes along what spends an output of a removed transaction.
LEMMA DescendantsGo ==
    ASSUME NextTxIsInverse, NEW first, NEW t \in WithDescendants(first),
           NEW x \in mapTx, NEW o \in Inputs[x] \cap Outputs[t]
    PROVE  x \in WithDescendants(first)
<1>1. o \in DOMAIN mapNextTx /\ mapNextTx[o] = x
  BY DEF NextTxIsInverse
<1>2. x \in Spenders(t)
  BY <1>1 DEF Spenders
<1> QED
  BY <1>2 DEF WithDescendants

\* Only transactions of the pool are removed.
LEMMA GoneInPool == \A first : WithDescendants(first) \subseteq mapTx
BY DEF WithDescendants

\* Erase keeps mapNextTx the inverse of the inputs.
LEMMA EraseKeepsInverse ==
    ASSUME NextTxIsInverse, NEW gone \in SUBSET mapTx, Erase(gone)
    PROVE  NextTxIsInverse'
<1>1. \A t : t \in mapTx' <=> t \in mapTx /\ t \notin gone
  BY DEF Erase
<1>2. \A o : o \in DOMAIN mapNextTx' <=> o \in DOMAIN mapNextTx /\ \A t \in gone : o \notin Inputs[t]
  BY DEF Erase, SpentBy
<1>3. \A o \in DOMAIN mapNextTx' : mapNextTx'[o] = mapNextTx[o]
  BY DEF Erase
<1>4. ASSUME NEW t \in mapTx', NEW o \in Inputs[t] PROVE o \in DOMAIN mapNextTx' /\ mapNextTx'[o] = t
  BY <1>1, <1>2, <1>3 DEF NextTxIsInverse
<1>5. ASSUME NEW o \in DOMAIN mapNextTx' PROVE mapNextTx'[o] \in mapTx' /\ o \in Inputs[mapNextTx'[o]]
  BY <1>1, <1>2, <1>3 DEF NextTxIsInverse
<1> QED
  BY <1>4, <1>5 DEF NextTxIsInverse

\* addUnchecked keeps it too, for a transaction that conflicts with none in the pool.
LEMMA AddKeepsInverse ==
    ASSUME NextTxIsInverse, NEW t \in Tx, Inputs[t] \cap DOMAIN mapNextTx = {}, addUnchecked(t)
    PROVE  NextTxIsInverse'
<1>1. \A o : o \in DOMAIN mapNextTx' <=> o \in DOMAIN mapNextTx \/ o \in Inputs[t]
  BY DEF addUnchecked
<1>2. \A o \in Inputs[t] : mapNextTx'[o] = t
  BY DEF addUnchecked
<1>3. \A o \in DOMAIN mapNextTx : mapNextTx'[o] = mapNextTx[o]
  BY DEF addUnchecked
<1>4. \A x : x \in mapTx' <=> x \in mapTx \/ x = t
  BY DEF addUnchecked
<1>5. ASSUME NEW x \in mapTx', NEW o \in Inputs[x] PROVE o \in DOMAIN mapNextTx' /\ mapNextTx'[o] = x
  BY <1>1, <1>2, <1>3, <1>4 DEF NextTxIsInverse
<1>6. ASSUME NEW o \in DOMAIN mapNextTx' PROVE mapNextTx'[o] \in mapTx' /\ o \in Inputs[mapNextTx'[o]]
  BY <1>1, <1>2, <1>3, <1>4 DEF NextTxIsInverse
<1> QED
  BY <1>5, <1>6 DEF NextTxIsInverse

\* A removal with all the descendants leaves every input that was accounted for
\* and available as it was.
LEMMA EraseKeepsAvailable ==
    ASSUME MempoolAssumption, mapTx \subseteq Tx, NextTxIsInverse, NEW first,
           Erase(WithDescendants(first)), UNCHANGED coins,
           NEW t \in mapTx', NEW o \in Inputs[t], Available(o)
    PROVE  Available(o)'
<1>1. t \in mapTx /\ t \notin WithDescendants(first)
  BY DEF Erase
<1>2. CASE o[1] \in mapTx
  <2>1. o \in Outputs[o[1]]
    BY <1>2 DEF Available
  <2>2. o[1] \notin WithDescendants(first)
    BY <1>1, <2>1, DescendantsGo
  <2>3. o[1] \in mapTx'
    BY <1>2, <2>2 DEF Erase
  <2> QED BY <2>1, <2>3 DEF Available
<1>3. CASE o[1] \notin mapTx
  BY <1>3 DEF Available, Erase
<1> QED BY <1>2, <1>3

\* A transaction that enters the pool does not make another's input unavailable.
LEMMA AddKeepsAvailable ==
    ASSUME MempoolAssumption, coins \subseteq CreatedBy(Tx), NEW t \in Tx, addUnchecked(t),
           UNCHANGED coins, NEW o, Available(o)
    PROVE  Available(o)'
<1>1. CASE o[1] \in mapTx
  BY <1>1 DEF Available, addUnchecked
<1>2. CASE o[1] \notin mapTx
  <2>1. o \in coins
    BY <1>2 DEF Available
  <2>2. PICK c \in Tx : o \in Outputs[c]
    BY <2>1 DEF CreatedBy
  <2>3. o[1] = c
    BY <2>2 DEF MempoolAssumption
  <2> QED BY <2>1, <2>2, <2>3 DEF Available
<1> QED BY <1>1, <1>2

-----------------------------------------------------------------------------
(* One lemma per action                                                    *)

\* mapNextTx has its type when it is the inverse of the inputs.
LEMMA InverseType ==
    ASSUME mapTx \subseteq Tx, NextTxIsInverse
    PROVE  DOMAIN mapNextTx \subseteq SpentBy(Tx) /\ \A o \in DOMAIN mapNextTx : mapNextTx[o] \in Tx
BY DEF NextTxIsInverse, SpentBy

\* The conjuncts of TypeOK that only the pool can disturb.
PoolType == mapTx \subseteq Tx \ Generated

\* The others.
ChainType ==
    /\ coins \subseteq CreatedBy(Tx)
    /\ chain \in Seq(Block) /\ vtx \in Seq(Tx) /\ at \in 0 .. Len(vtx)
    /\ pc \in {"idle", "connect", "disconnect", "coinbases"}

\* TypeOK in terms of its parts.
LEMMA TypeParts == NextTxIsInverse /\ PoolType /\ ChainType => TypeOK
BY InverseType DEF TypeOK, PoolType, ChainType

\* The same for the next state.
LEMMA TypePartsNext == NextTxIsInverse' /\ PoolType' /\ ChainType' => TypeOK'
BY TypeParts, PTL

\* The initial state satisfies the inductive invariant.
LEMMA InitIInv == MempoolAssumption /\ MempoolInit => IInv
<1> SUFFICES ASSUME MempoolAssumption, MempoolInit PROVE IInv
  OBVIOUS
<1>1. NextTxIsInverse
  BY DEF MempoolInit, NextTxIsInverse
<1>2. PoolType /\ ChainType
  BY DEF MempoolInit, PoolType, ChainType
<1>3. InLoop /\ Accounted /\ OutputsOfBlock /\ Connected
  BY DEF MempoolInit, InLoop, Accounted, OutputsOfBlock, Connected
<1> QED BY <1>1, <1>2, <1>3, TypeParts DEF IInv

\* A transaction that AcceptToMemoryPool lets in conflicts with none and has its inputs.
LEMMA AddKeeps ==
    ASSUME MempoolAssumption, IInv, NEW t \in Tx, Acceptable(t), addUnchecked(t), UNCHANGED coins
    PROVE  /\ PoolType' /\ NextTxIsInverse'
           /\ \A x \in mapTx : \A o \in Inputs[x] : Available(o) => Available(o)'
           /\ \A o \in Inputs[t] : Available(o)'
<1>1. t \notin Generated /\ Inputs[t] \cap DOMAIN mapNextTx = {}
  BY DEF Acceptable, IsNew
<1>2. PoolType'
  BY <1>1 DEF PoolType, addUnchecked, IInv, TypeOK
<1>3. NextTxIsInverse'
  BY <1>1, AddKeepsInverse DEF IInv
<1>4. ASSUME NEW o, Available(o) PROVE Available(o)'
  BY <1>4, AddKeepsAvailable DEF IInv, TypeOK
<1>5. \A o \in Inputs[t] : Available(o)'
  BY <1>4 DEF Acceptable
<1> QED BY <1>2, <1>3, <1>4, <1>5

\* AcceptToMemoryPool.
LEMMA AcceptKeeps ==
    ASSUME MempoolAssumption, IInv, NEW t \in Tx, AcceptToMemoryPool(t)
    PROVE  IInv'
<1>1. /\ Acceptable(t) /\ addUnchecked(t) /\ UNCHANGED <<coins, chain, pc, vtx, at>> /\ pc = "idle"
  BY DEF AcceptToMemoryPool, chainVars
<1>2. /\ PoolType' /\ NextTxIsInverse'
      /\ \A x \in mapTx : \A o \in Inputs[x] : Available(o) => Available(o)'
      /\ \A o \in Inputs[t] : Available(o)'
  BY <1>1, AddKeeps
<1>3. ChainType'
  BY <1>1 DEF IInv, TypeOK, ChainType
<1>4. TypeOK'
  BY <1>2, <1>3, TypePartsNext
<1>5. Accounted'
  <2> SUFFICES ASSUME NEW x \in mapTx', NEW o \in Inputs[x] PROVE Available(o)'
    BY DEF Accounted, AccountedFor
  <2>1. CASE x = t
    BY <2>1, <1>2
  <2>2. CASE x \in mapTx
    BY <2>2, <1>1, <1>2 DEF IInv, Accounted, AccountedFor
  <2> QED BY <2>1, <2>2, <1>1 DEF addUnchecked
<1>6. InLoop' /\ OutputsOfBlock' /\ Connected'
  BY <1>1 DEF IInv, InLoop, OutputsOfBlock, Connected
<1> QED BY <1>2, <1>4, <1>5, <1>6 DEF IInv

\* In a block that ConnectBlock accepts, an output is spent after it is created.
LEMMA SpentLater ==
    ASSUME MempoolAssumption, NEW b \in Block, ConnectBlock(b),
           NEW j \in DOMAIN b, NEW k \in DOMAIN b, NEW o \in Outputs[b[j]], o \in Inputs[b[k]]
    PROVE  k > j
<1> SUFFICES ASSUME k <= j PROVE FALSE
  BY DEF MempoolAssumption
<1>1. b \in Seq(Tx) /\ DOMAIN b = 1 .. Len(b) /\ Len(b) \in Nat
  BY DEF MempoolAssumption
<1>2. o \notin coins
  BY DEF ConnectBlock
<1>3. PICK i \in 1 .. k - 1 : o \in Outputs[b[i]]
  BY <1>2 DEF ConnectBlock
<1>4. i \in DOMAIN b /\ i < j /\ b[i] \in Tx /\ b[j] \in Tx
  BY <1>1
<1>5. b[i] = b[j]
  BY <1>3, <1>4 DEF MempoolAssumption
<1>6. b[j] \notin Generated
  BY <1>4, <1>1 DEF ConnectBlock
<1>7. PICK p \in Inputs[b[j]] : TRUE
  BY <1>4, <1>6 DEF MempoolAssumption
<1>8. i \in 1 .. j - 1
  BY <1>1, <1>4
<1>9. p \notin Inputs[b[i]]
  BY <1>7, <1>8 DEF ConnectBlock
<1> QED BY <1>5, <1>7, <1>9

\* ConnectTip.
LEMMA ConnectKeeps ==
    ASSUME MempoolAssumption, IInv, NEW b \in Block, ConnectTip(b)
    PROVE  IInv'
<1>1. /\ pc = "idle" /\ ConnectBlock(b) /\ UNCHANGED <<mapTx, mapNextTx>>
      /\ coins' = (coins \cup CreatedBy(TxsOf(b))) \ SpentBy(TxsOf(b))
      /\ chain' = Append(chain, b) /\ pc' = "connect" /\ vtx' = b /\ at' = 1
  BY DEF ConnectTip, poolVars
<1>2. b \in Seq(Tx) /\ DOMAIN b = 1 .. Len(b) /\ Len(b) \in Nat \ {0} /\ b # <<>>
  BY <1>1 DEF MempoolAssumption, ConnectBlock
<1>3. \A o : o \in coins' <=> /\ o \in coins \/ \E j \in DOMAIN b : o \in Outputs[b[j]]
                              /\ \A j \in DOMAIN b : o \notin Inputs[b[j]]
  BY <1>1 DEF CreatedBy, SpentBy, TxsOf
<1>4. coins \subseteq CreatedBy(Tx) /\ chain \in Seq(Block)
  BY DEF IInv, TypeOK
<1>5. coins' \subseteq CreatedBy(Tx)
  BY <1>2, <1>3, <1>4 DEF CreatedBy
<1>6. chain' \in Seq(Block)
  BY <1>1, <1>4
<1>7. NextTxIsInverse' /\ PoolType'
  BY <1>1 DEF IInv, NextTxIsInverse, PoolType, TypeOK
<1>8. ChainType' /\ InLoop'
  BY <1>1, <1>2, <1>5, <1>6 DEF ChainType, InLoop
<1>9. Accounted'
  <2> SUFFICES ASSUME NEW x \in mapTx', NEW o \in Inputs[x] PROVE AccountedFor(o)'
    BY DEF Accounted
  <2>1. Available(o)
    BY <1>1 DEF IInv, Accounted, AccountedFor
  <2>2. CASE \E j \in DOMAIN b : o \in Inputs[b[j]]
    BY <2>2, <1>1, <1>2 DEF AccountedFor, Ahead
  <2>3. CASE \A j \in DOMAIN b : o \notin Inputs[b[j]]
    BY <2>1, <2>3, <1>1, <1>3 DEF AccountedFor, Available
  <2> QED BY <2>2, <2>3
<1>10. OutputsOfBlock'
  <2> SUFFICES ASSUME NEW j \in 1 .. Len(b), NEW o \in Outputs[b[j]], o \notin coins'
               PROVE  \E k \in j + 1 .. Len(b) : o \in Inputs[b[k]]
    BY <1>1 DEF OutputsOfBlock, Ahead
  <2>1. PICK k \in DOMAIN b : o \in Inputs[b[k]]
    BY <1>2, <1>3
  <2>2. k > j
    BY <1>1, <1>2, <2>1, SpentLater
  <2> QED BY <1>2, <2>1, <2>2
<1>11. Connected'
  <2>1. \A i \in DOMAIN b : Inputs[b[i]] \subseteq CreatedBy(Tx)
    <3> SUFFICES ASSUME NEW i \in DOMAIN b, NEW o \in Inputs[b[i]] PROVE o \in CreatedBy(Tx)
      OBVIOUS
    <3>1. o \in coins \/ \E j \in 1 .. i - 1 : o \in Outputs[b[j]]
      BY <1>1 DEF ConnectBlock
    <3>2. ASSUME NEW j \in 1 .. i - 1, o \in Outputs[b[j]] PROVE o \in CreatedBy(Tx)
      <4>1. b[j] \in Tx
        BY <1>2
      <4> QED BY <4>1, <3>2 DEF CreatedBy
    <3> QED BY <3>1, <3>2, <1>4
  <2> SUFFICES ASSUME NEW h \in DOMAIN chain'
               PROVE  /\ chain'[h] # <<>>
                      /\ \A i \in DOMAIN chain'[h] : Inputs[chain'[h][i]] \subseteq CreatedBy(Tx)
    BY DEF Connected
  <2>2. chain'[h] = b \/ (h \in DOMAIN chain /\ chain'[h] = chain[h])
    BY <1>1, <1>4
  <2> QED BY <2>1, <2>2, <1>2 DEF IInv, Connected
<1> QED BY <1>7, <1>8, <1>9, <1>10, <1>11, TypePartsNext DEF IInv

\* DisconnectTip.
LEMMA DisconnectKeeps ==
    ASSUME MempoolAssumption, IInv, DisconnectTip
    PROVE  IInv'
<1> DEFINE b == chain[Len(chain)]
<1>1. /\ pc = "idle" /\ chain # <<>> /\ UNCHANGED <<mapTx, mapNextTx>>
      /\ coins' = (coins \cup SpentBy(TxsOf(b))) \ CreatedBy(TxsOf(b))
      /\ chain' = SubSeq(chain, 1, Len(chain) - 1) /\ pc' = "disconnect" /\ vtx' = b /\ at' = 1
  BY DEF DisconnectTip, poolVars
<1>2. chain \in Seq(Block) /\ coins \subseteq CreatedBy(Tx)
  BY DEF IInv, TypeOK
<1>3. Len(chain) \in DOMAIN chain /\ b \in Block
  BY <1>1, <1>2
<1>4. b # <<>> /\ \A i \in DOMAIN b : Inputs[b[i]] \subseteq CreatedBy(Tx)
  BY <1>3 DEF IInv, Connected
<1> HIDE DEF b
<1>5. b \in Seq(Tx) /\ DOMAIN b = 1 .. Len(b) /\ Len(b) \in Nat \ {0}
  BY <1>3, <1>4 DEF MempoolAssumption
<1>6. \A o : o \in coins' <=> /\ o \in coins \/ \E j \in DOMAIN b : o \in Inputs[b[j]]
                              /\ \A j \in DOMAIN b : o \notin Outputs[b[j]]
  BY <1>1 DEF CreatedBy, SpentBy, TxsOf
<1>7. coins' \subseteq CreatedBy(Tx)
  BY <1>2, <1>4, <1>6
<1>8. chain' \in Seq(Block) /\ \A h \in DOMAIN chain' : h \in DOMAIN chain /\ chain'[h] = chain[h]
  BY <1>1, <1>2
<1>9. NextTxIsInverse' /\ PoolType'
  BY <1>1 DEF IInv, NextTxIsInverse, PoolType, TypeOK
<1>10. ChainType' /\ InLoop'
  BY <1>1, <1>5, <1>7, <1>8 DEF ChainType, InLoop
<1>11. Accounted'
  <2> SUFFICES ASSUME NEW x \in mapTx', NEW o \in Inputs[x] PROVE AccountedFor(o)'
    BY DEF Accounted
  <2>1. Available(o)
    BY <1>1 DEF IInv, Accounted, AccountedFor
  <2>2. CASE \E j \in DOMAIN b : o \in Outputs[b[j]]
    BY <2>2, <1>1, <1>5 DEF AccountedFor, Ahead
  <2>3. CASE \A j \in DOMAIN b : o \notin Outputs[b[j]]
    BY <2>1, <2>3, <1>1, <1>6 DEF AccountedFor, Available
  <2> QED BY <2>2, <2>3
<1>12. OutputsOfBlock' /\ Connected'
  BY <1>1, <1>8 DEF IInv, OutputsOfBlock, Connected
<1> QED BY <1>9, <1>10, <1>11, <1>12, TypePartsNext DEF IInv

\* One turn of a loop: what was ahead and is not the current position stays ahead.
LEMMA AdvanceKeeps ==
    ASSUME IInv, pc \in {"connect", "disconnect"}, NEW after \in {"idle", "coinbases"},
           Advance(after)
    PROVE  /\ ChainType' /\ InLoop' /\ OutputsOfBlock' /\ Connected' /\ UNCHANGED coins
           /\ at \in DOMAIN vtx /\ vtx[at] \in Tx
           /\ \A j \in Ahead \ {at} : pc' = pc /\ vtx' = vtx /\ j \in Ahead'
<1>1. /\ vtx \in Seq(Tx) /\ at \in 1 .. Len(vtx) /\ Len(vtx) \in Nat
      /\ coins \subseteq CreatedBy(Tx) /\ chain \in Seq(Block)
  BY DEF IInv, TypeOK, InLoop
<1>2. coins' = coins /\ chain' = chain
  BY DEF Advance
<1>3. at \in DOMAIN vtx /\ vtx[at] \in Tx
  BY <1>1
<1>4. Connected'
  BY <1>2 DEF IInv, Connected
<1>5. CASE at < Len(vtx)
  <2>1. pc' = pc /\ vtx' = vtx /\ at' = at + 1
    BY <1>5 DEF Advance
  <2>2. ChainType' /\ InLoop'
    BY <1>1, <1>2, <1>5, <2>1 DEF ChainType, InLoop
  <2>3. OutputsOfBlock'
    BY <1>1, <1>2, <2>1 DEF IInv, OutputsOfBlock, Ahead
  <2>4. \A j \in Ahead \ {at} : j \in Ahead'
    BY <1>1, <2>1 DEF Ahead
  <2> QED BY <1>2, <1>3, <1>4, <2>1, <2>2, <2>3, <2>4
<1>6. CASE at = Len(vtx)
  <2>1. pc' = after /\ vtx' = <<>> /\ at' = 0
    BY <1>1, <1>6 DEF Advance
  <2>2. ChainType' /\ InLoop' /\ OutputsOfBlock'
    BY <1>1, <1>2, <2>1 DEF ChainType, InLoop, OutputsOfBlock
  <2>3. Ahead \ {at} = {}
    BY <1>1, <1>6 DEF Ahead
  <2> QED BY <1>2, <1>3, <1>4, <2>2, <2>3
<1> QED BY <1>1, <1>5, <1>6

\* A removal keeps the pool well-formed.
LEMMA EraseKeeps ==
    ASSUME IInv, NEW gone \in SUBSET mapTx, Erase(gone)
    PROVE  PoolType' /\ NextTxIsInverse' /\ \A x \in mapTx' : x \in mapTx /\ x \notin gone
<1>1. NextTxIsInverse'
  BY EraseKeepsInverse DEF IInv
<1> QED BY <1>1 DEF Erase, PoolType, IInv, TypeOK

\* A turn of the loop of removeForBlock.
LEMMA RemoveForBlockKeeps ==
    ASSUME MempoolAssumption, IInv, RemoveForBlock
    PROVE  IInv'
<1> DEFINE t == vtx[at]
           conflicts == {mapNextTx[o] : o \in Inputs[t] \cap DOMAIN mapNextTx}
           gone == IF t \in mapTx THEN {t} ELSE WithDescendants(conflicts)
<1>1. pc = "connect" /\ Erase(gone) /\ Advance("idle")
  BY DEF RemoveForBlock, removeForBlock
<1>2. /\ ChainType' /\ InLoop' /\ OutputsOfBlock' /\ Connected' /\ UNCHANGED coins
      /\ at \in DOMAIN vtx /\ t \in Tx
      /\ \A j \in Ahead \ {at} : pc' = pc /\ vtx' = vtx /\ j \in Ahead'
  BY <1>1, AdvanceKeeps
<1>3. gone \in SUBSET mapTx
  BY GoneInPool
<1>4. PoolType' /\ NextTxIsInverse' /\ \A x \in mapTx' : x \in mapTx /\ x \notin gone
  BY <1>1, <1>3, EraseKeeps
<1>5. at \in 1 .. Len(vtx) /\ Len(vtx) \in Nat
  <2>1. vtx \in Seq(Tx) /\ at \in 1 .. Len(vtx)
    BY <1>1 DEF IInv, TypeOK, InLoop
  <2> QED BY <2>1
<1>6. Accounted'
  <2> SUFFICES ASSUME NEW x \in mapTx', NEW o \in Inputs[x] PROVE AccountedFor(o)'
    BY DEF Accounted
  <2>1. x \in mapTx /\ x \notin gone /\ o \in DOMAIN mapNextTx /\ mapNextTx[o] = x
    BY <1>4 DEF IInv, NextTxIsInverse
  <2>2. Available(o) \/ \E j \in Ahead : o \in Inputs[vtx[j]]
    BY <1>1, <2>1 DEF IInv, Accounted, AccountedFor
  <2>3. ASSUME NEW j \in Ahead \ {at}, o \in Inputs[vtx[j]] PROVE AccountedFor(o)'
    BY <1>1, <1>2, <2>3 DEF AccountedFor
  <2>4. o \notin Inputs[t]
    <3>1. CASE t \in mapTx
      BY <3>1, <2>1 DEF IInv, NextTxIsInverse
    <3>2. CASE t \notin mapTx
      <4>1. ASSUME o \in Inputs[t] PROVE x \in conflicts \cap mapTx
        BY <4>1, <2>1
      <4>2. ASSUME o \in Inputs[t] PROVE x \in WithDescendants(conflicts)
        BY <4>1, <4>2, FirstGo
      <4> QED BY <3>2, <4>2, <2>1
    <3> QED BY <3>1, <3>2
  <2>5. ASSUME Available(o) PROVE AccountedFor(o)'
    <3>1. CASE t \notin mapTx
      <4>1. Erase(WithDescendants(conflicts)) /\ mapTx \subseteq Tx /\ NextTxIsInverse
        BY <3>1, <1>1 DEF IInv, TypeOK
      <4>2. Available(o)'
        BY <4>1, <2>5, <1>2, EraseKeepsAvailable
      <4> QED BY <4>2 DEF AccountedFor
    <3>2. CASE t \in mapTx /\ o[1] # t
      <4>1. o[1] \in mapTx' <=> o[1] \in mapTx
        BY <3>2, <1>1 DEF Erase
      <4> QED BY <4>1, <2>5, <1>2 DEF AccountedFor, Available
    <3>3. CASE t \in mapTx /\ o[1] = t
      <4>1. o \in Outputs[t]
        BY <3>3, <2>5 DEF Available
      <4>2. at \in Ahead
        BY <1>5 DEF Ahead
      <4>3. o \in coins \/ \E k \in at + 1 .. Len(vtx) : o \in Inputs[vtx[k]]
        BY <1>1, <4>1, <4>2 DEF IInv, OutputsOfBlock
      <4>4. CASE o \in coins
        <5>1. o[1] \notin mapTx'
          BY <3>3, <1>1 DEF Erase
        <5> QED BY <5>1, <4>4, <1>2 DEF AccountedFor, Available
      <4>5. ASSUME NEW k \in at + 1 .. Len(vtx), o \in Inputs[vtx[k]] PROVE AccountedFor(o)'
        <5>1. k \in Ahead \ {at}
          BY <1>5 DEF Ahead
        <5> QED BY <5>1, <4>5, <2>3
      <4> QED BY <4>3, <4>4, <4>5
    <3> QED BY <3>1, <3>2, <3>3
  <2> QED BY <2>2, <2>3, <2>4, <2>5
<1> QED BY <1>2, <1>4, <1>6, TypePartsNext DEF IInv

\* A turn of the loop of DisconnectTip.
LEMMA ResurrectKeeps ==
    ASSUME MempoolAssumption, IInv, Resurrect
    PROVE  IInv'
<1> DEFINE t == vtx[at]
           first == IF t \in mapTx THEN {t} ELSE Spenders(t)
<1>1. /\ pc = "disconnect" /\ Advance("coinbases")
      /\ (Acceptable(t) /\ addUnchecked(t)) \/ Erase(WithDescendants(first))
  BY DEF Resurrect, removeRecursive
<1>2. /\ ChainType' /\ InLoop' /\ OutputsOfBlock' /\ Connected' /\ UNCHANGED coins
      /\ at \in DOMAIN vtx /\ t \in Tx
      /\ \A j \in Ahead \ {at} : pc' = pc /\ vtx' = vtx /\ j \in Ahead'
  BY <1>1, AdvanceKeeps
<1>3. ASSUME NEW x \in mapTx, NEW o \in Inputs[x]
      PROVE  Available(o) \/ o \in Outputs[t] \/ AccountedFor(o)'
  <2>1. Available(o) \/ \E j \in Ahead : o \in Outputs[vtx[j]]
    BY <1>1, SMTT(30) DEF IInv, Accounted, AccountedFor
  <2>2. ASSUME NEW j \in Ahead \ {at}, o \in Outputs[vtx[j]] PROVE AccountedFor(o)'
    BY <1>1, <1>2, <2>2 DEF AccountedFor
  <2> QED BY <2>1, <2>2
<1>4. CASE Acceptable(t) /\ addUnchecked(t)
  <2>1. /\ PoolType' /\ NextTxIsInverse'
        /\ \A x \in mapTx : \A o \in Inputs[x] : Available(o) => Available(o)'
        /\ \A o \in Inputs[t] : Available(o)'
    BY <1>2, <1>4, AddKeeps
  <2>2. Accounted'
    <3> SUFFICES ASSUME NEW x \in mapTx', NEW o \in Inputs[x] PROVE AccountedFor(o)'
      BY DEF Accounted
    <3>1. CASE x = t
      BY <3>1, <2>1 DEF AccountedFor
    <3>2. CASE x \in mapTx
      <4>1. ASSUME o \in Outputs[t] PROVE Available(o)'
        <5>1. o[1] = t
          BY <4>1, <1>2 DEF MempoolAssumption
        <5>2. t \in mapTx'
          BY <1>4 DEF addUnchecked
        <5> QED BY <4>1, <5>1, <5>2 DEF Available
      <4>2. Available(o)' => AccountedFor(o)'
        BY DEF AccountedFor
      <4> QED BY <3>2, <4>1, <4>2, <1>3, <2>1
    <3> QED BY <3>1, <3>2, <1>4 DEF addUnchecked
  <2> QED BY <1>2, <2>1, <2>2, TypePartsNext DEF IInv
<1>5. CASE Erase(WithDescendants(first))
  <2>1. WithDescendants(first) \in SUBSET mapTx
    BY GoneInPool
  <2>2. /\ PoolType' /\ NextTxIsInverse'
        /\ \A x \in mapTx' : x \in mapTx /\ x \notin WithDescendants(first)
    BY <1>5, <2>1, EraseKeeps
  <2>3. Accounted'
    <3> SUFFICES ASSUME NEW x \in mapTx', NEW o \in Inputs[x] PROVE AccountedFor(o)'
      BY DEF Accounted
    <3>1. x \in mapTx /\ x \notin WithDescendants(first) /\ NextTxIsInverse /\ mapTx \subseteq Tx
      BY <2>2 DEF IInv, TypeOK
    <3>2. o \notin Outputs[t]
      <4> SUFFICES ASSUME o \in Outputs[t] PROVE x \in WithDescendants(first)
        BY <3>1
      <4>1. CASE t \in mapTx
        <5>1. t \in WithDescendants(first)
          BY <4>1, FirstGo
        <5> QED BY <5>1, <3>1, DescendantsGo
      <4>2. CASE t \notin mapTx
        <5>1. x \in Spenders(t)
          BY <3>1 DEF Spenders, NextTxIsInverse
        <5> QED BY <4>2, <5>1, <3>1, FirstGo
      <4> QED BY <4>1, <4>2
    <3>3. ASSUME Available(o) PROVE AccountedFor(o)'
      <4>1. Available(o)'
        BY <1>2, <1>5, <3>1, <3>3, EraseKeepsAvailable
      <4> QED BY <4>1 DEF AccountedFor
    <3> QED BY <3>1, <3>2, <3>3, <1>3
  <2> QED BY <1>2, <2>2, <2>3, TypePartsNext DEF IInv
<1> QED BY <1>1, <1>4, <1>5

\* removeCoinbaseSpends.
LEMMA RemoveCoinbaseSpendsKeeps ==
    ASSUME MempoolAssumption, IInv, RemoveCoinbaseSpends
    PROVE  IInv'
<1>1. PICK first : Erase(WithDescendants(first))
  BY DEF RemoveCoinbaseSpends
<1>2. pc = "coinbases" /\ pc' = "idle" /\ UNCHANGED <<coins, chain, vtx, at>>
  BY DEF RemoveCoinbaseSpends
<1>3. WithDescendants(first) \in SUBSET mapTx
  BY GoneInPool
<1>4. PoolType' /\ NextTxIsInverse' /\ \A x \in mapTx' : x \in mapTx
  BY <1>1, <1>3, EraseKeeps
<1>5. ChainType' /\ InLoop' /\ OutputsOfBlock' /\ Connected'
  BY <1>2, SMTT(30) DEF IInv, TypeOK, ChainType, InLoop, OutputsOfBlock, Connected
<1>6. Accounted'
  <2> SUFFICES ASSUME NEW x \in mapTx', NEW o \in Inputs[x] PROVE Available(o)'
    BY DEF Accounted, AccountedFor
  <2>1. Available(o)
    BY <1>2, <1>4 DEF IInv, Accounted, AccountedFor
  <2>2. mapTx \subseteq Tx /\ NextTxIsInverse
    BY DEF IInv, TypeOK
  <2> QED BY <1>1, <1>2, <2>1, <2>2, EraseKeepsAvailable
<1> QED BY <1>4, <1>5, <1>6, TypePartsNext DEF IInv

\* Every step keeps the inductive invariant.
LEMMA NextIInv == IInv /\ [MempoolNext]_mempoolVars => IInv'
<1> SUFFICES ASSUME IInv, [MempoolNext]_mempoolVars PROVE IInv'
  OBVIOUS
<1>1. ASSUME NEW t \in Tx, AcceptToMemoryPool(t) PROVE IInv'
  BY <1>1, AcceptKeeps, MempoolAssumption
<1>2. ASSUME NEW b \in Block, ConnectTip(b) PROVE IInv'
  BY <1>2, ConnectKeeps, MempoolAssumption
<1>3. CASE DisconnectTip
  BY <1>3, DisconnectKeeps, MempoolAssumption
<1>4. CASE RemoveForBlock
  BY <1>4, RemoveForBlockKeeps, MempoolAssumption
<1>5. CASE Resurrect
  BY <1>5, ResurrectKeeps, MempoolAssumption
<1>6. CASE RemoveCoinbaseSpends
  BY <1>6, RemoveCoinbaseSpendsKeeps, MempoolAssumption
<1>7. CASE UNCHANGED mempoolVars
  <2>1. UNCHANGED <<mapTx, mapNextTx, coins, chain, vtx, at, pc>>
    BY <1>7 DEF mempoolVars, poolVars, chainVars
  <2>2. TypeOK' /\ NextTxIsInverse'
    BY <2>1 DEF IInv, TypeOK, NextTxIsInverse
  <2>3. InLoop' /\ Connected'
    BY <2>1 DEF IInv, InLoop, Connected
  <2>4. Accounted'
    BY <2>1 DEF IInv, Accounted, AccountedFor, Available, Ahead
  <2>5. OutputsOfBlock'
    BY <2>1 DEF IInv, OutputsOfBlock, Ahead
  <2> QED BY <2>2, <2>3, <2>4, <2>5 DEF IInv
<1> QED BY <1>1, <1>2, <1>3, <1>4, <1>5, <1>6, <1>7 DEF MempoolNext, ChainStep

-----------------------------------------------------------------------------
(* Theorems                                                                *)

\* The inductive invariant holds throughout.
THEOREM Invariant == MempoolSpec => []IInv
<1>1. MempoolInit => IInv
  BY InitIInv, MempoolAssumption
<1> QED BY <1>1, NextIInv, PTL DEF MempoolSpec

\* The pool, mapNextTx, the coins and the loops of ConnectTip and DisconnectTip keep
\* their types: no generated transaction enters the pool, no loop leaves its block.
THEOREM TypeCorrect == MempoolSpec => []TypeOK
<1>1. IInv => TypeOK
  BY DEF IInv
<1> QED BY <1>1, Invariant, PTL

\* mapNextTx is the inverse of the inputs of the pool through every acceptance, block
\* and reorganisation, in the middle of the loops of main.cpp too.
THEOREM InverseMaintained == MempoolSpec => []NextTxIsInverse
<1>1. IInv => NextTxIsInverse
  BY DEF IInv
<1> QED BY <1>1, Invariant, PTL

\* Whenever cs_main is free, every input of a transaction in the pool is an unspent
\* output of pcoinsTip or an output of another transaction in the pool.
THEOREM InputsStayAvailable == MempoolSpec => []InputsAvailable
<1>1. IInv => InputsAvailable
  BY DEF IInv, Accounted, AccountedFor, InputsAvailable
<1> QED BY <1>1, Invariant, PTL
=============================================================================
