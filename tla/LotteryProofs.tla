--------------------------- MODULE LotteryProofs ---------------------------
(***************************************************************************)
(* Proofs about the lottery, for every tree of blocks and every choice of  *)
(* scores and scripts: the list that an entry shares with an ancestor is   *)
(* found again through the height that is written, and no height is that   *)
(* of a lottery and of a treasury block when the cycles are those of the   *)
(* main network, one block apart.                                          *)
(***************************************************************************)
EXTENDS Lottery, TLAPS

-----------------------------------------------------------------------------
(* The lists are found again.                                              *)

\* A record with the three fields of LotteryCoinstakeData.
IsData(d) ==
    /\ d = [storage |-> d.storage, height |-> d.height, isLocal |-> d.isLocal]
    /\ d.isLocal \in BOOLEAN

\* The ancestors of an indexed block are indexed, and each has a height of its own.
ChainOK(b) ==
    /\ b \in Chain[b] /\ Chain[b] \subseteq index
    /\ \A a \in Chain[b] : Height[a] =< Height[b]
    /\ \A a, c \in Chain[b] : Height[a] = Height[c] => a = c

\* The ancestor that the list of b was made for: it has the list itself.
IsOwner(a, b) ==
    /\ winners[a].isLocal
    /\ winners[a].height = Height[a]
    /\ winners[b].height = Height[a]
    /\ winners[b].storage = winners[a].storage

\* A block without an owner for its list would lose it when the node starts again; a
\* local list is the block's own.
ListOK(b) ==
    /\ IsData(winners[b])
    /\ winners[b].isLocal => winners[b].height = Height[b]
    /\ \E a \in Chain[b] : IsOwner(a, b)

\* The inductive invariant.
IInv ==
    /\ index \subseteq Block /\ tip \in index
    /\ winners = [b \in Block |-> winners[b]]
    /\ \A b \in index : ChainOK(b) /\ ListOK(b)

\* GetAncestor finds the owner.
LEMMA AncestorIsOwner ==
    ASSUME NEW b, ChainOK(b), NEW a \in Chain[b]
    PROVE  GetAncestor(b, Height[a]) = a
BY DEF ChainOK, GetAncestor

\* What is read back is what was there.
LEMMA ReadBack ==
    ASSUME NEW b, ChainOK(b), ListOK(b)
    PROVE  updateShallowDataStore(b) = winners[b]
<1>1. PICK a \in Chain[b] : IsOwner(a, b)
  BY DEF ListOK
<1>2. GetAncestor(b, winners[b].height) = a
  BY <1>1, AncestorIsOwner DEF IsOwner
<1>3. CASE winners[b].isLocal
  BY <1>3 DEF updateShallowDataStore
<1>4. CASE ~winners[b].isLocal
  <2>1. updateShallowDataStore(b) = [winners[b] EXCEPT !.storage = winners[b].storage]
    BY <1>1, <1>2, <1>4 DEF updateShallowDataStore, IsOwner
  <2> QED
    BY <2>1 DEF ListOK, IsData
<1> QED
  BY <1>3, <1>4

\* The invariant is enough.
LEMMA IInvImplies == IInv => RestartKeepsWinners
BY ReadBack DEF IInv, RestartKeepsWinners

\* In the beginning the genesis block has an empty list of its own.
LEMMA InitInv == Init => IInv
BY BlockTreeAssumption
   DEF Init, IInv, ChainOK, ListOK, IsOwner, IsData, LotteryCoinstakeData

\* The new list d of block b is local, or has what its parent's has.
IsFor(d, b) ==
    \/ d.isLocal /\ d.height = Height[b]
    \/ /\ ~d.isLocal
       /\ d.height = winners[Parent[b]].height
       /\ d.storage = winners[Parent[b]].storage

\* A list made for a new block is its own, or that of its parent's owner.
LEMMA NewList ==
    ASSUME NEW b, ListOK(Parent[b])
    PROVE  LET d == CalculateUpdatedLotteryWinners(b)
           IN  IsData(d) /\ IsFor(d, b)
<1> DEFINE d == CalculateUpdatedLotteryWinners(b)
<1> SUFFICES IsData(d) /\ IsFor(d, b)
  OBVIOUS
<1>1. \/ \E s : d = LotteryCoinstakeData(Height[b], s)
      \/ d = getShallowCopy(winners[Parent[b]])
  BY DEF CalculateUpdatedLotteryWinners
<1>2. CASE \E s : d = LotteryCoinstakeData(Height[b], s)
  <2>1. PICK s : d = [storage |-> s, height |-> Height[b], isLocal |-> TRUE]
    BY <1>2 DEF LotteryCoinstakeData
  <2> HIDE DEF d
  <2> QED
    BY <2>1 DEF IsData, IsFor
<1>3. CASE d = getShallowCopy(winners[Parent[b]])
  <2>1. d = [storage |-> winners[Parent[b]].storage, height |-> winners[Parent[b]].height,
             isLocal |-> FALSE]
    BY <1>3 DEF getShallowCopy, ListOK, IsData
  <2> HIDE DEF d
  <2> QED
    BY <2>1 DEF IsData, IsFor
<1> QED
  BY <1>1, <1>2, <1>3

\* A block that enters the index keeps the invariant.
LEMMA AddInv ==
    ASSUME IInv, NEW b \in Block \ {Genesis}, AddToBlockIndex(b)
    PROVE  IInv'
<1> DEFINE d == CalculateUpdatedLotteryWinners(b)
           p == Parent[b]
<1>1. /\ b \notin index /\ p \in index /\ p \in Block
      /\ index' = index \cup {b} /\ winners' = [winners EXCEPT ![b] = d] /\ tip' = tip
  BY DEF AddToBlockIndex, Arrives, IInv
<1>2. /\ Chain[b] = {b} \cup Chain[p] /\ Height[b] = Height[p] + 1
      /\ Height \in [Block -> Nat]
  BY BlockTreeAssumption
<1>3. /\ IsData(d)
      /\ \/ d.isLocal /\ d.height = Height[b]
         \/ /\ ~d.isLocal
            /\ d.height = winners[p].height
            /\ d.storage = winners[p].storage
  BY <1>1, NewList DEF IInv, IsFor
<1> HIDE DEF d, p
<1>4. winners'[b] = d /\ \A c \in index : winners'[c] = winners[c]
  BY <1>1 DEF IInv
<1>5. ChainOK(b)'
  <2>1. ChainOK(p) /\ Chain[p] \subseteq Block
    BY <1>1 DEF IInv, ChainOK
  <2>2. \A a \in Chain[p] : Height[a] =< Height[p] /\ Height[a] < Height[b]
    BY <1>1, <1>2, <2>1 DEF ChainOK
  <2>3. \A a \in Chain[b] : Height[a] =< Height[b]
    BY <1>1, <1>2, <2>1, <2>2
  <2>4. \A a, c \in Chain[b] : Height[a] = Height[c] => a = c
    BY <1>1, <1>2, <2>1, <2>2 DEF ChainOK
  <2> QED
    BY <1>1, <1>2, <2>1, <2>3, <2>4, SMTT(30) DEF ChainOK
<1>6. ListOK(b)'
  <2>1. CASE d.isLocal /\ d.height = Height[b]
    BY <1>2, <1>3, <1>4, <2>1 DEF ListOK, IsOwner
  <2>2. CASE /\ ~d.isLocal
             /\ d.height = winners[p].height
             /\ d.storage = winners[p].storage
    <3>1. PICK a \in Chain[p] : IsOwner(a, p)
      BY <1>1 DEF IInv, ListOK
    <3>2. a \in index
      BY <1>1, <3>1 DEF IInv, ChainOK
    <3>3. IsOwner(a, b)'
      BY <1>4, <2>2, <3>1, <3>2 DEF IsOwner
    <3> QED
      BY <1>2, <1>3, <1>4, <2>2, <3>1, <3>3, SMTT(30) DEF ListOK
  <2> QED
    BY <1>3, <2>1, <2>2
<1>7. ASSUME NEW c \in index
      PROVE  ChainOK(c)' /\ ListOK(c)'
  <2>1. ChainOK(c) /\ ListOK(c)
    BY DEF IInv
  <2>2. ChainOK(c)'
    BY <1>1, <2>1 DEF ChainOK
  <2>3. PICK a \in Chain[c] : IsOwner(a, c)
    BY <2>1 DEF ListOK
  <2>4. IsOwner(a, c)'
    BY <1>4, <2>1, <2>3 DEF IsOwner, ChainOK
  <2> QED
    BY <1>4, <2>1, <2>2, <2>4 DEF ListOK
<1> QED
  BY <1>1, <1>5, <1>6, <1>7 DEF IInv

\* So does every step: a restart leaves all lists as they are.
LEMMA NextInv == IInv /\ [Next]_vars => IInv'
<1> SUFFICES ASSUME IInv, [Next]_vars PROVE IInv'
  OBVIOUS
<1>1. ASSUME UNCHANGED <<index, winners>>, tip' \in index PROVE IInv'
  BY <1>1 DEF IInv, ChainOK, ListOK, IsOwner, IsData
<1>2. ASSUME NEW b \in Block \ {Genesis}, AddToBlockIndex(b) PROVE IInv'
  BY <1>2, AddInv
<1>3. ASSUME NEW b \in Block \ {Genesis}, AddToBlockIndexFails(b) PROVE IInv'
  BY <1>1, <1>3 DEF AddToBlockIndexFails, IInv
<1>4. ASSUME NEW b \in Block, ActivateBestChainStep(b) PROVE IInv'
  BY <1>1, <1>4 DEF ActivateBestChainStep, IInv, ChainOK
<1>5. CASE Restart
  <2>1. \A b \in index : updateShallowDataStore(b) = winners[b]
    BY IInvImplies DEF RestartKeepsWinners
  <2>2. winners' = winners
    BY <1>5, <2>1 DEF Restart, IInv
  <2> QED
    BY <1>1, <1>5, <2>2 DEF Restart, IInv
<1>6. CASE UNCHANGED vars
  BY <1>1, <1>6 DEF vars, IInv
<1> QED
  BY <1>2, <1>3, <1>4, <1>5, <1>6, SMTT(30) DEF Next

\* A node that is started again has the lists that it had, for every tree of blocks:
\* the ancestor at the height written is the one that has the list.
THEOREM RestartAlwaysKeepsWinners == Spec => []RestartKeepsWinners
BY InitInv, NextInv, IInvImplies, PTL DEF Spec

-----------------------------------------------------------------------------
(* Heights.                                                                *)

\* A multiple of n strictly between 0 and n does not exist.
LEMMA NoMultiple ==
    ASSUME NEW n \in Nat, NEW k \in Int, 0 < n * k, n * k < n
    PROVE  FALSE
<1>1. CASE k =< 0
  BY <1>1
<1>2. CASE k >= 1
  BY <1>2
<1> QED
  BY <1>1, <1>2

\* A number without remainder is a product.
LEMMA Multiple ==
    ASSUME NEW n \in Int, n > 0, NEW h \in Int, h % n = 0
    PROVE  \E k \in Int : h = n * k
OBVIOUS

\* With cycles of n and n + 1 blocks no height below n * (n + 1) is in both.
LEMMA CyclesDiffer ==
    ASSUME NEW n \in Nat, n > 0, NEW h \in Nat, h > 0, h < n * (n + 1), h % n = 0,
           h % (n + 1) = 0
    PROVE  FALSE
<1> DEFINE m == n + 1
<1>0. n \in Int /\ h \in Int /\ m \in Int /\ m > 0
  OBVIOUS
<1>1. PICK a \in Int : h = n * a
  BY <1>0, Multiple, Zenon
<1>2. PICK b \in Int : h = m * b
  BY <1>0, Multiple, Zenon
<1>3. b > 0
  BY <1>2
<1>4. b < n
  BY <1>2
<1>5. n * (a - b) = b
  BY <1>1, <1>2
<1> QED
  BY <1>3, <1>4, <1>5, NoMultiple

\* Of two heights that follow each other only one can be without remainder.
LEMMA NeighboursDiffer ==
    ASSUME NEW n \in Nat, n > 1, NEW h \in Int, h % n = 0, (h - 1) % n = 0
    PROVE  FALSE
<1>1. PICK a \in Int : h = n * a
  BY Multiple
<1>2. PICK b \in Int : h - 1 = n * b
  BY Multiple
<1>3. n * (a - b) = 1
  BY <1>1, <1>2
<1> QED
  BY <1>3, NoMultiple

\* When the treasury's cycle is one block longer than the lottery's, as on the main
\* network, no height is that of a treasury block and of a lottery block.
LEMMA HeightsDiffer ==
    ASSUME TreasuryCycle = LotteryCycle + 1, NEW h \in Nat
    PROVE  ~(IsValidTreasuryBlockHeight(h) /\ IsValidLotteryBlockHeight(h))
<1> SUFFICES ASSUME IsValidTreasuryBlockHeight(h), IsValidLotteryBlockHeight(h)
             PROVE  FALSE
  OBVIOUS
<1> DEFINE n == LotteryCycle
           t == transitionHeight
<1>1. n \in Nat /\ n > 1 /\ t = n * (n + 1) /\ t \in Nat
  BY SuperblocksAssumption DEF transitionHeight
<1>2. CASE h < t
  <2>1. h > 0 /\ h % n = 0 /\ h % (n + 1) = 0
    BY <1>2, SuperblocksAssumption
       DEF IsValidTreasuryBlockHeight, IsValidLotteryBlockHeight
  <2> HIDE DEF n, t
  <2> QED
    BY <1>1, <1>2, <2>1, CyclesDiffer
<1>3. CASE h = t
  <2>1. (t - 1) % n = 0
    BY <1>1, <1>3 DEF IsValidTreasuryBlockHeight, IsValidLotteryBlockHeight
  <2> HIDE DEF n, t
  <2>2. t % n = 0
    BY <1>1
  <2> QED
    BY <1>1, <2>1, <2>2, NeighboursDiffer
<1>4. CASE h > t
  <2>1. (h - t) % n = 0 /\ (h - 1 - t) % n = 0
    BY <1>1, <1>4 DEF IsValidTreasuryBlockHeight, IsValidLotteryBlockHeight
  <2> HIDE DEF n, t
  <2>2. h - t \in Int /\ h - 1 - t = (h - t) - 1
    BY <1>1
  <2> QED
    BY <1>1, <2>1, <2>2, NeighboursDiffer
<1> QED
  BY <1>1, <1>2, <1>3, <1>4

\* No block of the active chain is a treasury block and a lottery block, on a network
\* whose cycles are one block apart.
THEOREM NoHeightIsEverBoth ==
    ASSUME TreasuryCycle = LotteryCycle + 1
    PROVE  Spec => []NoHeightIsBoth
<1>1. IInv => NoHeightIsBoth
  BY HeightsDiffer, BlockTreeAssumption DEF IInv, NoHeightIsBoth
<1> QED
  BY <1>1, InitInv, NextInv, PTL DEF Spec
=============================================================================
