------------------------------ MODULE Lottery ------------------------------
(***************************************************************************)
(* The lottery: every index entry has a list of the coinstakes that would  *)
(* win if the next block were a lottery block (vLotteryWinnersCoinstakes). *)
(* AddToBlockIndex computes it from the list of the parent when a block    *)
(* arrives, with the hash of the last lottery block and the winners before *)
(* it taken from the active chain of that moment.  A list that does not    *)
(* change is shared with the ancestor it comes from, written to the block  *)
(* tree database as the height of that ancestor and found again by         *)
(* LoadBlockIndexDB.                                                       *)
(*                                                                         *)
(* A coinstake is named by its block; its hash, and with it the score, is  *)
(* a constant.  SPORK_16 is not active.  Blocks that are not activated     *)
(* because they are invalid, and writes that fail, are in ChainState and   *)
(* ChainPersistence; here the block tree is written as a whole.            *)
(***************************************************************************)
EXTENDS BlockTree, Superblocks, FiniteSetsExt, SequencesExt

CONSTANTS
    Script,    \* Script[b]: who the coinstake of b pays
    Ticket,    \* blocks whose coinstake is worth more than minimumCoinstakeForTicket
    Score,     \* Score[b][l]: CalculateLotteryScore of the coinstake of b with block l
    Uniform,   \* blocks with a time at which Fork::UniformLotteryWinners is active
    Winners,   \* 11
    MaxAhead   \* bound: blocks that arrive above the tip

ASSUME LotteryAssumption ==
    /\ Ticket \subseteq Block /\ Uniform \subseteq Block
    /\ Winners \in Nat \ {0}

VARIABLES
    index,    \* mapBlockIndex
    winners,  \* winners[b]: vLotteryWinnersCoinstakes of the entry of b
    tip,      \* chainActive.Tip()
    alive,    \* whether the process runs
    strayed   \* history: blocks whose list was made with another branch's lottery block

vars == <<index, winners, tip, alive, strayed>>

-----------------------------------------------------------------------------
(* LotteryCoinstakeData                                                    *)

\* A list, the height of the block that it was made for, and storageIsLocal: whether
\* that is the block that has it.
Data == [storage : Seq(Block), height : Nat, isLocal : BOOLEAN]

LotteryCoinstakeData(h, coinstakes) ==
    [storage |-> coinstakes, height |-> h, isLocal |-> TRUE]

getShallowCopy(data) == [data EXCEPT !.isLocal = FALSE]

\* What is read back of an entry that was written: a list that is not local is not
\* written, and found through the ancestor at its height.
GetAncestor(b, h) == CHOOSE a \in {c \in Chain[b] : Height[c] = h} : TRUE

\* Mutant: only the parent is asked for the list.
updateShallowDataStore_FromParent(b) ==
    IF winners[b].isLocal THEN winners[b]
    ELSE [winners[b] EXCEPT !.storage = IF winners[Parent[b]].isLocal THEN winners[Parent[b]].storage ELSE <<>>]

updateShallowDataStore(b) ==
    LET other == winners[GetAncestor(b, winners[b].height)]
    IN  CASE winners[b].isLocal -> winners[b]
          [] ~winners[b].isLocal /\ other.isLocal /\ other.height = winners[b].height ->
                 [winners[b] EXCEPT !.storage = other.storage]
          [] OTHER -> [winners[b] EXCEPT !.storage = <<>>]

-----------------------------------------------------------------------------
(* LotteryWinnersCalculator                                                *)

\* The block at height h of the chain that ends in b: CChain::operator[].
At(b, h) == IF \E a \in Chain[b] : Height[a] = h THEN GetAncestor(b, h) ELSE NoBlock

LastLotteryHeight(h) ==
    LET cycle == GetLotteryBlockPaymentCycle(h)
    IN  AtLeast(LotteryStart, cycle * ((h - 1) \div cycle))

GetLastLotteryBlockIndexBeforeHeight(h) == At(tip, LastLotteryHeight(h))

ScriptsOf(coinstakes) == {Script[c] : c \in Range(coinstakes)}

\* The script was among the winners of one of the three lotteries before height h, as
\* seen by the chain that ends in b.
VetoedIn(b, script, h) ==
    LET before(i) == At(b, LastLotteryHeight(h) - i * GetLotteryBlockPaymentCycle(h) - 1)
    IN  \E i \in 0 .. 2 :
            /\ \A j \in 0 .. i : before(j) # NoBlock
            /\ script \in ScriptsOf(winners[before(i)].storage)

IsPaymentScriptVetoed(script, h) == VetoedIn(tip, script, h)

SortCoinstakesByScore(coinstakes, lottery) ==
    SortSeq(coinstakes, LAMBDA c, d : Score[c][lottery] > Score[d][lottery])

\* isDuplicateScript: an entry before this one, in the order before sorting, pays the
\* same script.
IsDuplicateScript(coinstakes, c) ==
    \E i, j \in DOMAIN coinstakes :
        i < j /\ coinstakes[j] = c /\ Script[coinstakes[i]] = Script[c]

\* Mutant: the best entry goes instead of the worst.
TopElevenBestCoinstakesNeedUpdating_DropsBest(trimDuplicates, coinstakes, sorted) ==
    [coinstakes |-> IF Len(sorted) > Winners THEN Tail(sorted) ELSE sorted,
     update |-> TRUE]

\* Mutant: duplicates are not looked for.
TopElevenBestCoinstakesNeedUpdating_NoTrim(trimDuplicates, coinstakes, sorted) ==
    [coinstakes |-> IF Len(sorted) > Winners THEN Front(sorted) ELSE sorted,
     update |-> Len(sorted) # Winners + 1 \/ Last(sorted) # Last(coinstakes)]

\* TopElevenBestCoinstakesNeedUpdating: the list cut to its length, and whether it
\* differs from the one before.  The coinstake added last has rank Len - 1.
TopElevenBestCoinstakesNeedUpdating(trimDuplicates, coinstakes, sorted) ==
    LET better == Len(sorted) # Winners + 1 \/ Last(sorted) # Last(coinstakes)
        duplicates == {i \in DOMAIN sorted : trimDuplicates /\ IsDuplicateScript(coinstakes, sorted[i])}
    IN  CASE Len(sorted) <= Winners -> [coinstakes |-> sorted, update |-> better]
          [] Len(sorted) > Winners /\ duplicates # {} ->
                 [coinstakes |-> RemoveAt(sorted, Max(duplicates)), update |-> TRUE]
          [] Len(sorted) > Winners /\ duplicates = {} ->
                 [coinstakes |-> Front(sorted), update |-> better]

\* UpdateCoinstakes, for a block at height h.
UpdateCoinstakes(h, coinstakes) ==
    LET lottery == GetLastLotteryBlockIndexBeforeHeight(h)
    IN  IF lottery \in Uniform /\ IsPaymentScriptVetoed(Script[Last(coinstakes)], h)
        THEN [coinstakes |-> coinstakes, update |-> FALSE]
        ELSE TopElevenBestCoinstakesNeedUpdating(
                 lottery \in Uniform, coinstakes, SortCoinstakesByScore(coinstakes, lottery))

\* The coinstake of b takes part.
TakesPart(b) ==
    /\ ~IsValidLotteryBlockHeight(Height[b])
    /\ Height[b] > LotteryStart
    /\ b \in Ticket

CalculateUpdatedLotteryWinners(b) ==
    LET previous == winners[Parent[b]]
        updated == UpdateCoinstakes(Height[b], Append(previous.storage, b))
    IN  CASE IsValidLotteryBlockHeight(Height[b]) -> LotteryCoinstakeData(Height[b], <<>>)
          [] TakesPart(b) /\ updated.update -> LotteryCoinstakeData(Height[b], updated.coinstakes)
          [] OTHER -> getShallowCopy(previous)

-----------------------------------------------------------------------------
(* Actions                                                                 *)

\* The active chain does not reach up to the last lottery block: a null pointer.
NoLotteryBlock(b) ==
    TakesPart(b) /\ GetLastLotteryBlockIndexBeforeHeight(Height[b]) = NoBlock

Arrives(b) ==
    /\ alive
    /\ b \notin index /\ Parent[b] \in index
    /\ Height[b] <= Height[tip] + MaxAhead

\* AddToBlockIndex: the list of winners is made when the header enters the index.
AddToBlockIndex(b) ==
    /\ Arrives(b) /\ ~NoLotteryBlock(b)
    /\ index' = index \cup {b}
    /\ winners' = [winners EXCEPT ![b] = CalculateUpdatedLotteryWinners(b)]
    /\ strayed' =
           LET last == LastLotteryHeight(Height[b])
           IN  IF \/ TakesPart(b) /\ At(tip, last) # At(b, last)
                  \/ Parent[b] \in strayed /\ ~IsValidLotteryBlockHeight(Height[b])
               THEN strayed \cup {b}
               ELSE strayed
    /\ UNCHANGED <<tip, alive>>

AddToBlockIndexFails(b) ==
    /\ Arrives(b) /\ NoLotteryBlock(b)
    /\ alive' = FALSE
    /\ UNCHANGED <<index, winners, tip, strayed>>

\* ActivateBestChainStep: towards a block with the most work, until the tip is better
\* than it was; cs_main is free between two steps, and between AddToBlockIndex and the
\* first one.
ActivateBestChainStep(b) ==
    /\ alive
    /\ b \in index /\ \A c \in index : ChainWork[c] <= ChainWork[b]
    /\ ChainWork[b] > ChainWork[tip]
    /\ \E a \in Chain[b] :
           /\ ChainWork[a] > ChainWork[tip]
           /\ a = Genesis \/ ChainWork[Parent[a]] <= ChainWork[tip]
           /\ tip' = a
    /\ UNCHANGED <<index, winners, alive, strayed>>

\* The node stops, having written its index, or dies and has written it before; it
\* starts again with LoadBlockIndexDB.  What it knew and had not written is lost: it
\* is then in one of its earlier states.
Restart ==
    /\ winners' = [b \in Block |-> IF b \in index THEN updateShallowDataStore(b) ELSE winners[b]]
    /\ alive' = TRUE
    /\ UNCHANGED <<index, tip, strayed>>

Init ==
    /\ index = {Genesis} /\ tip = Genesis
    /\ winners = [b \in Block |-> LotteryCoinstakeData(0, <<>>)]
    /\ alive = TRUE /\ strayed = {}

Next ==
    \/ \E b \in Block \ {Genesis} : AddToBlockIndex(b) \/ AddToBlockIndexFails(b)
    \/ \E b \in Block : ActivateBestChainStep(b)
    \/ Restart

Spec == Init /\ [][Next]_vars

-----------------------------------------------------------------------------
(* Properties                                                              *)

TypeOK ==
    /\ index \subseteq Block /\ tip \in index /\ strayed \subseteq index
    /\ winners \in [Block -> Data]
    /\ alive \in BOOLEAN

\* "A treasury block cannot also be a lottery block!": no height is both; the code
\* would pay the treasury and forget the lottery.
NoHeightIsBoth ==
    ~(IsValidTreasuryBlockHeight(Height[tip]) /\ IsValidLotteryBlockHeight(Height[tip]))

\* "coins for superblock are 'reserved' in every block": a superblock of the active
\* chain pays what the blocks from the superblock before up to its parent have
\* reserved, also when the subsidy changes in between and across the transition.  The
\* first one, whose predecessor would be a block with proof of work, pays no less.
SuperblocksPayWhatWasReserved ==
    LET h == Height[tip]
        Before(IsSuperblock(_)) == Max({k \in 1 .. h - 1 : IsSuperblock(k)} \cup {0})
        Pays(from, Part(_)) ==
            LET reserved == MapThenSumSet(LAMBDA k : Part(LegacySubsidity(k)), from .. h - 1)
            IN  /\ Part(GetBlockSubsidity(h)) >= reserved
                /\ from > LastPowBlock => Part(GetBlockSubsidity(h)) = reserved
    IN  /\ IsValidTreasuryBlockHeight(h) =>
               /\ Pays(Before(IsValidTreasuryBlockHeight), LAMBDA r : r.treasury)
               /\ Pays(Before(IsValidTreasuryBlockHeight), LAMBDA r : r.charity)
        /\ IsValidLotteryBlockHeight(h) =>
               Pays(Before(IsValidLotteryBlockHeight), LAMBDA r : r.lottery)

\* The coinstakes that take part in the lottery after the last one before block b, on
\* the branch of b.
CoinstakesOfCycle(b) ==
    {a \in Chain[b] : TakesPart(a) /\ LastLotteryHeight(Height[a]) = LastLotteryHeight(Height[b])}

OwnLotteryBlock(b) == At(b, LastLotteryHeight(Height[b]))

IsSortedByScore(b) ==
    LET list == winners[b].storage
    IN  \A i, j \in DOMAIN list :
            i < j => Score[list[i]][OwnLotteryBlock(b)] > Score[list[j]][OwnLotteryBlock(b)]

HasLottery(b) == Height[b] > LotteryStart /\ ~IsValidLotteryBlockHeight(Height[b])

\* Before the fork: "compare it the top 11 ... scores that are already saved in a list
\* and add it to the list in case it's bigger than minimum score": the list of a block
\* has the best coinstakes of its branch since the last lottery, the best one first.
ListIsBest(b) ==
    LET S == CoinstakesOfCycle(b)
        l == OwnLotteryBlock(b)
    IN  /\ Range(winners[b].storage) =
               {c \in S : Cardinality({d \in S : Score[d][l] > Score[c][l]}) < Winners}
        /\ IsSortedByScore(b)

WinnersAreBest ==
    \A b \in index \ strayed :
        HasLottery(b) /\ OwnLotteryBlock(b) \notin Uniform => ListIsBest(b)

\* "Any peer looking on the blockchain can do the same math and tell if lottery winner
\* is valid or no": the same, whatever chain was active when a block arrived.
WinnersDependOnBranchOnly ==
    \A b \in index :
        HasLottery(b) /\ OwnLotteryBlock(b) \notin Uniform => ListIsBest(b)

\* After the fork: nobody who won one of the three lotteries before is in the list;
\* it is full if it can be; and it has two coinstakes that pay the same script only if
\* it has one of every script that could win ("willAllowRepeatedWinnersOnlyIfNoNew-
\* WinnersAreAvailable").
WinnersAreUniform ==
    \A b \in index \ strayed :
        HasLottery(b) /\ OwnLotteryBlock(b) \in Uniform =>
            LET S == {c \in CoinstakesOfCycle(b) : ~VetoedIn(b, Script[c], Height[b])}
                list == winners[b].storage
            IN  /\ Range(list) \subseteq S /\ IsSortedByScore(b)
                /\ Len(list) = Min({Winners, Cardinality(S)})
                /\ Cardinality(ScriptsOf(list)) < Len(list) =>
                       ScriptsOf(list) = {Script[c] : c \in S}

\* A node that stops and starts again has the lists that it had: the ancestor that a
\* shared list comes from has it, and is the one at the height written.
RestartKeepsWinners == \A b \in index : updateShallowDataStore(b) = winners[b]
=============================================================================
