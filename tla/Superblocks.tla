---------------------------- MODULE Superblocks ----------------------------
(***************************************************************************)
(* The heights at which a block pays the treasury or the lottery           *)
(* (SuperblockHeightValidator.cpp) and what every block may mint           *)
(* (LegacyBlockSubsidies.cpp, BlockSubsidyProvider.cpp).  Amounts are in   *)
(* coins: every amount that the code divides by 100 is a multiple of 100   *)
(* coins, so that no division rounds.  The part for proposals, which only  *)
(* a spork can set and no block pays, is left out.                         *)
(***************************************************************************)
EXTENDS Integers, Sequences

CONSTANTS
    LotteryCycle,     \* nLotteryBlockCycle
    TreasuryCycle,    \* nTreasuryPaymentsCycle
    LotteryStart,     \* nLotteryBlockStartBlock
    TreasuryStart,    \* nTreasuryPaymentsStartBlock
    HalvingInterval,  \* nSubsidyHalvingInterval
    LastPowBlock,     \* nLastPOWBlock
    Premine,          \* premineAmt
    SubsidySporks,    \* the values of SPORK_15_BLOCK_VALUE, in their order, all signed
    PaymentSporks     \* before now, and of SPORK_13_BLOCK_PAYMENTS

ASSUME SuperblocksAssumption ==
    /\ LotteryCycle \in Nat /\ LotteryCycle > 1
    /\ TreasuryCycle \in Nat \ {0}
    /\ LotteryStart \in Nat \ {0} /\ TreasuryStart \in Nat \ {0}
    /\ HalvingInterval \in Nat \ {0}

-----------------------------------------------------------------------------
(* Heights                                                                 *)

transitionHeight == LotteryCycle * TreasuryCycle

IsValidLotteryBlockHeight(h) ==
    IF h < transitionHeight
    THEN h >= LotteryStart /\ h % LotteryCycle = 0
    ELSE (h - transitionHeight) % LotteryCycle = 0

\* After the transition the block after a lottery block.
IsValidTreasuryBlockHeight(h) ==
    IF h < transitionHeight
    THEN h >= TreasuryStart /\ h % TreasuryCycle = 0
    ELSE IsValidLotteryBlockHeight(h - 1)

\* The number of blocks since the superblock before.  The first one after the
\* transition comes one block late.
GetTreasuryBlockPaymentCycle(h) ==
    CASE h < transitionHeight      -> TreasuryCycle
      [] h \in transitionHeight .. transitionHeight + 1 -> TreasuryCycle + 1
      [] h > transitionHeight + 1  -> LotteryCycle

GetLotteryBlockPaymentCycle(h) == LotteryCycle

-----------------------------------------------------------------------------
(* Rewards                                                                 *)

AtLeast(x, y) == IF x > y THEN x ELSE y

BlockSubsidy(h) ==
    CASE h = 0 -> 50
      [] h = 1 -> Premine
      [] OTHER -> AtLeast(1250 - 100 * AtLeast(h \div HalvingInterval - 1, 0), 250)

\* CSporkManager::GetActiveMultiValueSpork: the position of the last value whose
\* height is reached, or 0.
GetActiveMultiValueSpork(sporks, h) ==
    CHOOSE i \in 0 .. Len(sporks) :
        /\ i > 0 => sporks[i].height <= h
        /\ \A j \in i + 1 .. Len(sporks) : sporks[j].height > h

\* A value counts only if it takes effect at a multiple of the halving interval.
Counts(sporks, i) == i > 0 /\ sporks[i].height % HalvingInterval = 0

GetFullBlockValue(h) ==
    LET i == GetActiveMultiValueSpork(SubsidySporks, h)
    IN  IF Counts(SubsidySporks, i) THEN SubsidySporks[i].value ELSE BlockSubsidy(h)

\* Legacy::GetBlockSubsidity: what a block mints or reserves.
LegacySubsidity(h) ==
    LET lottery == IF h >= LotteryStart THEN 50 ELSE 0
        rest == GetFullBlockValue(h) - lottery
        i == GetActiveMultiValueSpork(PaymentSporks, h)
        part == IF Counts(PaymentSporks, i) THEN PaymentSporks[i].part
                ELSE [stake |-> 38, masternode |-> 45, treasury |-> 16, charity |-> 1]
    IN  IF h <= LastPowBlock
        THEN [stake |-> GetFullBlockValue(h), masternode |-> 0, treasury |-> 0,
              charity |-> 0, lottery |-> 0]
        ELSE [stake |-> (rest * part.stake) \div 100,
              masternode |-> (rest * part.masternode) \div 100,
              treasury |-> (rest * part.treasury) \div 100,
              charity |-> (rest * part.charity) \div 100,
              lottery |-> lottery]

\* Mutant: all blocks at today's rate.
Accumulated_AllAtOnce(h, cycle, prior, current) == current * cycle

\* The reward of a superblock: the blocks before the last multiple of the halving
\* interval at the rate of the superblock before, the others at today's.
Accumulated(h, cycle, prior, current) ==
    LET halved == (h \div HalvingInterval) * HalvingInterval
    IN  prior * (halved - (h - cycle)) + current * (h - halved)

\* updateTreasuryReward, for the treasury's and the charity's part.
updateTreasuryReward(h, rewards) ==
    LET cycle == GetTreasuryBlockPaymentCycle(h)
        prior == LegacySubsidity(h - cycle)
    IN  IF IsValidTreasuryBlockHeight(h)
        THEN [rewards EXCEPT !.treasury = Accumulated(h, cycle, prior.treasury, @),
                             !.charity = Accumulated(h, cycle, prior.charity, @)]
        ELSE [rewards EXCEPT !.treasury = 0, !.charity = 0]

updateLotteryReward(h, rewards) ==
    LET cycle == GetLotteryBlockPaymentCycle(h)
        prior == LegacySubsidity(h - cycle)
    IN  IF IsValidLotteryBlockHeight(h)
        THEN [rewards EXCEPT !.lottery = Accumulated(h, cycle, prior.lottery, @)]
        ELSE [rewards EXCEPT !.lottery = 0]

\* BlockSubsidyProvider::GetBlockSubsidity: what a block may mint.
GetBlockSubsidity(h) ==
    updateLotteryReward(h, updateTreasuryReward(h, LegacySubsidity(h)))
=============================================================================
