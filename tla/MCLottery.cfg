\* Two winners instead of eleven, and cycles of 4 and 5 blocks instead of 10080 and 10081.
SPECIFICATION Spec
CONSTANTS
    Block <- MCBlock
    Genesis = 0
    Parent <- MCParent
    Chain <- MCChain
    Height <- MCHeight
    ChainWork <- MCHeight
    Addr <- MCAddr
    NoBlock <- MCNoBlock
    LotteryCycle = 4
    TreasuryCycle = 5
    LotteryStart = 2
    TreasuryStart = 2
    HalvingInterval = 7
    LastPowBlock = 1
    Premine = 1000
    SubsidySporks <- MCSubsidySporks
    PaymentSporks <- MCPaymentSporks
    Script <- MCScript
    Ticket <- MCTicket
    Score <- MCScore
    Uniform <- MCUniform
    Winners = 2
    MaxAhead = 2
INVARIANTS SuperblocksPayWhatWasReserved WinnersAreBest  RestartKeepsWinners
