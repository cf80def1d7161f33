SPECIFICATION FairSpec
CONSTANTS
    g = g a1 = a1 a2 = a2 b1 = b1 b2 = b2 b3 = b3
    NoBlock = NoBlock
    Block <- MCBlock
    Genesis = g
    Parent <- MCParent
    Chain <- MCChain
    Height <- MCHeight
    ChainWork <- MCHeight
    Addr <- MCAddr
    Thread = {th1, th2}
    Bad = {b2}
    Disputed = {}
    Corrupted = {}
    ContextBad = {}
    Unwritable = {b1}
    Checkpoint = {}
    MaxReorg = 10
    Operated = {b1}
    Reprocessed = {}
INVARIANT BestChainIsActive
PROPERTIES KeysOfCandidatesAreStable  ActivationReturns
CHECK_DEADLOCK FALSE
