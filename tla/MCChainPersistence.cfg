SPECIFICATION Spec
CONSTANTS
    g = g a1 = a1 a2 = a2 b1 = b1
    NoBlock = NoBlock
    Block <- MCBlock
    Genesis = g
    Parent <- MCParent
    Chain <- MCChain
    Height <- MCHeight
    ChainWork <- MCHeight
    Addr <- MCAddr
    ForceStart = TRUE
INVARIANTS DiskIsRecoverable CoinsAreThoseOfTip ShutdownLosesNothing
