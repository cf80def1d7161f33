SPECIFICATION Spec
CONSTANTS
    g = g a1 = a1 a2 = a2 b1 = b1 c2 = c2
    NoBlock = NoBlock
    Block <- MCBlock
    Genesis = g
    Parent <- MCParent
    Chain <- MCChain
    Height <- MCHeight
    ChainWork <- MCHeight
    Addr <- MCAddr
    Thread = {th1, th2}
    Bad = {}
    Disputed = {a2}
    Corrupted = {}
    ContextBad = {c2}
    Unwritable = {a1}
    Checkpoint = {a1}
    MaxReorg = 10
    Operated = {a1}
    Reprocessed = {0}
SYMMETRY Threads
INVARIANTS LinkedIffComplete ActiveChainIsValid
CHECK_DEADLOCK FALSE
