SPECIFICATION FairSpec
CONSTANTS
    g = g x1 = x1 x2 = x2 o1 = o1 i1 = i1
    NoBlock = NoBlock NoNode = NoNode
    Block <- MCBlock
    Genesis = g
    Parent <- MCParent
    Chain <- MCChain
    Height <- MCHeight
    ChainWork <- MCHeight
    Addr <- MCHeight
    Known = {x1}
    Invalid = {x2}
    Node <- MCNode
    Outbound <- MCOutbound
    Client = {}
    Window = 1
    MaxInTransit = 2
    BaseTimeout = 0
    MaxAge = 2
CHECK_DEADLOCK FALSE
INVARIANTS  InFlightIsMissing QueuedCountCoversFlight
PROPERTIES InFlightEnds SyncResumes
