SPECIFICATION FairSpec
CONSTANTS
    Node = {n1}
    Address = {a}
    Opener = {o}
    Checker = {k}
    NoNode = NoNode
    Inbound = Inbound
INVARIANTS RefCountIsExact UsedNodesExist
PROPERTIES DisconnectedAreDeleted
CHECK_DEADLOCK FALSE
