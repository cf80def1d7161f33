SPECIFICATION FairSpec
CONSTANTS
    p = p q = q
    Peer <- MCPeer
    Requests <- MCRequests
    BlockSize = 2
    Capacity = 2
    MaxRead = 2
    MaxSendBufferSize = 2
    MaxReceiveBufferSize = 1
INVARIANTS  StuckOnlyInBothDirections
PROPERTIES ImplementsQueue RepliesInOrder MessagesArrive
CHECK_DEADLOCK FALSE
