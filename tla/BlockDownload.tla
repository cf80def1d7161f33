---------------------------- MODULE BlockDownload ----------------------------
(***************************************************************************)
(* What a node keeps about its peers to download blocks from them          *)
(* (NodeState, NodeStateRegistry, BlocksInFlightRegistry, SendMessages and *)
(* the handlers of "version", "inv" and "block" in main.cpp).              *)
(*                                                                         *)
(* One thread handles messages and sends them; another one deletes the     *)
(* connections that are closed.  The registry of blocks in flight is       *)
(* protected by cs_main, the two counters of CNodeState are not: reading   *)
(* and writing them are steps of their own.                                *)
(*                                                                         *)
(* Headers are not synchronised first (fHeadersFirstSyncingActive is false *)
(* on every network): a header is in the index without its block only when *)
(* storing the block failed.  What validation says of a block is the       *)
(* business of ChainState; here a stored block may be found invalid at any *)
(* time, and the best chain is active.  Time is counted in units of half   *)
(* the block spacing for the time-out of a block.                          *)
(***************************************************************************)
EXTENDS BlockTree, FiniteSets, SequencesExt

CONSTANTS
    Known,         \* blocks whose headers alone are in the index at start-up
    Invalid,       \* blocks that validation rejects, when they are stored or later
    Node,          \* ids of connections; an id is never used again
    Outbound,      \* the ones that this node opened
    Client,        \* the ones whose peer does not serve blocks
    Window,        \* BLOCK_DOWNLOAD_WINDOW
    MaxInTransit,  \* MAX_BLOCKS_IN_TRANSIT_PER_PEER
    BaseTimeout,   \* the 4 of BlockDownloadHasTimedOut
    MaxAge,        \* bound: an age is not counted further
    NoNode         \* -1

ASSUME BlockDownloadAssumption ==
    /\ Known \subseteq Block \ {Genesis}
    /\ \A b \in Known : Chain[b] \subseteq Known \cup {Genesis}
    /\ Invalid \subseteq Block \ {Genesis}
    /\ Outbound \subseteq Node /\ Client \subseteq Node /\ NoNode \notin Node
    /\ Window \in Nat /\ MaxInTransit \in Nat \ {0}
    /\ BaseTimeout \in Nat /\ MaxAge \in Nat

VARIABLES
    index,      \* mapBlockIndex
    data,       \* blocks with BLOCK_HAVE_DATA
    failed,     \* blocks with BLOCK_FAILED_MASK
    tip,        \* chainActive.Tip()
    phase,      \* phase[n]: how far the connection is
    flagged,    \* nodes with fDisconnect
    best,       \* best[n]: pindexBestKnownBlock
    unknown,    \* unknown[n]: hashLastUnknownBlock
    common,     \* common[n]: pindexLastCommonBlock
    syncing,    \* nodes with fSyncStarted
    preferred,  \* nodes with fPreferredDownload
    inFlight,   \* inFlight[n]: blocksInFlight, oldest first
    source,     \* source[b]: the node of allBlocksInFlight_[b]
    queued,     \* queuedValidatedHeadersCount_
    stalling,   \* stalling[n]: age of stallingTimestamp + 1, 0 when it is not set
    count,      \* countOfNodesAlreadySyncing and numberOfPreferredDownloadSources
    handler,    \* what the message handler thread is doing
    socket,     \* what the socket thread is doing
    raced       \* whether an update of a counter was lost

chainVars == <<index, data, failed, tip>>
knownVars == <<best, unknown, common>>
registryVars == <<inFlight, source, queued, stalling>>
flagVars == <<syncing, preferred>>
threadVars == <<count, handler, socket, raced>>
vars == <<chainVars, phase, flagged, knownVars, registryVars, flagVars, threadVars>>

Idle == [at |-> "idle", node |-> NoNode]

\* Blocks whose data and that of all their ancestors are there (nChainTx # 0).
Linked(stored) == {b \in stored : Chain[b] \subseteq stored}

\* ActivateBestChain: the tip stays unless it is invalid or another block has more work.
BestTip(stored, bad, t) ==
    LET usable == {b \in Linked(stored) : Chain[b] \cap bad = {}}
    IN  IF t \in usable /\ \A b \in usable : ChainWork[b] <= ChainWork[t] THEN {t}
        ELSE {b \in usable : \A c \in usable : ChainWork[c] <= ChainWork[b]}

-----------------------------------------------------------------------------
(* BlocksInFlightRegistry                                                  *)

Hashes(n) == {inFlight[n][i].hash : i \in DOMAIN inFlight[n]}
InFlight == {b \in Block : source[b] # NoNode}

\* The list of node n without the entry of block b, which is erased by its position.
ListWithout(n, b) ==
    RemoveAt(inFlight[n], CHOOSE i \in DOMAIN inFlight[n] : inFlight[n][i].hash = b)

\* MarkBlockAsReceived.
MarkBlockAsReceived(b) ==
    IF source[b] = NoNode THEN UNCHANGED registryVars
    ELSE LET n == source[b]
         IN  /\ inFlight' = [inFlight EXCEPT ![n] = ListWithout(n, b)]
             /\ source' = [source EXCEPT ![b] = NoNode]
             /\ queued' = queued - 1
             /\ stalling' = [stalling EXCEPT ![n] = 0]

\* MarkBlockAsInFlight for each block of a sequence; none of them is in flight.
MarkBlocksAsInFlight(n, blocks) ==
    /\ inFlight' = [inFlight EXCEPT ![n] = @ \o
           [i \in 1 .. Len(blocks) |-> [hash |-> blocks[i], before |-> queued + i - 1, age |-> 0]]]
    /\ source' = [b \in Block |-> IF b \in Range(blocks) THEN n ELSE source[b]]
    /\ queued' = queued + Len(blocks)

\* Mutant: the blocks stay in allBlocksInFlight_.
UnregisterNodeId_KeepsBlocks(n) ==
    /\ inFlight' = [inFlight EXCEPT ![n] = <<>>]
    /\ stalling' = [stalling EXCEPT ![n] = 0]
    /\ UNCHANGED <<source, queued>>

\* Mutant: the count starts again from zero.
UnregisterNodeId_Resets(n) ==
    /\ inFlight' = [inFlight EXCEPT ![n] = <<>>]
    /\ source' = [b \in Block |-> IF source[b] = n THEN NoNode ELSE source[b]]
    /\ stalling' = [stalling EXCEPT ![n] = 0]
    /\ queued' = 0

\* UnregisterNodeId: the blocks may be requested from others; queued is not lowered.
UnregisterNodeId(n) ==
    /\ inFlight' = [inFlight EXCEPT ![n] = <<>>]
    /\ source' = [b \in Block |-> IF b \in Hashes(n) THEN NoNode ELSE source[b]]
    /\ stalling' = [stalling EXCEPT ![n] = 0]
    /\ UNCHANGED queued

\* Mutant: a block that is in flight alone is never late.
BlockDownloadHasTimedOut_TwoOrMore(n) ==
    Len(inFlight[n]) > 1 /\ Head(inFlight[n]).age > BaseTimeout + Head(inFlight[n]).before

\* BlockDownloadHasTimedOut: the block requested first is looked at.
BlockDownloadHasTimedOut(n) ==
    inFlight[n] # <<>> /\ Head(inFlight[n]).age > BaseTimeout + Head(inFlight[n]).before

\* BlockDownloadHasStalled: two seconds are less than a unit of time.
BlockDownloadHasStalled(n) == stalling[n] > 1

-----------------------------------------------------------------------------
(* What peers are known to have                                            *)

Better(b, old) == old = NoBlock \/ ChainWork[b] >= ChainWork[old]

\* ProcessBlockAvailability: what best[n] and unknown[n] become.
ProcessBlockAvailability(n) ==
    IF unknown[n] \in index
    THEN [best |-> IF Better(unknown[n], best[n]) THEN unknown[n] ELSE best[n],
          unknown |-> NoBlock]
    ELSE [best |-> best[n], unknown |-> unknown[n]]

\* UpdateBlockAvailability(n, b).
UpdateBlockAvailability(n, b) ==
    LET now == ProcessBlockAvailability(n)
    IN  /\ best' = [best EXCEPT ![n] = IF b \in index /\ Better(b, now.best) THEN b ELSE now.best]
        /\ unknown' = [unknown EXCEPT ![n] = IF b \in index THEN now.unknown ELSE b]

\* The block of b's chain at height h.
GetAncestor(b, h) == CHOOSE a \in Chain[b] : Height[a] = h

SmallerOf(x, y) == IF x < y THEN x ELSE y

\* FindNextBlocksToDownload(n): the blocks to request, the last common block and the
\* node that the download waits for, if any.
FindNextBlocksToDownload(n) ==
    LET to == ProcessBlockAvailability(n).best
        guess == IF common[n] # NoBlock THEN common[n]
                 ELSE GetAncestor(tip, SmallerOf(Height[to], Height[tip]))
        fork == FindFork(guess, to)
        windowEnd == Height[fork] + Window
        walk == {b \in Chain[to] : Height[b] > Height[fork] /\ Height[b] <= windowEnd + 1}
        missing == {b \in walk : b \notin data /\ source[b] = NoNode}
        room == MaxInTransit - Len(inFlight[n])
        \* where the walk returns
        isEnd(b) == \/ b \in failed
                    \/ b \in missing /\ Height[b] > windowEnd
                    \/ b \in missing /\ Cardinality(Chain[b] \cap missing) >= room
        seen == {b \in walk : \A a \in Chain[b] \cap walk : a # b => ~isEnd(a)} \ failed
        fetch == {b \in seen \cap missing : Height[b] <= windowEnd}
        waiting == {b \in seen : b \notin data /\ source[b] # NoNode}
        waitingFor == {source[b] : b \in {b \in waiting : \A c \in waiting : Height[b] <= Height[c]}}
        beyond == \E b \in seen \cap missing : Height[b] > windowEnd
    IN  IF to = NoBlock \/ ChainWork[to] < ChainWork[tip]
        THEN [blocks |-> {}, common |-> common[n], stallers |-> {}]
        ELSE [blocks |-> fetch,
              common |-> Highest({fork} \cup (seen \cap Linked(data))),
              stallers |-> IF beyond /\ fetch = {} THEN waitingFor \ {n} ELSE {}]

\* The sequence of the blocks of a set in the order of their heights.
ByHeight(S) ==
    {s \in [1 .. Cardinality(S) -> S] :
        Range(s) = S /\ \A i, j \in DOMAIN s : i < j => Height[s[i]] < Height[s[j]]}

-----------------------------------------------------------------------------
(* The message handler thread                                              *)

Connected(n) == phase[n] \in {"open", "version", "ready"}
CanBeHandled(n) == handler = Idle /\ Connected(n) /\ n \notin flagged

\* The "version" message: the peer may become a preferred source of blocks, with a
\* counter that is read now and written in HandlerStores.  Outbound peers must also
\* send the sporks before anything is sent to them.
Version(n) ==
    /\ CanBeHandled(n) /\ phase[n] = "open"
    /\ phase' = [phase EXCEPT ![n] = IF n \in Outbound THEN "version" ELSE "ready"]
    /\ IF n \in Outbound \ Client
       THEN /\ handler' = [at |-> "store", node |-> n, counter |-> "preferred",
                           value |-> count["preferred"] + 1, fetch |-> FALSE]
            /\ preferred' = preferred \cup {n}
       ELSE UNCHANGED <<handler, preferred>>
    /\ UNCHANGED <<chainVars, flagged, knownVars, registryVars, syncing, count, socket, raced>>

\* The sporks of an outbound peer have arrived.
SporksArrive(n) ==
    /\ CanBeHandled(n) /\ phase[n] = "version"
    /\ phase' = [phase EXCEPT ![n] = "ready"]
    /\ UNCHANGED <<chainVars, flagged, knownVars, registryVars, flagVars, threadVars>>

\* "inv" with a block: unknown ones are asked for at once, without being in flight.
\* Every node has the genesis block, and none announces it.
Inv(n, b) ==
    /\ CanBeHandled(n) /\ phase[n] # "open"
    /\ UpdateBlockAvailability(n, b)
    /\ UNCHANGED <<chainVars, phase, flagged, common, registryVars, flagVars, threadVars>>

\* AcceptBlock and ActivateBestChain: the block is stored, fails a check that marks it,
\* or only its header is kept, because the block looks corrupted or cannot be written.
AcceptBlock(b) ==
    /\ b \in Block \ {Genesis} /\ Parent[b] \in index \ failed /\ b \notin data \cup failed
    /\ index' = index \cup {b}
    /\ \/ data' = data \cup {b} /\ UNCHANGED failed
       \/ b \in Invalid /\ failed' = failed \cup {b} /\ UNCHANGED data
       \/ UNCHANGED <<data, failed>>
    /\ tip' \in BestTip(data', failed', tip)

\* Mutant: only a block that is rejected is reported as received.
ProcessNewBlock_NotReceived(b) ==
    \/ UNCHANGED chainVars /\ MarkBlockAsReceived(b)
    \/ AcceptBlock(b) /\ UNCHANGED registryVars

\* ProcessNewBlock: whatever becomes of the block, it is not in flight any more.
ProcessNewBlock(b) ==
    /\ MarkBlockAsReceived(b)
    /\ AcceptBlock(b) \/ UNCHANGED chainVars

\* The "block" message, when its parent is known and it is not in the index itself:
\* otherwise nothing but a message follows.
BlockMessage(n, b) ==
    /\ CanBeHandled(n) /\ phase[n] # "open"
    /\ b \notin index /\ Parent[b] \in index
    /\ ProcessNewBlock(b)
    /\ UNCHANGED <<phase, flagged, knownVars, flagVars, threadVars>>

\* Blocks that do not come from a peer, those found by this node or imported from a
\* file, may also fill in the data of a known header.
BlockFromElsewhere(b) ==
    /\ ProcessNewBlock(b)
    /\ UNCHANGED <<phase, flagged, knownVars, flagVars, threadVars>>

\* A block turns out to be invalid when it is connected, and with it what is above.
BlockFails(b) ==
    /\ b \in (data \cap Invalid) \ failed
    /\ failed' = failed \cup {d \in index : b \in Chain[d]}
    /\ tip' \in BestTip(data, failed', tip)
    /\ UNCHANGED <<index, data, phase, flagged, knownVars, registryVars, flagVars, threadVars>>

\* SendMessages without cs_main: whether to fetch from n is decided, and the
\* synchronisation with it may begin (BeginSyncingWithPeer), with several peers only
\* if the best header is recent.
SendMessages(n, recent) ==
    /\ CanBeHandled(n) /\ phase[n] = "ready"
    /\ LET fFetch == n \in preferred \/ (count["preferred"] <= 0 /\ n \notin Client)
           begin == /\ fFetch /\ n \notin syncing \cup Client
                    /\ count["syncing"] <= 0 \/ recent
       IN  /\ handler' = IF begin
                         THEN [at |-> "store", node |-> n, counter |-> "syncing",
                               value |-> count["syncing"] + 1, fetch |-> TRUE]
                         ELSE [at |-> "locked", node |-> n, fetch |-> fFetch]
           /\ syncing' = IF begin THEN syncing \cup {n} ELSE syncing
    /\ UNCHANGED <<chainVars, phase, flagged, knownVars, registryVars, preferred, count, socket,
                   raced>>

\* The counter is written.  The update of the socket thread is lost if it came between.
HandlerStores ==
    /\ handler.at = "store"
    /\ count' = [count EXCEPT ![handler.counter] = handler.value]
    /\ raced' = (raced \/ count[handler.counter] # handler.value - 1)
    /\ handler' = IF handler.fetch THEN [at |-> "locked", node |-> handler.node, fetch |-> TRUE]
                  ELSE Idle
    /\ UNCHANGED <<chainVars, phase, flagged, knownVars, registryVars, flagVars, socket>>

\* SendMessages with cs_main: RequestDisconnectionFromNodeIfStalling, then
\* CollectBlockDataToRequest, which may find another node stalling.
SendMessagesLocked ==
    /\ handler.at = "locked"
    /\ LET n == handler.node
           stop == BlockDownloadHasStalled(n) \/ BlockDownloadHasTimedOut(n)
           found == FindNextBlocksToDownload(n)
           known == ProcessBlockAvailability(n)
           idle == inFlight[n] = <<>> /\ found.blocks = {}
       IN  /\ flagged' = IF stop THEN flagged \cup {n} ELSE flagged
           /\ IF /\ handler.fetch /\ n \notin flagged' \cup Client
                 /\ Len(inFlight[n]) < MaxInTransit
              THEN /\ best' = [best EXCEPT ![n] = known.best]
                   /\ unknown' = [unknown EXCEPT ![n] = known.unknown]
                   /\ common' = [common EXCEPT ![n] = found.common]
                   /\ \E blocks \in ByHeight(found.blocks) : MarkBlocksAsInFlight(n, blocks)
                   /\ stalling' = [m \in Node |-> IF idle /\ m \in found.stallers /\ stalling[m] = 0
                                                 THEN 1 ELSE stalling[m]]
              ELSE UNCHANGED <<knownVars, registryVars>>
    /\ handler' = Idle
    /\ UNCHANGED <<chainVars, phase, flagVars, count, socket, raced>>

-----------------------------------------------------------------------------
(* The socket thread                                                       *)

\* A connection is made: InitializeNode.
InitializeNode(n) ==
    /\ phase[n] = "none"
    /\ phase' = [phase EXCEPT ![n] = "open"]
    /\ UNCHANGED <<chainVars, flagged, knownVars, registryVars, flagVars, threadVars>>

\* The connection breaks, is found inactive, or its peer is to be banned.
FlagForDisconnection(n) ==
    /\ Connected(n) /\ n \notin flagged
    /\ flagged' = flagged \cup {n}
    /\ UNCHANGED <<chainVars, phase, knownVars, registryVars, flagVars, threadVars>>

\* disconnectUnusedNodes.
Disconnect(n) ==
    /\ Connected(n) /\ n \in flagged
    /\ phase' = [phase EXCEPT ![n] = "closed"]
    /\ UNCHANGED <<chainVars, flagged, knownVars, registryVars, flagVars, threadVars>>

\* deleteDisconnectedNodes of a node that no thread uses: FinalizeNode, then
\* CNodeState::Finalize, which reads the counters.
FinalizeNode(n) ==
    /\ socket = Idle /\ phase[n] = "closed"
    /\ handler.node # n
    /\ phase' = [phase EXCEPT ![n] = "deleted"]
    /\ UnregisterNodeId(n)
    /\ socket' = [at |-> "store", seen |-> count,
                  counters |-> {c \in DOMAIN count :
                                   n \in (IF c = "syncing" THEN syncing ELSE preferred)}]
    /\ syncing' = syncing \ {n} /\ preferred' = preferred \ {n}
    /\ best' = [best EXCEPT ![n] = NoBlock] /\ unknown' = [unknown EXCEPT ![n] = NoBlock]
    /\ common' = [common EXCEPT ![n] = NoBlock]
    /\ UNCHANGED <<chainVars, flagged, count, handler, raced>>

\* Mutant: Finalize forgets the counters.
SocketStores_Nothing ==
    /\ socket.at = "store"
    /\ socket' = Idle
    /\ UNCHANGED <<chainVars, phase, flagged, knownVars, registryVars, flagVars, count, handler,
                   raced>>

\* The counters are written.  An update of the message handler is lost if it came between.
SocketStores ==
    /\ socket.at = "store"
    /\ count' = [c \in DOMAIN count |->
                    IF c \in socket.counters THEN socket.seen[c] - 1 ELSE count[c]]
    /\ raced' = (raced \/ \E c \in socket.counters : count[c] # socket.seen[c])
    /\ socket' = Idle
    /\ UNCHANGED <<chainVars, phase, flagged, knownVars, registryVars, flagVars, handler>>

-----------------------------------------------------------------------------
(* Time passes.                                                            *)

Older ==
    [n \in Node |-> [i \in DOMAIN inFlight[n] |->
        [inFlight[n][i] EXCEPT !.age = SmallerOf(@ + 1, MaxAge)]]]

Tick ==
    /\ inFlight' = Older
    /\ stalling' = [n \in Node |-> IF stalling[n] = 0 THEN 0 ELSE 2]
    /\ <<inFlight, stalling>>' # <<inFlight, stalling>>
    /\ UNCHANGED <<chainVars, phase, flagged, knownVars, source, queued, flagVars, threadVars>>

\* The block index may hold headers without data, from an earlier run of the program.
Init ==
    /\ index = Known \cup {Genesis} /\ data = {Genesis} /\ failed = {} /\ tip = Genesis
    /\ phase = [n \in Node |-> "none"] /\ flagged = {}
    /\ best = [n \in Node |-> NoBlock] /\ unknown = [n \in Node |-> NoBlock]
    /\ common = [n \in Node |-> NoBlock]
    /\ syncing = {} /\ preferred = {}
    /\ inFlight = [n \in Node |-> <<>>] /\ source = [b \in Block |-> NoNode]
    /\ queued = 0 /\ stalling = [n \in Node |-> 0]
    /\ count = [c \in {"syncing", "preferred"} |-> 0]
    /\ handler = Idle /\ socket = Idle /\ raced = FALSE

Next ==
    \/ \E n \in Node : Version(n) \/ SporksArrive(n)
    \/ \E n \in Node, recent \in BOOLEAN : SendMessages(n, recent)
    \/ \E n \in Node, b \in Block \ {Genesis} : Inv(n, b) \/ BlockMessage(n, b)
    \/ \E b \in Block : BlockFromElsewhere(b) \/ BlockFails(b)
    \/ HandlerStores \/ SendMessagesLocked
    \/ \E n \in Node : InitializeNode(n) \/ FlagForDisconnection(n) \/ Disconnect(n) \/ FinalizeNode(n)
    \/ SocketStores \/ Tick

Spec == Init /\ [][Next]_vars

\* What the steps of the threads do to one variable; no other step does that.
HandlerGoesOn ==
    /\ handler # Idle
    /\ handler' \in {Idle, [at |-> "locked", node |-> handler.node, fetch |-> TRUE]}
Sends(n) ==
    /\ CanBeHandled(n) /\ phase[n] = "ready"
    /\ \E fetch \in BOOLEAN :
          handler' \in {[at |-> "locked", node |-> n, fetch |-> fetch],
                       [at |-> "store", node |-> n, counter |-> "syncing",
                        value |-> count["syncing"] + 1, fetch |-> fetch]}
SocketGoesOn == socket # Idle /\ socket' = Idle
Closes(n) ==
    \/ Connected(n) /\ n \in flagged /\ phase' = [phase EXCEPT ![n] = "closed"]
    \/ /\ phase[n] = "closed" /\ socket = Idle /\ handler.node # n
       /\ phase' = [phase EXCEPT ![n] = "deleted"]

\* The message handler visits every connection again and again, the socket thread
\* every closed one, and time passes.
Fairness ==
    /\ WF_handler(HandlerGoesOn) /\ WF_socket(SocketGoesOn)
    /\ WF_inFlight(inFlight' = Older)
    /\ \A n \in Node : SF_handler(Sends(n)) /\ SF_phase(Closes(n))

FairSpec == Spec /\ Fairness

-----------------------------------------------------------------------------
(* Properties                                                              *)

TypeOK ==
    /\ Genesis \in data /\ data \subseteq index /\ index \subseteq Block
    /\ failed \subseteq index /\ tip \in data
    /\ phase \in [Node -> {"none", "open", "version", "ready", "closed", "deleted"}]
    /\ flagged \subseteq Node /\ syncing \subseteq Node /\ preferred \subseteq Node
    /\ best \in [Node -> index \cup {NoBlock}] /\ common \in [Node -> index \cup {NoBlock}]
    /\ unknown \in [Node -> Block \cup {NoBlock}]
    /\ inFlight \in [Node -> Seq([hash : Block, before : Nat, age : Nat])]
    /\ source \in [Block -> Node \cup {NoNode}] /\ queued \in Nat
    /\ stalling \in [Node -> 0 .. 2] /\ count \in [{"syncing", "preferred"} -> Int]
    /\ raced \in BOOLEAN

\* allBlocksInFlight_ and the lists of the nodes agree: a block is in flight from the
\* node whose list has it, once, that node is still registered, and it has at most
\* MAX_BLOCKS_IN_TRANSIT_PER_PEER of them.
RegistryIsExact ==
    /\ \A b \in Block, n \in Node : source[b] = n <=> b \in Hashes(n)
    /\ \A n \in Node : /\ \A i, j \in DOMAIN inFlight[n] :
                              inFlight[n][i].hash = inFlight[n][j].hash => i = j
                       /\ Len(inFlight[n]) <= MaxInTransit
                       /\ inFlight[n] # <<>> => phase[n] \in {"ready", "closed"}

\* Only blocks of the index whose data is missing are in flight, whichever way the
\* data arrives.
InFlightIsMissing == InFlight \subseteq index \ data

\* A node under suspicion of stalling owes a block: one that delivered what it was
\* asked for is not disconnected for stalling.
StallerOwesBlock == \A n \in Node : stalling[n] > 0 => inFlight[n] # <<>>

\* queuedValidatedHeadersCount_ is never below the number of blocks in flight, so that
\* no time-out is shorter than the queue justifies.
QueuedCountCoversFlight == queued >= Cardinality(InFlight)

\* The static counters of CNodeState are the numbers of nodes with the flags, as long
\* as the two threads that change them did not collide.
CountersAreExact ==
    ~raced /\ handler.at # "store" /\ socket = Idle =>
        /\ count["syncing"] = Cardinality(syncing)
        /\ count["preferred"] = Cardinality(preferred)

\* A block does not stay in flight: it arrives, or its node is disconnected and
\* unregistered.
InFlightEnds == \A b \in Block \ {Genesis} : []<>(source[b] = NoNode)

\* While a peer that serves blocks stays connected, the synchronisation is resumed
\* with some peer when the one it was going on with is gone, unless an update of a
\* counter was lost.
SyncResumes ==
    \A n \in Outbound \ Client :
        <>[](phase[n] = "ready" /\ n \notin flagged) => []<>(raced \/ syncing # {})
=============================================================================
