---------------------------- MODULE Connections ----------------------------
(***************************************************************************)
(* The life of a CNode (net.cpp, Node.cpp): created by the thread that     *)
(* accepts connections or by a thread that opens one, used by the socket   *)
(* thread and the message thread, taken out of vNodes when it is flagged   *)
(* or unused, and deleted once nobody has a reference to it.               *)
(*                                                                         *)
(* cs_vNodes guards vNodes, and the two threads count their references     *)
(* under it.  The openers do not: FindNode returns a pointer after the     *)
(* lock is gone, and AddRef and Release of a plain int are a load and a    *)
(* store that other threads can come between.                              *)
(*                                                                         *)
(* Left out: what is sent over a connection, bans (an address that is      *)
(* banned, or too many inbound connections, is a connection that does not  *)
(* come about), and the locks of a node that IsInUse tries: who holds one  *)
(* also has a reference or holds cs_vNodes.                                *)
(***************************************************************************)
EXTENDS Integers, FiniteSets

CONSTANTS
    Node,     \* CNode objects; an id is used once
    Address,  \* addresses to connect to
    Opener,   \* threads that call OpenNetworkConnection
    Checker,  \* threads that call CheckNodeIsAcceptingConnections
    NoNode, Inbound

ASSUME ConnectionsAssumption ==
    /\ NoNode \notin Node /\ Inbound \notin Address
    /\ Opener \cap Checker = {}
    /\ IsFiniteSet(Opener) /\ IsFiniteSet(Checker)

Caller == Opener \cup Checker
Thread == {"socket", "message"}

VARIABLES
    vNodes,        \* the nodes that are connected
    disconnected,  \* disconnectedNodes_
    deleted,       \* nodes whose destructor has run
    addr,          \* addr[n]: where n was connected to, or Inbound
    ref,           \* ref[n]: nRefCount
    flagged,       \* nodes with fDisconnect
    network,       \* nodes with fNetworkNode
    held,          \* held[t]: the ThreadSafeNodesCopy of a thread
    at,            \* at[t]: where a thread is in its loop
    call,          \* call[c]: where a caller is, and its pnode
    owned,         \* nodes with a reference that disconnectUnusedNodes is to release
    spoiled        \* nodes whose count was changed in a race or without a reference

nodeVars == <<vNodes, disconnected, deleted, addr>>
history == <<owned, spoiled>>
vars == <<nodeVars, ref, flagged, network, held, at, call, history>>

Alive == vNodes \cup disconnected
Unborn == Node \ (Alive \cup deleted)
Idle == [at |-> "idle", node |-> NoNode, has |-> FALSE, loaded |-> 0, to |-> Inbound]

\* "assert(nRefCount >= 0)" in GetRefCount ends the process.
AssertionHolds(S) == \A n \in S : ref[n] >= 0

-----------------------------------------------------------------------------
(* The socket thread and the message thread                                *)

\* CreateNode: the constructor, AddRef and recordNode.
CreateNode(n, a) ==
    /\ n \in Unborn
    /\ vNodes' = vNodes \cup {n}
    /\ addr' = [addr EXCEPT ![n] = a]
    /\ ref' = [ref EXCEPT ![n] = 1]
    /\ UNCHANGED <<disconnected, deleted, flagged, network, spoiled>>

Disconnected(gone) ==
    vNodes' = vNodes \ gone /\ disconnected' = disconnected \cup gone

\* disconnectUnusedNodes: the nodes that are flagged, and those without a
\* reference whose buffers are empty, which may or may not be the case.
disconnectUnusedNodes ==
    /\ at["socket"] = "disconnect"
    /\ AssertionHolds(vNodes \ flagged)
    /\ \E unused \in SUBSET {n \in vNodes : ref[n] <= 0} :
         LET gone == (flagged \cap vNodes) \cup unused
             released == {n \in gone : n \in network \/ addr[n] = Inbound}
         IN  /\ Disconnected(gone)
             /\ flagged' = flagged \cup gone
             /\ ref' = [n \in Node |-> IF n \in released THEN ref[n] - 1 ELSE ref[n]]
             /\ owned' = owned \ released
             /\ spoiled' = spoiled \cup (released \ owned)
    /\ at' = [at EXCEPT !["socket"] = "delete"]
    /\ UNCHANGED <<deleted, addr, network, held, call>>

\* Mutant: a disconnected node is deleted whether it is in use or not.
deleteDisconnectedNodes_InUse ==
    /\ at["socket"] = "delete"
    /\ disconnected' = {}
    /\ deleted' = deleted \cup disconnected
    /\ flagged' = flagged \ disconnected
    /\ network' = network \ disconnected
    /\ at' = [at EXCEPT !["socket"] = "accept"]
    /\ UNCHANGED <<vNodes, addr, ref, held, call, history>>

\* deleteDisconnectedNodes: those that are not in use.
deleteDisconnectedNodes ==
    /\ at["socket"] = "delete"
    /\ AssertionHolds(disconnected)
    /\ LET unused == {n \in disconnected : ref[n] <= 0}
       IN  /\ disconnected' = disconnected \ unused
           /\ deleted' = deleted \cup unused
           /\ flagged' = flagged \ unused
           /\ network' = network \ unused
    /\ at' = [at EXCEPT !["socket"] = "accept"]
    /\ UNCHANGED <<vNodes, addr, ref, held, call, history>>

\* AcceptNewConnections.
AcceptNewConnections ==
    /\ at["socket"] = "accept"
    /\ \/ /\ \E n \in Node : CreateNode(n, Inbound) /\ owned' = owned \cup {n}
          /\ UNCHANGED at
       \/ /\ at' = [at EXCEPT !["socket"] = "copy"]
          /\ UNCHANGED <<nodeVars, ref, flagged, network, history>>
    /\ UNCHANGED <<held, call>>

\* ThreadSafeNodesCopy takes a reference to every node.
CopyNodes(t) ==
    /\ at[t] = "copy"
    /\ held' = [held EXCEPT ![t] = vNodes]
    /\ ref' = [n \in Node |-> IF n \in vNodes THEN ref[n] + 1 ELSE ref[n]]
    /\ at' = [at EXCEPT ![t] = "serve"]
    /\ UNCHANGED <<nodeVars, flagged, network, call, history>>

\* A thread works on a node of its copy, and closes the connection or flags the
\* node: an error, a timeout, a stalling or misbehaving peer.
Serve(t, n) ==
    /\ at[t] = "serve" /\ n \in held[t] \ flagged
    /\ flagged' = flagged \cup {n}
    /\ UNCHANGED <<nodeVars, ref, network, held, at, call, history>>

Restart(t) == [at EXCEPT ![t] = IF t = "socket" THEN "disconnect" ELSE "copy"]

\* Mutant: the nodes that are no longer connected keep their reference.
ClearCopy_Connected(t) ==
    /\ at[t] = "serve"
    /\ ref' = [n \in Node |-> IF n \in held[t] \cap vNodes THEN ref[n] - 1 ELSE ref[n]]
    /\ held' = [held EXCEPT ![t] = {}]
    /\ at' = Restart(t)
    /\ UNCHANGED <<nodeVars, flagged, network, call, history>>

\* ClearCopy gives the references back.
ClearCopy(t) ==
    /\ at[t] = "serve"
    /\ ref' = [n \in Node |-> IF n \in held[t] THEN ref[n] - 1 ELSE ref[n]]
    /\ held' = [held EXCEPT ![t] = {}]
    /\ at' = Restart(t)
    /\ UNCHANGED <<nodeVars, flagged, network, call, history>>

\* BanOutdatedPeers flags nodes under cs_vNodes.
BanOutdatedPeers(S) ==
    /\ flagged' = flagged \cup (S \cap vNodes)
    /\ UNCHANGED <<nodeVars, ref, network, held, at, call, history>>

-----------------------------------------------------------------------------
(* Openers and checkers                                                    *)

Goes(c, to) == call' = [call EXCEPT ![c].at = to]
Returns(c) == call' = [call EXCEPT ![c] = Idle]

FindNode(a) == {n \in vNodes : addr[n] = a}

\* OpenNetworkConnection, if there is no connection to the address yet; a checker
\* does not look.  Bound: no more calls once a count is spoiled.
Call(c, a) ==
    /\ call[c] = Idle /\ at["socket"] # "ended"
    /\ c \in Opener => FindNode(a) = {}
    /\ spoiled = {}
    /\ call' = [call EXCEPT ![c].at = "connect", ![c].to = a]
    /\ UNCHANGED <<nodeVars, ref, flagged, network, held, at, history>>

\* ConnectNode finds a connection ...
ConnectNodeFinds(c, n) ==
    /\ call[c].at = "connect" /\ n \in FindNode(call[c].to)
    /\ call' = [call EXCEPT ![c].at = "addref", ![c].node = n]
    /\ UNCHANGED <<nodeVars, ref, flagged, network, held, at, history>>

AfterConnect(c) == IF c \in Opener THEN "test" ELSE "release"

\* ... and counts a reference to it, without a lock, ...
LoadsToAdd(c) ==
    /\ call[c].at = "addref"
    /\ call' = [call EXCEPT ![c].at = "storeadd", ![c].loaded = ref[call[c].node]]
    /\ UNCHANGED <<nodeVars, ref, flagged, network, held, at, history>>

\* The store undoes another thread's change, or goes to a node that was deleted
\* since FindNode returned it.
Spoils(c) ==
    {n \in {call[c].node} : ref[n] # call[c].loaded \/ n \in deleted}

StoresAdded(c) ==
    /\ call[c].at = "storeadd"
    /\ ref' = [ref EXCEPT ![call[c].node] = call[c].loaded + 1]
    /\ spoiled' = spoiled \cup Spoils(c)
    /\ call' = [call EXCEPT ![c] = [at |-> AfterConnect(c), node |-> @.node, has |-> TRUE,
                                    loaded |-> 0, to |-> @.to]]
    /\ UNCHANGED <<nodeVars, flagged, network, held, at, owned>>

\* ... or makes one ...
ConnectNodeCreates(c, n) ==
    /\ call[c].at = "connect" /\ FindNode(call[c].to) = {}
    /\ CreateNode(n, call[c].to)
    /\ call' = [call EXCEPT ![c] = [at |-> AfterConnect(c), node |-> n, has |-> TRUE,
                                    loaded |-> 0, to |-> @.to]]
    /\ UNCHANGED <<held, at, owned>>

\* ... or cannot connect.
ConnectNodeFails(c) ==
    /\ call[c].at = "connect" /\ FindNode(call[c].to) = {}
    /\ Returns(c)
    /\ UNCHANGED <<nodeVars, ref, flagged, network, held, at, history>>

\* "if(pnode && pnode->GetRefCount() > 1) pnode->Release()".
TestRefCount(c) ==
    /\ call[c].at = "test"
    /\ AssertionHolds({call[c].node})
    /\ Goes(c, IF ref[call[c].node] > 1 THEN "release" ELSE "mark")
    /\ UNCHANGED <<nodeVars, ref, flagged, network, held, at, history>>

\* Release, without a lock, of the reference that ConnectNode counted.
LoadsToRelease(c) ==
    /\ call[c].at = "release"
    /\ call' = [call EXCEPT ![c].at = "storerelease", ![c].loaded = ref[call[c].node]]
    /\ UNCHANGED <<nodeVars, ref, flagged, network, held, at, history>>

StoresReleased(c) ==
    /\ call[c].at = "storerelease"
    /\ ref' = [ref EXCEPT ![call[c].node] = call[c].loaded - 1]
    /\ spoiled' = spoiled \cup Spoils(c)
    /\ IF c \in Opener THEN call' = [call EXCEPT ![c].at = "mark", ![c].has = FALSE,
                                                    ![c].loaded = 0]
                        ELSE Returns(c)
    /\ UNCHANGED <<nodeVars, flagged, network, held, at, owned>>

\* "pnode->fNetworkNode = true", the end of OpenNetworkConnection: a reference that
\* the caller kept is now for disconnectUnusedNodes to release.
MarksAsNetworkNode(c) ==
    /\ call[c].at = "mark"
    /\ network' = network \cup {call[c].node}
    /\ owned' = IF call[c].has THEN owned \cup {call[c].node} ELSE owned
    /\ Returns(c)
    /\ UNCHANGED <<nodeVars, ref, flagged, held, at, spoiled>>

CallGoesOn(c) ==
    \/ \E n \in Node : ConnectNodeFinds(c, n) \/ ConnectNodeCreates(c, n)
    \/ ConnectNodeFails(c)
    \/ LoadsToAdd(c) \/ StoresAdded(c) \/ TestRefCount(c)
    \/ LoadsToRelease(c) \/ StoresReleased(c) \/ MarksAsNetworkNode(c)

\* CleanupP2PConnections, when the threads have been interrupted and have ended: the
\* destructor of ThreadSafeNodesCopy has cleared the copies, and OpenNetworkConnection
\* may have ended before its last step.
CleanupP2PConnections ==
    /\ \A t \in Thread : held[t] = {}
    /\ \A c \in Caller : call[c].at \in {"idle", "mark"}
    /\ at["socket"] # "ended"
    /\ deleted' = deleted \cup Alive
    /\ vNodes' = {} /\ disconnected' = {}
    /\ call' = [c \in Caller |-> Idle]
    /\ at' = [t \in Thread |-> "ended"]
    /\ UNCHANGED <<addr, ref, flagged, network, held, history>>

-----------------------------------------------------------------------------
Init ==
    /\ vNodes = {} /\ disconnected = {} /\ deleted = {}
    /\ addr = [n \in Node |-> Inbound] /\ ref = [n \in Node |-> 0]
    /\ flagged = {} /\ network = {}
    /\ held = [t \in Thread |-> {}]
    /\ at = [t \in Thread |-> IF t = "socket" THEN "disconnect" ELSE "copy"]
    /\ call = [c \in Caller |-> Idle]
    /\ owned = {} /\ spoiled = {}

ThreadSocketHandler ==
    \/ disconnectUnusedNodes \/ deleteDisconnectedNodes \/ AcceptNewConnections
    \/ CopyNodes("socket") \/ ClearCopy("socket")

ThreadMessageHandler == CopyNodes("message") \/ ClearCopy("message")

Next ==
    \/ CleanupP2PConnections
    \/ ThreadSocketHandler \/ ThreadMessageHandler
    \/ \E t \in Thread, n \in Node : Serve(t, n)
    \/ \E S \in SUBSET Node : BanOutdatedPeers(S)
    \/ \E c \in Caller : CallGoesOn(c) \/ \E a \in Address : Call(c, a)

Spec == Init /\ [][Next]_vars

\* The two threads do not stop, and no call takes forever.
FairSpec ==
    /\ Spec
    /\ WF_vars(ThreadSocketHandler) /\ WF_vars(ThreadMessageHandler)
    /\ \A c \in Caller : WF_vars(CallGoesOn(c))

-----------------------------------------------------------------------------
(* Properties                                                              *)

TypeOK ==
    /\ vNodes \subseteq Node /\ disconnected \subseteq Node \ vNodes
    /\ deleted \subseteq Node \ Alive
    /\ addr \in [Node -> Address \cup {Inbound}] /\ ref \in [Node -> Int]
    /\ flagged \subseteq Node /\ network \subseteq Node
    /\ held \in [Thread -> SUBSET Node]
    /\ at \in [Thread -> {"disconnect", "delete", "accept", "copy", "serve", "ended"}]
    /\ call \in [Caller -> [at : {"idle", "connect", "addref", "storeadd", "test",
                                  "release", "storerelease", "mark"},
                            node : Node \cup {NoNode}, has : BOOLEAN, loaded : Int,
                            to : Address \cup {Inbound}]]
    /\ owned \subseteq Node /\ spoiled \subseteq Node

\* The callers that have a reference to n from ConnectNode.
CountedBy(n) == {c \in Caller : call[c].has /\ call[c].node = n}

One(b) == IF b THEN 1 ELSE 0

\* nRefCount is the number of references that somebody will release: one for each
\* copy that has the node, one for each caller, and one for disconnectUnusedNodes.
RefCountIsExact ==
    \A n \in Alive \ spoiled :
        ref[n] = One(n \in owned) + One(n \in held["socket"]) + One(n \in held["message"])
                   + Cardinality(CountedBy(n))

\* No thread, and no caller with a reference, works on a node that has been deleted.
UsedNodesExist ==
    \A n \in deleted \ spoiled :
        CountedBy(n) = {} /\ \A t \in Thread : n \notin held[t]

\* "Network connections can be unused (nRefCount=0), connected (nRefCount=1), in-use
\* (nRefCount > 1)": the destructor asserts that the node is not in use.
DestructorAssertion ==
    [][\A n \in (deleted' \ deleted) \ spoiled : ref[n] < 2]_vars

\* Nobody will release the reference that an opener gave to a node when it had been
\* disconnected already.
Leaked == disconnected \cap owned

\* Every other node that is disconnected is deleted in the end.
DisconnectedAreDeleted ==
    [](spoiled = {}) =>
        \A n \in Node : (n \in disconnected) ~> (n \in deleted \cup Leaked)

\* "assert(nRefCount >= 0)".
RefCountIsNotNegative == \A n \in Alive : ref[n] >= 0
=============================================================================
