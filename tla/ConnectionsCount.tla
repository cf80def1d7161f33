-------------------------- MODULE ConnectionsCount --------------------------
(***************************************************************************)
(* The inductive invariant of Connections, for any number of nodes,        *)
(* addresses and threads that open connections, and the proof that the     *)
(* socket thread and the message thread preserve it.                       *)
(*                                                                         *)
(* That the counts are exact is not inductive by itself.  It needs that a  *)
(* caller has a reference exactly between AddRef and Release, that no      *)
(* reference is to a node that does not exist yet, and that the reference  *)
(* an opener hands over with fNetworkNode is the only one of its kind: the *)
(* opener found no other when it tested the count, and those that come     *)
(* later find its own.                                                     *)
(***************************************************************************)
EXTENDS Connections, FiniteSetTheorems, TLAPS

Born == Alive \cup deleted

\* A caller in state r has a reference to n.
Claims(r, n) == r.has /\ r.node = n
Counts(c, n) == Claims(call[c], n)

\* c hands its reference to n over to disconnectUnusedNodes.
HandsOver(c, n) == call[c].at = "mark" /\ Counts(c, n)

References(n) ==
    One(n \in owned) + One(n \in held["socket"]) + One(n \in held["message"])
      + Cardinality(CountedBy(n))

CallOK(r) ==
    /\ r.at \in {"idle", "connect", "addref", "storeadd"} => ~r.has
    /\ r.at \in {"test", "release", "storerelease"} => r.has
    /\ r.at \notin {"idle", "connect"} => r.node \in Born

CallsOK == \A c \in Caller : CallOK(call[c])

OwnersOK ==
    /\ owned \subseteq Born
    /\ \A t \in Thread : held[t] \subseteq Born
    /\ \A t \in Thread : at[t] # "serve" => held[t] = {}
    /\ \A n \in Node \ spoiled, c \in Caller :
          HandsOver(c, n) => /\ n \notin owned
                             /\ \A d \in Caller : HandsOver(d, n) => d = c

IInv ==
    TypeOK /\ CallsOK /\ OwnersOK /\ RefCountIsExact /\ UsedNodesExist

-----------------------------------------------------------------------------
(* Counting.                                                               *)

\* The callers with a reference to a node can be counted.
LEMMA CountedIsFinite ==
    ASSUME NEW n
    PROVE  /\ IsFiniteSet(CountedBy(n)) /\ Cardinality(CountedBy(n)) \in Nat
           /\ CountedBy(n) \subseteq Caller
<1>1. IsFiniteSet(Caller)
  BY ConnectionsAssumption, FS_Union, Zenon DEF Caller
<1>2. CountedBy(n) \subseteq Caller
  BY DEF CountedBy
<1> QED
  BY <1>1, <1>2, FS_Subset, FS_CardinalityType

\* A step of one caller changes the number of references by its own.
LEMMA CountChanges ==
    ASSUME NEW c \in Caller, NEW n,
           \A d \in Caller \ {c} : call'[d] = call[d]
    PROVE  /\ Cardinality(CountedBy(n)') = Cardinality(CountedBy(n))
                - One(Counts(c, n)) + One(Counts(c, n)')
           /\ Cardinality(CountedBy(n)') \in Nat
<1> DEFINE rest == CountedBy(n) \ {c}
<1>1. /\ IsFiniteSet(CountedBy(n)) /\ Cardinality(CountedBy(n)) \in Nat
      /\ CountedBy(n) \subseteq Caller
  BY CountedIsFinite
<1>2. IsFiniteSet(rest) /\ c \notin rest /\ Cardinality(rest) \in Nat
  BY <1>1, FS_Subset, FS_CardinalityType
<1>3. Cardinality(rest \cup {c}) = Cardinality(rest) + 1
  BY <1>2, FS_AddElement
<1>4. CountedBy(n) = IF Counts(c, n) THEN rest \cup {c} ELSE rest
  BY DEF CountedBy, Counts, Claims
<1>5. CountedBy(n)' = IF Counts(c, n)' THEN rest \cup {c} ELSE rest
  BY DEF CountedBy, Counts, Claims
<1> HIDE DEF rest
<1>6. Cardinality(CountedBy(n)) = Cardinality(rest) + One(Counts(c, n))
  BY <1>2, <1>3, <1>4 DEF One
<1>7. Cardinality(CountedBy(n)') = Cardinality(rest) + One(Counts(c, n)')
  BY <1>2, <1>3, <1>5 DEF One
<1> QED
  BY <1>1, <1>2, <1>6, <1>7 DEF One

\* One is a number.
LEMMA OneIsInt == \A b : One(b) \in Int
BY DEF One

\* A step that changes no call changes no reference of a caller.
LEMMA CallsUnchanged ==
    ASSUME UNCHANGED call, NEW n
    PROVE  CountedBy(n)' = CountedBy(n)
BY DEF CountedBy

\* A node whose references are exact and none is held or counted by nobody.
LEMMA NoReferences ==
    ASSUME NEW n, References(n) =< 0
    PROVE  /\ n \notin owned /\ n \notin held["socket"]
           /\ n \notin held["message"] /\ CountedBy(n) = {}
<1>1. Cardinality(CountedBy(n)) \in Nat /\ IsFiniteSet(CountedBy(n))
  BY CountedIsFinite
<1>2. Cardinality(CountedBy(n)) = 0
  BY <1>1 DEF References, One
<1> QED
  BY <1>1, <1>2, FS_EmptySet DEF References, One

\* A caller that counts a node whose only reference is this one is alone.
LEMMA OnlyReference ==
    ASSUME NEW n, NEW c \in Caller, Counts(c, n), References(n) =< 1
    PROVE  n \notin owned /\ \A d \in Caller : Counts(d, n) => d = c
<1> DEFINE rest == CountedBy(n) \ {c}
<1>1. Cardinality(CountedBy(n)) \in Nat /\ IsFiniteSet(CountedBy(n))
  BY CountedIsFinite
<1>2. IsFiniteSet(rest) /\ Cardinality(rest) \in Nat /\ c \notin rest
  BY <1>1, FS_Subset, FS_CardinalityType
<1>3. CountedBy(n) = rest \cup {c}
  BY DEF CountedBy, Counts, Claims
<1>4. Cardinality(CountedBy(n)) = Cardinality(rest) + 1
  BY <1>2, <1>3, FS_AddElement
<1> HIDE DEF rest
<1>5. Cardinality(rest) = 0 /\ n \notin owned
  BY <1>1, <1>2, <1>4 DEF References, One
<1>6. rest = {}
  BY <1>2, <1>5, FS_EmptySet
<1> QED
  BY <1>3, <1>5, <1>6 DEF CountedBy, Counts, Claims

-----------------------------------------------------------------------------
(* The socket thread and the message thread.                               *)

\* A step that leaves the nodes and the references alone.
LEMMA NothingCounted ==
    ASSUME IInv, TypeOK', UNCHANGED <<nodeVars, ref, held, call, history>>,
           \A t \in Thread : at[t] = "serve" => at'[t] = "serve"
    PROVE  IInv'
<1>1. CallsOK'
  BY DEF IInv, CallsOK, CallOK, Born, Alive, nodeVars
<1>2. OwnersOK'
  BY DEF IInv, OwnersOK, Born, Alive, nodeVars, history, HandsOver, Counts, Claims
<1>3. \A n : CountedBy(n)' = CountedBy(n)
  BY CallsUnchanged
<1>4. RefCountIsExact'
  BY <1>3 DEF IInv, RefCountIsExact, Alive, nodeVars, history
<1>5. UsedNodesExist'
  BY <1>3 DEF IInv, UsedNodesExist, Alive, nodeVars, history
<1> QED
  BY <1>1, <1>2, <1>4, <1>5 DEF IInv

\* disconnectUnusedNodes gives back the owner's reference and preserves the
\* invariant.
LEMMA DisconnectInv ==
    ASSUME IInv, disconnectUnusedNodes
    PROVE  IInv'
<1>1. PICK unused \in SUBSET {n \in vNodes : ref[n] <= 0} :
         LET gone == (flagged \cap vNodes) \cup unused
             released == {n \in gone : n \in network \/ addr[n] = Inbound}
         IN  /\ Disconnected(gone)
             /\ flagged' = flagged \cup gone
             /\ ref' = [n \in Node |-> IF n \in released THEN ref[n] - 1 ELSE ref[n]]
             /\ owned' = owned \ released
             /\ spoiled' = spoiled \cup (released \ owned)
  BY Zenon DEF disconnectUnusedNodes
<1> DEFINE gone == (flagged \cap vNodes) \cup unused
           released == {n \in gone : n \in network \/ addr[n] = Inbound}
<1>2. /\ vNodes' = vNodes \ gone /\ disconnected' = disconnected \cup gone
      /\ flagged' = flagged \cup gone
      /\ ref' = [n \in Node |-> IF n \in released THEN ref[n] - 1 ELSE ref[n]]
      /\ owned' = owned \ released
      /\ spoiled' = spoiled \cup (released \ owned)
      /\ gone \subseteq vNodes /\ released \subseteq gone
  BY <1>1 DEF Disconnected
<1> HIDE DEF gone, released
<1>3. /\ UNCHANGED <<deleted, addr, network, held, call>>
      /\ at' = [at EXCEPT !["socket"] = "delete"]
  BY DEF disconnectUnusedNodes
<1>4. Alive' = Alive /\ TypeOK
  BY <1>2 DEF Alive, IInv
<1>5. TypeOK'
  <2>1. /\ vNodes' \subseteq Node /\ disconnected' \subseteq Node \ vNodes'
        /\ owned' \subseteq Node /\ spoiled' \subseteq Node
        /\ flagged' \subseteq Node /\ deleted' \subseteq Node \ Alive'
    BY <1>2, <1>3, <1>4 DEF TypeOK
  <2>2. ref' \in [Node -> Int]
    BY <1>2, <1>4 DEF TypeOK
  <2>3. at' \in [Thread -> {"disconnect", "delete", "accept", "copy", "serve", "ended"}]
    BY <1>3, <1>4 DEF TypeOK, Thread
  <2> QED
    BY <1>3, <1>4, <2>1, <2>2, <2>3 DEF TypeOK
<1>6. CallsOK'
  BY <1>3, <1>4 DEF IInv, CallsOK, CallOK, Born
<1>7. OwnersOK'
  <2>1. \A u \in Thread : at'[u] # "serve" => held'[u] = {}
    BY <1>3, <1>4 DEF IInv, OwnersOK, TypeOK, Thread, disconnectUnusedNodes
  <2> QED
    BY <1>2, <1>3, <1>4, <2>1 DEF IInv, OwnersOK, Born, HandsOver, Counts, Claims
<1>8. \A n : CountedBy(n)' = CountedBy(n)
  BY <1>3, CallsUnchanged
<1>9. RefCountIsExact'
  <2> SUFFICES ASSUME NEW n \in Alive, n \notin spoiled'
               PROVE  ref'[n] = One(n \in owned') + One(n \in held["socket"])
                         + One(n \in held["message"]) + Cardinality(CountedBy(n))
    BY <1>3, <1>4, <1>8 DEF RefCountIsExact
  <2>1. /\ ref[n] = One(n \in owned) + One(n \in held["socket"])
                       + One(n \in held["message"]) + Cardinality(CountedBy(n))
        /\ n \in released => n \in owned
        /\ Cardinality(CountedBy(n)) \in Nat /\ n \in Node
    BY <1>2, <1>4, CountedIsFinite DEF IInv, RefCountIsExact, TypeOK, Alive
  <2> QED
    BY <1>2, <2>1 DEF One
<1>10. UsedNodesExist'
  BY <1>2, <1>3, <1>8 DEF IInv, UsedNodesExist
<1> QED
  BY <1>5, <1>6, <1>7, <1>9, <1>10 DEF IInv

\* deleteDisconnectedNodes deletes nodes that nobody refers to.
LEMMA DeleteInv ==
    ASSUME IInv, deleteDisconnectedNodes
    PROVE  IInv'
<1> DEFINE unused == {n \in disconnected : ref[n] <= 0}
<1>1. /\ disconnected' = disconnected \ unused
      /\ deleted' = deleted \cup unused
      /\ flagged' = flagged \ unused /\ network' = network \ unused
      /\ UNCHANGED <<vNodes, addr, ref, held, call, history>>
      /\ at' = [at EXCEPT !["socket"] = "accept"]
      /\ unused \subseteq disconnected
  BY DEF deleteDisconnectedNodes
<1>2. \A n \in unused \ spoiled :
         CountedBy(n) = {} /\ \A t \in Thread : n \notin held[t]
  <2> SUFFICES ASSUME NEW n \in unused, n \notin spoiled
               PROVE  CountedBy(n) = {} /\ \A t \in Thread : n \notin held[t]
    OBVIOUS
  <2>1. ref[n] = References(n) /\ ref[n] <= 0
    BY DEF IInv, RefCountIsExact, References, Alive
  <2> QED
    BY <2>1, NoReferences DEF Thread
<1> HIDE DEF unused
<1>3. TypeOK /\ Born' = Born
  BY <1>1 DEF IInv, Born, Alive
<1>4. TypeOK'
  <2>1. at' \in [Thread -> {"disconnect", "delete", "accept", "copy", "serve", "ended"}]
    BY <1>1, <1>3 DEF TypeOK, Thread
  <2>2. /\ disconnected' \subseteq Node \ vNodes'
        /\ deleted' \subseteq Node \ Alive'
    BY <1>1, <1>3 DEF TypeOK, Alive
  <2> QED
    BY <1>1, <1>3, <2>1, <2>2 DEF TypeOK, history
<1>5. CallsOK'
  BY <1>1, <1>3 DEF IInv, CallsOK, CallOK
<1>6. OwnersOK'
  <2>1. \A u \in Thread : at'[u] # "serve" => held'[u] = {}
    BY <1>1, <1>3 DEF IInv, OwnersOK, TypeOK, Thread, deleteDisconnectedNodes
  <2> QED
    BY <1>1, <1>3, <2>1 DEF IInv, OwnersOK, HandsOver, Counts, Claims, history
<1>7. \A n : CountedBy(n)' = CountedBy(n)
  BY <1>1, CallsUnchanged
<1>8. RefCountIsExact'
  BY <1>1, <1>7 DEF IInv, RefCountIsExact, Alive, history
<1>9. UsedNodesExist'
  BY <1>1, <1>2, <1>7 DEF IInv, UsedNodesExist, history
<1> QED
  BY <1>4, <1>5, <1>6, <1>8, <1>9 DEF IInv

\* Nothing refers to a node before it exists.
LEMMA UnbornIsUnknown ==
    ASSUME IInv, NEW n \in Unborn
    PROVE  /\ n \in Node /\ n \notin Alive /\ n \notin deleted
           /\ n \notin owned /\ CountedBy(n) = {}
           /\ \A t \in Thread : n \notin held[t]
           /\ \A c \in Caller : ~Counts(c, n)
<1>1. n \in Node /\ n \notin Born
  BY DEF Unborn, Born
<1>2. n \notin owned /\ \A t \in Thread : n \notin held[t]
  BY <1>1 DEF IInv, OwnersOK
<1>3. \A c \in Caller : ~Counts(c, n)
  BY <1>1 DEF IInv, CallsOK, CallOK, Counts, Claims
<1>4. CountedBy(n) = {}
  BY <1>3 DEF CountedBy, Counts, Claims
<1> QED
  BY <1>1, <1>2, <1>3, <1>4 DEF Born

\* An accepted connection is a new node with one reference, its owner's.
LEMMA AcceptInv ==
    ASSUME IInv, AcceptNewConnections
    PROVE  IInv'
<1>1. TypeOK
  BY DEF IInv
<1>2. ASSUME NEW n \in Node, CreateNode(n, Inbound), owned' = owned \cup {n},
             UNCHANGED <<at, held, call>>
      PROVE  IInv'
  <2>1. /\ n \in Unborn /\ vNodes' = vNodes \cup {n}
        /\ addr' = [addr EXCEPT ![n] = Inbound]
        /\ ref' = [ref EXCEPT ![n] = 1]
        /\ UNCHANGED <<disconnected, deleted, flagged, network, spoiled>>
    BY <1>2 DEF CreateNode
  <2>2. /\ n \notin Alive /\ n \notin deleted
        /\ n \notin owned /\ CountedBy(n) = {}
        /\ \A t \in Thread : n \notin held[t]
        /\ \A c \in Caller : ~Counts(c, n)
    BY <2>1, UnbornIsUnknown
  <2>3. Alive' = Alive \cup {n} /\ Born' = Born \cup {n}
    BY <2>1 DEF Alive, Born
  <2>4. TypeOK'
    <3>1. addr' \in [Node -> Address \cup {Inbound}] /\ ref' \in [Node -> Int]
      BY <1>1, <2>1 DEF TypeOK
    <3>2. /\ vNodes' \subseteq Node /\ disconnected' \subseteq Node \ vNodes'
          /\ deleted' \subseteq Node \ Alive' /\ owned' \subseteq Node
      BY <1>1, <1>2, <2>1, <2>2, <2>3 DEF TypeOK, Alive
    <3> QED
      BY <1>1, <1>2, <2>1, <3>1, <3>2 DEF TypeOK
  <2>5. CallsOK'
    BY <1>2, <2>3 DEF IInv, CallsOK, CallOK
  <2>6. OwnersOK'
    BY <1>2, <2>1, <2>2, <2>3 DEF IInv, OwnersOK, HandsOver, Counts, Claims
  <2>7. \A m : CountedBy(m)' = CountedBy(m)
    BY <1>2, CallsUnchanged
  <2>8. Cardinality(CountedBy(n)) = 0
    BY <2>2, FS_EmptySet
  <2>9. RefCountIsExact'
    <3> SUFFICES ASSUME NEW m \in Alive \cup {n}, m \notin spoiled
                 PROVE  ref'[m] = One(m \in owned') + One(m \in held["socket"])
                          + One(m \in held["message"]) + Cardinality(CountedBy(m))
      BY <1>2, <2>1, <2>3, <2>7 DEF RefCountIsExact
    <3>1. CASE m = n
      <4>1. ref'[m] = 1
        BY <1>1, <2>1, <3>1 DEF TypeOK
      <4>2. m \in owned' /\ m \notin held["socket"] /\ m \notin held["message"]
            /\ Cardinality(CountedBy(m)) = 0
        BY <1>2, <2>2, <2>8, <3>1 DEF Thread
      <4> QED
        BY <4>1, <4>2 DEF One
    <3>2. CASE m # n
      <4>1. ref'[m] = ref[m] /\ (m \in owned' <=> m \in owned) /\ m \in Alive
        BY <1>1, <1>2, <2>1, <3>2 DEF TypeOK, Alive
      <4> QED
        BY <4>1 DEF IInv, RefCountIsExact, One
    <3> QED
      BY <3>1, <3>2
  <2>10. UsedNodesExist'
    BY <1>2, <2>1, <2>7 DEF IInv, UsedNodesExist
  <2> QED
    BY <2>4, <2>5, <2>6, <2>9, <2>10 DEF IInv
<1>3. ASSUME at' = [at EXCEPT !["socket"] = "copy"],
             UNCHANGED <<nodeVars, ref, flagged, network, history, held, call>>
      PROVE  IInv'
  <2>1. TypeOK'
    BY <1>1, <1>3 DEF TypeOK, Alive, nodeVars, history, Thread
  <2>2. \A t \in Thread : at[t] = "serve" => at'[t] = "serve"
    BY <1>1, <1>3 DEF TypeOK, Thread, AcceptNewConnections
  <2> QED
    BY <1>3, <2>1, <2>2, NothingCounted
<1> QED
  BY <1>2, <1>3 DEF AcceptNewConnections

\* A thread that copies vNodes takes a reference to each node.
LEMMA CopyInv ==
    ASSUME IInv, NEW t \in Thread, CopyNodes(t)
    PROVE  IInv'
<1>1. /\ held' = [held EXCEPT ![t] = vNodes]
      /\ ref' = [n \in Node |-> IF n \in vNodes THEN ref[n] + 1 ELSE ref[n]]
      /\ at' = [at EXCEPT ![t] = "serve"]
      /\ UNCHANGED <<nodeVars, flagged, network, call, history>>
  BY DEF CopyNodes
<1>2. TypeOK /\ vNodes \subseteq Node /\ vNodes \subseteq Alive
      /\ held \in [Thread -> SUBSET Node] /\ held[t] = {}
  BY DEF IInv, TypeOK, Alive, OwnersOK, CopyNodes
<1>3. TypeOK'
  <2>1. ref' \in [Node -> Int]
    BY <1>1, <1>2 DEF TypeOK
  <2>2. held' \in [Thread -> SUBSET Node]
    BY <1>1, <1>2
  <2>3. at' \in [Thread -> {"disconnect", "delete", "accept", "copy", "serve", "ended"}]
    BY <1>1, <1>2 DEF TypeOK
  <2> QED
    BY <1>1, <1>2, <2>1, <2>2, <2>3 DEF TypeOK, nodeVars, history, Alive
<1>4. Alive' = Alive /\ Born' = Born
  BY <1>1 DEF Alive, Born, nodeVars
<1>5. CallsOK'
  BY <1>1, <1>4 DEF IInv, CallsOK, CallOK
<1>6. OwnersOK'
  <2>1. \A u \in Thread : at'[u] # "serve" => held'[u] = {}
    BY <1>1, <1>2 DEF IInv, OwnersOK, TypeOK, Restart
  <2> QED
    BY <1>1, <1>2, <1>4, <2>1 DEF IInv, OwnersOK, HandsOver, Counts, Claims, history, Born
<1>7. \A n : CountedBy(n)' = CountedBy(n)
  BY <1>1, CallsUnchanged
<1>8. RefCountIsExact'
  <2> SUFFICES ASSUME NEW n \in Alive, n \notin spoiled
               PROVE  ref'[n] = One(n \in owned) + One(n \in held'["socket"])
                        + One(n \in held'["message"]) + Cardinality(CountedBy(n))
    BY <1>1, <1>4, <1>7 DEF RefCountIsExact, history
  <2>1. /\ ref[n] = One(n \in owned) + One(n \in held["socket"])
                       + One(n \in held["message"]) + Cardinality(CountedBy(n))
        /\ Cardinality(CountedBy(n)) \in Nat /\ n \in Node
    BY <1>2, CountedIsFinite DEF IInv, RefCountIsExact, TypeOK, Alive
  <2>2. ref'[n] = IF n \in vNodes THEN ref[n] + 1 ELSE ref[n]
    BY <1>1, <2>1
  <2>3. CASE t = "socket"
    <3>1. held'["socket"] = vNodes /\ held'["message"] = held["message"]
          /\ held["socket"] = {}
      BY <1>1, <1>2, <2>3 DEF Thread
    <3>2. /\ One(n \in held["socket"]) = 0
          /\ One(n \in held'["socket"]) = IF n \in vNodes THEN 1 ELSE 0
          /\ One(n \in held'["message"]) = One(n \in held["message"])
      BY <3>1 DEF One
    <3>3. One(n \in owned) \in Int /\ One(n \in held["message"]) \in Int
      BY OneIsInt
    <3>4. CASE n \in vNodes
      <4>1. /\ ref'[n] = ref[n] + 1
            /\ One(n \in held["socket"]) = 0 /\ One(n \in held'["socket"]) = 1
        BY <2>2, <3>2, <3>4
      <4> QED
        BY <2>1, <3>2, <3>3, <4>1
    <3>5. CASE n \notin vNodes
      <4>1. /\ ref'[n] = ref[n]
            /\ One(n \in held["socket"]) = 0 /\ One(n \in held'["socket"]) = 0
        BY <2>2, <3>2, <3>5
      <4> QED
        BY <2>1, <3>2, <3>3, <4>1
    <3> QED
      BY <3>4, <3>5
  <2>4. CASE t = "message"
    <3>1. held'["message"] = vNodes /\ held'["socket"] = held["socket"]
          /\ held["message"] = {}
      BY <1>1, <1>2, <2>4 DEF Thread
    <3>2. /\ One(n \in held["message"]) = 0
          /\ One(n \in held'["message"]) = IF n \in vNodes THEN 1 ELSE 0
          /\ One(n \in held'["socket"]) = One(n \in held["socket"])
      BY <3>1 DEF One
    <3>3. One(n \in owned) \in Int /\ One(n \in held["socket"]) \in Int
      BY OneIsInt
    <3>4. CASE n \in vNodes
      <4>1. /\ ref'[n] = ref[n] + 1
            /\ One(n \in held["message"]) = 0 /\ One(n \in held'["message"]) = 1
        BY <2>2, <3>2, <3>4
      <4> QED
        BY <2>1, <3>2, <3>3, <4>1
    <3>5. CASE n \notin vNodes
      <4>1. /\ ref'[n] = ref[n]
            /\ One(n \in held["message"]) = 0 /\ One(n \in held'["message"]) = 0
        BY <2>2, <3>2, <3>5
      <4> QED
        BY <2>1, <3>2, <3>3, <4>1
    <3> QED
      BY <3>4, <3>5
  <2> QED
    BY <2>3, <2>4 DEF Thread
<1>9. UsedNodesExist'
  <2>1. vNodes \cap deleted = {}
    BY <1>2 DEF TypeOK, Alive
  <2> QED
    BY <1>1, <1>2, <1>7, <2>1 DEF IInv, UsedNodesExist, history, nodeVars
<1> QED
  BY <1>3, <1>5, <1>6, <1>8, <1>9 DEF IInv

\* A thread that is done gives back the references of its copy.
LEMMA ClearInv ==
    ASSUME IInv, NEW t \in Thread, ClearCopy(t)
    PROVE  IInv'
<1>1. /\ held' = [held EXCEPT ![t] = {}]
      /\ ref' = [n \in Node |-> IF n \in held[t] THEN ref[n] - 1 ELSE ref[n]]
      /\ at' = Restart(t)
      /\ UNCHANGED <<nodeVars, flagged, network, call, history>>
  BY DEF ClearCopy
<1>2. TypeOK /\ held \in [Thread -> SUBSET Node]
  BY DEF IInv, TypeOK
<1>3. TypeOK'
  <2>1. ref' \in [Node -> Int]
    BY <1>1, <1>2 DEF TypeOK
  <2>2. held' \in [Thread -> SUBSET Node]
    BY <1>1, <1>2
  <2>3. at' \in [Thread -> {"disconnect", "delete", "accept", "copy", "serve", "ended"}]
    BY <1>1, <1>2 DEF TypeOK, Restart
  <2> QED
    BY <1>1, <1>2, <2>1, <2>2, <2>3 DEF TypeOK, nodeVars, history, Alive
<1>4. Alive' = Alive /\ Born' = Born
  BY <1>1 DEF Alive, Born, nodeVars
<1>5. CallsOK'
  BY <1>1, <1>4 DEF IInv, CallsOK, CallOK
<1>6. OwnersOK'
  <2>1. \A u \in Thread : at'[u] # "serve" => held'[u] = {}
    BY <1>1, <1>2 DEF IInv, OwnersOK, TypeOK, Restart
  <2> QED
    BY <1>1, <1>2, <1>4, <2>1 DEF IInv, OwnersOK, HandsOver, Counts, Claims, history, Born
<1>7. \A n : CountedBy(n)' = CountedBy(n)
  BY <1>1, CallsUnchanged
<1>8. RefCountIsExact'
  <2> SUFFICES ASSUME NEW n \in Alive, n \notin spoiled
               PROVE  ref'[n] = One(n \in owned) + One(n \in held'["socket"])
                        + One(n \in held'["message"]) + Cardinality(CountedBy(n))
    BY <1>1, <1>4, <1>7 DEF RefCountIsExact, history
  <2>1. /\ ref[n] = One(n \in owned) + One(n \in held["socket"])
                       + One(n \in held["message"]) + Cardinality(CountedBy(n))
        /\ Cardinality(CountedBy(n)) \in Nat /\ n \in Node
    BY <1>2, CountedIsFinite DEF IInv, RefCountIsExact, TypeOK, Alive
  <2>2. ref'[n] = IF n \in held[t] THEN ref[n] - 1 ELSE ref[n]
    BY <1>1, <2>1
  <2>3. CASE t = "socket"
    <3>1. held'["socket"] = {} /\ held'["message"] = held["message"]
      BY <1>1, <1>2, <2>3 DEF Thread
    <3>2. /\ One(n \in held["socket"]) = IF n \in held[t] THEN 1 ELSE 0
          /\ One(n \in held'["socket"]) = 0
          /\ One(n \in held'["message"]) = One(n \in held["message"])
      BY <2>3, <3>1 DEF One
    <3>3. One(n \in owned) \in Int /\ One(n \in held["message"]) \in Int
      BY OneIsInt
    <3>4. CASE n \in held[t]
      <4>1. /\ ref'[n] = ref[n] - 1
            /\ One(n \in held["socket"]) = 1 /\ One(n \in held'["socket"]) = 0
        BY <2>2, <3>2, <3>4
      <4> QED
        BY <2>1, <3>2, <3>3, <4>1
    <3>5. CASE n \notin held[t]
      <4>1. /\ ref'[n] = ref[n]
            /\ One(n \in held["socket"]) = 0 /\ One(n \in held'["socket"]) = 0
        BY <2>2, <3>2, <3>5
      <4> QED
        BY <2>1, <3>2, <3>3, <4>1
    <3> QED
      BY <3>4, <3>5
  <2>4. CASE t = "message"
    <3>1. held'["message"] = {} /\ held'["socket"] = held["socket"]
      BY <1>1, <1>2, <2>4 DEF Thread
    <3>2. /\ One(n \in held["message"]) = IF n \in held[t] THEN 1 ELSE 0
          /\ One(n \in held'["message"]) = 0
          /\ One(n \in held'["socket"]) = One(n \in held["socket"])
      BY <2>4, <3>1 DEF One
    <3>3. One(n \in owned) \in Int /\ One(n \in held["socket"]) \in Int
      BY OneIsInt
    <3>4. CASE n \in held[t]
      <4>1. /\ ref'[n] = ref[n] - 1
            /\ One(n \in held["message"]) = 1 /\ One(n \in held'["message"]) = 0
        BY <2>2, <3>2, <3>4
      <4> QED
        BY <2>1, <3>2, <3>3, <4>1
    <3>5. CASE n \notin held[t]
      <4>1. /\ ref'[n] = ref[n]
            /\ One(n \in held["message"]) = 0 /\ One(n \in held'["message"]) = 0
        BY <2>2, <3>2, <3>5
      <4> QED
        BY <2>1, <3>2, <3>3, <4>1
    <3> QED
      BY <3>4, <3>5
  <2> QED
    BY <2>3, <2>4 DEF Thread
<1>9. UsedNodesExist'
  BY <1>1, <1>2, <1>7 DEF IInv, UsedNodesExist, history, nodeVars
<1> QED
  BY <1>3, <1>5, <1>6, <1>8, <1>9 DEF IInv
=============================================================================
