------------------------- MODULE ConnectionsProofs -------------------------
(***************************************************************************)
(* The callers of OpenNetworkConnection and the shutdown preserve the      *)
(* invariant of ConnectionsCount, and the theorems that follow from it.    *)
(***************************************************************************)
EXTENDS ConnectionsCount

-----------------------------------------------------------------------------
(* Openers and checkers.                                                   *)

Places == {"idle", "connect", "addref", "storeadd", "test",
           "release", "storerelease", "mark"}
Calls == [at : Places, node : Node \cup {NoNode}, has : BOOLEAN, loaded : Int,
          to : Address \cup {Inbound}]

\* Caller c, in state r, has the reference that it had.  It hands it over only
\* if there is no other.
KeepsCount(c, r) ==
    /\ \A n \in Node : Counts(c, n) <=> Claims(r, n)
    /\ \A n \in Node \ spoiled : r.at = "mark" /\ Claims(r, n)
          => n \notin owned /\ \A d \in Caller : Counts(d, n) => d = c

\* A step of a caller that changes no count.
LEMMA CallGoes ==
    ASSUME IInv, NEW c \in Caller, NEW STATE r, r \in Calls,
           call' = [call EXCEPT ![c] = r],
           UNCHANGED <<nodeVars, ref, flagged, network, held, at, history>>,
           CallOK(r), KeepsCount(c, r)
    PROVE  IInv'
<1>1. TypeOK /\ call \in [Caller -> Calls]
  BY DEF IInv, TypeOK, Calls, Places
<1>2. call' \in [Caller -> Calls] /\ call'[c] = r
      /\ \A d \in Caller \ {c} : call'[d] = call[d]
  BY <1>1
<1>3. TypeOK'
  BY <1>1, <1>2 DEF TypeOK, nodeVars, history, Alive, Calls, Places
<1>4. Alive' = Alive /\ Born' = Born
  BY DEF Alive, Born, nodeVars
<1>5. CallsOK'
  BY <1>2, <1>4 DEF IInv, CallsOK, CallOK
<1>6. \A n \in Node, d \in Caller : Counts(d, n)' <=> Counts(d, n)
  BY <1>2 DEF KeepsCount, Counts
<1>7. \A n \in Node : CountedBy(n)' = CountedBy(n)
  BY <1>6 DEF CountedBy, Counts, Claims
<1>8. OwnersOK'
  <2>1. ASSUME NEW n \in Node \ spoiled, NEW d \in Caller, HandsOver(d, n)'
        PROVE  n \notin owned /\ \A e \in Caller : HandsOver(e, n)' => e = d
    <3>1. CASE d = c
      BY <1>2, <1>6, <2>1, <3>1 DEF HandsOver, Counts, KeepsCount
    <3>2. CASE d # c
      <4>1. HandsOver(d, n) /\ Counts(d, n)
        BY <1>2, <2>1, <3>2 DEF HandsOver, Counts, Claims
      <4>2. ~HandsOver(c, n)'
        BY <1>2, <3>2, <4>1 DEF HandsOver, Counts, KeepsCount
      <4>3. n \notin owned /\ \A e \in Caller : HandsOver(e, n) => e = d
        BY <4>1 DEF IInv, OwnersOK
      <4> QED
        BY <1>2, <4>2, <4>3 DEF HandsOver, Counts, Claims
    <3> QED
      BY <3>1, <3>2
  <2> QED
    BY <1>4, <2>1 DEF IInv, OwnersOK, history
<1>9. RefCountIsExact'
  BY <1>1, <1>4, <1>7 DEF IInv, RefCountIsExact, history, TypeOK, Alive
<1>10. UsedNodesExist'
  BY <1>1, <1>7 DEF IInv, UsedNodesExist, history, nodeVars, TypeOK
<1> QED
  BY <1>3, <1>5, <1>8, <1>9, <1>10 DEF IInv

\* The steps of a caller that change no count preserve the invariant.
LEMMA QuietCallsInv ==
    ASSUME IInv, NEW c \in Caller,
           \/ \E a \in Address : Call(c, a)
           \/ \E n \in Node : ConnectNodeFinds(c, n)
           \/ ConnectNodeFails(c) \/ LoadsToAdd(c)
           \/ LoadsToRelease(c) \/ TestRefCount(c)
    PROVE  IInv'
<1>1. /\ TypeOK /\ call \in [Caller -> Calls] /\ call[c] \in Calls
      /\ CallOK(call[c]) /\ ref \in [Node -> Int]
  BY DEF IInv, TypeOK, Calls, Places, CallsOK
<1>2. Idle \in Calls /\ ~Idle.has /\ Idle.at = "idle"
  BY DEF Idle, Calls, Places
<1>3. ASSUME NEW a \in Address, Call(c, a)
      PROVE  IInv'
  <2> DEFINE r == [call[c] EXCEPT !.at = "connect", !.to = a]
  <2>1. /\ call' = [call EXCEPT ![c] = r] /\ ~call[c].has
        /\ UNCHANGED <<nodeVars, ref, flagged, network, held, at, history>>
    BY <1>1, <1>2, <1>3, Zenon DEF Call
  <2>2. r \in Calls /\ r.at = "connect" /\ ~r.has
    BY <1>1, <2>1, Zenon DEF Calls, Places
  <2> HIDE DEF r
  <2> QED
    BY <2>1, <2>2, CallGoes, Zenon DEF KeepsCount, Counts, Claims, CallOK
<1>4. ASSUME NEW n \in Node, ConnectNodeFinds(c, n)
      PROVE  IInv'
  <2> DEFINE r == [call[c] EXCEPT !.at = "addref", !.node = n]
  <2>1. /\ call' = [call EXCEPT ![c] = r] /\ call[c].at = "connect"
        /\ n \in vNodes
        /\ UNCHANGED <<nodeVars, ref, flagged, network, held, at, history>>
    BY <1>1, <1>4, Zenon DEF ConnectNodeFinds, FindNode
  <2>2. r \in Calls /\ r.at = "addref" /\ r.node = n /\ r.has = call[c].has
    BY <1>1, Zenon DEF Calls, Places
  <2>3. ~r.has /\ ~call[c].has /\ n \in Born
    BY <1>1, <2>1, <2>2 DEF CallOK, Born, Alive
  <2> HIDE DEF r
  <2> QED
    BY <2>1, <2>2, <2>3, CallGoes, Zenon DEF KeepsCount, Counts, Claims, CallOK
<1>5. ASSUME ConnectNodeFails(c)
      PROVE  IInv'
  <2>1. /\ call' = [call EXCEPT ![c] = Idle] /\ ~call[c].has
        /\ UNCHANGED <<nodeVars, ref, flagged, network, held, at, history>>
    BY <1>1, <1>5 DEF ConnectNodeFails, Returns, CallOK
  <2> QED
    BY <1>2, <2>1, CallGoes, Zenon DEF KeepsCount, Counts, Claims, CallOK
<1>6. ASSUME LoadsToAdd(c)
      PROVE  IInv'
  <2> DEFINE r == [call[c] EXCEPT !.at = "storeadd", !.loaded = ref[call[c].node]]
  <2>1. /\ call' = [call EXCEPT ![c] = r] /\ call[c].at = "addref"
        /\ UNCHANGED <<nodeVars, ref, flagged, network, held, at, history>>
    BY <1>1, <1>6, Zenon DEF LoadsToAdd
  <2>2. ~call[c].has /\ call[c].node \in Born /\ call[c].node \in Node
    BY <1>1, <2>1 DEF CallOK, Born, TypeOK, Alive
  <2>3. r \in Calls /\ r.at = "storeadd" /\ r.node = call[c].node
        /\ r.has = call[c].has
    BY <1>1, <2>2, Zenon DEF Calls, Places
  <2> HIDE DEF r
  <2> QED
    BY <2>1, <2>2, <2>3, CallGoes, Zenon DEF KeepsCount, Counts, Claims, CallOK
<1>7. ASSUME LoadsToRelease(c)
      PROVE  IInv'
  <2> DEFINE r == [call[c] EXCEPT !.at = "storerelease", !.loaded = ref[call[c].node]]
  <2>1. /\ call' = [call EXCEPT ![c] = r] /\ call[c].at = "release"
        /\ UNCHANGED <<nodeVars, ref, flagged, network, held, at, history>>
    BY <1>1, <1>7, Zenon DEF LoadsToRelease
  <2>2. call[c].has /\ call[c].node \in Born /\ call[c].node \in Node
    BY <1>1, <2>1 DEF CallOK, Born, TypeOK, Alive
  <2>3. r \in Calls /\ r.at = "storerelease" /\ r.node = call[c].node
        /\ r.has = call[c].has
    BY <1>1, <2>2, Zenon DEF Calls, Places
  <2> HIDE DEF r
  <2> QED
    BY <2>1, <2>2, <2>3, CallGoes, Zenon DEF KeepsCount, Counts, Claims, CallOK
<1>8. ASSUME TestRefCount(c)
      PROVE  IInv'
  <2> DEFINE place == IF ref[call[c].node] > 1 THEN "release" ELSE "mark"
             r == [call[c] EXCEPT !.at = place]
  <2>1. /\ call' = [call EXCEPT ![c] = r] /\ call[c].at = "test"
        /\ UNCHANGED <<nodeVars, ref, flagged, network, held, at, history>>
    BY <1>1, <1>8 DEF TestRefCount, Goes
  <2>2. call[c].has /\ call[c].node \in Born /\ call[c].node \in Node
    BY <1>1, <2>1 DEF CallOK, Born, TypeOK, Alive
  <2>3. r \in Calls /\ r.at = place /\ r.node = call[c].node
        /\ r.has = call[c].has /\ r.at \in {"release", "mark"}
    BY <1>1 DEF Calls, Places
  <2>4. ASSUME NEW n \in Node \ spoiled, place = "mark", call[c].node = n
        PROVE  n \notin owned /\ \A d \in Caller : Counts(d, n) => d = c
    <3>1. Counts(c, n) /\ c \in CountedBy(n)
      BY <2>2, <2>4 DEF Counts, Claims, CountedBy
    <3>2. n \in Alive
      BY <2>2, <2>4, <3>1 DEF IInv, UsedNodesExist, Born
    <3>3. ref[n] = References(n)
      BY <3>2 DEF IInv, RefCountIsExact, References
    <3>4. ref[n] =< 1
      BY <1>1, <2>4
    <3> QED
      BY <3>1, <3>3, <3>4, OnlyReference
  <2> HIDE DEF r, place
  <2>5. \A n : Counts(c, n) <=> Claims(r, n)
    BY <2>3, Zenon DEF Counts, Claims
  <2>6. KeepsCount(c, r)
    BY <2>3, <2>4, <2>5, Zenon DEF KeepsCount, Claims
  <2>7. CallOK(r)
    BY <2>2, <2>3 DEF CallOK
  <2> QED
    BY <2>1, <2>3, <2>6, <2>7, CallGoes, Zenon
<1> QED
  BY <1>3, <1>4, <1>5, <1>6, <1>7, <1>8

Grows ==
    /\ ref' \in [Node -> Int] /\ network' \subseteq Node
    /\ spoiled \subseteq spoiled' /\ spoiled' \subseteq Node
    /\ owned \subseteq owned' /\ owned' \subseteq Born

Recounted(c, r, n) ==
    ref'[n] = ref[n] + One(n \in owned') - One(n \in owned)
                + One(Claims(r, n)) - One(Counts(c, n))

\* Caller c, in state r, has taken, given back or handed over its reference,
\* and the counts follow.
Recounts(c, r) ==
    /\ \A n \in Alive \ spoiled' : Recounted(c, r, n)
    /\ \A n \in deleted \ spoiled' : ~Claims(r, n)
    /\ \A n \in Node : ~(r.at = "mark" /\ Claims(r, n))
    /\ \A n \in Node \ spoiled' : n \in owned' \ owned
          => \A d \in Caller : HandsOver(d, n) => d = c

\* A step of a caller that takes, gives back or hands over its reference.
LEMMA CallCounts ==
    ASSUME IInv, NEW c \in Caller, NEW STATE r, r \in Calls,
           call' = [call EXCEPT ![c] = r],
           UNCHANGED <<nodeVars, flagged, held, at>>,
           CallOK(r), Grows, Recounts(c, r)
    PROVE  IInv'
<1>1. TypeOK /\ call \in [Caller -> Calls]
  BY DEF IInv, TypeOK, Calls, Places
<1>2. call' \in [Caller -> Calls] /\ call'[c] = r
      /\ \A d \in Caller \ {c} : call'[d] = call[d]
  BY <1>1
<1>3. Alive' = Alive /\ Born' = Born /\ Alive \subseteq Node
      /\ Born \subseteq Node
  BY <1>1 DEF Alive, Born, nodeVars, TypeOK
<1>4. TypeOK'
  BY <1>1, <1>2, <1>3 DEF TypeOK, nodeVars, Calls, Places, Grows
<1>5. CallsOK'
  BY <1>2, <1>3 DEF IInv, CallsOK, CallOK
<1>6. \A n \in Node, d \in Caller : HandsOver(d, n)' => d # c /\ HandsOver(d, n)
  BY <1>2 DEF HandsOver, Counts, Recounts
<1>7. OwnersOK'
  <2>1. ASSUME NEW n \in Node \ spoiled', NEW d \in Caller, HandsOver(d, n)'
        PROVE  n \notin owned' /\ \A e \in Caller : HandsOver(e, n)' => e = d
    <3>1. d # c /\ HandsOver(d, n) /\ n \notin spoiled
      BY <1>6, <2>1 DEF Grows
    <3>2. n \notin owned /\ \A e \in Caller : HandsOver(e, n) => e = d
      BY <3>1 DEF IInv, OwnersOK
    <3>3. n \notin owned'
      BY <3>1, <3>2 DEF Recounts
    <3>4. \A e \in Caller : HandsOver(e, n)' => HandsOver(e, n)
      BY <1>6
    <3> QED
      BY <3>2, <3>3, <3>4
  <2> QED
    BY <1>3, <2>1 DEF IInv, OwnersOK, Grows
<1>8. RefCountIsExact'
  <2> SUFFICES ASSUME NEW n \in Alive, n \notin spoiled'
               PROVE  ref'[n] = One(n \in owned') + One(n \in held["socket"])
                        + One(n \in held["message"]) + Cardinality(CountedBy(n)')
    BY <1>3 DEF RefCountIsExact
  <2> DEFINE was == One(n \in owned)       is == One(n \in owned')
             had == One(Counts(c, n))      has == One(Claims(r, n))
             s == One(n \in held["socket"]) m == One(n \in held["message"])
             k == Cardinality(CountedBy(n)) k1 == Cardinality(CountedBy(n)')
  <2>1. ref[n] = was + s + m + k
    BY DEF IInv, RefCountIsExact, Grows
  <2>2. k1 = k - had + has
    <3>1. k1 = k - had + One(Counts(c, n)')
      BY <1>2, CountChanges
    <3>2. Counts(c, n)' = Claims(r, n)
      BY <1>2 DEF Counts
    <3> QED
      BY <3>1, <3>2
  <2>3. ref'[n] = ref[n] + is - was + has - had
    BY DEF Recounts, Recounted
  <2>4. was \in Int /\ is \in Int /\ had \in Int /\ has \in Int
        /\ s \in Int /\ m \in Int
    BY OneIsInt
  <2>5. k \in Int
    BY CountedIsFinite
  <2> HIDE DEF was, is, had, has, s, m, k, k1
  <2>6. ref'[n] = is + s + m + k1
    BY <2>1, <2>2, <2>3, <2>4, <2>5
  <2> QED
    BY <2>6 DEF is, s, m, k1
<1>9. UsedNodesExist'
  <2> SUFFICES ASSUME NEW n \in deleted, n \notin spoiled'
               PROVE  CountedBy(n)' = {} /\ \A t \in Thread : n \notin held[t]
    BY DEF UsedNodesExist, nodeVars
  <2>1. CountedBy(n) = {} /\ \A t \in Thread : n \notin held[t]
    BY DEF IInv, UsedNodesExist, Grows
  <2>2. ~Claims(call'[c], n)
    BY <1>2 DEF Recounts
  <2>3. \A d \in Caller : ~Claims(call'[d], n)
    BY <1>2, <2>1, <2>2 DEF CountedBy, Claims
  <2> QED
    BY <2>1, <2>3 DEF CountedBy, Claims
<1> QED
  BY <1>4, <1>5, <1>7, <1>8, <1>9 DEF IInv

\* The steps of a caller that change a count preserve the invariant.
LEMMA CountingCallsInv ==
    ASSUME IInv, NEW c \in Caller,
           StoresAdded(c) \/ StoresReleased(c) \/ MarksAsNetworkNode(c)
    PROVE  IInv'
<1> DEFINE n == call[c].node
<1>1. /\ TypeOK /\ call \in [Caller -> Calls] /\ call[c] \in Calls
      /\ CallOK(call[c]) /\ ref \in [Node -> Int] /\ call[c].loaded \in Int
  BY DEF IInv, TypeOK, Calls, Places, CallsOK
<1>2. /\ Idle \in Calls /\ ~Idle.has /\ Idle.at = "idle"
      /\ Born \subseteq Node /\ Alive \subseteq Node
  BY <1>1 DEF Idle, Calls, Places, Born, TypeOK, Alive
<1>3. n \in Born /\ n \in Node
  BY <1>1, <1>2 DEF CallOK, StoresAdded, StoresReleased, MarksAsNetworkNode
<1> HIDE DEF n
<1>4. Spoils(c) \subseteq Node
      /\ (n \notin Spoils(c) => ref[n] = call[c].loaded /\ n \notin deleted)
  BY <1>3 DEF Spoils, n
<1>5. /\ network \subseteq Node /\ owned \subseteq Born /\ owned \subseteq Node
      /\ spoiled \subseteq Node
  BY DEF IInv, TypeOK, OwnersOK
<1>6. ASSUME StoresAdded(c)
      PROVE  IInv'
  <2> DEFINE place == AfterConnect(c)
             r == [at |-> place, node |-> n, has |-> TRUE, loaded |-> 0,
                   to |-> call[c].to]
  <2>1. /\ call' = [call EXCEPT ![c] = r] /\ ~call[c].has
        /\ ref' = [ref EXCEPT ![n] = call[c].loaded + 1]
        /\ spoiled' = spoiled \cup Spoils(c)
        /\ UNCHANGED <<nodeVars, flagged, network, held, at, owned>>
    BY <1>1, <1>6 DEF StoresAdded, n, CallOK
  <2>2. r \in Calls /\ r.at \in {"test", "release"} /\ r.has /\ r.node = n
    <3>1. place \in {"test", "release"}
      BY DEF AfterConnect
    <3> HIDE DEF place
    <3>2. call[c].to \in Address \cup {Inbound}
      BY <1>1 DEF Calls
    <3> QED
      BY <1>3, <3>1, <3>2 DEF Calls, Places
  <2> HIDE DEF r
  <2>3. ref' \in [Node -> Int]
    <3>1. call[c].loaded + 1 \in Int /\ call[c].loaded - 1 \in Int
      BY <1>1
    <3> QED
      BY <1>1, <1>3, <2>1, <3>1
  <2>4. ASSUME NEW m \in Alive \ spoiled'
        PROVE  Recounted(c, r, m)
    <3>1. ref'[m] = IF m = n THEN ref[m] + 1 ELSE ref[m]
      BY <1>1, <1>2, <1>4, <2>1
    <3>2. ref[m] \in Int
      BY <1>1, <1>2
    <3>3. ~Counts(c, m) /\ (Claims(r, m) <=> m = n)
      BY <2>1, <2>2 DEF Counts, Claims
    <3>4. /\ One(Counts(c, m)) = 0
          /\ One(Claims(r, m)) = IF m = n THEN 1 ELSE 0
      BY <3>3 DEF One
    <3>5. One(m \in owned') = One(m \in owned) /\ One(m \in owned) \in Int
      BY <2>1, OneIsInt
    <3> QED
      BY <3>1, <3>2, <3>4, <3>5 DEF Recounted
  <2>5. \A m \in deleted \ spoiled' : ~Claims(r, m)
    BY <1>4, <2>1, <2>2 DEF Claims
  <2>6. Recounts(c, r)
    BY <2>1, <2>2, <2>4, <2>5 DEF Recounts
  <2>7. Grows
    BY <1>4, <1>5, <2>1, <2>3 DEF Grows
  <2>8. CallOK(r)
    BY <1>3, <2>2 DEF CallOK
  <2> QED
    BY <2>1, <2>2, <2>6, <2>7, <2>8, CallCounts, Zenon
<1>7. ASSUME StoresReleased(c)
      PROVE  IInv'
  <2> DEFINE r == IF c \in Opener
                    THEN [call[c] EXCEPT !.at = "mark", !.has = FALSE, !.loaded = 0]
                    ELSE Idle
  <2>1. /\ call' = [call EXCEPT ![c] = r] /\ call[c].has
        /\ ref' = [ref EXCEPT ![n] = call[c].loaded - 1]
        /\ spoiled' = spoiled \cup Spoils(c)
        /\ UNCHANGED <<nodeVars, flagged, network, held, at, owned>>
    BY <1>1, <1>7, Zenon DEF StoresReleased, n, CallOK, Returns
  <2>2. /\ r \in Calls /\ r.at \in {"idle", "mark"} /\ ~r.has
        /\ r.at = "mark" => r.node = n
    <3>1. CASE c \in Opener
      <4>1. r = [at |-> "mark", node |-> n, has |-> FALSE, loaded |-> 0,
                 to |-> call[c].to]
        BY <1>1, <3>1, Zenon DEF Calls, n
      <4>2. call[c].to \in Address \cup {Inbound}
        BY <1>1 DEF Calls
      <4> HIDE DEF r
      <4> QED
        BY <1>3, <4>1, <4>2 DEF Calls, Places
    <3>2. CASE c \notin Opener
      BY <1>2, <3>2
    <3> QED
      BY <3>1, <3>2
  <2> HIDE DEF r
  <2>3. ref' \in [Node -> Int]
    <3>1. call[c].loaded + 1 \in Int /\ call[c].loaded - 1 \in Int
      BY <1>1
    <3> QED
      BY <1>1, <1>3, <2>1, <3>1
  <2>4. ASSUME NEW m \in Alive \ spoiled'
        PROVE  Recounted(c, r, m)
    <3>1. ref'[m] = IF m = n THEN ref[m] - 1 ELSE ref[m]
      BY <1>1, <1>2, <1>4, <2>1
    <3>2. ref[m] \in Int
      BY <1>1, <1>2
    <3>3. (Counts(c, m) <=> m = n) /\ ~Claims(r, m)
      BY <2>1, <2>2 DEF Counts, Claims, n
    <3>4. /\ One(Counts(c, m)) = IF m = n THEN 1 ELSE 0
          /\ One(Claims(r, m)) = 0
      BY <3>3 DEF One
    <3>5. One(m \in owned') = One(m \in owned) /\ One(m \in owned) \in Int
      BY <2>1, OneIsInt
    <3> QED
      BY <3>1, <3>2, <3>4, <3>5 DEF Recounted
  <2>5. Recounts(c, r)
    BY <2>1, <2>2, <2>4 DEF Recounts, Claims
  <2>6. Grows
    BY <1>4, <1>5, <2>1, <2>3 DEF Grows
  <2>7. CallOK(r)
    BY <1>3, <2>2 DEF CallOK
  <2> QED
    BY <2>1, <2>2, <2>5, <2>6, <2>7, CallCounts, Zenon
<1>8. ASSUME MarksAsNetworkNode(c)
      PROVE  IInv'
  <2>1. /\ call' = [call EXCEPT ![c] = Idle] /\ call[c].at = "mark"
        /\ network' = network \cup {n}
        /\ owned' = IF call[c].has THEN owned \cup {n} ELSE owned
        /\ UNCHANGED <<nodeVars, ref, flagged, held, at, spoiled>>
    BY <1>8 DEF MarksAsNetworkNode, Returns, n
  <2>2. ASSUME NEW m \in Node \ spoiled, Counts(c, m)
        PROVE  /\ m = n /\ m \notin owned
               /\ \A d \in Caller : HandsOver(d, m) => d = c
    BY <2>1, <2>2 DEF IInv, OwnersOK, HandsOver, Counts, Claims, n
  <2>3. ASSUME NEW m \in Alive \ spoiled'
        PROVE  Recounted(c, Idle, m)
    <3>1. ref'[m] = ref[m] /\ ref[m] \in Int /\ m \in Node \ spoiled
      BY <1>1, <1>2, <2>1
    <3>2. One(Claims(Idle, m)) = 0 /\ One(m \in owned) \in Int
      BY <1>2, OneIsInt DEF One, Claims
    <3>3. CASE Counts(c, m)
      <4>1. m \in owned' /\ m \notin owned
        BY <2>1, <2>2, <3>1, <3>3, Zenon DEF Counts, Claims
      <4>2. One(m \in owned') = 1 /\ One(m \in owned) = 0 /\ One(Counts(c, m)) = 1
        BY <3>3, <4>1 DEF One
      <4> QED
        BY <3>1, <3>2, <4>2 DEF Recounted
    <3>4. CASE ~Counts(c, m)
      <4>1. (m \in owned') = (m \in owned)
        BY <2>1, <3>4 DEF Counts, Claims, n
      <4>2. One(m \in owned') = One(m \in owned) /\ One(Counts(c, m)) = 0
        BY <3>4, <4>1 DEF One
      <4> QED
        BY <3>1, <3>2, <4>2 DEF Recounted
    <3> QED
      BY <3>3, <3>4
  <2>4. \A m \in Node \ spoiled' : m \in owned' \ owned
           => \A d \in Caller : HandsOver(d, m) => d = c
    BY <2>1, <2>2 DEF Counts, Claims, n
  <2>5. Grows
    BY <1>1, <1>3, <1>5, <2>1 DEF Grows
  <2>6. Recounts(c, Idle)
    BY <1>2, <2>3, <2>4 DEF Recounts, Claims
  <2>7. CallOK(Idle)
    BY <1>2 DEF CallOK
  <2> QED
    BY <1>2, <2>1, <2>5, <2>6, <2>7, CallCounts, Zenon
<1> QED
  BY <1>6, <1>7, <1>8

\* A node made by ConnectNode has one reference, which the call is to hand over
\* to vNodes.
LEMMA CreateInv ==
    ASSUME IInv, NEW c \in Caller, NEW n \in Node, ConnectNodeCreates(c, n)
    PROVE  IInv'
<1> DEFINE place == AfterConnect(c)
           r == [at |-> place, node |-> n, has |-> TRUE, loaded |-> 0,
                 to |-> call[c].to]
<1>1. /\ TypeOK /\ call \in [Caller -> Calls] /\ call[c] \in Calls
      /\ CallOK(call[c])
  BY DEF IInv, TypeOK, Calls, Places, CallsOK
<1>2. /\ n \in Unborn /\ vNodes' = vNodes \cup {n}
      /\ addr' = [addr EXCEPT ![n] = call[c].to]
      /\ ref' = [ref EXCEPT ![n] = 1]
      /\ UNCHANGED <<disconnected, deleted, flagged, network, spoiled,
                     held, at, owned>>
      /\ call[c].at = "connect"
  BY DEF ConnectNodeCreates, CreateNode
<1>3. call' = [call EXCEPT ![c] = r] /\ ~call[c].has
  BY <1>1, <1>2 DEF ConnectNodeCreates, CallOK
<1>4. /\ r \in Calls /\ r.at \in {"test", "release"} /\ r.has /\ r.node = n
      /\ call[c].to \in Address \cup {Inbound}
  <2>1. place \in {"test", "release"}
    BY DEF AfterConnect
  <2> HIDE DEF place
  <2>2. call[c].to \in Address \cup {Inbound}
    BY <1>1 DEF Calls
  <2> QED
    BY <2>1, <2>2 DEF Calls, Places
<1> HIDE DEF r, place
<1>5. call' \in [Caller -> Calls] /\ call'[c] = r
      /\ \A d \in Caller \ {c} : call'[d] = call[d]
  BY <1>1, <1>3, <1>4
<1>6. /\ n \notin Alive /\ n \notin deleted
      /\ n \notin owned /\ CountedBy(n) = {}
      /\ \A t \in Thread : n \notin held[t]
      /\ \A d \in Caller : ~Counts(d, n)
  BY <1>2, UnbornIsUnknown
<1>7. Alive' = Alive \cup {n} /\ Born' = Born \cup {n}
  BY <1>2 DEF Alive, Born
<1>8. TypeOK'
  <2>1. addr' \in [Node -> Address \cup {Inbound}] /\ ref' \in [Node -> Int]
    BY <1>1, <1>2, <1>4 DEF TypeOK
  <2>2. /\ vNodes' \subseteq Node /\ disconnected' \subseteq Node \ vNodes'
        /\ deleted' \subseteq Node \ Alive'
    BY <1>1, <1>2, <1>6, <1>7 DEF TypeOK, Alive
  <2> QED
    BY <1>1, <1>2, <1>5, <2>1, <2>2 DEF TypeOK, Calls, Places
<1>9. CallsOK'
  BY <1>4, <1>5, <1>7 DEF IInv, CallsOK, CallOK
<1>10. OwnersOK'
  <2>1. ASSUME NEW m \in Node \ spoiled, NEW d \in Caller, HandsOver(d, m)'
        PROVE  m \notin owned /\ \A e \in Caller : HandsOver(e, m)' => e = d
    <3>1. \A e \in Caller : HandsOver(e, m)' => HandsOver(e, m)
      BY <1>4, <1>5 DEF HandsOver, Counts, Claims
    <3>2. HandsOver(d, m)
      BY <2>1, <3>1
    <3> QED
      BY <2>1, <3>1, <3>2 DEF IInv, OwnersOK
  <2> QED
    BY <1>2, <1>7, <2>1, Zenon DEF IInv, OwnersOK
<1>11. ASSUME NEW m
       PROVE  /\ Cardinality(CountedBy(m)') =
                    Cardinality(CountedBy(m)) + One(m = n)
              /\ Cardinality(CountedBy(m)) \in Nat
              /\ m # n => CountedBy(m)' = CountedBy(m)
  <2>1. Cardinality(CountedBy(m)') = Cardinality(CountedBy(m))
           - One(Counts(c, m)) + One(Counts(c, m)')
    BY <1>5, CountChanges
  <2>2. ~Counts(c, m) /\ (Counts(c, m)' <=> m = n)
    BY <1>3, <1>4, <1>5 DEF Counts, Claims
  <2>3. Cardinality(CountedBy(m)) \in Nat
    BY CountedIsFinite
  <2>4. m # n => CountedBy(m)' = CountedBy(m)
    BY <1>5, <2>2 DEF CountedBy, Counts, Claims
  <2> QED
    BY <2>1, <2>2, <2>3, <2>4 DEF One
<1>12. RefCountIsExact'
  <2> SUFFICES ASSUME NEW m \in Alive \cup {n}, m \notin spoiled
               PROVE  ref'[m] = One(m \in owned) + One(m \in held["socket"])
                        + One(m \in held["message"]) + Cardinality(CountedBy(m)')
    BY <1>2, <1>7 DEF RefCountIsExact
  <2>1. CASE m = n
    <3>1. ref'[m] = 1
      BY <1>1, <1>2, <2>1 DEF TypeOK
    <3>2. m \notin owned /\ m \notin held["socket"] /\ m \notin held["message"]
          /\ Cardinality(CountedBy(m)) = 0
      BY <1>6, <2>1, FS_EmptySet DEF Thread
    <3> QED
      BY <1>11, <2>1, <3>1, <3>2 DEF One
  <2>2. CASE m # n
    <3>1. ref'[m] = ref[m] /\ m \in Alive
      BY <1>1, <1>2, <2>2 DEF TypeOK, Alive
    <3> QED
      BY <1>11, <2>2, <3>1 DEF IInv, RefCountIsExact
  <2> QED
    BY <2>1, <2>2
<1>13. UsedNodesExist'
  BY <1>2, <1>6, <1>11 DEF IInv, UsedNodesExist
<1> QED
  BY <1>8, <1>9, <1>10, <1>12, <1>13 DEF IInv

-----------------------------------------------------------------------------
(* The theorems.                                                           *)

\* When the threads have ended, no node has more than one reference.
LEMMA EndedThreads ==
    ASSUME IInv, NEW n \in Alive \ spoiled,
           \A t \in Thread : held[t] = {},
           \A c \in Caller : call[c].at \in {"idle", "mark"}
    PROVE  ref[n] < 2
<1>1. ref[n] = One(n \in owned) + Cardinality(CountedBy(n)) /\ n \in Node
  <2>1. Cardinality(CountedBy(n)) \in Nat
    BY CountedIsFinite
  <2> QED
    BY <2>1 DEF IInv, RefCountIsExact, One, Thread, TypeOK, Alive
<1>2. \A c \in CountedBy(n) : c \in Caller /\ HandsOver(c, n)
  BY DEF IInv, CallsOK, CallOK, CountedBy, HandsOver, Counts, Claims
<1>3. CASE CountedBy(n) = {}
  <2>1. Cardinality(CountedBy(n)) = 0
    BY <1>3, FS_EmptySet
  <2> QED
    BY <1>1, <2>1 DEF One
<1>4. CASE CountedBy(n) # {}
  <2>1. PICK c \in CountedBy(n) : TRUE
    BY <1>4
  <2>2. n \notin owned /\ CountedBy(n) = {c}
    BY <1>1, <1>2, <2>1 DEF IInv, OwnersOK
  <2>3. Cardinality(CountedBy(n)) = 1
    BY <2>2, FS_Singleton
  <2> QED
    BY <1>1, <2>2, <2>3 DEF One
<1> QED
  BY <1>3, <1>4

\* The clean-up at shutdown preserves the invariant.
LEMMA CleanupInv ==
    ASSUME IInv, CleanupP2PConnections
    PROVE  IInv'
<1>1. /\ \A t \in Thread : held[t] = {}
      /\ deleted' = deleted \cup Alive /\ vNodes' = {} /\ disconnected' = {}
      /\ call' = [c \in Caller |-> Idle] /\ at' = [t \in Thread |-> "ended"]
      /\ UNCHANGED <<addr, ref, flagged, network, held, history>>
  BY DEF CleanupP2PConnections
<1>2. TypeOK /\ Alive' = {} /\ Born' = Born
  BY <1>1 DEF IInv, Alive, Born
<1>3. Idle \in Calls /\ Idle.at = "idle" /\ ~Idle.has
  BY DEF Idle, Calls, Places
<1>4. TypeOK'
  <2>1. call' \in [Caller -> Calls]
    BY <1>1, <1>3
  <2>2. at' \in [Thread -> {"disconnect", "delete", "accept", "copy", "serve", "ended"}]
    BY <1>1
  <2>3. deleted' \subseteq Node \ Alive' /\ vNodes' \subseteq Node
        /\ disconnected' \subseteq Node \ vNodes'
    BY <1>1, <1>2 DEF TypeOK, Alive
  <2> QED
    BY <1>1, <1>2, <2>1, <2>2, <2>3 DEF TypeOK, history, Calls, Places
<1>5. \A c \in Caller : call'[c].at = "idle" /\ ~call'[c].has
  BY <1>1, <1>3
<1>6. CallsOK'
  BY <1>5 DEF CallsOK, CallOK
<1>7. OwnersOK'
  BY <1>1, <1>2, <1>5 DEF IInv, OwnersOK, HandsOver, Counts, Claims, history
<1>8. RefCountIsExact'
  BY <1>2 DEF RefCountIsExact
<1>9. UsedNodesExist'
  BY <1>1, <1>5, Zenon DEF UsedNodesExist, CountedBy
<1> QED
  BY <1>4, <1>6, <1>7, <1>8, <1>9 DEF IInv

\* Every step preserves the invariant.
LEMMA NextInv ==
    ASSUME IInv, [Next]_vars
    PROVE  IInv'
<1>1. TypeOK
  BY DEF IInv
<1>2. ASSUME NEW t \in Thread, NEW n \in Node, Serve(t, n)
      PROVE  IInv'
  <2>1. TypeOK'
    BY <1>1, <1>2 DEF Serve, TypeOK, nodeVars, history, Alive
  <2> QED
    BY <1>2, <2>1, NothingCounted DEF Serve
<1>3. ASSUME NEW S \in SUBSET Node, BanOutdatedPeers(S)
      PROVE  IInv'
  <2>1. TypeOK'
    BY <1>1, <1>3 DEF BanOutdatedPeers, TypeOK, nodeVars, history, Alive
  <2> QED
    BY <1>3, <2>1, NothingCounted DEF BanOutdatedPeers
<1>4. ASSUME UNCHANGED vars
      PROVE  IInv'
  <2>1. TypeOK'
    BY <1>1, <1>4 DEF vars, TypeOK, nodeVars, history, Alive
  <2> QED
    BY <1>4, <2>1, NothingCounted DEF vars
<1>5. ASSUME ThreadSocketHandler \/ ThreadMessageHandler
      PROVE  IInv'
  <2>1. "socket" \in Thread /\ "message" \in Thread
    BY DEF Thread
  <2> QED
    BY <1>5, <2>1, DisconnectInv, DeleteInv, AcceptInv, CopyInv, ClearInv
       DEF ThreadSocketHandler, ThreadMessageHandler
<1>6. ASSUME NEW c \in Caller, CallGoesOn(c) \/ \E a \in Address : Call(c, a)
      PROVE  IInv'
  BY <1>6, QuietCallsInv, CountingCallsInv, CreateInv DEF CallGoesOn
<1> QED
  BY <1>2, <1>3, <1>4, <1>5, <1>6, CleanupInv DEF Next

\* At the start there are no nodes and no calls.
LEMMA InitInv ==
    ASSUME Init
    PROVE  IInv
<1>1. Idle \in Calls /\ Idle.at = "idle" /\ ~Idle.has
  BY DEF Idle, Calls, Places
<1>2. call \in [Caller -> Calls]
      /\ \A c \in Caller : call[c].at = "idle" /\ ~call[c].has
  BY <1>1 DEF Init
<1>3. TypeOK
  <2>1. at \in [Thread -> {"disconnect", "delete", "accept", "copy", "serve", "ended"}]
    BY DEF Init
  <2> QED
    BY <1>2, <2>1 DEF Init, TypeOK, Alive, Calls, Places
<1>4. Alive = {} /\ deleted = {} /\ owned = {} /\ \A t \in Thread : held[t] = {}
  BY DEF Init, Alive
<1> QED
  BY <1>2, <1>3, <1>4 DEF IInv, CallsOK, CallOK, OwnersOK, HandsOver, Counts, Claims,
                          RefCountIsExact, UsedNodesExist

\* The invariant holds in every reachable state.
THEOREM Invariance == Spec => []IInv
<1>1. Init => IInv
  BY InitInv
<1>2. IInv /\ [Next]_vars => IInv'
  BY NextInv
<1> QED
  BY <1>1, <1>2, PTL DEF Spec

\* Nodes, flags and calls keep their types.
THEOREM TypeCorrect == Spec => []TypeOK
<1>1. IInv => TypeOK
  BY DEF IInv
<1> QED
  BY <1>1, Invariance, PTL

\* nRefCount is the number of references to be released, unless a race has
\* spoiled it, for any number of nodes and callers.
THEOREM RefCountAlwaysExact == Spec => []RefCountIsExact
<1>1. IInv => RefCountIsExact
  BY DEF IInv
<1> QED
  BY <1>1, Invariance, PTL

\* Nobody with a reference works on a deleted node, unless a race has spoiled
\* its count.
THEOREM UsedNodesAlwaysExist == Spec => []UsedNodesExist
<1>1. IInv => UsedNodesExist
  BY DEF IInv
<1> QED
  BY <1>1, Invariance, PTL

\* The destructor's assertion holds whenever a node is deleted.
THEOREM DestructorNeverAsserts == Spec => DestructorAssertion
<1>1. IInv /\ [Next]_vars
        => [\A n \in (deleted' \ deleted) \ spoiled : ref[n] < 2]_vars
  <2> SUFFICES ASSUME IInv, Next, NEW n \in (deleted' \ deleted) \ spoiled
               PROVE  ref[n] < 2
    OBVIOUS
  <2>1. CASE CleanupP2PConnections
    BY <2>1, EndedThreads DEF CleanupP2PConnections
  <2>2. CASE deleteDisconnectedNodes
    <3>1. n \in disconnected /\ ref[n] <= 0 /\ ref[n] \in Int
      BY <2>2 DEF deleteDisconnectedNodes, IInv, TypeOK
    <3> QED
      BY <3>1
  <2>3. \/ CleanupP2PConnections \/ deleteDisconnectedNodes
        \/ deleted' = deleted
    BY ZenonT(30) DEF Next, ThreadSocketHandler, ThreadMessageHandler, Serve, CallGoesOn, Call,
           BanOutdatedPeers, disconnectUnusedNodes, AcceptNewConnections, CopyNodes,
           ClearCopy, CreateNode, nodeVars, ConnectNodeFinds, ConnectNodeCreates,
           ConnectNodeFails, LoadsToAdd, StoresAdded, TestRefCount, LoadsToRelease,
           StoresReleased, MarksAsNetworkNode
  <2> QED
    BY <2>1, <2>2, <2>3
<1> QED
  BY <1>1, Invariance, PTL DEF Spec, DestructorAssertion
=============================================================================
