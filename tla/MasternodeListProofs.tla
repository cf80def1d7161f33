------------------------ MODULE MasternodeListProofs ------------------------
(***************************************************************************)
(* Proofs about MasternodeList, for any number of broadcasts and any       *)
(* lengths of time that are ordered as the code's are.                     *)
(*                                                                         *)
(* The handlers are functions of what the node holds, its view, and so is  *)
(* the inductive invariant: ViewOK is what every handler preserves.  It    *)
(* adds to the properties that an entry which is not enabled has an old    *)
(* ping, so that a check does not enable it again with a ping that was     *)
(* never recorded, and that between the two halves of a background round   *)
(* an enabled entry has a ping that the second half does not forget.       *)
(***************************************************************************)
EXTENDS MasternodeList, TLAPS

Drafts == [sigTime : Broadcasts, lastPing : Ping \cup {None},
           activeState : {"ENABLED"}]
State == {"ENABLED", "EXPIRED", "REMOVE", "VIN_SPENT"}
Entry == [sigTime : Broadcasts, lastPing : Ping, activeState : State]
Views == [entry : Entry \cup {None},
          seenBroadcast : [Broadcasts -> Ping \cup {None}],
          seenPing : SUBSET Ping]

\* What holds of every view.
ViewOK(v) ==
    /\ v \in Views
    /\ \A b \in Broadcasts :
          v.seenBroadcast[b] # None => v.entry # None /\ b =< v.entry.sigTime
    /\ Listed(v) => v.entry.lastPing \in v.seenPing
    /\ Listed(v) /\ v.seenBroadcast[v.entry.sigTime] # None
          => v.seenBroadcast[v.entry.sigTime] = v.entry.lastPing
    /\ v.entry # None /\ v.entry.activeState \in {"EXPIRED", "REMOVE"}
          => v.entry.lastPing.age >= Expiration
    /\ checked /\ Listed(v) => v.entry.lastPing.age < Expiration

IInv == TypeOK /\ ViewOK(View)

\* The lengths of time are natural numbers in the order of the code's.
LEMMA Lengths ==
    /\ NBroadcasts \in Nat \ {0} /\ MinPing \in Nat \ {0}
    /\ MinBroadcast \in Nat \ {0} /\ AskAgain \in Nat \ {0}
    /\ Window \in Nat \ {0} /\ Expiration \in Nat \ {0}
    /\ Removal \in Nat \ {0} /\ Forget \in Nat \ {0}
    /\ Window =< Expiration /\ Expiration < Removal /\ Removal =< Forget
    /\ MinBroadcast =< Forget
BY MasternodeListAssumption

\* The value for a missing entry or ping is neither.
LEMMA NoneIsNothing == None \notin Ping /\ None \notin Entry
<1>1. DOMAIN None = {"none"}
  BY DEF None
<1>2. \A p \in Ping : DOMAIN p = {"key", "age"}
  BY DEF Ping
<1>3. \A e \in Entry : DOMAIN e = {"sigTime", "lastPing", "activeState"}
  BY DEF Entry
<1>4. "none" \notin {"key", "age"}
      /\ "none" \notin {"sigTime", "lastPing", "activeState"}
  OBVIOUS
<1> QED
  BY <1>1, <1>2, <1>3, <1>4

\* A check changes nothing but the state, which tells how old the ping is.
LEMMA CheckLemma ==
    ASSUME NEW STATE mn, mn \in Entry, spent \in BOOLEAN
    PROVE  /\ Check(mn) \in Entry
           /\ Check(mn).sigTime = mn.sigTime
           /\ Check(mn).lastPing = mn.lastPing
           /\ Check(mn).activeState \in {"EXPIRED", "REMOVE"}
                => mn.lastPing.age >= Expiration
           /\ Check(mn).activeState = "ENABLED"
                => /\ mn.lastPing.age < Expiration
                   /\ mn.activeState # "VIN_SPENT"
           /\ Check(mn).activeState = "VIN_SPENT"
                => spent \/ mn.activeState = "VIN_SPENT"
<1>1. mn.lastPing.age \in Nat
  BY Lengths DEF Entry, Ping, Age, Oldest
<1> QED
  BY <1>1, Lengths DEF Check, Entry, State

\* A ping that is accepted is the entry's last ping and is newer than the one
\* before.  One that is not leaves the entry alone, or finds it spent.
LEMMA PingLemma ==
    ASSUME NEW STATE mn, mn \in Drafts, NEW p \in Ping, NEW fits \in BOOLEAN,
           spent \in BOOLEAN
    PROVE  LET r == CheckAndUpdatePing(mn, p, fits)
           IN /\ r.ok \in BOOLEAN
              /\ r.ok => r.mn.activeState = "ENABLED"
              /\ \/ ~r.ok /\ r.mn = mn
                 \/ /\ r.mn \in Entry
                    /\ r.mn.sigTime = mn.sigTime
                    /\ r.mn.lastPing = p
                    /\ p.age < Window
                    /\ mn.lastPing # None => p.age < mn.lastPing.age
                    /\ r.ok \/ (r.mn.activeState = "VIN_SPENT" /\ spent)
<1> DEFINE r == CheckAndUpdatePing(mn, p, fits)
           pinged == [mn EXCEPT !.lastPing = p]
           accepted == [mn |-> Check(pinged), blame |-> FALSE,
                        ok |-> Check(pinged).activeState = "ENABLED"]
           refused(blame) == [mn |-> mn, ok |-> FALSE, blame |-> blame]
<1>1. /\ pinged \in Entry
      /\ pinged.sigTime = mn.sigTime /\ pinged.lastPing = p
      /\ pinged.activeState = "ENABLED"
  BY DEF Drafts, Entry, State
<1>2. p.age \in Nat /\ (mn.lastPing # None => mn.lastPing.age \in Nat)
  BY Lengths DEF Drafts, Ping, Age, Oldest
<1>3. CASE p.age >= Window \/ TooEarly(mn, p) \/ p.key # mn.sigTime \/ ~fits
  <2>1. \E blame \in BOOLEAN : r = refused(blame)
    BY <1>3 DEF CheckAndUpdatePing
  <2> QED
    BY <2>1
<1>4. CASE /\ p.age < Window /\ ~TooEarly(mn, p)
           /\ p.key = mn.sigTime /\ fits
  <2>1. r = accepted
    BY <1>4, <1>2, Lengths DEF CheckAndUpdatePing
  <2>2. mn.lastPing # None => p.age < mn.lastPing.age
    BY <1>4, <1>2, Lengths DEF TooEarly
  <2>3. Check(pinged) \in Entry /\ Check(pinged).sigTime = mn.sigTime
        /\ Check(pinged).lastPing = p
    BY <1>1, CheckLemma
  <2>4. Check(pinged).activeState \in {"ENABLED", "VIN_SPENT"}
    BY <1>1, <1>2, <1>4, CheckLemma, <2>3, Lengths DEF Entry, State
  <2>6. Check(pinged).activeState = "VIN_SPENT" => spent
    BY <1>1, CheckLemma
  <2>5. /\ r.mn = Check(pinged)
        /\ r.ok = (Check(pinged).activeState = "ENABLED")
    BY <2>1
  <2> QED
    BY <2>2, <2>3, <2>4, <2>5, <2>6, <1>4
<1> QED
  BY <1>2, <1>3, <1>4, Lengths

\* An enabled entry with a ping that is recorded.
LEMMA RecordLemma ==
    ASSUME NEW STATE v, v \in Views, NEW p \in Ping,
           v.entry \in Entry, v.entry.lastPing = p, p.age < Expiration,
           v.entry.activeState = "ENABLED",
           \A b \in Broadcasts :
              v.seenBroadcast[b] # None => b =< v.entry.sigTime
    PROVE  /\ ViewOK(RecordSeenPing(v, p))
           /\ RecordSeenPing(v, p).entry = v.entry
<1> DEFINE w == RecordSeenPing(v, p)
           s == v.entry.sigTime
<1>1. /\ v.entry # None /\ p # None /\ s \in Broadcasts
      /\ v.seenBroadcast \in [Broadcasts -> Ping \cup {None}]
      /\ v.seenPing \in SUBSET Ping
  BY NoneIsNothing DEF Views, Entry
<1>2. w.entry = v.entry /\ w.seenPing = v.seenPing \cup {p}
      /\ w.seenBroadcast = [b \in Broadcasts |->
            IF b = s /\ v.seenBroadcast[b] # None
              THEN p ELSE v.seenBroadcast[b]]
  BY <1>1 DEF RecordSeenPing
<1>5. w \in Views
  BY <1>1, <1>2 DEF RecordSeenPing, Views
<1>3. \A b \in Broadcasts : w.seenBroadcast[b] # None => b =< s
  BY <1>1, <1>2
<1>4. w.seenBroadcast[s] # None => w.seenBroadcast[s] = p
  BY <1>1, <1>2
<1> QED
  BY <1>1, <1>2, <1>3, <1>4, <1>5 DEF ViewOK, Listed

\* A broadcast that is not seen and not older than the entry, applied to the
\* entry, leaves it so.
LEMMA UpdateLemma ==
    ASSUME TypeOK, NEW STATE v, ViewOK(v),
           NEW b \in Broadcasts, NEW p \in Ping,
           NEW fits \in BOOLEAN,
           v.seenBroadcast[b] = None,
           v.entry # None => v.entry.sigTime =< b
    PROVE  LET u == UpdateMasternodeFromBroadcast(v, b, p, fits)
           IN /\ ViewOK(u)
              /\ u.seenBroadcast[b] = None
              /\ \/ u = v
                 \/ /\ Listed(v) /\ u.entry # None
                    /\ u.entry.sigTime = b
                    /\ u.entry.lastPing.age =< v.entry.lastPing.age
                    /\ u.entry.activeState = "VIN_SPENT" => spent
<1> DEFINE u == UpdateMasternodeFromBroadcast(v, b, p, fits)
           newer == [v.entry EXCEPT !.sigTime = b]
           ping == CheckAndUpdatePing(newer, p, fits)
           updates == /\ Listed(v)
                      /\ signed[v.entry.sigTime] >= MinBroadcast
                      /\ b > v.entry.sigTime
<1>1. CASE ~updates
  BY <1>1 DEF UpdateMasternodeFromBroadcast
<1>2. CASE updates
  <2>1. /\ v.entry \in Entry /\ v \in Views /\ v.entry.activeState = "ENABLED"
        /\ v.seenBroadcast \in [Broadcasts -> Ping \cup {None}]
        /\ v.entry.sigTime \in Broadcasts
        /\ v.entry.lastPing \in Ping /\ v.entry.lastPing.age \in Nat
    BY <1>2, Lengths DEF ViewOK, Views, Listed, Entry, Ping, Age, Oldest
  <2>2. /\ newer \in Drafts /\ newer \in Entry /\ newer.sigTime = b
        /\ newer.lastPing = v.entry.lastPing /\ newer.activeState = "ENABLED"
    BY <2>1 DEF Drafts, Entry
  <2>3. spent \in BOOLEAN
    BY DEF TypeOK
  <2>4. newer.lastPing # None
    BY <2>1, <2>2, NoneIsNothing
  <2>5. \A c \in Broadcasts : v.seenBroadcast[c] # None => c =< b
    <3>1. v.entry.sigTime =< b /\ b \in Nat /\ v.entry.sigTime \in Nat
      BY <1>2, <2>1, Lengths DEF Broadcasts
    <3> QED
      BY <3>1 DEF ViewOK, Broadcasts
  <2>8. /\ ping.ok \in BOOLEAN
        /\ ping.ok => ping.mn.activeState = "ENABLED"
        /\ \/ ~ping.ok /\ ping.mn = newer
           \/ /\ ping.mn \in Entry
              /\ ping.mn.sigTime = newer.sigTime
              /\ ping.mn.lastPing = p
              /\ p.age < Window
              /\ newer.lastPing # None => p.age < newer.lastPing.age
              /\ ping.ok \/ (ping.mn.activeState = "VIN_SPENT" /\ spent)
    <3> HIDE DEF newer
    <3> QED
      BY <2>2, <2>3, PingLemma
  <2>9. p.age \in Nat
    BY Lengths DEF Ping, Age, Oldest
  <2>6. CASE ping.ok
    <3> DEFINE w == [v EXCEPT !.entry = ping.mn]
    <3>1. /\ ping.mn \in Entry /\ ping.mn.sigTime = b /\ ping.mn.lastPing = p
          /\ ping.mn.activeState = "ENABLED" /\ p.age < Window
          /\ p.age < v.entry.lastPing.age
      BY <2>2, <2>4, <2>6, <2>8
    <3>2. u = RecordSeenPing(w, p)
      BY <1>2, <2>6 DEF UpdateMasternodeFromBroadcast
    <3>3. /\ w \in Views /\ w.entry = ping.mn
          /\ w.seenBroadcast = v.seenBroadcast
      BY <2>1, <3>1 DEF Views
    <3>4. p.age < Expiration /\ p.age \in Nat
      BY <3>1, Lengths DEF Ping, Age, Oldest
    <3>5. ViewOK(u) /\ u.entry = ping.mn
      BY <2>5, <3>1, <3>2, <3>3, <3>4, RecordLemma
    <3>6. u.seenBroadcast[b] = None
      BY <3>1, <3>2, <3>3, <2>1 DEF RecordSeenPing, Views
    <3> QED
      BY <1>2, <2>1, <3>1, <3>4, <3>5, <3>6, NoneIsNothing
  <2>7. CASE ~ping.ok
    <3> DEFINE w == Check(ping.mn)
    <3>1. /\ ping.mn \in Entry /\ ping.mn.sigTime = b
          /\ ping.mn.lastPing \in Ping
          /\ ping.mn.lastPing.age =< v.entry.lastPing.age
          /\ \/ ping.mn.lastPing = v.entry.lastPing
             \/ ping.mn.activeState = "VIN_SPENT"
          /\ ping.mn.activeState = "VIN_SPENT" => spent
      <4> HIDE DEF ping, newer
      <4>1. CASE ping.mn = newer
        BY <4>1, <2>1, <2>2
      <4>2. CASE ping.mn # newer
        BY <4>2, <2>1, <2>2, <2>4, <2>7, <2>8, <2>9
      <4> QED
        BY <4>1, <4>2
    <3>2. u = [v EXCEPT !.entry = w]
      BY <1>2, <2>7 DEF UpdateMasternodeFromBroadcast
    <3>3. /\ w \in Entry /\ w.sigTime = b /\ w.lastPing = ping.mn.lastPing
          /\ w.activeState \in {"EXPIRED", "REMOVE"}
                => w.lastPing.age >= Expiration
          /\ w.activeState = "ENABLED"
                => /\ w.lastPing.age < Expiration
                   /\ w.lastPing = v.entry.lastPing
          /\ w.activeState = "VIN_SPENT" => spent
      BY <2>3, <3>1, CheckLemma
    <3>4. /\ u \in Views /\ u.entry = w /\ u.seenPing = v.seenPing
          /\ u.seenBroadcast = v.seenBroadcast
      BY <2>1, <3>2, <3>3 DEF Views
    <3>5. u.entry # None
      BY <3>3, <3>4, NoneIsNothing
    <3>6. Listed(u) => u.entry.lastPing \in u.seenPing
      BY <1>2, <3>3, <3>4 DEF Listed, ViewOK
    <3>7. ViewOK(u)
      BY <2>5, <3>3, <3>4, <3>5, <3>6 DEF ViewOK, Listed
    <3> QED
      BY <1>2, <3>1, <3>3, <3>4, <3>5, <3>7
  <2> QED
    BY <2>6, <2>7
<1> QED
  BY <1>1, <1>2

\* The handler of "mnb" keeps the view in order, and an entry that stays or
\* is replaced gets newer.
LEMMA BroadcastLemma ==
    ASSUME TypeOK, NEW STATE v, ViewOK(v),
           NEW b \in Broadcasts, NEW p \in Ping,
           NEW fits \in BOOLEAN
    PROVE  LET w == ProcessBroadcast(v, b, p, fits)
           IN /\ ViewOK(w)
              /\ v.entry # None /\ w.entry # None
                   => /\ w.entry.sigTime >= v.entry.sigTime
                      /\ \/ w.entry.lastPing.age =< v.entry.lastPing.age
                         \/ v.entry.activeState = "VIN_SPENT"
<1> DEFINE w       == ProcessBroadcast(v, b, p, fits)
           mn      == [sigTime |-> b, lastPing |-> None,
                       activeState |-> "ENABLED"]
           ping    == CheckAndUpdatePing(mn, p, fits)
           u       == UpdateMasternodeFromBroadcast(v, b, p, fits)
           added   == recordBroadcast([u EXCEPT !.entry = ping.mn], b, p)
           stale   == \/ v.seenBroadcast[b] # None
                      \/ v.entry # None /\ v.entry.sigTime > b
           done    == \/ ~Listed(u) /\ spent
                      \/ ~ping.ok
                      \/ Listed(u)
<1>1. /\ b \in Nat /\ p.age \in Nat
      /\ v.entry # None => /\ v.entry \in Entry /\ v.entry.sigTime \in Nat
                           /\ v.entry.lastPing.age \in Nat
  BY Lengths DEF Broadcasts, ViewOK, Views, Entry, Ping, Age, Oldest
<1>2. CASE stale
  <2>1. w = v
    BY <1>2 DEF ProcessBroadcast
  <2> QED
    BY <2>1, <1>1
<1>3. CASE ~stale
  <2>1. w = IF done THEN u ELSE RecordSeenPing(added, p)
    BY <1>3 DEF ProcessBroadcast
  <2>2. v.seenBroadcast[b] = None /\ (v.entry # None => v.entry.sigTime =< b)
    BY <1>1, <1>3
  <2>3. /\ ViewOK(u) /\ u.seenBroadcast[b] = None
        /\ \/ u = v
           \/ /\ Listed(v) /\ u.entry # None /\ u.entry.sigTime = b
              /\ u.entry.lastPing.age =< v.entry.lastPing.age
              /\ u.entry.activeState = "VIN_SPENT" => spent
    BY <2>2, UpdateLemma
  <2>4. CASE done
    BY <2>1, <2>2, <2>3, <2>4, <1>1
  <2>5. CASE ~done
    <3>1. ~Listed(u) /\ ~spent /\ ping.ok
      BY <2>5
    <3>2. mn \in Drafts /\ mn.sigTime = b /\ spent \in BOOLEAN
      BY DEF Drafts, TypeOK
    <3>3. /\ ping.mn \in Entry /\ ping.mn.sigTime = b /\ ping.mn.lastPing = p
          /\ ping.mn.activeState = "ENABLED" /\ p.age < Window
      <4> HIDE DEF mn
      <4> QED
        BY <3>1, <3>2, PingLemma
    <3>4. /\ u \in Views
          /\ u.seenBroadcast \in [Broadcasts -> Ping \cup {None}]
          /\ u.entry # None => u.entry \in Entry /\ u.entry.sigTime =< b
          /\ \A c \in Broadcasts :
                u.seenBroadcast[c] # None
                    => u.entry # None /\ c =< u.entry.sigTime
      BY <2>2, <2>3, <1>1, SMTT(30) DEF ViewOK, Views
    <3>5. /\ added.entry = ping.mn
          /\ added.seenBroadcast = [c \in Broadcasts |->
                IF c = b /\ u.seenBroadcast[c] = None
                  THEN p ELSE u.seenBroadcast[c]]
          /\ added \in Views
      BY <3>3, <3>4 DEF recordBroadcast, Views
    <3>6. \A c \in Broadcasts : added.seenBroadcast[c] # None => c =< b
      <4> SUFFICES ASSUME NEW c \in Broadcasts,
                          added.seenBroadcast[c] # None, c # b
                   PROVE  c =< b
        BY <1>1
      <4>1. u.seenBroadcast[c] # None
        BY <3>5
      <4>2. u.entry # None /\ c =< u.entry.sigTime /\ u.entry.sigTime =< b
        BY <4>1, <3>4
      <4>3. c \in Nat /\ u.entry.sigTime \in Nat
        BY <4>2, <3>4, Lengths DEF Broadcasts, Entry
      <4> QED
        BY <4>2, <4>3, <1>1
    <3>7. p.age < Expiration
      BY <3>3, <1>1, Lengths
    <3>8. ViewOK(w) /\ w.entry = ping.mn
      BY <2>1, <2>5, <3>3, <3>5, <3>6, <3>7, RecordLemma
    <3>9. v.entry # None => \/ p.age =< v.entry.lastPing.age
                            \/ v.entry.activeState = "VIN_SPENT"
      <4>1. u.entry # None /\ u.entry.activeState # "VIN_SPENT"
               => u.entry.lastPing.age >= Expiration
        BY <3>1, <3>4, <2>3 DEF ViewOK, Listed, Entry, State
      <4>2. CASE u = v
        BY <4>1, <4>2, <3>7, <1>1, Lengths
      <4>3. CASE u # v
        <5>1. u.entry # None /\ u.entry.activeState # "VIN_SPENT"
              /\ u.entry.lastPing.age =< v.entry.lastPing.age
          BY <4>3, <2>3, <3>1
        <5>2. u.entry.lastPing.age \in Nat
          BY <5>1, <3>4, Lengths DEF Entry, Ping, Age, Oldest
        <5> QED
          BY <5>1, <5>2, <4>1, <3>7, <1>1, Lengths
      <4> QED
        BY <4>2, <4>3
    <3> QED
      BY <3>3, <3>8, <3>9, <2>2, <1>1
  <2> QED
    BY <2>4, <2>5
<1> QED
  BY <1>2, <1>3

\* A step that makes a view in order the node's own preserves the invariant.
LEMMA HandlerInv ==
    ASSUME IInv, NEW STATE v, ViewOK(v), Becomes(v),
           asked' \in 0 .. AskAgain, UNCHANGED <<checked, operator, spent>>
    PROVE  IInv'
<1>1. View' = v
  BY DEF Becomes, View, ViewOK, Views
<1>2. ViewOK(View)'
  BY <1>1 DEF ViewOK, Listed
<1>3. TypeOK'
  BY DEF IInv, TypeOK, Becomes, ViewOK, Views, Entry, State, operator
<1> QED
  BY <1>2, <1>3 DEF IInv

\* A ping that gets older is a ping with the same key.
LEMMA OlderLemma ==
    ASSUME NEW STATE p, p \in Ping
    PROVE  /\ OlderPing(p, Oldest) \in Ping
           /\ OlderPing(p, Oldest).age >= p.age
<1>1. p.age \in Nat /\ p.age =< Oldest /\ p # None /\ Oldest \in Nat
  BY Lengths, NoneIsNothing DEF Ping, Age, Oldest
<1> QED
  BY <1>1 DEF OlderPing, Older, Ping, Age

\* Time makes the entry, what is served and what was seen older alike.
LEMMA TickInv ==
    ASSUME IInv, Tick
    PROVE  IInv'
<1> DEFINE old(p) == OlderPing(p, Oldest)
<1>1. TypeOK /\ ViewOK(View) /\ View \in Views /\ old(None) = None
  BY DEF IInv, ViewOK, OlderPing
<1>2. /\ ~checked /\ ~checked'
      /\ entry' = IF entry = None THEN None
                  ELSE [entry EXCEPT !.lastPing = old(@)]
      /\ seenBroadcast' = [b \in Broadcasts |-> old(seenBroadcast[b])]
      /\ seenPing' = {old(p) : p \in seenPing}
  BY DEF Tick
<1>3. \A p \in Ping : old(p) \in Ping /\ old(p).age >= p.age /\ old(p) # None
  BY OlderLemma, NoneIsNothing
<1> HIDE DEF old
<1>4. entry # None => /\ entry \in Entry /\ entry.lastPing \in Ping
                      /\ entry' \in Entry /\ entry' # None
                      /\ entry'.sigTime = entry.sigTime
                      /\ entry'.activeState = entry.activeState
                      /\ entry'.lastPing = old(entry.lastPing)
  BY <1>1, <1>2, <1>3, NoneIsNothing DEF View, Views, Entry
<1>5. /\ seenBroadcast' \in [Broadcasts -> Ping \cup {None}]
      /\ seenPing' \subseteq Ping
      /\ \A b \in Broadcasts : seenBroadcast'[b] # None
                                => seenBroadcast[b] # None
  BY <1>1, <1>2, <1>3 DEF View, Views
<1>6. asked' \in 0 .. AskAgain
  BY <1>1, Lengths DEF Tick, TypeOK, Older
<1>7. signed' \in [Broadcasts -> Age \cup {Never}]
  <2>1. \A a \in Age \cup {Never} : Older(a, MinBroadcast) \in Age \cup {Never}
    BY Lengths DEF Older, Age, Oldest, Never
  <2> QED
    BY <1>1, <2>1 DEF Tick, TypeOK
<1>8. last' \in [Broadcasts -> Age]
  <2>1. \A a \in Age : Older(a, Window) \in Age /\ 0 \in Age
    BY Lengths DEF Older, Age, Oldest
  <2> QED
    BY <1>1, <2>1 DEF Tick, TypeOK
<1>9. TypeOK'
  BY <1>1, <1>2, <1>4, <1>5, <1>6, <1>7, <1>8
     DEF Tick, TypeOK, Entry, State
<1>10. View' \in Views
  BY <1>2, <1>4, <1>5 DEF View, Views
<1>11. ASSUME entry # None, entry.activeState \in {"EXPIRED", "REMOVE"}
       PROVE  entry'.lastPing.age >= Expiration
  <2>1. entry.lastPing.age >= Expiration /\ entry.lastPing.age \in Nat
        /\ entry'.lastPing.age >= entry.lastPing.age
        /\ entry'.lastPing.age \in Nat
    BY <1>1, <1>3, <1>4, <1>11, Lengths
       DEF ViewOK, View, Entry, Ping, Age, Oldest
  <2> QED
    BY <2>1, Lengths
<1>12. ASSUME entry # None, entry.activeState = "ENABLED"
       PROVE  /\ entry'.lastPing \in seenPing'
              /\ seenBroadcast'[entry'.sigTime] # None
                    => seenBroadcast'[entry'.sigTime] = entry'.lastPing
  BY <1>1, <1>2, <1>4, <1>5, <1>12 DEF ViewOK, View, Listed, Entry
<1>13. ViewOK(View)'
  BY <1>1, <1>2, <1>4, <1>5, <1>10, <1>11, <1>12 DEF ViewOK, View, Listed
<1> QED
  BY <1>9, <1>13 DEF IInv

\* Every step preserves the invariant.
LEMMA NextInv ==
    ASSUME IInv, [Next]_vars
    PROVE  IInv'
<1>1. /\ TypeOK /\ ViewOK(View) /\ spent \in BOOLEAN /\ checked \in BOOLEAN
      /\ View \in Views /\ View.entry = entry
      /\ View.seenBroadcast = seenBroadcast /\ View.seenPing = seenPing
  BY DEF IInv, ViewOK, TypeOK, View
<1>2. ASSUME NEW b \in Signed, NEW p \in Held, NEW fits \in BOOLEAN,
             ReceiveBroadcast(b, p, fits)
      PROVE  IInv'
  <2>1. b \in Broadcasts /\ p \in Ping
    BY Lengths DEF Signed, Held, Ping, Age, Oldest
  <2>2. ViewOK(ProcessBroadcast(View, b, p, fits))
    BY <1>1, <2>1, BroadcastLemma
  <2> QED
    BY <1>1, <1>2, <2>2, HandlerInv DEF ReceiveBroadcast, TypeOK
<1>3. ASSUME NEW p \in Held, NEW fits \in BOOLEAN, ReceivePing(p, fits)
      PROVE  IInv'
  <2> DEFINE ping == CheckAndUpdatePing(entry, p, fits)
             view == [View EXCEPT !.entry = ping.mn]
             next == IF ~Enabled THEN View
                     ELSE IF ping.ok THEN RecordSeenPing(view, p) ELSE view
  <2>1. p \in Ping /\ p.age \in Nat
    BY Lengths DEF Signed, Held, Ping, Age, Oldest
  <2>2. Becomes(next) /\ asked' \in 0 .. AskAgain
        /\ UNCHANGED <<checked, operator, spent>>
    BY <1>1, <1>3, Lengths DEF ReceivePing, TypeOK
  <2>3. ASSUME Enabled
        PROVE  ViewOK(next)
    <3>1. /\ entry \in Entry /\ entry \in Drafts /\ entry.lastPing # None
          /\ entry.sigTime \in Broadcasts /\ entry.lastPing.age \in Nat
          /\ entry # None
      BY <2>3, <1>1, NoneIsNothing, Lengths
         DEF Enabled, Views, Entry, Drafts, Ping, Age, Oldest
    <3>2. /\ ping.ok \in BOOLEAN
          /\ ping.ok => ping.mn.activeState = "ENABLED"
          /\ \/ ~ping.ok /\ ping.mn = entry
             \/ /\ ping.mn \in Entry
                /\ ping.mn.sigTime = entry.sigTime
                /\ ping.mn.lastPing = p
                /\ p.age < Window
                /\ ping.ok \/ ping.mn.activeState = "VIN_SPENT"
      BY <1>1, <2>1, <3>1, PingLemma
    <3>3. /\ ping.mn \in Entry /\ ping.mn.sigTime = entry.sigTime
          /\ ping.mn # None
      BY <3>1, <3>2, NoneIsNothing
    <3>4. /\ view \in Views /\ view.entry = ping.mn
          /\ view.seenBroadcast = seenBroadcast /\ view.seenPing = seenPing
      BY <1>1, <3>3 DEF Views, View
    <3>5. \A b \in Broadcasts :
             view.seenBroadcast[b] # None => b =< view.entry.sigTime
      BY <1>1, <3>3, <3>4 DEF ViewOK
    <3>6. CASE ping.ok
      <4>1. p.age < Expiration /\ ping.mn.lastPing = p
        BY <2>1, <3>2, <3>6, Lengths
      <4>2. ViewOK(RecordSeenPing(view, p))
        BY <2>1, <3>2, <3>3, <3>4, <3>5, <3>6, <4>1, RecordLemma
      <4> QED
        BY <2>3, <3>6, <4>2
    <3>7. CASE ~ping.ok
      <4>1. CASE ping.mn = entry
        <5>1. view = View
          BY <4>1 DEF View
        <5> QED
          BY <5>1, <1>1, <2>3, <3>7
      <4>2. CASE ping.mn # entry
        <5>1. ping.mn.activeState = "VIN_SPENT"
          BY <4>2, <3>2, <3>7
        <5> QED
          BY <5>1, <2>3, <3>3, <3>4, <3>5, <3>7 DEF ViewOK, Listed
      <4> QED
        BY <4>1, <4>2
    <3> QED
      BY <3>6, <3>7
  <2>4. ViewOK(next)
    BY <1>1, <2>3
  <2> QED
    BY <2>2, <2>4, HandlerInv
<1>4. ASSUME PeerAsks
      PROVE  IInv'
  <2> DEFINE v == recordBroadcast(View, entry.sigTime, entry.lastPing)
  <2>1. entry \in Entry /\ entry.sigTime \in Broadcasts
        /\ entry.lastPing \in Ping /\ entry # None
    BY <1>1, <1>4 DEF PeerAsks, Enabled, Views, Entry
  <2>2. /\ v.entry = entry /\ v.seenPing = seenPing
        /\ v.seenBroadcast = [c \in Broadcasts |->
              IF c = entry.sigTime /\ seenBroadcast[c] = None
                THEN entry.lastPing ELSE seenBroadcast[c]]
        /\ v \in Views
    BY <1>1, <2>1 DEF recordBroadcast, Views, View
  <2>3. entry.sigTime \in Nat
    BY <2>1 DEF Broadcasts
  <2>4. ViewOK(v)
    <3> HIDE DEF v
    <3>1. \A c \in Broadcasts :
             v.seenBroadcast[c] # None => c =< entry.sigTime
      BY <1>1, <2>1, <2>2, <2>3 DEF ViewOK, View
    <3>2. Listed(v) /\ v.seenBroadcast[entry.sigTime] # None
             => v.seenBroadcast[entry.sigTime] = entry.lastPing
      BY <1>1, <2>1, <2>2 DEF ViewOK, View, Listed
    <3>3. Listed(v) => Listed(View)
      BY <2>2 DEF Listed, View
    <3> QED
      BY <1>1, <2>1, <2>2, <3>1, <3>2, <3>3 DEF ViewOK, View
  <2> QED
    BY <1>1, <1>4, <2>4, HandlerInv DEF PeerAsks, TypeOK
<1>5. ASSUME CheckAll
      PROVE  IInv'
  <2>1. entry # None => entry \in Entry /\ entry.lastPing.age \in Nat
    BY <1>1, Lengths DEF Views, Entry, Ping, Age, Oldest
  <2>2. CASE entry = None
    <3>1. entry' = None /\ seenBroadcast' = seenBroadcast
          /\ seenPing' = seenPing
      BY <1>5, <2>2 DEF CheckAll
    <3> QED
      BY <1>1, <1>5, <2>2, <3>1
         DEF CheckAll, IInv, ViewOK, Views, View, Listed, TypeOK, operator
  <2>3. CASE entry # None
    <3> DEFINE mn == Check(entry)
    <3>1. /\ mn \in Entry /\ mn.sigTime = entry.sigTime /\ mn # None
          /\ mn.lastPing = entry.lastPing
          /\ mn.activeState \in {"EXPIRED", "REMOVE"}
                => mn.lastPing.age >= Expiration
          /\ mn.activeState = "ENABLED"
                => /\ mn.lastPing.age < Expiration
                   /\ entry.activeState # "VIN_SPENT"
      BY <1>1, <2>1, <2>3, CheckLemma, NoneIsNothing DEF TypeOK
    <3>2. mn.activeState = "ENABLED" => Enabled
      <4> SUFFICES ASSUME mn.activeState = "ENABLED"
                   PROVE  Enabled
        OBVIOUS
      <4>1. entry.lastPing.age < Expiration /\ entry.activeState # "VIN_SPENT"
        BY <3>1
      <4>2. entry.activeState \notin {"EXPIRED", "REMOVE"}
        BY <4>1, <2>1, <2>3, <1>1, Lengths DEF ViewOK, View
      <4> QED
        BY <4>1, <4>2, <2>1, <2>3 DEF Enabled, Entry, State
    <3>3. entry' = mn /\ seenBroadcast' = seenBroadcast
          /\ seenPing' = seenPing /\ checked'
      BY <1>5, <2>3 DEF CheckAll
    <3> HIDE DEF mn
    <3>4. ViewOK(View)'
      BY <1>1, <2>1, <2>3, <3>1, <3>2, <3>3
         DEF ViewOK, View, Listed, Views, Enabled
    <3>5. TypeOK'
      BY <1>1, <1>5, <3>1, <3>3 DEF CheckAll, TypeOK, operator, Entry, State
    <3> QED
      BY <3>4, <3>5 DEF IInv
  <2> QED
    BY <2>2, <2>3
<1>6. ASSUME ClearTimedOutAndExpiredRequests
      PROVE  IInv'
  <2> DEFINE removed == /\ entry # None
                        /\ entry.activeState \in {"REMOVE", "VIN_SPENT"}
             kept == IF removed
                       THEN clearExpiredMasternodeBroadcasts(
                              [View EXCEPT !.entry = None])
                       ELSE View
             v == clearTimedOut(kept)
  <2>1. checked /\ checked' = FALSE /\ Becomes(v) /\ asked' \in 0 .. AskAgain
        /\ UNCHANGED <<operator, spent>>
    BY <1>1, <1>6, Lengths DEF ClearTimedOutAndExpiredRequests, TypeOK
  <2>2. kept \in Views /\ kept.entry \in {entry, None}
    BY <1>1 DEF clearExpiredMasternodeBroadcasts, Views, View
  <2>3. /\ v.entry = kept.entry
        /\ v.seenBroadcast = [b \in Broadcasts |->
              IF kept.seenBroadcast[b] # None
                 /\ kept.seenBroadcast[b].age > Forget
                THEN None ELSE kept.seenBroadcast[b]]
        /\ v.seenPing = {p \in kept.seenPing : p.age =< Forget}
        /\ v \in Views
    BY <2>2 DEF clearTimedOut, Views
  <2>4. CASE removed
    <3>1. v.entry = None /\ \A b \in Broadcasts : v.seenBroadcast[b] = None
      BY <2>3, <2>4 DEF clearExpiredMasternodeBroadcasts, View
    <3> HIDE DEF removed, kept, v
    <3>2. View' = v
      BY <2>1, <2>3 DEF Becomes, View, Views
    <3>3. ViewOK(View)'
      BY <2>1, <2>3, <3>1, <3>2 DEF ViewOK, Listed
    <3>4. TypeOK'
      BY <2>1, <2>3, <3>1, <1>1 DEF TypeOK, Becomes, Views, operator
    <3> QED
      BY <3>3, <3>4 DEF IInv
  <2>5. CASE ~removed
    <3>1. kept = View
      BY <2>5
    <3> HIDE DEF removed, kept, v
    <3>2. /\ v.entry = entry /\ v \in Views
          /\ \A b \in Broadcasts :
                \/ v.seenBroadcast[b] = None
                \/ v.seenBroadcast[b] = seenBroadcast[b]
          /\ v.seenPing = {p \in seenPing : p.age =< Forget}
      BY <2>3, <3>1 DEF View
    <3>3. Listed(v) => /\ Listed(View)
                       /\ entry.lastPing.age \in Nat
                       /\ entry.sigTime \in Broadcasts
                       /\ entry.lastPing.age =< Forget
      <4> SUFFICES ASSUME Listed(v)
                   PROVE  /\ Listed(View)
                          /\ entry.lastPing.age \in Nat
                          /\ entry.sigTime \in Broadcasts
                          /\ entry.lastPing.age =< Forget
        OBVIOUS
      <4>1. Listed(View) /\ entry # None
        BY <3>2 DEF Listed, View
      <4>2. entry \in Entry
        BY <4>1, <1>1 DEF View, Views
      <4>3. entry.lastPing.age \in Nat /\ entry.sigTime \in Broadcasts
        BY <4>2, Lengths DEF Entry, Ping, Age, Oldest
      <4>4. entry.lastPing.age < Expiration
        BY <4>1, <2>1, <1>1 DEF ViewOK, View
      <4> QED
        BY <4>1, <4>3, <4>4, Lengths
    <3>4. Listed(v) => v.entry.lastPing \in v.seenPing
      BY <3>2, <3>3, <1>1 DEF ViewOK, View
    <3>5. Listed(v) /\ v.seenBroadcast[v.entry.sigTime] # None
             => v.seenBroadcast[v.entry.sigTime] = v.entry.lastPing
      BY <3>2, <3>3, <1>1 DEF ViewOK, View
    <3>6. View' = v
      BY <2>1, <3>2 DEF Becomes, View, Views
    <3>7. ViewOK(View)'
      BY <2>1, <3>2, <3>4, <3>5, <3>6, <1>1 DEF ViewOK, Listed, View
    <3>8. TypeOK'
      BY <2>1, <3>2, <1>1 DEF TypeOK, Becomes, Views, Entry, State, operator
    <3> QED
      BY <3>7, <3>8 DEF IInv
  <2> QED
    BY <2>4, <2>5
<1>7. ASSUME UNCHANGED node, TypeOK'
      PROVE  IInv'
  BY <1>1, <1>7 DEF node, IInv, ViewOK, View, Listed
<1>8. ASSUME NEW b \in Broadcasts, OperatorStarts(b)
      PROVE  IInv'
  <2>1. TypeOK'
    BY <1>1, <1>8, Lengths DEF OperatorStarts, TypeOK, node, Age, Oldest
  <2> QED
    BY <1>7, <1>8, <2>1 DEF OperatorStarts
<1>9. ASSUME OperatorStops
      PROVE  IInv'
  <2>1. TypeOK'
    BY <1>1, <1>9 DEF OperatorStops, TypeOK, node
  <2> QED
    BY <1>7, <1>9, <2>1 DEF OperatorStops
<1>10. ASSUME OperatorResumes
       PROVE  IInv'
  <2>1. 0 \in Age
    BY Lengths DEF Age, Oldest
  <2>2. last' \in [Broadcasts -> Age]
    <3> HIDE DEF Newest, Age, Broadcasts
    <3> QED
      BY <1>1, <1>10, <2>1 DEF OperatorResumes, TypeOK
  <2>3. TypeOK'
    BY <1>1, <1>10, <2>2 DEF OperatorResumes, TypeOK, node
  <2> QED
    BY <1>7, <1>10, <2>3 DEF OperatorResumes
<1>11. ASSUME ChainMoves
       PROVE  IInv'
  <2>1. TypeOK'
    BY <1>1, <1>11 DEF ChainMoves, TypeOK, node, operator
  <2> QED
    BY <1>7, <1>11, <2>1 DEF ChainMoves
<1>12. ASSUME Tick
       PROVE  IInv'
  BY <1>1, <1>12, TickInv
<1>13. ASSUME UNCHANGED vars
       PROVE  IInv'
  BY <1>1, <1>13 DEF vars, IInv, TypeOK, ViewOK, View, Listed
<1> QED
  BY <1>2, <1>3, <1>4, <1>5, <1>6, <1>8, <1>9, <1>10, <1>11, <1>12, <1>13
     DEF Next

-----------------------------------------------------------------------------
(* The theorems.                                                           *)

\* A node starts with empty maps.
LEMMA InitInv ==
    ASSUME Init
    PROVE  IInv
<1>1. TypeOK
  <2>1. 0 \in Age
    BY Lengths DEF Age, Oldest
  <2>2. /\ signed \in [Broadcasts -> Age \cup {Never}]
        /\ last \in [Broadcasts -> Age]
        /\ seenBroadcast \in [Broadcasts -> Ping \cup {None}]
    BY <2>1 DEF Init
  <2>3. asked \in 0 .. AskAgain
    BY Lengths DEF Init
  <2>4. /\ checked \in BOOLEAN /\ running \in BOOLEAN /\ spent \in BOOLEAN
        /\ entry = None /\ seenPing = {}
    BY DEF Init
  <2> QED
    BY <2>2, <2>3, <2>4 DEF TypeOK
<1>2. View \in Views
  BY DEF Init, View, Views
<1> QED
  BY <1>1, <1>2 DEF Init, IInv, ViewOK, View, Listed

\* The invariant holds in every reachable state.
THEOREM Invariance == Spec => []IInv
<1>1. Init => IInv
  BY InitInv
<1>2. IInv /\ [Next]_vars => IInv'
  BY NextInv
<1> QED
  BY <1>1, <1>2, PTL DEF Spec

\* The invariant implies the properties.
LEMMA IInvImplies ==
    IInv => TypeOK /\ SeenIsInTheList /\ ServedPingIsLast /\ LastPingIsKnown
BY DEF IInv, ViewOK, View, Listed, Enabled,
       SeenIsInTheList, ServedPingIsLast, LastPingIsKnown

\* Entries, pings and ages keep their types.
THEOREM TypeCorrect == Spec => []TypeOK
BY Invariance, IInvImplies, PTL

\* No broadcast that counts as seen is missing from the list or newer than
\* the entry, for any number of broadcasts and any lengths of time.
THEOREM SeenAlwaysListed == Spec => []SeenIsInTheList
BY Invariance, IInvImplies, PTL

\* The broadcast served for an enabled entry carries its last ping.
THEOREM ServedPingAlwaysLast == Spec => []ServedPingIsLast
BY Invariance, IInvImplies, PTL

\* The last ping of an enabled entry can be served.
THEOREM LastPingAlwaysKnown == Spec => []LastPingIsKnown
BY Invariance, IInvImplies, PTL

\* No step but a tick makes the ping of an entry older.
LEMMA StepOnlyNewer ==
    ASSUME IInv, [Next]_vars, entry # None, entry' # None, ~Tick
    PROVE  /\ entry'.sigTime >= entry.sigTime
           /\ \/ entry'.lastPing.age =< entry.lastPing.age
              \/ entry.activeState = "VIN_SPENT"
<1>1. /\ TypeOK /\ ViewOK(View) /\ spent \in BOOLEAN /\ entry \in Entry
      /\ entry.sigTime \in Nat /\ entry.lastPing.age \in Nat
      /\ entry.lastPing # None
  <2>1. /\ TypeOK /\ ViewOK(View) /\ spent \in BOOLEAN /\ entry \in Entry
    BY DEF IInv, TypeOK, Entry, State
  <2>2. entry.sigTime \in Broadcasts /\ entry.lastPing \in Ping
    BY <2>1 DEF Entry
  <2> QED
    BY <2>1, <2>2, Lengths, NoneIsNothing DEF Broadcasts, Ping, Age, Oldest
<1>2. CASE entry' = entry
  BY <1>1, <1>2
<1>3. ASSUME NEW b \in Signed, NEW p \in Held, NEW fits \in BOOLEAN,
             ReceiveBroadcast(b, p, fits)
      PROVE  /\ entry'.sigTime >= entry.sigTime
             /\ \/ entry'.lastPing.age =< entry.lastPing.age
                \/ entry.activeState = "VIN_SPENT"
  <2> DEFINE w == ProcessBroadcast(View, b, p, fits)
  <2>1. b \in Broadcasts /\ p \in Ping
    BY Lengths DEF Signed, Held, Ping, Age, Oldest
  <2>2. View.entry # None /\ w.entry # None
          => /\ w.entry.sigTime >= View.entry.sigTime
             /\ \/ w.entry.lastPing.age =< View.entry.lastPing.age
                \/ View.entry.activeState = "VIN_SPENT"
    BY <1>1, <2>1, BroadcastLemma
  <2>3. View.entry = entry /\ w.entry = entry'
    BY <1>3 DEF ReceiveBroadcast, Becomes, View
  <2> QED
    BY <2>2, <2>3
<1>4. ASSUME NEW p \in Held, NEW fits \in BOOLEAN, ReceivePing(p, fits)
      PROVE  /\ entry'.sigTime >= entry.sigTime
             /\ entry'.lastPing.age =< entry.lastPing.age
  <2> DEFINE r == CheckAndUpdatePing(entry, p, fits)
  <2>1. p \in Ping /\ p.age \in Nat
    BY Lengths DEF Signed, Held, Ping, Age, Oldest
  <2>2. entry' = IF Enabled THEN r.mn ELSE entry
    BY <1>4 DEF ReceivePing, Becomes, View, RecordSeenPing
  <2>3. CASE Enabled
    <3>1. entry \in Drafts
      BY <1>1, <2>3 DEF Enabled, Entry, Drafts
    <3>2. \/ r.mn = entry
          \/ /\ r.mn.sigTime = entry.sigTime /\ r.mn.lastPing = p
             /\ p.age < entry.lastPing.age
      BY <1>1, <2>1, <3>1, PingLemma
    <3> QED
      BY <1>1, <2>1, <2>2, <2>3, <3>2
  <2> QED
    BY <1>1, <2>2, <2>3
<1>5. ASSUME CheckAll
      PROVE  /\ entry'.sigTime >= entry.sigTime
             /\ entry'.lastPing.age =< entry.lastPing.age
  <2>1. entry' = Check(entry)
    BY <1>5 DEF CheckAll
  <2>2. Check(entry).sigTime = entry.sigTime
        /\ Check(entry).lastPing = entry.lastPing
    BY <1>1, CheckLemma
  <2> QED
    BY <1>1, <2>1, <2>2
<1>6. ASSUME ClearTimedOutAndExpiredRequests
      PROVE  entry' = entry
  BY <1>6 DEF ClearTimedOutAndExpiredRequests, Becomes, clearTimedOut,
              clearExpiredMasternodeBroadcasts, View
<1>7. ASSUME PeerAsks
      PROVE  entry' = entry
  BY <1>7 DEF PeerAsks, Becomes, recordBroadcast, View
<1>8. ASSUME \/ \E b \in Broadcasts : OperatorStarts(b)
             \/ OperatorStops \/ OperatorResumes \/ ChainMoves
             \/ UNCHANGED vars
      PROVE  entry' = entry
  BY <1>8 DEF OperatorStarts, OperatorStops, OperatorResumes, ChainMoves,
              node, vars
<1> QED
  BY <1>2, <1>3, <1>4, <1>5, <1>6, <1>7, <1>8 DEF Next

\* Late and repeated messages never take an entry back, for any number of
\* broadcasts and any lengths of time.
THEOREM EntryAlwaysGetsNewer == Spec => EntryOnlyGetsNewer
<1>1. IInv /\ [Next]_vars
        => [entry # None /\ entry' # None
              => /\ entry'.sigTime >= entry.sigTime
                 /\ \/ entry'.lastPing.age =< entry.lastPing.age
                    \/ entry.activeState = "VIN_SPENT"
                    \/ Tick]_vars
  <2>1. IInv /\ Tick /\ entry # None
          => entry' # None /\ entry'.sigTime >= entry.sigTime
    <3> SUFFICES ASSUME IInv, Tick, entry # None
                 PROVE  entry' # None /\ entry'.sigTime >= entry.sigTime
      OBVIOUS
    <3>1. entry \in Entry /\ entry.sigTime \in Nat
      BY Lengths DEF IInv, TypeOK, Entry, State, Broadcasts
    <3>2. entry' = [entry EXCEPT !.lastPing = OlderPing(@, Oldest)]
      BY DEF Tick
    <3>3. entry' # None
      BY <3>1, <3>2 DEF Entry, None
    <3> QED
      BY <3>1, <3>2, <3>3 DEF Entry
  <2> QED
    BY <2>1, StepOnlyNewer
<1> QED
  BY <1>1, Invariance, PTL DEF Spec, EntryOnlyGetsNewer
=============================================================================
