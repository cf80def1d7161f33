--------------------------- MODULE MasternodeList ---------------------------
(***************************************************************************)
(* What one node keeps of one masternode: its entry in the list of         *)
(* masternodes, the broadcasts and pings it has seen and can serve, and    *)
(* its requests for a missing entry (masternodeman.cpp,                    *)
(* MasternodeNetworkMessageManager.cpp, parts of masternode-sync.cpp).     *)
(*                                                                         *)
(* The masternode's operator signs broadcasts, numbered by their sigTime;  *)
(* each brings a new masternode key, which has the same number.  Pings are *)
(* signed with such a key.  Peers run the same code and deliver what has   *)
(* been signed, late, twice or not at all.  Entries of different           *)
(* collaterals do not touch each other, so that one is enough.             *)
(*                                                                         *)
(* Times are ages, and a tick makes everything older.  Tier, protocol      *)
(* version, address, signature and confirmations of a broadcast are taken  *)
(* to be in order: one that is refused for them changes nothing.           *)
(***************************************************************************)
EXTENDS Integers, FiniteSets, FiniteSetsExt

CONSTANTS
    NBroadcasts,  \* how many broadcasts may be signed
    MinPing,      \* MASTERNODE_MIN_MNP_SECONDS - 60, between two pings
    MinBroadcast, \* MASTERNODE_MIN_MNB_SECONDS, before an entry is replaced
    AskAgain,     \* MASTERNODE_MIN_MNP_SECONDS, between two requests
    Window,       \* one hour, the age at which a ping is refused
    Expiration,   \* MASTERNODE_EXPIRATION_SECONDS
    Removal,      \* MASTERNODE_REMOVAL_SECONDS
    Forget        \* MASTERNODE_REMOVAL_SECONDS * 2

ASSUME MasternodeListAssumption ==
    /\ {NBroadcasts, MinPing, MinBroadcast, AskAgain, Window,
        Expiration, Removal, Forget} \subseteq Nat \ {0}
    /\ Window =< Expiration /\ Expiration < Removal /\ Removal =< Forget
    /\ MinBroadcast =< Forget

VARIABLES
    entry,        \* the element of masternodes for this collateral, or None
    seenBroadcast,\* mapSeenMasternodeBroadcast: the lastPing of each one seen
    seenPing,     \* mapSeenMasternodePing
    asked,        \* mWeAskedForMasternodeListEntry: age of the last request,
                  \* at most AskAgain, when it counts no longer
    checked,      \* the background thread has checked, not yet cleared
    signed,       \* age of each broadcast of the operator, or Never
    last,         \* age of the newest ping signed with each key
    running,      \* the operator's masternode is up and pings
    spent         \* the collateral is spent in the active chain

node == <<entry, seenBroadcast, seenPing, asked, checked>>
operator == <<signed, last, running>>
vars == <<entry, seenBroadcast, seenPing, asked, checked,
          signed, last, running, spent>>

None == [none |-> TRUE]
Broadcasts == 1 .. NBroadcasts
Oldest == Forget + 1
Age == 0 .. Oldest
Never == -1       \* the age of what has not happened
Ping == [key : Broadcasts, age : Age]
\* An age after a tick.  Above the bound all ages are treated alike.
Older(age, bound) == IF age \in 0 .. bound - 1 THEN age + 1 ELSE age
OlderPing(p, bound) ==
    IF p = None THEN None ELSE [p EXCEPT !.age = Older(@, bound)]

Enabled == entry # None /\ entry.activeState = "ENABLED"
Signed == {b \in Broadcasts : signed[b] # Never}
Newest == Max(Signed)

TypeOK ==
    /\ entry \in {None} \cup
          [sigTime : Broadcasts, lastPing : Ping,
           activeState : {"ENABLED", "EXPIRED", "REMOVE", "VIN_SPENT"}]
    /\ seenBroadcast \in [Broadcasts -> Ping \cup {None}]
    /\ seenPing \subseteq Ping
    /\ asked \in 0 .. AskAgain
    /\ checked \in BOOLEAN
    /\ signed \in [Broadcasts -> Age \cup {Never}]
    /\ last \in [Broadcasts -> Age]
    /\ running \in BOOLEAN
    /\ spent \in BOOLEAN

Init ==
    /\ entry = None
    /\ seenBroadcast = [b \in Broadcasts |-> None]
    /\ seenPing = {}
    /\ asked = AskAgain
    /\ checked = FALSE
    /\ signed = [b \in Broadcasts |-> IF b = 1 THEN 0 ELSE Never]
    /\ last = [b \in Broadcasts |-> 0]
    /\ running = TRUE
    /\ spent = FALSE

-----------------------------------------------------------------------------
(* The state of an entry.                                                  *)

\* Mutant: an entry to be removed is only expired.
Check_ExpiredFirst(mn) ==
    [mn EXCEPT !.activeState =
        IF @ = "VIN_SPENT"                   THEN "VIN_SPENT"
        ELSE IF mn.lastPing.age >= Expiration THEN "EXPIRED"
        ELSE IF mn.lastPing.age >= Removal    THEN "REMOVE"
        ELSE IF spent                         THEN "VIN_SPENT"
        ELSE "ENABLED"]

\* CMasternodeMan::Check of one entry.  The limit of one check in five
\* seconds is far below a tick.
Check(mn) ==
    [mn EXCEPT !.activeState =
        IF @ = "VIN_SPENT"                   THEN "VIN_SPENT"
        ELSE IF mn.lastPing.age >= Removal    THEN "REMOVE"
        ELSE IF mn.lastPing.age >= Expiration THEN "EXPIRED"
        ELSE IF spent                         THEN "VIN_SPENT"
        ELSE "ENABLED"]

\* IsTooEarlyToReceivePingUpdate.
TooEarly(mn, p) ==
    mn.lastPing # None /\ mn.lastPing.age - p.age < MinPing

\* CMasternodeMan::CheckAndUpdatePing: the entry after it, whether the ping
\* was accepted, and whether its sender is to blame (nDoS > 0).  fits: the
\* ping's block is known and not more than 24 blocks deep.
CheckAndUpdatePing(mn, p, fits) ==
    LET refused(blame) == [mn |-> mn, ok |-> FALSE, blame |-> blame]
        pinged == Check([mn EXCEPT !.lastPing = p])
    IN IF p.age >= Window            THEN refused(TRUE)
       ELSE IF TooEarly(mn, p)       THEN refused(FALSE)
       ELSE IF p.key # mn.sigTime    THEN refused(TRUE)
       ELSE IF ~fits                 THEN refused(FALSE)
       ELSE [mn |-> pinged, blame |-> FALSE,
             ok |-> pinged.activeState = "ENABLED"]

\* What the node holds, as a value that the handlers transform.
View == [entry |-> entry, seenBroadcast |-> seenBroadcast,
         seenPing |-> seenPing]
Listed(v) == v.entry # None /\ v.entry.activeState = "ENABLED"

Becomes(v) ==
    /\ entry' = v.entry
    /\ seenBroadcast' = v.seenBroadcast
    /\ seenPing' = v.seenPing

\* MasternodeNetworkMessageManager::recordPing: the seen broadcast of the
\* entry carries the new ping from now on.
RecordSeenPing(v, p) ==
    [entry         |-> v.entry,
     seenBroadcast |-> [b \in Broadcasts |->
                          IF /\ v.entry # None /\ b = v.entry.sigTime
                             /\ v.seenBroadcast[b] # None
                            THEN p ELSE v.seenBroadcast[b]],
     seenPing      |-> v.seenPing \cup {p}]

recordBroadcast(v, b, p) ==
    [v EXCEPT !.seenBroadcast = [c \in Broadcasts |->
        IF c = b /\ @[c] = None THEN p ELSE @[c]]]

-----------------------------------------------------------------------------
(* The handlers of "mnb" and "mnp".                                        *)

\* UpdateMasternodeFromBroadcast with UpdateWithNewBroadcast, for a
\* broadcast that is not older than the entry.  An entry that is updated is
\* not entered in seenBroadcast.
UpdateMasternodeFromBroadcast(v, b, p, fits) ==
    LET newer == [v.entry EXCEPT !.sigTime = b]
        ping  == CheckAndUpdatePing(newer, p, fits)
    IN IF /\ Listed(v)
          /\ signed[v.entry.sigTime] >= MinBroadcast
          /\ b > v.entry.sigTime
         THEN IF ping.ok
                THEN RecordSeenPing([v EXCEPT !.entry = ping.mn], p)
                ELSE [v EXCEPT !.entry = Check(ping.mn)]
         ELSE v

\* Mutant: an older broadcast is not refused.
ProcessBroadcast_AnyOrder(v, b, p, fits) ==
    IF v.seenBroadcast[b] # None
      THEN v
      ELSE
        LET mn      == [sigTime |-> b, lastPing |-> None,
                        activeState |-> "ENABLED"]
            ping    == CheckAndUpdatePing(mn, p, fits)
            updated == UpdateMasternodeFromBroadcast(v, b, p, fits)
            added   == recordBroadcast([updated EXCEPT !.entry = ping.mn],
                                       b, p)
        IN IF \/ ~Listed(updated) /\ spent
              \/ ~ping.ok
              \/ Listed(updated)
             THEN updated
             ELSE RecordSeenPing(added, p)

\* CMasternodeMan::ProcessBroadcast: the view after broadcast b with ping p.
ProcessBroadcast(v, b, p, fits) ==
    IF v.seenBroadcast[b] # None \/ (v.entry # None /\ v.entry.sigTime > b)
      THEN v
      ELSE
        LET mn      == [sigTime |-> b, lastPing |-> None,
                        activeState |-> "ENABLED"]
            ping    == CheckAndUpdatePing(mn, p, fits)
            updated == UpdateMasternodeFromBroadcast(v, b, p, fits)
            added   == recordBroadcast([updated EXCEPT !.entry = ping.mn],
                                       b, p)
        IN IF \/ ~Listed(updated) /\ spent
              \/ ~ping.ok
              \/ Listed(updated)
             THEN updated
             ELSE RecordSeenPing(added, p)

\* The pings that somebody may hold: the key was in use when they were
\* signed.  Pings that are far too old are refused like one of age Window.
Held == {p \in [key : Signed, age : 0 .. Window] : p.age >= last[p.key]}

\* A peer sends a broadcast that it relays, that is in the list we asked for,
\* or that answers AskForMN.  The peer that has replaced its entry before
\* it had a ping with the new key sends the ping of the old one.
ReceiveBroadcast(b, p, fits) ==
    /\ p.key =< b
    /\ Becomes(ProcessBroadcast(View, b, p, fits))
    /\ UNCHANGED <<asked, checked, operator, spent>>

\* AskForMN with recordMasternodeEntryRequestAttempt: the sender of a ping
\* that tells of an unknown masternode, or of one whose entry may be
\* outdated, is asked for the entry, unless a peer was asked shortly before.
AsksForMN(p, fits) ==
    /\ entry = None \/ (Enabled /\ CheckAndUpdatePing(entry, p, fits).blame)
    /\ asked >= AskAgain

\* CMasternodeMan::ProcessPing.
ReceivePing(p, fits) ==
    /\ p \notin seenPing
    /\ LET ping == CheckAndUpdatePing(entry, p, fits)
           view == [View EXCEPT !.entry = ping.mn]
       IN Becomes(IF ~Enabled THEN View
                  ELSE IF ping.ok THEN RecordSeenPing(view, p) ELSE view)
    /\ asked' = IF AsksForMN(p, fits) THEN 0 ELSE asked
    /\ UNCHANGED <<checked, operator, spent>>

\* A peer asks us with "dseg": ProcessDSegUpdate, SyncMasternodeListWithPeer,
\* NotifyPeerOfMasternode.
PeerAsks ==
    /\ Enabled
    /\ Becomes(recordBroadcast(View, entry.sigTime, entry.lastPing))
    /\ UNCHANGED <<asked, checked, operator, spent>>

-----------------------------------------------------------------------------
(* The background thread.                                                  *)

\* Mutant: the broadcasts still count as seen.
clearExpiredMasternodeBroadcasts_Kept(v) == v

\* clearExpiredMasternodeBroadcasts: the collateral's broadcasts may be
\* learned again.
clearExpiredMasternodeBroadcasts(v) ==
    [v EXCEPT !.seenBroadcast = [b \in Broadcasts |-> None]]

\* Mutant: pings are never forgotten.
clearTimedOut_PingsStay(v) ==
    [v EXCEPT !.seenBroadcast = [b \in Broadcasts |->
                IF @[b] # None /\ @[b].age > Forget THEN None ELSE @[b]]]

\* clearTimedOutMasternodeBroadcasts, clearTimedOutMasternodePings.
clearTimedOut(v) ==
    [v EXCEPT !.seenBroadcast = [b \in Broadcasts |->
                IF @[b] # None /\ @[b].age > Forget THEN None ELSE @[b]],
              !.seenPing = {p \in @ : p.age =< Forget}]

\* A round of ThreadMasternodeBackgroundSync: CMasternodeMan::Check for every
\* entry, and then, after other threads have had the lock,
CheckAll ==
    /\ ~checked
    /\ checked' = TRUE
    /\ entry' = IF entry = None THEN None ELSE Check(entry)
    /\ UNCHANGED <<seenBroadcast, seenPing, asked, operator, spent>>

\* clearTimedOutAndExpiredRequests.
ClearTimedOutAndExpiredRequests ==
    LET removed == /\ entry # None
                   /\ entry.activeState \in {"REMOVE", "VIN_SPENT"}
        kept    == IF removed
                     THEN clearExpiredMasternodeBroadcasts(
                            [View EXCEPT !.entry = None])
                     ELSE View
    IN /\ checked
       /\ checked' = FALSE
       /\ Becomes(clearTimedOut(kept))
       /\ asked' = IF removed THEN AskAgain ELSE asked
       /\ UNCHANGED <<operator, spent>>

-----------------------------------------------------------------------------
(* The operator, the chain and time.                                       *)

\* The operator starts the masternode with a new broadcast.
OperatorStarts(b) ==
    /\ signed[b] = Never /\ b = Newest + 1
    /\ signed' = [signed EXCEPT ![b] = 0]
    /\ last' = [last EXCEPT ![b] = 0]
    /\ running' = TRUE
    /\ UNCHANGED <<node, spent>>

\* The masternode goes down, and comes back under the same broadcast.
OperatorStops ==
    /\ running
    /\ running' = FALSE
    /\ UNCHANGED <<node, signed, last, spent>>

OperatorResumes ==
    /\ ~running
    /\ running' = TRUE
    /\ last' = [last EXCEPT ![Newest] = 0]
    /\ UNCHANGED <<node, signed, spent>>

\* A block spends the collateral, or a reorganisation undoes that.
ChainMoves ==
    /\ spent' = ~spent
    /\ UNCHANGED <<node, operator>>

\* The two halves of a background round are less than a tick apart.
Tick ==
    /\ ~checked
    /\ entry' = IF entry = None THEN None
                ELSE [entry EXCEPT !.lastPing = OlderPing(@, Oldest)]
    /\ seenBroadcast' = [b \in Broadcasts |-> OlderPing(seenBroadcast[b], Oldest)]
    /\ seenPing' = {OlderPing(p, Oldest) : p \in seenPing}
    /\ asked' = Older(asked, AskAgain)
    /\ signed' = [b \in Broadcasts |-> Older(signed[b], MinBroadcast)]
    /\ last' = [b \in Broadcasts |->
                  IF running /\ b = Newest THEN 0 ELSE Older(last[b], Window)]
    /\ UNCHANGED <<checked, running, spent>>

Next ==
    \/ \E b \in Signed, p \in Held, fits \in BOOLEAN :
          ReceiveBroadcast(b, p, fits)
    \/ \E p \in Held, fits \in BOOLEAN : ReceivePing(p, fits)
    \/ PeerAsks
    \/ CheckAll
    \/ ClearTimedOutAndExpiredRequests
    \/ \E b \in Broadcasts : OperatorStarts(b)
    \/ OperatorStops
    \/ OperatorResumes
    \/ ChainMoves
    \/ Tick

Spec == Init /\ [][Next]_vars

\* Peers that keep their entries pass on pings while they are fresh, and not
\* every time after somebody else's outdated ping has used up the request.
Fresh == [key |-> Newest, age |-> last[Newest]]
FreshRequest ==
    /\ Fresh \notin seenPing /\ AsksForMN(Fresh, TRUE)
    /\ asked' = 0
\* The peer that is asked has relayed the ping, so that it has an enabled
\* entry and answers with it; not every request is lost or answered with a
\* ping that has become too old on the way.
FreshAnswer ==
    /\ asked < AskAgain
    /\ entry' = ProcessBroadcast(View, Newest, Fresh, TRUE).entry

\* Time passes and the background thread runs.
Fairness ==
    /\ SF_vars(Tick) /\ WF_checked(checked' = ~checked)
    /\ SF_asked(FreshRequest) /\ SF_entry(FreshAnswer)
FairSpec == Spec /\ Fairness

-----------------------------------------------------------------------------
(* Properties.                                                             *)

\* A broadcast that counts as seen is never fetched again
\* (MasternodeIsKnown) nor processed (ProcessBroadcast).  So none may be
\* newer than the entry, and none may be left when there is no entry: the
\* node could not list the masternode until the broadcast is forgotten.
SeenIsInTheList ==
    \A b \in Broadcasts :
        seenBroadcast[b] # None => entry # None /\ b =< entry.sigTime

\* The peers' answers to "dseg" help only if the broadcast served for an
\* enabled entry carries the last ping accepted for it, although the two
\* are kept apart and are updated on different paths.
ServedPingIsLast ==
    Enabled /\ seenBroadcast[entry.sigTime] # None
        => seenBroadcast[entry.sigTime] = entry.lastPing

\* The last ping of an enabled entry is known: it is served to peers to which
\* it was announced and it is not processed again.
LastPingIsKnown == Enabled => entry.lastPing \in seenPing

\* As long as a masternode stays in the list, late and repeated messages do
\* not take its entry back to an older broadcast, nor to an older ping
\* (unless the collateral was seen spent and a broadcast brings it back).
EntryOnlyGetsNewer ==
    [][entry # None /\ entry' # None
         => /\ entry'.sigTime >= entry.sigTime
            /\ \/ entry'.lastPing.age =< entry.lastPing.age
               \/ entry.activeState = "VIN_SPENT"
               \/ Tick]_vars

\* A masternode that keeps pinging is listed as enabled with its newest
\* broadcast again and again, whatever this node has missed: an expired
\* entry ignores pings and its broadcast counts as seen, so that it has to
\* be removed, asked for and added again.
Alive == running /\ ~spent
KeepsComingBack ==
    <>[]Alive => []<>(Enabled /\ entry.sigTime = Newest)

\* A masternode that has stopped is forgotten, with all that was kept of it.
StoppedIsForgotten ==
    <>[](~running) => <>[](/\ entry = None /\ seenPing = {}
                           /\ \A b \in Broadcasts : seenBroadcast[b] = None)
=============================================================================
