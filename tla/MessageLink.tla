---------------------------- MODULE MessageLink ----------------------------
(***************************************************************************)
(* The two ends of a connection (QueuedMessageConnection and CNode in      *)
(* Node.cpp, ThreadSocketHandler and ThreadMessageHandler in net.cpp, the  *)
(* loops of main.cpp over received messages and requested data), and the   *)
(* TCP stream between them.                                                *)
(*                                                                         *)
(* At each end the socket thread decides whether to send or to receive,    *)
(* waits for the socket and then does it; the message thread processes     *)
(* messages and pushes new ones, with an optimistic write if none waits.   *)
(*                                                                         *)
(* A message is a request or one of the replies to it: a request for n     *)
(* blocks ("getdata") is answered by n "block" messages, a "ping" by a     *)
(* "pong".  Bytes are counted in units, the first of which is the header.  *)
(* Well-formed messages only; a connection that is idle is kept alive by   *)
(* pings, which are left out together with the version handshake.          *)
(***************************************************************************)
EXTENDS Integers, FiniteSets, SequencesExt

CONSTANTS
    Peer,                 \* the two ends
    Requests,             \* Requests[p]: for each request of p the blocks it asks for, 0 for a ping
    BlockSize,            \* units of a "block"; the other messages are of one unit
    Capacity,             \* units that the stream takes in one direction
    MaxRead,              \* units that one receiveData reads
    MaxSendBufferSize, MaxReceiveBufferSize

ASSUME MessageLinkAssumption ==
    /\ Cardinality(Peer) = 2
    /\ \A p \in Peer : Requests[p] \in Seq(Nat)
    /\ {BlockSize, Capacity, MaxRead, MaxSendBufferSize, MaxReceiveBufferSize} \subseteq Nat \ {0}

None == "NONE"

Other(p) == CHOOSE o \in Peer : o # p

Request(p, i) == [kind |-> IF Requests[p][i] = 0 THEN "ping" ELSE "getdata", of |-> i, part |-> 0]
Pong(i) == [kind |-> "pong", of |-> i, part |-> 1]
Block(i, k) == [kind |-> "block", of |-> i, part |-> k]

Message == [kind : {"ping", "getdata", "pong", "block"}, of : Nat, part : Nat]

Size(m) == IF m.kind = "block" THEN BlockSize ELSE 1

\* The units of a message, as they go over the wire.
Units(m) == [k \in 1 .. Size(m) |-> <<m, k>>]

VARIABLES
    asked,       \* asked[p]: how many requests p has pushed
    out,         \* out[p]: vSendMsg, nSendOffset and nSendSize of p, and the stream from p
    vRecvMsg,    \* vRecvMsg[p]: each message as the units of it that have come
    getData,     \* getData[p]: vRecvGetData
    commsMode,   \* commsMode[p]: commsMode_ while the socket thread waits and serves, or None
    fDisconnect, \* the ends that are flagged for disconnection
    closed,      \* the ends that have closed their socket
    answered     \* answered[p]: the last reply that p has processed

vars == <<asked, out, vRecvMsg, getData, commsMode, fDisconnect, closed, answered>>

-----------------------------------------------------------------------------
(* QueuedMessageConnection                                                 *)

SizeOf(ms) == FoldLeft(LAMBDA n, m : n + Size(m), 0, ms)

\* The units that wait to be sent.
Waiting(o) ==
    LET units == FlattenSeq([i \in DOMAIN o.vSendMsg |-> Units(o.vSendMsg[i])])
    IN  SubSeq(units, o.nSendOffset + 1, Len(units))

\* Mutant: a message that is partly sent starts again.
Sent_OffsetLost(o, n) ==
    LET total == o.nSendOffset + n
        done == Cardinality({i \in DOMAIN o.vSendMsg : SizeOf(SubSeq(o.vSendMsg, 1, i)) <= total})
        gone == SubSeq(o.vSendMsg, 1, done)
    IN  [vSendMsg |-> SubSeq(o.vSendMsg, done + 1, Len(o.vSendMsg)),
         nSendOffset |-> 0, nSendSize |-> o.nSendSize - SizeOf(gone),
         wire |-> o.wire \o SubSeq(Waiting(o), 1, n)]

\* SendData, when the channel takes n units.
Sent(o, n) ==
    LET total == o.nSendOffset + n
        done == Cardinality({i \in DOMAIN o.vSendMsg : SizeOf(SubSeq(o.vSendMsg, 1, i)) <= total})
        gone == SubSeq(o.vSendMsg, 1, done)
    IN  [vSendMsg |-> SubSeq(o.vSendMsg, done + 1, Len(o.vSendMsg)),
         nSendOffset |-> total - SizeOf(gone), nSendSize |-> o.nSendSize - SizeOf(gone),
         wire |-> o.wire \o SubSeq(Waiting(o), 1, n)]

\* What SendData may lead to: the channel takes something if it has room.
SendData(o) ==
    LET most == Min({Capacity - Len(o.wire), Len(Waiting(o))})
    IN  {Sent(o, n) : n \in Min({1, most}) .. most}

\* PushMessage: EndMessage queues the message, and writes at once if it is the first.
PushMessage(o, m) ==
    LET queued == [o EXCEPT !.vSendMsg = Append(@, m), !.nSendSize = @ + Size(m)]
    IN  IF o.vSendMsg = <<>> THEN SendData(queued) ELSE {queued}

GetSendBufferStatus(o) ==
    IF o.nSendSize < MaxSendBufferSize THEN "HAS_SPACE"
    ELSE IF o.nSendSize > 2 * MaxSendBufferSize THEN "IS_OVERFLOWED" ELSE "IS_FULL"

complete(units) == Len(units) = Size(units[1][1])

\* ConvertDataBufferToNetworkMessage: a unit belongs to the last message, or starts a
\* new one if that is complete.
Absorb(msgs, unit) ==
    IF msgs = <<>> \/ complete(Last(msgs)) THEN Append(msgs, <<unit>>)
    ELSE [msgs EXCEPT ![Len(msgs)] = Append(@, unit)]

ConvertDataBufferToNetworkMessage(msgs, units) == FoldLeft(Absorb, msgs, units)

GetTotalRecvSize(msgs) == FoldLeft(LAMBDA n, units : n + Len(units), 0, msgs)

\* Mutant: there is no limit.
IsAvailableToReceive_Always(msgs) == TRUE

\* Mutant: the rest of a message is not waited for.
IsAvailableToReceive_SizeOnly(msgs) ==
    msgs = <<>> \/ GetTotalRecvSize(msgs) < MaxReceiveBufferSize

IsAvailableToReceive(msgs) ==
    \/ msgs = <<>> \/ ~complete(msgs[1])
    \/ GetTotalRecvSize(msgs) <= MaxReceiveBufferSize

\* CloseCommsAndDisconnect: what is on its way to p is lost.
CloseCommsAndDisconnect(p) ==
    /\ fDisconnect' = fDisconnect \cup {p}
    /\ closed' = closed \cup {p}
    /\ vRecvMsg' = [vRecvMsg EXCEPT ![p] = <<>>]
    /\ out' = [out EXCEPT ![Other(p)].wire = <<>>]
    /\ UNCHANGED <<asked, getData, answered>>

-----------------------------------------------------------------------------
(* ThreadSocketHandler                                                     *)

Readable(p) == out[Other(p)].wire # <<>>
Writable(p) == Len(out[p].wire) < Capacity

\* SelectCommunicationMode of an end that the loop has not disconnected first.  The
\* message thread may hold the locks.
SelectCommunicationMode(p, lockSend, lockRecv) ==
    /\ commsMode[p] = None /\ p \notin fDisconnect
    /\ commsMode' = [commsMode EXCEPT ![p] =
         IF lockSend /\ out[p].vSendMsg # <<>> THEN "SEND"
         ELSE IF lockRecv /\ IsAvailableToReceive(vRecvMsg[p]) THEN "RECEIVE" ELSE "BUSY"]
    /\ UNCHANGED <<asked, out, vRecvMsg, getData, fDisconnect, closed, answered>>

\* TryReceiveData and ReceiveData.
ReceiveData(p) ==
    /\ p \notin closed /\ commsMode[p] = "RECEIVE" /\ Readable(p)
    /\ \E n \in 1 .. Min({MaxRead, Len(out[Other(p)].wire)}) :
         /\ vRecvMsg' = [vRecvMsg EXCEPT ![p] =
              ConvertDataBufferToNetworkMessage(@, SubSeq(out[Other(p)].wire, 1, n))]
         /\ out' = [out EXCEPT ![Other(p)].wire = SubSeq(@, n + 1, Len(@))]
    /\ commsMode' = [commsMode EXCEPT ![p] = None]
    /\ UNCHANGED <<asked, getData, fDisconnect, closed, answered>>

\* TrySendData.
TrySendData(p) ==
    /\ p \notin closed /\ commsMode[p] = "SEND"
    /\ Writable(p) /\ Other(p) \notin closed
    /\ \E o \in SendData(out[p]) : out' = [out EXCEPT ![p] = o]
    /\ commsMode' = [commsMode EXCEPT ![p] = None]
    /\ UNCHANGED <<asked, vRecvMsg, getData, fDisconnect, closed, answered>>

\* The other end has hung up: receiveData returns 0 after the last unit, sendData fails.
HasHungUp(p) ==
    /\ p \notin closed /\ Other(p) \in closed
    /\ commsMode[p] = "SEND" \/ (commsMode[p] = "RECEIVE" /\ ~Readable(p))
    /\ CloseCommsAndDisconnect(p)
    /\ commsMode' = [commsMode EXCEPT ![p] = None]

\* The socket is not ready, or the message thread has the lock.
NotReady(p) ==
    /\ commsMode[p] # None /\ p \notin closed
    /\ commsMode' = [commsMode EXCEPT ![p] = None]
    /\ UNCHANGED <<asked, out, vRecvMsg, getData, fDisconnect, closed, answered>>

\* disconnectUnusedNodes of an end that is flagged.
Disconnect(p) ==
    /\ commsMode[p] = None /\ p \in fDisconnect \ closed
    /\ CloseCommsAndDisconnect(p)
    /\ UNCHANGED commsMode

\* The connection breaks.
Breaks(p) ==
    /\ p \notin closed
    /\ CloseCommsAndDisconnect(p)
    /\ commsMode' = [commsMode EXCEPT ![p] = None]

-----------------------------------------------------------------------------
(* ThreadMessageHandler                                                    *)

\* Mutant: what was asked for last comes first.
ProcessGetData_Newest(o, requests) ==
    IF requests = <<>> \/ GetSendBufferStatus(o) = "IS_FULL" THEN {<<o, requests>>}
    ELSE {<<next, Front(requests)>> :
            next \in PushMessage(o, Block(Last(requests)[1], Last(requests)[2]))}

\* ProcessGetData: at most one block at a time.
ProcessGetData(o, requests) ==
    IF requests = <<>> \/ GetSendBufferStatus(o) = "IS_FULL" THEN {<<o, requests>>}
    ELSE {<<next, Tail(requests)>> :
            next \in PushMessage(o, Block(Head(requests)[1], Head(requests)[2]))}

\* ProcessMessage of what the other end sent to p.
ProcessMessage(p, o, requests, m) ==
    CASE m.kind = "ping" -> {<<next, requests>> : next \in PushMessage(o, Pong(m.of))}
      [] m.kind = "getdata" ->
            ProcessGetData(o, requests \o [k \in 1 .. Requests[Other(p)][m.of] |-> <<m.of, k>>])
      [] OTHER -> {<<o, requests>>}

\* The first message is processed now.
Progresses(o, requests, msgs) ==
    requests = <<>> /\ GetSendBufferStatus(o) # "IS_FULL" /\ msgs # <<>> /\ complete(msgs[1])

\* ProcessReceivedMessages: data that was requested, and then, if nothing of it is
\* left, the first message.
ProcessReceivedMessages(p) ==
    /\ p \notin fDisconnect
    /\ \E r \in ProcessGetData(out[p], getData[p]) :
         IF Progresses(r[1], r[2], vRecvMsg[p])
         THEN LET m == vRecvMsg[p][1][1][1]
              IN  /\ \E s \in ProcessMessage(p, r[1], r[2], m) :
                        /\ out' = [out EXCEPT ![p] = s[1]]
                        /\ getData' = [getData EXCEPT ![p] = s[2]]
                  /\ vRecvMsg' = [vRecvMsg EXCEPT ![p] = Tail(@)]
                  /\ answered' = IF m.part = 0 THEN answered
                                 ELSE [answered EXCEPT ![p] = <<m.of, m.part>>]
         ELSE /\ r # <<out[p], getData[p]>>
              /\ out' = [out EXCEPT ![p] = r[1]]
              /\ getData' = [getData EXCEPT ![p] = r[2]]
              /\ UNCHANGED <<vRecvMsg, answered>>
    /\ UNCHANGED <<asked, commsMode, fDisconnect, closed>>

\* SendMessages pushes the next request.
SendMessages(p) ==
    /\ p \notin fDisconnect /\ asked[p] < Len(Requests[p])
    /\ asked' = [asked EXCEPT ![p] = @ + 1]
    /\ \E o \in PushMessage(out[p], Request(p, asked[p] + 1)) : out' = [out EXCEPT ![p] = o]
    /\ UNCHANGED <<vRecvMsg, getData, commsMode, fDisconnect, closed, answered>>

-----------------------------------------------------------------------------
(* Time                                                                    *)

CanSend(p) == out[p].vSendMsg # <<>> /\ Writable(p)
CanReceive(p) == out[p].vSendMsg = <<>> /\ IsAvailableToReceive(vRecvMsg[p]) /\ Readable(p)
CanProcess(p) ==
    /\ GetSendBufferStatus(out[p]) # "IS_FULL"
    /\ getData[p] # <<>> \/ (vRecvMsg[p] # <<>> /\ complete(vRecvMsg[p][1]))

Quiet(p) == out[p].vSendMsg = <<>> /\ out[p].wire = <<>> /\ vRecvMsg[p] = <<>> /\ getData[p] = <<>>

\* Messages are on their way, and none of the two ends can do anything about it.
Stuck ==
    /\ closed = {} /\ \E p \in Peer : ~Quiet(p)
    /\ \A p \in Peer : ~CanSend(p) /\ ~CanReceive(p) /\ ~CanProcess(p)

\* Mutant: an end that has something to send is not inactive.
CheckForInnactivity_Receiving(p) ==
    /\ Stuck /\ p \notin fDisconnect /\ out[p].vSendMsg = <<>>
    /\ fDisconnect' = fDisconnect \cup {p}
    /\ UNCHANGED <<asked, out, vRecvMsg, getData, commsMode, closed, answered>>

\* CheckForInnactivity flags the node when nothing was sent or received in 20 minutes,
\* longer than any other step takes.
CheckForInnactivity(p) ==
    /\ Stuck /\ p \notin fDisconnect
    /\ fDisconnect' = fDisconnect \cup {p}
    /\ UNCHANGED <<asked, out, vRecvMsg, getData, commsMode, closed, answered>>

Init ==
    /\ asked = [p \in Peer |-> 0]
    /\ out = [p \in Peer |-> [vSendMsg |-> <<>>, nSendOffset |-> 0, nSendSize |-> 0, wire |-> <<>>]]
    /\ vRecvMsg = [p \in Peer |-> <<>>] /\ getData = [p \in Peer |-> <<>>]
    /\ commsMode = [p \in Peer |-> None]
    /\ fDisconnect = {} /\ closed = {}
    /\ answered = [p \in Peer |-> <<0, 0>>]

Select(p) == \E lockSend, lockRecv \in BOOLEAN : SelectCommunicationMode(p, lockSend, lockRecv)
Serves(p) == ReceiveData(p) \/ TrySendData(p) \/ HasHungUp(p)

Next ==
    \E p \in Peer :
        \/ Select(p) \/ Serves(p) \/ NotReady(p) \/ Disconnect(p) \/ Breaks(p)
        \/ ProcessReceivedMessages(p) \/ SendMessages(p) \/ CheckForInnactivity(p)

Spec == Init /\ [][Next]_vars

\* Both threads of both ends go on, time passes, and the two threads do not always
\* get into each other's way.
Fairness ==
    \A p \in Peer :
        /\ SF_vars(SelectCommunicationMode(p, TRUE, TRUE))
        /\ WF_vars(Select(p) \/ NotReady(p)) /\ SF_vars(Serves(p))
        /\ WF_vars(CheckForInnactivity(p) \/ Disconnect(p)) /\ WF_vars(ProcessReceivedMessages(p))

FairSpec == Spec /\ Fairness

-----------------------------------------------------------------------------
(* Properties                                                              *)

TypeOK ==
    /\ asked \in [Peer -> Nat]
    /\ \A p \in Peer :
         /\ out[p].vSendMsg \in Seq(Message) /\ out[p].wire \in Seq(Message \X Nat)
         /\ out[p].nSendOffset \in Nat /\ out[p].nSendSize \in Nat
         /\ vRecvMsg[p] \in Seq(Seq(Message \X Nat)) /\ getData[p] \in Seq(Nat \X Nat)
    /\ commsMode \in [Peer -> {"SEND", "RECEIVE", "BUSY", None}]
    /\ closed \subseteq fDisconnect /\ fDisconnect \subseteq Peer
    /\ answered \in [Peer -> Nat \X Nat]

\* nSendSize is the "total size of all vSendMsg entries", and nSendOffset an "offset
\* inside the first vSendMsg": the assertions of SendData.
SendSizeIsExact ==
    \A p \in Peer :
        /\ out[p].nSendSize = SizeOf(out[p].vSendMsg)
        /\ IF out[p].vSendMsg = <<>> THEN out[p].nSendOffset = 0
           ELSE out[p].nSendOffset < Size(Head(out[p].vSendMsg))

\* The receive buffer holds at most one read more than its limit, or than the message
\* that it waited for.
ReceiveBufferIsBounded ==
    \A p \in Peer :
        vRecvMsg[p] # <<>> =>
            GetTotalRecvSize(vRecvMsg[p])
                <= Max({MaxReceiveBufferSize, Size(vRecvMsg[p][1][1][1]) - 1}) + MaxRead

\* "At least one of the following is always possible, so we don't deadlock", as far
\* as it holds: if nothing is possible at both ends, both have data that they cannot
\* send because the other end is not receiving.
StuckOnlyInBothDirections ==
    Stuck => \A p \in Peer : out[p].vSendMsg # <<>> /\ ~Writable(p)

\* The messages of p that the other end has not processed: those whose header is in
\* one of the buffers on the way.
Queue(p) ==
    LET units == FlattenSeq(vRecvMsg[Other(p)]) \o out[p].wire
                     \o (IF p \in closed THEN <<>> ELSE Waiting(out[p]))
        heads == SelectSeq(units, LAMBDA u : u[2] = 1)
    IN  IF Other(p) \in closed THEN <<>> ELSE [i \in DOMAIN heads |-> heads[i][1]]

MQ == INSTANCE MessageQueue WITH queue <- [p \in Peer |-> Queue(p)], open <- Peer \ closed

\* The connection is a queue of messages in each direction: nothing is lost, repeated
\* or mixed up by partial writes and reads as long as both ends are there.
ImplementsQueue == MQ!Spec

\* The reply that p expects after answered[p].
Successor(p, r) ==
    IF r[1] > 0 /\ r[2] < Requests[p][r[1]] THEN <<r[1], r[2] + 1>> ELSE <<r[1] + 1, 1>>

\* "This maintains the order of responses": the replies to the requests of a node come
\* in the order of its requests, the blocks of one request in the order asked for.
RepliesInOrder ==
    [][\A p \in Peer : answered'[p] # answered[p] => answered'[p] = Successor(p, answered[p])]_vars

\* What is pushed is processed in the end, to the last reply, or the connection is
\* closed at both ends.
MessagesArrive ==
    []<>(closed = Peer \/ \A p \in Peer : Quiet(p))
=============================================================================
