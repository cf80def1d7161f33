---------------------------- MODULE MessageQueue ----------------------------
(***************************************************************************)
(* What a connection between two nodes promises to their message handlers: *)
(* in each direction a queue of messages, delivered whole, once and in the *)
(* order in which they were pushed, as long as nobody hangs up.            *)
(***************************************************************************)
EXTENDS Integers, SequencesExt

CONSTANTS Peer, Message

VARIABLES
    queue,  \* queue[p]: the messages that p pushed and that have not been processed
    open    \* the ends that have not hung up

\* p processes a message of the other end, pushes some of its own, or both.
Exchange(p, o) ==
    /\ p \in open
    /\ queue' \in [Peer -> Seq(Message)]
    /\ queue'[o] = queue[o] \/ (queue[o] # <<>> /\ queue'[o] = Tail(queue[o]))
    /\ IsPrefix(queue[p], queue'[p])
    /\ UNCHANGED open

\* An end hangs up: what it has not processed is lost, and of what it pushed, what is
\* not on its way.
HangUp(p, o) ==
    /\ p \in open
    /\ open' = open \ {p}
    /\ \E n \in 0 .. Len(queue[p]) :
         queue' = [queue EXCEPT ![p] = SubSeq(@, 1, n), ![o] = <<>>]

Init == queue = [p \in Peer |-> <<>>] /\ open = Peer

Next == \E p \in Peer : \E o \in Peer \ {p} : Exchange(p, o) \/ HangUp(p, o)

Spec == Init /\ [][Next]_<<queue, open>>
=============================================================================
