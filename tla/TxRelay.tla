------------------------------ MODULE TxRelay ------------------------------
(***************************************************************************)
(* The handler of "tx" messages (ProcessMessage in main.cpp) and the       *)
(* orphan transactions (OrphanTransactions.cpp): a transaction with inputs *)
(* that the node does not know waits, with the peer that sent it, until a  *)
(* parent enters the memory pool.                                          *)
(*                                                                         *)
(* The handler holds cs_main; its loops are modelled step by step.         *)
(* CNodeState::Finalize calls EraseOrphansFor without cs_main.  When it    *)
(* runs while the handler walks over the same maps the behaviour is        *)
(* undefined; the model has it between two handlers only.                  *)
(***************************************************************************)
EXTENDS Mempool, FiniteSets

CONSTANTS
    Peer,
    Large,       \* transactions of more than 5000 bytes
    MaxOrphanTx  \* -maxorphantx

ASSUME TxRelayAssumption == Large \subseteq Tx /\ MaxOrphanTx \in Nat

VARIABLES
    orphans,         \* mapOrphanTransactions: the peer of each orphan transaction
    orphansByPrev,   \* orphansByPrev[t]: mapOrphanTransactionsByPrev, {} for no entry
    vWorkQueue,      \* transactions accepted by the handler, <<>> outside its loop
    reached,         \* position of the outer loop in vWorkQueue
    toTry,           \* what is left of the inner loop
    vEraseQueue,     \* orphans to erase at the end
    setMisbehaving   \* peers that sent an invalid orphan

orphanVars == <<orphans, orphansByPrev>>
handlerVars == <<vWorkQueue, reached, toTry, vEraseQueue, setMisbehaving>>
vars == <<mempoolVars, orphanVars, handlerVars>>

\* cs_main is free.
Free == pc = "idle" /\ vWorkQueue = <<>>

Prevs(t) == {o[1] : o \in Inputs[t]}

-----------------------------------------------------------------------------
(* OrphanTransactions.cpp                                                  *)

\* Mutant: mapOrphanTransactionsByPrev keeps its entries.
ErasePrev_Kept(byPrev, os) == byPrev

\* mapOrphanTransactionsByPrev after EraseOrphanTx for each orphan in os.
ErasePrev(byPrev, os) == [h \in Tx |-> byPrev[h] \ {t \in os : h \in Prevs(t)}]

\* EraseOrphanTx for each of os, without those that are not known.
EraseOrphans(os) ==
    /\ orphans' = [t \in DOMAIN orphans \ os |-> orphans[t]]
    /\ orphansByPrev' = ErasePrev(orphansByPrev, os \cap DOMAIN orphans)

\* AddOrphanTx for a transaction that is neither known nor large, and
\* LimitOrphanTxSize, which evicts random orphans.
AddOrphanTx(peer, t) ==
    LET all == DOMAIN orphans \cup {t}
    IN  \E kept \in SUBSET all :
          /\ Cardinality(kept) = IF Cardinality(all) > MaxOrphanTx THEN MaxOrphanTx ELSE Cardinality(all)
          /\ orphans' = [o \in kept |-> IF o = t THEN peer ELSE orphans[o]]
          /\ orphansByPrev' =
                ErasePrev([h \in Tx |-> orphansByPrev[h] \cup {o \in {t} : h \in Prevs(o)}], all \ kept)

\* EraseOrphansFor, when a peer is gone.
EraseOrphansFor(peer) ==
    /\ vWorkQueue = <<>>
    /\ EraseOrphans({t \in DOMAIN orphans : orphans[t] = peer})
    /\ UNCHANGED <<mempoolVars, handlerVars>>

-----------------------------------------------------------------------------
(* The handler of "tx"                                                     *)

\* The transaction enters the pool: on to the orphans that spend its outputs.
ReceiveTx(t) ==
    /\ Free /\ Acceptable(t)
    /\ addUnchecked(t)
    /\ vWorkQueue' = <<t>> /\ reached' = 1 /\ toTry' = orphansByPrev[t]
    /\ UNCHANGED <<chainVars, orphanVars, vEraseQueue, setMisbehaving>>

\* The transaction has inputs that the node does not know.
ReceiveOrphan(peer, t) ==
    /\ Free /\ MissingInputs(t) /\ t \notin DOMAIN orphans \cup Large
    /\ AddOrphanTx(peer, t)
    /\ UNCHANGED <<mempoolVars, handlerVars>>

\* AcceptToMemoryPool refuses o with a positive nDoS.
Punishable(o) ==
    IsNew(o) /\ o \in Invalid /\ \A i \in Inputs[o] : Available(i) /\ Mature(i)

\* The orphan enters the pool and becomes a work item itself.
TryAccepted(o) ==
    /\ Acceptable(o) /\ addUnchecked(o)
    /\ vWorkQueue' = Append(vWorkQueue, o)
    /\ vEraseQueue' = vEraseQueue \cup {o}
    /\ UNCHANGED setMisbehaving

\* It is refused for another reason than missing inputs, and will be erased.
TryRefused(o) ==
    /\ ~MissingInputs(o)
    /\ \/ /\ ~Acceptable(o)
          /\ setMisbehaving' = IF Punishable(o) THEN setMisbehaving \cup {orphans[o]} ELSE setMisbehaving
       \/ /\ IsNew(o) /\ o \in Cheap /\ \A i \in Inputs[o] : Available(i)
          /\ UNCHANGED setMisbehaving
    /\ vEraseQueue' = vEraseQueue \cup {o}
    /\ UNCHANGED <<poolVars, vWorkQueue>>

\* It is left alone: inputs are still missing, or its peer has misbehaved.
TrySkipped(o) ==
    /\ MissingInputs(o) \/ orphans[o] \in setMisbehaving
    /\ UNCHANGED <<poolVars, vWorkQueue, vEraseQueue, setMisbehaving>>

\* One turn of the inner loop, in the order of the hashes, which is left open.
TryOrphan(o) ==
    /\ o \in toTry
    /\ \/ orphans[o] \notin setMisbehaving /\ (TryAccepted(o) \/ TryRefused(o))
       \/ TrySkipped(o)
    /\ toTry' = toTry \ {o}
    /\ UNCHANGED <<chainVars, orphanVars, reached>>

\* The inner loop is over: the next work item.
NextWorkItem ==
    /\ vWorkQueue # <<>> /\ toTry = {} /\ reached < Len(vWorkQueue)
    /\ reached' = reached + 1
    /\ toTry' = orphansByPrev[vWorkQueue[reached + 1]]
    /\ UNCHANGED <<mempoolVars, orphanVars, vWorkQueue, vEraseQueue, setMisbehaving>>

\* Mutant: the loop ends with the transaction received, whatever was queued meanwhile.
EndOfHandler_FirstOnly ==
    /\ vWorkQueue # <<>> /\ toTry = {}
    /\ EraseOrphans(vEraseQueue)
    /\ vWorkQueue' = <<>> /\ reached' = 0 /\ vEraseQueue' = {} /\ setMisbehaving' = {}
    /\ UNCHANGED <<mempoolVars, toTry>>

\* The outer loop is over: the orphans in vEraseQueue are erased.
EndOfHandler ==
    /\ vWorkQueue # <<>> /\ toTry = {} /\ reached = Len(vWorkQueue)
    /\ EraseOrphans(vEraseQueue)
    /\ vWorkQueue' = <<>> /\ reached' = 0 /\ vEraseQueue' = {} /\ setMisbehaving' = {}
    /\ UNCHANGED <<mempoolVars, toTry>>

-----------------------------------------------------------------------------
Init ==
    /\ MempoolInit
    /\ orphans = <<>> /\ orphansByPrev = [h \in Tx |-> {}]
    /\ vWorkQueue = <<>> /\ reached = 0 /\ toTry = {} /\ vEraseQueue = {} /\ setMisbehaving = {}

\* Transactions of the wallet and blocks, when no handler holds cs_main.
OtherStep ==
    /\ vWorkQueue = <<>>
    /\ \/ \E t \in Tx : AcceptToMemoryPool(t)
       \/ \E b \in Block : ConnectTip(b)
       \/ DisconnectTip
       \/ ChainStep
    /\ UNCHANGED <<orphanVars, handlerVars>>

Next ==
    \/ OtherStep
    \/ \E t \in Tx : ReceiveTx(t) \/ (\E peer \in Peer : ReceiveOrphan(peer, t)) \/ TryOrphan(t)
    \/ NextWorkItem \/ EndOfHandler
    \/ \E peer \in Peer : EraseOrphansFor(peer)

Spec == Init /\ [][Next]_vars

-----------------------------------------------------------------------------
(* Properties                                                              *)

RelayTypeOK ==
    /\ TypeOK
    /\ DOMAIN orphans \subseteq Tx /\ \A t \in DOMAIN orphans : orphans[t] \in Peer
    /\ orphansByPrev \in [Tx -> SUBSET Tx]
    /\ vWorkQueue \in Seq(Tx) /\ reached \in 0 .. Len(vWorkQueue)
    /\ toTry \subseteq DOMAIN orphans /\ vEraseQueue \subseteq DOMAIN orphans
    /\ setMisbehaving \subseteq Peer

\* mapOrphanTransactionsByPrev holds exactly the orphans that spend an output of the
\* key; so GetOrphanTransaction never makes an empty entry.
OrphanIndexIsExact ==
    \A h \in Tx : orphansByPrev[h] = {t \in DOMAIN orphans : h \in Prevs(t)}

\* "do not allow mapOrphanTransactions to grow unbounded".
OrphansAreBounded == Cardinality(DOMAIN orphans) <= MaxOrphanTx

\* "Recursively process any orphan transactions that depended on this one": when the
\* handler is through, every orphan left that spends an output of a transaction
\* accepted by it misses another input, or came from a peer that misbehaved.
OrphansAreTried ==
    [][vWorkQueue # <<>> /\ vWorkQueue' = <<>> =>
          \A i \in DOMAIN vWorkQueue : \A o \in DOMAIN orphans' :
              vWorkQueue[i] \in Prevs(o) =>
                  (\E h \in Prevs(o) : ~HaveCoins(h)) \/ orphans[o] \in setMisbehaving]_vars
=============================================================================
