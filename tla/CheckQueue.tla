----------------------------- MODULE CheckQueue -----------------------------
(***************************************************************************)
(* CCheckQueue and CCheckQueueControl (checkqueue.h): the thread that      *)
(* connects a block (the master) adds script checks, the script threads    *)
(* (the workers) take them in batches, and in Wait the master joins them   *)
(* until all are done.                                                     *)
(*                                                                         *)
(* What happens under the mutex is one action.  The checks of a batch are  *)
(* carried out between two of them and depend on nothing that is shared.   *)
(* cs_main lets only one thread at a time be the master.  A thread that    *)
(* waits on a condition variable may wake up without a notification, and   *)
(* may be interrupted when the node shuts down.                            *)
(***************************************************************************)
EXTENDS Integers, FiniteSets

CONSTANTS
    Worker,     \* the threads in ThreadScriptCheck
    Master,     \* the thread in ConnectBlock
    Check,      \* the script checks of a block
    Bad,        \* those that fail
    BatchSize,  \* nBatchSize
    MaxThrown   \* how many times a master may be interrupted

ASSUME CheckQueueAssumption ==
    /\ IsFiniteSet(Worker) /\ Master \notin Worker
    /\ IsFiniteSet(Check) /\ Bad \subseteq Check
    /\ BatchSize \in Nat \ {0} /\ MaxThrown \in Nat

Thread == Worker \cup {Master}

VARIABLES
    queue,   \* the checks nobody has taken yet ("the order of booleans doesn't matter")
    nIdle,
    nTotal,
    nTodo,
    fAllOk,
    pc,      \* pc[t]: where the thread is between two critical sections
    batch,   \* batch[t]: vChecks of Loop
    fOk,     \* fOk[t]: fOk of Loop when the batch was taken
    added,   \* the checks that were added since the control was created
    fRet,    \* what Wait returned
    thrown   \* how many calls of Loop were left by an interruption

shared == <<queue, nIdle, nTotal, nTodo, fAllOk>>
vars == <<shared, pc, batch, fOk, added, fRet, thrown>>

\* The number of checks that a thread takes at once.
nNow(total, idle) ==
    LET share == Cardinality(queue) \div (total + idle + 1)
        most == IF share < BatchSize THEN share ELSE BatchSize
    IN  IF most < 1 THEN 1 ELSE most

-----------------------------------------------------------------------------
(* Loop: what follows the clean-up in a critical section, for a thread t that *)
(* finds the counters total, idle and todo and the result ok; at is pc with   *)
(* the notifications of the clean-up.                                         *)

\* The master returns when nothing is left to do.
Return(t, total, idle, todo, ok, at) ==
    /\ queue = {} /\ t = Master /\ todo = 0
    /\ nTotal' = total - 1 /\ nIdle' = idle /\ nTodo' = todo
    /\ fRet' = ok /\ fAllOk' = TRUE
    /\ pc' = [at EXCEPT ![t] = "returned"]
    /\ batch' = [batch EXCEPT ![t] = {}]
    /\ UNCHANGED <<queue, fOk>>

\* cond.wait(lock).
Sleep(t, total, idle, todo, ok, at) ==
    /\ queue = {} /\ ~(t = Master /\ todo = 0)
    /\ nTotal' = total /\ nIdle' = idle + 1 /\ nTodo' = todo /\ fAllOk' = ok
    /\ pc' = [at EXCEPT ![t] = "waiting"]
    /\ batch' = [batch EXCEPT ![t] = {}]
    /\ UNCHANGED <<queue, fOk, fRet>>

\* The thread takes nNow checks, and none of them will be carried out when one has
\* failed already.
Take(t, total, idle, todo, ok, at) ==
    /\ queue # {}
    /\ \E checks \in SUBSET queue :
          /\ Cardinality(checks) = nNow(total, idle)
          /\ batch' = [batch EXCEPT ![t] = checks]
          /\ queue' = queue \ checks
    /\ nTotal' = total /\ nIdle' = idle /\ nTodo' = todo /\ fAllOk' = ok
    /\ fOk' = [fOk EXCEPT ![t] = ok]
    /\ pc' = [at EXCEPT ![t] = "checking"]
    /\ UNCHANGED fRet

Loop(t, total, idle, todo, ok, at) ==
    \/ Return(t, total, idle, todo, ok, at)
    \/ Sleep(t, total, idle, todo, ok, at)
    \/ Take(t, total, idle, todo, ok, at)

\* The first iteration.
Enter(t) ==
    /\ pc[t] = "entering"
    /\ Loop(t, nTotal + 1, nIdle, nTodo, fAllOk, pc)
    /\ UNCHANGED <<added, thrown>>

\* Mutant: the thread still counts as idle.
Wake_StillIdle(t) ==
    /\ pc[t] \in {"waiting", "notified"}
    /\ Loop(t, nTotal, nIdle, nTodo, fAllOk, pc)
    /\ UNCHANGED <<added, thrown>>

\* cond.wait(lock) returns.
Wake(t) ==
    /\ pc[t] \in {"waiting", "notified"}
    /\ Loop(t, nTotal, nIdle - 1, nTodo, fAllOk, pc)
    /\ UNCHANGED <<added, thrown>>

\* Mutant: the result of the batch replaces the result so far.
CleanUp_Replaces(t) ==
    /\ pc[t] = "checking"
    /\ LET todo == nTodo - Cardinality(batch[t])
           ok == fOk[t] /\ batch[t] \cap Bad = {}
           at == IF todo = 0 /\ t # Master /\ pc[Master] = "waiting"
                 THEN [pc EXCEPT ![Master] = "notified"] ELSE pc
       IN  Loop(t, nTotal, nIdle, todo, ok, at)
    /\ UNCHANGED <<added, thrown>>

\* Mutant: the master is not told that the last check is done.
CleanUp_NoNotify(t) ==
    /\ pc[t] = "checking"
    /\ LET todo == nTodo - Cardinality(batch[t])
           ok == fAllOk /\ fOk[t] /\ batch[t] \cap Bad = {}
       IN  Loop(t, nTotal, nIdle, todo, ok, pc)
    /\ UNCHANGED <<added, thrown>>

\* The batch was carried out, unless a check had failed before: the clean-up and
\* the next iteration.
CleanUp(t) ==
    /\ pc[t] = "checking"
    /\ LET todo == nTodo - Cardinality(batch[t])
           ok == fAllOk /\ fOk[t] /\ batch[t] \cap Bad = {}
           at == IF todo = 0 /\ t # Master /\ pc[Master] = "waiting"
                 THEN [pc EXCEPT ![Master] = "notified"] ELSE pc
       IN  Loop(t, nTotal, nIdle, todo, ok, at)
    /\ UNCHANGED <<added, thrown>>

\* boost::thread_interrupted leaves Loop without the decrements.  A worker is gone;
\* a master is unwound, and ~CCheckQueueControl waits once more.
Interrupt(t) ==
    /\ pc[t] \in {"waiting", "notified"}
    /\ t = Master => thrown < MaxThrown
    /\ thrown' = thrown + 1
    /\ pc' = [pc EXCEPT ![t] = IF t = Master THEN "entering" ELSE "gone"]
    /\ UNCHANGED <<shared, batch, fOk, added, fRet>>

-----------------------------------------------------------------------------
(* The master                                                              *)

\* CCheckQueueControl control(&scriptcheckqueue), which asserts that the queue is idle.
Construct ==
    /\ pc[Master] \in {"outside", "returned"}
    /\ pc' = [pc EXCEPT ![Master] = "adding"]
    /\ added' = {}
    /\ UNCHANGED <<shared, batch, fOk, fRet, thrown>>

Waiting == {w \in Worker : pc[w] = "waiting"}

\* Add: one worker is notified of one check, all of them of several.
Add(checks) ==
    /\ pc[Master] = "adding"
    /\ checks \cap added = {}
    /\ added' = added \cup checks
    /\ queue' = queue \cup checks
    /\ nTodo' = nTodo + Cardinality(checks)
    /\ \E woken \in SUBSET Waiting :
          /\ Cardinality(checks) = 0 => woken = {}
          /\ Cardinality(checks) = 1 => /\ Cardinality(woken) <= 1
                                        /\ woken = {} => Waiting = {}
          /\ Cardinality(checks) > 1 => woken = Waiting
          /\ pc' = [t \in Thread |-> IF t \in woken THEN "notified" ELSE pc[t]]
    /\ UNCHANGED <<nIdle, nTotal, fAllOk, batch, fOk, fRet, thrown>>

\* Wait, also when it is ~CCheckQueueControl that calls it because the block was
\* found invalid before all its transactions were seen.
Wait ==
    /\ pc[Master] = "adding"
    /\ pc' = [pc EXCEPT ![Master] = "entering"]
    /\ UNCHANGED <<shared, batch, fOk, added, fRet, thrown>>

-----------------------------------------------------------------------------
Init ==
    /\ queue = {} /\ nIdle = 0 /\ nTotal = 0 /\ nTodo = 0 /\ fAllOk = TRUE
    /\ pc = [t \in Thread |-> IF t = Master THEN "outside" ELSE "entering"]
    /\ batch = [t \in Thread |-> {}] /\ fOk = [t \in Thread |-> TRUE]
    /\ added = {} /\ fRet = TRUE /\ thrown = 0

Next ==
    \/ \E t \in Thread : Enter(t) \/ Wake(t) \/ CleanUp(t) \/ Interrupt(t)
    \/ Construct \/ Wait
    \/ \E checks \in SUBSET Check : Add(checks)

Spec == Init /\ [][Next]_vars

\* The mutex is given to every thread that asks for it, and every check ends.
Progress(t) == pc[t] # "waiting" /\ (Enter(t) \/ Wake(t) \/ CleanUp(t))

FairSpec == Spec /\ \A t \in Thread : WF_vars(Progress(t))

-----------------------------------------------------------------------------
(* Properties                                                              *)

TypeOK ==
    /\ queue \subseteq Check /\ added \subseteq Check
    /\ nIdle \in Nat /\ nTotal \in Nat /\ nTodo \in Nat /\ thrown \in Nat
    /\ fAllOk \in BOOLEAN /\ fRet \in BOOLEAN
    /\ pc \in [Thread -> {"entering", "waiting", "notified", "checking", "gone",
                          "outside", "adding", "returned"}]
    /\ batch \in [Thread -> SUBSET Check] /\ fOk \in [Thread -> BOOLEAN]

\* "passed queue is supposed to be unused": the assertion of CCheckQueueControl's
\* constructor that the queue IsIdle.
IdleWhenUnused ==
    pc[Master] \in {"outside", "returned"} =>
        nTotal = nIdle /\ nTodo = 0 /\ fAllOk = TRUE

\* Wait returns "whether all evaluations where successful".
ResultIsRight == pc[Master] = "returned" => (fRet <=> added \cap Bad = {})

\* The checks in the batches of the threads in S.
InBatches(S) == {c \in Check : \E t \in S : c \in batch[t]}

\* "Number of verifications that haven't completed yet": those in the queue and
\* those in the batches, and no check is in two places.
TodoIsPending ==
    /\ nTodo = Cardinality(queue \cup InBatches(Thread))
    /\ \A t \in Thread : batch[t] \cap queue = {}
    /\ \A t, u \in Thread : t # u => batch[t] \cap batch[u] = {}

\* "guarantees the passed queue is finished before continuing": Wait returns, even
\* when workers are interrupted.
WaitReturns == pc[Master] = "entering" ~> pc[Master] = "returned"
=============================================================================
