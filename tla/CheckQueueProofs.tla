-------------------------- MODULE CheckQueueProofs --------------------------
(***************************************************************************)
(* The properties of CheckQueue hold for any number of workers and checks. *)
(*                                                                         *)
(* The invariant says where every check is and what the counters count.    *)
(* Enter, Wake and CleanUp only differ in what they do before the common   *)
(* rest of the critical section, Loop.  Before states what they establish  *)
(* for it, the lemma LoopKeeps that Loop makes the invariant out of it.    *)
(***************************************************************************)
EXTENDS CheckQueue, FiniteSetTheorems, TLAPS

Others(t) == Thread \ {t}

\* The threads of S that wait, and those that have entered Loop.
IdleIn(at, S) == {t \in S : at[t] \in {"waiting", "notified"}}
InLoop(at, S) == {t \in S : at[t] \in {"waiting", "notified", "checking"}}

Outside == {"outside", "returned"}
Where == {"entering", "waiting", "notified", "checking", "gone", "outside", "adding", "returned"}

\* nIdle and nTotal count the threads, and the calls of Loop that were interrupted.
CountsThreads ==
    /\ nIdle = Cardinality(IdleIn(pc, Thread)) + thrown
    /\ nTotal = Cardinality(InLoop(pc, Thread)) + thrown

Places ==
    /\ \A w \in Worker : pc[w] \notin Outside \cup {"adding"}
    /\ \A t \in Thread : batch[t] # {} <=> pc[t] = "checking"
    /\ queue \subseteq added
    /\ \A t \in Thread : batch[t] \subseteq added

\* A failed check is still to be done, or known.
Failures ==
    /\ ~fAllOk => added \cap Bad # {}
    /\ \A t \in Thread : pc[t] = "checking" /\ ~fOk[t] => ~fAllOk
    /\ pc[Master] \notin Outside /\ added \cap Bad # {} =>
          \/ ~fAllOk \/ queue \cap Bad # {} \/ \E t \in Thread : batch[t] \cap Bad # {}

NothingLeft ==
    pc[Master] \in Outside =>
        queue = {} /\ (\A t \in Thread : batch[t] = {}) /\ fAllOk

IInv ==
    /\ TypeOK /\ TodoIsPending /\ CountsThreads /\ Places /\ Failures /\ NothingLeft
    /\ ResultIsRight

\* What holds when a thread t comes to the common part of a critical section.
Before(t, total, idle, todo, ok, at) ==
    /\ todo = Cardinality(queue \cup InBatches(Others(t)))
    /\ idle = Cardinality(IdleIn(at, Others(t))) + thrown
    /\ total = Cardinality(InLoop(at, Others(t))) + 1 + thrown
    /\ \A u \in Others(t) : batch[u] \cap queue = {}
    /\ \A u, v \in Others(t) : u # v => batch[u] \cap batch[v] = {}
    /\ \A w \in Worker : at[w] \notin Outside \cup {"adding"}
    /\ \A u \in Others(t) : batch[u] # {} <=> at[u] = "checking"
    /\ queue \subseteq added
    /\ \A u \in Others(t) : batch[u] \subseteq added
    /\ ~ok => added \cap Bad # {}
    /\ \A u \in Others(t) : at[u] = "checking" /\ ~fOk[u] => ~ok
    /\ at[Master] \notin Outside /\ added \cap Bad # {} =>
          \/ ~ok \/ queue \cap Bad # {} \/ \E u \in Others(t) : batch[u] \cap Bad # {}
    /\ at[Master] \in Outside =>
          t # Master /\ queue = {} /\ (\A u \in Others(t) : batch[u] = {}) /\ ok
    /\ at[Master] = "returned" => (fRet <=> added \cap Bad = {})

-----------------------------------------------------------------------------
\* The set of all threads is finite, and so is every set of threads or checks.
LEMMA FiniteSets ==
    /\ IsFiniteSet(Thread)
    /\ \A S \in SUBSET Thread : IsFiniteSet(S) /\ Cardinality(S) \in Nat
    /\ \A S \in SUBSET Check : IsFiniteSet(S) /\ Cardinality(S) \in Nat
<1>1. IsFiniteSet(Thread)
  BY FS_AddElement, CheckQueueAssumption DEF Thread
<1>2. ASSUME NEW S \in SUBSET Thread PROVE IsFiniteSet(S) /\ Cardinality(S) \in Nat
  BY <1>1, FS_Subset, FS_CardinalityType
<1>3. ASSUME NEW S \in SUBSET Check PROVE IsFiniteSet(S) /\ Cardinality(S) \in Nat
  BY CheckQueueAssumption, FS_Subset, FS_CardinalityType
<1> QED BY <1>1, <1>2, <1>3

\* One more element that was not there.
LEMMA OneMore ==
    ASSUME NEW S \in SUBSET Thread, NEW t \in Thread, t \notin S
    PROVE  Cardinality(S \cup {t}) = Cardinality(S) + 1
BY FiniteSets, FS_AddElement

\* Disjoint sets of checks.
LEMMA Disjoint ==
    ASSUME NEW S \in SUBSET Check, NEW T \in SUBSET Check, S \cap T = {}
    PROVE  Cardinality(S \cup T) = Cardinality(S) + Cardinality(T)
<1>1. IsFiniteSet(S) /\ IsFiniteSet(T) /\ Cardinality(S) \in Nat /\ Cardinality(T) \in Nat
  BY FiniteSets
<1>2. Cardinality(S \cup T) = Cardinality(S) + Cardinality(T) - Cardinality(S \cap T)
  BY <1>1, FS_Union
<1>3. Cardinality(S \cap T) = 0
  BY FS_EmptySet
<1> QED BY <1>1, <1>2, <1>3

\* How the counted sets follow from those of the other threads.
LEMMA CountOne ==
    ASSUME NEW at \in [Thread -> Where], NEW t \in Thread
    PROVE  /\ IdleIn(at, Thread) = IF at[t] \in {"waiting", "notified"}
                                   THEN IdleIn(at, Others(t)) \cup {t} ELSE IdleIn(at, Others(t))
           /\ InLoop(at, Thread) = IF at[t] \in {"waiting", "notified", "checking"}
                                   THEN InLoop(at, Others(t)) \cup {t} ELSE InLoop(at, Others(t))
           /\ IdleIn(at, Others(t)) \in SUBSET Thread /\ t \notin IdleIn(at, Others(t))
           /\ InLoop(at, Others(t)) \in SUBSET Thread /\ t \notin InLoop(at, Others(t))
BY DEF IdleIn, InLoop, Others

\* The cardinalities with and without the thread t.
LEMMA Counts ==
    ASSUME NEW at \in [Thread -> Where], NEW t \in Thread
    PROVE  /\ Cardinality(IdleIn(at, Others(t))) \in Nat
           /\ Cardinality(InLoop(at, Others(t))) \in Nat
           /\ Cardinality(IdleIn(at, Thread)) = Cardinality(IdleIn(at, Others(t))) +
                 IF at[t] \in {"waiting", "notified"} THEN 1 ELSE 0
           /\ Cardinality(InLoop(at, Thread)) = Cardinality(InLoop(at, Others(t))) +
                 IF at[t] \in {"waiting", "notified", "checking"} THEN 1 ELSE 0
BY CountOne, OneMore, FiniteSets

-----------------------------------------------------------------------------
\* The common part of the critical sections establishes the invariant.
LEMMA LoopKeeps ==
    ASSUME TypeOK, added' = added, thrown' = thrown,
           NEW t \in Thread, NEW total \in Nat, NEW idle \in Nat, NEW todo \in Nat,
           NEW ok \in BOOLEAN, NEW at \in [Thread -> Where],
           Before(t, total, idle, todo, ok, at),
           Loop(t, total, idle, todo, ok, at)
    PROVE  IInv'
<1>0. /\ pc' \in [Thread -> Where] /\ \A u \in Others(t) : pc'[u] = at[u] /\ batch'[u] = batch[u]
      /\ batch' \in [Thread -> SUBSET Check]
      /\ queue' \subseteq queue /\ batch'[t] \subseteq queue
      /\ queue' = queue \ batch'[t]
      /\ batch'[t] # {} <=> pc'[t] = "checking"
  <2>1. CASE Return(t, total, idle, todo, ok, at)
    BY <2>1 DEF Return, TypeOK, Where, Others
  <2>2. CASE Sleep(t, total, idle, todo, ok, at)
    BY <2>2 DEF Sleep, TypeOK, Where, Others
  <2>3. CASE Take(t, total, idle, todo, ok, at)
    <3>1. PICK checks \in SUBSET queue :
              /\ Cardinality(checks) = nNow(total, idle)
              /\ batch' = [batch EXCEPT ![t] = checks]
              /\ queue' = queue \ checks
      BY <2>3 DEF Take
    <3>2. nNow(total, idle) # 0
      BY DEF nNow
    <3>3. checks # {}
      BY <3>1, <3>2, FS_EmptySet
    <3> QED BY <2>3, <3>1, <3>3 DEF Take, TypeOK, Where, Others
  <2> QED BY <2>1, <2>2, <2>3 DEF Loop
<1>1. /\ IdleIn(pc', Others(t)) = IdleIn(at, Others(t))
      /\ InLoop(pc', Others(t)) = InLoop(at, Others(t))
  BY <1>0 DEF IdleIn, InLoop
<1>2. /\ idle = Cardinality(IdleIn(pc', Others(t))) + thrown
      /\ total = Cardinality(InLoop(pc', Others(t))) + 1 + thrown
  BY <1>1 DEF Before
<1>3. /\ nTotal' = IF pc'[t] = "returned" THEN total - 1 ELSE total
      /\ nIdle' = IF pc'[t] = "waiting" THEN idle + 1 ELSE idle
      /\ nTodo' = todo
      /\ pc'[t] \in {"returned", "waiting", "checking"}
      /\ pc'[t] = "returned" => t = Master
  BY DEF Loop, Return, Sleep, Take, TypeOK
<1>4. CountsThreads'
  <2>1. /\ Cardinality(IdleIn(pc', Others(t))) \in Nat
        /\ Cardinality(InLoop(pc', Others(t))) \in Nat
        /\ Cardinality(IdleIn(pc', Thread)) = Cardinality(IdleIn(pc', Others(t))) +
              IF pc'[t] \in {"waiting", "notified"} THEN 1 ELSE 0
        /\ Cardinality(InLoop(pc', Thread)) = Cardinality(InLoop(pc', Others(t))) +
              IF pc'[t] \in {"waiting", "notified", "checking"} THEN 1 ELSE 0
    BY <1>0, Counts
  <2>2. thrown \in Nat
    BY DEF TypeOK
  <2>3. /\ nIdle' = Cardinality(IdleIn(pc', Thread)) + thrown
        /\ nTotal' = Cardinality(InLoop(pc', Thread)) + thrown
    BY <2>1, <2>2, <1>2, <1>3
  <2>4. /\ IdleIn(pc, Thread)' = IdleIn(pc', Thread)
        /\ InLoop(pc, Thread)' = InLoop(pc', Thread)
    BY DEF IdleIn, InLoop
  <2> QED BY <2>3, <2>4 DEF CountsThreads
<1>5. TodoIsPending'
  <2>1. (queue \cup InBatches(Thread))' = queue \cup InBatches(Others(t))
    BY <1>0 DEF InBatches, Others, TypeOK
  <2>2. nTodo' = Cardinality((queue \cup InBatches(Thread))')
    BY <2>1, <1>3 DEF Before
  <2>3. ASSUME NEW u \in Thread PROVE batch'[u] \cap queue' = {}
    BY <1>0 DEF Before, Others
  <2>4. ASSUME NEW u \in Thread, NEW v \in Thread, u # v PROVE batch'[u] \cap batch'[v] = {}
    <3>1. CASE u = t
      BY <3>1, <2>4, <1>0 DEF Before, Others
    <3>2. CASE v = t
      BY <3>2, <2>4, <1>0 DEF Before, Others
    <3>3. CASE u # t /\ v # t
      BY <3>3, <2>4, <1>0 DEF Before, Others
    <3> QED BY <3>1, <3>2, <3>3
  <2> QED BY <2>2, <2>3, <2>4 DEF TodoIsPending
<1>6. Places'
  <2>1. ASSUME NEW w \in Worker PROVE pc'[w] \notin Outside \cup {"adding"}
    <3>1. w \in Thread /\ w # Master
      BY CheckQueueAssumption DEF Thread
    <3>2. CASE w = t
      BY <3>1, <3>2, <1>3 DEF Outside
    <3>3. CASE w # t
      BY <3>1, <3>3, <1>0 DEF Before, Others
    <3> QED BY <3>2, <3>3
  <2>2. ASSUME NEW u \in Thread PROVE batch'[u] # {} <=> pc'[u] = "checking"
    BY <1>0 DEF Before, Others
  <2>3. queue' \subseteq added'
    BY <1>0 DEF Before
  <2>4. ASSUME NEW u \in Thread PROVE batch'[u] \subseteq added'
    BY <1>0 DEF Before, Others
  <2> QED BY <2>1, <2>2, <2>3, <2>4 DEF Places
<1>7. CASE pc'[t] = "returned"
  <2>1. Return(t, total, idle, todo, ok, at)
    BY <1>7 DEF Loop, Sleep, Take, TypeOK
  <2>2. t = Master /\ queue = {} /\ fAllOk' = TRUE /\ (fRet' <=> ok) /\ fRet' \in BOOLEAN
    BY <2>1 DEF Return
  <2>3. queue \cup InBatches(Others(t)) = {}
    <3>1. queue \cup InBatches(Others(t)) \in SUBSET Check
      BY DEF TypeOK, InBatches
    <3>2. Cardinality(queue \cup InBatches(Others(t))) = 0
      BY <2>1 DEF Before, Return
    <3> QED BY <3>1, <3>2, FiniteSets, FS_EmptySet
  <2>4. \A u \in Thread : batch'[u] = {}
    BY <2>3, <1>0, <1>7 DEF InBatches, Others, TypeOK
  <2>5. ok <=> added \cap Bad = {}
    <3>1. at[Master] \notin Outside
      BY <2>2 DEF Before
    <3>2. \A u \in Others(t) : batch[u] \cap Bad = {}
      BY <2>4, <1>0 DEF Others
    <3>3. ~ok => added \cap Bad # {}
      BY DEF Before
    <3>4. added \cap Bad # {} =>
             \/ ~ok \/ queue \cap Bad # {} \/ \E u \in Others(t) : batch[u] \cap Bad # {}
      BY <3>1 DEF Before
    <3>5. queue \cap Bad = {}
      BY <2>2
    <3>6. CASE ok
      BY <3>2, <3>4, <3>5, <3>6
    <3>7. CASE ~ok
      BY <3>3, <3>7
    <3> QED BY <3>6, <3>7
  <2>6a. NothingLeft'
    BY <2>2, <2>4, <1>0 DEF NothingLeft
  <2>6b. ResultIsRight'
    BY <2>2, <2>5 DEF ResultIsRight
  <2>6c. Failures'
    <3>1. pc'[Master] \in Outside
      BY <2>2, <1>7 DEF Outside
    <3>2. \A u \in Thread : pc'[u] # "checking"
      BY <2>4, <1>6 DEF Places
    <3> QED BY <2>2, <3>1, <3>2 DEF Failures
  <2>6. NothingLeft' /\ ResultIsRight' /\ Failures'
    BY <2>6a, <2>6b, <2>6c
  <2>7. TypeOK'
    <3>1. nTotal' \in Nat /\ nIdle' \in Nat /\ nTodo' \in Nat
      <4>1. Cardinality(InLoop(pc', Others(t))) \in Nat /\ thrown \in Nat
        BY <1>0, Counts DEF TypeOK
      <4> QED BY <4>1, <1>2, <1>3, <1>7
    <3>2. fAllOk' \in BOOLEAN /\ fRet' \in BOOLEAN /\ fOk' \in [Thread -> BOOLEAN]
      BY <2>1 DEF TypeOK, Return
    <3> QED BY <3>1, <3>2, <1>0 DEF TypeOK, Where
  <2> QED BY <2>6, <2>7, <1>4, <1>5, <1>6 DEF IInv
<1>8. CASE pc'[t] # "returned"
  <2>1. fAllOk' = ok /\ fRet' = fRet
    BY <1>8 DEF Loop, Return, Sleep, Take, TypeOK
  <2>2. /\ \A u \in Others(t) : fOk'[u] = fOk[u]
        /\ pc'[t] = "checking" => fOk'[t] = ok
        /\ fOk' \in [Thread -> BOOLEAN]
    BY DEF Loop, Return, Sleep, Take, TypeOK, Others
  <2>3. TypeOK'
    BY <2>1, <2>2, <1>0, <1>3, <1>8 DEF TypeOK, Where
  <2>4. Failures'
    <3>1. ~fAllOk' => added' \cap Bad # {}
      BY <2>1 DEF Before
    <3>2. ASSUME NEW u \in Thread, pc'[u] = "checking", ~fOk'[u] PROVE ~fAllOk'
      BY <3>2, <2>1, <2>2, <1>0 DEF Before, Others
    <3>3. ASSUME pc'[Master] \notin Outside, added' \cap Bad # {}
          PROVE \/ ~fAllOk' \/ queue' \cap Bad # {} \/ \E u \in Thread : batch'[u] \cap Bad # {}
      <4>1. at[Master] \notin Outside
        BY <3>3, <1>0 DEF Before, Others, Thread
      <4>2. \/ ~ok \/ queue \cap Bad # {} \/ \E u \in Others(t) : batch[u] \cap Bad # {}
        BY <4>1, <3>3 DEF Before
      <4>3. queue \cap Bad # {} => queue' \cap Bad # {} \/ batch'[t] \cap Bad # {}
        BY <1>0
      <4> QED BY <4>2, <4>3, <2>1, <1>0 DEF Others
    <3> QED BY <3>1, <3>2, <3>3 DEF Failures
  <2>5. NothingLeft'
    BY <2>1, <1>0, <1>3, <1>8 DEF NothingLeft, Before, Outside, Others, Thread
  <2>6. ResultIsRight'
    BY <2>1, <1>0, <1>3, <1>8 DEF ResultIsRight, Before, Others, Thread
  <2> QED BY <2>3, <2>4, <2>5, <2>6, <1>4, <1>5, <1>6 DEF IInv
<1> QED BY <1>7, <1>8

-----------------------------------------------------------------------------
\* The initial state satisfies the inductive invariant.
LEMMA InitIInv == Init => IInv
<1> SUFFICES ASSUME Init PROVE IInv
  OBVIOUS
<1>1. TypeOK
  BY DEF Init, TypeOK
<1>2. queue \cup InBatches(Thread) = {}
  BY DEF Init, InBatches
<1>3. TodoIsPending
  BY <1>2, FS_EmptySet DEF Init, TodoIsPending
<1>4. IdleIn(pc, Thread) = {} /\ InLoop(pc, Thread) = {}
  BY DEF Init, IdleIn, InLoop
<1>5. CountsThreads
  BY <1>4, FS_EmptySet DEF Init, CountsThreads
<1>6. Places
  BY CheckQueueAssumption DEF Init, Places, Outside, Thread
<1>7. Failures /\ NothingLeft /\ ResultIsRight
  BY DEF Init, Failures, NothingLeft, ResultIsRight, Outside
<1> QED BY <1>1, <1>3, <1>5, <1>6, <1>7 DEF IInv

\* What the counters count without t.
LEMMA CountOthers ==
    ASSUME IInv, NEW t \in Thread
    PROVE  /\ nIdle \in Nat /\ nTotal \in Nat /\ nTodo \in Nat /\ thrown \in Nat
           /\ nIdle = Cardinality(IdleIn(pc, Others(t))) + thrown +
                 IF pc[t] \in {"waiting", "notified"} THEN 1 ELSE 0
           /\ nTotal = Cardinality(InLoop(pc, Others(t))) + thrown +
                 IF pc[t] \in {"waiting", "notified", "checking"} THEN 1 ELSE 0
           /\ Cardinality(IdleIn(pc, Others(t))) \in Nat
           /\ Cardinality(InLoop(pc, Others(t))) \in Nat
<1>1. TypeOK /\ pc \in [Thread -> Where]
  BY DEF IInv, TypeOK, Where
<1>2. /\ nIdle = Cardinality(IdleIn(pc, Thread)) + thrown
      /\ nTotal = Cardinality(InLoop(pc, Thread)) + thrown
  BY DEF IInv, CountsThreads
<1>3. nIdle \in Nat /\ nTotal \in Nat /\ nTodo \in Nat /\ thrown \in Nat
  BY <1>1 DEF TypeOK
<1>4. /\ Cardinality(IdleIn(pc, Others(t))) \in Nat
      /\ Cardinality(InLoop(pc, Others(t))) \in Nat
      /\ nIdle = Cardinality(IdleIn(pc, Others(t))) + thrown +
            IF pc[t] \in {"waiting", "notified"} THEN 1 ELSE 0
      /\ nTotal = Cardinality(InLoop(pc, Others(t))) + thrown +
            IF pc[t] \in {"waiting", "notified", "checking"} THEN 1 ELSE 0
  BY <1>1, <1>2, <1>3, Counts
<1> QED BY <1>3, <1>4

\* What the invariant says about the threads other than t.
LEMMA BeforeOthers ==
    ASSUME IInv, NEW t \in Thread
    PROVE  /\ \A u \in Others(t) : batch[u] \cap queue = {}
           /\ \A u, v \in Others(t) : u # v => batch[u] \cap batch[v] = {}
           /\ \A w \in Worker : pc[w] \notin Outside \cup {"adding"}
           /\ \A u \in Others(t) : batch[u] # {} <=> pc[u] = "checking"
           /\ queue \subseteq added
           /\ \A u \in Others(t) : batch[u] \subseteq added
<1>1. /\ \A u \in Others(t) : batch[u] \cap queue = {}
      /\ \A u, v \in Others(t) : u # v => batch[u] \cap batch[v] = {}
  BY DEF IInv, TodoIsPending, Others
<1>2. /\ \A w \in Worker : pc[w] \notin Outside \cup {"adding"}
      /\ \A u \in Others(t) : batch[u] # {} <=> pc[u] = "checking"
      /\ queue \subseteq added
      /\ \A u \in Others(t) : batch[u] \subseteq added
  BY DEF IInv, Places, Others
<1> QED BY <1>1, <1>2

\* A thread without a batch, that is not the master outside of Loop, brings nothing.
LEMMA BeforeWithout ==
    ASSUME IInv, NEW t \in Thread, batch[t] = {}, t = Master => pc[t] \notin Outside
    PROVE  /\ nTodo = Cardinality(queue \cup InBatches(Others(t)))
           /\ ~fAllOk => added \cap Bad # {}
           /\ \A u \in Others(t) : pc[u] = "checking" /\ ~fOk[u] => ~fAllOk
           /\ pc[Master] \notin Outside /\ added \cap Bad # {} =>
                 \/ ~fAllOk \/ queue \cap Bad # {} \/ \E u \in Others(t) : batch[u] \cap Bad # {}
           /\ pc[Master] \in Outside =>
                 t # Master /\ queue = {} /\ (\A u \in Others(t) : batch[u] = {}) /\ fAllOk
           /\ pc[Master] = "returned" => (fRet <=> added \cap Bad = {})
<1>1. InBatches(Others(t)) = InBatches(Thread)
  BY DEF InBatches, Others
<1>2. nTodo = Cardinality(queue \cup InBatches(Others(t)))
  BY <1>1 DEF IInv, TodoIsPending
<1>3. /\ ~fAllOk => added \cap Bad # {}
      /\ \A u \in Others(t) : pc[u] = "checking" /\ ~fOk[u] => ~fAllOk
  BY DEF IInv, Failures, Others
<1>4. ASSUME pc[Master] \notin Outside, added \cap Bad # {}, fAllOk, queue \cap Bad = {}
      PROVE \E u \in Others(t) : batch[u] \cap Bad # {}
  <2>1. PICK u \in Thread : batch[u] \cap Bad # {}
    BY <1>4 DEF IInv, Failures
  <2> QED BY <2>1 DEF Others
<1>5. pc[Master] \in Outside =>
         t # Master /\ queue = {} /\ (\A u \in Others(t) : batch[u] = {}) /\ fAllOk
  BY DEF IInv, NothingLeft, Others
<1>6. pc[Master] = "returned" => (fRet <=> added \cap Bad = {})
  BY DEF IInv, ResultIsRight
<1> QED BY <1>2, <1>3, <1>4, <1>5, <1>6

-----------------------------------------------------------------------------
\* A thread enters Loop.
LEMMA EnterKeeps == ASSUME IInv, NEW t \in Thread, Enter(t) PROVE IInv'
<1>1. pc[t] = "entering" /\ batch[t] = {}
  BY DEF Enter, IInv, Places
<1>2. TypeOK /\ pc \in [Thread -> Where] /\ fAllOk \in BOOLEAN /\ nTotal + 1 \in Nat
      /\ nIdle \in Nat /\ nTodo \in Nat
  BY DEF IInv, TypeOK, Where
<1>3. Before(t, nTotal + 1, nIdle, nTodo, fAllOk, pc)
  <2>1. t = Master => pc[t] \notin Outside
    BY <1>1 DEF Outside
  <2>2. /\ nIdle = Cardinality(IdleIn(pc, Others(t))) + thrown
        /\ nTotal + 1 = Cardinality(InLoop(pc, Others(t))) + 1 + thrown
    <3>1. nIdle = Cardinality(IdleIn(pc, Others(t))) + thrown + 0
      BY <1>1, CountOthers
    <3>2. nTotal = Cardinality(InLoop(pc, Others(t))) + thrown + 0
      BY <1>1, CountOthers
    <3>3. /\ Cardinality(IdleIn(pc, Others(t))) \in Nat
          /\ Cardinality(InLoop(pc, Others(t))) \in Nat /\ thrown \in Nat
      BY CountOthers
    <3> QED BY <3>1, <3>2, <3>3
  <2> QED BY <1>1, <2>1, <2>2, BeforeOthers, BeforeWithout DEF Before
<1> QED BY <1>2, <1>3, LoopKeeps DEF Enter

\* A thread that waited goes on.
LEMMA WakeKeeps == ASSUME IInv, NEW t \in Thread, Wake(t) PROVE IInv'
<1>1. pc[t] \in {"waiting", "notified"} /\ batch[t] = {}
  BY DEF Wake, IInv, Places
<1>2. /\ nIdle - 1 = Cardinality(IdleIn(pc, Others(t))) + thrown
      /\ nTotal = Cardinality(InLoop(pc, Others(t))) + 1 + thrown
      /\ nIdle - 1 \in Nat
  BY <1>1, CountOthers
<1>3. TypeOK /\ pc \in [Thread -> Where] /\ fAllOk \in BOOLEAN /\ nTotal \in Nat
      /\ nTodo \in Nat
  BY DEF IInv, TypeOK, Where
<1>4. Before(t, nTotal, nIdle - 1, nTodo, fAllOk, pc)
  <2>1. t = Master => pc[t] \notin Outside
    BY <1>1 DEF Outside
  <2> QED BY <1>1, <1>2, <2>1, BeforeOthers, BeforeWithout DEF Before
<1> QED BY <1>2, <1>3, <1>4, LoopKeeps DEF Wake

\* A thread has carried out its batch.
LEMMA CleanUpKeeps == ASSUME IInv, NEW t \in Thread, CleanUp(t) PROVE IInv'
<1> DEFINE todo == nTodo - Cardinality(batch[t])
           ok == fAllOk /\ fOk[t] /\ batch[t] \cap Bad = {}
           at == IF todo = 0 /\ t # Master /\ pc[Master] = "waiting"
                 THEN [pc EXCEPT ![Master] = "notified"] ELSE pc
<1>1. pc[t] = "checking" /\ batch[t] # {} /\ t \in Thread
  BY DEF CleanUp, IInv, Places
<1>2. TypeOK /\ pc \in [Thread -> Where]
  BY DEF IInv, TypeOK, Where
<1>3. todo = Cardinality(queue \cup InBatches(Others(t))) /\ todo \in Nat
  <2>1. queue \cup InBatches(Others(t)) \in SUBSET Check /\ batch[t] \in SUBSET Check
    BY <1>2 DEF TypeOK, InBatches
  <2>2. (queue \cup InBatches(Others(t))) \cap batch[t] = {}
    BY DEF IInv, TodoIsPending, InBatches, Others
  <2>3. (queue \cup InBatches(Others(t))) \cup batch[t] = queue \cup InBatches(Thread)
    BY <2>1 DEF InBatches, Others
  <2>4. nTodo = Cardinality(queue \cup InBatches(Thread))
    BY DEF IInv, TodoIsPending
  <2>5. /\ Cardinality(queue \cup InBatches(Others(t))) \in Nat
        /\ Cardinality(batch[t]) \in Nat
    BY <2>1, FiniteSets
  <2>6. nTodo = Cardinality(queue \cup InBatches(Others(t))) + Cardinality(batch[t])
    BY <2>1, <2>2, <2>3, <2>4, Disjoint
  <2> QED BY <2>5, <2>6
<1>4. /\ at \in [Thread -> Where]
      /\ \A u \in Thread : \/ at[u] = pc[u]
                           \/ u = Master /\ u # t /\ at[u] = "notified" /\ pc[u] = "waiting"
  BY <1>2 DEF Where, Thread
<1> HIDE DEF todo, at
<1>5. /\ IdleIn(at, Others(t)) = IdleIn(pc, Others(t))
      /\ InLoop(at, Others(t)) = InLoop(pc, Others(t))
  <2>1. \A u \in Others(t) :
           /\ at[u] \in {"waiting", "notified"} <=> pc[u] \in {"waiting", "notified"}
           /\ at[u] = "checking" <=> pc[u] = "checking"
    BY <1>4 DEF Others
  <2>2. IdleIn(at, Others(t)) = IdleIn(pc, Others(t))
    BY <2>1 DEF IdleIn
  <2>3. InLoop(at, Others(t)) = InLoop(pc, Others(t))
    BY <2>1 DEF InLoop
  <2> QED BY <2>2, <2>3
<1>6. /\ nIdle = Cardinality(IdleIn(at, Others(t))) + thrown
      /\ nTotal = Cardinality(InLoop(at, Others(t))) + 1 + thrown
  <2>1. nIdle = Cardinality(IdleIn(pc, Others(t))) + thrown + 0
    BY <1>1, CountOthers
  <2>2. nTotal = Cardinality(InLoop(pc, Others(t))) + thrown + 1
    BY <1>1, CountOthers
  <2>3. /\ Cardinality(IdleIn(pc, Others(t))) \in Nat
        /\ Cardinality(InLoop(pc, Others(t))) \in Nat /\ thrown \in Nat
    BY CountOthers
  <2> QED BY <1>5, <2>1, <2>2, <2>3
<1>7. pc[Master] \notin Outside /\ at[Master] \notin Outside
  <2>1. pc[Master] \notin Outside
    BY <1>1 DEF IInv, NothingLeft
  <2> QED BY <2>1, <1>4 DEF Outside, Thread
<1>8. /\ \A w \in Worker : at[w] \notin Outside \cup {"adding"}
      /\ \A u \in Others(t) : batch[u] # {} <=> at[u] = "checking"
  <2>1. ASSUME NEW w \in Worker PROVE at[w] \notin Outside \cup {"adding"}
    BY <1>4, CheckQueueAssumption DEF IInv, Places, Thread
  <2>2. ASSUME NEW u \in Others(t) PROVE batch[u] # {} <=> at[u] = "checking"
    BY <1>4 DEF IInv, Places, Others
  <2> QED BY <2>1, <2>2
<1>9. /\ ok \in BOOLEAN
      /\ ~ok => added \cap Bad # {}
      /\ \A u \in Others(t) : at[u] = "checking" /\ ~fOk[u] => ~ok
      /\ added \cap Bad # {} =>
            \/ ~ok \/ queue \cap Bad # {} \/ \E u \in Others(t) : batch[u] \cap Bad # {}
  <2>1. ASSUME ~ok PROVE added \cap Bad # {}
    <3>1. CASE ~fAllOk \/ ~fOk[t]
      BY <3>1, <1>1 DEF IInv, Failures
    <3>2. CASE batch[t] \cap Bad # {}
      BY <3>2 DEF IInv, Places
    <3> QED BY <2>1, <3>1, <3>2
  <2>2. ASSUME NEW u \in Others(t), at[u] = "checking", ~fOk[u] PROVE ~ok
    BY <2>2, <1>4 DEF IInv, Failures, Others
  <2>3. ASSUME added \cap Bad # {}, ok, queue \cap Bad = {}
        PROVE \E u \in Others(t) : batch[u] \cap Bad # {}
    <3>1. PICK u \in Thread : batch[u] \cap Bad # {}
      BY <2>3, <1>7 DEF IInv, Failures
    <3> QED BY <3>1, <2>3 DEF Others
  <2> QED BY <2>1, <2>2, <2>3
<1> HIDE DEF ok
<1>10. Before(t, nTotal, nIdle, todo, ok, at)
  BY <1>3, <1>6, <1>7, <1>8, <1>9, BeforeOthers DEF Before, Outside
<1>11. Loop(t, nTotal, nIdle, todo, ok, at) /\ added' = added /\ thrown' = thrown
  BY DEF CleanUp, todo, ok, at
<1>12. nTotal \in Nat /\ nIdle \in Nat /\ todo \in Nat
  BY <1>3, CountOthers
<1>13. TypeOK /\ ok \in BOOLEAN /\ at \in [Thread -> Where]
  BY <1>2, <1>4, <1>9
<1> QED BY <1>10, <1>11, <1>12, <1>13, LoopKeeps

\* A thread that waits is interrupted.
LEMMA InterruptKeeps == ASSUME IInv, NEW t \in Thread, Interrupt(t) PROVE IInv'
<1>1. /\ pc[t] \in {"waiting", "notified"}
      /\ pc' = [pc EXCEPT ![t] = IF t = Master THEN "entering" ELSE "gone"]
      /\ thrown' = thrown + 1
      /\ UNCHANGED <<shared, batch, fOk, added, fRet>>
  BY DEF Interrupt
<1>2. TypeOK /\ pc \in [Thread -> Where]
  BY DEF IInv, TypeOK, Where
<1>3. /\ pc' \in [Thread -> Where] /\ pc'[t] \in {"entering", "gone"}
      /\ pc'[t] = "gone" => t # Master
      /\ \A u \in Others(t) : pc'[u] = pc[u]
  BY <1>1, <1>2 DEF Where, Others
<1>4. TypeOK'
  BY <1>1, <1>2, <1>3 DEF TypeOK, Where, shared
<1>5. CountsThreads'
  <2>1. /\ IdleIn(pc', Others(t)) = IdleIn(pc, Others(t))
        /\ InLoop(pc', Others(t)) = InLoop(pc, Others(t))
    BY <1>3 DEF IdleIn, InLoop
  <2>2. /\ Cardinality(IdleIn(pc', Thread)) = Cardinality(IdleIn(pc, Others(t)))
        /\ Cardinality(InLoop(pc', Thread)) = Cardinality(InLoop(pc, Others(t)))
    BY <1>3, <2>1, Counts
  <2>3. /\ nIdle = Cardinality(IdleIn(pc, Others(t))) + thrown + 1
        /\ nTotal = Cardinality(InLoop(pc, Others(t))) + thrown + 1
        /\ Cardinality(IdleIn(pc, Others(t))) \in Nat
        /\ Cardinality(InLoop(pc, Others(t))) \in Nat
        /\ thrown \in Nat
    BY <1>1, CountOthers
  <2>4. /\ nIdle' = Cardinality(IdleIn(pc', Thread)) + thrown'
        /\ nTotal' = Cardinality(InLoop(pc', Thread)) + thrown'
    BY <1>1, <2>2, <2>3 DEF shared
  <2>5. /\ IdleIn(pc, Thread)' = IdleIn(pc', Thread)
        /\ InLoop(pc, Thread)' = InLoop(pc', Thread)
    BY DEF IdleIn, InLoop
  <2> QED BY <2>4, <2>5 DEF CountsThreads
<1>6. TodoIsPending'
  BY <1>1 DEF IInv, TodoIsPending, InBatches, shared
<1>7. batch[t] = {}
  BY <1>1 DEF IInv, Places
<1>8. Places'
  <2>1. ASSUME NEW w \in Worker PROVE pc'[w] \notin Outside \cup {"adding"}
    BY <1>3 DEF IInv, Places, Outside, Others, Thread
  <2>2. ASSUME NEW u \in Thread PROVE batch'[u] # {} <=> pc'[u] = "checking"
    BY <1>1, <1>3, <1>7 DEF IInv, Places, Others
  <2> QED BY <2>1, <2>2, <1>1 DEF IInv, Places, shared
<1>9. pc'[Master] \in Outside <=> pc[Master] \in Outside
  BY <1>1, <1>3 DEF Outside, Others, Thread
<1>10. pc'[Master] = "returned" => pc[Master] = "returned"
  BY <1>3 DEF Others, Thread
<1>11. Failures'
  <2>1. ASSUME NEW u \in Thread, pc'[u] = "checking", ~fOk'[u] PROVE ~fAllOk'
    BY <2>1, <1>1, <1>3 DEF IInv, Failures, Others, shared
  <2> QED BY <2>1, <1>1, <1>9 DEF IInv, Failures, shared
<1>12. NothingLeft' /\ ResultIsRight'
  BY <1>1, <1>9, <1>10 DEF IInv, NothingLeft, ResultIsRight, shared
<1> QED BY <1>4, <1>5, <1>6, <1>8, <1>11, <1>12 DEF IInv

\* What the master does outside of Loop: only its own pc and those of waiting
\* workers, which stay among the idle ones, change.
LEMMA SameCounts ==
    ASSUME IInv, TypeOK', nIdle' = nIdle, nTotal' = nTotal, thrown' = thrown,
           \A u \in Thread :
              \/ pc'[u] = pc[u]
              \/ u \in Worker /\ pc[u] = "waiting" /\ pc'[u] = "notified"
              \/ u = Master /\ pc[u] \in Outside \cup {"adding"} /\ pc'[u] \in {"adding", "entering"}
    PROVE  /\ CountsThreads'
           /\ \A w \in Worker : pc'[w] \notin Outside \cup {"adding"}
           /\ \A u \in Thread : pc'[u] = "checking" <=> pc[u] = "checking"
<1>1. /\ IdleIn(pc, Thread)' = IdleIn(pc, Thread)
      /\ InLoop(pc, Thread)' = InLoop(pc, Thread)
  BY DEF IdleIn, InLoop, Outside
<1>2. CountsThreads'
  BY <1>1 DEF IInv, CountsThreads
<1>3. \A w \in Worker : pc'[w] \notin Outside \cup {"adding"}
  BY CheckQueueAssumption DEF IInv, Places, Outside, Thread
<1>4. \A u \in Thread : pc'[u] = "checking" <=> pc[u] = "checking"
  BY DEF Outside
<1> QED BY <1>2, <1>3, <1>4

\* A control is created for the next block.
LEMMA ConstructKeeps == ASSUME IInv, Construct PROVE IInv'
<1>1. /\ pc[Master] \in Outside /\ pc' = [pc EXCEPT ![Master] = "adding"]
      /\ added' = {}
      /\ UNCHANGED <<queue, nIdle, nTotal, nTodo, fAllOk, batch, fOk, fRet, thrown>>
  BY DEF Construct, shared, Outside
<1>2. TypeOK'
  BY <1>1 DEF IInv, TypeOK
<1>3. Master \in Thread /\ pc'[Master] = "adding" /\ \A u \in Thread \ {Master} : pc'[u] = pc[u]
  BY <1>1 DEF IInv, TypeOK, Thread
<1>4. queue = {} /\ (\A t \in Thread : batch[t] = {}) /\ fAllOk
  BY <1>1 DEF IInv, NothingLeft
<1>5. /\ CountsThreads'
      /\ \A w \in Worker : pc'[w] \notin Outside \cup {"adding"}
      /\ \A u \in Thread : pc'[u] = "checking" <=> pc[u] = "checking"
  BY <1>1, <1>2, <1>3, SameCounts
<1>6. TodoIsPending'
  BY <1>1 DEF IInv, TodoIsPending, InBatches
<1>7. Places'
  BY <1>1, <1>4, <1>5 DEF IInv, Places
<1>8. \A u \in Thread : pc[u] # "checking"
  BY <1>4 DEF IInv, Places
<1>9. Failures' /\ NothingLeft' /\ ResultIsRight'
  BY <1>1, <1>3, <1>4, <1>5, <1>8 DEF Failures, NothingLeft, ResultIsRight, Outside
<1> QED BY <1>2, <1>5, <1>6, <1>7, <1>9 DEF IInv

\* The master calls Wait.
LEMMA WaitKeeps == ASSUME IInv, Wait PROVE IInv'
<1>1. /\ pc[Master] = "adding" /\ pc' = [pc EXCEPT ![Master] = "entering"]
      /\ UNCHANGED <<queue, nIdle, nTotal, nTodo, fAllOk, batch, fOk, added, fRet, thrown>>
  BY DEF Wait, shared
<1>2. TypeOK'
  BY <1>1 DEF IInv, TypeOK
<1>3. Master \in Thread /\ pc'[Master] = "entering" /\ \A u \in Thread \ {Master} : pc'[u] = pc[u]
  BY <1>1 DEF IInv, TypeOK, Thread
<1>4. /\ CountsThreads'
      /\ \A w \in Worker : pc'[w] \notin Outside \cup {"adding"}
      /\ \A u \in Thread : pc'[u] = "checking" <=> pc[u] = "checking"
  BY <1>1, <1>2, <1>3, SameCounts
<1>5. TodoIsPending'
  BY <1>1 DEF IInv, TodoIsPending, InBatches
<1>6. Places'
  BY <1>1, <1>4 DEF IInv, Places
<1>7. Failures'
  BY <1>1, <1>4 DEF IInv, Failures, Outside
<1>8. NothingLeft' /\ ResultIsRight'
  BY <1>3 DEF NothingLeft, ResultIsRight, Outside
<1> QED BY <1>2, <1>4, <1>5, <1>6, <1>7, <1>8 DEF IInv

\* The master adds checks.
LEMMA AddKeeps == ASSUME IInv, NEW checks \in SUBSET Check, Add(checks) PROVE IInv'
<1>1. /\ pc[Master] = "adding" /\ checks \cap added = {}
      /\ added' = added \cup checks /\ queue' = queue \cup checks
      /\ nTodo' = nTodo + Cardinality(checks)
      /\ UNCHANGED <<nIdle, nTotal, fAllOk, batch, fOk, fRet, thrown>>
  BY DEF Add
<1>2. PICK woken \in SUBSET Waiting :
          pc' = [t \in Thread |-> IF t \in woken THEN "notified" ELSE pc[t]]
  BY DEF Add
<1>3. \A u \in Thread : \/ pc'[u] = pc[u]
                        \/ u \in Worker /\ pc[u] = "waiting" /\ pc'[u] = "notified"
  BY <1>2 DEF Waiting
<1>4. Cardinality(checks) \in Nat
  BY FiniteSets
<1>5. TypeOK'
  BY <1>1, <1>2, <1>4 DEF IInv, TypeOK
<1>6. pc'[Master] = "adding"
  BY <1>1, <1>3, CheckQueueAssumption DEF Thread
<1>7. /\ CountsThreads'
      /\ \A w \in Worker : pc'[w] \notin Outside \cup {"adding"}
      /\ \A u \in Thread : pc'[u] = "checking" <=> pc[u] = "checking"
  BY <1>1, <1>3, <1>5, SameCounts
<1>8. TodoIsPending'
  <2>1. queue \cup InBatches(Thread) \in SUBSET Check
    BY DEF IInv, TypeOK, InBatches
  <2>2. (queue \cup InBatches(Thread)) \cap checks = {}
    BY <1>1 DEF IInv, Places, InBatches
  <2>3. (queue \cup InBatches(Thread))' = (queue \cup InBatches(Thread)) \cup checks
    BY <1>1 DEF InBatches
  <2>4. nTodo' = Cardinality((queue \cup InBatches(Thread))')
    BY <1>1, <2>1, <2>2, <2>3, Disjoint DEF IInv, TodoIsPending
  <2>5. \A t \in Thread : batch'[t] \cap queue' = {}
    BY <1>1 DEF IInv, TodoIsPending, Places
  <2> QED BY <1>1, <2>4, <2>5 DEF IInv, TodoIsPending
<1>9. Places'
  BY <1>1, <1>7 DEF IInv, Places
<1>10. Failures'
  <2>1. ~fAllOk' => added' \cap Bad # {}
    BY <1>1 DEF IInv, Failures
  <2>2. \A t \in Thread : pc'[t] = "checking" /\ ~fOk'[t] => ~fAllOk'
    BY <1>1, <1>7 DEF IInv, Failures
  <2>3. ASSUME added' \cap Bad # {}
        PROVE  \/ ~fAllOk' \/ queue' \cap Bad # {} \/ \E t \in Thread : batch'[t] \cap Bad # {}
    <3>1. CASE checks \cap Bad # {}
      BY <3>1, <1>1
    <3>2. CASE added \cap Bad # {}
      BY <3>2, <1>1 DEF IInv, Failures, Outside
    <3> QED BY <2>3, <3>1, <3>2, <1>1
  <2> QED BY <2>1, <2>2, <2>3 DEF Failures
<1>11. NothingLeft' /\ ResultIsRight'
  BY <1>6 DEF NothingLeft, ResultIsRight, Outside
<1> QED BY <1>5, <1>7, <1>8, <1>9, <1>10, <1>11 DEF IInv

-----------------------------------------------------------------------------
\* Every step keeps the inductive invariant.
LEMMA NextIInv == IInv /\ [Next]_vars => IInv'
<1> SUFFICES ASSUME IInv, [Next]_vars PROVE IInv'
  OBVIOUS
<1>1. ASSUME NEW t \in Thread, Enter(t) \/ Wake(t) \/ CleanUp(t) \/ Interrupt(t) PROVE IInv'
  BY <1>1, EnterKeeps, WakeKeeps, CleanUpKeeps, InterruptKeeps
<1>2. CASE Construct \/ Wait
  BY <1>2, ConstructKeeps, WaitKeeps
<1>3. ASSUME NEW checks \in SUBSET Check, Add(checks) PROVE IInv'
  BY <1>3, AddKeeps
<1>4. CASE UNCHANGED vars
  <2>1. TypeOK' /\ Places' /\ Failures' /\ NothingLeft' /\ ResultIsRight'
    BY <1>4, SMTT(30) DEF IInv, TypeOK, Places, Failures, NothingLeft, ResultIsRight, vars, shared
  <2>2. TodoIsPending' /\ CountsThreads'
    BY <1>4 DEF IInv, TodoIsPending, CountsThreads, InBatches, IdleIn, InLoop, vars, shared
  <2> QED BY <2>1, <2>2 DEF IInv
<1> QED BY <1>1, <1>2, <1>3, <1>4 DEF Next

\* Every state of CheckQueue satisfies the inductive invariant.
THEOREM Invariance == Spec => []IInv
BY InitIInv, NextIInv, PTL DEF Spec

\* The counters, the queue, the batches and the results keep their types.
THEOREM TypeCorrect == Spec => []TypeOK
<1>1. IInv => TypeOK
  BY DEF IInv
<1> QED BY <1>1, Invariance, PTL

\* The assertion in the constructor of CCheckQueueControl never fails.
THEOREM AlwaysIdleWhenUnused == Spec => []IdleWhenUnused
<1>1. IInv => IdleWhenUnused
  <2> SUFFICES ASSUME IInv, pc[Master] \in Outside
               PROVE  nTotal = nIdle /\ nTodo = 0 /\ fAllOk = TRUE
    BY DEF IdleWhenUnused, Outside
  <2>1. queue = {} /\ (\A t \in Thread : batch[t] = {}) /\ fAllOk
    BY DEF IInv, NothingLeft
  <2>2. fAllOk = TRUE
    BY <2>1 DEF IInv, TypeOK
  <2>3. queue \cup InBatches(Thread) = {}
    BY <2>1 DEF InBatches
  <2>4. nTodo = 0
    BY <2>3, FS_EmptySet DEF IInv, TodoIsPending
  <2>5. IdleIn(pc, Thread) = InLoop(pc, Thread)
    BY <2>1 DEF IInv, Places, IdleIn, InLoop
  <2> QED BY <2>2, <2>4, <2>5 DEF IInv, CountsThreads
<1> QED BY <1>1, Invariance, PTL

\* nTodo counts the checks that are not done, none of which is lost or doubled.
THEOREM TodoAlwaysPending == Spec => []TodoIsPending
<1>1. IInv => TodoIsPending
  BY DEF IInv
<1> QED BY <1>1, Invariance, PTL

\* Wait returns true exactly when every check that was added succeeds.
THEOREM ResultAlwaysRight == Spec => []ResultIsRight
<1>1. IInv => ResultIsRight
  BY DEF IInv
<1> QED BY <1>1, Invariance, PTL
=============================================================================
