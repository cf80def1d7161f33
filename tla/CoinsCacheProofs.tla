-------------------------- MODULE CoinsCacheProofs --------------------------
(***************************************************************************)
(* The layered coins views keep their flags sound and implement one UTXO   *)
(* set, for any sets of transactions, coins and blocks.                    *)
(*                                                                         *)
(* An operation touches the layers of one transaction at a time, so the    *)
(* argument is about the three layers of one transaction: its record d on  *)
(* disk, its entry us in pcoinsTip and its entry e in the view.            *)
(***************************************************************************)
EXTENDS CoinsCache, TLAPS

Below(d, us) == IF us.coins # None THEN us.coins ELSE d

TipLayer(d, us) ==
    /\ d \in Coins \cup {None}
    /\ us \in CCoinsCacheEntry
    /\ IF us.coins = None THEN us = NoEntry ELSE EntryIsSound(us, d)

ViewLayer(d, us, e) ==
    /\ e \in CCoinsCacheEntry
    /\ IF e.coins = None THEN e = NoEntry
       ELSE /\ EntryIsSound(e, Below(d, us))
            /\ e.dirty /\ e.coins = Pruned => ~e.fresh
            /\ e.fresh \/ us.coins # None

Layers(d, us, e) == TipLayer(d, us) /\ ViewLayer(d, us, e)

\* Fetching a record of the disk into pcoinsTip keeps its entry sound, does not
\* change what pcoinsTip answers and leaves an entry whenever there is an answer.
LEMMA FetchFromDisk ==
    ASSUME NEW d, NEW us, TipLayer(d, us)
    PROVE  /\ TipLayer(d, FetchCoins(us, d))
           /\ Below(d, FetchCoins(us, d)) = Below(d, us)
           /\ Below(d, us) # None => FetchCoins(us, d).coins # None
  BY ValuesAreDistinct DEF TipLayer, Below, FetchCoins, EntryIsSound, Unspent, NoEntry,
     CCoinsCacheEntry

\* An entry of the view stays sound when pcoinsTip fetches the record below it.
LEMMA FetchBelowView ==
    ASSUME NEW d, NEW us, NEW e, Layers(d, us, e)
    PROVE  Layers(d, FetchCoins(us, d), e)
  BY ValuesAreDistinct, FetchFromDisk DEF Layers, TipLayer, ViewLayer, Below, FetchCoins,
     EntryIsSound, Unspent, NoEntry, CCoinsCacheEntry

\* FetchCoins of the view, after pcoinsTip has fetched the record.
LEMMA FetchIntoView ==
    ASSUME NEW d, NEW us, NEW e, Layers(d, us, e), Below(d, us) # None => us.coins # None
    PROVE  /\ Layers(d, us, FetchCoins(e, Below(d, us)))
           /\ LET f == FetchCoins(e, Below(d, us))
              IN  (IF f.coins # None THEN f.coins ELSE Below(d, us)) =
                  (IF e.coins # None THEN e.coins ELSE Below(d, us))
  BY ValuesAreDistinct DEF Layers, TipLayer, ViewLayer, Below, FetchCoins,
     EntryIsSound, Unspent, NoEntry, CCoinsCacheEntry

\* ModifyCoins of the view, which has the entry already or has made pcoinsTip fetch
\* the record: the view then answers what the caller wrote.
LEMMA ModifyInView ==
    ASSUME NEW d, NEW us, NEW e, NEW c \in Coins \cup {Pruned}, Layers(d, us, e),
           e.coins # None \/ us.coins # None \/ Below(d, us) = None
    PROVE  /\ Layers(d, us, ModifyCoins(e, Below(d, us), c))
           /\ LET f == ModifyCoins(e, Below(d, us), c)
              IN  Unspent(IF f.coins # None THEN f.coins ELSE Below(d, us)) = Unspent(c)
  <1> DEFINE base == Below(d, us)
             fresh == IsFreshForModifier(e, base)
  <1>1. fresh \in BOOLEAN /\ (fresh <=> Unspent(base) = None) /\ (fresh \/ us.coins # None)
    <2>1. CASE e.coins # None
      <3>1. fresh = e.fresh
        BY <2>1 DEF IsFreshForModifier
      <3> QED  BY <2>1, <3>1 DEF Layers, ViewLayer, EntryIsSound, CCoinsCacheEntry
    <2>2. CASE e.coins = None
      <3>1. fresh \in BOOLEAN /\ (fresh <=> base \in {None, Pruned})
        BY <2>2 DEF IsFreshForModifier
      <3>2. (base \in {None, Pruned}) <=> Unspent(base) = None
        BY ValuesAreDistinct DEF Unspent
      <3>3. (base \in {None, Pruned}) \/ us.coins # None
        BY <2>2
      <3> QED  BY <3>1, <3>2, <3>3
    <2> QED  BY <2>1, <2>2
  <1>2. CASE fresh /\ c = Pruned
    <2>1. ModifyCoins(e, base, c) = NoEntry
      BY <1>2 DEF ModifyCoins
    <2> QED  BY <2>1, <1>1, <1>2, ValuesAreDistinct
             DEF Layers, ViewLayer, NoEntry, CCoinsCacheEntry, Unspent
  <1>3. CASE ~(fresh /\ c = Pruned)
    <2> DEFINE f == [coins |-> c, dirty |-> TRUE, fresh |-> fresh]
    <2>1. ModifyCoins(e, base, c) = f
      BY <1>3 DEF ModifyCoins
    <2>2. f \in CCoinsCacheEntry /\ f.coins = c /\ f.dirty = TRUE /\ f.fresh = fresh
      BY <1>1 DEF CCoinsCacheEntry
    <2> QED  BY <2>1, <2>2, <1>1, <1>3, ValuesAreDistinct
             DEF Layers, ViewLayer, EntryIsSound
  <1> QED  BY <1>2, <1>3

\* Flushing the view: pcoinsTip then answers what the view answered.
LEMMA FlushView ==
    ASSUME NEW d, NEW us, NEW e, Layers(d, us, e)
    PROVE  /\ TipLayer(d, BatchWrite(us, e))
           /\ Unspent(Below(d, BatchWrite(us, e))) =
              Unspent(IF e.coins # None THEN e.coins ELSE Below(d, us))
  <1> DEFINE new == BatchWrite(us, e)
  <1> USE ValuesAreDistinct
  <1>1. CASE ~e.dirty
    BY <1>1 DEF Layers, TipLayer, ViewLayer, Below, BatchWrite, EntryIsSound, Unspent, NoEntry
  <1>2. CASE e.dirty /\ us.coins = None
    BY <1>2 DEF Layers, TipLayer, ViewLayer, Below, BatchWrite, EntryIsSound, Unspent,
       NoEntry, CCoinsCacheEntry
  <1>3. CASE e.dirty /\ us.coins # None /\ us.fresh /\ e.coins = Pruned
    BY <1>3 DEF Layers, TipLayer, ViewLayer, Below, BatchWrite, EntryIsSound, Unspent,
       NoEntry, CCoinsCacheEntry
  <1>4. CASE e.dirty /\ us.coins # None /\ ~(us.fresh /\ e.coins = Pruned)
    <2>1. new = [us EXCEPT !.coins = e.coins, !.dirty = TRUE]
      BY <1>4 DEF BatchWrite
    <2>2. e.coins # None
      BY <1>4 DEF Layers, ViewLayer, NoEntry
    <2>3. new \in CCoinsCacheEntry /\ new.coins = e.coins /\ new.dirty = TRUE
          /\ new.fresh = us.fresh
      BY <2>1 DEF Layers, TipLayer, ViewLayer, CCoinsCacheEntry
    <2> QED  BY <2>2, <2>3, <1>4 DEF Layers, TipLayer, Below, EntryIsSound
  <1> QED  BY <1>1, <1>2, <1>3, <1>4

\* Flushing pcoinsTip: the disk then holds what pcoinsTip answered.
LEMMA FlushTip ==
    ASSUME NEW d, NEW us, TipLayer(d, us)
    PROVE  /\ BatchWriteCoins(d, us) \in Coins \cup {None}
           /\ BatchWriteCoins(d, us) = Unspent(Below(d, us))
  BY ValuesAreDistinct DEF TipLayer, Below, BatchWriteCoins,
     EntryIsSound, Unspent, NoEntry, CCoinsCacheEntry

-----------------------------------------------------------------------------
\* The inductive invariant: types, sound layers for every transaction, and
\* nothing left over of a view that has gone out of scope.
LayersAreSound == \A t \in Txid : Layers(db[t], tip[t], view[t])
NothingLeftOver == ~viewOpen => view = EmptyCache /\ viewBest = NullHash
IInv == TypeOK /\ LayersAreSound /\ NothingLeftOver

\* An empty cache is sound over anything.
LEMMA EmptyLayers ==
    /\ NoEntry \in CCoinsCacheEntry /\ NoEntry.coins = None
    /\ EmptyCache \in [Txid -> CCoinsCacheEntry]
    /\ \A t \in Txid : EmptyCache[t] = NoEntry
    /\ \A d \in Coins \cup {None} : TipLayer(d, NoEntry)
    /\ \A d, us : ViewLayer(d, us, NoEntry)
  <1>1. NoEntry \in CCoinsCacheEntry /\ NoEntry.coins = None
    BY DEF NoEntry, CCoinsCacheEntry
  <1> QED  BY <1>1 DEF EmptyCache, TipLayer, ViewLayer

\* A new process starts with empty caches, over whatever the disk holds.
LEMMA InitIInv == Init => IInv
  <1> SUFFICES ASSUME Init PROVE IInv
    OBVIOUS
  <1>1. TypeOK
    BY EmptyLayers DEF Init, TypeOK, Hash
  <1>2. LayersAreSound
    BY EmptyLayers DEF Init, LayersAreSound, Layers
  <1>3. NothingLeftOver
    BY DEF Init, NothingLeftOver
  <1> QED  BY <1>1, <1>2, <1>3 DEF IInv

\* Every operation on the views, and a restart, keeps the invariant.
LEMMA NextIInv == IInv /\ [Next]_vars => IInv'
  <1> SUFFICES ASSUME IInv, [Next]_vars PROVE IInv'
    OBVIOUS
  <1>0. /\ TypeOK /\ LayersAreSound /\ NothingLeftOver
        /\ \A t \in Txid : TipGetCoins(t) = Below(db[t], tip[t])
    BY DEF IInv, TipGetCoins, Below, InCache
  <1>1. CASE OpenView
    BY <1>0, <1>1 DEF OpenView, IInv, TypeOK, LayersAreSound, NothingLeftOver
  <1>2. ASSUME NEW t \in Txid, ViewFetch(t) PROVE IInv'
    <2> DEFINE us == FetchCoins(tip[t], db[t])
               newUs == IF InCache(view, t) THEN tip[t] ELSE us
               e == FetchCoins(view[t], Below(db[t], tip[t]))
    <2>1. /\ db' = db /\ viewOpen /\ viewOpen' = viewOpen
          /\ tip' = [tip EXCEPT ![t] = newUs]
          /\ view' = [view EXCEPT ![t] = e]
          /\ dbBest' = dbBest /\ tipBest' = tipBest /\ viewBest' = viewBest
      BY <1>0, <1>2 DEF ViewFetch, TypeOK
    <2>2. Layers(db[t], tip[t], view[t])
      BY <1>0 DEF LayersAreSound
    <2>3. Layers(db[t], newUs, e)
      <3>1. CASE InCache(view, t)
        BY <3>1, <2>2 DEF FetchCoins, InCache
      <3>2. CASE ~InCache(view, t)
        <4>1. Layers(db[t], us, view[t]) /\ TipLayer(db[t], tip[t])
          BY <2>2, FetchBelowView DEF Layers
        <4>2. Below(db[t], us) = Below(db[t], tip[t])
              /\ (Below(db[t], us) # None => us.coins # None)
          BY <4>1, FetchFromDisk
        <4> QED  BY <3>2, <4>1, <4>2, FetchIntoView
      <3> QED  BY <3>1, <3>2
    <2>4. newUs \in CCoinsCacheEntry /\ e \in CCoinsCacheEntry
      BY <2>3 DEF Layers, TipLayer, ViewLayer
    <2> HIDE DEF newUs, e
    <2> QED  BY <1>0, <2>1, <2>3, <2>4 DEF IInv, TypeOK, LayersAreSound, NothingLeftOver
  <1>3. ASSUME NEW t \in Txid, NEW c \in Coins \cup {Pruned}, ViewModify(t, c) PROVE IInv'
    <2> DEFINE us == FetchCoins(tip[t], db[t])
               newUs == IF InCache(view, t) THEN tip[t] ELSE us
               e == ModifyCoins(view[t], Below(db[t], tip[t]), c)
    <2>1. /\ db' = db /\ viewOpen /\ viewOpen' = viewOpen
          /\ tip' = [tip EXCEPT ![t] = newUs]
          /\ view' = [view EXCEPT ![t] = e]
          /\ dbBest' = dbBest /\ tipBest' = tipBest /\ viewBest' = viewBest
      BY <1>0, <1>3 DEF ViewModify, TypeOK
    <2>2. Layers(db[t], tip[t], view[t])
      BY <1>0 DEF LayersAreSound
    <2>3. Layers(db[t], newUs, e)
      <3>1. CASE InCache(view, t)
        BY <3>1, <2>2, ModifyInView DEF InCache
      <3>2. CASE ~InCache(view, t)
        <4>1. Layers(db[t], us, view[t]) /\ TipLayer(db[t], tip[t])
          BY <2>2, FetchBelowView DEF Layers
        <4>2. Below(db[t], us) = Below(db[t], tip[t])
              /\ (Below(db[t], us) # None => us.coins # None)
          BY <4>1, FetchFromDisk
        <4> QED  BY <3>2, <4>1, <4>2, ModifyInView
      <3> QED  BY <3>1, <3>2
    <2>4. newUs \in CCoinsCacheEntry /\ e \in CCoinsCacheEntry
      BY <2>3 DEF Layers, TipLayer, ViewLayer
    <2> HIDE DEF newUs, e
    <2> QED  BY <1>0, <2>1, <2>3, <2>4 DEF IInv, TypeOK, LayersAreSound, NothingLeftOver
  <1>4. CASE ViewFetchBestBlock
    BY <1>0, <1>4 DEF ViewFetchBestBlock, ViewGetBestBlock, TipGetBestBlock, IInv, TypeOK,
       LayersAreSound, NothingLeftOver
  <1>5. ASSUME NEW h \in BlockHash, ViewSetBestBlock(h) PROVE IInv'
    BY <1>0, <1>5 DEF ViewSetBestBlock, IInv, TypeOK, Hash, LayersAreSound, NothingLeftOver
  <1>6. CASE ViewFlush
    <2>1. \A t \in Txid : TipLayer(db[t], BatchWrite(tip[t], view[t]))
      BY <1>0, FlushView DEF LayersAreSound
    <2>2. \A t \in Txid : BatchWrite(tip[t], view[t]) \in CCoinsCacheEntry
      BY <2>1 DEF TipLayer
    <2>3. TypeOK'
      BY <1>0, <1>6, <2>2, EmptyLayers DEF ViewFlush, TypeOK
    <2>4. LayersAreSound'
      BY <1>6, <2>1, EmptyLayers DEF ViewFlush, LayersAreSound, Layers
    <2> QED  BY <1>0, <1>6, <2>3, <2>4 DEF ViewFlush, IInv, NothingLeftOver
  <1>7. CASE CloseView
    <2>1. LayersAreSound'
      BY <1>0, <1>7, EmptyLayers DEF CloseView, LayersAreSound, Layers
    <2> QED  BY <1>0, <1>7, <2>1, EmptyLayers
             DEF CloseView, IInv, TypeOK, Hash, NothingLeftOver
  <1>8. ASSUME NEW t \in Txid, TipFetch(t) PROVE IInv'
    <2> DEFINE us == FetchCoins(tip[t], db[t])
    <2>1. Layers(db[t], us, view[t])
      BY <1>0, FetchBelowView DEF LayersAreSound
    <2>2. us \in CCoinsCacheEntry
      BY <2>1 DEF Layers, TipLayer
    <2>3. tip' = [tip EXCEPT ![t] = us]
      BY <1>8 DEF TipFetch
    <2> HIDE DEF us
    <2> QED  BY <1>0, <1>8, <2>1, <2>2, <2>3
             DEF TipFetch, IInv, TypeOK, LayersAreSound, NothingLeftOver
  <1>9. CASE TipFetchBestBlock
    BY <1>0, <1>9 DEF TipFetchBestBlock, TipGetBestBlock, IInv, TypeOK,
       LayersAreSound, NothingLeftOver
  <1>10. CASE TipFlush
    <2>1. \A t \in Txid : BatchWriteCoins(db[t], tip[t]) \in Coins \cup {None}
      BY <1>0, FlushTip DEF LayersAreSound, Layers
    <2>2. TypeOK'
      BY <1>0, <1>10, <2>1, EmptyLayers DEF TipFlush, TypeOK
    <2>3. LayersAreSound'
      BY <1>10, <2>1, EmptyLayers DEF TipFlush, LayersAreSound, Layers
    <2> QED  BY <1>0, <1>10, <2>2, <2>3 DEF TipFlush, IInv, NothingLeftOver
  <1>11. CASE Crash
    <2>1. LayersAreSound'
      BY <1>0, <1>11, EmptyLayers DEF Crash, TypeOK, LayersAreSound, Layers
    <2> QED  BY <1>0, <1>11, <2>1, EmptyLayers DEF Crash, IInv, TypeOK, Hash, NothingLeftOver
  <1>12. CASE UNCHANGED vars
    BY <1>0, <1>12 DEF vars, IInv, TypeOK, LayersAreSound, NothingLeftOver
  <1> QED  BY <1>1, <1>2, <1>3, <1>4, <1>5, <1>6, <1>7, <1>8, <1>9, <1>10, <1>11, <1>12
           DEF Next

\* The invariant implies the properties that TLC checks.
LEMMA IInvImplies == IInv => TypeOK /\ FlagsAreSound /\ BatchWriteAssertion
  <1> SUFFICES ASSUME IInv PROVE FlagsAreSound /\ BatchWriteAssertion
    BY DEF IInv
  <1>1. ASSUME NEW t \in Txid
        PROVE  /\ Layers(db[t], tip[t], view[t])
               /\ TipGetCoins(t) = Below(db[t], tip[t])
    BY DEF IInv, LayersAreSound, TipGetCoins, Below, InCache
  <1>2. FlagsAreSound
    BY <1>1 DEF FlagsAreSound, Layers, TipLayer, ViewLayer, InCache
  <1>3. BatchWriteAssertion
    BY <1>1, ValuesAreDistinct DEF BatchWriteAssertion, Layers, TipLayer, ViewLayer, InCache,
       EntryIsSound, Below, Unspent, NoEntry
  <1> QED  BY <1>2, <1>3

\* In every reachable state the invariant holds.
THEOREM Invariance == Spec => []IInv
  BY InitIInv, NextIInv, PTL DEF Spec

\* The caches keep their types; the database never holds a pruned record.
THEOREM TypeCorrect == Spec => []TypeOK
  BY Invariance, IInvImplies, PTL

\* DIRTY and FRESH mean what coins.h says of them, in every reachable state.
THEOREM FlagsAlwaysSound == Spec => []FlagsAreSound
  BY Invariance, IInvImplies, PTL

\* The assertion in CCoinsViewCache::BatchWrite never fails, and no flush drops
\* the news that the last output of a transaction was spent.
THEOREM BatchWriteNeverAsserts == Spec => []BatchWriteAssertion
  BY Invariance, IInvImplies, PTL

-----------------------------------------------------------------------------
(* The refinement.                                                         *)

Answer(d, us, e) == IF e.coins # None THEN e.coins ELSE Below(d, us)

Committed == [t \in Txid |-> Unspent(Below(db[t], tip[t]))]
Staged == [t \in Txid |-> Unspent(Answer(db[t], tip[t], view[t]))]

\* What ModifyCoins leaves in the view is what the view answers afterwards.
LEMMA ModifiedAnswer ==
    ASSUME NEW d, NEW us, NEW e, NEW c \in Coins \cup {Pruned}, Layers(d, us, e),
           e.coins # None \/ us.coins # None \/ Below(d, us) = None
    PROVE  Unspent(Answer(d, us, ModifyCoins(e, Below(d, us), c))) = Unspent(c)
  <1> DEFINE f == ModifyCoins(e, Below(d, us), c)
  <1>1. Unspent(IF f.coins # None THEN f.coins ELSE Below(d, us)) = Unspent(c)
    BY ModifyInView
  <1> QED  BY <1>1 DEF Answer

\* The mapping, in terms of the three layers of each transaction.
LEMMA Mapping ==
    /\ [t \in Txid |-> Unspent(TipGetCoins(t))] = Committed
    /\ [t \in Txid |-> Unspent(ViewGetCoins(t))] = Staged
  BY DEF TipGetCoins, ViewGetCoins, InCache, Below, Answer, Committed, Staged

\* The layers are sets of unspent outputs.
LEMMA UtxoSets ==
    ASSUME IInv
    PROVE  /\ db \in [Txid -> Coins \cup {None}]
           /\ Committed \in [Txid -> Coins \cup {None}]
           /\ Staged \in [Txid -> Coins \cup {None}]
  BY DEF IInv, TypeOK, Committed, Staged, Answer, Below, Unspent, CCoinsCacheEntry

\* With an empty view, the staged set is the committed one.
LEMMA EmptyView == view = EmptyCache => Staged = Committed
  BY EmptyLayers DEF Staged, Committed, Answer

\* A new process starts in an initial state of the store.
LEMMA InitRefines == Init => Store!Init
  <1> SUFFICES ASSUME Init PROVE Store!Init
    OBVIOUS
  <1>1. Committed = db
    BY EmptyLayers, ValuesAreDistinct DEF Init, Committed, Below, Unspent
  <1>2. Staged = db
    BY <1>1, EmptyView DEF Init
  <1>3. TipGetBestBlock = dbBest /\ ViewGetBestBlock = dbBest
    BY DEF Init, TipGetBestBlock, ViewGetBestBlock
  <1> QED  BY <1>1, <1>2, <1>3, Mapping DEF Init, Store!Init, Store!UtxoSet, Store!Hash, Hash

\* Every step of the caches is a step of the store, or leaves it unchanged.
LEMMA NextRefines == IInv /\ IInv' /\ [Next]_vars => [Store!Next]_(Store!vars)
  <1> SUFFICES ASSUME IInv, IInv', [Next]_vars PROVE [Store!Next]_(Store!vars)
    OBVIOUS
  <1> DEFINE StoreVars == <<db, dbBest, Committed, TipGetBestBlock, Staged,
                            ViewGetBestBlock, viewOpen>>
  <1>0. /\ TypeOK /\ LayersAreSound /\ NothingLeftOver
        /\ \A t \in Txid : TipGetCoins(t) = Below(db[t], tip[t])
        /\ \A t \in Txid : Layers(db[t], tip[t], view[t])
    BY DEF IInv, TipGetCoins, Below, InCache, LayersAreSound
  <1>map. /\ [t \in Txid |-> Unspent(TipGetCoins(t))]' = Committed'
          /\ [t \in Txid |-> Unspent(ViewGetCoins(t))]' = Staged'
    BY DEF TipGetCoins, ViewGetCoins, InCache, Below, Answer, Committed, Staged
  <1>empty. view' = EmptyCache => Staged' = Committed'
    BY EmptyLayers DEF Staged, Committed, Answer
  <1>stutter. UNCHANGED StoreVars => UNCHANGED Store!vars
    BY Mapping, <1>map DEF Store!vars
  <1>1. CASE OpenView
    <2>1. Store!Begin
      BY <1>1 DEF OpenView, Store!Begin, TipGetCoins, ViewGetCoins, InCache,
         TipGetBestBlock, ViewGetBestBlock
    <2> QED  BY <2>1 DEF Store!Next
  <1>2. ASSUME NEW t \in Txid, ViewFetch(t) PROVE UNCHANGED StoreVars
    <2> DEFINE us == FetchCoins(tip[t], db[t])
               newUs == IF InCache(view, t) THEN tip[t] ELSE us
               e == FetchCoins(view[t], Below(db[t], tip[t]))
    <2>1. tip' = [tip EXCEPT ![t] = newUs] /\ view' = [view EXCEPT ![t] = e] /\ db' = db
      BY <1>0, <1>2 DEF ViewFetch, TypeOK
    <2>2. Below(db[t], newUs) = Below(db[t], tip[t])
      BY <1>0, FetchFromDisk DEF Layers
    <2>3. Answer(db[t], newUs, e) = Answer(db[t], tip[t], view[t])
      BY <2>2 DEF Answer, FetchCoins
    <2> HIDE DEF newUs, e
    <2>4. Committed' = Committed /\ Staged' = Staged
      BY <1>0, <2>1, <2>2, <2>3 DEF Committed, Staged, TypeOK
    <2> QED  BY <1>2, <2>4 DEF ViewFetch, TipGetBestBlock, ViewGetBestBlock
  <1>3. ASSUME NEW t \in Txid, NEW c \in Coins \cup {Pruned}, ViewModify(t, c)
        PROVE  Store!Stage(t, Unspent(c)) /\ Unspent(c) \in Coins \cup {None}
    <2> DEFINE us == FetchCoins(tip[t], db[t])
               newUs == IF InCache(view, t) THEN tip[t] ELSE us
               e == ModifyCoins(view[t], Below(db[t], tip[t]), c)
    <2>1. tip' = [tip EXCEPT ![t] = newUs] /\ view' = [view EXCEPT ![t] = e] /\ db' = db
      BY <1>0, <1>3 DEF ViewModify, TypeOK
    <2>2. /\ Below(db[t], us) = Below(db[t], tip[t])
          /\ us.coins # None \/ Below(db[t], us) = None
          /\ Layers(db[t], us, view[t])
      BY <1>0, FetchFromDisk, FetchBelowView DEF Layers
    <2>3. Below(db[t], newUs) = Below(db[t], tip[t])
      BY <2>2
    <2>4. Unspent(Answer(db[t], newUs, e)) = Unspent(c)
      <3>1. CASE InCache(view, t)
        <4>1. newUs = tip[t] /\ view[t].coins # None /\ Layers(db[t], tip[t], view[t])
          BY <1>0, <3>1 DEF InCache
        <4>2. Unspent(Answer(db[t], tip[t], e)) = Unspent(c)
          BY <4>1, ModifiedAnswer
        <4> QED  BY <4>1, <4>2
      <3>2. CASE ~InCache(view, t)
        <4>1. e = ModifyCoins(view[t], Below(db[t], us), c) /\ newUs = us
          BY <2>2, <3>2
        <4> HIDE DEF us, newUs, e
        <4>2. Unspent(Answer(db[t], us, e)) = Unspent(c)
          <5>1. Unspent(Answer(db[t], us, ModifyCoins(view[t], Below(db[t], us), c))) = Unspent(c)
            BY <2>2, ModifiedAnswer
          <5> QED  BY <4>1, <5>1, Zenon
        <4> QED  BY <4>1, <4>2
      <3> QED  BY <3>1, <3>2
    <2> HIDE DEF newUs, e
    <2>5. Committed' = Committed
      BY <1>0, <2>1, <2>3 DEF Committed, TypeOK
    <2>6. Staged' = [Staged EXCEPT ![t] = Unspent(c)]
      BY <1>0, <2>1, <2>3, <2>4 DEF Staged, TypeOK
    <2>7. TipGetBestBlock' = TipGetBestBlock /\ ViewGetBestBlock' = ViewGetBestBlock
      BY <1>3 DEF ViewModify, TipGetBestBlock, ViewGetBestBlock
    <2>8. Store!Stage(t, Unspent(c))
      BY <1>3, <2>5, <2>6, <2>7, Mapping, <1>map DEF ViewModify, Store!Stage
    <2> QED  BY <2>8 DEF Unspent
  <1>4. CASE ViewFetchBestBlock
    <2>1. Committed' = Committed /\ Staged' = Staged
      BY <1>4 DEF ViewFetchBestBlock, Committed, Staged
    <2>2. TipGetBestBlock' = TipGetBestBlock /\ ViewGetBestBlock' = ViewGetBestBlock
      BY <1>4 DEF ViewFetchBestBlock, TipGetBestBlock, ViewGetBestBlock
    <2> QED  BY <1>4, <2>1, <2>2, <1>stutter DEF ViewFetchBestBlock
  <1>5. ASSUME NEW h \in BlockHash, ViewSetBestBlock(h) PROVE Store!StageBest(h)
    BY <1>5, ValuesAreDistinct DEF ViewSetBestBlock, Store!StageBest, TipGetCoins, ViewGetCoins,
       InCache, TipGetBestBlock, ViewGetBestBlock
  <1>6. CASE ViewFlush
    <2>1. \A t \in Txid : Unspent(Below(db[t], BatchWrite(tip[t], view[t])))
                          = Unspent(Answer(db[t], tip[t], view[t]))
      BY <1>0, FlushView DEF Answer
    <2>2. Committed' = Staged
      BY <1>6, <2>1 DEF ViewFlush, Committed, Staged
    <2>3. Staged' = Staged
      BY <1>6, <2>2, <1>empty DEF ViewFlush, EmptyCache
    <2>4. TipGetBestBlock' = ViewGetBestBlock /\ ViewGetBestBlock' = ViewGetBestBlock
      BY <1>6 DEF ViewFlush, TipGetBestBlock, ViewGetBestBlock
    <2>5. Store!Commit
      BY <1>6, <2>2, <2>3, <2>4, Mapping, <1>map DEF ViewFlush, Store!Commit
    <2> QED  BY <2>5 DEF Store!Next
  <1>7. CASE CloseView
    <2>1. Committed' = Committed /\ TipGetBestBlock' = TipGetBestBlock
      BY <1>7 DEF CloseView, Committed, TipGetBestBlock
    <2>2. Staged' = Committed
      BY <1>7, <2>1, <1>empty DEF CloseView, EmptyCache
    <2>3. ViewGetBestBlock' = TipGetBestBlock
      BY <1>7, <2>1 DEF CloseView, ViewGetBestBlock
    <2>4. Store!Discard
      BY <1>7, <2>1, <2>2, <2>3, Mapping, <1>map DEF CloseView, Store!Discard
    <2> QED  BY <2>4 DEF Store!Next
  <1>8. ASSUME NEW t \in Txid, TipFetch(t) PROVE UNCHANGED StoreVars
    <2> DEFINE us == FetchCoins(tip[t], db[t])
    <2>1. tip' = [tip EXCEPT ![t] = us] /\ view' = view /\ db' = db
      BY <1>8 DEF TipFetch
    <2>2. Below(db[t], us) = Below(db[t], tip[t])
      BY <1>0, FetchFromDisk DEF Layers
    <2> HIDE DEF us
    <2>3. Committed' = Committed /\ Staged' = Staged
      BY <1>0, <2>1, <2>2 DEF Committed, Staged, Answer, TypeOK
    <2> QED  BY <1>8, <2>3 DEF TipFetch, TipGetBestBlock, ViewGetBestBlock
  <1>9. CASE TipFetchBestBlock
    <2>1. Committed' = Committed /\ Staged' = Staged
      BY <1>9 DEF TipFetchBestBlock, Committed, Staged
    <2>2. TipGetBestBlock' = TipGetBestBlock /\ ViewGetBestBlock' = ViewGetBestBlock
      BY <1>9 DEF TipFetchBestBlock, TipGetBestBlock, ViewGetBestBlock
    <2> QED  BY <1>9, <2>1, <2>2, <1>stutter DEF TipFetchBestBlock
  <1>10. CASE TipFlush
    <2>1. \A t \in Txid : BatchWriteCoins(db[t], tip[t]) = Unspent(Below(db[t], tip[t]))
      BY <1>0, FlushTip DEF Layers
    <2>2. db' = Committed
      BY <1>10, <2>1 DEF TipFlush, Committed
    <2>3. Committed' = Committed
      <3>1. \A t \in Txid : Committed[t] \in Coins \cup {None}
        BY UtxoSets
      <3>2. \A t \in Txid : Below(db'[t], tip'[t]) = Committed[t]
        BY <1>10, <2>2, EmptyLayers DEF TipFlush, Below
      <3> QED  BY <3>1, <3>2, ValuesAreDistinct DEF Committed, Unspent
    <2>4. Staged' = Staged
      BY <1>10, <2>3, EmptyView, <1>empty DEF TipFlush, EmptyCache
    <2>5. dbBest' = TipGetBestBlock /\ TipGetBestBlock' = TipGetBestBlock
          /\ ViewGetBestBlock' = ViewGetBestBlock
      BY <1>10 DEF TipFlush, TipGetBestBlock, ViewGetBestBlock
    <2>6. Store!Persist
      BY <1>10, <2>2, <2>3, <2>4, <2>5, Mapping, <1>map DEF TipFlush, Store!Persist
    <2> QED  BY <2>6 DEF Store!Next
  <1>11. CASE Crash
    <2>1. Committed' = db
      BY <1>0, <1>11, EmptyLayers, ValuesAreDistinct
         DEF Crash, Committed, Below, Unspent, TypeOK
    <2>2. Staged' = db
      BY <1>11, <2>1, <1>empty DEF Crash
    <2>3. TipGetBestBlock' = dbBest /\ ViewGetBestBlock' = dbBest
      BY <1>11 DEF Crash, TipGetBestBlock, ViewGetBestBlock
    <2>4. Store!Restart
      BY <1>11, <2>1, <2>2, <2>3, Mapping, <1>map DEF Crash, Store!Restart
    <2> QED  BY <2>4 DEF Store!Next
  <1>12. CASE UNCHANGED vars
    BY <1>12, <1>stutter DEF vars, Committed, Staged, TipGetBestBlock, ViewGetBestBlock
  <1> QED  BY <1>1, <1>2, <1>3, <1>4, <1>5, <1>6, <1>7, <1>8, <1>9, <1>10, <1>11, <1>12,
              <1>stutter
           DEF Next, Store!Next

\* The layered caches implement the store: one UTXO set, changed by whole blocks.
THEOREM Refinement == Spec => ImplementsStore
  <1>1. Init => Store!Init
    BY InitRefines
  <1>2. IInv /\ IInv' /\ [Next]_vars => [Store!Next]_(Store!vars)
    BY NextRefines
  <1> QED  BY <1>1, <1>2, Invariance, PTL DEF Spec, ImplementsStore, Store!Spec
=============================================================================
