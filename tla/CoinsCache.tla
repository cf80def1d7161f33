----------------------------- MODULE CoinsCache -----------------------------
(***************************************************************************)
(* The three coins views of a running node (coins.cpp, txdb.cpp):          *)
(*                                                                         *)
(*   view   the CCoinsViewCache a block is connected to or disconnected    *)
(*          from (a local of ConnectTip, DisconnectTip, LoadBlockIndexDB)  *)
(*   tip    pcoinsTip, the CCoinsViewCache of the active chain             *)
(*   db     pcoinsdbview, the CCoinsViewDB on disk                         *)
(*                                                                         *)
(* A cache maps a txid to a CCoinsCacheEntry with the flags DIRTY and      *)
(* FRESH.  The module models every operation that fills, changes, flushes  *)
(* or drops an entry.  All of them run under cs_main, so each is one step. *)
(***************************************************************************)

CONSTANTS
    Txid,       \* transaction ids
    Coins,      \* contents of a CCoins object with an unspent output
    Pruned,     \* a CCoins object without unspent output
    None,       \* no CCoins object at all
    BlockHash,  \* hashes of blocks
    NullHash    \* uint256(0)

ASSUME ValuesAreDistinct ==
    /\ Pruned \notin Coins /\ None \notin Coins /\ Pruned # None
    /\ NullHash \notin BlockHash

VARIABLES
    db,       \* db[t]: the CCoins stored for t, None when there is no record
    dbBest,   \* the record DB_BESTBLOCKHASH
    tip,      \* pcoinsTip->cacheCoins
    tipBest,  \* pcoinsTip->hashBlock
    view,     \* cacheCoins of the local view
    viewBest, \* hashBlock of the local view
    viewOpen  \* whether a local view exists

vars == <<db, dbBest, tip, tipBest, view, viewBest, viewOpen>>

Hash == BlockHash \cup {NullHash}

CCoinsCacheEntry ==
    [coins : Coins \cup {Pruned, None}, dirty : BOOLEAN, fresh : BOOLEAN]

\* A txid that a cache has no entry for.
NoEntry == [coins |-> None, dirty |-> FALSE, fresh |-> FALSE]

EmptyCache == [t \in Txid |-> NoEntry]

InCache(cache, t) == cache[t].coins # None

TypeOK ==
    /\ db \in [Txid -> Coins \cup {None}]
    /\ tip \in [Txid -> CCoinsCacheEntry]
    /\ view \in [Txid -> CCoinsCacheEntry]
    /\ dbBest \in Hash /\ tipBest \in Hash /\ viewBest \in Hash
    /\ viewOpen \in BOOLEAN

-----------------------------------------------------------------------------
(* What an operation does to the entry of one transaction, given what the  *)
(* base view answers for it.                                               *)

\* FetchCoins: an entry found in the base view is copied into the cache, and is
\* FRESH when the base view only has an empty one.
FetchCoins(e, base) ==
    IF e.coins # None \/ base = None THEN e
    ELSE [coins |-> base, dirty |-> FALSE, fresh |-> base = Pruned]

\* Mutant: an entry that the base view does not have is not marked FRESH.
IsFreshForModifier_NotMissing(e, base) ==
    IF e.coins # None THEN e.fresh ELSE base = Pruned

\* The flag FRESH of the entry that ModifyCoins hands out: that of the cached
\* entry, or of a new one that the base view has no unspent output for.
IsFreshForModifier(e, base) ==
    IF e.coins # None THEN e.fresh ELSE base \in {None, Pruned}

\* ModifyCoins, the caller's change of the coins to c, and ~CCoinsModifier,
\* which drops an entry that is FRESH and pruned.
ModifyCoins(e, base, c) ==
    IF IsFreshForModifier(e, base) /\ c = Pruned THEN NoEntry
    ELSE [coins |-> c, dirty |-> TRUE, fresh |-> IsFreshForModifier(e, base)]

\* Mutant: a pruned entry is erased from the parent whether it is FRESH or not.
BatchWrite_EraseAlways(us, e) ==
    IF ~e.dirty THEN us
    ELSE IF us.coins = None
         THEN IF e.coins = Pruned THEN us
              ELSE [coins |-> e.coins, dirty |-> TRUE, fresh |-> TRUE]
    ELSE IF e.coins = Pruned THEN NoEntry
    ELSE [us EXCEPT !.coins = e.coins, !.dirty = TRUE]

\* CCoinsViewCache::BatchWrite of the child's entry e over the entry us.
BatchWrite(us, e) ==
    IF ~e.dirty THEN us
    ELSE IF us.coins = None
         THEN IF e.coins = Pruned THEN us
              ELSE [coins |-> e.coins, dirty |-> TRUE, fresh |-> TRUE]
    ELSE IF us.fresh /\ e.coins = Pruned THEN NoEntry
    ELSE [us EXCEPT !.coins = e.coins, !.dirty = TRUE]

\* CCoinsViewDB::BatchWrite of the entry e over a record of the database: a dirty
\* entry is written, or erased when it is pruned.
BatchWriteCoins(record, e) ==
    IF ~e.dirty THEN record ELSE IF e.coins = Pruned THEN None ELSE e.coins

\* GetCoins of the two caches.
TipGetCoins(t) == IF InCache(tip, t) THEN tip[t].coins ELSE db[t]
ViewGetCoins(t) == IF InCache(view, t) THEN view[t].coins ELSE TipGetCoins(t)

\* GetBestBlock of the two caches.
TipGetBestBlock == IF tipBest # NullHash THEN tipBest ELSE dbBest
ViewGetBestBlock == IF viewBest # NullHash THEN viewBest ELSE TipGetBestBlock

-----------------------------------------------------------------------------
Init ==
    /\ db \in [Txid -> Coins \cup {None}]
    /\ dbBest \in Hash
    /\ tip = EmptyCache /\ tipBest = NullHash
    /\ view = EmptyCache /\ viewBest = NullHash
    /\ viewOpen = FALSE

\* CCoinsViewCache view(pcoinsTip).
OpenView ==
    /\ ~viewOpen
    /\ viewOpen' = TRUE
    /\ UNCHANGED <<db, dbBest, tip, tipBest, view, viewBest>>

\* GetCoins, AccessCoins, HaveCoins and HaveInputs of the view.
ViewFetch(t) ==
    /\ viewOpen
    /\ view' = [view EXCEPT ![t] = FetchCoins(@, TipGetCoins(t))]
    /\ tip' = IF InCache(view, t) THEN tip
               ELSE [tip EXCEPT ![t] = FetchCoins(@, db[t])]
    /\ UNCHANGED <<db, dbBest, tipBest, viewBest, viewOpen>>

\* A transaction of the block spends, adds, removes or restores outputs of t.
ViewModify(t, c) ==
    /\ viewOpen
    /\ view' = [view EXCEPT ![t] = ModifyCoins(@, TipGetCoins(t), c)]
    /\ tip' = IF InCache(view, t) THEN tip
               ELSE [tip EXCEPT ![t] = FetchCoins(@, db[t])]
    /\ UNCHANGED <<db, dbBest, tipBest, viewBest, viewOpen>>

\* GetBestBlock of the view remembers the answer in both caches.
ViewFetchBestBlock ==
    /\ viewOpen
    /\ viewBest' = ViewGetBestBlock
    /\ tipBest' = IF viewBest # NullHash THEN tipBest ELSE TipGetBestBlock
    /\ UNCHANGED <<db, dbBest, tip, view, viewOpen>>

\* SetBestBlock, at the end of ConnectBlock and DisconnectBlock.
ViewSetBestBlock(h) ==
    /\ viewOpen
    /\ viewBest' = h
    /\ UNCHANGED <<db, dbBest, tip, tipBest, view, viewOpen>>

\* Flush of the view.  Its callers have set the best block before.
ViewFlush ==
    /\ viewOpen /\ viewBest # NullHash
    /\ tip' = [t \in Txid |-> BatchWrite(tip[t], view[t])]
    /\ tipBest' = viewBest
    /\ view' = EmptyCache
    /\ UNCHANGED <<db, dbBest, viewBest, viewOpen>>

\* The view goes out of scope.
CloseView ==
    /\ viewOpen
    /\ viewOpen' = FALSE
    /\ view' = EmptyCache /\ viewBest' = NullHash
    /\ UNCHANGED <<db, dbBest, tip, tipBest>>

\* Readers of pcoinsTip itself (memory pool, RPC).
TipFetch(t) ==
    /\ tip' = [tip EXCEPT ![t] = FetchCoins(@, db[t])]
    /\ UNCHANGED <<db, dbBest, tipBest, view, viewBest, viewOpen>>

TipFetchBestBlock ==
    /\ tipBest' = TipGetBestBlock
    /\ UNCHANGED <<db, dbBest, tip, view, viewBest, viewOpen>>

\* Flush of pcoinsTip by FlushStateToDisk.  ConnectTip gets there with its
\* view flushed, every other caller without one.
TipFlush ==
    /\ view = EmptyCache
    /\ db' = [t \in Txid |-> BatchWriteCoins(db[t], tip[t])]
    /\ dbBest' = IF tipBest = NullHash THEN dbBest ELSE tipBest
    /\ tip' = EmptyCache
    /\ UNCHANGED <<tipBest, view, viewBest, viewOpen>>

\* The process dies and starts again: what is only in memory is gone.
Crash ==
    /\ tip' = EmptyCache /\ tipBest' = NullHash
    /\ view' = EmptyCache /\ viewBest' = NullHash
    /\ viewOpen' = FALSE
    /\ UNCHANGED <<db, dbBest>>

Next ==
    \/ OpenView \/ ViewFetchBestBlock \/ ViewFlush \/ CloseView
    \/ \E t \in Txid : ViewFetch(t) \/ TipFetch(t)
    \/ \E t \in Txid, c \in Coins \cup {Pruned} : ViewModify(t, c)
    \/ \E h \in BlockHash : ViewSetBestBlock(h)
    \/ TipFetchBestBlock \/ TipFlush \/ Crash

Spec == Init /\ [][Next]_vars

-----------------------------------------------------------------------------
(* Properties                                                              *)

\* Without unspent outputs there is no difference between an empty CCoins object
\* and none.
Unspent(c) == IF c = Pruned THEN None ELSE c

\* The flags of an entry mean what coins.h says of them, over an answer "base" of
\* the base view: an entry that is not DIRTY has the coins of the base view, and
\* an entry is FRESH exactly if the base view has no unspent output for it.
EntryIsSound(e, base) ==
    /\ ~e.dirty => Unspent(e.coins) = Unspent(base)
    /\ e.fresh <=> Unspent(base) = None

\* Every entry of the two caches is sound; the view's modified entries do not
\* include one that ~CCoinsModifier should have dropped; and an entry of the view
\* that is not FRESH has an entry below it in pcoinsTip.
FlagsAreSound ==
    \A t \in Txid :
        /\ InCache(tip, t) => EntryIsSound(tip[t], db[t])
        /\ InCache(view, t) =>
               /\ EntryIsSound(view[t], TipGetCoins(t))
               /\ view[t].dirty /\ view[t].coins = Pruned => ~view[t].fresh
               /\ view[t].fresh \/ InCache(tip, t)

\* The assertion of CCoinsViewCache::BatchWrite: a modified entry that pcoinsTip
\* has no entry for is FRESH, and so the flush may mark it FRESH in pcoinsTip.
\* And no flush forgets that the last output of a transaction was spent: a
\* pruned entry of the view that pcoinsTip ignores is not on disk either.
BatchWriteAssertion ==
    \A t \in Txid :
        view[t].dirty /\ ~InCache(tip, t) =>
            IF view[t].coins = Pruned THEN db[t] = None ELSE view[t].fresh

Store == INSTANCE UtxoStore WITH
    durable <- db, durableBest <- dbBest,
    committed <- [t \in Txid |-> Unspent(TipGetCoins(t))], committedBest <- TipGetBestBlock,
    staged <- [t \in Txid |-> Unspent(ViewGetCoins(t))], stagedBest <- ViewGetBestBlock,
    open <- viewOpen

\* The layers are one UTXO set with private, atomic transactions: reading never
\* changes what any layer answers, a flush moves exactly the changes of one layer
\* into the next, and a restart finds the last set flushed to disk with its block.
ImplementsStore == Store!Spec
=============================================================================
