CONSTANTS
    Txid = {t1, t2}
    Coins = {c1, c2}
    BlockHash = {h1, h2}
    Pruned = Pruned
    None = None
    NullHash = NullHash
SPECIFICATION Spec
INVARIANT BatchWriteAssertion
PROPERTY ImplementsStore
