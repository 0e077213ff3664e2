SPECIFICATION USpec
CONSTANTS
    Block <- MCBlock
    NoBlock = "none"
    Height <- MCHeight
    Parent <- MCParent
    Chains <- MCChains
    Tx = {"x"}
    Txs <- MCTxs
    RedoDepth = 1
    MaxFaults = 1
    Out = {"o", "p", "q"}
    Creates <- MCCreates
    Spends <- MCSpends
INVARIANTS
    EveryInputFound
    CacheIsUnspent
    UnspentIsReachable
