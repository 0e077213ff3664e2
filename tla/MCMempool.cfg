SPECIFICATION MSpec
CONSTANTS
    Block <- MCBlock
    NoBlock = "none"
    Height <- MCHeight
    Parent <- MCParent
    Chains <- MCChains
    Tx = {"t", "u"}
    Txs <- MCTxs
    RedoDepth = 1
    MaxFaults = 1
    Parents <- MCParents
    DoneLimit = 1
INVARIANTS
    RowsComplete
    HeightCoherentUntilReorg
    KeysThereForMempool
PROPERTIES
    EventuallyIndexed
