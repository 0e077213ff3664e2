SPECIFICATION Spec
CONSTANTS
    Block <- MCBlock
    NoBlock = "none"
    Height <- MCHeight
    Parent <- MCParent
    Chains <- MCChains
    Tx = {"x"}
    Txs <- MCTxs
    RedoDepth = 1
    MaxFaults = 1
INVARIANT
    InitialSyncIsBulk
