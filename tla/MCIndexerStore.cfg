SPECIFICATION Spec
CONSTANTS
    Block <- MCBlock
    NoBlock = "none"
    Height <- MCHeight
    Parent <- MCParent
    Chains <- MCChains
    Tx = {"x"}
    Txs <- MCTxs
    RedoDepth = 1
    MaxFaults = 2
INVARIANTS
    TypeOK
    StartupAssertion
    AcceptedIsChain
    PendingReorgLinked
    AcceptsStream
    AssertionsHold
    EventsReplay
    SchemaIsRecorded
PROPERTY
    IndexSpec
