SPECIFICATION FSpec
CONSTANTS
    Block <- MCBlock
    NoBlock = "none"
    Height <- MCHeight
    Parent <- MCParent
    Chains <- MCChains
    ThreadNum = 2
    SlotsPerWorker = 1
    WindowSize = 3
    Ends <- MCEnds
INVARIANT
    NoBlockAboveEnd
PROPERTIES
    EndsWithNodesChain
    EndIsReached
    WaitsOnlyAtHead
