SPECIFICATION ESpec
CONSTANTS
    Block <- MCBlock
    NoBlock = "none"
    Height <- MCHeight
    Parent <- MCParent
    Chains <- MCChains
    Limit = 2
    MaxId = 10
    MaxFaults = 2
INVARIANTS
    FollowsLog
    UpToDateHasIndex
PROPERTIES
    IdsAreTheLog
    CatchesUp
