SPECIFICATION FairSpec
CONSTANTS
    Block <- MCBlock
    NoBlock = "none"
    Height <- MCHeight
    Parent <- MCParent
    Chains <- MCChains
    ThreadNum = 2
    SlotsPerWorker = 1
    WindowSize = 2
INVARIANTS
    TypeOK
    HeightsAccountedFor
    HashesMatchDelivered
    PanicOnlyOnDeepReorg
    WorkersMatchThreadNum
PROPERTIES
    Converges
    StopTerminates
    StreamSpec
