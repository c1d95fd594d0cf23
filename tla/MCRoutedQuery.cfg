CONSTANTS
    RouteWindow = 5
    RouteOverhead = 2
    MinRouteInput = 2
    OutputReserve = 1
    DecisionTokens = 2
    ExtractOverhead = 1
    Threshold = 8
    Nil = Nil
    NFiles = 2
    MaxParts = 2
    CardSizes = {1, 2}
    Configs <- Setups
SPECIFICATION Spec
INVARIANTS
    TypeOK
    NothingSpentUnasked
    AccountedFor
    ProgressHonest
    ShardsFit
PROPERTIES
    QueryEnds
