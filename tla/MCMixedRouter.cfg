CONSTANTS
    w1 = w1
    w2 = w2
    r1 = r1
    r2 = r2
    Workers = {w1, w2}
    Requests = {r1, r2}
    None = None
    MaxRetries = 1
    MigrationLimit = 1
    MaxLeaks = 1
    Blocks = {"b"}
    Fleets <- TwoFleets
SPECIFICATION FairSpec
INVARIANTS TypeOK LoadIsAccounted
PROPERTY Answered
