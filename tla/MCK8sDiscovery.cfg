SPECIFICATION FairSpec
CONSTANTS
    w1 = w1
    w2 = w2
    p1 = p1
    p2 = p2
    c1 = c1
    c2 = c2
    None = None
    Workers = {w1, w2}
    Pods = {p1, p2}
    Ids <- Addresses
    Template <- OwnRecords
    Canaries = {c1, c2}
    Records <- AllRecords
    Models = {"m"}
    MaxLog = 1
INVARIANTS RoutesToCandidates KvWorkersWatched
PROPERTY CondemnedLeaves
