SPECIFICATION EtcdFairSpec
CONSTANTS
    w1 = w1
    w2 = w2
    c1 = c1
    c2 = c2
    None = None
    Workers = {w1, w2}
    Canaries = {c1, c2}
    Records <- AllRecords
    Models = {"m"}
    Configs <- TwoWorkers
    MaxStream = 2
INVARIANTS PoolFollowsStore TokenizersAgree
PROPERTY GoneLeavesPool
