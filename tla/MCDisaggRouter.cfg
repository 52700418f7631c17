CONSTANTS
    r1 = r1
    r2 = r2
    Requests = {r1, r2}
    Modes <- EveryWay
    MaxOpenRetries = 1
    MaxLeaks = 1
SPECIFICATION FairSpec
INVARIANTS TypeOK PairIsAccounted NoneRunsUnheard ScoredByItself AdmittedOnce
PROPERTY PairWindsUp
