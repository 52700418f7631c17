SPECIFICATION BreakerFairSpec
CONSTANTS
    w1 = w1
    w2 = w2
    r1 = r1
    r2 = r2
    Workers = {w1, w2}
    Calls = {r1, r2}
    FailureThreshold = 2
    Cooldown = 1
    MaxCooldown = 3
    ProbeTimeout = 2
INVARIANTS ExclusionEarned OutageStateIsReset
PROPERTY NeverWedged
