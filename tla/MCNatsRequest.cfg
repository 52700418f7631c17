CONSTANTS
    r1 = r1
    r2 = r2
    Void = Void
    Incoming = {r1, r2}
    Migratable = {r1}
    Limits = {0, 1}
    MaxChunks = 1
SPECIFICATION NatsFairSpec
CHECK_DEADLOCK FALSE
INVARIANTS DrainIsPlanned GaugeIsLive
PROPERTY EachAnswered
