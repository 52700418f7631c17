CONSTANTS
    b1 = b1
    b2 = b2
    Root = Root
    None = None
    Blocks = {b1, b2}
    Parent <- Chain
    Budgets <- Worlds
SPECIFICATION FairSpec
INVARIANTS
    TypeOK
    RelayTracksEngine
    ExactReplay
    CleanIsWritten
PROPERTY
    Settles
CHECK_DEADLOCK FALSE
