SPECIFICATION FairSpec
CONSTANTS
    P = P
    A = A
    B = B
    Q = Q
    C = C
    X = X
    Y = Y
    ha = ha
    hp = hp
    hq = hq
    hx = hx
    hy = hy
    None = None
    Tasks <- TheTasks
    Slots <- TheSlots
    Inputs <- TheInputs
    Outputs <- TheOutputs
    Parent <- TheParent
    Ends = {B, C}
    Need <- TheNeed
    Reserve <- TheReserve
    Charges <- TheCharges
    Gpus = 1
    Tokens = 2
    MaxAttempts = 2
    Worlds <- TheWorlds
INVARIANTS
    TypeOK
    LeasesBalance
    OneWriter
    PublishedFirst
    NobodyForgotten
    SuccessIsUsable
PROPERTY
    Finishes
CHECK_DEADLOCK FALSE
