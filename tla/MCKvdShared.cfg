CONSTANTS
    m1 = m1
    m2 = m2
    k1 = k1
    k2 = k2
    kb = kb
    kc = kc
    e1 = e1
    e2 = e2
    e3 = e3
    Composites <- SharedKey
    Slots <- MCSlots
    Clients = {e1, e2, e3}
    Sharing = {e1, e2}
    Big = {}
    MaxBytes = 1
    EvictLogCap = 1
    Worlds <- MCWorlds
    None = None
    Empty = Empty
    Torn = Torn
SPECIFICATION Spec
CHECK_DEADLOCK FALSE
INVARIANT ReadsOwnBlock
