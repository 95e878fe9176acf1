SPECIFICATION RosterSafety
CONSTANTS
    i1 = i1
    i2 = i2
    c1 = c1
    c2 = c2
    c3 = c3
    c4 = c4
    s1 = s1
    s2 = s2
    Instance = {i1, i2}
    Slot = {s1}
    Conn = {c1, c2, c3}
    homeOf <- Home
    slotOf <- SlotOf
    Nobody = Nobody
    None = None
    MaxCalls = 3
    MaxTroubles = 2
    MaxEvents = 4
SYMMETRY Twins
INVARIANTS StoreConsistent NoGhostOfTheLiving NoLostMember AnnouncedOnce
PROPERTIES OnlyTheDeadAreSwept
CHECK_DEADLOCK FALSE
