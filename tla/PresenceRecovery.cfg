SPECIFICATION RosterSpec
CONSTANTS
    i1 = i1
    i2 = i2
    c1 = c1
    c2 = c2
    c3 = c3
    c4 = c4
    s1 = s1
    s2 = s2
    Instance = {i1, i2}
    Slot = {s1, s2}
    Conn = {c1, c3, c4}
    homeOf <- Home
    slotOf <- SlotOf
    Nobody = Nobody
    None = None
    MaxCalls = 2
    MaxTroubles = 2
    MaxEvents = 3
PROPERTIES Converges ImplementsStore
CHECK_DEADLOCK FALSE
