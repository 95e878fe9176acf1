SPECIFICATION FleetSpec
CONSTANTS
    p1 = p1
    p2 = p2
    p3 = p3
    r1 = r1
    r2 = r2
    Replica = {p1, p2, p3}
    Run = {r1, r2, p2, p3}
    replicaOf <- ReplicaOf
    Operated = {p1}
    LastMinute = 2
    Occurrence = {1, 2}
    Token = {t1, t2, t3}
    Free = Free
    NoToken = NoToken
    NoOccurrence = NoOccurrence
SYMMETRY Symmetry
INVARIANTS NoDoubleRunWithinTTL
PROPERTIES ImplementsLease
CHECK_DEADLOCK FALSE
