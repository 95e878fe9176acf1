SPECIFICATION ReadsSpec
CONSTANTS
    tab1 = tab1
    tab2 = tab2
    ann = ann
    bob = bob
    ghost = ghost
    m1 = m1
    m2 = m2
    m3 = m3
    Caller = {tab1, tab2, ann, bob, ghost}
    Id = {m1, m2, m3}
    NoId = NoId
    selfOf <- Selves
    MaxSelfIds = 2
    MaxReads = 4
INVARIANTS Fresh
PROPERTIES EveryoneAnswered
CHECK_DEADLOCK FALSE
