SPECIFICATION Spec
CONSTANTS
    conn = conn
    s1 = s1
    s2 = s2
    room = room
    Id = {conn}
    Socket = {s1, s2}
    IdOf <- SameId
    Channel = {room}
    Public = {}
    None = None
    All = All
    MaxWatched = 2
    MaxPerConnection = 2
    MaxAsking = 1
    MaxRevocations = 2
    MaxFaults = 1
INVARIANTS MembershipType HeldByTheOwner OnlyTheClosedAreTornDown
PROPERTIES ClearedOnceApplied RevocationsReach
CHECK_DEADLOCK FALSE
