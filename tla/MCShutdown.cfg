SPECIFICATION FairSpec
CONSTANTS
    predrain = predrain
    soon = soon
    plain = plain
    stream = stream
    handle = handle
    Hook = {predrain, soon, plain, stream, handle}
    Disposable = {stream, handle}
    priority <- Priorities
    Predrain <- PredrainBand
    MaxTurns = 4
    NoHook = NoHook
    NoReport = NoReport
    Rejected = Rejected
INVARIANTS InOrder ExitTells
PROPERTIES StartsOnce ReportTells Bounded
CHECK_DEADLOCK FALSE
