SPECIFICATION FairSpec
CONSTANTS
    once = once
    twice = twice
    Job = {once, twice}
    MaxAttempts <- Attempts
    Worker = {w1, w2}
    Operator = {o1, o2}
    MaxDead = 1
    MaxRevivals = 1
    MaxFaults = 1
    NoEntry = NoEntry
INVARIANTS OneCopy AttemptsCounted
PROPERTIES ImplementsLedger JobsSettle
CHECK_DEADLOCK FALSE
