SPECIFICATION Spec
CONSTANTS
    skips = skips
    locks = locks
    Task = {skips, locks}
    Run = {r1, r2, r3}
    Skip = {skips}
    OneServer = {locks}
    Enabled = {skips, locks}
    RunOnStart = {skips}
    Retries <- OneRetry
    NoTask = NoTask
    NoRun = NoRun
INVARIANTS SlotHeldByLiveRun
