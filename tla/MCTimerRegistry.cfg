SPECIFICATION FairTimersSpec
CONSTANTS
    Key = {k1, k2}
    Sleeper = {s1, s2}
    Delay = {0, 2, 3, 5}
    MinDelay = 1
    MaxDelay = 2
    MaxTimeout = 3
    NoEntry = NoEntry
    NoSleeper = NoSleeper
PROPERTIES ImplementsWholeTimers SleepEnds
