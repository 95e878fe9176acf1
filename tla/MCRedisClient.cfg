SPECIFICATION Spec
CONSTANTS
    quit = quit
    Command = {1, 2, 3, 4, 5}
    Oversized = {3}
    Close = {quit}
    MaxConnects = 1
INVARIANTS NoOrphanSocket RefusalsAreEarned
PROPERTIES ImplementsCalls CallersSettle
CHECK_DEADLOCK FALSE
