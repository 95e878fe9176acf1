SPECIFICATION Spec
CONSTANTS
    control = control
    channel = channel
    glob = glob
    Name = {control, channel, glob}
    Control = {control}
    Glob = {glob}
    Activation = {1, 2, 3}
    MaxCalls = 3
    MaxFaults = 2
    MaxEvents = 4
INVARIANTS SubscriberType WireMatchesRecord NeverDeaf ClosedHoldsNothing
PROPERTIES Converges
CHECK_DEADLOCK FALSE
