CONSTANTS
    Tasks = {t1, t2}
    MaxCalls = 5
    MaxFaults = 2
    WakeRetryCount = 5
SPECIFICATION Spec
INVARIANTS PowerFollowsState FramesFlow DarkAsleep WakesDespiteFaults
PROPERTY ComesBack
CHECK_DEADLOCK FALSE
