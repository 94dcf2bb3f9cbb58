CONSTANTS
    Tasks = {t1}
    MaxCalls = 2
    MaxFaults = 0
    WakeRetryCount = 5
SPECIFICATION Spec
INVARIANT RegulatorBalanced
CHECK_DEADLOCK FALSE
