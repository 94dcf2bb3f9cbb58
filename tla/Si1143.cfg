CONSTANTS
    t1 = t1
    t2 = t2
    Tasks <- TwoTasks
    Gains = {1, 5, 259}
    MaxFaults = 1
    MaxRaises = 3
    MaxCalls = 2
    MaxSuspends = 1
SPECIFICATION FairSpec
INVARIANTS GainSafe ThresholdStaysArmed StuckOnlyWhenMissed
PROPERTY InterruptsServed
CHECK_DEADLOCK FALSE
