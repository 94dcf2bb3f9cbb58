CONSTANTS
    t1 = t1
    t2 = t2
    Devices <- TwoDevices
    Needs <- TwoNeeds
    Tasks <- TwoTasks
    MaxCalls = 3
SPECIFICATION FairSpec
PROPERTY Retried
CHECK_DEADLOCK FALSE
