CONSTANTS
    t1 = t1
    t2 = t2
    Devices <- TwoDevices
    Needs <- TwoNeeds
    Tasks <- TwoTasks
    MaxCalls = 5
SPECIFICATION FairSpec
INVARIANTS NeverForgotten PendingMissesDriver BoundOnAllCounts DeletedLeftAlone
PROPERTY RetriedUnlessOrphaned
CHECK_DEADLOCK FALSE
