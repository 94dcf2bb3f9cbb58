CONSTANTS
    Drivers <- NestTables
    Known <- NestKnown
    MaxProbes = 3
SPECIFICATION LifecycleSpec
INVARIANTS CallbacksSafe NothingFreedTwice LeavesOnly Disciplined
CHECK_DEADLOCK FALSE
