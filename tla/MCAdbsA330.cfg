CONSTANTS
    Deltas <- MCDeltas
    MaxMoves = 3
    MaxFaults = 1
    MaxWrites = 1
SPECIFICATION FairSpec
INVARIANTS MotionConserved StrandedOnlyWhenMissed
PROPERTIES DeliverySpec MotionReported
CHECK_DEADLOCK FALSE
