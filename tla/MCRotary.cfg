CONSTANTS
    Directions = {0, 1}
    MaxClicks = 131
    MaxOverruns = 1
    MaxEarly = 1
    MaxMixed = 2
SPECIFICATION FairSpec
INVARIANTS ClicksConserved StuckOnlyFromBoot
PROPERTIES ClicksReported
CHECK_DEADLOCK FALSE
