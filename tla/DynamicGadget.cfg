SPECIFICATION FairSpec
CONSTANTS
    Functions <- MCFunctions
    Interfaces <- MCInterfaces
    MaxInterfaces = 3
    Acm <- MCAcm
    Products <- MCProducts
    Default <- MCDefault
    Writers = {w1, w2}
    MaxWrites = 2
    MaxPlugs = 2
INVARIANTS HostUpToDate DescriptorAgrees  ActiveAsDescribed
PROPERTY HostFollows
CHECK_DEADLOCK FALSE
