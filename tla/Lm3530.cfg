CONSTANTS
    w1 = w1
    w2 = w2
    Writers <- TwoWriters
    Rates = {0, 1}
    MaxBrightness = 1
    DefaultBrightness = 1
    CommandLine <- MCCommandLine
    MaxFaults = 1
SPECIFICATION Spec
SYMMETRY WriterSymmetry
CHECK_DEADLOCK FALSE
INVARIANT ShownAsAsked
INVARIANT SettingsAgree
