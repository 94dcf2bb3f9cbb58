CONSTANTS
    ClockRate = 2
    SecondInNs = 12
    CounterBits = 10
    Wirings <- MCWirings
    Pwms <- MCPwms
    Tones = {0, 1, 4, 13}
    MaxBrightness = 3
    DefaultBrightness = 2
    CommandLine <- MCCommandLine
    Period = 120
    LowThreshold = 0
SPECIFICATION Spec
CHECK_DEADLOCK FALSE
INVARIANTS ClocksOffAsleep ToneSounds BacklightShows LitAfterStartup
PROPERTY BugOnlyFromCommandLine
