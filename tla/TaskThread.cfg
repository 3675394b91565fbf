SPECIFICATION FairSpec
CONSTANTS
    TaskCount = 3
    Signals = {s1, s2}
    RivalAbove = FALSE
    MaxTimer = 2
    MaxBusy = 1
INVARIANTS NoOtherSignalLost NoOversleep
PROPERTY EverySignalSeen
