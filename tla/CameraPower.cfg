SPECIFICATION FairSpec
CONSTANTS
    IdlePolls = 2
    RecPolls = 3
    MaxLag = 2
INVARIANTS InAgreement
PROPERTIES RecordingEnds SettlesOff
