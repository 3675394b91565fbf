SPECIFICATION FairSpec
CONSTANTS
    Retries = 2
    Sockets = 1
INVARIANTS AddrKnown Remembered
PROPERTIES LearnsUp LearnsDown KeepsSyncing Served
