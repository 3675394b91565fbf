SPECIFICATION Spec
CONSTANTS
    Levels = {1, 2}
    Attempts = 1
    Traffic = 2
INVARIANTS TypeOK NothingMissed SleepersWoken
PROPERTIES RecvReturns CloseReturns
