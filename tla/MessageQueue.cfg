CONSTANTS
    Thread = {t1, t2}
    Body = {m}
    Priority = {0, 1}
    Block = {b1, b2}
    NoMessage = NoMessage
    NoBlock = NoBlock
SPECIFICATION Spec
INVARIANTS BlocksConserved NeverWaitsToSend NoIdleWaiter
PROPERTIES ImplementsFifo DeleteReleases
CHECK_DEADLOCK FALSE
