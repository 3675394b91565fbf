SPECIFICATION Spec
CONSTANTS
    Handles = {h1, h2}
    SocketCount = 2
    Attempts = 2
    OneOpener = TRUE
    Traffic = 2
    Late = 1
    Nobody = Nobody
INVARIANTS OneSocketPerId OwnConnection GivenBackClean Whole EndIsEnd SentOnce
SYMMETRY Alike
CHECK_DEADLOCK FALSE
