SPECIFICATION Spec
CONSTANTS
    Retries = 3
    Sockets = 5
INVARIANT SocketLeft
