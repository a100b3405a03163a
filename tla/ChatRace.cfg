\* two clients that connect together, one of which leaves
SPECIFICATION Spec
CONSTANTS
    Conn = {c1, c2}
    Fds <- ThreeFds
    NoFd = NoFd
    NoConn = NoConn
    Talkers = {}
    Quitters = {c2}
    Stallers = {}
    MaxSent = 1
    Spaced = FALSE
PROPERTIES
    OnlyDisconnectedRemoved
\* with no client left to speak the server waits for ever
CHECK_DEADLOCK FALSE
