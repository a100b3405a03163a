\* two clients that join one at a time, speak up to twice, stop reading and leave
SPECIFICATION FairSpec
CONSTANTS
    Conn = {c1, c2}
    Fds <- ThreeFds
    NoFd = NoFd
    NoConn = NoConn
    Talkers = {c1, c2}
    Quitters = {c1, c2}
    Stallers = {c1}
    MaxSent = 2
    Spaced = TRUE
INVARIANTS
    ArrayConsistent
    SameConversation
PROPERTIES
    OnlyDisconnectedRemoved
    EverybodyServed
\* with no client left to speak the server waits for ever
CHECK_DEADLOCK FALSE
