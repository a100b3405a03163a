\* two clients, one of which may be killed, and more lines than the way holds
SPECIFICATION FairSpec
CONSTANTS
    c1 = c1
    c2 = c2
    Conn = {c1, c2}
    server_sock = 3
    Fds <- TwoFds
    NoConn = NoConn
    BUF_SIZE = 2
    UpCap = 3
    DownCap = 1
    MaxLines <- Lines
    Killed = {c2}
INVARIANTS
    SetsConsistent
    EchoConserved
PROPERTIES
    ImplementsService
    EveryLineReturns
    EveryEndCloses
\* with every client closed the server waits for ever
CHECK_DEADLOCK FALSE
