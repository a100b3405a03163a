\* either server, three clients of which two may end; batches of two events
SPECIFICATION FairSpec
CONSTANTS
    Conn = {c1, c2, c3}
    Listener = Listener
    NoConn = NoConn
    BUF_SIZE = 1
    EPOLL_SIZE = 2
    MaxSent = 2
    Ending = {c1, c2}
INVARIANTS
    TypeOK
    NothingForgotten
PROPERTIES
    ImplementsService
    EveryConnectionAccepted
    EveryInputHandled
\* with every client served the server waits for ever
CHECK_DEADLOCK FALSE
