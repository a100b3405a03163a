\* two clients with every request and every ending, two workers, two descriptors
SPECIFICATION Spec
CONSTANTS
    Conn = {c1, c2}
    Worker = {w1, w2}
    Fds <- TwoFds
    Listener = Listener
    EPOLL_SIZE = 2
    Backlog = 2
    Kinds = {"get", "post", "file", "other"}
    Endings = {"half", "close", "abort"}
    RawWrite = {"get", "post"}
    HeaderLen = 2
    BodyLen = 2
    NoFd = NoFd
    NoConn = NoConn
    File = File
SYMMETRY Symmetry
INVARIANTS
    TypeOK
    SocketsOwned
    RightResponse
    LeakPerFile
\* with every client served the server waits for ever
CHECK_DEADLOCK FALSE
