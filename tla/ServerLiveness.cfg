\* two clients that may end early, two workers, two descriptors
SPECIFICATION FairSpec
CONSTANTS
    Conn = {c1, c2}
    Worker = {w1, w2}
    Fds <- TwoFds
    Listener = Listener
    EPOLL_SIZE = 2
    Backlog = 2
    Kinds = {"post", "file", "other"}
    Endings = {"half", "abort"}
    RawWrite = {"get", "post"}
    HeaderLen = 1
    BodyLen = 1
    NoFd = NoFd
    NoConn = NoConn
    File = File
PROPERTIES
    EveryConnectionCloses
\* with every client served the server waits for ever
CHECK_DEADLOCK FALSE
