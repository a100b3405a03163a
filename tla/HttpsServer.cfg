\* a client with any request and handshake, and another, with two workers
SPECIFICATION FairSpec
CONSTANTS
    Conn <- TwoConns
    Worker = {w1, w2}
    Scenarios <- Pairs
    MAX_HEADER_SIZE = 5
    Listener = Listener
    NoConn = NoConn
INVARIANTS
    ConnectionsOwned
    SslObjects
    RightAnswer
PROPERTIES
    EveryConnectionCloses
\* with every connection closed nothing is left to do
CHECK_DEADLOCK FALSE
