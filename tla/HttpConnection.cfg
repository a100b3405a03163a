\* every kind of request, responses that fit the send buffer and longer ones
SPECIFICATION ConnFairSpec
CONSTANTS
    Registered <- FourHandlers
    MAX_HANDLER_NUM = 3
    MAX_HEADER_SIZE = 4
    Requests <- ManyRequests
    Files <- SomeFiles
    ErrorPage <- AnErrorPage
    SndBuf = 6
INVARIANTS
    WithinBuffers
    InOrder
    SmallResponseWhole
PROPERTIES
    ConnectionEnds
\* with the connection closed nothing is left to do
CHECK_DEADLOCK FALSE
