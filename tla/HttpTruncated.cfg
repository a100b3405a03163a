\* the same connection
SPECIFICATION ConnSpec
CONSTANTS
    Registered <- FourHandlers
    MAX_HANDLER_NUM = 3
    MAX_HEADER_SIZE = 4
    Requests <- ManyRequests
    Files <- SomeFiles
    ErrorPage <- AnErrorPage
    SndBuf = 6
INVARIANTS
    CloseMeansAll
\* with the connection closed nothing is left to do
CHECK_DEADLOCK FALSE
