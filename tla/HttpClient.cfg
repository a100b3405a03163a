\* either library, two requests, of which one is to a host with any fault
SPECIFICATION FairSpec
CONSTANTS
    Request <- TwoRequests
    Host = {"h1", "h2"}
    NoHost = NoHost
    HostOf <- TwoHosts
    Posts <- SecondPosts
    Bare <- SecondPosts
    HostStates <- TwoHostStates
    SendCalls = 2
    Responses <- Pages
    BUF_SIZE = 7
    Beyond = 1
    MayReset = TRUE
INVARIANTS
    RequestsConsistent
    CompleteBody
PROPERTIES
    EveryRequestCalledBack
\* with every request answered nothing is left to do
CHECK_DEADLOCK FALSE
