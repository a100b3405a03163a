\* two clients that send up to two units, of which one may close early
SPECIFICATION FairSpec
CONSTANTS
    Conn = {c1, c2}
    NoConn = NoConn
    BUF_SIZE = 2
    PipeSize = 2
    MaxSent = 2
    Quitters = {c1}
INVARIANTS
    DescriptorsConsistent
    FileRight
PROPERTIES
    EveryEndClosed
    EverythingStored
    LoneZombieRecycled
\* with every client served the server waits for ever
CHECK_DEADLOCK FALSE
