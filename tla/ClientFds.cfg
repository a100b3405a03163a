\* one main thread that enqueues and two spinning workers, as startServer runs them
SPECIFICATION FairSpec
CONSTANTS
    Fds = {f1, f2}
    NoFd = NoFd
    Enqueuers = {main}
    Dequeuers = {w1, w2}
    Node = {n1, n2}
    NULL = NULL
    NoThread = NoThread
INVARIANTS
    TypeOK
    ListConsistent
PROPERTIES
    Linearizable
    CallsReturn
