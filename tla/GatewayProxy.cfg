\* Two requests, two router connections, clients that leave, late answers.  What nobody
\* reads is dropped: the buffer for a browser is full.  The router's loop may come to a
\* stop, so that a deadlock is no error: BlockedWriteIsAttended says what it takes.
SPECIFICATION Spec
CONSTANTS
    None = None
    c1 = c1
    c2 = c2
    b1 = b1
    b2 = b2
    r1 = r1
    r2 = r2
    RConns <- TwoConns
    BConns <- NoOne
    Reqs <- TwoReqs
    Chunks = 3
    BufferCap = 0
    MaxSize = 1
    MaxOutput = 0
    Aborters <- TwoReqs
    Laggards <- TwoReqs
    MaxRestarts = 0
SYMMETRY Symmetry
CHECK_DEADLOCK FALSE
INVARIANTS
    SerializedTransactions
    BlockedWriteIsAttended
PROPERTY
    ImplementsService
