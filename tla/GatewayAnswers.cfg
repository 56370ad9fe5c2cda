\* Two requests and a tab over one connection.  Each request may be given up after 30 s
\* and its answer arrive late, and the client of one may leave; the router's loop may come to a stop, so that a deadlock
\* is no error: RequestsEnd says that it is the only way to stop.
SPECIFICATION FairSpec
CONSTANTS
    None = None
    c1 = c1
    c2 = c2
    b1 = b1
    b2 = b2
    r1 = r1
    r2 = r2
    RConns <- OneConn
    BConns <- OneTab
    Reqs <- TwoReqs
    Chunks = 2
    BufferCap = 0
    MaxSize = 1
    MaxOutput = 0
    Aborters <- OneReq
    Laggards <- TwoReqs
    MaxRestarts = 0
CHECK_DEADLOCK FALSE
INVARIANTS
    OwnResponse
PROPERTIES
    RequestsEnd
    TeardownReachesPeer
