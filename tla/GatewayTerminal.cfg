\* A terminal session: one router connection, two browser tabs, a buffer that fills up
\* and may pass its cap by part of a message.
SPECIFICATION Spec
CONSTANTS
    None = None
    c1 = c1
    c2 = c2
    b1 = b1
    b2 = b2
    r1 = r1
    r2 = r2
    RConns <- OneConn
    BConns <- TwoTabs
    Reqs <- NoOne
    Chunks = 1
    BufferCap = 3
    MaxSize = 2
    MaxOutput = 5
    Aborters <- NoOne
    Laggards <- NoOne
    MaxRestarts = 0
INVARIANTS
    TypeOK
    FaithfulTerminal
    StatusTracksSession
