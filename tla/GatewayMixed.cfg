\* Reconnects: two router connections, two tabs, a request that may be given up, a restart.
SPECIFICATION Spec
CONSTANTS
    None = None
    c1 = c1
    c2 = c2
    b1 = b1
    b2 = b2
    r1 = r1
    r2 = r2
    RConns <- TwoConns
    BConns <- TwoTabs
    Reqs <- OneReq
    Chunks = 2
    BufferCap = 1
    MaxSize = 1
    MaxOutput = 0
    Aborters <- NoOne
    Laggards <- OneReq
    MaxRestarts = 1
SYMMETRY Symmetry
INVARIANTS
    ActiveIffRouter
    LiveRegistration
