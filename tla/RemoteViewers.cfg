\* Two routers, two tunnel requests in flight at once, all pages with viewers.
SPECIFICATION FairSpec
CONSTANTS
    None = None
    Mock = Mock
    Unsent = Unsent
    r1 = r1
    r2 = r2
    Routers <- TwoRouters
    MaxRequests = 2
INVARIANTS
    TitleNamesRouter
    SocketIsShown
    ViewerOwnsTunnel
    SpinnerHasRequest
PROPERTIES
    ButtonsComeBack
