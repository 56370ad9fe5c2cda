\* Two tabs, two accounts, sign-ins that succeed or fail, tokens that expire.
SPECIFICATION Spec
CONSTANTS
    None = None
    t1 = t1
    t2 = t2
    u1 = u1
    u2 = u2
    k1 = k1
    k2 = k2
    Tabs <- TwoTabs
    Users <- TwoUsers
    Tokens <- TwoTokens
    Quiet <- OneQuiet
    MaxCalls = 1
SYMMETRY Symmetry
INVARIANTS
    StoredSessionIsWhole
    ShownDataIsOwn
    DetailIsOwnChoice
