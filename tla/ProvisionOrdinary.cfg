\* One router is enrolled by its token, the other one claimed once; answers are lost,
\* agents restart, and an attempt to start MQTT may fail.
SPECIFICATION FairSpec
CONSTANTS
    None = None
    d1 = d1
    d2 = d2
    o1 = o1
    o2 = o2
    s1 = s1
    s2 = s2
    c1 = c1
    c2 = c2
    k1 = k1
    k2 = k2
    Devices <- TwoDevices
    MacOf <- OwnMac
    Mistyped <- NoOne
    Orgs <- OneOrg
    Secrets <- OneSecret
    Claims <- OneClaim
    Slots <- TwoSlots
    EnrollOrg = o1
    MaxUses = 1
    Enrolling <- OneDevice
    Claimable <- OtherDevice
    Slow = FALSE
    MaxLost = 2
    MaxDrops = 2
    MaxFailedInits = 1
INVARIANTS
    NoLockout
PROPERTY
    OwnedConnects
