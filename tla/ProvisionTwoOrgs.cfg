\* Two organizations claim the same router at the same time.
SPECIFICATION Spec
CONSTANTS
    None = None
    d1 = d1
    d2 = d2
    o1 = o1
    o2 = o2
    s1 = s1
    s2 = s2
    c1 = c1
    c2 = c2
    k1 = k1
    k2 = k2
    Devices <- OneDevice
    MacOf <- OwnMac
    Mistyped <- NoOne
    Orgs <- TwoOrgs
    Secrets <- OneSecret
    Claims <- TwoClaims
    Slots <- OneSlot
    EnrollOrg = o1
    MaxUses = 1
    Enrolling <- NoOne
    Claimable <- OneDevice
    Slow = FALSE
    MaxLost = 0
    MaxDrops = 0
    MaxFailedInits = 0
PROPERTY OneOwner
