\* Claims of two organizations, overlapping check-ins and telemetry for one router, and a
\* second router that reports the MAC address of the first.
SPECIFICATION Spec
CONSTANTS
    None = None
    d1 = d1
    d2 = d2
    o1 = o1
    o2 = o2
    s1 = s1
    s2 = s2
    c1 = c1
    c2 = c2
    k1 = k1
    k2 = k2
    Devices <- TwoDevices
    MacOf <- SameMac
    Mistyped <- NoOne
    Orgs <- TwoOrgs
    Secrets <- TwoSecrets
    Claims <- TwoClaims
    Slots <- TwoSlots
    EnrollOrg = o1
    MaxUses = 1
    Enrolling <- OneDevice
    Claimable <- OneDevice
    Slow = TRUE
    MaxLost = 1
    MaxDrops = 1
    MaxFailedInits = 0
INVARIANTS
    TypeOK
    CredentialedIffOwned
PROPERTY
    StaysOwned
