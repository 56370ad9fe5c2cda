\* Three pushes, all of whose commands may fail, and a crash, at any moment.  A router that
\* is cut off and whose watchdog was lost in a crash stops for good, so deadlock is not
\* checked.
SPECIFICATION FairSpec
CONSTANTS
    good = good
    bad = bad
    Changes <- TwoChanges
    Breaking <- OneBad
    Failing <- AllFail
    MaxPushes = 3
    MaxCrashes = 1
CHECK_DEADLOCK FALSE
INVARIANTS
    ArmedIsProtected
    NeverStranded
PROPERTY
    RecoversFromBadConfig
