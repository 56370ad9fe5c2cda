\* Two overlapping loads, one change of the fleet, one failed request.
SPECIFICATION FairSpec
CONSTANTS
    s1 = s1
    s2 = s2
    Slots <- TwoSlots
    First = s1
    Parts <- TwoParts
    MaxVersion = 1
    MaxFailures = 1
    Idle = Idle
    Waiting = Waiting
    Unsent = Unsent
    Nothing = Nothing
INVARIANTS
    SpinnerHasLoad
    ClaimOnItsWay
PROPERTIES
    BackOnlyByOverlap
    ClaimShows
    PolledPageCatchesUp
    SpinnersStop
