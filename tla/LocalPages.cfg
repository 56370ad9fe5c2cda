\* Nearly five hundred fleets at the thresholds, two added rows, two names and tokens.
SPECIFICATION Spec
CONSTANTS
    Absent = Absent
    None = None
    a = a
    b = b
    key1 = key1
    key2 = key2
    Names <- TwoNames
    Keys <- TwoKeys
    Fleets <- SomeFleets
    Records <- SomeRecords
    MaxCount = 1
    MaxRows = 2
INVARIANTS
    TypeOK
    GradesAgreeOnPercent
    BarsAddUp
    FiltersShareOut
    
    ChartEndsInSignal
