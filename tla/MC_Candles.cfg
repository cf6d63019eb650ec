CONSTANTS
    m1 = m1
    m2 = m2
    d5m = d5m
    d1h = d1h
    None = None
    Markets <- MCMarkets
    Durs <- MCDurs
    FiveMin = d5m
    SpotMarkets = {}
    MaxStamp = 2
    MaxSessions = 2
    MaxInFlight = 4
    MaxPending = 2
    MaxChan = 1
SPECIFICATION Spec
INVARIANTS TypeOK MergeIdempotent
PROPERTIES ChartShowsSelection
