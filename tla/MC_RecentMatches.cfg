\* The list stays sorted by the selected column, whatever interleaves.
CONSTANTS
    m1 = m1
    m2 = m2
    Markets <- MCMarkets
    None = None
    Null = Null
    Rates = {1, 2}
    Qtys = {1, 2}
    LogCap = 2
    MaxStamp = 3
    MaxSessions = 3
    MaxChan = 2
SPECIFICATION Spec
INVARIANTS TypeOK LogSorted NewestKeptUnderDefaultSort
