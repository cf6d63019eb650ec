CONSTANTS
    t1 = t1
    t2 = t2
    t3 = t3
    Tokens <- MCTokens
    LimitRates = {1, 2}
    Qtys = {1, 2}
    MaxEpoch = 1
    Snapshots <- MCSnapshots
    MaxShown = 3
SPECIFICATION Spec
INVARIANTS TypeOK RowsWellFormed
PROPERTIES DisplayRefinement
VIEW RowsView
