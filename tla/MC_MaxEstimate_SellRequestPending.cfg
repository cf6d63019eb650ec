CONSTANTS
    m1 = m1
    m2 = m2
    None = None
    Markets <- MCMarkets
    Rates = {1, 2}
    Balances = {1, 2}
    LotSize = 2
    MaxCounter = 2
    MaxSessions = 2
SPECIFICATION Spec
INVARIANTS SellRequestPending
