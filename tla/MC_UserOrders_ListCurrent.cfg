\* Expected violation of ListCurrent. The page may sit idle once the bounded core is done, so deadlock is no error.
CONSTANTS
    m1 = m1
    m2 = m2
    h = h
    a = a
    b = b
    c = c
    Markets <- MCMarkets
    Orders <- MCOrders
    MktOf <- MCMktOf
    TypeOf <- MCTypeOf
    History = {h}
    MaxShown = 1
    NoOrd = NoOrd
    NoRes = NoRes
    MaxEpoch = 2
    MaxNotes = 2
    MaxSessions = 2
    MaxPosts = 2
SPECIFICATION Spec
INVARIANTS ListCurrent
CHECK_DEADLOCK FALSE
