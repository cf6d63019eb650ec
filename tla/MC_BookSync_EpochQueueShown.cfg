\* Expected violation of EpochQueueShown. The bounded server stops, and a page with nothing left to receive waits, so deadlock is no error.
CONSTANTS
    t1 = t1
    t2 = t2
    Tokens <- MCTokens
    LimitRates = {1}
    Qtys = {1}
    MaxEpoch = 3
    MaxFeed = 2
SPECIFICATION Spec
INVARIANTS EpochQueueShown
CHECK_DEADLOCK FALSE
