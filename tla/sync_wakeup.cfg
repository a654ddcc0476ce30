SPECIFICATION WaitSpec
CONSTANTS
    r0 = r0
    c1 = c1
    c2 = c2
    d1 = d1
    d2 = d2
    VM = {r0, c1, c2}
    Master = {r0}
    GroupOf <- Segments
    TotalSyncVms = 2
    Deployment <- TwoCars
    MaxLost = 0
CHECK_DEADLOCK FALSE
PROPERTY FlagPassesBarrier
