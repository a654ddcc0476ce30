SPECIFICATION Spec
CONSTANTS
    c1 = c1
    c2 = c2
    Car = {c1, c2}
    Period = 1
    StartTime = 6
    MaxTime = 7
    Skew <- Behind
    MaxStarted = 2
    MaxLost = 0
    IntLimit = 16
    LongLimit = 128
    MaxSamples = 2
CHECK_DEADLOCK FALSE
INVARIANT AverageIsMean
