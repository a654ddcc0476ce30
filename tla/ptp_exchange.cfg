SPECIFICATION FairSpec
CONSTANTS
    c1 = c1
    c2 = c2
    Car = {c1, c2}
    Period = 1
    StartTime = 6
    MaxTime = 7
    Skew <- Skews
    MaxStarted = 3
    MaxLost = 1
    IntLimit = 16
    LongLimit = 128
    MaxSamples = 2
CHECK_DEADLOCK FALSE
INVARIANTS
    TypeOK
    OneExchange
    SampleAccuracy
    ExchangeCarried
    WindowsInStep
    MeanOfNonNegative
PROPERTIES
    AbandonedForGood
    ExchangeEnds
