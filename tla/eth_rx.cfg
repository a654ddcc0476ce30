SPECIFICATION FairSpec
CONSTANTS
    Capacity = 4
    MaxFrames = 12
CHECK_DEADLOCK FALSE
INVARIANTS
    NoStrandedFrame
    SignalFindsHandler
PROPERTY AnnouncedIsReceived
