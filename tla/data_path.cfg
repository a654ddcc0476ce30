SPECIFICATION Spec
CONSTANTS
    a = a
    b = b
    d = d
    br = br
    Gateway = Gateway
    None = None
    VM = {a, b, d}
    Component = {br}
    Brake = {br}
    Comps <- Running
    GroupOf <- Segments
    Announcer = {d}
    MaxSends = 1
SYMMETRY Twins
CHECK_DEADLOCK FALSE
INVARIANTS
    ComponentsHearOwnGroup
    NothingReturns
    AcksAreCaused
