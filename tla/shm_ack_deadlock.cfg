SPECIFICATION FairSpec
CONSTANTS
    gw = gw
    pt = pt
    br = br
    eth = eth
    tick = tick
    NoMsg = NoMsg
    Torn = Torn
    Gateway = gw
    Node <- CarNodes
    Brake = {br}
    Tx = {eth, tick}
    Owner <- CarOwner
    MaxSends = 2
CHECK_DEADLOCK FALSE
PROPERTY SendReturns
