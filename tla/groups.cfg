SPECIFICATION FairSpec
CONSTANTS
    VM = {0, 1, 30, 31}
    Coordinators <- RoadSideUnits
    Home <- Segments
    Mover = {1}
    Target = 3
    Passes <- PassesDeployed
    OwnAddress = FALSE
    Stray = 31
    MaxLost = 1
CHECK_DEADLOCK FALSE
PROPERTY MoveHonoured
