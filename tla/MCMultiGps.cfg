SPECIFICATION FairSpec
CONSTANTS
    Devices = 2
    Burst <- Positions
    Size = 3
INVARIANTS TypeOK FedIsNew PositionWhole
PROPERTIES PassAdvances PassEnds
