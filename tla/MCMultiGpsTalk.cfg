SPECIFICATION FairSpec
CONSTANTS
    Devices = 2
    Burst <- NoPositions
    Size = 2
PROPERTY PassEnds
