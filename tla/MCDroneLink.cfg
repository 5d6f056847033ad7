SPECIFICATION FairSpec
CONSTANTS
    Depth = 2
    RadioCuts = TRUE
    CutPoints <- SomeCut
    MaxSeq = 1
    Presses <- AnyPress
INVARIANT TypeOK
INVARIANT StuckExplained
INVARIANT PageDrawn
PROPERTY FieldsInPlace
PROPERTY KeepsPolling
