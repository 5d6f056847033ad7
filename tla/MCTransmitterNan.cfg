SPECIFICATION TxSpec
CONSTANTS
    Depth = 1
    RadioCuts = TRUE
    CutPoints <- FewCutPoints
    MaxSeq = 2
INVARIANT FailedReadNotSent
