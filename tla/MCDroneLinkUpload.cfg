SPECIFICATION Spec
CONSTANTS
    Depth = 3
    RadioCuts = TRUE
    CutPoints <- SomeCut
    MaxSeq = 1
    Presses <- AnyPress
INVARIANT UploadedIsTrue
