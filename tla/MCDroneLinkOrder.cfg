SPECIFICATION Spec
CONSTANTS
    Depth = 3
    RadioCuts = TRUE
    CutPoints <- WholeOnly
    MaxSeq = 2
    Presses <- NoPress
PROPERTY NeverBack
PROPERTY Implements
