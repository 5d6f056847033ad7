SPECIFICATION TxFairSpec
CONSTANTS
    Depth = 1
    RadioCuts = FALSE
    CutPoints <- AllCutPoints
    MaxSeq = 3
INVARIANT TxTypeOK
INVARIANT PairedFix
INVARIANT HumidTogether
PROPERTY KeepsSending
