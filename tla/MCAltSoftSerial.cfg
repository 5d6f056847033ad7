SPECIFICATION FairSpec
CONSTANTS
    Bytes <- MCBytes
    DataBits = 2
    BitTicks = 4
    Wrap = 19
    Lead = 1
    Latency = 1
    RxSize = 3
    TxSize = 2
VIEW MCView
INVARIANTS TypeOK NoIdleBacklog StopsInTime
PROPERTIES Implements FlushedIsSent Drains CallsReturn
