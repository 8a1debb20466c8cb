\* Words so short that the scan wraps around, a packet of two blocks, two rows.
CONSTANTS
    Word = 4
    MaxHead = 3
    PacketSize = 2
    Transfer = {x, y}
SPECIFICATION LiveSpec
INVARIANTS
    IInv
    NothingIsForgotten
    PanicNeedsLateStart
PROPERTIES
    PacketsDescend
    WaitIsABarrier
    ScanCompletes
