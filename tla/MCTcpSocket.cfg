\* Four messages; the kernel keeps five bytes, less than most frames have.
CONSTANTS
    Msgs <- MCMsgs
    MaxSent = 4
    Buffer = 5
SPECIFICATION FairSpec
INVARIANTS TypeOK Aligned
PROPERTIES ImplementsChannel Delivered
CHECK_DEADLOCK FALSE
