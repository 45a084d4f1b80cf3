SPECIFICATION Spec
CONSTANTS
    SeqMod = 3
    Timeout = 2
    MaxSeq = 5
    MaxProber = 2
    MaxNet = 3
INVARIANT TypeOK
PROPERTIES
    LateReplyNotCredited
    ProbeReturns
CHECK_DEADLOCK FALSE
