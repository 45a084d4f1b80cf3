SPECIFICATION Spec
CONSTANTS
    SeqMod = 3
    Timeout = 2
    MaxSeq = 5
    MaxProber = 2
    MaxNet = 3
PROPERTY OwnReplyRecognised
CHECK_DEADLOCK FALSE
