\* A buffer of three and a half reads; every message fits into it with two reads
\* to spare.  Without a limit, and with one that some of the streams exceed.
CONSTANTS
    NumMsgs = 3
    MaxSize = 4
    HdrSize = 1
    RecvUnit = 2
    BufSize = 7
    Limits = {0, 3}

SPECIFICATION FairSpec

INVARIANTS
    Framing
    BufferBound
    DrainedBeforeClose

PROPERTIES
    StreamSpec
    Delivered
