\* Messages larger than the receive buffer.
CONSTANTS
    NumRounds = 2
    NumPerRound = 2
    MsgSize = 3
    BufSize = 2

SPECIFICATION Spec

INVARIANT AssertLength
