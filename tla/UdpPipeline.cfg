\* Two rounds of two messages that just fit the receive buffer.
CONSTANTS
    NumRounds = 2
    NumPerRound = 2
    MsgSize = 3
    BufSize = 3

SPECIFICATION FairSpec

INVARIANTS
    RecordsTruthful
    LatencyNotNegative
    AssertLength

PROPERTIES
    NoRepeat
    Completes
