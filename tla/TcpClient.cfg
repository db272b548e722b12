\* Two rounds of two messages, two connections that may fail and one that holds;
\* two ticks to the millisecond.
CONSTANTS
    NumRounds = 2
    NumPerRound = 2
    IntervalMs = 1
    CliWaitMs = 1
    TicksPerMs = 2
    MaxConn = 3
    NoCtx = NoCtx

SPECIFICATION FairSpec

INVARIANTS
    OneConnection
    CtxLive
    RoundsSentOnce

PROPERTIES
    SenderSpec
    Completes
