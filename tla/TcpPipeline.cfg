\* Two rounds of one message, over two connections of the client and two links of
\* the server.  The client ends, and the bounds stop the rest: no deadlock check.
CONSTANTS
    NumRounds = 2
    NumPerRound = 1
    MaxConn = 2
    MaxLink = 2
    Links = {1, 2}
    NoLink = NoLink
    MaxMsg = 4

SPECIFICATION PipeFairSpec

CHECK_DEADLOCK FALSE

INVARIANT
    OncePerTry

PROPERTY
    AllReceived
