\* Two clients that send two messages, together or one of them alone, the
\* first upstream connection and a reconnection.
CONSTANTS
    Sessions = {s1, s2}
    Listener = Listener
    NoCtx = NoCtx
    MaxConn = 2
    MaxMsg = 2
    MaxSent = 2

SPECIFICATION FairSpec

INVARIANTS
    OneUpstream
    ConnCtxLive
    InOrderOnce

PROPERTIES
    RelaySpec
    LinkRecovers
    SessionDrained
