\* One message to a round: a channel of 8, a pool of 16; a full channel makes the
\* producer wait, or refuses.
CONSTANTS
    NumRounds = 20
    NumPerRound = 1
    FullPolicies = {"wait", "refuse"}
    Null = Null

SPECIFICATION FairSpec

INVARIANTS
    PoolSuffices
    InOrder
    BlocksAccounted

PROPERTY
    JoinReturns
