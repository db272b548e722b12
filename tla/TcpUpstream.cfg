\* Two links that share the loop, two messages on each.
CONSTANTS
    Links = {k1, k2}
    NoLink = NoLink
    MaxMsg = 2

SPECIFICATION FairSpec

INVARIANTS
    SessionOwned

PROPERTIES
    StreamsSpec
    LinkDrained
