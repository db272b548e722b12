\* Both scripts, run twice: 4 to 6 latencies of a size in a throughout report, and
\* two clients whose sequences are the same.
CONSTANTS
    Users = {1, 2}
    NumIds = 3
    Ids <- MCIds
    Sizes = {16, 32}
    MaxLost = 2
    Traces <- MCTraces
    TiesUp <- MCTiesUp
    Options = {"short", "long"}
    Outputs = {"input", "existing", "missing"}
    MaxRuns = 2

SPECIFICATION AnalysisSpec

INVARIANTS
    EachPairOnce
    Deciles
    
