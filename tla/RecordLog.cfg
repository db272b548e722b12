\* Two processes with one file, one with two threads, one with its main thread;
\* two starts: one of each, or of the same one again; rings of one record.
CONSTANTS
    Procs = {p1, p2}
    Single = {p2}
    Threads = {main, consumer}
    Main = main
    Capacity = 1
    NumRecs = 2
    MaxStarts = 2

SPECIFICATION FairSpec

INVARIANTS
    HeadFirst
    WrittenInOrder
    NothingLostAtExit

PROPERTY
    RunEnds
