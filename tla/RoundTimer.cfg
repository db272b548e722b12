\* Both clients; the clock may be set once, either way.
CONSTANTS
    Wrap = 16
    IntervalMs = 2
    CliWaitMs = 2
    NumRounds = 3
    TicksPerMs = 2
    MaxGap = 8
    MaxBack = 6

SPECIFICATION TimerSpec

PROPERTY
    Paced
