SPECIFICATION FairSpec
CONSTANTS
    A = A
    B = B
    NoBase = NoBase
    Bases <- TwoBases
    Events <- Endings
    BatchMax = 1
    MaxChunks = 1
    MaxGeneration = 1
    MaxSends = 2
    HistoryLimit = 2
    AggregateMax = 3
INVARIANTS GenerationsApart
PROPERTIES WorkEnds
CHECK_DEADLOCK FALSE
