SPECIFICATION Spec
CONSTANTS
    Values = {0, 1}
    ExciteOf <- MCExciteOf
    Quiet = 1
    Floor = 2
    ClockMod = 4
    PubMod = 6
    MaxSeq = 6
    MaxTurns = 3
    MaxFails = 1
    MaxCuts = 1
    NoRecord = NoRecord
INVARIANTS CopyIsWhole
PROPERTIES WritesAreRare ChangeIsSaved
