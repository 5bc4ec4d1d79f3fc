SPECIFICATION SongSpec
CONSTANTS
    MinPeriod = 2
    MaxPeriod = 2
    Window = 2
    BandNum = 5
    BandDen = 4
    TimeoutPeriods = 2
    ResetWindow = 1
    Knobs = {0}
    None = None
    Beat = 8
    Bar = 8
    Paces = {2, 4}
    KnobPeriod = 1
INVARIANTS EdgesAreSeen BeatCountsPulses
PROPERTIES ResetRestartsTheSong
