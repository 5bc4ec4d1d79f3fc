SPECIFICATION Spec
CONSTANTS
    MinPeriod = 3
    MaxPeriod = 6
    Window = 3
    BandNum = 5
    BandDen = 4
    TimeoutPeriods = 2
    ResetWindow = 1
    Knobs = {k1, k2}
    None = None
INVARIANTS SteadyClockIsFollowed NoExcursion KnobTakesOver RestartIsOnAPulse
SYMMETRY MCKnobSymmetry
