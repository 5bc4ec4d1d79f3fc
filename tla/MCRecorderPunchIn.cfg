SPECIFICATION Spec
CONSTANTS
    Capacity = 5
    RecordFade = 4
    MaxFade = 5
    Refract = 1
    PreRoll = 1
    MaxMarkers = 2
    None = None
PROPERTIES PunchInIsHeard
