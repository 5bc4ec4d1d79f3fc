SPECIFICATION Spec
CONSTANTS
    Engines = {"synth", "feed", "bbd"}
    Bbd = "bbd"
    BootEngine = "synth"
    EngineAt <- MCEngineAt
    Places <- MCPlaces
    Noise = 1
    Touch = 1
    Band = 0
    SweepBlocks = 3
    FadeBlocks = 2
    TakeSweeps = 1
    MaxMoves = 2
    NoRecord = NoRecord
    None = None
INVARIANTS EdgesAreTurns ExciteIsRight
PROPERTIES FluxWaitsForThePlayer SwitchesLand
