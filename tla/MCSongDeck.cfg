SPECIFICATION DeckSpec
CONSTANTS
    StepKnob = {0, 1, 2}
    FlowSlots = 2
    MaxSlots = 2
    Units = 2
    PhraseMin = 2
    SongPeriod = 2
    Rungs = {1, 2, 3}
    f1 = f1
    f2 = f2
    Form <- MCForm
    Song <- MCSong
    BootRung = 2
    NoteEngines = {synth}
    FreeEngines = {sampler}
    BootEngine = synth
    None = None
    DeckMod = 2
INVARIANTS LengthIsOwed PendingIsAsked SongIsInStep CacheIsTrue DeckStepIsPlayed
PROPERTIES RestartPlaysFromTheTop PendingLands
