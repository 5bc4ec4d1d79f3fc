SPECIFICATION Spec
CONSTANTS
    Workloads <- MCWorkloads
    Base <- MCBase
    Steps <- MCSteps
    GuardBlocks = 2
    RearmBlocks = 2
    TogBlocks = 2
    MaxAge = 5
    MaxTally = 1
INVARIANTS CountIsSettled CountStartsHeard StepsOnTime
PROPERTIES TripsAreReal FramesAreCounted GuardLetsGo
