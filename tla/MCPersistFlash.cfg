SPECIFICATION Spec
CONSTANTS
    NumSlots = 2
    Knobs = {k1, k2}
    Layouts = {old, new}
    MaxSeq = 4
    Stress = FALSE
    Blank = Blank
    Torn = Torn
    NoRecord = NoRecord
SYMMETRY Perms
INVARIANTS TypeOK AckedSurvives DistinctSeqs
PROPERTY ImplementsCell
CHECK_DEADLOCK FALSE
