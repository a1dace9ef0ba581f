SPECIFICATION Spec
CONSTANTS
    c1 = c1
    c2 = c2
    c3 = c3
    Call = {c1, c2, c3}
    Blocks = 3
    NoFile = NoFile
    Errors = 1
    Crashes = 1
SYMMETRY Symmetry
CHECK_DEADLOCK FALSE
INVARIANTS
    TypeOK
    AcknowledgedIsStored
    WholeMeansGood
    NoResurrection
