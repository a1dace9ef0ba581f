SPECIFICATION Spec
CONSTANTS
    n1 = n1
    n2 = n2
    n3 = n3
    a = a
    b = b
    Node = {n1, n2, n3}
    Host <- Hostnames
    Caller = {a, b}
    Strategies = {"weighted", "least_loaded", "round_robin"}
    Weight <- DefaultWeight
    MaxCPUThreshold = 90
    MaxRAMThreshold = 90
    MinFreeStorage = 10
    Reports <- SomeReports
    Counts = {1, 2, 3}
SYMMETRY CallerSymmetry
INVARIANTS
    TypeOK
    EvenTurns
PROPERTIES
    ExactlyCount
    NoBetterLeftOut
