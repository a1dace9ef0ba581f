SPECIFICATION CoordinatorSpec
CONSTANTS
    n1 = n1
    n2 = n2
    n3 = n3
    o1 = o1
    Node = {n1, n2, n3}
    Object = {o1}
    Stored = {{o1}}
    EmptyObject = {}
    FullNode = {}
    NoNode = NoNode
    NoObject = NoObject
    Request = {}
    Kinds = {}
    MinRF = 2
    DefaultRF = 2
    MaxRF = 2
    Factors = {2}
    Tiers = {"WARM"}
    FaultBound <- OneOutage
SYMMETRY NodeSymmetry
PROPERTIES
    RecoveredMeansVerified
