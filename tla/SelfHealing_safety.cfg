SPECIFICATION SHSpec
CONSTANTS
    n1 = n1
    n2 = n2
    n3 = n3
    n4 = n4
    o1 = o1
    o2 = o2
    Node = {n1, n2, n3, n4}
    Object = {o1, o2}
    Stored = {{o1}, {o2}}
    EmptyObject = {o2}
    FullNode = {}
    NoNode = NoNode
    NoObject = NoObject
    MinRF = 2
    DefaultRF = 2
    MaxRF = 3
    Factors = {1, 3}
    FaultBound <- MixedFaults
SYMMETRY NodeSymmetry
INVARIANTS
    SHTypeOK
    HealthyRowsHaveBytes
    StuckRowsArePaidFor
    BytesSurvive
PROPERTIES
    LostStaysLost
    OneForOne
    HealsAsPromised
