SPECIFICATION SHFairSpec
CONSTANTS
    n1 = n1
    n2 = n2
    n3 = n3
    o1 = o1
    Node = {n1, n2, n3}
    Object = {o1}
    Stored = {{o1}}
    EmptyObject = {}
    FullNode = {}
    NoNode = NoNode
    NoObject = NoObject
    MinRF = 2
    DefaultRF = 2
    MaxRF = 3
    Factors = {2}
    FaultBound <- TwoOutages
PROPERTIES
    LostReplicasRecreated
