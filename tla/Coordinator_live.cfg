SPECIFICATION CoordinatorFairSpec
CONSTANTS
    n1 = n1
    n2 = n2
    n3 = n3
    o1 = o1
    Node = {n1, n2, n3}
    Object = {o1}
    Stored = {{o1}}
    EmptyObject = {}
    FullNode = {}
    NoNode = NoNode
    NoObject = NoObject
    Request = {}
    Kinds = {}
    MinRF = 2
    DefaultRF = 2
    MaxRF = 3
    Factors = {1, 3}
    Tiers = {"WARM"}
    FaultBound <- OutageAndRestart
PROPERTIES
    TierIsReached
