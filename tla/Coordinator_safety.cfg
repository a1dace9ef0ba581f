SPECIFICATION CoordinatorSpec
CONSTANTS
    n1 = n1
    n2 = n2
    n3 = n3
    o1 = o1
    r1 = r1
    Node = {n1, n2, n3}
    Object = {o1}
    Stored = {{}, {o1}}
    EmptyObject = {}
    FullNode = {}
    NoNode = NoNode
    NoObject = NoObject
    Request = {r1}
    Kinds = {"upload", "download"}
    MinRF = 2
    DefaultRF = 2
    MaxRF = 3
    Factors = {3}
    Tiers = {"COLD"}
    FaultBound <- OutageAndDbFailure
SYMMETRY NodeSymmetry
INVARIANTS
    CoordinatorTypeOK
    DownloadsSurviveScaling
    BytesOutlive
