SPECIFICATION GatewaySpec
CONSTANTS
    n1 = n1
    n2 = n2
    n3 = n3
    o1 = o1
    o2 = o2
    r1 = r1
    r2 = r2
    Node = {n1, n2, n3}
    Object = {o1, o2}
    Request = {r1, r2}
    Kinds = {"upload", "delete", "download",
             "register", "login", "logs", "list"}
    Stored = {{o1}}
    EmptyObject = {}
    FullNode = {}
    NoNode = NoNode
    NoObject = NoObject
    MinRF = 2
    DefaultRF = 2
    MaxRF = 3
    Factors = {2}
    FaultBound <- MixedFaults
    Email = {e1}
    e1 = e1
    NoEmail = NoEmail
    NoUser = NoUser
    LoggedBefore = 2
    PageSize = 1
    Queries = {{o1, o2}}
    UploadTime <- NewestFirst
SYMMETRY Symmetries
CHECK_DEADLOCK FALSE
INVARIANTS
    GatewayTypeOK
    HollowObjectsArePaidFor
    DownloadSucceeds
    FilesHaveOwners
    RegistrationsStand
    LogWalksAreWhole
    ObjectWalksAreWhole
