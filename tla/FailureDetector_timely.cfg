SPECIFICATION Spec
CONSTANTS
    n1 = n1
    Node = {n1}
    Interval = 2
    Check = 2
    Timeout = 11
    CallTime = 3
    Delay = 1
    Gap = 1
    Sweep = 1
    Losses = 1
    Failures = 1
    DbErrors = 1
    Horizon = 24
CHECK_DEADLOCK FALSE
INVARIANTS
    TypeOK
    UpMeansOnline
    DownMeansOffline
    LoggedOnce
