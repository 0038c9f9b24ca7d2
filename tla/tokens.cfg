SPECIFICATION FairSpec
CONSTANTS
    Accounts = {x, m}
    NoAccount = NoAccount
    Rotating = {x}
    Hourly = {x}
    Posted = {x}
    Workers = {sweep, w1}
    Sweeper = sweep
    MaxAges = 1
    MaxConnects = 2
    MaxStarts = 1
    MaxSweeps = 2
    MaxFaults = 1
    Faults = {"transient", "lost", "no_expiry", "undecryptable", "database", "crash"}
INVARIANTS
    ConnectedTokenUsable
    PurgedIsGone
PROPERTY
    EventuallyFresh
CHECK_DEADLOCK FALSE
