SPECIFICATION Spec
CONSTANTS
    Jobs = {j1}
    Carousels = {}
    Entries = {e1, e2}
    Ticks = {t1}
    Requests = {r1}
    NoJob = NoJob
    MaxAttempts = 2
    MaxStalls = 1
    MaxRequeues = 1
    Ops = {"schedule", "requeue", "cancelJob", "delete"}
    Faults = {"ambiguous", "db", "token", "enqueue", "crash"}
SYMMETRY Symmetry
INVARIANTS
    PublishedMeansPosted
    CallsBounded
PROPERTIES
    DeletedNotStarted
CHECK_DEADLOCK FALSE
