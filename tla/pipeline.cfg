SPECIFICATION FairSpec
CONSTANTS
    Jobs = {j1, j2}
    Carousels = {j2}
    Entries = {e1, e2}
    Ticks = {t1, t2}
    Requests = {r1}
    NoJob = NoJob
    MaxAttempts = 2
    MaxStalls = 0
    MaxRequeues = 0
    Ops = {"now", "schedule", "cancelScheduled", "delete"}
    Faults = {}
INVARIANTS
    AtMostOncePosted
    SingleDispatch
    CancelWins
    StatusNeverLies
    OneOutcomeTold
PROPERTIES
    ImplementsLifecycle
    EventuallySettled
    EventuallyTold
CHECK_DEADLOCK FALSE
