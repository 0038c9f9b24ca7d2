SPECIFICATION Spec
CONSTANTS
    Requests = {r1, r2}
    Tokens = {t1, t2}
    Links = {l1}
    Tickets = {k1}
    MaxPerEmail = 1
    MaxPerIp = 1
    MaxResets = 1
    MaxEnables = 1
    None = None
INVARIANTS
    SingleUse
    OverlapBounded
    FailuresBounded
    OnlyLateSurvive
SYMMETRY Symmetry
CHECK_DEADLOCK FALSE
