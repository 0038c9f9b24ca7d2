SPECIFICATION Spec
CONSTANTS
    Requests = {r1, r2, r3}
    Tiers = {"free", "starter"}
    Quota <- PlanQuota
    Window = 2
    MaxTime = 4
SYMMETRY Symmetry
INVARIANTS
    OvershootBounded
    ResetKept
CHECK_DEADLOCK FALSE
