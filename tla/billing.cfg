SPECIFICATION FairSpec
CONSTANTS
    o1 = o1
    o2 = o2
    k1 = k1
    k2 = k2
    k3 = k3
    Orgs = {o1, o2}
    Orderly = {o1}
    Leaving = {o1}
    Checkouts = {k1, k2, k3}
    OrgOf <- MCOrgOf
    TierOf <- MCTierOf
    Changes <- MCChanges
    Handlers = {h1, h2}
    MaxFaults = 1
    NoOrg = NoOrg
    NoCheckout = NoCheckout
INVARIANTS
    PlanIsMirrored
    OwnPaymentsOnly
PROPERTIES
    EventuallyInSync
    EventuallyAnswered
CHECK_DEADLOCK FALSE
