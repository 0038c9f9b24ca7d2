SPECIFICATION Spec
CONSTANTS
    page = page
    gram = gram
    profile = profile
    u1 = u1
    u2 = u2
    o1 = o1
    f1 = f1
    f2 = f2
    f3 = f3
    f4 = f4
    d1 = d1
    Orgs = {o1}
    Accounts = {page, gram, profile}
    PlatformOf <- MCPlatformOf
    Users = {u1, u2}
    Admins <- MCAdmins
    Flows = {f1, f2, f3, f4}
    FlowFor <- MCFlowFor
    Callbacks = {c1, c2}
    Deletions = {d1}
    Withdraws <- MCWithdraws
    Limits = {1, 2}
    NoUser = NoUser
    NoFlow = NoFlow
INVARIANTS
    OvershootBounded
    CompletedMeansPurged
SYMMETRY Symmetry
CHECK_DEADLOCK FALSE
