SPECIFICATION Spec
CONSTANTS
    People = {ann, bob}
    Founder = ann
    Invites = {i1}
    Offered = {"editor"}
    Requests = {r1}
    Limits = {2}
    Nobody = Nobody
    NoInvite = NoInvite
INVARIANTS
    OwnerCanLeave
CHECK_DEADLOCK FALSE
