SPECIFICATION Spec
CONSTANTS
    People = {ann, bob, cat}
    Founder = ann
    Invites = {i1, i2, i3}
    Offered = {"admin", "owner"}
    Requests = {r1, r2}
    Limits = {1, 2}
    Nobody = Nobody
    NoInvite = NoInvite
SYMMETRY Symmetry
INVARIANTS
    OneOwner
    PendingBounded
    OneUserPerInvite
PROPERTIES
    RevokedStaysOut
CHECK_DEADLOCK FALSE
