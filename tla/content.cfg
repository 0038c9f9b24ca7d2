SPECIFICATION Spec
CONSTANTS
    Assets = {a1, a2}
    Platforms = {p1, p2}
    Jobs = {j1, j2}
    Requests = {r1, r2}
    NoAsset = NoAsset
SYMMETRY Symmetry
INVARIANTS
    NothingOrphaned
    JobsCleared
PROPERTIES
    IllegalOnlyByOverlap
CHECK_DEADLOCK FALSE
