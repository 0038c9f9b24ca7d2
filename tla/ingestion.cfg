SPECIFICATION Spec
CONSTANTS
    j1 = j1
    j2 = j2
    Jobs = {j1, j2}
    NoJob = NoJob
    Assignments <- MCAssignments
    Runs = {r1, r2}
    MaxReactions = 1
    MaxChanges = 1
    Slots = {1, 2}
    TopN = 1
INVARIANTS
    OverviewTrue
PROPERTIES
    GoesBackOnlyByOverlap
SYMMETRY Symmetry
CHECK_DEADLOCK FALSE
