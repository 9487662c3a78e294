\* Two selections, three requests, a restart, fair handlers.
SPECIFICATION CoordFairSpec
CONSTANTS
    x1 = x1
    x2 = x2
    r1 = r1
    r2 = r2
    r3 = r3
    r4 = r4
    r5 = r5
    Selections = {x1, x2}
    Requests = {r1, r2, r3}
    Unbounded = {x2}
    MaxMoves = 1
    MaxRestarts = 1
INVARIANTS
    ProgressHasOwner
    OneAttemptPerGeneration
    ConflictIsNews
PROPERTIES
    RefreshEnds
