\* One page that changes its selection, four requests, a restart.
SPECIFICATION Spec
CONSTANTS
    x1 = x1
    x2 = x2
    p1 = p1
    r1 = r1
    r2 = r2
    r3 = r3
    r4 = r4
    r5 = r5
    Selections = {x1, x2}
    Pages = {p1}
    Requests = {r1, r2, r3, r4}
    Unbounded = {}
    MaxMoves = 0
    MaxRestarts = 1
    MaxVersion = 5
SYMMETRY RequestSymmetry
CHECK_DEADLOCK FALSE
PROPERTY ShownNeverOlder
