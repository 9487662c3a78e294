SPECIFICATION Spec
CONSTANTS
    w1 = w1
    w2 = w2
    f1 = f1
    f2 = f2
    n1 = n1
    n2 = n2
    c1 = c1
    a = a
    b = b
    id = id
    Worker = {w1, w2}
    File = {f1, f2}
    Name = {n1, n2}
    Case = {c1}
    Fact = {a, b}
    Identity = id
    Command <- MCCommands
    History = {"empty", "reviewed"}
    MaxCandidates = 3
    MaxCommands = 3
    MaxFaults = 1
INVARIANTS
    LocksCoverChecks
    AcceptanceIsWhole
    ContentStoredOnce
PROPERTIES
    RequestsConverge
