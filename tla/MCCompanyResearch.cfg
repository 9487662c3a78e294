SPECIFICATION Spec
CONSTANTS
    w1 = w1
    w2 = w2
    f1 = f1
    f2 = f2
    good = good
    bad = bad
    Worker = {w1, w2}
    File = {f1, f2}
    Key = {1}
    Claim = {1, 2, 3}
    HandoffClaims = {1, 2}
    HandoffAt = 1
    Evidence = {good, bad}
    Clock = {1, 2}
    PoolOf <- MCPoolOf
    ClaimStatus <- MCClaimStatus
    RelationOf <- MCRelationOf
    SeedLinks <- MCSeedLinks
    Command <- MCCommands
    History = {"empty", "opened", "assessed"}
    MaxCommands = 4
    MaxFaults = 1
INVARIANTS
    CyclesAreKnown
    ChainsAreAccepted
PROPERTIES
    FreezesAreComplete
