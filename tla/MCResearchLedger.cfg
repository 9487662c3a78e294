SPECIFICATION FairSpec
CONSTANTS
    w1 = w1
    w2 = w2
    good = good
    bad = bad
    Worker = {w1, w2}
    Claim = {1, 2, 3}
    Assertion = {1, 2, 3}
    Evidence = {good, bad}
    Beneficiary = {1, 2}
    Clock = {1, 2, 3}
    IdentityOf <- MCIdentity
    ClaimStatus <- MCClaimStatus
    AssertionStatus <- MCAssertionStatus
    RelationOf <- MCRelation
    SeedLinks <- MCSeedLinks
    SeedBindings <- MCSeedBindings
    Command <- MCCommands
    History <- MCHistory
    MaxCommands = 3
    MaxFaults = 1
INVARIANTS
    ShownSupportIsReal
    OneRevisionPerClaim
    ProfilesRestOnFrozen
PROPERTIES
    FrozenNeverRewritten
    CommandsReturn
