\* Two processes, two companies, few commands on top of the start.
SPECIFICATION MCSpec
CONSTANTS
    Companies = {"a", "b"}
    Names = {"x", "y"}
    MaxTime = 2
    MaxRevisions = 15
    MinPeers = 2
    Codes = {"valuation_context", "risk_penalty"}
    Writers = {w1, w2}
SYMMETRY Perms
INVARIANTS ChainsAreLinear ReadsAnswer RanksAreGrounded
PROPERTY ReadsRepeat
CHECK_DEADLOCK FALSE
