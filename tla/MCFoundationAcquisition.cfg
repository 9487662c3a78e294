SPECIFICATION AcquisitionSpec
CONSTANTS
    c1 = c1
    c2 = c2
    stock = stock
    index = index
    wide = wide
    Callers = {c1, c2}
    Batches <- MCBatches
    Rejected = {}
    Series = {"market", "benchmark"}
    SeriesOf <- MCSeriesOf
    CutoffOf <- MCCutoffOf
    FaultKinds = {"error", "lost_ack", "crash"}
    Inputs <- MCInputs
    InputOf <- MCInputOf
    BundleOf <- MCBundleOf
    Others <- MCOthers
    Indices = {index}
    Horizon = 2
    MaxSessions = 2
    MaxAttempts = 2
    NoJob = NoJob
    MaxCalls = 3
    MaxFaults = 1
    MaxClock = 2
SYMMETRY CallerSymmetry
INVARIANTS
    OneSuccessPerBatch
    RowsBelongToSuccess
    RepliesNameSuccess
    OutcomesStand
    CompleteCanBeHandedOn
PROPERTIES
    SettledReadsRepeat
