SPECIFICATION FairSpec
CONSTANTS
    c1 = c1
    c2 = c2
    c3 = c3
    b1 = b1
    b2 = b2
    bad = bad
    s1 = s1
    Callers = {c1, c2}
    Batches = {b1, b2, bad}
    Rejected = {bad}
    Series = {s1}
    SeriesOf <- MCSeriesOf
    CutoffOf <- MCCutoffOf
    FaultKinds = {"error", "lost_ack", "crash"}
    MaxCalls = 3
    MaxFaults = 2
    MaxClock = 1
PROPERTIES
    ImplementsImportOnce
    CallsReturn
