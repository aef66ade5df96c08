SPECIFICATION Spec
CONSTANTS
    w1 = w1
    w2 = w2
    r1 = r1
    r2 = r2
    Web <- Handlers
    Row <- Rows
    Digest = FALSE
    Dialects = {"postgres"}
    Faults = {"statement"}
    MaxFaults = 1
    Reads = 2
    None = None
PROPERTY PollingRecovers
