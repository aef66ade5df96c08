SPECIFICATION Spec
CONSTANTS
    w1 = w1
    w2 = w2
    r1 = r1
    r2 = r2
    Web <- Handlers
    Row <- Rows
    Digest = TRUE
    Dialects = {"sqlite", "postgres", "memory"}
    Faults = {"socket", "statement"}
    MaxFaults = 3
    Reads = 2
    None = None
INVARIANTS TypeOK CommitIsWhole NeverWedged
PROPERTIES WebRecovers OnlyAbortsEndPolling
