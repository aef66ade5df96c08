CONSTANTS
    s1 = s1
    b1 = b1
    n1 = n1
    n2 = n2
    None = None
    Single = {s1}
    Batch = {b1}
    Vm <- PlainVms
    NodeOf <- OneOfEach
    Node = {n1, n2}
    Channels = {"email"}
    Persistent = TRUE
    Faults = {"crash", "error", "wedge", "email"}
    MaxFaults = 2
SPECIFICATION Spec
INVARIANTS TypeOK RowsAreFaithful FailuresAccountedFor ProcessedMeansParsed AlertsAreForNewFailures
PROPERTIES HistoryIsNotNews
