SPECIFICATION Spec
CONSTANTS
    b1 = b1
    n1 = n1
    None = None
    Single = {}
    Batch = {b1}
    Vm <- Vms
    NodeOf <- BatchAt
    Node = {n1}
    Channels = {"discord"}
    Persistent = TRUE
    Faults = {"crash", "wedge", "discord"}
    MaxFaults = 1
INVARIANTS EitherAccountsForIt ProcessedMeansParsed TwiceOnlyTogether
