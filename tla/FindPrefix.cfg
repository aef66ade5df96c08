CONSTANTS
    s1 = s1
    b1 = b1
    n1 = n1
    n2 = n2
    None = None
    Single = {}
    Batch = {b1}
    Vm <- PrefixVms
    NodeOf <- BatchOnly
    Node = {n1}
    Channels = {"email"}
    Persistent = TRUE
    Faults = {}
    MaxFaults = 0
SPECIFICATION Spec
INVARIANT OneAlertPerUpid
