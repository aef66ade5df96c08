CONSTANTS
    s1 = s1
    b1 = b1
    n1 = n1
    n2 = n2
    None = None
    Single = {s1}
    Batch = {b1}
    Vm <- OneVm
    NodeOf <- OneOfEach
    Node = {n1, n2}
    Channels = {"email", "discord"}
    Persistent = TRUE
    Faults = {"crash", "error", "wedge", "node", "log", "email", "discord"}
    MaxFaults = 2
SPECIFICATION Spec
INVARIANT AtMostOnce
PROPERTIES LedgerSpec EventuallyStored EventuallySettled
